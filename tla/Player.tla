-------------------------------- MODULE Player --------------------------------
(***************************************************************************)
(* The music player of OISPMedia: class Player and the Emotion audio       *)
(* object it drives.                                                       *)
(*                                                                         *)
(* A player is a record                                                    *)
(*   mPlayState    what the server believes: Player::mPlayState            *)
(*   old_position  the static of positionUpdate: last second announced     *)
(*   file          the argument of the last Emotion setFile                *)
(*   loaded        whether Emotion found a file to play there              *)
(*   playing       the Emotion play flag (setPlay)                         *)
(*   decode_stop   the decode_stop event on its way to the main loop:      *)
(*                 "none", of the "current" file, or "stale": of a file    *)
(*                 that has been replaced since the event was queued       *)
(*                                                                         *)
(* The methods are functions from records to records; the module that      *)
(* owns a player composes them into its steps.  rewind and forward have    *)
(* empty bodies, playBackFinished only logs: none of them changes state.   *)
(***************************************************************************)
EXTENDS Integers, Sequences

CONSTANT TicksPerSecond   \* resolution of the position Emotion reports

ASSUME TickAssumption == TicksPerSecond \in Nat \ {0}

\* A file is the sequence of names that leads to it from the music root; no
\* file has the empty one.
NoFile == <<>>

PlayState == {"PLAYING", "STOPPED", "PAUSED"}

PlayerType(Name) ==
  [mPlayState : PlayState, old_position : Nat, file : Seq(Name),
   loaded : BOOLEAN, playing : BOOLEAN,
   decode_stop : {"none", "current", "stale"}]

NewPlayer ==
  [mPlayState |-> "STOPPED", old_position |-> 0, file |-> NoFile,
   loaded |-> FALSE, playing |-> FALSE, decode_stop |-> "none"]

-----------------------------------------------------------------------------
(* The methods.                                                            *)

\* Faulty variant: the engine is started, the play state is forgotten.
playForgetsState(p) == [p EXCEPT !.playing = TRUE]

play(p) == [p EXCEPT !.mPlayState = "PLAYING", !.playing = TRUE]

\* Faulty variant: pausing only changes the server's own state.
pauseKeepsSound(p) ==
  CASE p.mPlayState = "PAUSED"  -> play(p)
    [] p.mPlayState = "PLAYING" -> [p EXCEPT !.mPlayState = "PAUSED"]
    [] p.mPlayState = "STOPPED" -> p

pause(p) ==
  CASE p.mPlayState = "PAUSED"  -> play(p)
    [] p.mPlayState = "PLAYING" -> [p EXCEPT !.mPlayState = "PAUSED",
                                             !.playing = FALSE]
    [] p.mPlayState = "STOPPED" -> p

stop(p) == [p EXCEPT !.mPlayState = "STOPPED", !.playing = FALSE]

\* setFile replaces the file; an event of the old one may still be queued.
open(p, uri, exists) ==
  [p EXCEPT !.file = uri, !.loaded = exists,
            !.decode_stop = IF @ = "none" THEN "none" ELSE "stale"]

\* Faulty variant: a title is followed by the next one in every state.
nextTitleWantedAlways(p) == p.file # NoFile

\* decodeStop emits signalNextTitle only in this case.
nextTitleWanted(p) == p.mPlayState = "PLAYING"

Second(tick) == tick \div TicksPerSecond

\* positionUpdate emits signalUpdatePlayPosition only in this case ...
positionChanged(p, tick) == p.old_position # Second(tick)

\* Faulty variant: the second is remembered rounded up.
positionRoundedUp(p, tick) ==
  [p EXCEPT !.old_position = Second(tick + TicksPerSecond - 1)]

\* ... and remembers the second in every case.
positionUpdate(p, tick) == [p EXCEPT !.old_position = Second(tick)]

-----------------------------------------------------------------------------
(* The Emotion audio object (external).                                    *)

\* The end of a loaded file that is being played queues a decode_stop.
CanEnd(p) == p.loaded /\ p.playing /\ p.decode_stop = "none"

titleEnds(p) == [p EXCEPT !.decode_stop = "current"]

\* A delivered decode_stop leaves the engine idle, unless it is of an old file.
delivered(p) ==
  [p EXCEPT !.decode_stop = "none",
            !.playing = IF p.decode_stop = "current" THEN FALSE ELSE @]

\* setFile may also have flushed the event of the old file.
flushed(p) == [p EXCEPT !.decode_stop = "none"]
=============================================================================
