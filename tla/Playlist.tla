------------------------------- MODULE Playlist -------------------------------
(***************************************************************************)
(* What OISPMedia promises to somebody who stays in one folder: a playlist *)
(* of Size titles that is played in order and from the start again, that   *)
(* can be stepped through, chosen from and paused.                         *)
(***************************************************************************)
EXTENDS Integers

CONSTANT Size   \* number of titles, at least one

VARIABLES
  track,  \* the title the playlist is at, 0 while it is closed
  mode    \* "STOPPED" while it is closed, "PLAYING" or "PAUSED"

vars == <<track, mode>>

TypeOK ==
  /\ track \in 0 .. Size
  /\ mode \in {"STOPPED", "PLAYING", "PAUSED"}
  /\ track = 0 <=> mode = "STOPPED"

Init == track = 0 /\ mode = "STOPPED"

\* The first title is played at once.
Open ==
  /\ mode = "STOPPED"
  /\ track' = 1
  /\ mode' = "PLAYING"

Close ==
  /\ mode # "STOPPED"
  /\ track' = 0
  /\ mode' = "STOPPED"

\* The end of a title, or a step forward: it always plays.
Advance ==
  /\ mode # "STOPPED"
  /\ track' = (track % Size) + 1
  /\ mode' = "PLAYING"

Choose(k) ==
  /\ mode # "STOPPED"
  /\ track' = k
  /\ mode' = "PLAYING"

TogglePause ==
  /\ mode # "STOPPED"
  /\ track' = track
  /\ mode' = IF mode = "PAUSED" THEN "PLAYING" ELSE "PAUSED"

\* What happens without anybody choosing a title.
Continue == Open \/ Close \/ Advance \/ TogglePause

Next ==
  \/ Continue
  \/ \E k \in 1 .. Size : Choose(k)

Spec == Init /\ [][Next]_vars
=============================================================================
