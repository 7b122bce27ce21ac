----------------------------- MODULE MediaProvider -----------------------------
(***************************************************************************)
(* The OISPMedia server: OICFMediaProviderImpl, the D-Bus object behind    *)
(* which the music list, the player and the playlist logic live.           *)
(*                                                                         *)
(* The server is one thread: the Ecore main loop calls one handler at a    *)
(* time, a D-Bus method or an Emotion callback, and each handler is one    *)
(* action here.  What a handler sends to the listeners is emitted, in      *)
(* order, for the duration of the step.  Paths and files are sequences of  *)
(* names below the music root; a path vector is the LineVector of D-Bus.   *)
(***************************************************************************)
EXTENDS Player, FiniteSets

CONSTANTS
  Name,         \* file and folder names
  Disks,        \* the contents the music folder may have
  PathVectors,  \* the paths clients pass to selectPath
  ClientLines,  \* the lines clients pass to selectTitle
  Nums,         \* the arguments clients pass to incrementTitle
  Positions,    \* the positions Emotion reports, in ticks
  MaxDepth      \* bound: folders are entered down to this depth

VARIABLES
  disk,                 \* contents of the music folder: path -> listing
  status,               \* of the process: "down", "up" or "crashed"
  m_CurrentPath,        \* path the titles are opened from
  m_CurrentPathVector,  \* the same path, as the clients gave it
  mFilelist,            \* the list shown last
  m_playingTitleID,     \* id the playlist continues from
  mStartup,             \* no title was started by the server yet
  player,               \* see Player
  emitted               \* listener calls of the step that led here

server == <<status, m_CurrentPath, m_CurrentPathVector, mFilelist,
            m_playingTitleID, mStartup, player>>
vars == <<disk, server, emitted>>

InvalidID == -1

UpLine == [name |-> "Up", type |-> "FolderUp", id |-> InvalidID]

Line == [name : Name, type : {"Title", "Folder"}, id : Nat] \cup {UpLine}

Listing == [dirs : Seq(Name), files : Seq(Name)]

ASSUME MediaAssumption ==
  /\ \A d \in Disks : \A p \in DOMAIN d : d[p] \in Listing
  /\ \A v \in PathVectors : v \in Seq(Line)
  /\ \A l \in ClientLines : l \in Line
  /\ \A n \in Nums : n \in Int
  /\ \A t \in Positions : t \in Nat
  /\ MaxDepth \in Nat

-----------------------------------------------------------------------------
(* The listener calls.                                                     *)

\* Faulty variants: the call is made before the member it tells is assigned.
WindowListResultOfBefore(list) ==
  [call |-> "getWindowListResult", list |-> mFilelist]
SelectedPathOfBefore(vec) ==
  [call |-> "updateSelectedPath", path |-> m_CurrentPathVector]
SelectedTitleOfBefore(line) ==
  [call |-> "updateSelectedTitle",
   title |-> IF \E l \in ClientLines : l.id = m_playingTitleID
             THEN CHOOSE l \in ClientLines : l.id = m_playingTitleID ELSE line]

WindowListResult(list) == [call |-> "getWindowListResult", list |-> list]
SelectedTitle(line)    == [call |-> "updateSelectedTitle", title |-> line]
SelectedPath(vec)      == [call |-> "updateSelectedPath", path |-> vec]
PlayPosition(second)   == [call |-> "updatePlayPosition", pos |-> second]

Call == [call : {"getWindowListResult"}, list : Seq(Line)]
          \cup [call : {"updateSelectedTitle"}, title : Line]
          \cup [call : {"updateSelectedPath"}, path : Seq(Line)]
          \cup [call : {"updatePlayPosition"}, pos : Nat]

-----------------------------------------------------------------------------
(* Lists.                                                                  *)

\* What DirectoryList finds below a path: the sorted folders and the sorted
\* music files; nothing where the path does not exist.
Contents(path) ==
  IF path \in DOMAIN disk THEN disk[path] ELSE [dirs |-> <<>>, files |-> <<>>]

\* Whether Emotion finds a file to open.
Exists(file) ==
  \E path \in DOMAIN disk : \E k \in DOMAIN disk[path].files :
     file = Append(path, disk[path].files[k])

\* Faulty variant: the first id is one too small.
LinesFromBefore(names, type, first) ==
  [k \in 1 .. Len(names) |->
     [name |-> names[k], type |-> type, id |-> first + k - 2]]

Lines(names, type, first) ==
  [k \in 1 .. Len(names) |->
     [name |-> names[k], type |-> type, id |-> first + k - 1]]

UpLines(vec) == IF vec = <<>> THEN <<>> ELSE <<UpLine>>

\* Faulty variant: folders and files are numbered from 0 each.
WindowListTwoIndices(path, vec) ==
  UpLines(vec) \o Lines(Contents(path).dirs, "Folder", 0)
               \o Lines(Contents(path).files, "Title", 0)

WindowList(path, vec) ==
  UpLines(vec) \o Lines(Contents(path).dirs, "Folder", 0)
               \o Lines(Contents(path).files, "Title", Len(Contents(path).dirs))

\* The first of a set of list positions, as a set: empty if there is none.
First(S) == {k \in S : \A j \in S : k <= j}

Titles(list) == {k \in DOMAIN list : list[k].type = "Title"}

\* Faulty variant: names are appended to the path of before.
PathToFromHere(vec) ==
  m_CurrentPath \o [k \in DOMAIN vec |-> vec[k].name]

\* The path of selectPath: the root, then one name per line.
PathTo(vec) == [k \in DOMAIN vec |-> vec[k].name]

-----------------------------------------------------------------------------
(* Pieces of handlers.                                                     *)

\* Faulty variant: the first title is played whenever a list is shown.
PlaysFirstTitleAlways(list, startup) == Titles(list) # {}

PlaysFirstTitle(list, startup) == startup /\ Titles(list) # {}

\* The body of getWindowList in the state (path, vec, id, startup, pl) its
\* caller has reached, after the calls the caller has already made.  The
\* title being played is never announced here: m_PlayingPath, which has to be
\* the current path for that, is assigned nowhere.
ShowWindowList(path, vec, id, startup, pl, calls) ==
  LET list == WindowList(path, vec) IN
  /\ mFilelist' = list
  /\ emitted' = Append(calls, WindowListResult(list))
  /\ \/ /\ PlaysFirstTitle(list, startup)
        /\ \E k \in First(Titles(list)) :
             LET file == <<list[k].name>> IN   \* m_RootPath + "/" + file
             /\ player' = play(open(pl, file, Exists(file)))
             /\ m_playingTitleID' = list[k].id
        /\ mStartup' = FALSE
     \/ /\ ~PlaysFirstTitle(list, startup)
        /\ player' = pl
        /\ m_playingTitleID' = id
        /\ mStartup' = startup

\* selectPath followed by getWindowList, as selectTitle calls them for a
\* folder: title is the line the client selected, vec the path it leads to.
EnterFolder(title, vec) ==
  /\ m_CurrentPathVector' = vec
  /\ m_CurrentPath' = PathTo(vec)
  /\ ShowWindowList(PathTo(vec), vec, title.id, mStartup, player,
                    <<SelectedPath(vec)>>)
  /\ UNCHANGED <<disk, status>>

\* Faulty variant: the new title is not announced.
PlayLineSilently(line, pl) ==
  LET file == Append(m_CurrentPath, line.name) IN
  /\ player' = play(open(stop(pl), file, Exists(file)))
  /\ m_playingTitleID' = line.id
  /\ emitted' = <<>>
  /\ UNCHANGED <<disk, status, m_CurrentPath, m_CurrentPathVector, mFilelist,
                 mStartup>>

\* stop, open, play and announce a line of the list.
PlayLine(line, pl) ==
  LET file == Append(m_CurrentPath, line.name) IN
  /\ player' = play(open(stop(pl), file, Exists(file)))
  /\ m_playingTitleID' = line.id
  /\ emitted' = <<SelectedTitle(line)>>
  /\ UNCHANGED <<disk, status, m_CurrentPath, m_CurrentPathVector, mFilelist,
                 mStartup>>

\* The process is gone, and what it had in memory with it.
Gone(how) ==
  /\ status' = how
  /\ m_CurrentPath' = <<>> /\ m_CurrentPathVector' = <<>>
  /\ mFilelist' = <<>>
  /\ m_playingTitleID' = InvalidID /\ mStartup' = TRUE
  /\ player' = NewPlayer
  /\ emitted' = <<>>
  /\ UNCHANGED disk

\* Where incrementTitle finds the id it continues from.
Here == First({k \in DOMAIN mFilelist : mFilelist[k].id = m_playingTitleID})

\* The line incrementTitle(num) moves to, as a set: the one num further; the
\* first title again if there is no line to continue from or the end of the
\* list is hit exactly; beyond the bounds of the vector, whatever is in memory.
OutOfBounds(num) ==
  \E k \in Here : k + num \notin 1 .. Len(mFilelist) + 1

\* Faulty variant: the last line of the list is never reached.
RestartsEarly(num) == \A k \in Here : k + num >= Len(mFilelist)

Restarts(num) == \A k \in Here : k + num = Len(mFilelist) + 1

NextLines(num) ==
  CASE OutOfBounds(num) -> ClientLines
    [] Restarts(num)    -> {mFilelist[k] : k \in First(Titles(mFilelist))}
    [] OTHER            -> {mFilelist[k + num] : k \in Here}

\* incrementTitle, pl being the player when it is called.  Without a line to
\* move to the code stops the player and dereferences NULL.
Advance(num, pl) ==
  \/ /\ m_playingTitleID < 0
     /\ player' = pl
     /\ emitted' = <<>>
     /\ UNCHANGED <<disk, status, m_CurrentPath, m_CurrentPathVector,
                    mFilelist, m_playingTitleID, mStartup>>
  \/ /\ m_playingTitleID >= 0
     /\ \E line \in NextLines(num) : PlayLine(line, pl)
  \/ /\ m_playingTitleID >= 0
     /\ OutOfBounds(num) \/ NextLines(num) = {}
     /\ Gone("crashed")

-----------------------------------------------------------------------------
(* The process.                                                            *)

Init ==
  /\ disk \in Disks
  /\ status = "down"
  /\ m_CurrentPath = <<>> /\ m_CurrentPathVector = <<>>
  /\ mFilelist = <<>>
  /\ m_playingTitleID = InvalidID /\ mStartup = TRUE
  /\ player = NewPlayer
  /\ emitted = <<>>

\* main: construct the objects, connect them, show the first list.
Start ==
  /\ status # "up"
  /\ status' = "up"
  /\ m_CurrentPath' = <<>> /\ m_CurrentPathVector' = <<>>
  /\ ShowWindowList(<<>>, <<>>, InvalidID, TRUE, NewPlayer, <<>>)
  /\ UNCHANGED disk

\* SIGTERM or SIGINT.
Quit ==
  /\ status = "up"
  /\ Gone("down")

-----------------------------------------------------------------------------
(* The D-Bus methods.                                                      *)

\* The arguments start and end are not used.
getWindowList ==
  /\ status = "up"
  /\ ShowWindowList(m_CurrentPath, m_CurrentPathVector, m_playingTitleID,
                    mStartup, player, <<>>)
  /\ UNCHANGED <<disk, status, m_CurrentPath, m_CurrentPathVector>>

selectPath(path) ==
  /\ status = "up"
  /\ m_CurrentPath' = PathTo(path)
  /\ m_CurrentPathVector' = path
  /\ emitted' = <<SelectedPath(path)>>
  /\ UNCHANGED <<disk, status, mFilelist, m_playingTitleID, mStartup, player>>

incrementTitle(num) ==
  /\ status = "up"
  /\ Advance(num, player)

\* changeDevice and decrementTitle have no effect.
NoEffect ==
  /\ status = "up"
  /\ emitted' = <<>>
  /\ UNCHANGED <<disk, server>>

\* The list positions that answer to the line a client selects.
Selected(title) ==
  First({k \in DOMAIN mFilelist : /\ mFilelist[k].id = title.id
                                  /\ mFilelist[k].type = title.type})

selectTitle(title) ==
  /\ status = "up"
  /\ \/ /\ Selected(title) = {}
        /\ m_playingTitleID' = InvalidID
        /\ emitted' = <<>>
        /\ UNCHANGED <<disk, status, m_CurrentPath, m_CurrentPathVector,
                       mFilelist, mStartup, player>>
     \/ /\ title.type = "Title"
        /\ \E k \in Selected(title) : PlayLine(mFilelist[k], player)
     \/ /\ title.type = "Folder"
        /\ Selected(title) # {}
        /\ Len(m_CurrentPathVector) < MaxDepth
        /\ EnterFolder(title, Append(m_CurrentPathVector, title))
     \/ /\ title.type = "FolderUp"
        /\ Selected(title) # {}
        /\ m_CurrentPathVector # <<>>
        /\ EnterFolder(title, SubSeq(m_CurrentPathVector, 1,
                                     Len(m_CurrentPathVector) - 1))
     \/ /\ title.type = "FolderUp"   \* pop_back of an empty vector
        /\ Selected(title) # {}
        /\ m_CurrentPathVector = <<>>
        /\ Gone("crashed")

pauseTitle ==
  /\ status = "up"
  /\ player' = pause(player)
  /\ emitted' = <<>>
  /\ UNCHANGED <<disk, status, m_CurrentPath, m_CurrentPathVector, mFilelist,
                 m_playingTitleID, mStartup>>

-----------------------------------------------------------------------------
(* The Emotion callbacks.                                                  *)

OnlyPlayer ==
  UNCHANGED <<disk, status, m_CurrentPath, m_CurrentPathVector, mFilelist,
              m_playingTitleID, mStartup>>

\* decode_stop: Player::decodeStop, and nextTitle where it is signalled.
DecodeStop ==
  /\ status = "up"
  /\ player.decode_stop # "none"
  /\ \/ /\ nextTitleWanted(player)
        /\ Advance(1, delivered(player))
     \/ /\ ~nextTitleWanted(player)
        /\ player' = delivered(player)
        /\ emitted' = <<>>
        /\ OnlyPlayer

\* position_update: Player::positionUpdate and updatePlayPositionWrap; the
\* length of the title is passed on with the position.
PositionUpdate(tick) ==
  /\ status = "up"
  /\ player.loaded /\ player.playing
  /\ player' = positionUpdate(player, tick)
  /\ emitted' = IF positionChanged(player, tick)
                THEN <<PlayPosition(Second(tick))>> ELSE <<>>
  /\ OnlyPlayer

-----------------------------------------------------------------------------
(* The environment: the engine reaches the end of a title or flushes an    *)
(* old event, and the music folder changes under the server.               *)

TitleEnds ==
  /\ status = "up"
  /\ CanEnd(player)
  /\ player' = titleEnds(player)
  /\ emitted' = <<>>
  /\ OnlyPlayer

StaleFlushed ==
  /\ status = "up"
  /\ player.decode_stop = "stale"
  /\ player' = flushed(player)
  /\ emitted' = <<>>
  /\ OnlyPlayer

DiskChanges ==
  /\ disk' \in Disks \ {disk}
  /\ emitted' = <<>>
  /\ UNCHANGED server

-----------------------------------------------------------------------------
ClientCall ==
  \/ getWindowList
  \/ \E path \in PathVectors : selectPath(path)
  \/ \E num \in Nums : incrementTitle(num)
  \/ NoEffect
  \/ \E title \in ClientLines : selectTitle(title)
  \/ pauseTitle

Engine ==
  \/ DecodeStop
  \/ \E tick \in Positions : PositionUpdate(tick)
  \/ TitleEnds
  \/ StaleFlushed

Next == Start \/ Quit \/ ClientCall \/ Engine \/ DiskChanges

Spec == Init /\ [][Next]_vars

-----------------------------------------------------------------------------
(* Properties.                                                             *)

\* Every variable has its type.
TypeOK ==
  /\ disk \in Disks
  /\ status \in {"down", "up", "crashed"}
  /\ m_CurrentPath \in Seq(Name \cup {"Up"})
  /\ m_CurrentPathVector \in Seq(Line)
  /\ mFilelist \in Seq(Line)
  /\ m_playingTitleID \in Nat \cup {InvalidID}
  /\ mStartup \in BOOLEAN
  /\ player \in PlayerType(Name \cup {"Up"})
  /\ emitted \in Seq(Call)

\* The path titles are opened from and the path vector the clients see name
\* the same folder, whatever mixture of selectPath and folder lines led there.
LocationCoherent ==
  /\ Len(m_CurrentPath) = Len(m_CurrentPathVector)
  /\ \A k \in DOMAIN m_CurrentPath :
       m_CurrentPath[k] = m_CurrentPathVector[k].name

\* An id names one line of the list: selectTitle, which compares id and type,
\* and incrementTitle, which compares the id alone, mean the same line.
IdNamesOneLine ==
  \A j, k \in DOMAIN mFilelist : mFilelist[j].id = mFilelist[k].id => j = k

\* The player is stopped only while it has never been given a file: every stop
\* of a handler is followed by the play of the same handler.
StoppedIffNothingOpened ==
  player.mPlayState = "STOPPED" <=> player.file = NoFile

\* The engine makes sound only while the server believes it is playing.
EngineFollowsState == player.playing => player.mPlayState = "PLAYING"

\* Moving between folders and showing lists leaves the music alone once the
\* startup title has been started, whatever the lists contain.
BrowsingKeepsMusic ==
  [][ (/\ status = "up" /\ status' = "up" /\ ~mStartup
       /\ \/ mFilelist' # mFilelist
          \/ m_CurrentPathVector' # m_CurrentPathVector)
      => UNCHANGED player ]_vars

\* Every title the server moves to after the startup title is announced to the
\* listeners, and it is the line they can find it under by the id kept.
TitleChangeAnnounced ==
  [][ (status = "up" /\ status' = "up" /\ ~mStartup
       /\ player'.file # player.file)
      => /\ Len(emitted') = 1
         /\ emitted'[1].call = "updateSelectedTitle"
         /\ player'.file = Append(m_CurrentPath, emitted'[1].title.name)
         /\ m_playingTitleID' = emitted'[1].title.id ]_vars

\* A paused player stays at its title until a client calls: the end of the
\* title, noticed late, does not start the next one behind the pause.
PauseHoldsTitle ==
  [][ (Engine /\ player.mPlayState = "PAUSED")
      => (player'.mPlayState = "PAUSED" /\ player'.file = player.file) ]_vars

-----------------------------------------------------------------------------
(* What the comments of the code say; the runs that check these show where *)
(* the code does something else.                                           *)

\* OICFMediaProviderImpl.cpp:205, "select next file if available": what follows
\* a title by itself is a file.
NextIsAFile ==
  [][ (status' = "up" /\ DecodeStop /\ emitted' # <<>>)
      => emitted'[1].title.type = "Title" ]_vars

\* OICFMediaProviderImpl.cpp:213, "if file wasn't found in playlist restart
\* playlist": the end of a title never ends the process.
TitleEndSurvived == [][ DecodeStop => status' = "up" ]_vars
=============================================================================
