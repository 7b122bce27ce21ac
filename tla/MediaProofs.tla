------------------------------ MODULE MediaProofs ------------------------------
(***************************************************************************)
(* What holds of the music server, for every music folder, every engine    *)
(* and every listing, and of its clients, for any number of them, of calls *)
(* and of restarts.                                                        *)
(*                                                                         *)
(* The server: the inductive invariant is the conjunction of the types and *)
(* the safety invariants.  Each of these needs the types, and the types    *)
(* need nothing else.                                                      *)
(*                                                                         *)
(* The clients: what a client shows in the end is what the last call of a  *)
(* kind on its way tells, or else what it shows already.  Receiving a call *)
(* leaves that as it is; sending calls replaces it by what the last of     *)
(* them tells.  So it suffices that each handler sends what it has         *)
(* changed.                                                                *)
(***************************************************************************)
EXTENDS MediaSystem, SequenceTheorems, TLAPS

AnyName == Name \cup {"Up"}

\* What every player the server can hold satisfies.
PlayerOK(p) ==
  /\ p \in PlayerType(AnyName)
  /\ p.mPlayState = "STOPPED" <=> p.file = NoFile
  /\ p.playing => p.mPlayState = "PLAYING"

\* What every list the server can show satisfies.
ListOK(list) ==
  /\ list \in Seq(Line)
  /\ \A j, k \in DOMAIN list : list[j].id = list[k].id => j = k

\* What the two forms of the current path satisfy together.
LocationOK(path, vec) ==
  /\ path \in Seq(AnyName)
  /\ vec \in Seq(Line)
  /\ Len(path) = Len(vec)
  /\ \A k \in DOMAIN path : path[k] = vec[k].name

\* The inductive invariant: TypeOK and the four safety invariants, by component.
IInv ==
  /\ disk \in Disks
  /\ status \in {"down", "up", "crashed"}
  /\ LocationOK(m_CurrentPath, m_CurrentPathVector)
  /\ ListOK(mFilelist)
  /\ m_playingTitleID \in Nat \cup {InvalidID}
  /\ mStartup \in BOOLEAN
  /\ PlayerOK(player)
  /\ emitted \in Seq(Call)

LEMMA IInvImplies ==
  IInv => /\ TypeOK
          /\ LocationCoherent
          /\ IdNamesOneLine
          /\ StoppedIffNothingOpened
          /\ EngineFollowsState
BY DEF IInv, TypeOK, LocationCoherent, IdNamesOneLine, StoppedIffNothingOpened,
       EngineFollowsState, LocationOK, ListOK, PlayerOK, AnyName

-----------------------------------------------------------------------------
(* The player.                                                             *)

\* A player that has just been given a file and told to play is in order,
\* whatever it was doing before.
LEMMA PlayOpened ==
  ASSUME NEW p, p \in PlayerType(AnyName),
         NEW file, file \in Seq(AnyName), file # NoFile,
         NEW b, b \in BOOLEAN
  PROVE  /\ PlayerOK(play(open(p, file, b)))
         /\ PlayerOK(play(open(stop(p), file, b)))
         /\ play(open(p, file, b)).file = file
         /\ play(open(stop(p), file, b)).file = file
BY DEF PlayerOK, PlayerType, PlayState, play, open, stop

LEMMA NewPlayerOK == PlayerOK(NewPlayer)
BY DEF PlayerOK, PlayerType, PlayState, NewPlayer, NoFile

LEMMA PausedOK ==
  ASSUME NEW p, PlayerOK(p)
  PROVE  PlayerOK(pause(p))
<1>1. CASE p.mPlayState = "PAUSED"
  BY <1>1 DEF PlayerOK, PlayerType, PlayState, pause, play
<1>2. CASE p.mPlayState = "PLAYING"
  BY <1>2 DEF PlayerOK, PlayerType, PlayState, pause
<1>3. CASE p.mPlayState = "STOPPED"
  BY <1>3 DEF PlayerOK, PlayerType, PlayState, pause
<1>4. QED
  BY <1>1, <1>2, <1>3 DEF PlayerOK, PlayerType, PlayState

LEMMA EngineOK ==
  ASSUME NEW p, PlayerOK(p)
  PROVE  /\ PlayerOK(titleEnds(p))
         /\ PlayerOK(delivered(p))
         /\ PlayerOK(flushed(p))
         /\ \A tick \in Nat : PlayerOK(positionUpdate(p, tick))
<1>1. PlayerOK(titleEnds(p)) /\ PlayerOK(delivered(p)) /\ PlayerOK(flushed(p))
  BY DEF PlayerOK, PlayerType, PlayState, titleEnds, delivered, flushed
<1>2. ASSUME NEW tick \in Nat
      PROVE  PlayerOK(positionUpdate(p, tick))
  <2>1. Second(tick) \in Nat
    BY TickAssumption DEF Second
  <2>2. QED
    BY <2>1 DEF PlayerOK, PlayerType, PlayState, positionUpdate
<1>3. QED
  BY <1>1, <1>2

-----------------------------------------------------------------------------
(* The list.                                                               *)

LEMMA ContentsType ==
  ASSUME disk \in Disks, NEW path
  PROVE  Contents(path) \in Listing
BY MediaAssumption DEF Contents, Listing

\* The ids of a list count up from first.
Numbered(list, first) ==
  /\ list \in Seq(Line)
  /\ \A k \in 1 .. Len(list) : list[k].id = first + k - 1

LEMMA LinesNumbered ==
  ASSUME NEW names \in Seq(Name), NEW type \in {"Title", "Folder"},
         NEW first \in Nat
  PROVE  /\ Numbered(Lines(names, type, first), first)
         /\ Len(Lines(names, type, first)) = Len(names)
<1> DEFINE lines == Lines(names, type, first)
<1>1. ASSUME NEW k \in 1 .. Len(names)
      PROVE  lines[k] \in Line /\ lines[k].id = first + k - 1
  <2>1. names[k] \in Name /\ first + k - 1 \in Nat
    OBVIOUS
  <2>2. QED
    BY <2>1 DEF Lines, Line
<1>2. lines \in [1 .. Len(names) -> Line] /\ Len(names) \in Nat
  BY <1>1 DEF Lines
<1>3. lines \in Seq(Line) /\ Len(lines) = Len(names)
  BY <1>2
<1>4. QED
  BY <1>1, <1>3 DEF Numbered

LEMMA NumberedConcat ==
  ASSUME NEW s, NEW t, NEW first \in Int,
         Numbered(s, first), Numbered(t, first + Len(s))
  PROVE  Numbered(s \o t, first)
<1>1. /\ s \o t \in Seq(Line)
      /\ Len(s \o t) = Len(s) + Len(t)
      /\ \A k \in 1 .. Len(s) + Len(t) :
           (s \o t)[k] = IF k <= Len(s) THEN s[k] ELSE t[k - Len(s)]
  BY ConcatProperties DEF Numbered
<1>2. ASSUME NEW k \in 1 .. Len(s) + Len(t)
      PROVE  (s \o t)[k].id = first + k - 1
  <2>1. CASE k <= Len(s)
    BY <1>1, <2>1 DEF Numbered
  <2>2. CASE k > Len(s)
    <3>1. k - Len(s) \in 1 .. Len(t)
      BY <2>2 DEF Numbered
    <3>2. t[k - Len(s)].id = first + Len(s) + (k - Len(s)) - 1
      BY <3>1 DEF Numbered
    <3>3. QED
      BY <1>1, <2>2, <3>2 DEF Numbered
  <2>3. QED
    BY <2>1, <2>2 DEF Numbered
<1>3. QED
  BY <1>1, <1>2 DEF Numbered

\* The list of any folder: ids count up from -1 or 0, so no two lines share one.
LEMMA WindowListOK ==
  ASSUME disk \in Disks, NEW path, NEW vec
  PROVE  ListOK(WindowList(path, vec))
<1> DEFINE dirs == Contents(path).dirs
           files == Contents(path).files
           up == UpLines(vec)
           folders == Lines(dirs, "Folder", 0)
           titles == Lines(files, "Title", Len(dirs))
           first == -Len(up)
<1>1. dirs \in Seq(Name) /\ files \in Seq(Name) /\ Len(dirs) \in Nat
  BY ContentsType DEF Listing
<1>2. Numbered(up, first) /\ Len(up) \in Nat
  <2>1. CASE vec = <<>>
    BY <2>1 DEF Numbered, UpLines
  <2>2. CASE vec # <<>>
    <3>1. up = <<UpLine>> /\ UpLine \in Line /\ UpLine.id = -1
      BY <2>2 DEF UpLines, UpLine, Line, InvalidID
    <3>2. up \in Seq(Line) /\ Len(up) = 1 /\ up[1] = UpLine
      BY <3>1
    <3>3. QED
      BY <3>1, <3>2 DEF Numbered
  <2>3. QED
    BY <2>1, <2>2
<1>3. Numbered(folders, 0) /\ Len(folders) = Len(dirs)
  BY <1>1, LinesNumbered
<1>4. Numbered(titles, Len(dirs))
  BY <1>1, LinesNumbered
<1> HIDE DEF dirs, files, up, folders, titles
<1>5. Numbered(up \o folders, first)
  BY <1>2, <1>3, NumberedConcat
<1>6. first + Len(up \o folders) = Len(dirs)
  BY <1>1, <1>2, <1>3, ConcatProperties DEF Numbered
<1>7. Numbered((up \o folders) \o titles, first)
  <2>1. first \in Int
    BY <1>2
  <2>2. Numbered(titles, first + Len(up \o folders))
    BY <1>4, <1>6
  <2> HIDE DEF first
  <2>3. QED
    BY <1>5, <2>1, <2>2, NumberedConcat
<1>8. WindowList(path, vec) = (up \o folders) \o titles
  BY DEF WindowList, dirs, files, up, folders, titles
<1>9. Numbered(WindowList(path, vec), first)
  BY <1>7, <1>8
<1>10. first \in Int
  BY <1>2
<1> HIDE DEF first
<1>11. QED
  BY <1>9, <1>10 DEF ListOK, Numbered

-----------------------------------------------------------------------------
(* Pieces of handlers.                                                     *)

LEMMA CallTypes ==
  /\ \A l \in Line : SelectedTitle(l) \in Call
  /\ \A v \in Seq(Line) : SelectedPath(v) \in Call /\ WindowListResult(v) \in Call
  /\ \A n \in Nat : PlayPosition(n) \in Call
BY DEF Call, SelectedTitle, SelectedPath, WindowListResult, PlayPosition

LEMMA LocationOfPath ==
  ASSUME NEW vec \in Seq(Line)
  PROVE  LocationOK(PathTo(vec), vec)
<1>1. \A k \in 1 .. Len(vec) : vec[k].name \in AnyName
  BY DEF Line, UpLine, AnyName
<1>2. PathTo(vec) \in [1 .. Len(vec) -> AnyName] /\ Len(vec) \in Nat
  BY <1>1 DEF PathTo
<1>3. PathTo(vec) \in Seq(AnyName) /\ Len(PathTo(vec)) = Len(vec)
  BY <1>2
<1>4. QED
  BY <1>3 DEF LocationOK, PathTo

LEMMA EmptyLocation == LocationOK(<<>>, <<>>) /\ ListOK(<<>>)
BY DEF LocationOK, ListOK

\* What getWindowList leaves behind, whoever sends it.
LEMMA ShowOK ==
  ASSUME disk \in Disks, NEW path, NEW vec,
         NEW id \in Nat \cup {InvalidID}, NEW startup \in BOOLEAN,
         NEW pl, PlayerOK(pl), NEW sends \in Seq(Call),
         ShowWindowList(path, vec, id, startup, pl, sends)
  PROVE  /\ ListOK(mFilelist')
         /\ emitted' \in Seq(Call)
         /\ PlayerOK(player')
         /\ m_playingTitleID' \in Nat \cup {InvalidID}
         /\ mStartup' \in BOOLEAN
<1> DEFINE list == WindowList(path, vec)
<1>1. ListOK(list) /\ mFilelist' = list
  BY WindowListOK DEF ShowWindowList
<1>2. emitted' \in Seq(Call)
  <2>1. WindowListResult(list) \in Call
    BY <1>1, CallTypes DEF ListOK
  <2>2. QED
    BY <2>1 DEF ShowWindowList
<1>3. CASE PlaysFirstTitle(list, startup)
  <2>1. PICK k \in First(Titles(list)) :
          /\ player' = play(open(pl, <<list[k].name>>, Exists(<<list[k].name>>)))
          /\ m_playingTitleID' = list[k].id
    BY <1>3 DEF ShowWindowList
  <2>2. mStartup' = FALSE
    BY <1>3 DEF ShowWindowList
  <2>3. k \in DOMAIN list
    BY DEF First, Titles
  <2>4. list[k] \in Line
    BY <1>1, <2>3 DEF ListOK
  <2>5. list[k].name \in AnyName /\ list[k].id \in Nat \cup {InvalidID}
    BY <2>4 DEF Line, UpLine, AnyName, InvalidID
  <2>6. <<list[k].name>> \in Seq(AnyName) /\ <<list[k].name>> # NoFile
    BY <2>5 DEF NoFile
  <2>7. Exists(<<list[k].name>>) \in BOOLEAN
    BY DEF Exists
  <2>8. PlayerOK(player')
    <3>1. pl \in PlayerType(AnyName)
      BY DEF PlayerOK
    <3>2. QED
      BY <2>1, <2>6, <2>7, <3>1, PlayOpened
  <2>9. QED
    BY <1>1, <1>2, <2>1, <2>2, <2>5, <2>8
<1>4. CASE ~PlaysFirstTitle(list, startup)
  BY <1>1, <1>2, <1>4 DEF ShowWindowList
<1>5. QED
  BY <1>3, <1>4

LEMMA EnterFolderOK ==
  ASSUME IInv, NEW title \in Line, NEW vec \in Seq(Line),
         EnterFolder(title, vec)
  PROVE  IInv'
<1>1. title.id \in Nat \cup {InvalidID}
  BY DEF Line, UpLine, InvalidID
<1>2. <<SelectedPath(vec)>> \in Seq(Call)
  BY CallTypes
<1>3. /\ ListOK(mFilelist')
      /\ emitted' \in Seq(Call)
      /\ PlayerOK(player')
      /\ m_playingTitleID' \in Nat \cup {InvalidID}
      /\ mStartup' \in BOOLEAN
  BY <1>1, <1>2, ShowOK DEF EnterFolder, IInv
<1>4. LocationOK(m_CurrentPath', m_CurrentPathVector')
  BY LocationOfPath DEF EnterFolder
<1>5. QED
  BY <1>3, <1>4 DEF IInv, EnterFolder

LEMMA PlayLineOK ==
  ASSUME IInv, NEW line \in Line, NEW pl, PlayerOK(pl), PlayLine(line, pl)
  PROVE  IInv'
<1> DEFINE file == Append(m_CurrentPath, line.name)
<1>1. line.name \in AnyName /\ line.id \in Nat \cup {InvalidID}
  BY DEF Line, UpLine, AnyName, InvalidID
<1>2. file \in Seq(AnyName) /\ file # NoFile
  <2>1. m_CurrentPath \in Seq(AnyName)
    BY DEF IInv, LocationOK
  <2>2. file \in Seq(AnyName) /\ Len(file) = Len(m_CurrentPath) + 1
    BY <1>1, <2>1
  <2>3. QED
    BY <2>1, <2>2 DEF NoFile
<1>3. Exists(file) \in BOOLEAN
  BY DEF Exists
<1>4. PlayerOK(player')
  <2>1. pl \in PlayerType(AnyName)
    BY DEF PlayerOK
  <2>2. player' = play(open(stop(pl), file, Exists(file)))
    BY DEF PlayLine
  <2>3. QED
    BY <1>2, <1>3, <2>1, <2>2, PlayOpened
<1>5. emitted' \in Seq(Call)
  BY CallTypes DEF PlayLine
<1>6. QED
  BY <1>1, <1>4, <1>5 DEF PlayLine, IInv

LEMMA GoneOK ==
  ASSUME IInv, NEW how \in {"down", "crashed"}, Gone(how)
  PROVE  IInv'
BY EmptyLocation, NewPlayerOK DEF IInv, Gone

LEMMA NextLinesType ==
  ASSUME IInv, NEW num
  PROVE  NextLines(num) \subseteq Line
<1>1. CASE OutOfBounds(num)
  <2>1. ~Restarts(num)
    <3>1. Len(mFilelist) \in Nat
      BY DEF IInv, ListOK
    <3>2. QED
      BY <1>1, <3>1 DEF OutOfBounds, Restarts
  <2>2. NextLines(num) = ClientLines
    BY <1>1, <2>1 DEF NextLines
  <2>3. QED
    BY <2>2, MediaAssumption
<1>2. CASE ~OutOfBounds(num) /\ Restarts(num)
  BY <1>2 DEF NextLines, First, Titles, IInv, ListOK
<1>3. CASE ~OutOfBounds(num) /\ ~Restarts(num)
  <2>1. ASSUME NEW k \in Here
        PROVE  k + num \in 1 .. Len(mFilelist)
    <3>1. PICK j \in Here : j + num # Len(mFilelist) + 1
      BY <1>3 DEF Restarts
    <3>2. j = k
      BY DEF Here, First, IInv, ListOK
    <3>3. k + num \in 1 .. Len(mFilelist) + 1
      BY <1>3 DEF OutOfBounds
    <3>4. Len(mFilelist) \in Nat
      BY DEF IInv, ListOK
    <3>5. QED
      BY <3>1, <3>2, <3>3, <3>4
  <2>2. NextLines(num) = {mFilelist[k + num] : k \in Here}
    BY <1>3 DEF NextLines
  <2>3. QED
    BY <2>1, <2>2 DEF IInv, ListOK
<1>4. QED
  BY <1>1, <1>2, <1>3

LEMMA AdvanceOK ==
  ASSUME IInv, NEW num, NEW pl, PlayerOK(pl), Advance(num, pl)
  PROVE  IInv'
<1>1. CASE /\ player' = pl
           /\ emitted' = <<>>
           /\ UNCHANGED <<disk, status, m_CurrentPath, m_CurrentPathVector,
                          mFilelist, m_playingTitleID, mStartup>>
  BY <1>1 DEF IInv
<1>2. CASE \E line \in NextLines(num) : PlayLine(line, pl)
  BY <1>2, NextLinesType, PlayLineOK
<1>3. CASE Gone("crashed")
  BY <1>3, GoneOK
<1>4. QED
  BY <1>1, <1>2, <1>3 DEF Advance

-----------------------------------------------------------------------------
(* The inductive invariant.                                                *)

LEMMA InitOK == Init => IInv
BY EmptyLocation, NewPlayerOK DEF Init, IInv

LEMMA SelectTitleOK ==
  ASSUME IInv, NEW title \in Line, selectTitle(title)
  PROVE  IInv'
<1>1. CASE /\ m_playingTitleID' = InvalidID
           /\ emitted' = <<>>
           /\ UNCHANGED <<disk, status, m_CurrentPath, m_CurrentPathVector,
                          mFilelist, mStartup, player>>
  BY <1>1 DEF IInv
<1>2. CASE \E k \in Selected(title) : PlayLine(mFilelist[k], player)
  <2>1. PICK k \in Selected(title) : PlayLine(mFilelist[k], player)
    BY <1>2
  <2>2. mFilelist[k] \in Line /\ PlayerOK(player)
    BY DEF Selected, First, IInv, ListOK
  <2>3. QED
    BY <2>1, <2>2, PlayLineOK
<1>3. CASE EnterFolder(title, Append(m_CurrentPathVector, title))
  <2>1. Append(m_CurrentPathVector, title) \in Seq(Line)
    BY DEF IInv, LocationOK
  <2>2. QED
    BY <1>3, <2>1, EnterFolderOK
<1>4. CASE /\ m_CurrentPathVector # <<>>
           /\ EnterFolder(title, SubSeq(m_CurrentPathVector, 1,
                                        Len(m_CurrentPathVector) - 1))
  <2>1. SubSeq(m_CurrentPathVector, 1, Len(m_CurrentPathVector) - 1)
          \in Seq(Line)
    BY <1>4 DEF IInv, LocationOK
  <2>2. QED
    BY <1>4, <2>1, EnterFolderOK
<1>5. CASE Gone("crashed")
  BY <1>5, GoneOK
<1>6. QED
  BY <1>1, <1>2, <1>3, <1>4, <1>5 DEF selectTitle

LEMMA StartOK == ASSUME IInv, Start PROVE IInv'
<1>1. /\ ListOK(mFilelist')
      /\ emitted' \in Seq(Call)
      /\ PlayerOK(player')
      /\ m_playingTitleID' \in Nat \cup {InvalidID}
      /\ mStartup' \in BOOLEAN
  <2>1. /\ disk \in Disks
        /\ InvalidID \in Nat \cup {InvalidID}
        /\ TRUE \in BOOLEAN
        /\ <<>> \in Seq(Call)
    BY DEF IInv
  <2>2. ShowWindowList(<<>>, <<>>, InvalidID, TRUE, NewPlayer, <<>>)
    BY DEF Start
  <2>3. QED
    BY <2>1, <2>2, ShowOK, NewPlayerOK
<1>2. QED
  BY <1>1, EmptyLocation DEF Start, IInv

LEMMA GetWindowListOK == ASSUME IInv, getWindowList PROVE IInv'
<1>1. /\ ListOK(mFilelist')
      /\ emitted' \in Seq(Call)
      /\ PlayerOK(player')
      /\ m_playingTitleID' \in Nat \cup {InvalidID}
      /\ mStartup' \in BOOLEAN
  <2>1. /\ disk \in Disks
        /\ m_playingTitleID \in Nat \cup {InvalidID}
        /\ mStartup \in BOOLEAN
        /\ PlayerOK(player)
        /\ <<>> \in Seq(Call)
    BY DEF IInv
  <2>2. ShowWindowList(m_CurrentPath, m_CurrentPathVector, m_playingTitleID,
                       mStartup, player, <<>>)
    BY DEF getWindowList
  <2>3. QED
    BY <2>1, <2>2, ShowOK
<1>2. QED
  BY <1>1 DEF getWindowList, IInv

LEMMA SelectPathOK == ASSUME IInv, NEW path \in Seq(Line), selectPath(path) PROVE IInv'
<1>1. LocationOK(m_CurrentPath', m_CurrentPathVector')
  BY LocationOfPath DEF selectPath
<1>2. emitted' \in Seq(Call)
  BY CallTypes DEF selectPath
<1>3. QED
  BY <1>1, <1>2 DEF selectPath, IInv

LEMMA IncrementTitleOK == ASSUME IInv, NEW num, incrementTitle(num) PROVE IInv'
BY AdvanceOK DEF incrementTitle, IInv

LEMMA PauseTitleOK == ASSUME IInv, pauseTitle PROVE IInv'
BY PausedOK DEF pauseTitle, IInv

LEMMA EngineStepOK == ASSUME IInv, Engine PROVE IInv'
<1>1. CASE DecodeStop
  <2>1. PlayerOK(delivered(player))
    BY EngineOK DEF IInv
  <2>2. CASE Advance(1, delivered(player))
    BY <2>1, <2>2, AdvanceOK
  <2>3. CASE player' = delivered(player) /\ emitted' = <<>> /\ OnlyPlayer
    BY <2>1, <2>3 DEF OnlyPlayer, IInv
  <2>4. QED
    BY <1>1, <2>2, <2>3 DEF DecodeStop
<1>2. ASSUME NEW tick \in Positions, PositionUpdate(tick)
      PROVE  IInv'
  <2>1. tick \in Nat /\ Second(tick) \in Nat
    BY MediaAssumption, TickAssumption DEF Second
  <2>2. PlayerOK(player')
    BY <1>2, <2>1, EngineOK DEF PositionUpdate, IInv
  <2>3. emitted' \in Seq(Call)
    BY <1>2, <2>1, CallTypes DEF PositionUpdate
  <2>4. QED
    BY <1>2, <2>2, <2>3 DEF PositionUpdate, OnlyPlayer, IInv
<1>3. CASE TitleEnds
  BY <1>3, EngineOK DEF TitleEnds, OnlyPlayer, IInv
<1>4. CASE StaleFlushed
  BY <1>4, EngineOK DEF StaleFlushed, OnlyPlayer, IInv
<1>5. QED
  BY <1>1, <1>2, <1>3, <1>4 DEF Engine

LEMMA NextOK ==
  ASSUME IInv, [Next]_vars
  PROVE  IInv'
<1>1. CASE Start
  BY <1>1, StartOK
<1>2. CASE Quit
  BY <1>2, GoneOK DEF Quit
<1>3. CASE getWindowList
  BY <1>3, GetWindowListOK
<1>4. ASSUME NEW path \in PathVectors, selectPath(path)
      PROVE  IInv'
  <2>1. path \in Seq(Line)
    BY MediaAssumption
  <2>2. QED
    BY <1>4, <2>1, SelectPathOK
<1>5. ASSUME NEW num \in Nums, incrementTitle(num)
      PROVE  IInv'
  BY <1>5, IncrementTitleOK
<1>6. CASE NoEffect
  BY <1>6 DEF NoEffect, server, IInv
<1>7. ASSUME NEW title \in ClientLines, selectTitle(title)
      PROVE  IInv'
  <2>1. title \in Line
    BY MediaAssumption
  <2>2. QED
    BY <1>7, <2>1, SelectTitleOK
<1>8. CASE pauseTitle
  BY <1>8, PauseTitleOK
<1>9. CASE Engine
  BY <1>9, EngineStepOK
<1>10. CASE DiskChanges
  BY <1>10 DEF DiskChanges, server, IInv
<1>11. CASE UNCHANGED vars
  BY <1>11 DEF vars, server, IInv
<1>12. QED
  BY <1>1, <1>2, <1>3, <1>4, <1>5, <1>6, <1>7, <1>8, <1>9, <1>10, <1>11
  DEF Next, ClientCall

\* The types, the paths, the ids and the player, together, hold of every state of
\* the server.
THEOREM Invariance == Spec => []IInv
BY InitOK, NextOK, PTL DEF Spec

\* Every variable keeps its type.
THEOREM TypeCorrect == Spec => []TypeOK
BY Invariance, IInvImplies, PTL

\* The path and the path vector always name the same folder.
THEOREM LocationsAgree == Spec => []LocationCoherent
BY Invariance, IInvImplies, PTL

\* In no list, of whatever folder, two lines share an id.
THEOREM IdsAreUnique == Spec => []IdNamesOneLine
BY Invariance, IInvImplies, PTL

\* The player is stopped only before its first file.
THEOREM StoppedMeansNew == Spec => []StoppedIffNothingOpened
BY Invariance, IInvImplies, PTL

\* The engine plays only what the server believes to be playing.
THEOREM EngineAgrees == Spec => []EngineFollowsState
BY Invariance, IInvImplies, PTL

-----------------------------------------------------------------------------
(* What a step may never do.                                               *)

\* What the methods leave alone.
LEMMA FileKept ==
  ASSUME NEW p, PlayerOK(p)
  PROVE  /\ pause(p).file = p.file
         /\ titleEnds(p).file = p.file
         /\ delivered(p).file = p.file
         /\ flushed(p).file = p.file
         /\ \A tick : positionUpdate(p, tick).file = p.file
         /\ titleEnds(p).mPlayState = p.mPlayState
         /\ delivered(p).mPlayState = p.mPlayState
         /\ flushed(p).mPlayState = p.mPlayState
         /\ \A tick : positionUpdate(p, tick).mPlayState = p.mPlayState
<1>1. pause(p).file = p.file
  BY DEF PlayerOK, PlayerType, PlayState, pause, play
<1>2. QED
  BY <1>1 DEF PlayerOK, PlayerType, titleEnds, delivered, flushed, positionUpdate

\* An advance either plays and announces a line, or ends the process, or does
\* nothing but hand the player on; it never touches list or path.
LEMMA AdvanceCases ==
  ASSUME NEW num, NEW pl, Advance(num, pl), status' = "up"
  PROVE  /\ UNCHANGED <<m_CurrentPathVector, mFilelist>>
         /\ player' = pl \/ \E line \in NextLines(num) : PlayLine(line, pl)
BY DEF Advance, PlayLine, Gone

\* Once the startup title has been started, a step that changes the list or the
\* path leaves the player as it is.
THEOREM BrowsingLeavesThePlayerAlone == Spec => BrowsingKeepsMusic
<1>1. ASSUME [Next]_vars, status = "up", status' = "up", ~mStartup,
             \/ mFilelist' # mFilelist
             \/ m_CurrentPathVector' # m_CurrentPathVector
      PROVE  UNCHANGED player
  <2>1. ASSUME NEW path, NEW vec, NEW id, NEW sends,
               ShowWindowList(path, vec, id, mStartup, player, sends)
        PROVE  UNCHANGED player
    BY <1>1, <2>1 DEF ShowWindowList, PlaysFirstTitle
  <2>2. CASE getWindowList
    BY <2>1, <2>2 DEF getWindowList
  <2>3. ASSUME NEW path, selectPath(path)
        PROVE  UNCHANGED player
    BY <2>3 DEF selectPath
  <2>4. ASSUME NEW num, NEW pl, Advance(num, pl)
        PROVE  FALSE
    BY <1>1, <2>4, AdvanceCases
  <2>5. ASSUME NEW title, selectTitle(title)
        PROVE  UNCHANGED player
    <3>1. ASSUME NEW vec, EnterFolder(title, vec)
          PROVE  UNCHANGED player
      BY <2>1, <3>1 DEF EnterFolder
    <3>2. QED
      BY <1>1, <2>5, <3>1 DEF selectTitle, PlayLine, Gone
  <2>6. QED
    BY <1>1, <2>2, <2>3, <2>4, <2>5
       DEF Next, ClientCall, Engine, Start, Quit, Gone, incrementTitle, NoEffect,
           pauseTitle, DecodeStop, PositionUpdate, TitleEnds, StaleFlushed,
           DiskChanges, OnlyPlayer, vars, server
<1>2. [Next]_vars =>
        [ (/\ status = "up" /\ status' = "up" /\ ~mStartup
           /\ \/ mFilelist' # mFilelist
              \/ m_CurrentPathVector' # m_CurrentPathVector)
          => UNCHANGED player ]_vars
  BY <1>1
<1>3. QED
  BY <1>2, PTL DEF Spec, BrowsingKeepsMusic

\* No engine event takes a paused player out of its pause or to another title.
THEOREM PauseIsHeld == Spec => PauseHoldsTitle
<1>1. ASSUME IInv, Engine, player.mPlayState = "PAUSED"
      PROVE  player'.mPlayState = "PAUSED" /\ player'.file = player.file
  <2>1. PlayerOK(player)
    BY <1>1 DEF IInv
  <2>2. CASE DecodeStop
    <3>1. player' = delivered(player)
      BY <1>1, <2>2 DEF DecodeStop, nextTitleWanted
    <3>2. QED
      BY <1>1, <2>1, <3>1, FileKept
  <2>3. ASSUME NEW tick, PositionUpdate(tick)
        PROVE  player'.mPlayState = "PAUSED" /\ player'.file = player.file
    BY <1>1, <2>1, <2>3, FileKept DEF PositionUpdate
  <2>4. CASE TitleEnds
    BY <1>1, <2>1, <2>4, FileKept DEF TitleEnds
  <2>5. CASE StaleFlushed
    BY <1>1, <2>1, <2>5, FileKept DEF StaleFlushed
  <2>6. QED
    BY <1>1, <2>2, <2>3, <2>4, <2>5 DEF Engine
<1>2. IInv /\ [Next]_vars =>
        [ (Engine /\ player.mPlayState = "PAUSED")
          => (player'.mPlayState = "PAUSED" /\ player'.file = player.file) ]_vars
  BY <1>1
<1>3. QED
  BY <1>2, Invariance, PTL DEF Spec, PauseHoldsTitle

\* After the startup title, the file of the player changes only to a line that is
\* announced in the same step, and whose id is the one kept.
THEOREM ChangesAreAnnounced == Spec => TitleChangeAnnounced
<1> DEFINE Announced ==
      /\ Len(emitted') = 1
      /\ emitted'[1].call = "updateSelectedTitle"
      /\ player'.file = Append(m_CurrentPath, emitted'[1].title.name)
      /\ m_playingTitleID' = emitted'[1].title.id
<1>1. ASSUME NEW line, NEW pl, PlayerOK(pl), IInv, line \in Line, PlayLine(line, pl)
      PROVE  Announced
  <2> DEFINE file == Append(m_CurrentPath, line.name)
  <2>1. emitted' = <<SelectedTitle(line)>> /\ m_playingTitleID' = line.id
    BY <1>1 DEF PlayLine
  <2>2. player' = play(open(stop(pl), file, Exists(file)))
    BY <1>1 DEF PlayLine
  <2>3. player'.file = file
    BY <1>1, <2>2 DEF PlayerOK, PlayerType, play, open, stop
  <2>4. QED
    BY <2>1, <2>3 DEF SelectedTitle
<1>2. ASSUME IInv, [Next]_vars, status = "up", status' = "up", ~mStartup,
             player'.file # player.file
      PROVE  Announced
  <2>1. PlayerOK(player) /\ PlayerOK(delivered(player))
    BY <1>2, EngineOK DEF IInv
  <2>2. ASSUME NEW num, NEW pl, PlayerOK(pl), pl.file = player.file,
               Advance(num, pl)
        PROVE  Announced
    BY <1>1, <1>2, <2>2, AdvanceCases, NextLinesType
  <2>3. ASSUME NEW path, NEW vec, NEW id, NEW sends,
               ShowWindowList(path, vec, id, mStartup, player, sends)
        PROVE  FALSE
    BY <1>2, <2>3 DEF ShowWindowList, PlaysFirstTitle
  <2>4. ASSUME NEW title, selectTitle(title)
        PROVE  Announced
    <3>1. ASSUME NEW k \in Selected(title), PlayLine(mFilelist[k], player)
          PROVE  Announced
      <4>1. mFilelist[k] \in Line
        BY <1>2 DEF Selected, First, IInv, ListOK
      <4>2. QED
        BY <1>1, <1>2, <2>1, <3>1, <4>1
    <3>2. ASSUME NEW vec, EnterFolder(title, vec)
          PROVE  FALSE
      BY <2>3, <3>2 DEF EnterFolder
    <3>3. QED
      BY <1>2, <2>4, <3>1, <3>2 DEF selectTitle, Gone
  <2>5. CASE DecodeStop
    <3>1. delivered(player).file = player.file
      BY <2>1, FileKept
    <3>2. QED
      BY <1>2, <2>1, <2>2, <2>5, <3>1 DEF DecodeStop
  <2>6. ASSUME NEW num, incrementTitle(num)
        PROVE  Announced
    BY <2>1, <2>2, <2>6 DEF incrementTitle
  <2>7. CASE getWindowList
    BY <2>3, <2>7 DEF getWindowList
  <2>8. CASE pauseTitle \/ TitleEnds \/ StaleFlushed
    BY <1>2, <2>1, <2>8, FileKept DEF pauseTitle, TitleEnds, StaleFlushed
  <2>9. ASSUME NEW tick, PositionUpdate(tick)
        PROVE  Announced
    BY <1>2, <2>1, <2>9, FileKept DEF PositionUpdate
  <2>10. QED
    BY <1>2, <2>4, <2>5, <2>6, <2>7, <2>8, <2>9
       DEF Next, ClientCall, Engine, Start, Quit, Gone, selectPath, NoEffect,
           DiskChanges, vars, server
<1>3. IInv /\ [Next]_vars =>
        [ (/\ status = "up" /\ status' = "up" /\ ~mStartup
           /\ player'.file # player.file) => Announced ]_vars
  BY <1>2
<1>4. QED
  BY <1>3, Invariance, PTL DEF Spec, TitleChangeAnnounced

-----------------------------------------------------------------------------
(* The server and its clients.                                             *)

ListCall == "getWindowListResult"
PathCall == "updateSelectedPath"
TitleCall == "updateSelectedTitle"
PositionCall == "updatePlayPosition"
Kinds == {ListCall, PathCall, TitleCall, PositionCall}

View == [getWindowListResult : Seq(Line), updateSelectedPath : Seq(Line),
         updateSelectedTitle : Line, updatePlayPosition : Nat]

\* The calls of every kind have a last one.
HasLast(sent) == \A kind \in Kinds : OfKind(sent, kind) # {} => LastOf(sent, kind) # {}

-----------------------------------------------------------------------------
(* The last call of a kind.                                                *)

LEMMA CallKind == \A call \in Call : call.call \in Kinds
BY DEF Call, Kinds, ListCall, PathCall, TitleCall, PositionCall

LEMMA LastTold ==
  ASSUME NEW v, NEW sent \in Seq(Call), NEW kind, NEW k \in LastOf(sent, kind)
  PROVE  Final(v, sent, kind) = Told(sent[k])
<1>1. k \in OfKind(sent, kind) /\ OfKind(sent, kind) # {}
  BY DEF LastOf
<1>2. \A j \in LastOf(sent, kind) : j = k
  BY DEF LastOf, OfKind
<1>3. (CHOOSE j \in LastOf(sent, kind) : TRUE) = k
  BY <1>2
<1>4. QED
  BY <1>1, <1>3 DEF Final

LEMMA ShownKind ==
  ASSUME NEW v \in View, NEW call \in Call, NEW kind \in Kinds
  PROVE  /\ Shown(v, call)[kind] = IF call.call = kind THEN Told(call) ELSE v[kind]
         /\ Shown(v, call) \in View
<1>1. CASE call.call = ListCall
  BY <1>1 DEF Shown, Told, View, Kinds, ListCall, PathCall, TitleCall, PositionCall, Call
<1>2. CASE call.call = PathCall
  BY <1>2 DEF Shown, Told, View, Kinds, ListCall, PathCall, TitleCall, PositionCall, Call
<1>3. CASE call.call = TitleCall
  BY <1>3 DEF Shown, Told, View, Kinds, ListCall, PathCall, TitleCall, PositionCall, Call
<1>4. CASE call.call = PositionCall
  BY <1>4 DEF Shown, Told, View, Kinds, ListCall, PathCall, TitleCall, PositionCall, Call
<1>5. QED
  BY <1>1, <1>2, <1>3, <1>4, CallKind DEF Kinds

LEMMA TailOf ==
  ASSUME NEW sent \in Seq(Call), sent # <<>>
  PROVE  /\ Tail(sent) \in Seq(Call) /\ Head(sent) = sent[1] /\ Head(sent) \in Call
         /\ Len(sent) \in Nat /\ Len(sent) > 0 /\ Len(Tail(sent)) = Len(sent) - 1
         /\ \A k \in 1 .. Len(Tail(sent)) : Tail(sent)[k] = sent[k + 1]
         /\ DOMAIN sent = 1 .. Len(sent) /\ DOMAIN Tail(sent) = 1 .. Len(Tail(sent))
OBVIOUS

\* Receiving a call changes nothing about what will be shown.
LEMMA Received ==
  ASSUME NEW v \in View, NEW sent \in Seq(Call), sent # <<>>, HasLast(sent)
  PROVE  /\ HasLast(Tail(sent))
         /\ \A kind \in Kinds :
              Final(Shown(v, Head(sent)), Tail(sent), kind) = Final(v, sent, kind)
<1> DEFINE rest == Tail(sent)
<1> SUFFICES ASSUME NEW kind \in Kinds
             PROVE  /\ OfKind(rest, kind) # {} => LastOf(rest, kind) # {}
                    /\ Final(Shown(v, Head(sent)), rest, kind) = Final(v, sent, kind)
  BY DEF HasLast
<1>1. /\ rest \in Seq(Call) /\ Len(sent) \in Nat /\ Len(rest) = Len(sent) - 1
      /\ \A k \in 1 .. Len(rest) : rest[k] = sent[k + 1]
      /\ DOMAIN sent = 1 .. Len(sent) /\ DOMAIN rest = 1 .. Len(rest) /\ Len(sent) > 0
  BY TailOf
<1> HIDE DEF rest
<1>2. /\ OfKind(sent, kind) \subseteq Nat \ {0} /\ OfKind(rest, kind) \subseteq Nat \ {0}
      /\ \A k \in Nat \ {0} : k \in OfKind(rest, kind) <=> k + 1 \in OfKind(sent, kind)
      /\ 1 \in OfKind(sent, kind) <=> sent[1].call = kind
  BY <1>1 DEF OfKind
<1>3. Shown(v, Head(sent))[kind] = IF sent[1].call = kind THEN Told(sent[1]) ELSE v[kind]
  BY ShownKind, TailOf
<1>4. CASE OfKind(rest, kind) = {}
  <2>1. \A k \in OfKind(sent, kind) : k = 1
    <3> TAKE k \in OfKind(sent, kind)
    <3>1. k \in Nat \ {0}
      BY <1>2
    <3>2. k # 1 => k - 1 \in Nat \ {0} /\ (k - 1) + 1 = k
      BY <3>1
    <3>3. QED
      BY <1>2, <1>4, <3>2
  <2>2. Final(Shown(v, Head(sent)), rest, kind) = Shown(v, Head(sent))[kind]
    BY <1>4 DEF Final
  <2>3. CASE sent[1].call = kind
    <3>1. 1 \in LastOf(sent, kind)
      BY <1>2, <2>1, <2>3 DEF LastOf
    <3>2. QED
      BY <1>3, <1>4, <2>2, <2>3, <3>1, LastTold
  <2>4. CASE sent[1].call # kind
    <3>1. OfKind(sent, kind) = {}
      BY <1>2, <2>1, <2>4
    <3>2. QED
      BY <1>3, <1>4, <2>2, <2>4, <3>1 DEF Final
  <2>5. QED
    BY <2>3, <2>4
<1>5. CASE OfKind(rest, kind) # {}
  <2>1. PICK j \in OfKind(rest, kind) : TRUE
    BY <1>5
  <2>2. j \in Nat \ {0} /\ j + 1 \in OfKind(sent, kind)
    BY <1>2
  <2>3. PICK k \in LastOf(sent, kind) : TRUE
    BY <2>2 DEF HasLast
  <2>4. k \in OfKind(sent, kind) /\ \A i \in OfKind(sent, kind) : i <= k
    BY DEF LastOf
  <2>5. k \in Nat /\ j + 1 <= k
    BY <1>2, <2>2, <2>4
  <2>6. k - 1 \in Nat \ {0} /\ (k - 1) + 1 = k
    BY <2>2, <2>5
  <2>7. k - 1 \in OfKind(rest, kind)
    BY <1>2, <2>4, <2>6
  <2>8. \A i \in OfKind(rest, kind) : i <= k - 1
    BY <1>2, <2>4, <2>5
  <2>9. k - 1 \in LastOf(rest, kind)
    BY <2>7, <2>8 DEF LastOf
  <2>10. rest[k - 1] = sent[k]
    BY <1>1, <2>6, <2>7 DEF OfKind
  <2>11. Final(v, sent, kind) = Told(sent[k])
    BY <2>3, LastTold
  <2>12. Final(Shown(v, Head(sent)), rest, kind) = Told(rest[k - 1])
    BY <1>1, <2>9, LastTold
  <2>13. QED
    BY <2>9, <2>10, <2>11, <2>12
<1>6. QED
  BY <1>4, <1>5

\* Sending calls replaces what will be shown of their kinds.
LEMMA Sent ==
  ASSUME NEW v, NEW sent \in Seq(Call), NEW more \in Seq(Call),
         HasLast(sent), HasLast(more)
  PROVE  /\ sent \o more \in Seq(Call) /\ HasLast(sent \o more)
         /\ \A kind \in Kinds :
              Final(v, sent \o more, kind) =
                IF OfKind(more, kind) = {} THEN Final(v, sent, kind)
                                           ELSE Final(v, more, kind)
<1> DEFINE all == sent \o more
           n == Len(sent)
<1>1. /\ all \in Seq(Call) /\ n \in Nat /\ Len(more) \in Nat /\ Len(all) = n + Len(more)
      /\ DOMAIN all = 1 .. Len(all) /\ DOMAIN sent = 1 .. n /\ DOMAIN more = 1 .. Len(more)
      /\ \A k \in 1 .. n : all[k] = sent[k]
      /\ \A k \in 1 .. Len(more) : all[n + k] = more[k]
  OBVIOUS
<1> HIDE DEF all, n
<1> SUFFICES ASSUME NEW kind \in Kinds
             PROVE  /\ OfKind(all, kind) # {} => LastOf(all, kind) # {}
                    /\ Final(v, all, kind) =
                         IF OfKind(more, kind) = {} THEN Final(v, sent, kind)
                                                    ELSE Final(v, more, kind)
  BY <1>1 DEF HasLast, all
<1>2. /\ OfKind(sent, kind) \subseteq 1 .. n /\ OfKind(more, kind) \subseteq 1 .. Len(more)
      /\ OfKind(all, kind) \subseteq 1 .. n + Len(more)
      /\ \A k \in 1 .. n : k \in OfKind(all, kind) <=> k \in OfKind(sent, kind)
      /\ \A k \in 1 .. Len(more) : n + k \in OfKind(all, kind) <=> k \in OfKind(more, kind)
  BY <1>1 DEF OfKind
<1>3. \A k \in OfKind(all, kind) :
        \/ k \in OfKind(sent, kind) /\ k <= n
        \/ k - n \in OfKind(more, kind) /\ k > n
  <2> TAKE k \in OfKind(all, kind)
  <2>1. k \in 1 .. n + Len(more)
    BY <1>2
  <2>2. CASE k <= n
    BY <1>1, <1>2, <2>1, <2>2
  <2>3. CASE k > n
    <3>1. k - n \in 1 .. Len(more) /\ n + (k - n) = k
      BY <1>1, <2>1, <2>3
    <3>2. QED
      BY <1>2, <2>3, <3>1
  <2>4. QED
    BY <1>1, <2>1, <2>2, <2>3
<1>4. CASE OfKind(more, kind) = {}
  <2>1. OfKind(all, kind) = OfKind(sent, kind)
    BY <1>2, <1>3, <1>4
  <2>2. LastOf(all, kind) = LastOf(sent, kind)
    BY <2>1 DEF LastOf
  <2>3. CASE OfKind(sent, kind) = {}
    BY <1>4, <2>1, <2>3 DEF Final
  <2>4. CASE OfKind(sent, kind) # {}
    <3>1. PICK k \in LastOf(sent, kind) : TRUE
      BY <2>4 DEF HasLast
    <3>2. k \in 1 .. n
      BY <1>2 DEF LastOf
    <3>3. all[k] = sent[k]
      BY <1>1, <3>2
    <3>4. QED
      BY <1>1, <1>4, <2>2, <3>1, <3>3, LastTold
  <2>5. QED
    BY <2>3, <2>4
<1>5. CASE OfKind(more, kind) # {}
  <2>1. PICK k \in LastOf(more, kind) : TRUE
    BY <1>5 DEF HasLast
  <2>2. k \in OfKind(more, kind) /\ k \in 1 .. Len(more)
        /\ \A j \in OfKind(more, kind) : j <= k
    BY <1>2 DEF LastOf
  <2>3. n + k \in OfKind(all, kind)
    BY <1>2, <2>2
  <2>4. \A j \in OfKind(all, kind) : j <= n + k
    <3> TAKE j \in OfKind(all, kind)
    <3>1. j \in Int
      BY <1>2
    <3>2. j <= n \/ j - n <= k
      BY <1>3, <2>2
    <3>3. QED
      BY <1>1, <2>2, <3>1, <3>2
  <2>5. n + k \in LastOf(all, kind)
    BY <2>3, <2>4 DEF LastOf
  <2>6. all[n + k] = more[k]
    BY <1>1, <2>2
  <2>7. Final(v, all, kind) = Told(all[n + k])
    BY <1>1, <2>5, LastTold
  <2>8. Final(v, more, kind) = Told(more[k])
    BY <2>1, LastTold
  <2>9. QED
    BY <1>5, <2>5, <2>6, <2>7, <2>8
<1>6. QED
  BY <1>4, <1>5

\* One call, and two of different kinds.
LEMMA SentOne ==
  ASSUME NEW v, NEW call \in Call
  PROVE  /\ HasLast(<<call>>)
         /\ Final(v, <<call>>, call.call) = Told(call)
         /\ \A kind : OfKind(<<call>>, kind) = IF kind = call.call THEN {1} ELSE {}
<1> DEFINE sent == <<call>>
<1>1. sent \in Seq(Call) /\ DOMAIN sent = {1} /\ sent[1] = call
  OBVIOUS
<1> HIDE DEF sent
<1>2. \A kind : OfKind(sent, kind) = IF kind = call.call THEN {1} ELSE {}
  BY <1>1 DEF OfKind
<1>3. \A kind : OfKind(sent, kind) # {} => 1 \in LastOf(sent, kind)
  BY <1>2 DEF LastOf
<1>4. HasLast(sent)
  BY <1>3 DEF HasLast
<1>5. Final(v, sent, call.call) = Told(call)
  <2>1. 1 \in LastOf(sent, call.call)
    BY <1>2, <1>3
  <2>2. QED
    BY <1>1, <2>1, LastTold
<1>6. QED
  BY <1>2, <1>4, <1>5 DEF sent

LEMMA SentTwo ==
  ASSUME NEW v, NEW first \in Call, NEW second \in Call, first.call # second.call
  PROVE  /\ HasLast(<<first, second>>)
         /\ Final(v, <<first, second>>, first.call) = Told(first)
         /\ Final(v, <<first, second>>, second.call) = Told(second)
         /\ \A kind : OfKind(<<first, second>>, kind) =
                        IF kind = first.call THEN {1}
                        ELSE IF kind = second.call THEN {2} ELSE {}
<1> DEFINE sent == <<first, second>>
<1>1. sent \in Seq(Call) /\ DOMAIN sent = {1, 2} /\ sent[1] = first /\ sent[2] = second
  OBVIOUS
<1> HIDE DEF sent
<1>2. \A kind : OfKind(sent, kind) = IF kind = first.call THEN {1}
                                     ELSE IF kind = second.call THEN {2} ELSE {}
  BY <1>1 DEF OfKind
<1>3. 1 \in LastOf(sent, first.call) /\ 2 \in LastOf(sent, second.call)
  BY <1>2 DEF LastOf
<1>4. HasLast(sent)
  <2>1. ASSUME NEW kind, OfKind(sent, kind) # {} PROVE LastOf(sent, kind) # {}
    <3>1. kind = first.call \/ kind = second.call
      BY <1>2, <2>1
    <3>2. QED
      BY <1>3, <3>1
  <2>2. QED
    BY <2>1 DEF HasLast
<1>5. Final(v, sent, first.call) = Told(first) /\ Final(v, sent, second.call) = Told(second)
  BY <1>1, <1>3, LastTold
<1>6. QED
  BY <1>2, <1>4, <1>5 DEF sent

LEMMA SentNone ==
  /\ HasLast(<<>>) /\ \A kind : OfKind(<<>>, kind) = {}
  /\ \A v, kind : Final(v, <<>>, kind) = v[kind]
BY DEF HasLast, OfKind, Final

-----------------------------------------------------------------------------
(* What a step of the server sends, by what it has changed.                *)

Played == player.old_position

\* Nothing that clients are told has changed.
Quiet ==
  /\ emitted' = <<>>
  /\ mFilelist' = mFilelist /\ m_CurrentPathVector' = m_CurrentPathVector
  /\ player'.file = player.file /\ Played' = Played

\* A title is played and announced.
Plays ==
  /\ \E line \in Line : /\ emitted' = <<SelectedTitle(line)>>
                        /\ player'.file = Append(m_CurrentPath, line.name)
  /\ mFilelist' = mFilelist /\ m_CurrentPathVector' = m_CurrentPathVector
  /\ Played' = Played

\* Another second is played.
Ticks ==
  /\ emitted' = <<PlayPosition(Played')>> /\ Played' \in Nat
  /\ mFilelist' = mFilelist /\ m_CurrentPathVector' = m_CurrentPathVector
  /\ player'.file = player.file

\* A list is shown; only a startup title is played with it.
Shows ==
  /\ emitted' = <<WindowListResult(mFilelist')>>
  /\ m_CurrentPathVector' = m_CurrentPathVector
  /\ Played' = Played /\ (~mStartup => player' = player)

Enters ==
  /\ emitted' = <<SelectedPath(m_CurrentPathVector'), WindowListResult(mFilelist')>>
  /\ Played' = Played /\ (~mStartup => player' = player)

Selects ==
  /\ emitted' = <<SelectedPath(m_CurrentPathVector')>>
  /\ mFilelist' = mFilelist /\ player' = player

LEMMA MethodsKeep ==
  ASSUME NEW p \in PlayerType(AnyName)
  PROVE  /\ pause(p).old_position = p.old_position /\ pause(p).file = p.file
         /\ titleEnds(p).old_position = p.old_position /\ titleEnds(p).file = p.file
         /\ delivered(p).old_position = p.old_position /\ delivered(p).file = p.file
         /\ flushed(p).old_position = p.old_position /\ flushed(p).file = p.file
         /\ \A uri, exists :
              /\ play(open(p, uri, exists)).old_position = p.old_position
              /\ play(open(stop(p), uri, exists)).old_position = p.old_position
              /\ play(open(stop(p), uri, exists)).file = uri
         /\ \A tick : /\ positionUpdate(p, tick).old_position = Second(tick)
                      /\ positionUpdate(p, tick).file = p.file
<1>1. p.mPlayState \in {"PLAYING", "STOPPED", "PAUSED"}
  BY DEF PlayerType, PlayState
<1>2. pause(p).old_position = p.old_position /\ pause(p).file = p.file
  BY <1>1 DEF PlayerType, pause, play
<1>3. QED
  BY <1>2 DEF PlayerType, titleEnds, delivered, flushed, play, open, stop, positionUpdate

LEMMA AppendOne == ASSUME NEW a, NEW b PROVE Append(<<a>>, b) = <<a, b>>
<1> DEFINE s == Append(<<a>>, b)
           t == <<a, b>>
<1>1. <<a>> \in Seq({a, b}) /\ b \in {a, b}
  OBVIOUS
<1>2. s \in Seq({a, b}) /\ Len(s) = 2 /\ s[1] = a /\ s[2] = b
  BY <1>1
<1>3. t \in Seq({a, b}) /\ Len(t) = 2 /\ t[1] = a /\ t[2] = b
  OBVIOUS
<1> HIDE DEF s, t
<1>4. \A k \in 1 .. Len(s) : s[k] = t[k]
  BY <1>2, <1>3
<1>5. s = t
  BY <1>2, <1>3, <1>4, SeqEqual
<1>6. QED
  BY <1>5 DEF s, t

LEMMA ShowShape ==
  ASSUME NEW path, NEW vec, NEW id, NEW startup \in BOOLEAN, NEW pl \in PlayerType(AnyName),
         NEW before, ShowWindowList(path, vec, id, startup, pl, before)
  PROVE  /\ emitted' = Append(before, WindowListResult(mFilelist'))
         /\ player'.old_position = pl.old_position
         /\ (~startup => player' = pl /\ ~mStartup')
         /\ mStartup' \in BOOLEAN
<1>1. emitted' = Append(before, WindowListResult(mFilelist'))
  BY DEF ShowWindowList
<1>2. player'.old_position = pl.old_position
  <2>1. player' = pl \/ \E uri, exists : player' = play(open(pl, uri, exists))
    BY DEF ShowWindowList
  <2>2. QED
    BY <2>1, MethodsKeep
<1>3. ~startup => player' = pl /\ ~mStartup'
  BY DEF ShowWindowList, PlaysFirstTitle
<1>4. mStartup' \in BOOLEAN
  BY DEF ShowWindowList
<1>5. QED
  BY <1>1, <1>2, <1>3, <1>4

LEMMA PlayLineShape ==
  ASSUME NEW line \in Line, NEW pl \in PlayerType(AnyName),
         pl.old_position = Played, PlayLine(line, pl)
  PROVE  Plays /\ mStartup' = mStartup
<1> DEFINE file == Append(m_CurrentPath, line.name)
           there == Exists(file)
<1>1. player' = play(open(stop(pl), file, there)) /\ emitted' = <<SelectedTitle(line)>>
  BY DEF PlayLine
<1> HIDE DEF file, there
<1>2. player'.file = file /\ player'.old_position = pl.old_position
  BY <1>1, MethodsKeep
<1>3. /\ mFilelist' = mFilelist /\ m_CurrentPathVector' = m_CurrentPathVector
      /\ mStartup' = mStartup
  BY DEF PlayLine
<1>4. QED
  BY <1>1, <1>2, <1>3 DEF Plays, Played, file

LEMMA AdvanceShape ==
  ASSUME IInv, NEW num, NEW pl, PlayerOK(pl), Advance(num, pl), status' = "up",
         pl.old_position = Played, pl.file = player.file
  PROVE  (Quiet \/ Plays) /\ mStartup' = mStartup
<1>1. CASE /\ player' = pl /\ emitted' = <<>>
           /\ UNCHANGED <<disk, status, m_CurrentPath, m_CurrentPathVector,
                          mFilelist, m_playingTitleID, mStartup>>
  BY <1>1 DEF Quiet, Played
<1>2. ASSUME NEW line \in NextLines(num), PlayLine(line, pl)
      PROVE  Plays /\ mStartup' = mStartup
  BY <1>2, NextLinesType, PlayLineShape DEF PlayerOK
<1>3. ~Gone("crashed")
  BY DEF Gone
<1>4. QED
  BY <1>1, <1>2, <1>3 DEF Advance

LEMMA EngineShape ==
  ASSUME IInv, Engine, status' = "up"
  PROVE  (Quiet \/ Plays \/ Ticks) /\ mStartup' = mStartup
<1>1. player \in PlayerType(AnyName)
  BY DEF IInv, PlayerOK
<1>2. CASE DecodeStop
  <2>1. PlayerOK(delivered(player)) /\ delivered(player).old_position = Played
        /\ delivered(player).file = player.file
    BY <1>1, EngineOK, MethodsKeep DEF IInv, Played
  <2>2. CASE Advance(1, delivered(player))
    BY <1>1, <2>1, <2>2, AdvanceShape
  <2>3. CASE player' = delivered(player) /\ emitted' = <<>> /\ OnlyPlayer
    BY <2>1, <2>3 DEF OnlyPlayer, Quiet, Played
  <2>4. QED
    BY <1>2, <2>2, <2>3 DEF DecodeStop
<1>3. ASSUME NEW tick \in Positions, PositionUpdate(tick)
      PROVE  (Quiet \/ Ticks) /\ mStartup' = mStartup
  <2>1. Second(tick) \in Nat
    BY MediaAssumption, TickAssumption DEF Second
  <2>2. Played' = Second(tick) /\ player'.file = player.file
    BY <1>1, <1>3, MethodsKeep DEF PositionUpdate, Played
  <2>3. CASE positionChanged(player, tick)
    BY <1>3, <2>1, <2>2, <2>3 DEF PositionUpdate, OnlyPlayer, Ticks
  <2>4. CASE ~positionChanged(player, tick)
    BY <1>3, <2>2, <2>4 DEF PositionUpdate, OnlyPlayer, Quiet, positionChanged, Played
  <2>5. QED
    BY <2>3, <2>4
<1>4. CASE TitleEnds \/ StaleFlushed
  BY <1>1, <1>4, MethodsKeep DEF TitleEnds, StaleFlushed, OnlyPlayer, Quiet, Played
<1>5. QED
  BY <1>2, <1>3, <1>4 DEF Engine

LEMMA EnterShape ==
  ASSUME IInv, NEW title, NEW vec, EnterFolder(title, vec)
  PROVE  Enters /\ (~mStartup => ~mStartup')
<1>1. /\ ShowWindowList(PathTo(vec), vec, title.id, mStartup, player, <<SelectedPath(vec)>>)
      /\ m_CurrentPathVector' = vec
  BY DEF EnterFolder
<1>2. mStartup \in BOOLEAN /\ player \in PlayerType(AnyName)
  BY DEF IInv, PlayerOK
<1>3. /\ emitted' = Append(<<SelectedPath(vec)>>, WindowListResult(mFilelist'))
      /\ player'.old_position = player.old_position
      /\ (~mStartup => player' = player /\ ~mStartup')
  BY <1>1, <1>2, ShowShape
<1>4. emitted' = <<SelectedPath(vec), WindowListResult(mFilelist')>>
  BY <1>3, AppendOne
<1>5. QED
  BY <1>1, <1>3, <1>4 DEF Enters, Played

LEMMA SelectTitleShape ==
  ASSUME IInv, NEW title \in Line, selectTitle(title), status' = "up"
  PROVE  (Quiet \/ Plays \/ Enters) /\ (~mStartup => ~mStartup')
<1>1. CASE /\ emitted' = <<>>
           /\ UNCHANGED <<disk, status, m_CurrentPath, m_CurrentPathVector,
                          mFilelist, mStartup, player>>
  BY <1>1 DEF Quiet, Played
<1>2. ASSUME NEW k \in Selected(title), PlayLine(mFilelist[k], player)
      PROVE  Plays /\ mStartup' = mStartup
  <2>1. mFilelist[k] \in Line /\ player \in PlayerType(AnyName)
    BY DEF Selected, First, IInv, ListOK, PlayerOK
  <2>2. QED
    BY <1>2, <2>1, PlayLineShape DEF Played
<1>3. ASSUME NEW vec, EnterFolder(title, vec)
      PROVE  Enters /\ (~mStartup => ~mStartup')
  BY <1>3, EnterShape
<1>4. ~Gone("crashed")
  BY DEF Gone
<1>5. QED
  BY <1>1, <1>2, <1>3, <1>4 DEF selectTitle

LEMMA HandlerShape ==
  ASSUME IInv, NEW request \in Request, Handler(request), status' = "up"
  PROVE  (Quiet \/ Plays \/ Shows \/ Enters \/ Selects) /\ (~mStartup => ~mStartup')
<1>1. player \in PlayerType(AnyName) /\ mStartup \in BOOLEAN
  BY DEF IInv, PlayerOK
<1>2. CASE request.method = "selectTitle"
  <2>1. request.title \in Line
    BY <1>2 DEF Request
  <2>2. selectTitle(request.title)
    BY <1>2 DEF Handler
  <2>3. QED
    BY <2>1, <2>2, SelectTitleShape
<1>3. CASE request.method = "selectRoot"
  <2>1. selectPath(<<>>)
    BY <1>3 DEF Handler
  <2>2. QED
    BY <2>1 DEF selectPath, Selects
<1>4. CASE request.method = "getWindowList"
  <2>1. getWindowList
    BY <1>4 DEF Handler
  <2>2. /\ emitted' = Append(<<>>, WindowListResult(mFilelist'))
        /\ player'.old_position = player.old_position
        /\ (~mStartup => player' = player /\ ~mStartup')
    BY <1>1, <2>1, ShowShape DEF getWindowList
  <2>3. emitted' = <<WindowListResult(mFilelist')>>
    BY <2>2
  <2>4. QED
    BY <2>1, <2>2, <2>3 DEF getWindowList, Shows, Played
<1>5. CASE request.method = "incrementTitle"
  <2>1. Advance(1, player)
    BY <1>5 DEF Handler, incrementTitle
  <2>2. QED
    BY <2>1, AdvanceShape DEF IInv, Played
<1>6. CASE request.method = "pause"
  <2>1. pauseTitle
    BY <1>6 DEF Handler
  <2>2. QED
    BY <1>1, <2>1, MethodsKeep DEF pauseTitle, Quiet, Played
<1>7. QED
  BY <1>2, <1>3, <1>4, <1>5, <1>6 DEF Request

LEMMA HandlerOK == ASSUME IInv, NEW request \in Request, Handler(request) PROVE IInv'
<1>1. CASE request.method = "selectTitle"
  BY <1>1, SelectTitleOK DEF Handler, Request
<1>2. CASE request.method = "selectRoot"
  <2>1. selectPath(<<>>) /\ <<>> \in Seq(Line)
    BY <1>2 DEF Handler
  <2>2. QED
    BY <2>1, SelectPathOK
<1>3. CASE request.method = "getWindowList"
  BY <1>3, GetWindowListOK DEF Handler
<1>4. CASE request.method = "incrementTitle"
  BY <1>4, IncrementTitleOK DEF Handler
<1>5. CASE request.method = "pause"
  BY <1>5, PauseTitleOK DEF Handler
<1>6. QED
  BY <1>1, <1>2, <1>3, <1>4, <1>5 DEF Request

Shape == Quiet \/ Plays \/ Ticks \/ Shows \/ Enters \/ Selects

LEMMA ToldBack ==
  /\ \A list : Told(WindowListResult(list)) = list /\ WindowListResult(list).call = ListCall
  /\ \A vec : Told(SelectedPath(vec)) = vec /\ SelectedPath(vec).call = PathCall
  /\ \A line : Told(SelectedTitle(line)) = line /\ SelectedTitle(line).call = TitleCall
  /\ \A pos : Told(PlayPosition(pos)) = pos /\ PlayPosition(pos).call = PositionCall
BY DEF Told, WindowListResult, SelectedPath, SelectedTitle, PlayPosition,
       ListCall, PathCall, TitleCall, PositionCall

\* What a step sends of a kind is what it leaves behind.
Sends(kind, value) == \A v : Final(v, emitted', kind) = value
SendsNo(kind) == OfKind(emitted', kind) = {}

LEMMA ShapeTells ==
  ASSUME IInv', Shape
  PROVE  /\ HasLast(emitted') /\ emitted' \in Seq(Call)
         /\ IF SendsNo(ListCall) THEN mFilelist' = mFilelist ELSE Sends(ListCall, mFilelist')
         /\ IF SendsNo(PathCall) THEN m_CurrentPathVector' = m_CurrentPathVector
                             ELSE Sends(PathCall, m_CurrentPathVector')
         /\ IF SendsNo(PositionCall) THEN Played' = Played ELSE Sends(PositionCall, Played')
         /\ IF SendsNo(TitleCall) THEN player'.file = player.file \/ mStartup
            ELSE \E line \in Line : /\ Sends(TitleCall, line)
                                    /\ player'.file = Append(m_CurrentPath, line.name)
<1> USE DEF Sends, SendsNo
<1>1. emitted' \in Seq(Call) /\ mFilelist' \in Seq(Line) /\ m_CurrentPathVector' \in Seq(Line)
  BY DEF IInv, ListOK, LocationOK
<1>2. ListCall # PathCall /\ ListCall # TitleCall /\ ListCall # PositionCall /\ PathCall # TitleCall /\ PathCall # PositionCall
      /\ TitleCall # PositionCall
  BY DEF ListCall, PathCall, TitleCall, PositionCall
<1>3. WindowListResult(mFilelist') \in Call /\ SelectedPath(m_CurrentPathVector') \in Call
  BY <1>1, CallTypes
<1>4. CASE Quiet
  BY <1>1, <1>4, SentNone DEF Quiet
<1>5. CASE Plays
  <2>1. PICK line \in Line : emitted' = <<SelectedTitle(line)>>
                             /\ player'.file = Append(m_CurrentPath, line.name)
    BY <1>5 DEF Plays
  <2>2. SelectedTitle(line) \in Call
    BY CallTypes
  <2>3. HasLast(emitted') /\ Sends(TitleCall, line)
        /\ \A kind : SendsNo(kind) <=> kind # TitleCall
    <3> DEFINE call == SelectedTitle(line)
    <3>1. emitted' = <<call>> /\ call \in Call /\ call.call = TitleCall /\ Told(call) = line
      BY <2>1, <2>2, ToldBack
    <3> HIDE DEF call
    <3>2. QED
      BY <3>1, SentOne
  <2>4. QED
    BY <1>1, <1>2, <1>5, <2>1, <2>3 DEF Plays
<1>6. CASE Ticks
  <2>1. PlayPosition(Played') \in Call /\ emitted' = <<PlayPosition(Played')>>
    BY <1>6, CallTypes DEF Ticks
  <2>2. HasLast(emitted') /\ Sends(PositionCall, Played')
        /\ \A kind : SendsNo(kind) <=> kind # PositionCall
    BY <2>1, SentOne, ToldBack
  <2>3. QED
    BY <1>1, <1>2, <1>6, <2>2 DEF Ticks
<1>7. CASE Shows
  <2>1. HasLast(emitted') /\ Sends(ListCall, mFilelist')
        /\ \A kind : SendsNo(kind) <=> kind # ListCall
    BY <1>3, <1>7, SentOne, ToldBack DEF Shows
  <2>2. QED
    BY <1>1, <1>2, <1>7, <2>1 DEF Shows
<1>8. CASE Enters
  <2>1. /\ HasLast(emitted')
        /\ Sends(PathCall, m_CurrentPathVector') /\ Sends(ListCall, mFilelist')
        /\ \A kind : SendsNo(kind) <=> kind # PathCall /\ kind # ListCall
    BY <1>2, <1>3, <1>8, SentTwo, ToldBack DEF Enters
  <2>2. QED
    BY <1>1, <1>2, <1>8, <2>1 DEF Enters
<1>9. CASE Selects
  <2>1. HasLast(emitted') /\ Sends(PathCall, m_CurrentPathVector')
        /\ \A kind : SendsNo(kind) <=> kind # PathCall
    BY <1>3, <1>9, SentOne, ToldBack DEF Selects
  <2>2. QED
    BY <1>1, <1>2, <1>9, <2>1 DEF Selects, Played
<1>10. QED
  BY <1>4, <1>5, <1>6, <1>7, <1>8, <1>9 DEF Shape

-----------------------------------------------------------------------------
(* The bus.                                                                *)

BusOK ==
  /\ inbox \in [Clients -> Seq(Request)]
  /\ wire \in [Clients -> Seq(Call)] /\ \A c \in Clients : HasLast(wire[c])
  /\ view \in [Clients -> View]
  /\ calls \in 0 .. MaxCalls /\ starts \in 0 .. MaxStarts

Ends(c, kind) == Final(view[c], wire[c], kind)

LEMMA FinalFields ==
  \A c \in Clients :
    /\ FinalView(c).getWindowListResult = Ends(c, ListCall)
    /\ FinalView(c).updateSelectedPath = Ends(c, PathCall)
    /\ FinalView(c).updateSelectedTitle = Ends(c, TitleCall)
    /\ FinalView(c).updatePlayPosition = Ends(c, PositionCall)
<1>1. DOMAIN NewView = Kinds
  BY DEF NewView, Kinds, ListCall, PathCall, TitleCall, PositionCall
<1>2. \A c : \A kind \in Kinds : FinalView(c)[kind] = Ends(c, kind)
  BY <1>1 DEF FinalView, Ends
<1>3. QED
  BY <1>2 DEF Kinds, ListCall, PathCall, TitleCall, PositionCall

LEMMA SendEnds ==
  ASSUME BusOK, emitted' \in Seq(Call), HasLast(emitted'), Send, UNCHANGED view
  PROVE  /\ wire' \in [Clients -> Seq(Call)] /\ \A c \in Clients : HasLast(wire'[c])
         /\ \A c \in Clients : \A kind \in Kinds :
              Ends(c, kind)' = IF SendsNo(kind) THEN Ends(c, kind)
                               ELSE Final(view[c], emitted', kind)
<1>1. ASSUME NEW c \in Clients
      PROVE  /\ wire'[c] \in Seq(Call) /\ HasLast(wire'[c])
             /\ \A kind \in Kinds :
                  Final(view[c], wire'[c], kind) =
                    IF SendsNo(kind) THEN Final(view[c], wire[c], kind)
                    ELSE Final(view[c], emitted', kind)
  <2>1. wire'[c] = wire[c] \o emitted'
    BY DEF Send
  <2>2. wire[c] \in Seq(Call) /\ HasLast(wire[c])
    BY DEF BusOK
  <2>3. QED
    <3>1. /\ wire[c] \o emitted' \in Seq(Call) /\ HasLast(wire[c] \o emitted')
          /\ \A kind \in Kinds :
               Final(view[c], wire[c] \o emitted', kind) =
                 IF OfKind(emitted', kind) = {} THEN Final(view[c], wire[c], kind)
                 ELSE Final(view[c], emitted', kind)
      BY <2>2, Sent
    <3>2. QED
      BY <2>1, <3>1 DEF SendsNo
<1>2. wire' \in [Clients -> Seq(Call)]
  BY <1>1 DEF Send
<1>3. QED
  BY <1>1, <1>2 DEF Ends

LEMMA ReceiveEnds ==
  ASSUME BusOK, NEW c \in Clients, Receives(c)
  PROVE  BusOK' /\ \A d \in Clients : \A kind \in Kinds : Ends(d, kind)' = Ends(d, kind)
<1>1. /\ wire[c] \in Seq(Call) /\ wire[c] # <<>> /\ HasLast(wire[c]) /\ view[c] \in View
      /\ wire' = [wire EXCEPT ![c] = Tail(wire[c])]
      /\ view' = [view EXCEPT ![c] = Shown(view[c], Head(wire[c]))]
  BY DEF Receives, BusOK
<1>2. Tail(wire[c]) \in Seq(Call) /\ Head(wire[c]) \in Call
  BY <1>1, TailOf
<1>3. Shown(view[c], Head(wire[c])) \in View
  <2>1. ListCall \in Kinds
    BY DEF Kinds
  <2>2. QED
    BY <1>1, <1>2, <2>1, ShownKind
<1>4. /\ HasLast(Tail(wire[c]))
      /\ \A kind \in Kinds : Final(Shown(view[c], Head(wire[c])), Tail(wire[c]), kind)
                               = Final(view[c], wire[c], kind)
  BY <1>1, Received
<1>5. wire' \in [Clients -> Seq(Call)] /\ view' \in [Clients -> View]
  BY <1>1, <1>2, <1>3 DEF BusOK
<1>6. \A d \in Clients :
        \/ d = c /\ wire'[d] = Tail(wire[c]) /\ view'[d] = Shown(view[c], Head(wire[c]))
        \/ d # c /\ wire'[d] = wire[d] /\ view'[d] = view[d]
  BY <1>1 DEF BusOK
<1>7. \A d \in Clients : HasLast(wire'[d])
  BY <1>4, <1>6 DEF BusOK
<1>8. \A d \in Clients : \A kind \in Kinds : Ends(d, kind)' = Ends(d, kind)
  BY <1>4, <1>6 DEF Ends
<1>9. QED
  BY <1>5, <1>7, <1>8 DEF Receives, BusOK

-----------------------------------------------------------------------------
(* The invariant: while the server is up, what clients will show is what   *)
(* the server has.                                                         *)

Known ==
  \A c \in Clients :
    /\ Ends(c, ListCall) = mFilelist
    /\ m_CurrentPathVector # <<>> => Ends(c, PathCall) = m_CurrentPathVector
    /\ Played # 0 => Ends(c, PositionCall) = Played

SInv == IInv /\ BusOK /\ (status = "up" => Known)

LEMMA ServerKept ==
  ASSUME IInv, UNCHANGED <<disk, server>>, emitted' = <<>> PROVE IInv'
BY DEF IInv, server

LEMMA ServerTells ==
  ASSUME SInv, status = "up", IInv', Shape, Send, UNCHANGED view
  PROVE  Known'
<1>1. BusOK /\ Known /\ HasLast(emitted') /\ emitted' \in Seq(Call)
  BY ShapeTells DEF SInv
<1>2. \A c \in Clients : \A kind \in Kinds :
        Ends(c, kind)' = IF SendsNo(kind) THEN Ends(c, kind)
                         ELSE Final(view[c], emitted', kind)
  BY <1>1, SendEnds
<1>3. ListCall \in Kinds /\ PathCall \in Kinds /\ PositionCall \in Kinds
  BY DEF Kinds
<1>4. \A c \in Clients : Ends(c, ListCall)' = mFilelist'
  BY <1>1, <1>2, <1>3, ShapeTells DEF Known, Sends
<1>5. ASSUME NEW c \in Clients, m_CurrentPathVector' # <<>>
      PROVE  Ends(c, PathCall)' = m_CurrentPathVector'
  BY <1>1, <1>2, <1>3, <1>5, ShapeTells DEF Known, Sends
<1>6. ASSUME NEW c \in Clients, Played' # 0
      PROVE  Ends(c, PositionCall)' = Played'
  BY <1>1, <1>2, <1>3, <1>6, ShapeTells DEF Known, Sends
<1>7. QED
  BY <1>4, <1>5, <1>6 DEF Known

\* A process that is gone has sent nothing.
LEMMA HandlerEnds ==
  ASSUME NEW request \in Request, Handler(request)
  PROVE  status = "up" /\ (status' = "up" \/ (emitted' = <<>> /\ status' \in {"down", "crashed"}))
<1>1. ASSUME NEW how \in {"down", "crashed"}, Gone(how)
      PROVE  emitted' = <<>> /\ status' \in {"down", "crashed"}
  BY <1>1 DEF Gone
<1>2. ASSUME NEW num, NEW pl, Advance(num, pl), status = "up"
      PROVE  status' = "up" \/ Gone("crashed")
  BY <1>2 DEF Advance, PlayLine
<1>3. ASSUME NEW title, selectTitle(title)
      PROVE  status = "up" /\ (status' = "up" \/ Gone("crashed"))
  BY <1>3 DEF selectTitle, PlayLine, EnterFolder
<1>4. CASE request.method = "selectTitle"
  BY <1>1, <1>3, <1>4 DEF Handler
<1>5. CASE request.method = "selectRoot"
  BY <1>5 DEF Handler, selectPath
<1>6. CASE request.method = "getWindowList"
  BY <1>6 DEF Handler, getWindowList
<1>7. CASE request.method = "incrementTitle"
  BY <1>1, <1>2, <1>7 DEF Handler, incrementTitle
<1>8. CASE request.method = "pause"
  BY <1>8 DEF Handler, pauseTitle
<1>9. QED
  BY <1>4, <1>5, <1>6, <1>7, <1>8 DEF Request

LEMMA EngineEnds ==
  ASSUME Engine
  PROVE  status = "up" /\ (status' = "up" \/ (emitted' = <<>> /\ status' \in {"down", "crashed"}))
<1>1. CASE DecodeStop
  <2>1. CASE Advance(1, delivered(player))
    BY <1>1, <2>1 DEF DecodeStop, Advance, PlayLine, Gone
  <2>2. CASE OnlyPlayer
    BY <1>1, <2>2 DEF DecodeStop, OnlyPlayer
  <2>3. QED
    BY <1>1, <2>1, <2>2 DEF DecodeStop
<1>2. CASE \E tick \in Positions : PositionUpdate(tick)
  BY <1>2 DEF PositionUpdate, OnlyPlayer
<1>3. CASE TitleEnds \/ StaleFlushed
  BY <1>3 DEF TitleEnds, StaleFlushed, OnlyPlayer
<1>4. QED
  BY <1>1, <1>2, <1>3 DEF Engine

LEMMA StartShape ==
  ASSUME IInv, Start
  PROVE  /\ emitted' = <<WindowListResult(mFilelist')>> /\ status' = "up"
         /\ m_CurrentPathVector' = <<>> /\ Played' = 0
<1>1. ShowWindowList(<<>>, <<>>, InvalidID, TRUE, NewPlayer, <<>>)
  BY DEF Start
<1>2. NewPlayer \in PlayerType(AnyName) /\ TRUE \in BOOLEAN
  BY NewPlayerOK DEF PlayerOK
<1>3. /\ emitted' = Append(<<>>, WindowListResult(mFilelist'))
      /\ player'.old_position = NewPlayer.old_position
  BY <1>1, <1>2, ShowShape
<1>4. emitted' = <<WindowListResult(mFilelist')>>
  BY <1>3
<1>5. QED
  BY <1>3, <1>4 DEF Start, Played, NewPlayer

LEMMA SystemInitOK == SystemInit => SInv
<1> SUFFICES ASSUME SystemInit PROVE SInv
  OBVIOUS
<1>1. IInv /\ status # "up"
  BY InitOK DEF SystemInit, Init
<1>2. NewView \in View
  BY DEF NewView, View, NoLine, Line, UpLine
<1>3. BusOK
  BY <1>2, SentNone, SystemAssumption DEF SystemInit, BusOK
<1>4. QED
  BY <1>1, <1>3 DEF SInv

LEMMA CallsOK ==
  ASSUME SInv, NEW c \in Clients, ClientCalls(c) PROVE SInv'
<1>1. Requests(c) \subseteq Request
  <2>1. view[c].getWindowListResult \in Seq(Line)
    BY DEF SInv, BusOK, View
  <2>2. \A k \in DOMAIN view[c].getWindowListResult : view[c].getWindowListResult[k] \in Line
    BY <2>1
  <2>3. QED
    BY <2>2 DEF Requests, Request
<1>2. IInv'
  BY ServerKept DEF ClientCalls, SInv
<1>3. inbox' \in [Clients -> Seq(Request)]
  BY <1>1 DEF ClientCalls, SInv, BusOK
<1>4. calls' \in 0 .. MaxCalls
  BY SystemAssumption DEF ClientCalls, SInv, BusOK
<1>5. BusOK' /\ (Known => Known')
  BY <1>3, <1>4 DEF ClientCalls, SInv, BusOK, Known, Ends, server, Played
<1>6. QED
  BY <1>2, <1>5 DEF SInv, ClientCalls, server

LEMMA ReceivesOK ==
  ASSUME SInv, NEW c \in Clients, Receives(c) PROVE SInv'
<1>1. IInv'
  BY ServerKept DEF Receives, SInv
<1>2. BusOK' /\ \A d \in Clients : \A kind \in Kinds : Ends(d, kind)' = Ends(d, kind)
  BY ReceiveEnds DEF SInv
<1>3. ListCall \in Kinds /\ PathCall \in Kinds /\ PositionCall \in Kinds
  BY DEF Kinds
<1>4. Known => Known'
  BY <1>2, <1>3 DEF Known, Receives, server, Played
<1>5. QED
  BY <1>1, <1>2, <1>4 DEF SInv, Receives, server

\* A step of the server that runs, or with which it ends.
LEMMA ServerOK ==
  ASSUME SInv, status = "up", IInv', Send, UNCHANGED view,
         IF status' = "up" THEN Shape ELSE emitted' = <<>>,
         inbox' \in [Clients -> Seq(Request)], UNCHANGED <<calls, starts>>
  PROVE  SInv'
<1>1. HasLast(emitted') /\ emitted' \in Seq(Call)
  <2>1. CASE status' = "up"
    BY <2>1, ShapeTells
  <2>2. CASE status' # "up"
    BY <2>2, SentNone
  <2>3. QED
    BY <2>1, <2>2
<1>2. BusOK'
  BY <1>1, SendEnds DEF SInv, BusOK
<1>3. QED
  BY <1>2, ServerTells DEF SInv

LEMMA HandlesOK ==
  ASSUME SInv, NEW c \in Clients, ServerHandles(c) PROVE SInv'
<1>1. Head(inbox[c]) \in Request /\ Tail(inbox[c]) \in Seq(Request)
  BY DEF ServerHandles, SInv, BusOK
<1>2. Handler(Head(inbox[c]))
  BY DEF ServerHandles
<1>3. IInv' /\ status = "up" /\ (status' # "up" => emitted' = <<>>)
  BY <1>1, <1>2, HandlerOK, HandlerEnds DEF SInv
<1>4. status' = "up" => Shape
  BY <1>1, <1>2, HandlerShape DEF SInv, Shape
<1>5. inbox' \in [Clients -> Seq(Request)]
  BY <1>1 DEF ServerHandles, SInv, BusOK
<1>6. QED
  BY <1>3, <1>4, <1>5, ServerOK DEF ServerHandles

LEMMA EngineCallsOK == ASSUME SInv, EngineCalls PROVE SInv'
<1>1. IInv' /\ status = "up" /\ (status' # "up" => emitted' = <<>>)
  BY EngineStepOK, EngineEnds DEF EngineCalls, SInv
<1>2. status' = "up" => Shape
  BY EngineShape DEF EngineCalls, SInv, Shape
<1>3. inbox' \in [Clients -> Seq(Request)]
  BY DEF EngineCalls, SInv, BusOK
<1>4. QED
  BY <1>1, <1>2, <1>3, ServerOK DEF EngineCalls

LEMMA StartsOK == ASSUME SInv, ServerStarts PROVE SInv'
<1>1. IInv'
  BY StartOK DEF ServerStarts, SInv
<1>2. /\ emitted' = <<WindowListResult(mFilelist')>> /\ status' = "up"
      /\ m_CurrentPathVector' = <<>> /\ Played' = 0
  BY StartShape DEF ServerStarts, SInv
<1>3. WindowListResult(mFilelist') \in Call
  BY <1>1, CallTypes DEF IInv, ListOK
<1>4. HasLast(emitted') /\ emitted' \in Seq(Call) /\ Sends(ListCall, mFilelist') /\ ~SendsNo(ListCall)
  <2> DEFINE call == WindowListResult(mFilelist')
  <2>1. emitted' = <<call>> /\ call \in Call /\ call.call = ListCall /\ Told(call) = mFilelist'
    BY <1>2, <1>3, ToldBack
  <2> HIDE DEF call
  <2>2. emitted' \in Seq(Call)
    BY <2>1
  <2>3. QED
    BY <2>1, <2>2, SentOne DEF Sends, SendsNo
<1>5. starts' \in 0 .. MaxStarts
  BY SystemAssumption DEF ServerStarts, SInv, BusOK
<1>6. BusOK' /\ \A c \in Clients : Ends(c, ListCall)' = mFilelist'
  <2>1. ListCall \in Kinds
    BY DEF Kinds
  <2>2. QED
    BY <1>4, <1>5, <2>1, SendEnds DEF ServerStarts, SInv, BusOK, Sends
<1>7. QED
  BY <1>1, <1>2, <1>6 DEF SInv, Known

LEMMA QuitsOK == ASSUME SInv, ServerQuits PROVE SInv'
<1>1. IInv' /\ status' # "up" /\ emitted' = <<>> /\ status = "up"
  BY GoneOK DEF ServerQuits, Quit, Gone, SInv
<1>2. inbox' \in [Clients -> Seq(Request)]
  BY DEF ServerQuits
<1>3. QED
  BY <1>1, <1>2, ServerOK DEF ServerQuits

LEMMA SystemNextOK == SInv /\ [SystemNext]_systemVars => SInv'
<1> SUFFICES ASSUME SInv, [SystemNext]_systemVars PROVE SInv'
  OBVIOUS
<1>1. CASE UNCHANGED systemVars
  <2>1. UNCHANGED <<disk, server, emitted, bus>>
    BY <1>1 DEF systemVars, vars
  <2>2. IInv'
    BY <2>1 DEF SInv, IInv, server
  <2>3. BusOK' /\ (Known => Known')
    BY <2>1 DEF SInv, BusOK, bus, Known, Ends, server, Played
  <2>4. QED
    BY <2>1, <2>2, <2>3 DEF SInv, server
<1>2. QED
  BY <1>1, CallsOK, ReceivesOK, HandlesOK, EngineCallsOK, StartsOK, QuitsOK DEF SystemNext

LEMMA AlwaysSInv == SystemSpec => []SInv
BY SystemInitOK, SystemNextOK, PTL DEF SystemSpec

\* Every variable of the bus keeps its type, and calls and starts their bounds.
THEOREM SystemTypes == SystemSpec => []SystemTypeOK
<1>1. SInv => SystemTypeOK
  BY DEF SInv, BusOK, SystemTypeOK
<1>2. QED
  BY <1>1, AlwaysSInv, PTL

\* Whatever clients call in whatever order, and however often the server is started:
\* when everything on its way has arrived a client shows the list that ids will be
\* looked up in (OICFMediaProviderImpl::getWindowList).
THEOREM ListsAlwaysArrive == SystemSpec => []ListsArrive
<1>1. SInv => ListsArrive
  BY FinalFields DEF SInv, Known, ListsArrive
<1>2. QED
  BY <1>1, AlwaysSInv, PTL

\* ... the path, unless the server has come back to the root by a restart
\* (OICFMediaProviderImpl::selectPath).
THEOREM PathsAlwaysArrive == SystemSpec => []PathsArrive
<1>1. SInv => PathsArrive
  BY FinalFields DEF SInv, Known, PathsArrive
<1>2. QED
  BY <1>1, AlwaysSInv, PTL

\* ... and the second that is played (Player::positionUpdate).
THEOREM PositionsAlwaysArrive == SystemSpec => []PositionsArrive
<1>1. SInv => PositionsArrive
  BY FinalFields DEF SInv, Known, PositionsArrive, Played
<1>2. QED
  BY <1>1, AlwaysSInv, PTL

-----------------------------------------------------------------------------
(* The title that is played.                                               *)

\* The start finds a title to play, so that none is played later on unannounced.
RootHasTitle == \A d \in Disks : <<>> \in DOMAIN d /\ d[<<>>].files # <<>>

TitlesKnown ==
  \A c \in Clients :
    Ends(c, TitleCall) # NoLine => Ends(c, TitleCall).name = player.file[Len(player.file)]

TInv ==
  /\ status = "up" => ~mStartup
  /\ starts = 0 => status # "up" /\ \A c \in Clients : Ends(c, TitleCall) = NoLine
  /\ status = "up" /\ starts = 1 => TitlesKnown

LEMMA RootShowsTitle ==
  ASSUME RootHasTitle, disk \in Disks
  PROVE  Titles(WindowList(<<>>, <<>>)) # {}
<1> DEFINE dirs == Contents(<<>>).dirs
           files == Contents(<<>>).files
           D == Lines(dirs, "Folder", 0)
           F == Lines(files, "Title", Len(dirs))
<1>1. dirs \in Seq(Name) /\ files \in Seq(Name) /\ files # <<>>
  BY ContentsType DEF Contents, RootHasTitle, Listing
<1>2. Len(dirs) \in Nat /\ Len(files) \in Nat \ {0}
  BY <1>1
<1>3. D \in Seq(Line) /\ F \in Seq(Line) /\ Len(F) = Len(files)
  BY <1>1, <1>2, LinesNumbered DEF Numbered
<1>4. F[1].type = "Title"
  BY <1>2 DEF Lines
<1>5. WindowList(<<>>, <<>>) = (<<>> \o D) \o F
  BY DEF WindowList, UpLines
<1> HIDE DEF dirs, files, D, F
<1>6. <<>> \o D = D
  BY <1>3
<1>7. Len(D) \in Nat /\ (D \o F)[Len(D) + 1] = F[1] /\ Len(D) + 1 \in DOMAIN (D \o F)
  BY <1>2, <1>3
<1>8. Len(D) + 1 \in Titles(WindowList(<<>>, <<>>))
  BY <1>4, <1>5, <1>6, <1>7 DEF Titles
<1>9. QED
  BY <1>8

LEMMA LastAppended ==
  ASSUME NEW path \in Seq(AnyName), NEW name \in AnyName
  PROVE  Append(path, name)[Len(Append(path, name))] = name
OBVIOUS

LEMMA TitlesInit == SystemInit => TInv
BY SentNone DEF SystemInit, Init, TInv, Ends, NewView, TitleCall

LEMMA TitlesServer ==
  ASSUME SInv, TInv, status = "up", IInv', Send, UNCHANGED <<view, starts>>,
         status' = "up" => Shape /\ (~mStartup => ~mStartup')
  PROVE  TInv'
<1>1. ~mStartup /\ starts # 0
  BY DEF TInv
<1>2. ASSUME status' = "up", starts = 1 PROVE TitlesKnown'
  <2>1. TitlesKnown /\ BusOK
    BY <1>2 DEF TInv, SInv
  <2>2. HasLast(emitted') /\ emitted' \in Seq(Call)
    BY <1>2, ShapeTells
  <2>3. TitleCall \in Kinds
    BY DEF Kinds
  <2>4. \A c \in Clients : Ends(c, TitleCall)' = IF SendsNo(TitleCall) THEN Ends(c, TitleCall)
                                             ELSE Final(view[c], emitted', TitleCall)
    BY <2>1, <2>2, <2>3, SendEnds
  <2>5. CASE SendsNo(TitleCall)
    <3>1. player'.file = player.file
      BY <1>1, <1>2, <2>5, ShapeTells
    <3>2. QED
      BY <2>1, <2>4, <2>5, <3>1 DEF TitlesKnown
  <2>6. CASE ~SendsNo(TitleCall)
    <3>1. PICK line \in Line : Sends(TitleCall, line)
                               /\ player'.file = Append(m_CurrentPath, line.name)
      BY <1>2, <2>6, ShapeTells
    <3>2. line.name \in AnyName /\ m_CurrentPath \in Seq(AnyName)
      BY DEF Line, UpLine, AnyName, SInv, IInv, LocationOK
    <3>3. player'.file[Len(player'.file)] = line.name
      BY <3>1, <3>2, LastAppended
    <3>4. \A c \in Clients : Ends(c, TitleCall)' = line
      BY <2>4, <2>6, <3>1 DEF Sends
    <3>5. QED
      BY <3>3, <3>4 DEF TitlesKnown
  <2>7. QED
    BY <2>5, <2>6
<1>3. QED
  BY <1>1, <1>2 DEF TInv

LEMMA TitlesStart ==
  ASSUME RootHasTitle, SInv, SInv', TInv, ServerStarts PROVE TInv'
<1>1. emitted' = <<WindowListResult(mFilelist')>> /\ disk \in Disks
  BY StartShape DEF ServerStarts, SInv, IInv
<1>2. ~mStartup'
  BY <1>1, RootShowsTitle DEF ServerStarts, Start, ShowWindowList, PlaysFirstTitle
<1>3. mFilelist' \in Seq(Line)
  BY DEF SInv, IInv, ListOK
<1>4. HasLast(emitted') /\ emitted' \in Seq(Call) /\ SendsNo(TitleCall)
  <2> DEFINE call == WindowListResult(mFilelist')
  <2>1. emitted' = <<call>> /\ call \in Call /\ call.call = ListCall /\ ListCall # TitleCall
    BY <1>1, <1>3, ToldBack, CallTypes DEF ListCall, TitleCall
  <2> HIDE DEF call
  <2>2. emitted' \in Seq(Call)
    BY <2>1
  <2>3. QED
    BY <2>1, <2>2, SentOne DEF SendsNo
<1>5. \A c \in Clients : Ends(c, TitleCall)' = Ends(c, TitleCall)
  <2>1. TitleCall \in Kinds
    BY DEF Kinds
  <2>2. QED
    BY <1>4, <2>1, SendEnds DEF ServerStarts, SInv
<1>6. starts \in Nat /\ starts' = starts + 1
  BY SystemAssumption DEF ServerStarts, SInv, BusOK
<1>7. starts' = 1 => \A c \in Clients : Ends(c, TitleCall)' = NoLine
  BY <1>5, <1>6 DEF TInv
<1>8. QED
  BY <1>2, <1>6, <1>7 DEF TInv, TitlesKnown

LEMMA TitlesNext ==
  ASSUME RootHasTitle, SInv, SInv', TInv, [SystemNext]_systemVars PROVE TInv'
<1>1. IInv /\ IInv' /\ BusOK /\ TitleCall \in Kinds
  BY DEF SInv, Kinds
<1>2. CASE UNCHANGED systemVars
  BY <1>2 DEF systemVars, vars, server, bus, TInv, TitlesKnown, Ends
<1>3. ASSUME NEW c \in Clients, ClientCalls(c) PROVE TInv'
  BY <1>3 DEF ClientCalls, server, TInv, TitlesKnown, Ends
<1>4. ASSUME NEW c \in Clients, Receives(c) PROVE TInv'
  <2>1. \A d \in Clients : Ends(d, TitleCall)' = Ends(d, TitleCall)
    BY <1>1, <1>4, ReceiveEnds
  <2>2. QED
    BY <1>4, <2>1 DEF Receives, server, TInv, TitlesKnown
<1>5. ASSUME NEW c \in Clients, ServerHandles(c) PROVE TInv'
  <2>1. Head(inbox[c]) \in Request /\ Handler(Head(inbox[c]))
    BY <1>1, <1>5 DEF ServerHandles, BusOK
  <2>2. status = "up"
    BY <2>1, HandlerEnds
  <2>3. status' = "up" => Shape /\ (~mStartup => ~mStartup')
    BY <1>1, <2>1, HandlerShape DEF Shape
  <2>4. QED
    BY <1>1, <1>5, <2>2, <2>3, TitlesServer DEF ServerHandles
<1>6. CASE EngineCalls
  <2>1. status = "up"
    BY <1>6, EngineEnds DEF EngineCalls
  <2>2. status' = "up" => Shape /\ (~mStartup => ~mStartup')
    BY <1>1, <1>6, EngineShape DEF EngineCalls, Shape
  <2>3. QED
    BY <1>1, <1>6, <2>1, <2>2, TitlesServer DEF EngineCalls
<1>7. CASE ServerStarts
  BY <1>7, TitlesStart
<1>8. CASE ServerQuits
  BY <1>8 DEF ServerQuits, Quit, Gone, TInv
<1>9. QED
  BY <1>2, <1>3, <1>4, <1>5, <1>6, <1>7, <1>8 DEF SystemNext

\* During the first run of a server whose root has a title, the title a client will
\* show is the one in the player (OICFMediaProviderImpl::selectTitle, incrementTitle);
\* together with the list and the path.
THEOREM ViewsAlwaysArrive == ASSUME RootHasTitle PROVE SystemSpec => []ViewsArrive
<1>1. SInv /\ TInv => ViewsArrive
  BY FinalFields
  DEF SInv, Known, TInv, TitlesKnown, ViewsArrive, ListsArrive, PathsArrive, TitlesArrive
<1>2. SystemInit => SInv /\ TInv
  BY SystemInitOK, TitlesInit
<1>3. SInv /\ TInv /\ [SystemNext]_systemVars => (SInv /\ TInv)'
  BY SystemNextOK, TitlesNext
<1>4. QED
  BY <1>1, <1>2, <1>3, PTL DEF SystemSpec

-----------------------------------------------------------------------------
(* The list and the path.                                                  *)

\* The list on show is of the folder titles are opened in, or the path was reset.
InThePath == mFilelist = WindowList(m_CurrentPath, m_CurrentPathVector)
LInv == status = "up" => InThePath \/ PathReset

LEMMA ListStays ==
  ASSUME LInv,
         UNCHANGED <<disk, status, m_CurrentPath, m_CurrentPathVector, mFilelist>>
  PROVE  LInv'
BY DEF LInv, InThePath, PathReset, WindowList, UpLines, Contents, Lines

LEMMA ListShown ==
  ASSUME NEW path, NEW vec, NEW id, NEW startup, NEW pl, NEW before,
         ShowWindowList(path, vec, id, startup, pl, before),
         disk' = disk, m_CurrentPath' = path, m_CurrentPathVector' = vec
  PROVE  LInv'
BY DEF ShowWindowList, LInv, InThePath, WindowList, UpLines, Contents, Lines

LEMMA ListAdvances ==
  ASSUME LInv, NEW num, NEW pl, Advance(num, pl) PROVE LInv'
<1>1. CASE \E line \in NextLines(num) : PlayLine(line, pl)
  BY <1>1, ListStays DEF PlayLine
<1>2. CASE Gone("crashed")
  BY <1>2 DEF Gone, LInv
<1>3. QED
  BY <1>1, <1>2, ListStays DEF Advance

LEMMA BothInOrder ==
  ASSUME NEW S, NEW s \in Seq(S), NEW t \in Seq(S)
  PROVE  /\ s \o t \in Seq(S) /\ Len(s \o t) = Len(s) + Len(t)
         /\ Len(s) \in Nat /\ Len(t) \in Nat /\ Len(s \o t) \in Nat
         /\ \A k \in 1 .. Len(s \o t) :
              (s \o t)[k] = IF k <= Len(s) THEN s[k] ELSE t[k - Len(s)]
<1>1. Len(s) \in Nat /\ Len(t) \in Nat
  OBVIOUS
<1>2. QED
  BY <1>1, ConcatProperties

\* The list of a folder below the root leads with the line up.
LEMMA FirstIsUp ==
  ASSUME disk \in Disks, NEW path, NEW vec, vec # <<>>
  PROVE  1 \in DOMAIN WindowList(path, vec) /\ WindowList(path, vec)[1] = UpLine
<1> DEFINE D == Lines(Contents(path).dirs, "Folder", 0)
           F == Lines(Contents(path).files, "Title", Len(Contents(path).dirs))
           up == UpLines(vec)
<1>1. D \in Seq(Line) /\ F \in Seq(Line)
  BY ContentsType, LinesNumbered DEF Listing, Numbered
<1>2. up = <<UpLine>> /\ UpLine \in Line
  BY DEF UpLines, UpLine, Line, InvalidID
<1>3. WindowList(path, vec) = (up \o D) \o F
  BY DEF WindowList
<1> HIDE DEF D, F, up
<1>4. up \in Seq(Line) /\ Len(up) = 1 /\ up[1] = UpLine
  BY <1>2
<1>5. up \o D \in Seq(Line) /\ Len(up \o D) = 1 + Len(D) /\ (up \o D)[1] = UpLine
  <2>1. 1 <= Len(up) /\ 1 \in 1 .. Len(up \o D)
    BY <1>1, <1>4, BothInOrder
  <2>2. QED
    BY <1>1, <1>4, <2>1, BothInOrder
<1>6. Len(D) \in Nat /\ Len(F) \in Nat
  BY <1>1
<1>7. (up \o D) \o F \in Seq(Line) /\ ((up \o D) \o F)[1] = UpLine
      /\ Len((up \o D) \o F) = 1 + Len(D) + Len(F)
  BY <1>1, <1>5, <1>6
<1>8. QED
  BY <1>3, <1>6, <1>7

LEMMA ListReset == ASSUME IInv, LInv, selectPath(<<>>) PROVE LInv'
<1>1. /\ UNCHANGED <<disk, status, mFilelist>> /\ status = "up"
      /\ m_CurrentPathVector' = <<>> /\ m_CurrentPath' = PathTo(<<>>)
  BY DEF selectPath
<1>2. CASE m_CurrentPathVector = <<>>
  <2>1. m_CurrentPath = <<>> /\ PathTo(<<>>) = <<>>
    BY <1>2 DEF IInv, LocationOK, PathTo
  <2>2. QED
    BY <1>1, <1>2, <2>1, ListStays
<1>3. CASE m_CurrentPathVector # <<>>
  <2>1. mFilelist = WindowList(m_CurrentPath, m_CurrentPathVector)
    BY <1>1, <1>3 DEF LInv, InThePath, PathReset
  <2>2. 1 \in DOMAIN mFilelist /\ mFilelist[1] = UpLine
    BY <1>3, <2>1, FirstIsUp DEF IInv
  <2>3. PathReset'
    BY <1>1, <2>2 DEF PathReset, UpLine
  <2>4. QED
    BY <2>3 DEF LInv
<1>4. QED
  BY <1>2, <1>3

LEMMA ListEnters ==
  ASSUME NEW title, NEW vec, EnterFolder(title, vec) PROVE LInv'
BY ListShown DEF EnterFolder

LEMMA ListHandled ==
  ASSUME IInv, LInv, NEW request \in Request, Handler(request) PROVE LInv'
<1>1. CASE request.method = "selectTitle"
  <2>1. selectTitle(request.title)
    BY <1>1 DEF Handler
  <2>2. CASE Gone("crashed")
    BY <2>2 DEF Gone, LInv
  <2>3. CASE \E k \in Selected(request.title) : PlayLine(mFilelist[k], player)
    BY <2>3, ListStays DEF PlayLine
  <2>4. CASE \E vec : EnterFolder(request.title, vec)
    BY <2>4, ListEnters
  <2>5. QED
    BY <2>1, <2>2, <2>3, <2>4, ListStays DEF selectTitle
<1>2. CASE request.method = "selectRoot"
  BY <1>2, ListReset DEF Handler
<1>3. CASE request.method = "getWindowList"
  <2>1. getWindowList
    BY <1>3 DEF Handler
  <2>2. /\ ShowWindowList(m_CurrentPath, m_CurrentPathVector, m_playingTitleID,
                          mStartup, player, <<>>)
        /\ disk' = disk /\ m_CurrentPath' = m_CurrentPath
        /\ m_CurrentPathVector' = m_CurrentPathVector
    BY <2>1 DEF getWindowList
  <2>3. QED
    BY <2>2, ListShown
<1>4. CASE request.method = "incrementTitle"
  BY <1>4, ListAdvances DEF Handler, incrementTitle
<1>5. CASE request.method = "pause"
  BY <1>5, ListStays DEF Handler, pauseTitle
<1>6. QED
  BY <1>1, <1>2, <1>3, <1>4, <1>5 DEF Request

LEMMA ListNext ==
  ASSUME SInv, LInv, [SystemNext]_systemVars PROVE LInv'
<1>1. CASE UNCHANGED systemVars
  BY <1>1, ListStays DEF systemVars, vars, server
<1>2. ASSUME NEW c \in Clients, ClientCalls(c) \/ Receives(c) PROVE LInv'
  BY <1>2, ListStays DEF ClientCalls, Receives, server
<1>3. ASSUME NEW c \in Clients, ServerHandles(c) PROVE LInv'
  <2>1. Head(inbox[c]) \in Request
    <3>1. inbox[c] \in Seq(Request) /\ inbox[c] # <<>>
      BY <1>3 DEF ServerHandles, SInv, BusOK
    <3>2. QED
      BY <3>1
  <2>2. QED
    BY <1>3, <2>1, ListHandled DEF ServerHandles, SInv
<1>4. CASE EngineCalls
  <2>1. CASE \E num, pl : Advance(num, pl)
    BY <2>1, ListAdvances
  <2>2. CASE OnlyPlayer
    BY <2>2, ListStays DEF OnlyPlayer
  <2>3. QED
    BY <1>4, <2>1, <2>2 DEF EngineCalls, Engine, DecodeStop, PositionUpdate, TitleEnds,
                            StaleFlushed
<1>5. CASE ServerStarts
  <2>1. /\ ShowWindowList(<<>>, <<>>, InvalidID, TRUE, NewPlayer, <<>>)
        /\ disk' = disk /\ m_CurrentPath' = <<>> /\ m_CurrentPathVector' = <<>>
    BY <1>5 DEF ServerStarts, Start
  <2>2. QED
    BY <2>1, ListShown
<1>6. CASE ServerQuits
  BY <1>6 DEF ServerQuits, Quit, Gone, LInv
<1>7. QED
  BY <1>1, <1>2, <1>3, <1>4, <1>5, <1>6 DEF SystemNext

\* A title of a folder's list is a file of this folder.
LEMMA TitlesExist ==
  ASSUME disk \in Disks, NEW path, NEW vec, NEW j \in DOMAIN WindowList(path, vec),
         WindowList(path, vec)[j].type = "Title"
  PROVE  Exists(Append(path, WindowList(path, vec)[j].name))
<1> DEFINE dirs == Contents(path).dirs
           files == Contents(path).files
           U == UpLines(vec)
           D == Lines(dirs, "Folder", 0)
           F == Lines(files, "Title", Len(dirs))
           UD == U \o D
           list == WindowList(path, vec)
<1>1. /\ dirs \in Seq(Name) /\ files \in Seq(Name)
      /\ Len(dirs) \in Nat /\ Len(files) \in Nat
  BY ContentsType DEF Listing
<1>2. /\ D \in Seq(Line) /\ F \in Seq(Line)
      /\ Len(D) = Len(dirs) /\ Len(F) = Len(files)
  BY <1>1, LinesNumbered DEF Numbered
<1>3. U \in Seq(Line) /\ \A k \in 1 .. Len(U) : U[k].type # "Title"
  <2>1. CASE vec = <<>>
    BY <2>1 DEF UpLines
  <2>2. CASE vec # <<>>
    BY <2>2 DEF UpLines, UpLine, Line, InvalidID
  <2>3. QED
    BY <2>1, <2>2
<1>4. \A k \in 1 .. Len(D) : D[k].type # "Title"
  BY <1>1, <1>2 DEF Lines
<1>5. \A k \in 1 .. Len(F) : k \in DOMAIN files /\ F[k].name = files[k]
  BY <1>1, <1>2 DEF Lines
<1>6. list = UD \o F
  BY DEF WindowList
<1> HIDE DEF dirs, files, U, D, F
<1>7. /\ UD \in Seq(Line) /\ Len(UD) = Len(U) + Len(D) /\ Len(UD) \in Nat
      /\ \A k \in 1 .. Len(UD) : UD[k] = IF k <= Len(U) THEN U[k] ELSE D[k - Len(U)]
  <2>1. D \in Seq(Line) /\ U \in Seq(Line)
    BY <1>2, <1>3
  <2>2. QED
    BY <2>1, BothInOrder, Zenon DEF UD
<1>8. \A k \in 1 .. Len(UD) : UD[k].type # "Title"
  <2> TAKE k \in 1 .. Len(UD)
  <2>1. Len(U) \in Nat /\ Len(D) \in Nat
    BY <1>2, <1>3
  <2>2. CASE k <= Len(U)
    BY <1>3, <1>7, <2>1, <2>2
  <2>3. CASE k > Len(U)
    <3>1. k - Len(U) \in 1 .. Len(D) /\ UD[k] = D[k - Len(U)]
      BY <1>7, <2>1, <2>3
    <3>2. QED
      BY <1>4, <3>1
  <2>4. QED
    BY <1>7, <2>1, <2>2, <2>3
<1> HIDE DEF UD, list
<1>9. /\ list \in Seq(Line) /\ Len(list) = Len(UD) + Len(F) /\ Len(F) \in Nat
      /\ \A k \in 1 .. Len(list) :
           list[k] = IF k <= Len(UD) THEN UD[k] ELSE F[k - Len(UD)]
  <2>1. UD \in Seq(Line) /\ F \in Seq(Line)
    BY <1>2, <1>7
  <2>2. QED
    BY <1>6, <2>1, BothInOrder, Zenon
<1>10. j \in 1 .. Len(list) /\ list[j].type = "Title"
  BY <1>9 DEF list
<1>11. ~(j <= Len(UD))
  BY <1>8, <1>9, <1>10
<1>12. j - Len(UD) \in 1 .. Len(F) /\ list[j] = F[j - Len(UD)]
  BY <1>7, <1>9, <1>10, <1>11
<1>13. PICK k \in DOMAIN files : list[j].name = files[k]
  BY <1>5, <1>12
<1>14. path \in DOMAIN disk /\ files = disk[path].files
  BY <1>13 DEF files, Contents
<1>15. QED
  BY <1>13, <1>14 DEF Exists, list

-----------------------------------------------------------------------------
(* A client that waits.                                                    *)

\* One client, which waits for the answers to its last call.
OnePatient == Patient /\ \A c, d \in Clients : c = d

\* Its call is about a line of the list that is still the server's, and no other
\* list is on its way.
PInv ==
  \A c \in Clients :
    inbox[c] # <<>> =>
      /\ status = "up"
      /\ Len(inbox[c]) = 1 /\ OfKind(wire[c], ListCall) = {}
      /\ Head(inbox[c]).method = "selectTitle" =>
           \E k \in DOMAIN mFilelist : Head(inbox[c]).title = mFilelist[k]

LEMMA PatientCalls ==
  ASSUME OnePatient, SInv, NEW c \in Clients, ClientCalls(c) PROVE PInv'
<1>1. inbox[c] = <<>> /\ wire[c] = <<>>
  BY DEF ClientCalls, MayCall, OnePatient
<1>2. view[c].getWindowListResult = Ends(c, ListCall)
  BY <1>1, SentNone DEF Ends, ListCall
<1>3. PICK request \in Requests(c) :
        inbox' = IF status = "up" THEN [inbox EXCEPT ![c] = Append(inbox[c], request)]
                                  ELSE inbox
  BY DEF ClientCalls
<1>4. \A d \in Clients : d = c
  BY DEF OnePatient
<1>5. status' = status /\ mFilelist' = mFilelist
  BY DEF ClientCalls, server
<1>6. CASE status # "up"
  <2>1. \A d \in Clients : inbox'[d] = <<>>
    BY <1>1, <1>3, <1>4, <1>6
  <2>2. QED
    BY <2>1 DEF PInv
<1>7. CASE status = "up"
  <2>1. inbox'[c] = Append(<<>>, request)
    BY <1>1, <1>3, <1>7 DEF SInv, BusOK
  <2>2. Len(inbox'[c]) = 1 /\ Head(inbox'[c]) = request
    BY <2>1
  <2>3. Ends(c, ListCall) = mFilelist
    BY <1>7 DEF SInv, Known
  <2>4. request.method = "selectTitle" => \E k \in DOMAIN mFilelist : request.title = mFilelist[k]
    BY <1>2, <2>3 DEF Requests
  <2>6. wire' = wire
    BY DEF ClientCalls
  <2>5. QED
    BY <1>1, <1>4, <1>5, <1>7, <2>2, <2>4, <2>6, SentNone DEF PInv
<1>8. QED
  BY <1>6, <1>7

LEMMA TailOfOne ==
  ASSUME NEW S, NEW s \in Seq(S), Len(s) = 1 PROVE Tail(s) = <<>>
<1>1. Tail(s) \in Seq(S) /\ Len(Tail(s)) = 0
  OBVIOUS
<1>2. QED
  BY <1>1, EmptySeq

LEMMA RestOfKind ==
  ASSUME NEW sent \in Seq(Call), sent # <<>>, NEW kind, OfKind(sent, kind) = {}
  PROVE  OfKind(Tail(sent), kind) = {}
<1> SUFFICES ASSUME NEW k \in OfKind(Tail(sent), kind) PROVE FALSE
  OBVIOUS
<1>1. k \in 1 .. Len(Tail(sent)) /\ Tail(sent)[k].call = kind
  BY TailOf DEF OfKind
<1>2. k + 1 \in 1 .. Len(sent) /\ sent[k + 1].call = kind
  BY <1>1, TailOf
<1>3. QED
  BY <1>2, TailOf DEF OfKind

LEMMA BothOfKind ==
  ASSUME NEW s \in Seq(Call), NEW t \in Seq(Call), NEW kind,
         OfKind(s, kind) = {}, OfKind(t, kind) = {}
  PROVE  OfKind(s \o t, kind) = {}
<1>1. /\ Len(s) \in Nat /\ Len(t) \in Nat /\ DOMAIN s = 1 .. Len(s)
      /\ DOMAIN t = 1 .. Len(t) /\ DOMAIN (s \o t) = 1 .. Len(s) + Len(t)
      /\ \A k \in 1 .. Len(s) + Len(t) :
           (s \o t)[k] = IF k <= Len(s) THEN s[k] ELSE t[k - Len(s)]
  BY ConcatProperties
<1> SUFFICES ASSUME NEW k \in OfKind(s \o t, kind) PROVE FALSE
  OBVIOUS
<1>2. k \in 1 .. Len(s) + Len(t) /\ (s \o t)[k].call = kind
  BY <1>1 DEF OfKind
<1>3. CASE k <= Len(s)
  BY <1>1, <1>2, <1>3 DEF OfKind
<1>4. CASE k > Len(s)
  <2>1. k - Len(s) \in 1 .. Len(t) /\ t[k - Len(s)].call = kind
    BY <1>1, <1>2, <1>4
  <2>2. QED
    BY <1>1, <2>1 DEF OfKind
<1>5. QED
  BY <1>1, <1>2, <1>3, <1>4

LEMMA PatientNext ==
  ASSUME OnePatient, SInv, PInv, [SystemNext]_systemVars PROVE PInv'
<1>1. CASE UNCHANGED systemVars
  BY <1>1 DEF systemVars, vars, server, bus, PInv
<1>2. ASSUME NEW c \in Clients, ClientCalls(c) PROVE PInv'
  BY <1>2, PatientCalls
<1>3. ASSUME NEW c \in Clients, Receives(c) PROVE PInv'
  <2>1. wire' = [wire EXCEPT ![c] = Tail(wire[c])] /\ wire[c] # <<>> /\ wire[c] \in Seq(Call)
    BY <1>3 DEF Receives, SInv, BusOK
  <2>2. OfKind(wire[c], ListCall) = {} => OfKind(Tail(wire[c]), ListCall) = {}
    BY <2>1, RestOfKind
  <2>3. \A d \in Clients : OfKind(wire[d], ListCall) = {} => OfKind(wire'[d], ListCall) = {}
    BY <2>1, <2>2 DEF SInv, BusOK
  <2>4. UNCHANGED <<status, inbox, mFilelist>>
    BY <1>3 DEF Receives, server
  <2>5. QED
    BY <2>3, <2>4 DEF PInv
<1>4. ASSUME NEW c \in Clients, ServerHandles(c) PROVE PInv'
  <2>1. \A d \in Clients : d = c
    BY DEF OnePatient
  <2>2. inbox[c] \in Seq(Request) /\ Len(inbox[c]) = 1
    BY <1>4 DEF ServerHandles, PInv, SInv, BusOK
  <2>3. Tail(inbox[c]) = <<>>
    BY <2>2, TailOfOne
  <2>4. \A d \in Clients : inbox'[d] = <<>>
    BY <1>4, <2>1, <2>3 DEF ServerHandles, SInv, BusOK
  <2>5. QED
    BY <2>4 DEF PInv
<1>5. CASE EngineCalls
  <2>1. CASE status' = "up"
    <3>1. mFilelist' = mFilelist /\ inbox' = inbox
      BY <1>5, <2>1, EngineShape DEF EngineCalls, SInv, Quiet, Plays, Ticks
    <3>2. OfKind(emitted', ListCall) = {} /\ emitted' \in Seq(Call)
      <4>1. Quiet \/ Plays \/ Ticks
        BY <1>5, <2>1, EngineShape DEF EngineCalls, SInv
      <4>2. emitted' \in Seq(Call)
        BY <1>5, EngineStepOK DEF EngineCalls, SInv, IInv
      <4>3. QED
        BY <4>1, <4>2, SentNone DEF Quiet, Plays, Ticks, OfKind, SelectedTitle,
                                    PlayPosition, ListCall
    <3>3. ASSUME NEW c \in Clients, OfKind(wire[c], ListCall) = {}
          PROVE  OfKind(wire'[c], ListCall) = {}
      <4>1. wire'[c] = wire[c] \o emitted' /\ wire[c] \in Seq(Call)
        BY <1>5 DEF EngineCalls, Send, SInv, BusOK
      <4>2. QED
        BY <3>2, <3>3, <4>1, BothOfKind
    <3>4. QED
      BY <2>1, <3>1, <3>3, <1>5, EngineEnds DEF PInv, EngineCalls
  <2>2. CASE status' # "up"
    BY <1>5, <2>2 DEF EngineCalls, PInv
  <2>3. QED
    BY <2>1, <2>2
<1>6. CASE ServerStarts
  BY <1>6 DEF ServerStarts, Start, PInv
<1>7. CASE ServerQuits
  BY <1>7 DEF ServerQuits, PInv
<1>8. QED
  BY <1>1, <1>2, <1>3, <1>4, <1>5, <1>6, <1>7 DEF SystemNext

\* The line that answers to a line of the list is that very line.
LEMMA SelectedIsTapped ==
  ASSUME IInv, NEW j \in DOMAIN mFilelist, NEW k \in Selected(mFilelist[j])
  PROVE  mFilelist[k] = mFilelist[j]
<1>1. k \in DOMAIN mFilelist /\ mFilelist[k].id = mFilelist[j].id
  BY DEF Selected, First
<1>2. QED
  BY <1>1 DEF IInv, ListOK

\* The first of the positions that answer to a line of the list is there.
LEMMA AnswerThere ==
  ASSUME IInv, NEW j \in DOMAIN mFilelist PROVE Selected(mFilelist[j]) # {}
<1>1. \A k \in DOMAIN mFilelist : mFilelist[k].id = mFilelist[j].id => k = j
  BY DEF IInv, ListOK
<1>2. j \in Nat
  BY DEF IInv, ListOK
<1>3. j \in Selected(mFilelist[j])
  BY <1>1, <1>2 DEF Selected, First
<1>4. QED
  BY <1>3

\* A client that waits before it calls again gets the very title it was looking at,
\* its file and nothing else, in any music folder, through restarts, pauses and titles
\* that end, unless the path was reset under its list
\* (OICFMediaProviderImpl::selectTitle).
THEOREM TappedTitlesArePlayed ==
  ASSUME OnePatient PROVE SystemSpec => TappedTitleIsPlayed
<1>1. ASSUME SInv, LInv, PInv, [SystemNext]_systemVars, NEW c \in Clients,
             Handled(c, "selectTitle"), ~PathReset, Head(inbox[c]).title.type = "Title"
      PROVE  IsOn(c, Head(inbox[c]).title)
  <2> DEFINE title == Head(inbox[c]).title
             file == Append(m_CurrentPath, title.name)
             there == Exists(file)
  <2>1. ServerHandles(c)
    <3>1. inbox[c] # <<>> /\ inbox' # inbox /\ status' = "up"
      BY <1>1 DEF Handled
    <3>2. ~EngineCalls /\ ~ServerStarts /\ ~ServerQuits
      BY <3>1 DEF EngineCalls, ServerStarts, ServerQuits, Quit, Gone
    <3>3. \A d \in Clients : d = c /\ ~ClientCalls(d) /\ ~Receives(d)
      BY <1>1, <3>1 DEF OnePatient, ClientCalls, MayCall, Receives
    <3>4. QED
      BY <1>1, <3>1, <3>2, <3>3 DEF SystemNext, systemVars, bus
  <2>2. selectTitle(title)
    BY <1>1, <2>1 DEF Handled, ServerHandles, Handler
  <2>3. status = "up" /\ OfKind(wire[c], ListCall) = {}
        /\ \E j \in DOMAIN mFilelist : title = mFilelist[j]
    BY <1>1 DEF Handled, PInv
  <2>4. mFilelist = WindowList(m_CurrentPath, m_CurrentPathVector)
    BY <1>1, <2>3 DEF LInv, InThePath
  <2>5. view[c].getWindowListResult = mFilelist
    <3>1. Ends(c, ListCall) = mFilelist
      BY <1>1, <2>3 DEF SInv, Known
    <3>2. Ends(c, ListCall) = view[c].getWindowListResult
      BY <2>3 DEF Ends, Final, ListCall
    <3>3. QED
      BY <3>1, <3>2
  <2>6. PICK j \in DOMAIN mFilelist : title = mFilelist[j]
    BY <2>3
  <2>7. there
    BY <1>1, <2>4, <2>6, TitlesExist DEF SInv, IInv
  <2>8. PICK k \in Selected(title) : PlayLine(mFilelist[k], player)
    <3>1. Selected(title) # {} \/ emitted' = <<>>
      BY <2>2 DEF selectTitle
    <3>2. title.type = "Title"
      BY <1>1
    <3>3. Selected(title) # {}
      BY <1>1, <2>6, AnswerThere DEF SInv
    <3>4. QED
      BY <2>2, <3>2, <3>3 DEF selectTitle
  <2>9. mFilelist[k] = title
    BY <1>1, <2>6, <2>8, SelectedIsTapped DEF SInv
  <2>10. PlayLine(title, player)
    BY <2>8, <2>9
  <2>11. player' = play(open(stop(player), file, there)) /\ emitted' = <<SelectedTitle(title)>>
    BY <2>10 DEF PlayLine
  <2>12. player \in PlayerType(AnyName)
    BY <1>1 DEF SInv, IInv, PlayerOK
  <2> HIDE DEF file, there, title
  <2>13. player'.file = file /\ player'.loaded = there /\ player'.mPlayState = "PLAYING"
    BY <2>11, <2>12 DEF PlayerType, play, open, stop
  <2>14. view[c].getWindowListResult = WindowList(m_CurrentPath, m_CurrentPathVector)
    BY <2>4, <2>5
  <2>15. IsOn(c, title)
    BY <2>7, <2>11, <2>13, <2>14 DEF IsOn, file
  <2>16. QED
    BY <2>15 DEF title
<1>2. SystemInit => PInv /\ LInv
  BY DEF SystemInit, Init, PInv, LInv
<1>3. SInv /\ LInv /\ PInv /\ [SystemNext]_systemVars
        => [ \A c \in Clients :
               Handled(c, "selectTitle") /\ ~PathReset =>
                 LET title == Head(inbox[c]).title
                 IN  title.type = "Title" => IsOn(c, title) ]_systemVars
  BY <1>1
<1>4. SInv /\ LInv /\ PInv /\ [SystemNext]_systemVars => LInv' /\ PInv'
  BY PatientNext, ListNext
<1>5. QED
  BY <1>2, <1>3, <1>4, AlwaysSInv, PTL DEF SystemSpec, TappedTitleIsPlayed
================================================================================
