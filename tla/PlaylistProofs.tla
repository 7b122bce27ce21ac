----------------------------- MODULE PlaylistProofs -----------------------------
(***************************************************************************)
(* MediaProvider implements Playlist, for every root folder with a title   *)
(* and every number of folders beside it.                                  *)
(*                                                                         *)
(* The invariant needed beside that of MediaProofs: while the server runs, *)
(* the list shown is that of the root, the id kept is that of one of its   *)
(* titles, and this is the file the player has.                            *)
(***************************************************************************)
EXTENDS MediaPlaylist, MediaProofs

Folders == Len(RootFolder.dirs)

RootList == Lines(RootFolder.dirs, "Folder", 0) \o Lines(Tracks, "Title", Folders)

IsTrack(k) == k \in 1 .. Len(Tracks)

Idle ==
  /\ m_playingTitleID = InvalidID /\ mStartup = TRUE /\ mFilelist = <<>>
  /\ player = NewPlayer

\* The server plays or holds a title of the root.
Runs ==
  /\ mFilelist = RootList /\ mStartup = FALSE
  /\ player.mPlayState \in {"PLAYING", "PAUSED"}
  /\ \E k \in 1 .. Len(Tracks) :
       m_playingTitleID = Folders + k - 1 /\ player.file = <<Tracks[k]>>

InRoot ==
  /\ m_CurrentPath = <<>> /\ m_CurrentPathVector = <<>>
  /\ IF status = "up" THEN Runs ELSE Idle

-----------------------------------------------------------------------------
(* The list of the root.                                                   *)

LEMMA RootType ==
  /\ RootFolder.dirs \in Seq(Name) /\ Tracks \in Seq(Name)
  /\ Folders \in Nat /\ Len(Tracks) \in Nat \ {0}
BY PlaylistAssumption DEF Listing, Folders, Tracks

LEMMA RootLines ==
  /\ DOMAIN RootList = 1 .. Folders + Len(Tracks)
  /\ Len(RootList) = Folders + Len(Tracks)
  /\ \A k \in 1 .. Folders + Len(Tracks) :
       /\ RootList[k].id = k - 1
       /\ RootList[k].type = IF k <= Folders THEN "Folder" ELSE "Title"
  /\ \A k \in 1 .. Len(Tracks) : RootList[Folders + k].name = Tracks[k]
<1> DEFINE a == Lines(RootFolder.dirs, "Folder", 0)
           b == Lines(Tracks, "Title", Folders)
<1>1. Len(a) = Folders /\ Len(b) = Len(Tracks) /\ a \in Seq(Line) /\ b \in Seq(Line)
  BY RootType, LinesNumbered DEF Numbered, Folders
<1>2. /\ \A k \in 1 .. Folders : a[k].id = k - 1 /\ a[k].type = "Folder"
      /\ \A k \in 1 .. Len(Tracks) :
           b[k].id = Folders + k - 1 /\ b[k].type = "Title" /\ b[k].name = Tracks[k]
  BY RootType DEF Lines, Folders
<1> HIDE DEF a, b
<1>3. RootList = a \o b
  BY DEF RootList, a, b
<1>4. /\ RootList \in Seq(Line) /\ Len(RootList) = Folders + Len(Tracks)
      /\ \A k \in 1 .. Folders : RootList[k] = a[k]
      /\ \A k \in 1 .. Len(Tracks) : RootList[Folders + k] = b[k]
  <2>1. RootList \in Seq(Line) /\ Len(RootList) = Folders + Len(Tracks)
    <3>1. a \o b \in Seq(Line) /\ Len(a \o b) = Len(a) + Len(b)
      BY <1>1, ConcatProperties, Zenon
    <3>2. QED
      BY <1>1, <1>3, <3>1, Zenon
  <2>2. ASSUME NEW k \in 1 .. Folders + Len(Tracks)
        PROVE  RootList[k] = IF k <= Folders THEN a[k] ELSE b[k - Folders]
    BY <1>1, <1>3, ConcatProperties
  <2>3. ASSUME NEW k \in 1 .. Folders PROVE RootList[k] = a[k]
    BY <2>2, RootType
  <2>4. ASSUME NEW k \in 1 .. Len(Tracks) PROVE RootList[Folders + k] = b[k]
    <3>0. Len(Tracks) \in Nat /\ Folders \in Nat
      BY RootType
    <3>1. Folders + k \in 1 .. Folders + Len(Tracks) /\ ~(Folders + k <= Folders)
            /\ (Folders + k) - Folders = k
      BY <3>0
    <3>2. QED
      BY <2>2, <3>1
  <2>5. QED
    BY <2>1, <2>3, <2>4
<1>5. ASSUME NEW k \in 1 .. Folders + Len(Tracks)
      PROVE  /\ RootList[k].id = k - 1
             /\ RootList[k].type = IF k <= Folders THEN "Folder" ELSE "Title"
  <2>1. CASE k <= Folders
    BY <1>2, <1>4, <2>1, RootType
  <2>2. CASE k > Folders
    <3>1. k - Folders \in 1 .. Len(Tracks) /\ Folders + (k - Folders) = k
      BY <2>2, RootType
    <3>2. RootList[k] = b[k - Folders]
      BY <1>4, <3>1
    <3>3. QED
      BY <1>2, <2>2, <3>1, <3>2, RootType
  <2>3. QED
    BY <2>1, <2>2, RootType
<1>6. QED
  BY <1>2, <1>4, <1>5, RootType

\* The list that is shown, and its first title.
LEMMA RootShown ==
  ASSUME disk \in Disks
  PROVE  /\ WindowList(<<>>, <<>>) = RootList
         /\ First(Titles(RootList)) = {Folders + 1}
<1>1. Contents(<<>>) = RootFolder
  BY PlaylistAssumption DEF Contents
<1>2. /\ Lines(RootFolder.dirs, "Folder", 0) \in Seq(Line)
      /\ Lines(Tracks, "Title", Folders) \in Seq(Line)
  BY RootType, LinesNumbered DEF Numbered
<1>3. WindowList(<<>>, <<>>) = RootList
  BY <1>1, <1>2 DEF WindowList, UpLines, RootList, Tracks, Folders
<1>4. Titles(RootList) = Folders + 1 .. Folders + Len(Tracks)
  BY RootLines, RootType DEF Titles
<1>5. First(Titles(RootList)) = {Folders + 1}
  <2>1. /\ Folders + 1 \in Titles(RootList)
        /\ \A j \in Titles(RootList) : Folders + 1 <= j /\ j \in Int
    BY <1>4, RootType
  <2>2. ASSUME NEW k \in First(Titles(RootList)) PROVE k = Folders + 1
    BY <2>1, RootType DEF First
  <2>3. Folders + 1 \in First(Titles(RootList))
    BY <2>1 DEF First
  <2>4. QED
    BY <2>2, <2>3
<1>6. QED
  BY <1>3, <1>5

\* The line that has an id is found in its place.
LEMMA LineWithId ==
  ASSUME NEW k \in 1 .. Folders + Len(Tracks)
  PROVE  /\ {j \in DOMAIN RootList : RootList[j].id = k - 1} = {k}
         /\ First({j \in DOMAIN RootList : RootList[j].id = k - 1}) = {k}
<1>1. {j \in DOMAIN RootList : RootList[j].id = k - 1} = {k}
  BY RootLines, RootType
<1>2. QED
  BY <1>1, RootType DEF First

-----------------------------------------------------------------------------
(* The steps.                                                              *)

\* What the server shows when it starts or is asked for its list.
LEMMA ShownList ==
  ASSUME disk \in Disks, NEW id, NEW startup \in BOOLEAN, NEW pl, NEW sends,
         PlayerOK(pl), ShowWindowList(<<>>, <<>>, id, startup, pl, sends)
  PROVE  /\ mFilelist' = RootList /\ mStartup' = FALSE
         /\ startup => /\ player'.mPlayState = "PLAYING"
                       /\ m_playingTitleID' = Folders /\ player'.file = <<Tracks[1]>>
         /\ ~startup => player' = pl /\ m_playingTitleID' = id
<1>1. WindowList(<<>>, <<>>) = RootList /\ First(Titles(RootList)) = {Folders + 1}
  BY RootShown
<1>2. Titles(RootList) # {}
  BY <1>1 DEF First
<1>3. RootList[Folders + 1].id = Folders /\ RootList[Folders + 1].name = Tracks[1]
  BY RootLines, RootType
<1>4. mFilelist' = RootList
  BY <1>1 DEF ShowWindowList
<1>5. CASE startup
  <2>1. /\ player' = play(open(pl, <<Tracks[1]>>, Exists(<<Tracks[1]>>)))
        /\ m_playingTitleID' = Folders /\ mStartup' = FALSE
    BY <1>1, <1>2, <1>3, <1>5 DEF ShowWindowList, PlaysFirstTitle
  <2>2. player'.mPlayState = "PLAYING" /\ player'.file = <<Tracks[1]>>
    BY <2>1 DEF play, open, PlayerOK, PlayerType
  <2>3. QED
    BY <1>4, <1>5, <2>1, <2>2
<1>6. CASE ~startup
  BY <1>1, <1>4, <1>6 DEF ShowWindowList, PlaysFirstTitle
<1>7. QED
  BY <1>5, <1>6

\* A title of the root is played.
LEMMA TitlePlayed ==
  ASSUME m_CurrentPath = <<>>, NEW pl, PlayerOK(pl), NEW k \in 1 .. Len(Tracks),
         PlayLine(RootList[Folders + k], pl)
  PROVE  /\ player'.mPlayState = "PLAYING" /\ player'.file = <<Tracks[k]>>
         /\ m_playingTitleID' = Folders + k - 1
         /\ UNCHANGED <<disk, status, m_CurrentPath, m_CurrentPathVector, mFilelist,
                        mStartup>>
<1>1. RootList[Folders + k].id = Folders + k - 1 /\ RootList[Folders + k].name = Tracks[k]
  BY RootLines, RootType
<1>2. Append(m_CurrentPath, Tracks[k]) = <<Tracks[k]>>
  OBVIOUS
<1>3. player' = play(open(stop(pl), <<Tracks[k]>>, Exists(<<Tracks[k]>>)))
  BY <1>1, <1>2 DEF PlayLine
<1>4. player'.mPlayState = "PLAYING" /\ player'.file = <<Tracks[k]>>
  BY <1>3 DEF play, open, stop, PlayerOK, PlayerType
<1>5. QED
  BY <1>1, <1>4 DEF PlayLine

\* The title after the kth, or the first one again.
After(k) == (k % Len(Tracks)) + 1

LEMMA AfterIsTrack ==
  ASSUME NEW k \in 1 .. Len(Tracks)
  PROVE  /\ After(k) \in 1 .. Len(Tracks)
         /\ After(k) = IF k = Len(Tracks) THEN 1 ELSE k + 1
<1>1. CASE k = Len(Tracks)
  <2>1. k % Len(Tracks) = 0
    BY <1>1, RootType
  <2>2. QED
    BY <1>1, <2>1, RootType DEF After
<1>2. CASE k # Len(Tracks)
  <2>1. k % Len(Tracks) = k
    BY <1>2, RootType
  <2>2. QED
    BY <1>2, <2>1, RootType DEF After
<1>3. QED
  BY <1>1, <1>2

\* A step forward goes to it, and never outside the list.
LEMMA Advanced ==
  ASSUME disk \in Disks, m_CurrentPath = <<>>, mFilelist = RootList,
         NEW k \in 1 .. Len(Tracks), m_playingTitleID = Folders + k - 1,
         NEW pl, PlayerOK(pl), Advance(1, pl)
  PROVE  PlayLine(RootList[Folders + After(k)], pl)
<1>1. Here = {Folders + k}
  <2>1. /\ Folders + k \in 1 .. Folders + Len(Tracks)
        /\ (Folders + k) - 1 = m_playingTitleID
    BY RootType
  <2>2. QED
    BY <2>1, LineWithId DEF Here
<1>2. ~OutOfBounds(1)
  BY <1>1, RootLines, RootType DEF OutOfBounds
<1>3. NextLines(1) = {RootList[Folders + After(k)]}
  <2>1. CASE k = Len(Tracks)
    <3>1. Restarts(1)
      BY <1>1, <2>1, RootLines, RootType DEF Restarts
    <3>2. NextLines(1) = {RootList[Folders + 1]}
      BY <1>2, <3>1, RootShown DEF NextLines
    <3>3. QED
      BY <2>1, <3>2, AfterIsTrack
  <2>2. CASE k # Len(Tracks)
    <3>1. ~Restarts(1)
      BY <1>1, <2>2, RootLines, RootType DEF Restarts
    <3>2. NextLines(1) = {RootList[Folders + k + 1]}
      BY <1>1, <1>2, <3>1 DEF NextLines
    <3>3. Folders + After(k) = Folders + k + 1
      BY <2>2, AfterIsTrack, RootType
    <3>4. QED
      BY <3>2, <3>3
  <2>3. QED
    BY <2>1, <2>2
<1>4. ~(m_playingTitleID < 0)
  BY RootType
<1>5. NextLines(1) # {}
  BY <1>3
<1>6. \E line \in NextLines(1) : PlayLine(line, pl)
  BY <1>2, <1>4, <1>5, Zenon DEF Advance
<1>7. QED
  BY <1>3, <1>6

-----------------------------------------------------------------------------
(* What a step of the server is to the playlist.                           *)

\* The server holds the kth title of its list in the given mode.
At(k, mode) ==
  /\ m_playingTitleID = Folders + k - 1 /\ player.file = <<Tracks[k]>>
  /\ player.mPlayState = mode

LEMMA TrackOf ==
  ASSUME NEW k \in 1 .. Len(Tracks), NEW mode
  PROVE  (At(k, mode) => Track = k) /\ (At(k, mode)' => Track' = k)
<1>1. ~(Folders + k - 1 < 0) /\ Folders + k - 1 - Folders + 1 = k
  BY RootType
<1>2. QED
  BY <1>1 DEF At, Track, Folders

LEMMA IdleTrack == (Idle => Track = 0) /\ (Idle' => Track' = 0)
BY DEF Idle, Track, InvalidID

LEMMA RunsAt ==
  Runs => \E k \in 1 .. Len(Tracks), mode \in {"PLAYING", "PAUSED"} : At(k, mode)
BY DEF Runs, At

\* The step taken: the title chosen, the one after, or the same.
Forward == \E k \in 1 .. Len(Tracks), mode \in {"PLAYING", "PAUSED"} :
             At(k, mode) /\ At(After(k), "PLAYING")'
Chosen == \E k, j \in 1 .. Len(Tracks), mode \in {"PLAYING", "PAUSED"} :
            At(j, mode) /\ At(k, "PLAYING")'
Toggled == \E k \in 1 .. Len(Tracks), mode \in {"PLAYING", "PAUSED"} :
             /\ At(k, mode)
             /\ At(k, IF mode = "PAUSED" THEN "PLAYING" ELSE "PAUSED")'
Same == UNCHANGED <<m_playingTitleID, player.mPlayState, player.file>>
Opened == Idle /\ At(1, "PLAYING")'
Closed == Runs /\ Idle'

\* What the playlist may do of itself.
Continued == Forward \/ Toggled \/ Same \/ Opened \/ Closed

LEMMA StartStep ==
  ASSUME IInv, InRoot, Start
  PROVE  InRoot' /\ Opened
<1>1. /\ mFilelist' = RootList /\ mStartup' = FALSE /\ player'.mPlayState = "PLAYING"
      /\ m_playingTitleID' = Folders /\ player'.file = <<Tracks[1]>>
  BY ShownList, NewPlayerOK DEF Start, IInv
<1>2. 1 \in 1 .. Len(Tracks) /\ Folders = Folders + 1 - 1
  BY RootType
<1>3. At(1, "PLAYING")'
  BY <1>1, <1>2 DEF At
<1>4. InRoot'
  BY <1>1, <1>2 DEF InRoot, Runs, Start
<1>5. QED
  BY <1>3, <1>4 DEF Start, InRoot, Opened

LEMMA AdvanceStep ==
  ASSUME IInv, InRoot, status = "up", NEW pl, PlayerOK(pl), Advance(1, pl)
  PROVE  InRoot' /\ Forward
<1>1. PICK k \in 1 .. Len(Tracks), mode \in {"PLAYING", "PAUSED"} : At(k, mode)
  BY RunsAt DEF InRoot
<1>2. After(k) \in 1 .. Len(Tracks)
  BY AfterIsTrack
<1>3. PlayLine(RootList[Folders + After(k)], pl)
  BY <1>1, Advanced DEF IInv, InRoot, Runs, At
<1>4. /\ player'.mPlayState = "PLAYING" /\ player'.file = <<Tracks[After(k)]>>
      /\ m_playingTitleID' = Folders + After(k) - 1
      /\ UNCHANGED <<disk, status, m_CurrentPath, m_CurrentPathVector, mFilelist,
                     mStartup>>
  BY <1>2, <1>3, TitlePlayed DEF InRoot
<1>5. At(After(k), "PLAYING")'
  BY <1>4 DEF At
<1>6. InRoot'
  BY <1>2, <1>4 DEF InRoot, Runs
<1>7. QED
  BY <1>1, <1>4, <1>5, <1>6 DEF Forward

LEMMA SelectStep ==
  ASSUME IInv, InRoot, NEW title \in ClientLines, selectTitle(title)
  PROVE  InRoot' /\ Chosen
<1>1. PICK k \in 1 .. Len(Tracks) : title.id = Folders + k - 1 /\ title.type = "Title"
  BY PlaylistAssumption DEF Folders, Tracks
<1>2. mFilelist = RootList /\ status = "up"
  BY DEF InRoot, Runs, selectTitle
<1>3. Selected(title) = {Folders + k}
  <2>1. Folders + k \in 1 .. Folders + Len(Tracks) /\ (Folders + k) - 1 = title.id
    BY <1>1, RootType
  <2>2. First({j \in DOMAIN RootList : RootList[j].id = title.id}) = {Folders + k}
    BY <2>1, LineWithId
  <2>3. ~(Folders + k <= Folders)
    BY RootType
  <2>4. RootList[Folders + k].type = "Title"
    BY <2>1, <2>3, RootLines
  <2>5. {j \in DOMAIN RootList : RootList[j].id = title.id} = {Folders + k}
    BY <2>1, LineWithId
  <2>6. {j \in DOMAIN RootList : RootList[j].id = title.id
                                   /\ RootList[j].type = title.type} = {Folders + k}
    <3>1. \A j : j \in DOMAIN RootList /\ RootList[j].id = title.id <=> j = Folders + k
      BY <2>5
    <3>2. RootList[Folders + k].type = title.type
      BY <1>1, <2>4
    <3>3. \A j : j \in DOMAIN RootList /\ RootList[j].id = title.id
                  /\ RootList[j].type = title.type <=> j = Folders + k
      BY <3>1, <3>2, Zenon
    <3>4. QED
      BY <3>3
  <2>7. First({Folders + k}) = {Folders + k}
    BY <2>2, <2>5, Zenon
  <2>8. QED
    BY <1>2, <2>6, <2>7, Zenon DEF Selected
<1>4. PlayLine(RootList[Folders + k], player)
  BY <1>1, <1>2, <1>3 DEF selectTitle
<1>5. /\ player'.mPlayState = "PLAYING" /\ player'.file = <<Tracks[k]>>
      /\ m_playingTitleID' = Folders + k - 1
      /\ UNCHANGED <<disk, status, m_CurrentPath, m_CurrentPathVector, mFilelist,
                     mStartup>>
  BY <1>4, TitlePlayed DEF InRoot, IInv
<1>6. InRoot'
  BY <1>2, <1>5 DEF InRoot, Runs
<1>7. Chosen
  <2>1. At(k, "PLAYING")'
    BY <1>5 DEF At
  <2>2. \E j \in 1 .. Len(Tracks), mode \in {"PLAYING", "PAUSED"} : At(j, mode)
    BY <1>2, RunsAt DEF InRoot
  <2>3. QED
    BY <2>1, <2>2 DEF Chosen
<1>8. QED
  BY <1>6, <1>7

LEMMA PauseStep ==
  ASSUME IInv, InRoot, pauseTitle
  PROVE  InRoot' /\ Toggled
<1>1. PICK k \in 1 .. Len(Tracks), mode \in {"PLAYING", "PAUSED"} : At(k, mode)
  BY RunsAt DEF InRoot, pauseTitle
<1>2. /\ player'.file = player.file
      /\ player'.mPlayState = IF mode = "PAUSED" THEN "PLAYING" ELSE "PAUSED"
  BY <1>1 DEF pauseTitle, pause, play, At, IInv, PlayerOK, PlayerType
<1>3. At(k, IF mode = "PAUSED" THEN "PLAYING" ELSE "PAUSED")'
  BY <1>1, <1>2 DEF At, pauseTitle
<1>4. InRoot'
  BY <1>2 DEF InRoot, Runs, pauseTitle
<1>5. QED
  BY <1>1, <1>3, <1>4 DEF Toggled

\* Nothing the playlist knows of changes.
LEMMA SameStep ==
  ASSUME InRoot, Same,
         UNCHANGED <<status, m_CurrentPath, m_CurrentPathVector, mFilelist, mStartup>>,
         status = "up" \/ UNCHANGED player
  PROVE  InRoot'
BY DEF InRoot, Runs, Idle, Same

LEMMA Steps ==
  ASSUME IInv, InRoot, [Next]_vars
  PROVE  /\ InRoot'
         /\ \/ Continued
            \/ Chosen /\ \E title \in ClientLines : selectTitle(title)
<1>1. CASE Start
  BY <1>1, StartStep DEF Continued
<1>2. CASE Quit
  BY <1>2 DEF Quit, Gone, InRoot, Idle, Continued, Closed
<1>3. CASE getWindowList
  <2>1. Runs /\ PlayerOK(player) /\ disk \in Disks /\ m_CurrentPath = <<>>
          /\ m_CurrentPathVector = <<>> /\ mStartup = FALSE
    BY <1>3 DEF getWindowList, InRoot, Runs, IInv
  <2>2. /\ mFilelist' = RootList /\ mStartup' = FALSE
        /\ player' = player /\ m_playingTitleID' = m_playingTitleID
    BY <1>3, <2>1, ShownList DEF getWindowList
  <2>3. Same /\ UNCHANGED <<status, m_CurrentPath, m_CurrentPathVector, mFilelist, mStartup>>
    BY <1>3, <2>1, <2>2 DEF getWindowList, Same, Runs
  <2>4. QED
    BY <1>3, <2>3, SameStep DEF Continued, getWindowList
<1>4. CASE \E path \in PathVectors : selectPath(path)
  BY <1>4, PlaylistAssumption
<1>5. CASE \E num \in Nums : incrementTitle(num)
  <2>1. Advance(1, player) /\ status = "up"
    BY <1>5, PlaylistAssumption DEF incrementTitle
  <2>2. QED
    BY <2>1, AdvanceStep DEF IInv, Continued
<1>6. CASE NoEffect \/ DiskChanges \/ UNCHANGED vars
  BY <1>6, SameStep DEF NoEffect, DiskChanges, vars, server, Same, Continued
<1>7. CASE \E title \in ClientLines : selectTitle(title)
  BY <1>7, SelectStep
<1>8. CASE pauseTitle
  BY <1>8, PauseStep DEF Continued
<1>9. CASE DecodeStop
  <2>1. PlayerOK(delivered(player))
    BY EngineOK DEF IInv
  <2>2. CASE nextTitleWanted(player)
    BY <1>9, <2>1, <2>2, AdvanceStep DEF DecodeStop, Continued
  <2>3. CASE ~nextTitleWanted(player)
    <3>1. /\ player' = delivered(player) /\ OnlyPlayer /\ status = "up"
      BY <1>9, <2>3 DEF DecodeStop
    <3>2. Same
      BY <3>1 DEF Same, OnlyPlayer, delivered, IInv, PlayerOK, PlayerType
    <3>3. QED
      BY <3>1, <3>2, SameStep DEF OnlyPlayer, Continued
  <2>4. QED
    BY <2>2, <2>3
<1>10. CASE (\E tick \in Positions : PositionUpdate(tick)) \/ TitleEnds \/ StaleFlushed
  <2>1. OnlyPlayer /\ status = "up"
    BY <1>10 DEF PositionUpdate, TitleEnds, StaleFlushed
  <2>2. Same
    BY <1>10 DEF PositionUpdate, TitleEnds, StaleFlushed, positionUpdate, titleEnds, flushed,
                 Same, OnlyPlayer, IInv, PlayerOK, PlayerType
  <2>3. QED
    BY <2>1, <2>2, SameStep DEF OnlyPlayer, Continued
<1>11. QED
  BY <1>1, <1>2, <1>3, <1>4, <1>5, <1>6, <1>7, <1>8, <1>9, <1>10
  DEF Next, ClientCall, Engine

-----------------------------------------------------------------------------
(* The refinement.                                                         *)

LEMMA ContinuedMapped ==
  ASSUME InRoot, Continued
  PROVE  List!Continue \/ UNCHANGED <<Track, player.mPlayState>>
<1>1. CASE Forward
  <2>1. PICK k \in 1 .. Len(Tracks), mode \in {"PLAYING", "PAUSED"} :
          At(k, mode) /\ At(After(k), "PLAYING")'
    BY <1>1 DEF Forward
  <2>2. Track = k /\ Track' = (k % Len(Tracks)) + 1
    BY <2>1, TrackOf, AfterIsTrack DEF After
  <2>3. QED
    BY <2>1, <2>2 DEF List!Continue, List!Advance, At
<1>2. CASE Toggled
  <2>1. PICK k \in 1 .. Len(Tracks), mode \in {"PLAYING", "PAUSED"} :
          /\ At(k, mode)
          /\ At(k, IF mode = "PAUSED" THEN "PLAYING" ELSE "PAUSED")'
    BY <1>2 DEF Toggled
  <2>2. Track = k /\ Track' = k
    BY <2>1, TrackOf
  <2>3. QED
    BY <2>1, <2>2 DEF List!Continue, List!TogglePause, At
<1>3. CASE Same
  BY <1>3 DEF Same, Track
<1>4. CASE Opened
  <2>1. 1 \in 1 .. Len(Tracks)
    BY RootType
  <2>2. Track' = 1
    BY <1>4, <2>1, TrackOf DEF Opened
  <2>3. player.mPlayState = "STOPPED" /\ player'.mPlayState = "PLAYING"
    BY <1>4 DEF Opened, Idle, NewPlayer, At
  <2>4. QED
    BY <2>2, <2>3 DEF List!Continue, List!Open
<1>5. CASE Closed
  <2>1. Track' = 0 /\ player'.mPlayState = "STOPPED" /\ player.mPlayState # "STOPPED"
    BY <1>5, IdleTrack DEF Closed, Idle, NewPlayer, Runs
  <2>2. QED
    BY <2>1 DEF List!Continue, List!Close
<1>6. QED
  BY <1>1, <1>2, <1>3, <1>4, <1>5 DEF Continued

LEMMA ChosenMapped ==
  ASSUME Chosen
  PROVE  \E k \in 1 .. Len(Tracks) : List!Choose(k)
<1>1. PICK k \in 1 .. Len(Tracks), j \in 1 .. Len(Tracks), mode \in {"PLAYING", "PAUSED"} :
        At(j, mode) /\ At(k, "PLAYING")'
  BY DEF Chosen
<1>2. Track' = k
  BY <1>1, TrackOf
<1>3. QED
  BY <1>1, <1>2 DEF List!Choose, At

LEMMA InRootInit == Init => InRoot /\ List!Init
<1>1. Init => InRoot /\ Idle
  BY DEF Init, InRoot, Idle
<1>2. QED
  BY <1>1, IdleTrack DEF List!Init, Idle, NewPlayer

LEMMA AlwaysInRoot == Spec => [](IInv /\ InRoot)
<1>1. IInv /\ InRoot /\ [Next]_vars => InRoot'
  BY Steps
<1>2. QED
  BY <1>1, Invariance, InRootInit, PTL DEF Spec

\* The server, left in its root folder, is the playlist Playlist describes: it
\* opens with the first title, steps and wraps round, keeps its place in a pause.
THEOREM ImplementsPlaylist == Spec => PlaylistSpec
<1>1. IInv /\ InRoot /\ [Next]_vars => [List!Next]_List!vars
  BY Steps, ContinuedMapped, ChosenMapped DEF List!Next, List!vars
<1>2. QED
  BY <1>1, InRootInit, AlwaysInRoot, PTL DEF Spec, PlaylistSpec, List!Spec

\* Titles follow each other in order, whatever engine, pause and restart do; only
\* selectTitle leaves the order.
THEOREM OrderIsKept == Spec => OrderKept
<1>1. IInv /\ InRoot /\ [Next]_vars =>
        [ (\E title \in ClientLines : selectTitle(title))
          \/ List!Continue \/ UNCHANGED <<Track, player.mPlayState>> ]_vars
  BY Steps, ContinuedMapped
<1>2. QED
  BY <1>1, AlwaysInRoot, PTL DEF Spec, OrderKept

\* The file in the player is the title that the id kept stands for.
THEOREM TracksArePlayed == Spec => []TrackIsPlayed
<1>1. InRoot => TrackIsPlayed
  <2> SUFFICES ASSUME InRoot, Track # 0 PROVE player.file = <<Tracks[Track]>>
    BY DEF TrackIsPlayed
  <2>1. Runs
    BY IdleTrack DEF InRoot
  <2>2. PICK k \in 1 .. Len(Tracks), mode \in {"PLAYING", "PAUSED"} : At(k, mode)
    BY <2>1, RunsAt
  <2>3. Track = k
    BY <2>2, TrackOf
  <2>4. QED
    BY <2>2, <2>3 DEF At
<1>2. QED
  BY <1>1, AlwaysInRoot, PTL
=============================================================================
