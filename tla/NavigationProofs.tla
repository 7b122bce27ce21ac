--------------------------- MODULE NavigationProofs ---------------------------
(***************************************************************************)
(* What holds of the OISPNavigation server for every set of positions,     *)
(* every order of reports, timers and calls, and every bound.              *)
(*                                                                         *)
(* The three safety invariants are independent of each other: each is      *)
(* inductive as it stands, up to the fact that a report read without a new *)
(* one is the one of before (ReadBefore).  The types need the zoom.        *)
(***************************************************************************)
EXTENDS Navigation, TLAPS

LEMMA ZoomInit == Init => ZoomAgrees
BY DEF Init, ZoomAgrees, minMapZoom, maxMapZoom

LEMMA ZoomFresh == NewScreen => ZoomAgrees'
BY DEF NewScreen, ZoomAgrees, minMapZoom, maxMapZoom

LEMMA ZoomStep == ZoomAgrees /\ [Next]_vars => ZoomAgrees'
<1> SUFFICES ASSUME ZoomAgrees, [Next]_vars PROVE ZoomAgrees'
  OBVIOUS
<1> USE DEF ZoomAgrees
<1>1. ASSUME NEW option \in PortOptions, Start(option) PROVE ZoomAgrees'
  BY <1>1, ZoomFresh DEF Start
<1>2. ASSUME NEW how, Gone(how) PROVE ZoomAgrees'
  BY <1>2, ZoomFresh DEF Gone
<1>3. ASSUME NEW level, level \in Int, setMapZoomLevel(level) PROVE ZoomAgrees'
  BY <1>3 DEF setMapZoomLevel, between, minMapZoom, maxMapZoom
<1>4. CASE zoomIn \/ zoomOut
  <2>1. mapZoomLevel + 1 \in Int /\ mapZoomLevel - 1 \in Int
    BY DEF minMapZoom, maxMapZoom
  <2>2. QED
    BY <1>3, <1>4, <2>1 DEF zoomIn, zoomOut, Zoom
<1>5. CASE UNCHANGED <<mapZoomLevel, mZoom>>
  BY <1>5
<1>6. CASE Timers
  BY <1>5, <1>6 DEF Timers, triggerGPSPoll, drawerTask, screen
<1>7. CASE jumpToPointer \/ \E pan \in Pans : moveMap(pan)
  BY <1>5, <1>7 DEF jumpToPointer, moveMap
<1>8. CASE moveMapTooEarly \/ Quit
  BY <1>2, <1>8 DEF moveMapTooEarly, Quit
<1>9. CASE \E target \in Coord : startRouteTo(target)
  BY <1>2, <1>5, <1>9 DEF startRouteTo, startRouting, screen, vars
<1>10. CASE GpsdReports
  BY <1>5, <1>10 DEF GpsdReports, screen
<1>11. CASE UNCHANGED vars
  BY <1>5, <1>11 DEF vars, screen
<1>12. QED
  BY <1>1, <1>4, <1>6, <1>7, <1>8, <1>9, <1>10, <1>11 DEF Next, ClientCall

\* The zoom level never leaves its bounds, and the screen follows it.
THEOREM ZoomIsBounded == Spec => []ZoomAgrees
BY ZoomInit, ZoomStep, PTL DEF Spec

-----------------------------------------------------------------------------
LEMMA CursorInit == Init => CursorNearMap
BY DEF Init, CursorNearMap

LEMMA CursorFresh == NewScreen => CursorNearMap'
BY DEF NewScreen, CursorNearMap

LEMMA CursorSame ==
  CursorNearMap /\ UNCHANGED <<mMapMode, mCrossCursor, shown>> => CursorNearMap'
BY DEF CursorNearMap, PixelToGeo, moveStep, Offset

LEMMA CursorStep == CursorNearMap /\ [Next]_vars => CursorNearMap'
<1> SUFFICES ASSUME CursorNearMap, [Next]_vars PROVE CursorNearMap'
  OBVIOUS
<1>1. ASSUME NEW option \in PortOptions, Start(option) PROVE CursorNearMap'
  BY <1>1, CursorFresh DEF Start
<1>2. ASSUME NEW how, Gone(how) PROVE CursorNearMap'
  BY <1>2, CursorFresh DEF Gone
<1>3. CASE zoomIn \/ zoomOut
  BY <1>3, CursorSame DEF zoomIn, zoomOut, Zoom
<1>4. CASE triggerGPSPoll
  BY <1>4, CursorSame DEF triggerGPSPoll
<1>5. CASE drawerTask
  \* The cross cursor is the new middle, if it is used at all.
  BY <1>5 DEF drawerTask, drawMap, MapCentre, CursorNearMap, screen
<1>6. CASE jumpToPointer
  BY <1>6 DEF jumpToPointer, CursorNearMap
<1>7. ASSUME NEW pan \in Pans, moveMap(pan) PROVE CursorNearMap'
  BY <1>7 DEF moveMap, Panned, CursorNearMap, PixelToGeo, moveStep, Offset
<1>8. CASE moveMapTooEarly \/ Quit
  BY <1>2, <1>8 DEF moveMapTooEarly, Quit
<1>9. ASSUME NEW target \in Coord, startRouteTo(target) PROVE CursorNearMap'
  BY <1>2, <1>9, CursorSame DEF startRouteTo, startRouting, screen, vars
<1>10. CASE GpsdReports
  BY <1>10, CursorSame DEF GpsdReports, screen
<1>11. CASE UNCHANGED vars
  BY <1>11, CursorSame DEF vars, screen
<1>12. QED
  BY <1>1, <1>3, <1>4, <1>5, <1>6, <1>7, <1>8, <1>9, <1>10, <1>11
  DEF Next, ClientCall, Timers

\* The cross cursor is within one pan step of what the user sees, whatever the
\* zoom levels, and however far the user pans.
THEOREM CursorStaysNear == Spec => []CursorNearMap
BY CursorInit, CursorStep, PTL DEF Spec

-----------------------------------------------------------------------------
\* While the server runs, a fix that is taken once more has been read before.
ReadBefore == status = "up" /\ HasFix(m_gpsData) => m_gpsData.coord \in fixed

PInv ==
  /\ PositionWasFixed
  /\ ReadBefore
  /\ reports \in Seq(Report)

NoFixInMemory == \A g \in Garbage : ~HasFix(g)

LEMMA PositionInit == Init => PInv
BY DEF Init, PInv, PositionWasFixed, ReadBefore

LEMMA PositionSame ==
  ASSUME PInv, status' = status, reports' \in Seq(Report),
         UNCHANGED <<mPos, told, fixed, m_gpsData>>
  PROVE  PInv'
BY DEF PInv, PositionWasFixed, ReadBefore, HasFix

\* A poll: what onGPSData is given has been read with a fix, now or before.
LEMMA PositionPolled == PInv /\ triggerGPSPoll => PInv'
<1> SUFFICES ASSUME PInv, triggerGPSPoll PROVE PInv'
  OBVIOUS
<1>1. /\ m_gpsData' = read /\ onGPSData(read)
      /\ status = "up" /\ fixed \subseteq fixed'
  BY DEF triggerGPSPoll
<1>2. reports' \in Seq(Report)
  BY DEF triggerGPSPoll, PInv
<1>3. HasFix(read) => read.coord \in fixed'
  <2>1. CASE reports = <<>>
    BY <2>1, <1>1 DEF PInv, ReadBefore, read
  <2>2. CASE reports # <<>>
    BY <2>2 DEF triggerGPSPoll, Fixes, HasFix
  <2>3. QED
    BY <2>1, <2>2
<1>4. PositionWasFixed'
  BY <1>1, <1>3 DEF PInv, PositionWasFixed, onGPSData
<1>5. ReadBefore'
  BY <1>1, <1>3 DEF ReadBefore, HasFix
<1>6. QED
  BY <1>2, <1>4, <1>5 DEF PInv

LEMMA PositionStep == ASSUME NoFixInMemory PROVE PInv /\ [Next]_vars => PInv'
<1> SUFFICES ASSUME PInv, [Next]_vars PROVE PInv'
  OBVIOUS
<1>1. ASSUME NEW option \in PortOptions, Start(option) PROVE PInv'
  <2>1. PositionWasFixed' /\ reports' \in Seq(Report)
    BY <1>1 DEF Start, initGPS, NewScreen, PositionWasFixed
  <2>2. ReadBefore'
    BY <1>1, NoFixInMemory
    DEF Start, initGPS, NoFixInMemory, ReadBefore, Fixes, HasFix
  <2>3. QED
    BY <2>1, <2>2 DEF PInv
<1>2. ASSUME NEW how, how # "up", Gone(how) PROVE PInv'
  BY <1>2 DEF Gone, NewScreen, PInv, PositionWasFixed, ReadBefore
<1>3. CASE zoomIn \/ zoomOut
  BY <1>3, PositionSame DEF zoomIn, zoomOut, Zoom, gps, PInv
<1>4. CASE drawerTask \/ jumpToPointer \/ \E pan \in Pans : moveMap(pan)
  BY <1>4, PositionSame DEF drawerTask, jumpToPointer, moveMap, gps, screen, PInv
<1>5. CASE moveMapTooEarly \/ Quit
  BY <1>2, <1>5 DEF moveMapTooEarly, Quit
<1>6. ASSUME NEW target \in Coord, startRouteTo(target) PROVE PInv'
  BY <1>2, <1>6, PositionSame DEF startRouteTo, startRouting, gps, screen, vars, PInv
<1>7. CASE GpsdReports
  BY <1>7, PositionSame DEF GpsdReports, screen, PInv
<1>8. CASE UNCHANGED vars
  BY <1>8, PositionSame DEF vars, gps, screen, PInv
<1>9. QED
  BY <1>1, <1>3, <1>4, <1>5, <1>6, <1>7, <1>8, PositionPolled
  DEF Next, ClientCall, Timers

\* Unless the memory holds a fix that nobody reported, every position shown or
\* told was reported by gpsd with a fix, or is the default.
THEOREM PositionsWereFixed ==
  ASSUME NoFixInMemory PROVE Spec => []PositionWasFixed
<1>1. PInv => PositionWasFixed
  BY DEF PInv
<1>2. QED
  BY <1>1, PositionInit, PositionStep, PTL DEF Spec

-----------------------------------------------------------------------------
(* Types.                                                                  *)

Point == Int \X Int

\* Positions are pairs of numbers, those that the memory may show included.
PointsGiven ==
  /\ Coord \subseteq Point /\ Default \in Point
  /\ \A g \in Garbage : HasFix(g) => g.coord \in Point

LEMMA Powers == \A n \in 0 .. 16 : 2 ^ n \in Nat \ {0}
<1>1. /\ 2 ^ 0 = 1 /\ 2 ^ 1 = 2 /\ 2 ^ 2 = 4 /\ 2 ^ 3 = 8 /\ 2 ^ 4 = 16
      /\ 2 ^ 5 = 32 /\ 2 ^ 6 = 64 /\ 2 ^ 7 = 128 /\ 2 ^ 8 = 256 /\ 2 ^ 9 = 512
      /\ 2 ^ 10 = 1024 /\ 2 ^ 11 = 2048 /\ 2 ^ 12 = 4096 /\ 2 ^ 13 = 8192
      /\ 2 ^ 14 = 16384 /\ 2 ^ 15 = 32768 /\ 2 ^ 16 = 65536
  OBVIOUS
<1>2. TAKE n \in 0 .. 16
<1>3. \/ n = 0 \/ n = 1 \/ n = 2 \/ n = 3 \/ n = 4 \/ n = 5 \/ n = 6 \/ n = 7
      \/ n = 8 \/ n = 9 \/ n = 10 \/ n = 11 \/ n = 12 \/ n = 13 \/ n = 14
      \/ n = 15 \/ n = 16
  OBVIOUS
<1> DEFINE power(k) == 2 ^ k
<1>4. /\ power(0) \in Nat \ {0} /\ power(1) \in Nat \ {0} /\ power(2) \in Nat \ {0}
      /\ power(3) \in Nat \ {0} /\ power(4) \in Nat \ {0} /\ power(5) \in Nat \ {0}
      /\ power(6) \in Nat \ {0} /\ power(7) \in Nat \ {0} /\ power(8) \in Nat \ {0}
      /\ power(9) \in Nat \ {0} /\ power(10) \in Nat \ {0} /\ power(11) \in Nat \ {0}
      /\ power(12) \in Nat \ {0} /\ power(13) \in Nat \ {0} /\ power(14) \in Nat \ {0}
      /\ power(15) \in Nat \ {0} /\ power(16) \in Nat \ {0}
  BY <1>1 DEF power
<1> HIDE DEF power
<1>5. power(n) \in Nat \ {0}
  BY <1>3, <1>4
<1>6. QED
  BY <1>5 DEF power

\* The zoom of the screen divides: a pan step has a length.
LEMMA ZoomPositive == ZoomAgrees => mZoom \in Nat \ {0}
BY Powers DEF ZoomAgrees, minMapZoom, maxMapZoom

LEMMA PixelIsPoint ==
  ASSUME NEW drawing \in [centre : Point, zoom : Nat \ {0}], NEW pan
  PROVE  PixelToGeo(drawing, pan) \in Point
<1> DEFINE step == moveStep(drawing.zoom)
<1>1. step \in Int
  BY DEF moveStep
<1>2. Offset(pan)[1] \in {-1, 0, 1} /\ Offset(pan)[2] \in {-1, 0, 1}
  BY DEF Offset
<1>3. drawing.centre[1] \in Int /\ drawing.centre[2] \in Int
  BY DEF Point
<1> HIDE DEF step
<1>4. /\ Offset(pan)[1] * step \in Int
      /\ Offset(pan)[2] * step \in Int
  BY <1>1, <1>2
<1>5. QED
  BY <1>3, <1>4 DEF PixelToGeo, Point, step

\* TypeOK by the parts that are assigned together.
GpsOK ==
  /\ mGPSTimer \in BOOLEAN /\ mGPSReceived \in BOOLEAN
  /\ reports \in Seq(Report) /\ Len(reports) <= MaxQueue
  /\ m_gpsData \in Report \cup Garbage
  /\ counter \in 0 .. 2
  /\ told \in Coord \cup {NoCoord} \cup Fixes(Garbage)
  /\ fixed \subseteq Coord
ScreenOK ==
  /\ mPos \in Point /\ mCrossCursor \in Point
  /\ mMapMode \in {"North2D", "CrossCursor"}
MapOK ==
  /\ shown \in [centre : Point, zoom : Nat \ {0}] \cup {NotShown}
  /\ route \in Coord \cup {NoRoute}
ProcessOK ==
  /\ status \in {"down", "up", "exited", "crashed"}
  /\ portOption \in PortOptions \cup {NoOption}

TInv == GpsOK /\ ScreenOK /\ MapOK /\ ProcessOK /\ ZoomAgrees

LEMMA NoReports ==
  ASSUME NEW queue, queue = <<>>
  PROVE  queue \in Seq(Report) /\ Len(queue) <= MaxQueue
<1>1. MaxQueue \in Nat
  BY NavigationAssumption
<1>2. QED
  BY <1>1

\* The GPS of a process that starts or is gone.
LEMMA GpsFresh ==
  ASSUME mGPSTimer' \in BOOLEAN, m_gpsData' \in Report \cup Garbage, reports' = <<>>,
         mGPSReceived' = FALSE, counter' = 0, told' = NoCoord, fixed' \subseteq Coord
  PROVE  GpsOK'
<1>1. reports' \in Seq(Report) /\ Len(reports') <= MaxQueue
  BY NoReports
<1>2. mGPSReceived' \in BOOLEAN
  OBVIOUS
<1>3. counter' \in 0 .. 2
  OBVIOUS
<1>4. told' \in Coord \cup {NoCoord} \cup Fixes(Garbage)
  OBVIOUS
<1>5. QED
  BY <1>1, <1>2, <1>3, <1>4 DEF GpsOK

LEMMA TypesInit == ASSUME PointsGiven PROVE Init => TInv
<1> SUFFICES ASSUME Init PROVE TInv
  OBVIOUS
<1>1. GpsOK
  <2>1. reports \in Seq(Report) /\ Len(reports) <= MaxQueue
    BY NoReports DEF Init
  <2>2. counter \in 0 .. 2
    BY DEF Init
  <2>3. m_gpsData \in Report \cup Garbage /\ fixed \subseteq Coord
    BY DEF Init
  <2>4. told \in Coord \cup {NoCoord} \cup Fixes(Garbage)
    BY DEF Init
  <2>5. mGPSTimer \in BOOLEAN /\ mGPSReceived \in BOOLEAN
    BY DEF Init
  <2>6. QED
    BY <2>1, <2>2, <2>3, <2>4, <2>5 DEF GpsOK
<1>2. ScreenOK /\ MapOK /\ ProcessOK
  BY DEF Init, ScreenOK, MapOK, ProcessOK, PointsGiven, Point
<1>3. QED
  BY <1>1, <1>2, ZoomInit DEF TInv

LEMMA ScreenFresh == ASSUME PointsGiven, NewScreen PROVE ScreenOK' /\ MapOK'
BY DEF NewScreen, ScreenOK, MapOK, PointsGiven, Point

LEMMA TypesPolled ==
  ASSUME PointsGiven, TInv, triggerGPSPoll
  PROVE  GpsOK' /\ ScreenOK' /\ MapOK' /\ ProcessOK'
<1>1. read \in Report \cup Garbage
  BY DEF TInv, GpsOK, read
<1>2. /\ reports' \in Seq(Report) /\ Len(reports') <= MaxQueue
      /\ reports # <<>> => read \in Report
  BY NavigationAssumption DEF triggerGPSPoll, TInv, GpsOK, read
<1>3. fixed' \subseteq Coord
  BY <1>2 DEF triggerGPSPoll, TInv, GpsOK, Fixes, Report
<1>4. HasFix(read) => read.coord \in Coord \cup Fixes(Garbage) /\ read.coord \in Point
  BY <1>1 DEF HasFix, Fixes, Report, PointsGiven
<1>5. onGPSData(read)
  BY DEF triggerGPSPoll
<1>6. counter' \in 0 .. 2
  BY <1>5 DEF onGPSData, Counted, TInv, GpsOK
<1>7. mPos' \in Point /\ told' \in Coord \cup {NoCoord} \cup Fixes(Garbage)
  BY <1>4, <1>5 DEF onGPSData, TInv, GpsOK, ScreenOK
<1>8. mGPSReceived' \in BOOLEAN /\ m_gpsData' \in Report \cup Garbage
  BY <1>1, <1>5 DEF onGPSData, triggerGPSPoll, TInv, GpsOK
<1>9. GpsOK'
  BY <1>2, <1>3, <1>6, <1>7, <1>8 DEF triggerGPSPoll, TInv, GpsOK
<1>10. QED
  BY <1>7, <1>9 DEF triggerGPSPoll, TInv, ScreenOK, MapOK, ProcessOK

LEMMA TypesGone ==
  ASSUME PointsGiven, TInv, NEW how \in {"down", "exited", "crashed"}, Gone(how)
  PROVE  GpsOK' /\ ScreenOK' /\ MapOK' /\ ProcessOK'
<1>1. GpsOK'
  <2>1. mGPSTimer' \in BOOLEAN /\ m_gpsData' \in Report \cup Garbage /\ fixed' \subseteq Coord
    BY DEF Gone, TInv, GpsOK
  <2>2. /\ reports' = <<>> /\ mGPSReceived' = FALSE
        /\ counter' = 0 /\ told' = NoCoord
    BY DEF Gone
  <2>3. QED
    BY <2>1, <2>2, GpsFresh
<1>2. QED
  BY <1>1, ScreenFresh DEF Gone, ProcessOK

LEMMA TypesStep == ASSUME PointsGiven PROVE TInv /\ [Next]_vars => TInv'
<1> SUFFICES ASSUME TInv, [Next]_vars PROVE GpsOK' /\ ScreenOK' /\ MapOK' /\ ProcessOK'
  BY ZoomStep DEF TInv
<1> DEFINE OK == GpsOK' /\ ScreenOK' /\ MapOK' /\ ProcessOK'
<1>1. ASSUME NEW option \in PortOptions, Start(option) PROVE OK
  <2>1. m_gpsData' \in Report \cup Garbage /\ fixed' \subseteq Coord
    BY <1>1 DEF Start, initGPS, Fixes, Report
  <2>2. /\ mGPSTimer' \in BOOLEAN /\ reports' = <<>> /\ mGPSReceived' = FALSE
        /\ counter' = 0 /\ told' = NoCoord
    BY <1>1 DEF Start, initGPS, Opens
  <2>3. GpsOK'
    BY <2>1, <2>2, GpsFresh
  <2>4. QED
    BY <1>1, <2>3, ScreenFresh DEF Start, ProcessOK
<1>2. CASE zoomIn \/ zoomOut
  BY <1>2 DEF zoomIn, zoomOut, Zoom, gps, TInv, GpsOK, ScreenOK, MapOK, ProcessOK
<1>3. CASE drawerTask
  <2>1. MapCentre \in Point /\ mZoom \in Nat \ {0}
    BY ZoomPositive DEF MapCentre, TInv, ScreenOK
  <2>2. shown' \in [centre : Point, zoom : Nat \ {0}] /\ route' = route
    BY <1>3, <2>1 DEF drawerTask, drawMap
  <2>3. QED
    BY <1>3, <2>2 DEF drawerTask, gps, screen, TInv, GpsOK, ScreenOK, MapOK, ProcessOK
<1>4. CASE jumpToPointer
  BY <1>4 DEF jumpToPointer, gps, TInv, GpsOK, ScreenOK, MapOK, ProcessOK
<1>5. ASSUME NEW pan \in Pans, moveMap(pan) PROVE OK
  <2>1. mCrossCursor' \in Point
    BY <1>5, PixelIsPoint DEF moveMap, Panned, PointsGiven, TInv, MapOK
  <2>2. QED
    BY <1>5, <2>1 DEF moveMap, gps, TInv, GpsOK, ScreenOK, MapOK, ProcessOK
<1>6. CASE moveMapTooEarly \/ Quit
  BY <1>6, TypesGone DEF moveMapTooEarly, Quit
<1>7. CASE UNCHANGED vars
  BY <1>7 DEF vars, gps, screen, TInv, GpsOK, ScreenOK, MapOK, ProcessOK
<1>8. ASSUME NEW target \in Coord, startRouteTo(target) PROVE OK
  <2>1. \/ Gone("crashed") \/ Gone("exited") \/ UNCHANGED vars
        \/ route' = target /\ UNCHANGED <<status, portOption, gps, screen, shown>>
    BY <1>8 DEF startRouteTo, startRouting
  <2>2. CASE route' = target /\ UNCHANGED <<status, portOption, gps, screen, shown>>
    BY <2>2 DEF gps, screen, TInv, GpsOK, ScreenOK, MapOK, ProcessOK
  <2>3. QED
    BY <1>7, <2>1, <2>2, TypesGone
<1>9. CASE GpsdReports
  <2>1. reports' \in Seq(Report) /\ Len(reports') <= MaxQueue
    BY <1>9, NavigationAssumption DEF GpsdReports, TInv, GpsOK
  <2>2. QED
    BY <1>9, <2>1 DEF GpsdReports, screen, TInv, GpsOK, ScreenOK, MapOK, ProcessOK
<1>10. CASE triggerGPSPoll
  BY <1>10, TypesPolled
<1>11. QED
  BY <1>1, <1>2, <1>3, <1>4, <1>5, <1>6, <1>7, <1>8, <1>9, <1>10
  DEF Next, ClientCall, Timers

\* Every variable of the server keeps its type, whatever the memory shows as a
\* first position and however far the user pans: no handler leaves a zoom that the
\* next pan step would divide by as zero (Navigation, NavigationScreen, MapCanvas).
THEOREM NavigationTypes == ASSUME PointsGiven PROVE Spec => []TypeOK
<1>1. TInv => TypeOK
  BY DEF TInv, GpsOK, ScreenOK, MapOK, ProcessOK, TypeOK, Point
<1>2. QED
  BY <1>1, TypesInit, TypesStep, PTL DEF Spec
=============================================================================
