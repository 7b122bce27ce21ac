------------------------------- MODULE Navigation -------------------------------
(***************************************************************************)
(* The OISPNavigation server: Navigation (GPS and zoom), NavigationScreen  *)
(* (what the map is centred on) and MapCanvas (what has been drawn), driven *)
(* by two timers of the Ecore main loop, poll and draw, and by the D-Bus   *)
(* calls of the head unit.  One thread, so one handler is one action.      *)
(*                                                                         *)
(* A coordinate is a pair of integers in a unit that lets one pan step be  *)
(* whole at every zoom level; the second one counts in the direction of y. *)
(***************************************************************************)
EXTENDS Integers, Sequences

CONSTANTS
  Coord,        \* the positions gpsd reports
  Default,      \* the position shown before the first one
  Garbage,      \* what the uninitialised m_gpsData may hold
  GpsdPort,     \* the port gpsd listens on
  PortOptions,  \* the arguments of -g, NoOption among them if it is left out
  Pans,         \* the directions clients ask for
  ClientZooms,  \* bound: the levels clients zoom to
  PanLimit,     \* bound: how far from <<0, 0>> clients pan
  MaxQueue      \* bound: the reports gpsd is ahead of the server

VARIABLES
  status,        \* of the process: "down", "up", "exited" or "crashed"
  portOption,    \* the argument of -g
  mGPSTimer,     \* gpsd answered, so the poll timer was created
  reports,       \* reports of gpsd that have not been read
  m_gpsData,     \* the report read last
  mGPSReceived,
  counter,       \* fixes since the pointer was moved last
  mapZoomLevel,
  mPos,          \* mLon and mLat: the position of the pointer
  mZoom,
  mCrossCursor,  \* mCrossCursorLon and mCrossCursorLat
  mMapMode,
  shown,         \* the projection: centre and zoom of the last drawing
  route,         \* end of the route to be drawn, or NoRoute
  told,          \* the position the listeners were told last
  fixed          \* history: the positions of the fixes that were read

gps    == <<mGPSTimer, reports, m_gpsData, mGPSReceived, counter, told, fixed>>
screen == <<mPos, mZoom, mCrossCursor, mMapMode>>
vars   == <<status, portOption, gps, mapZoomLevel, screen, shown, route>>

NoOption == -1
NotShown == [centre |-> <<>>, zoom |-> 0]
NoRoute  == <<>>
NoCoord  == <<>>

minMapZoom == 16
maxMapZoom == 0

Fix == {"NO_FIX", "FIX", "DGPS_FIX"}
Report == [status : Fix, coord : Coord]

ASSUME NavigationAssumption ==
  /\ GpsdPort \in Nat
  /\ PortOptions \subseteq Nat \cup {NoOption}
  /\ \A g \in Garbage : g.status \in Fix
  /\ NoCoord \notin Coord
  /\ MaxQueue \in Nat /\ PanLimit \in Nat

-----------------------------------------------------------------------------
(* Zoom.                                                                   *)

\* between of MathUtil.h: the bounds in either order, both included.
between(value, range1, range2) ==
  \/ value >= range1 /\ value <= range2
  \/ value >= range2 /\ value <= range1

\* Faulty variant: the level is taken before it is tested.
setMapZoomLevelUntested(level) ==
  /\ mapZoomLevel' = level
  /\ mZoom' = IF between(level, minMapZoom, maxMapZoom) THEN 2 ^ level ELSE mZoom

setMapZoomLevel(level) ==
  IF between(level, minMapZoom, maxMapZoom)
  THEN mapZoomLevel' = level /\ mZoom' = 2 ^ level
  ELSE UNCHANGED <<mapZoomLevel, mZoom>>

-----------------------------------------------------------------------------
(* The map.                                                                *)

moveStep(zoom) == 2 ^ 16 \div zoom   \* 20 pixels at that magnification

\* The pixel offset of a direction, in steps; a number that is none of the four
\* falls through the switch.
Offset(pan) ==
  CASE pan = "North" -> <<0, 1>>
    [] pan = "South" -> <<0, -1>>
    [] pan = "East"  -> <<1, 0>>
    [] pan = "West"  -> <<-1, 0>>
    [] OTHER         -> <<0, 0>>

\* The coordinate of the pixel one step off the middle of a drawing.
PixelToGeo(drawing, pan) ==
  <<drawing.centre[1] + Offset(pan)[1] * moveStep(drawing.zoom),
    drawing.centre[2] + Offset(pan)[2] * moveStep(drawing.zoom)>>

\* Faulty variant: a pan step starts from the cross cursor of before.
PannedFromCursor(pan) ==
  {PixelToGeo([centre |-> mCrossCursor, zoom |-> mZoom], pan)}

\* Where a pan step takes the cross cursor: off the middle of the last drawing;
\* before the first one the projection is not initialised.
Panned(pan) ==
  IF shown = NotShown THEN Coord \cup {Default} ELSE {PixelToGeo(shown, pan)}

MapCentre == IF mMapMode = "CrossCursor" THEN mCrossCursor ELSE mPos

-----------------------------------------------------------------------------
(* GPS.                                                                    *)

\* The preferences parseOptions leaves.  setGPSDPort assigns the port to the
\* host, which becomes a name of one character.
Preferences(option) ==
  [mGPSDHost |-> IF option = NoOption THEN "localhost" ELSE "one character",
   mGPSDPort |-> 2947]

\* GPSConnection::open: gpsd answers on its port of this host, if it is there.
Opens(host, port) == host = "localhost" /\ port = GpsdPort

\* Faulty variant: every report counts.
HasFixAlways(data) == TRUE

HasFix(data) == data.status = "FIX"

\* Faulty variant: the counter is not reset, the pointer moves once.

CountedOnce == IF counter = 3 THEN 3 ELSE counter + 1

\* The counter after a fix: the pointer is moved when it reaches 3.
Counted == (counter + 1) % 3

\* onGPSData for the report that triggerGPSPoll passes to it.
onGPSData(data) ==
  IF HasFix(data)
  THEN /\ mGPSReceived' = TRUE
       /\ counter' = Counted
       /\ mPos' = IF counter + 1 = 3 THEN data.coord ELSE mPos
       /\ told' = data.coord
  ELSE UNCHANGED <<mGPSReceived, counter, mPos, told>>

Fixes(S) == {r.coord : r \in {s \in S : s.status = "FIX"}}

-----------------------------------------------------------------------------
(* The process.                                                            *)

Init ==
  /\ status = "down" /\ portOption = NoOption
  /\ mGPSTimer = FALSE /\ reports = <<>>
  /\ m_gpsData \in Garbage
  /\ mGPSReceived = FALSE /\ counter = 0 /\ told = NoCoord /\ fixed = {}
  /\ mapZoomLevel = 13
  /\ mPos = Default /\ mZoom = 2 ^ 13
  /\ mCrossCursor = <<0, 0>> /\ mMapMode = "North2D"
  /\ shown = NotShown /\ route = NoRoute

\* The members after construction and setNavigationScreen.
NewScreen ==
  /\ mapZoomLevel' = 13
  /\ mPos' = Default /\ mZoom' = 2 ^ 13
  /\ mCrossCursor' = <<0, 0>> /\ mMapMode' = "North2D"
  /\ shown' = NotShown /\ route' = NoRoute

\* Two reads if gpsd answers; a read that finds no report leaves m_gpsData as it
\* is, and what was read is not passed to onGPSData.
initGPS(host, port) ==
  /\ mGPSTimer' = Opens(host, port)
  /\ reports' = <<>>
  /\ \/ m_gpsData' \in Garbage /\ fixed' = {}
     \/ /\ Opens(host, port)
        /\ m_gpsData' \in Report
        /\ fixed' = Fixes({m_gpsData'})
  /\ mGPSReceived' = FALSE /\ counter' = 0 /\ told' = NoCoord

\* main up to the main loop.
Start(option) ==
  /\ status # "up"
  /\ status' = "up"
  /\ portOption' = option
  /\ initGPS(Preferences(option).mGPSDHost, Preferences(option).mGPSDPort)
  /\ NewScreen

\* SIGTERM or SIGINT, or the process ends in a handler; its memory is gone.
Gone(how) ==
  /\ status' = how
  /\ mGPSTimer' = FALSE /\ reports' = <<>>
  /\ m_gpsData' = m_gpsData
  /\ mGPSReceived' = FALSE /\ counter' = 0 /\ told' = NoCoord /\ fixed' = {}
  /\ portOption' = NoOption
  /\ NewScreen

Quit == status = "up" /\ Gone("down")

-----------------------------------------------------------------------------
(* The timers.                                                             *)

\* GPSConnection::read: one report; m_gpsData stays as it is if there is none.
read == IF reports = <<>> THEN m_gpsData ELSE Head(reports)

\* Without a new report the one of before, or what the memory held, is taken
\* once more.
triggerGPSPoll ==
  /\ status = "up"
  /\ mGPSTimer
  /\ m_gpsData' = read
  /\ onGPSData(read)
  /\ fixed' = IF reports = <<>> THEN fixed ELSE fixed \cup Fixes({read})
  /\ reports' = IF reports = <<>> THEN reports ELSE Tail(reports)
  /\ UNCHANGED <<status, portOption, mGPSTimer, mapZoomLevel, mZoom,
                 mCrossCursor, mMapMode, shown, route>>

drawMap(centre, zoom) == [centre |-> centre, zoom |-> zoom]

drawerTask ==
  /\ status = "up"
  /\ shown' = drawMap(MapCentre, mZoom)
  /\ UNCHANGED <<status, portOption, gps, mapZoomLevel, screen, route>>

-----------------------------------------------------------------------------
(* The D-Bus methods.  searchCity, getNextValidCharacters, generic2 and    *)
(* generic3 have empty bodies.                                             *)

Zoom(level) ==
  /\ status = "up"
  /\ level \in ClientZooms
  /\ setMapZoomLevel(level)
  /\ UNCHANGED <<status, portOption, gps, mPos, mCrossCursor, mMapMode, shown,
                 route>>

zoomIn  == Zoom(mapZoomLevel + 1)
zoomOut == Zoom(mapZoomLevel - 1)

jumpToPointer ==
  /\ status = "up"
  /\ mMapMode' = "North2D"
  /\ UNCHANGED <<status, portOption, gps, mapZoomLevel, mPos, mZoom,
                 mCrossCursor, shown, route>>

WithinLimit(c) == \A k \in {1, 2} : c[k] \in -PanLimit .. PanLimit

\* moveMapSteps; the number of steps is not used.
moveMap(pan) ==
  /\ status = "up"
  /\ mMapMode' = "CrossCursor"
  /\ mCrossCursor' \in Panned(pan)
  /\ WithinLimit(mCrossCursor')
  /\ UNCHANGED <<status, portOption, gps, mapZoomLevel, mPos, mZoom, shown,
                 route>>

\* The projection refuses to convert before it is initialised.
moveMapTooEarly ==
  /\ status = "up"
  /\ shown = NotShown
  /\ Gone("crashed")

\* What searchWay finds: nothing, or an address, a region or a point of interest
\* but no way; a way; or a way of which the centre is not known.
FoundWays == {"none", "with centre", "without centre"}

\* startRouting: the process ends if any part of it fails.
startRouting(target) ==
  \/ /\ route' = target
     /\ UNCHANGED <<status, portOption, gps, mapZoomLevel, screen, shown>>
  \/ Gone("exited")

\* generic1.  The way is used although none may have been found.
startRouteTo(target) ==
  /\ status = "up"
  /\ \E way \in FoundWays :
       \/ way = "none" /\ Gone("crashed")
       \/ way = "without centre" /\ UNCHANGED vars
       \/ way = "with centre" /\ startRouting(target)

-----------------------------------------------------------------------------
(* gpsd (external).                                                        *)

GpsdReports ==
  /\ status = "up" /\ mGPSTimer
  /\ Len(reports) < MaxQueue
  /\ \E r \in Report : reports' = Append(reports, r)
  /\ UNCHANGED <<status, portOption, mGPSTimer, m_gpsData, mGPSReceived, counter,
                 told, fixed, mapZoomLevel, screen, shown, route>>

-----------------------------------------------------------------------------
Timers == triggerGPSPoll \/ drawerTask

ClientCall ==
  \/ zoomIn \/ zoomOut \/ jumpToPointer \/ moveMapTooEarly
  \/ \E pan \in Pans : moveMap(pan)
  \/ \E target \in Coord : startRouteTo(target)

Next ==
  \/ \E option \in PortOptions : Start(option)
  \/ Quit \/ Timers \/ ClientCall \/ GpsdReports

Spec == Init /\ [][Next]_vars

\* The Ecore main loop runs expired timers.
FairSpec == Spec /\ WF_vars(triggerGPSPoll) /\ WF_vars(drawerTask)

-----------------------------------------------------------------------------
(* Properties.                                                             *)

\* Every variable has its type; Point is the type of a coordinate.
TypeOK ==
  LET Point == Int \X Int IN
  /\ status \in {"down", "up", "exited", "crashed"}
  /\ portOption \in PortOptions \cup {NoOption}
  /\ mGPSTimer \in BOOLEAN /\ mGPSReceived \in BOOLEAN
  /\ reports \in Seq(Report) /\ Len(reports) <= MaxQueue
  /\ m_gpsData \in Report \cup Garbage
  /\ counter \in 0 .. 2
  /\ mPos \in Point /\ mCrossCursor \in Point
  /\ mMapMode \in {"North2D", "CrossCursor"}
  /\ shown \in [centre : Point, zoom : Nat \ {0}] \cup {NotShown}
  /\ route \in Coord \cup {NoRoute}
  /\ told \in Coord \cup {NoCoord} \cup Fixes(Garbage)
  /\ fixed \subseteq Coord

\* However often clients zoom, the level stays between its bounds, and the two
\* objects that keep the zoom, Navigation and its screen, agree.
ZoomAgrees ==
  /\ mapZoomLevel \in maxMapZoom .. minMapZoom
  /\ mZoom = 2 ^ mapZoomLevel

\* The pointer stands on, and the listeners are told, only positions that gpsd
\* has reported with a fix, or the default.  (What the memory held before the
\* first report is the exception: NoFixInMemory.)
PositionWasFixed ==
  /\ mPos \in fixed \cup {Default}
  /\ told \in fixed \cup {NoCoord}

\* While the user pans, the map moves by one step at a time: the cross cursor
\* is never further than that from what the user sees, however zooming, panning,
\* jumping to the pointer and drawing alternate.
CursorNearMap ==
  mMapMode = "CrossCursor" /\ shown # NotShown =>
    mCrossCursor \in {PixelToGeo(shown, pan) : pan \in Pans} \cup {shown.centre}

\* When gpsd has reported its last fix and the user has left the map on the
\* pointer, the map ends up around that fix at the level asked for, although
\* only every third poll moves the pointer.
MapSettles ==
  \A c \in Coord :
    /\ <>[](/\ status = "up" /\ mGPSTimer /\ mMapMode = "North2D"
            /\ m_gpsData = [status |-> "FIX", coord |-> c] /\ reports = <<>>)
    /\ <>[][UNCHANGED mapZoomLevel]_vars
    => <>[](shown = [centre |-> c, zoom |-> mZoom])

-----------------------------------------------------------------------------
(* What the usage text of the program says.                                *)

\* main.cpp:116, "User specific gpsd port (default: 2947).": a server that is
\* told the port of gpsd reads its positions.
GpsdPortRespected ==
  status = "up" /\ portOption = GpsdPort => mGPSTimer
=============================================================================
