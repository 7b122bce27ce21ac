# OISP in TLA+

A TLA+ development of OISP, the programs of an open in-car infotainment system:
a music server, a navigation server, a joystick server and a simulated control
panel. Each program is an Ecore main loop that offers its methods on D-Bus and
tells its clients, the head units, what happens. The modules model what each
program does with a call, a timer, a callback or an event; TLC checks them on
small instances, TLAPS proves their safety properties for all values of the
constants.

## The system

| Part (source below `src/src/`) | State | Operations | Meets |
|---|---|---|---|
| Media provider (`OISPMedia/OICFMediaProviderImpl`, `main.cpp`) | current path twice (string and the clients' lines), list shown last, id the playlist continues from, startup flag | `getWindowList`, `selectPath`, `selectTitle`, `incrementTitle`, `pauseTitle`; `nextTitle` | clients (calls and listener calls), player, directory list |
| Player (`OISPMedia/Player`) | play state, last announced second | `open`, `play`, `pause`, `stop`, `decodeStop`, `positionUpdate` | Emotion (calls and callbacks), media provider (signals) |
| Directory list (`OISPMedia/DirectoryList`) | filters, limit, recursion counter, result | `getDirectoryList` | file system |
| Navigation (`OISPNavigation_libosmscout/Navigation`, `GPSConnection`) | GPS timer, last report, fix counter, zoom level | `initGPS`, `triggerGPSPoll`, `onGPSData`, zoom | gpsd, screen, clients |
| Navigation screen, map canvas (`NavigationScreen`, `MapCanvas`) | pointer, cross cursor, mode, magnification, projection, route | `drawerTask`, `moveMap`, `jumpToPointer`, `startRouteTo` | libosmscout, Evas |
| Joystick (`OISPControl/Joystick`) | `m_run`, `m_init`, the event read last; a thread | `open`, `close`, `loop` | driver, listener provider |
| Control listener provider (`OISPControl/OICFControlListenerProviderImpl`) | two slots | button and axis slots | joystick (from its thread), clients |
| Panel (`OISPControl_simu/Simulation`, its theme) | pressed parts, Edje's signal queue | key handlers, theme programs, slots | user, clients |
| Option parser (`common/optionparser.h`), start of the programs (`main.cpp`, `Preferences`) | argument vectors, which it reorders; two arrays of linked options; preferences | `Stats::add`, `Parser::parse`; `parseOptions`, `main` | argument vector, file search, bus, window |
| File search (`searchFile`) | none | `searchThemeFile`, `searchDataFile`, `searchNaviDir` | file system |
| Ecore dispatcher (`OISPNavigation_libosmscout/EcoreDispatcher`) | a pipe | `signal`, `dispatcher_async_handler` | threads, main loop |
| Cairo widget (`esmart_cairo.c`, `Esmartxx_Cairo`) and the canvas of `MapCanvas` | surface, fill, registered callbacks of each object | `esmart_image_cairo_*`, resize, deletion | Cairo's references, Evas |
| Screen manager, logger, utilities | see *Not modelled* | | |

What is hard about them, and what therefore has to hold:

* **Media.** Clients send ids, not titles; an id is looked up in whatever list
  the server holds by then. Folders and titles share one counter. Two clients
  call without knowing of each other, listener calls overtake calls, the process
  is restarted, and the engine reports the end of a title late: after a pause,
  or after the file was replaced. Correct: ids name one line; what has arrived at
  every client is what the server holds; a patient client gets the title it
  tapped; browsing and engine events never disturb the music; the playlist goes
  round for ever.
* **Navigation.** A poll reads at most one report and takes the old one again if
  there is none; only every third fix moves the pointer; pan steps start from
  the *drawing*, not from the cursor; the zoom is kept in two objects. Correct:
  every position shown was reported with a fix; the cursor stays within a step of
  the drawing; the zoom stays in its bounds and the objects agree; after the last
  fix the map ends up there.
* **Joystick.** The reader thread starts before the slots are connected, the
  driver drops its queue when the reader is slow and announces the state of all
  controls with *synthetic* events, which the reader skips until the first real
  one; only seven buttons have a name, and a button without one (the first, number 0)
  is told under any. Correct: once the queue is read, what the listeners were told
  last of a control, under its name, is true.
* **Panel.** Mouse and keys press the same parts, keys repeat, the signals of
  users and of the theme's programs share a queue, and theme and slots agree only
  by name. Correct: with the queue empty the listeners know what the user did
  last, but to the volume button, of which the two tables differ.
* **Start.** The parser goes over the arguments twice and reorders them each time;
  the first pass only says how large the arrays of the second have to be.
  `OISPNavigation` goes on with its start after an error, files come and go
  meanwhile. Correct: the arrays suffice, every option is stored as written, each
  list of options of a kind threads the buffer, the preferences are those the
  options give (but for the port of gpsd), every start comes to an end.
* **Dispatcher.** Threads write while the main loop empties the pipe. Correct: no
  wake-up is lost or made up.
* **Cairo widget.** Four parties hold references of a surface, and two callbacks
  decide who lets go. Correct: a reference for each who knows a surface and no
  more; the fill follows size or surface whatever was switched on before.
* **Directory list.** Entries vanish between `readdir`, `stat` and `opendir`, and
  one counter is shared by all activations. Correct: what is still there is
  listed, once and in order, down to the level asked for (directories, or the files
  of a filter), and the walk ends.

`PROJECT.json` lists these hazards at their lines, with the properties that
would catch each, or why none does.

## Modules

```
Player -- MediaProvider -+- MCMediaProvider
                         +- MediaSystem   (clients and bus)   -+- MCMediaSystem
                         |                                     +- MediaProofs (theorems)
                         +- MediaPlaylist (refines Playlist)  -+- MCMediaPlaylist
                                     MediaPlaylist, MediaProofs -- PlaylistProofs (theorems)
Navigation -+- MCNavigation        Joystick   -+- MCJoystick     Simulation -+- MCSimulation
            +- NavigationProofs                +- JoystickProofs             +- SimulationProofs
OptionParser, SearchFile -- Startup -+- MCStartup
                                     +- StartupProofs (theorems)
DirectoryList, EcoreDispatcher (refines WakeUp), CairoImage -- Libraries -+- MCLibraries
                                                          (theorems) LibrariesProofs -+
RecursionProofs (induction, recursive functions) -- StartupProofs, LibrariesProofs
```

All programs but the joystick server have one thread (the dispatcher is made for
others), so a handler with all it
calls is one action. Data is abstracted to what the properties tell apart: a
path or file is the sequence of names below the music root, a list is a sequence
of lines, a report is a status and a coordinate, a signal is a pair of names.
Operators whose comment begins with *Faulty variant* are not part of the models;
each stands for a plausible error in the definition after it and shows that the
property it is paired with in `PROJECT.json` can fail.

* **Player** is the class with the Emotion object it drives: a record and a
  function per method. `decode_stop` is the end-of-title event between Emotion's
  decoder thread and the main loop: `current`, or `stale` when `setFile` has
  replaced the file meanwhile. Whether Emotion drops or delivers a stale event
  is left open.
* **MediaProvider** is the server. `ShowWindowList` is `getWindowList` as called
  from `main`, from a client and at the end of `selectTitle` (the startup title
  included); `Advance` is `incrementTitle` with `nextTitle` in front of it;
  `EnterFolder` is `selectPath` and `getWindowList` in the order `selectTitle`
  calls them; `PlayLine` is stop, open, play and announce. `emitted` holds the
  listener calls of the last step, in their order. `m_PlayingPath` is assigned
  nowhere in the code, so the announcement that depends on it is never made.
  Where the code leaves its vector (a step of two from the last line) any client
  line or a crash may follow; `Gone("crashed")` is a dereference of NULL or a
  `pop_back` of an empty vector. `DiskChanges` lets the folder change at any time.
* **Playlist** is what somebody who stays in one folder is promised; **MediaPlaylist**
  maps the server to it: the track is the kept id less the number of folders, the
  mode is the play state.
* **MediaSystem** puts clients and the bus around the server. Calls and listener
  calls are queues, ordered per connection only; `FinalView` is what a client will
  show when everything under way has arrived. Clients select lines they show.
  A title is on (`IsOn`) when the player has its file, of the folder whose list the
  client shows, and it is announced. `PathReset` is what `selectPath` without
  `getWindowList` leaves: a list of one folder and the path of another.
* **Navigation** holds `Navigation`, `NavigationScreen` and `MapCanvas`, which are
  only ever used together by one thread. `shown` is the projection of the last
  drawing. Coordinates are pairs of integers in a unit in which a pan step is
  whole at every zoom level (`moveStep`); the curvature of the projection is left
  out. Routing is reduced to its outcomes, of which two end the process.
* **Joystick** has two threads: `Open`, `Connect` (twice), `Close` and `Exit` are
  main, `Check` and `Read` the reader. `Read` may return the old event, or what
  the memory held, when the device is gone, because the result of `read` is not
  looked at. `Garbage` is what the uninitialised event may hold, `Unset` the names the
  uninitialised number of a `ButtonEvent` may stand for, `AxisEvent` the enumerators
  of the generated code. Axes past the second are passed on by number and value.
* **Simulation** is the panel: `KeyPart` is the key table, `Emits`, `LitAfter`,
  `Source` and `Axis` are the programs of the theme's `.edc` file, `Connected` and
  `ConnectedToRotary` the slots of `exec`. `last` and `turns` are history: what the
  user did, in the words of the listener calls, by `ControlOf` and `Meant`, which ask
  neither table. Each behaviour has a user who touches one group of parts (`Panels`).
* **DirectoryList** unfolds `readDirRecursive` into its activations (`frames`), so
  that entries can vanish between two reads. `Reference` says independently what is
  listed: for each directory and number of levels, its entries in their order, each
  directory followed by what is listed inside (`InOrder`), of which those with a wanted
  ending are kept (`Wanted`; all files where no ending is set, as the comment in the
  code has it, which the code does not do: `NoFilter`). `Below` is what goes away with a directory. `Height`
  says that a path has an end: a directory is not below itself.
* **OptionParser** is `Stats` and `Parser` with the two actions `workhorse` is called
  with. A text is a sequence of atoms, `args`, `nonops` and `group` are the locals of
  `workhorse`, and a step is one round of its loops. `cells` are the `Option`s of the
  two arrays with their tagged links. `Reading` is the reference: it reads a vector
  once, from left to right, and moves nothing. `IntMax` stands for 0x7fffffff. The
  mode (`gnu`, `single_minus_longopt`, `min_abbr_len`) and the descriptors are
  chosen by the caller, so `usage` of each program is a value of `Starts`.
* **SearchFile** and **Startup** take a program from its argument vector to its main
  loop or its end, with `Preferences` and the `quit` of each program; files come
  and go on the way (`FilesChange`). The session bus is assumed to be there.
* **EcoreDispatcher** has one step per system call: a write (two bytes, `"1"` with its
  zero), the handler's first look, a read of one byte, and the emission. **WakeUp** is
  what it promises: every emission answers some calls, once the calls pause none
  is left, and none is answered twice.
* **CairoImage** has a record per object and Cairo's counter per surface. `Attached` is
  the common part of `esmart_image_cairo_surface_set`; `Cairo` and `MapCanvas` are
  the constructors that use `esmart_image_cairo_new`. `lost` are surfaces that Evas
  gave no object for.
* **Libraries** puts the directory list, the dispatcher and the image beside each other:
  a behaviour is one of one part (`part`).

## Runs

| Run | Instance and bounds | What it shows |
|---|---|---|
| `media_provider` | three music folders that replace each other (albums two deep, albums removed, no titles in the root); every line any of their lists has, so stale lines too; steps of 1 and 2; depth 2; positions 0-3 at two ticks a second | types; the two paths agree; ids are unique; the player is stopped only when new; the engine follows the play state; browsing leaves the music alone; every change of title is announced; a pause holds |
| `media_playlist` | one root, a folder and five titles | the server implements `Playlist`, the file played is its track, and a server left playing plays every title again and again |
| `media_bus` | two clients, three calls sent without waiting, a folder with two titles below the root, two starts | the list, the path and the title that have arrived are those of the server; the list does arrive |
| `media_patient` | one client that waits for its answers, five calls, three starts, positions in three seconds | the title tapped is the title played: of the folder whose list the client shows, and announced (not after `PathReset`); the second shown is the second played |
| `nav` | two positions beside the default one, reports with and without a fix, one ahead of the poll; zoom levels 13 to 17; pans to the east and to a direction that is none (the others only differ in sign), two steps far; the port option given or not | positions shown and told had a fix; the zoom stays in its bounds in both objects (the lower bound, 0, is only reached in the theorem `ZoomIsBounded`); the cursor is within a step of the drawing; the map settles on the last fix |
| `joystick` | buttons 0 and 1, axis 0 with two deflections, a driver queue of three; button 0 is told as button 1 or as one the device has not | what listeners were told last of a control under its name is true once the queue is read, and a device left alone is read |
| `panel` | four groups of parts that cover the panel; mouse and keys, three held at a time, two signals queued by the user, two turns a knob | listeners know what the user did and lights agree, of all but the volume button; every turn is heard |
| `startup` | all vectors of up to three arguments for `OISPMedia`, of up to two for `OISPNavigation`, none for the panel; another caller with four modes: one vector of up to three arguments, or two of up to two; `IntMax` 5, so that counters reach it; a file comes or goes once | the arrays suffice, the options are parsed as written, the lists thread the buffer, the preferences are those the options give, every start ends |
| `libraries` | one of three parts a behaviour (`part`). List: four directories three deep, files, a pipe, a hidden file; all limits and file types, three filters; up to three entries vanish. Dispatcher: threads with five calls, a pipe of five bytes, so that the second write blocks. Image: objects and surfaces, one of them not valid | the list of directories or of filtered files is the reference less what vanished, and the walk ends; no wake-up is lost or made up; references add up; the fill follows |

The bounds are chosen so that each case of the handlers occurs: a list with and
without folders, titles and an `Up` line; an id from the list before; a fix
counter that wraps; a driver queue that overflows; two users' hands on one part.
The counters that would be unbounded in the code (calls, starts, events queued,
turns, distance panned, folder depth) are cut by guards that name their constant.
Deadlock is checked for the servers alone; `CHECK_DEADLOCK FALSE` stands where
calls are bounded (bus, libraries), or the program may end for good (joystick,
panel, startup).

### Where code and comments disagree

Three runs each check what a comment or the usage text says and find it violated.

* `media_next_is_folder`: `nextTitle` takes the line after the kept id. After a
  folder has been entered that id is the folder's own in the list before, so that
  the end of the title "opens" a folder of the new list and the music stops
  (`OICFMediaProviderImpl.cpp:205`, "select next file if available").
* `media_restart_crash`: when the list shown has no title, restarting the playlist
  dereferences NULL: entering an empty album ends the server at the end of the
  title (`OICFMediaProviderImpl.cpp:213` and 234).
* `nav_gpsd_port`: the port of `-g` is assigned to the host name
  (`Preferences.cpp:36`), no connection is made (`main.cpp:116`, usage text).

Noted while modelling, and part of the models, but without a run of their own; no
property takes what the code does here for right:

* the startup title may be started by a later folder, from a path that does not exist
  (`OICFMediaProviderImpl.cpp:138`);
* a title is opened in the path selected, not in the one its list is of (line 275),
  which differ after `selectPath` without `getWindowList` (`PathReset`);
* the first poll may take what the memory holds for a fix (`Navigation.cpp:93`);
* the reader may handle an event that was never read (`Joystick.cpp:113`);
* button 0, of which a message says "not yet used", is told as some other button
  (`OICFControlListenerProviderImpl.cpp:100` and 135); the number of buttons is never
  the -1 of `Joystick.h:48`;
* the volume button of the panel is never heard, the theme calls it `volume_botton`
  (`.edc:933`), which is why `Heard` leaves it out;
* without a filter no file is listed (`DirectoryList.cpp:58`, against "if no file filter
  is set catch all files" at line 35), so `ListIsExpected` speaks of directories and of
  files with a filter, the only lists the programs ask for;
* an ending longer than the path hides those after it (line 45; the theorem about the
  list is under `EndingsAssumption`, that no list of endings is of that kind);
* `OISPNavigation` goes on with its start after `--help` or a wrong option, which "print
  usage and exit" (`main.cpp:114`): `quit` only asks the main loop to end, and that has
  not begun;
* `signalDispatch` hands over one more than the bytes read, two a call, and not the
  "number of missed events" (`EcoreDispatcher.h:14`): no property speaks of `told`, and
  no slot uses the number;
* `hasMonotonie`, which nobody calls, has its results 0 and 1 exchanged
  (`MathUtil.h:149`, not modelled).

## Fairness

* `MediaPlaylist!FairSpec`: titles are finite (`TitleEnds`) and the Ecore main loop
  delivers every queued event (`DecodeStop`). No client is assumed to do anything;
  `EveryTitlePlays` only assumes that from some time on nobody pauses, quits or
  chooses titles.
* `MediaSystem!FairSystemSpec`: the bus delivers (`Receives`), the main loop
  dispatches what has arrived (`ServerHandles`). Clients, the engine, signals and
  whoever starts the server are not fair.
* `Navigation!FairSpec`: Ecore runs expired timers (`triggerGPSPoll`, `drawerTask`).
  gpsd and the clients are not fair.
* `Joystick!FairSpec`: the scheduler runs the reader (`Check` or `Read`; one that is
  blocked in `read` is not enabled) and main connects its slots.
* `Startup!Spec`: the steps of `main` (`Main`) follow each other. The end of the main
  loop, signals, the window and the files are not fair.
* `Libraries!LibrariesSpec`: the walk is a loop of one thread (`Walk`), the main
  loop looks at the pipe when there is something in it (`MainLoop`), and the kernel
  finishes a write for which there is room. That the threads call is not assumed,
  and a behaviour of the image needs no fairness.

## Proofs

`MediaProofs` proves of `MediaProvider`, for every name, music folder, set of
client lines, step and position:

* `Invariance`: `IInv` is inductive. It is the type invariant with `LocationOK`
  (the paths agree), `ListOK` (ids are unique) and `PlayerOK` (stopped only if
  nothing was opened; the engine plays only in `PLAYING`). The safety invariants
  need the types: uniqueness of ids holds since a list is `Up` with -1 followed by
  lines that count up from 0 (`LinesNumbered`, `NumberedConcat`, `WindowListOK`),
  which needs the listing's types. `PlayerOK` is kept by each method or by the
  composition the server uses (`PlayOpened`: stop, open and play together, since
  `stop` alone would break it). `NextOK` has a step per action, built from a
  lemma for each piece of a handler (`ShowOK`, `PlayLineOK`, `AdvanceOK`,
  `EnterFolderOK`). `TypeCorrect`, `LocationsAgree`, `IdsAreUnique`,
  `StoppedMeansNew` and `EngineAgrees` follow.
* `BrowsingLeavesThePlayerAlone`, `PauseIsHeld`, `ChangesAreAnnounced`: the action
  properties, from `IInv` and a case per action. The last needs the fact that
  opening keeps the file in exactly the other cases (`FileKept`).

The assumptions are `TickAssumption` and `MediaAssumption`: the constants have
their types.

`NavigationProofs` proves three invariants of `Navigation`, each inductive on its
own: `ZoomIsBounded`, `CursorStaysNear` (at any distance and zoom, so `PanLimit` is
no restriction), and `PositionsWereFixed`. The last is strengthened by
`ReadBefore` (a report that may be taken again was read with its fix before) and is
proved under `NoFixInMemory`: the uninitialised `m_gpsData` does not look like a
fix. Without that assumption it is false. `NavigationTypes` builds on the zoom: a drawing
keeps a zoom that is not zero (`Powers`), so that the pan step it is divided by is a
number (`PixelIsPoint`). It assumes `PointsGiven`: positions are pairs of numbers.

`PlaylistProofs` proves that the server implements the safety part of `Playlist`
(`ImplementsPlaylist`), and with it `OrderIsKept` and `TracksArePlayed`, for every root
with a title, every number of folders beside it and every bound of the provider.
`PlaylistAssumption` says what "stays in one folder" means: every content of the disk
has the same root, clients select its titles, ask for one step at most and pass no
path. `IInv` does not say where the server is; `InRoot` does: until the start it is
idle, then the list is that of the root, the kept id is that of one of its titles, and
that is the file the player has. `Steps` maps each action to one of `Playlist` or a
stutter.

`MediaProofs` goes on with `MediaSystem`: what the server has arrives at its clients, for any
music folder, any clients and any bounds. What a client will show of a kind (`Final`) is what
the last call of that kind on its way tells, so receiving a call leaves it alone
(`Received`) and sending some replaces it by the last of them (`Sent`). It remains that
each handler tells what it changes: the shapes of a step (`Quiet`, `Plays`, `Ticks`,
`Shows`, `Enters`, `Selects`) cover all handlers, and `ShapeTells` reads them off. `SInv`
adds to `IInv` the types of the bus and that the last call of each kind exists
(`HasLast`), which a `CHOOSE` needs. The title arrives under `RootHasTitle`: else the
startup title may be played later on, in a folder, unannounced. `TappedTitlesArePlayed`
assumes `OnePatient`, one client that waits; with two, another may change the list
between the call and its handling. Its invariant `PInv` says that the call under way is
about a line of the list the server still has and that this list is of the server's path
(`LInv`), unless the path was reset under it. Then, and only then, the property says
nothing: the name tapped is opened in the root.

`LibrariesProofs` is about the three parts of `Libraries`, each on its own and beside the
others (`LibrariesTypes`, `LibrariesKeepTheirWord`, `LibrariesPromise`: a step of one part
is a stutter of the others).

* The dispatcher, for any threads and any pipe that takes a call: it is a `WakeUp`
  (`DispatcherPromises`), since the bytes add up (`BytesKept`: those written are those
  in the pipe and those read).
* The image, for any objects, surfaces and sizes: each surface has the references its
  owners hold (`SurfacesAreCounted`) and the fill follows (`FillFollowsAlways`). The count
  alone is not inductive: a callback is only right if the surface it lets go is known to
  one object. `ImageInv` adds that (`SoleOwners`), and `RefsRight` counts per surface;
  `Filled` relates the callbacks registered to the fill.
* The directory list (`ListsAreExpected`), for every tree, limit and list of endings
  (of files, a list that is not empty), whatever disappears at whatever point. `WalkInv` says that the walk is on its course: the
  reference is `done`, a part the walk has behind it, followed by what each activation
  still has ahead, the innermost first (`Ahead`); the list is `done` but for some of what
  is gone (`Kept`); and there is a level of the reference for every activation (`Fits`),
  which for a walk without a limit is where `Height` is needed. A directory that is
  gone when it is opened is passed over with all the reference has of it. That is right
  because all below it is gone too: `UpClosed` says so of what is there, and
  `GoneInside` of the reference. `DirectoryAssumption` gives the constants their types and
  says that a directory is not below itself. `EndingsAssumption` says that no ending
  longer than a path stands before one that this path has; the code stops at such an
  ending (line 45), and without the assumption the list lacks files of the reference.

`StartupProofs` proves of the option parser, for every usage table, any number of vectors
and every mode, and of each of `Starts`:

* `StartupBufferSuffices`, `StartupParsedAsWritten`: `ParserInv` compares the loops with
  `Reading`, which reads a vector once and moves nothing. What was counted or stored is what
  stands before `args` says, but for the arguments passed over (`Scanned`), and reordering
  them leaves the reading of the vector alone (`SameReadings`). Both passes therefore
  find the same: `AllCounted` takes what the first has found to the second, in which
  `LegalBefore` knows of the vectors before this one.
* `StartupListsThreadBuffer`: `ListsInv` has for each index a sequence of cells that its
  links run through (`Thread`) and that holds the options of the index in the order of the
  buffer (`Listed`). An option stored is the new end of one list and touches no
  other.
* `StartupPreferencesAsGiven`: `SInv` adds that one vector is parsed and that before it is
  the preferences are the ones a program begins with (`ParsesOne`, `NavigationDefaults`;
  the map folder is one that the search can have found, `FoundMaps`). Of the host and
  port of gpsd it says that they are the defaults if `-g` is not given; if it is, the
  code is wrong (`nav_gpsd_port`), and the theorem says nothing of them.

The assumptions are `OptionAssumption` and `StartAssumption`: `IntMax` is a positive number,
the constants have their types, and the two programs parse one vector.

Both need inductions over data: along a vector, along an argument, down a tree. The
library's induction theorems take an operator, which the provers cannot instantiate.
`RecursionProofs` has them for sets instead (`Upwards`, `Downwards`: a set that holds the
first number of a range and with each its next holds them all) and gives each recursive
function of the models its equation (`RecursionUpwards`, `RecursionDownwards`: there is
a function that is at each place what the places before it determine, so the one that
the definition chooses is such a function). Both come from the least element of a set of
numbers (`WFMin`).

`JoystickProofs` proves `ToldIsTrue` for any buttons and axes, any driver queue and any
content of the uninitialised event and number (`JoystickAssumption`: the queue takes the
announcement of all controls). The invariant looks into the queue: while the device is
there and open, the last event of a control is what the control is at (`LastIsState`), a
control without an event is at what was told of it last (`ReadIsTold`), and nothing was
told of one that is still skipped or not connected (`NothingTold`). Names may be shared,
by button 0 with any other: `view` keeps of which control a name was told last
(`LastTold`), and of that one it is true.

`SimulationProofs` proves for any groups of parts, any queue and any number of turns
that the panel is followed and its lights agree, but for the volume button, of which this
is false (`SimulationAssumption`). What the user did is said without the theme's tables, so
that they fit takes lemmas of its own (`MeantEmitted`, `SourceIsControl`). A signal is
what the user did until the theme turns it into a report at the end of the queue, so of
a control the last deed counts, or else the last report, or else what was told
(`LastCounts`); lights lead the reports (`LightsLead`); turns are those heard and those
in the queue (`TurnsCounted`).

Of the properties that the passing runs check, those without a theorem are the ones about
what must happen: `EveryTitlePlays`, `ListsConverge`, `MapSettles`, `ToldInTheEnd`,
`StartEnds`, `WalkEnds`, and of `KeepsPromise` that emissions go on (its safety part is
`LibrariesPromise`). They follow from fairness, that is, from `ENABLED`, which the
prover does not reach, so TLC checks them alone.

## Not modelled

* `printUsage` (column layout), a caller's own `bufmax`, and the comparison of option
  texts character by character in `optionparser.h`.
* Painting: `ScreenManager`, the drawing on a surface and `setDirty` in the Cairo
  widget, rendering in `MapCanvas`. `ScreenManager` keeps the window only.
* Logger, utilities, exception class: logging and formatting.
* `Vector2.h` and the functions of `MathUtil.h` other than `between`: nothing the
  programs decide depends on them.
* Inside libosmscout, Emotion, Edje, gpsd, Cairo, the kernel's joystick driver and
  D-Bus: only what this code sees of them, marked external in `PROJECT.json`.
* The length of the title, passed on beside the position; the number of steps of
  `moveMap`, `changeDevice`, `decrementTitle`, `searchCity`: not used by the code.
* Data races inside dbus-c++ when the joystick's thread makes listener calls.

## Plan

The order of work was: the music server (the largest state and the most actors),
the playlist it promises, the bus around it, its proofs; navigation and its
proofs; the two control programs; the directory list; then the start of the programs
with the option parser and the file search, the dispatcher, the Cairo widget; then the
theorems about all of them, the option parser and the directory list last. Left:

1. A head unit: control events (joystick or panel) that a client turns into media
   and navigation calls, with all four programs on one bus.
2. `DirectoryList` under `MediaProvider`: the listing as the result of the walk.
