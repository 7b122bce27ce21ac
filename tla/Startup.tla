-------------------------------- MODULE Startup --------------------------------
(***************************************************************************)
(* The start of the programs: the main functions of OISPMedia and          *)
(* OISPNavigation with their parseOptions and Preferences, and the exec of *)
(* OISPControl_simu, up to the Ecore main loop, while signals arrive and   *)
(* files come and go.  The program "any" is some other user of the option  *)
(* parser.                                                                 *)
(***************************************************************************)
EXTENDS OptionParser, SearchFile

CONSTANTS
  Starts,      \* records of the program, the mode its parser is called in, and
               \* the vectors it parses one after the other
  Files,       \* for each program the paths that come and go
  MaxChanges   \* bound: how often they do

ASSUME StartAssumption ==
  /\ MaxChanges \in Nat
  /\ \A s \in Starts :
       /\ s.program \in {"OISPMedia", "OISPNavigation", "OISPControl_simu", "any"}
       /\ s.mode \in Mode
       /\ s.lines \in Seq(Seq(Text)) /\ s.lines # <<>>
       /\ s.program \in {"OISPMedia", "OISPNavigation"} => Len(s.lines) = 1

VARIABLES
  program,
  stage,       \* what main does next
  preferences,
  there,       \* the files there are
  changes,
  quitAsked,   \* Application::quit was called
  bus          \* the name of the program has been requested

startVars == <<program, stage, preferences, there, changes, quitAsked, bus>>
vars == <<startVars, parserVars>>

\* The indexes of the options.
UNKNOWN == 0
HELP == 1
ENGINE == 2
MUSIC == 3
DESKTOP == 2
GPSDPORT == 3
NAVIMAP == 4

None == <<>>

\* Preferences::init of OISPMedia and of OISPNavigation, and none elsewhere.
MediaPreferences ==
  [mMusicRootFolder |-> <<"/home/andreas/Musik">>, mEmotionEngine |-> <<"gstreamer1">>]
NavigationPreferences ==
  [mGPSDHost |-> "localhost", mGPSDPort |-> 2947, mDesktopLayer |-> FALSE,
   mNaviMapFolder |-> searchNaviDir(there)]

\* options[index].count() > 0 and options[index].arg
Given(index) == OptionsOf(index) # <<>>

\* Faulty variant: the last option of an index counts.
LastArgOf(index) == OptionsOf(index)[Len(OptionsOf(index))].arg

ArgOf(index) == OptionsOf(index)[1].arg

MediaOptions ==
  [mMusicRootFolder |->
     IF Given(MUSIC) THEN ArgOf(MUSIC) ELSE preferences.mMusicRootFolder,
   mEmotionEngine |->
     IF Given(ENGINE) THEN ArgOf(ENGINE) ELSE preferences.mEmotionEngine]

\* setGPSDPort assigns the port to the host.
NavigationOptions ==
  [preferences EXCEPT
     !.mDesktopLayer = @ \/ Given(DESKTOP),
     !.mGPSDHost = IF Given(GPSDPORT) THEN "one_character" ELSE @,
     !.mNaviMapFolder = IF Given(NAVIMAP) THEN ArgOf(NAVIMAP) ELSE @]

-----------------------------------------------------------------------------
Init ==
  /\ \E s \in Starts :
       /\ program = s.program
       /\ stage = IF s.program = "OISPControl_simu" THEN "bus" ELSE "preferences"
       /\ ParserInit(s.mode, s.lines)
       /\ there \in SUBSET Files[s.program]
  /\ preferences = None
  /\ changes = 0
  /\ quitAsked = FALSE /\ bus = FALSE

Goes(from, to) == stage = from /\ stage' = to

InitPreferences ==
  /\ Goes("preferences", "parsing")
  /\ preferences' = CASE program = "OISPMedia"      -> MediaPreferences
                      [] program = "OISPNavigation" -> NavigationPreferences
                      [] OTHER                      -> None
  /\ UNCHANGED <<program, there, changes, quitAsked, bus, parserVars>>

Parse ==
  /\ stage = "parsing"
  /\ workhorse
  /\ UNCHANGED startVars

\* parseOptions after the parser; quit of OISPMedia ends the process, that of
\* OISPNavigation only asks the main loop to end, and main goes on.
parseOptions ==
  /\ stage = "parsing" /\ pass = "done"
  /\ LET quits == err \/ Given(HELP) IN
     CASE program = "OISPMedia" ->
            IF quits THEN stage' = "ended" /\ UNCHANGED <<preferences, quitAsked>>
            ELSE stage' = "window" /\ preferences' = MediaOptions /\ UNCHANGED quitAsked
       [] program = "OISPNavigation" -> stage' = "window" /\
            preferences' = NavigationOptions /\ quitAsked' = (quitAsked \/ quits)
       [] program = "any" -> stage' = "ended" /\ UNCHANGED <<preferences, quitAsked>>
  /\ UNCHANGED <<program, there, changes, bus, parserVars>>

\* The application and its window: ScreenManager::init of OISPNavigation.
CreateWindow ==
  /\ Goes("window", IF program = "OISPControl_simu" THEN "theme" ELSE "bus")
  /\ UNCHANGED <<program, preferences, there, changes, quitAsked, bus, parserVars>>

RequestName ==
  /\ Goes("bus", CASE program = "OISPMedia"      -> "objects"
                   [] program = "OISPNavigation" -> "theme"
                   [] OTHER                      -> "window")
  /\ bus' = TRUE
  /\ UNCHANGED <<program, preferences, there, changes, quitAsked, parserVars>>

\* The theme of the pointer, the cursor or the panel: nobody catches the
\* exception if it is not there.
Theme ==
  IF program = "OISPNavigation" THEN searchThemeFile(there, "enigator_default.edj")
  ELSE searchDataFile(there, "OISPControl_simu_panel.edj")

LoadTheme ==
  /\ stage = "theme"
  /\ stage' = CASE Theme = NotFound            -> "terminated"
                [] program = "OISPNavigation" -> "map"
                [] OTHER                       -> "up"
  /\ UNCHANGED <<program, preferences, there, changes, quitAsked, bus, parserVars>>

\* MapCanvas::initOSMScout: without a map the process ends.
OpenMap ==
  /\ Goes("map", IF preferences.mNaviMapFolder \in there THEN "objects" ELSE "ended")
  /\ UNCHANGED <<program, preferences, there, changes, quitAsked, bus, parserVars>>

\* The other objects, and exec.
Enter ==
  /\ Goes("objects", "up")
  /\ UNCHANGED <<program, preferences, there, changes, quitAsked, bus, parserVars>>

MainLoopEnds ==
  /\ Goes("up", "ended") /\ quitAsked
  /\ UNCHANGED <<program, preferences, there, changes, quitAsked, bus, parserVars>>

\* ScreenManager::quit or Simulation::evasQuit.
CloseWindow ==
  /\ stage = "up" /\ program \in {"OISPNavigation", "OISPControl_simu"}
  /\ quitAsked' = TRUE
  /\ UNCHANGED <<program, stage, preferences, there, changes, bus, parserVars>>

Main ==
  \/ InitPreferences \/ Parse \/ parseOptions \/ CreateWindow \/ RequestName
  \/ LoadTheme \/ OpenMap \/ Enter

\* SIGTERM or SIGINT where main has asked for it.
sig_exit ==
  /\ stage \notin {"ended", "terminated"}
  /\ \/ program = "OISPMedia" /\ stage' = "ended" /\ UNCHANGED quitAsked
     \/ program = "OISPNavigation" /\ quitAsked' = TRUE /\ UNCHANGED stage
  /\ UNCHANGED <<program, preferences, there, changes, bus, parserVars>>

FilesChange ==
  /\ changes < MaxChanges /\ stage \notin {"up", "ended", "terminated"}
  /\ \E f \in Files[program] : there' = IF f \in there THEN there \ {f} ELSE there \cup {f}
  /\ changes' = changes + 1
  /\ UNCHANGED <<program, stage, preferences, quitAsked, bus, parserVars>>

Next == Main \/ CloseWindow \/ MainLoopEnds \/ sig_exit \/ FilesChange

\* Nothing but main itself holds up its next step.
Spec == Init /\ [][Next]_vars /\ WF_vars(Main)

-----------------------------------------------------------------------------
(* Properties.                                                             *)

\* The first argument that options have for an index, or the other value.
Asked(options, index, default) ==
  LET opts == Only(index, options) IN
  IF opts = <<>> THEN default ELSE opts[1].arg

\* What a command line asks of OISPMedia and of OISPNavigation.
MediaAsAsked(read) ==
  /\ preferences.mMusicRootFolder =
       Asked(read.options, MUSIC, MediaPreferences.mMusicRootFolder)
  /\ preferences.mEmotionEngine =
       Asked(read.options, ENGINE, MediaPreferences.mEmotionEngine)
  /\ read.ok /\ Only(HELP, read.options) = <<>>

\* The map folders that Preferences::init can have found.
FoundMaps == {searchNaviDir(files) : files \in SUBSET Files["OISPNavigation"]}

NavigationAsAsked(read) ==
  /\ IF Only(NAVIMAP, read.options) = <<>>
     THEN preferences.mNaviMapFolder \in FoundMaps
     ELSE preferences.mNaviMapFolder = Only(NAVIMAP, read.options)[1].arg
  /\ preferences.mDesktopLayer = (Only(DESKTOP, read.options) # <<>>)
  /\ Only(GPSDPORT, read.options) = <<>> =>
       preferences.mGPSDHost = "localhost" /\ preferences.mGPSDPort = 2947

\* A program that goes on with its start has the preferences its options give it,
\* the first of several options of a kind counting, and the defaults for the
\* others; OISPMedia goes on only with a legal command line that does not ask for
\* help, OISPNavigation also with those before an illegal option.
\* Not so with the gpsd port: where the option for it is given, nothing is said here
\* (setGPSDPort spoils the host).  And of more than IntMax options OISPNavigation
\* would miss the last ones.
PreferencesAsGiven ==
  stage \in {"window", "bus", "theme", "map", "objects", "up"} =>
    \E read \in {Reading(mode, written[1])} :
      /\ program = "OISPMedia" => MediaAsAsked(read)
      /\ program = "OISPNavigation" /\ Len(read.options) <= IntMax =>
           NavigationAsAsked(read)

\* Every start comes to its end: the parser's loops do, whatever is written, and
\* the server is up or the process is gone.
StartEnds == <>(stage \in {"up", "ended", "terminated"})
=============================================================================
