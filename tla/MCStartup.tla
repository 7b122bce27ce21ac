------------------------------- MODULE MCStartup -------------------------------
(***************************************************************************)
(* The command lines and usage tables on which TLC checks Startup.         *)
(***************************************************************************)
EXTENDS Startup, SequencesExt

Desc(i, short, long, check) ==
  [index |-> i, shortopt |-> short, longopt |-> long, check_arg |-> check]

\* The usage tables of the two programs; the first and the last line are headings.
MediaUsage ==
  << Desc(0, {}, <<>>, "None"), Desc(1, {"h"}, <<"help">>, "None"),
     Desc(2, {"e"}, <<"engine">>, "Required"),
     Desc(3, {"m"}, <<"music-root">>, "Required"), Desc(0, {}, <<>>, "None") >>
NavigationUsage ==
  << Desc(0, {}, <<>>, "None"), Desc(1, {"h"}, <<"help">>, "None"),
     Desc(2, {"d"}, <<"desktop">>, "None"), Desc(3, {"g"}, <<"gpsd-port">>, "Numeric"),
     Desc(4, {"n"}, <<"navimap">>, "Required"), Desc(0, {}, <<>>, "None") >>

\* Tables of other users: names that share a beginning, all kinds of arguments,
\* with and without an entry for unknown options.
OtherUsage ==
  << Desc(2, {"a", "b"}, <<"go", "on">>, "Optional"), Desc(0, {"c"}, <<"c">>, "None"),
     Desc(3, {"d"}, <<"go", "off">>, "NonEmpty"), Desc(1, {}, <<>>, "None") >>
PickyUsage == SubSeq(OtherUsage, 1, 3)

ModeOf(usage, gnu, single, min) ==
  [usage |-> usage, gnu |-> gnu, single_minus_longopt |-> single, min_abbr_len |-> min]

\* All vectors of some length over some texts.
Vectors(texts, length) == UNION {[1 .. n -> texts] : n \in 0 .. length}

Words(strings) == {<<s>> : s \in strings}

MediaTexts ==
  { <<"-", "-", "help">>, <<"-", "e">>, <<"-", "m", "=", "music">>, <<"-", "-">>,
    <<"-", "-", "music-root", "=", "music">>, <<"-", "x", "e", "xine">> } \cup Words({"xine"})
NavigationTexts ==
  { <<"-", "h">>, <<"-", "-", "desktop">>, <<"-", "-", "gpsd-port", "=", "2947">>,
    <<"-", "g">>, <<"-", "d", "n">>, <<"-", "n", "/map">> } \cup Words({"2947", "/map"})
OtherTexts ==
  { <<"-">>, <<"-", "-">>, <<"-", "c", "a">>, <<"-", "c", "d">>, <<"-", "-", "go", "=", "1">>,
    <<"-", "-", "go", "on", "=", "2">>, <<"-", "go", "off">>, <<"-", "z">> } \cup Words({"file"})
CountedTexts == { <<"-", "c", "c", "c">>, <<"-", "-", "c">>, <<"-", "d", "=">> }

OtherModes ==
  { ModeOf(OtherUsage, TRUE, TRUE, 0), ModeOf(OtherUsage, FALSE, FALSE, 1),
    ModeOf(PickyUsage, TRUE, FALSE, 1), ModeOf(PickyUsage, TRUE, TRUE, 1) }

Called(by, modes, lines) ==
  {[program |-> by, mode |-> m, lines |-> l] : m \in modes, l \in lines}

AllStarts ==
  UNION
  { Called("OISPMedia", {ModeOf(MediaUsage, FALSE, FALSE, 0)},
           {<<v>> : v \in Vectors(MediaTexts, 3)}),
    Called("OISPNavigation", {ModeOf(NavigationUsage, FALSE, FALSE, 0)},
           {<<v>> : v \in Vectors(NavigationTexts, 2)}),
    Called("OISPControl_simu", {ModeOf(<<>>, FALSE, FALSE, 0)}, {<< <<>> >>}),
    Called("any", OtherModes, {<<v>> : v \in Vectors(OtherTexts, 3)}),
    Called("any", OtherModes, {<<v, w>> : v, w \in Vectors(CountedTexts, 2)}) }

NumberTexts == {"2947"}
SomeFiles ==
  [ OISPMedia |-> {}, any |-> {},
    OISPNavigation |-> { <<"share/themes/default", "enigator_default.edj">>,
                         <<"share", "osmscout/map/current/">>, <<"/map">> },
    OISPControl_simu |-> { <<"data", "OISPControl_simu_panel.edj">> } ]
=============================================================================
