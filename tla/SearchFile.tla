------------------------------- MODULE SearchFile -------------------------------
(***************************************************************************)
(* searchFile.cpp of OISPMedia and OISPNavigation (the same file), and the *)
(* one of OISPControl_simu: installed data is looked for in a fixed order  *)
(* of places.  A path is a pair of the place and the name in it.           *)
(***************************************************************************)
EXTENDS Integers, Sequences

NotFound == <<"", "">>

\* The first of the names that stat finds.
searchFile(there, names) ==
  LET found == {k \in DOMAIN names : names[k] \in there} IN
  IF found = {} THEN NotFound
  ELSE names[CHOOSE k \in found : \A j \in found : k <= j]

\* searchThemeFile; FileNotFoundException is thrown if there is none.
searchThemeFile(there, theme) ==
  searchFile(there, << <<".", theme>>, <<"..", theme>>,
                       <<"source/data/themes/default", theme>>,
                       <<"share/themes/default", theme>> >>)

searchNaviDir(there) ==
  searchFile(there, << <<"home", ".osmscout/map/current/">>,
                       <<"share", "osmscout/map/current/">> >>)

\* searchDataFile of OISPControl_simu; the exception again.
searchDataFile(there, data) ==
  searchFile(there, << <<"share", data>>, <<"source/data", data>>, <<"data", data>> >>)
=============================================================================
