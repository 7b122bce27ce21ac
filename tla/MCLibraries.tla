------------------------------ MODULE MCLibraries ------------------------------
(***************************************************************************)
(* The music folder, the threads and the surfaces on which TLC checks      *)
(* Libraries.                                                              *)
(***************************************************************************)
EXTENDS Libraries, TLC

-----------------------------------------------------------------------------
(* A music folder three directories deep.                                  *)

MCNode == {"music", "rock", "live", "demo", "a.mp3", "b.ogg", "c.mp3", "d.mp3",
           "fifo", ".cover"}

MCKind ==
  [n \in MCNode |->
     CASE n \in {"music", "rock", "live", "demo"} -> "dir"
       [] n = "fifo" -> "other"
       [] n = ".cover" -> "hidden"
       [] OTHER -> "file"]

MCChildren ==
  "music" :> <<"a.mp3", "rock", "fifo", "b.ogg">>
    @@ "rock" :> <<".cover", "live", "c.mp3">>
    @@ "live" :> <<"demo", "d.mp3">>
    @@ "demo" :> <<>>

MCHeight ==
  [n \in MCNode |-> CASE n = "music" -> 4 [] n = "rock" -> 3 [] n = "live" -> 2
                      [] n = "demo" -> 1 [] OTHER -> 0]

Files == {"a.mp3", "b.ogg", "c.mp3", "d.mp3", "fifo", ".cover"}
MCPathLength == [n \in Files |-> 7]
MCEndingsOf ==
  [n \in Files |-> CASE n = "b.ogg" -> {"ogg"}
                     [] n \in {"a.mp3", "c.mp3", "d.mp3"} -> {"mp3"}
                     [] OTHER -> {}]
MCEndingLength == "ogg" :> 3 @@ "mp3" :> 3 @@ ".playlist" :> 9

MediaFilters == {<<"mp3", "ogg">>, <<"ogg">>, <<>>}
AllLevels == {NO_LIMIT, NO_RECURSIVE, 1, 2}

-----------------------------------------------------------------------------
(* Surfaces of two sizes, one of them no image.                            *)

MCSizeOf == "map" :> 1 @@ "icon" :> 2 @@ "spare" :> 1 @@ "pdf" :> 2
MCSurfaces == DOMAIN MCSizeOf
ImageSurfaces == MCSurfaces \ {"pdf"}
MCSizes == 1 .. 2
MCThreads == {"gps", "route"}
MCObjects == {"o1", "o2"}
=============================================================================
