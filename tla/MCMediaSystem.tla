----------------------------- MODULE MCMediaSystem -----------------------------
(* A head unit or two on a music folder of one title and one album.        *)
EXTENDS MediaSystem, TLC

Folder(dirs, files) == [dirs |-> dirs, files |-> files]

OneAlbum ==
  <<>> :> Folder(<<"a">>, <<"t">>)
    @@ <<"a">> :> Folder(<<>>, <<"x", "y">>)

MCDisks == {OneAlbum}
MCName == {"a", "t", "x", "y"}
MCLines ==
  {[name |-> "Up", type |-> "FolderUp", id |-> -1],
   [name |-> "a", type |-> "Folder", id |-> 0],
   [name |-> "t", type |-> "Title", id |-> 1],
   [name |-> "x", type |-> "Title", id |-> 0],
   [name |-> "y", type |-> "Title", id |-> 1]}
None == {}
Ticks == {1, 2, 4}
ClientSymmetry == Permutations(Clients)
=============================================================================
