---------------------------- MODULE MCMediaPlaylist ----------------------------
(* A root of one folder and five titles.                                  *)
EXTENDS MediaPlaylist, TLC

TheRoot == [dirs |-> <<"a">>, files |-> <<"t", "u", "v", "w", "x">>]
TheDisk == <<>> :> TheRoot @@ <<"a">> :> [dirs |-> <<>>, files |-> <<>>]

MCName == {"a", "t", "u", "v", "w", "x"}
MCDisks == {TheDisk}
NoPaths == {}
TitleLines ==
  {[name |-> TheRoot.files[k], type |-> "Title", id |-> k] : k \in 1 .. 5}
NoLines == {}
OneStep == {1}
Ticks == 0 .. 3
=============================================================================
