------------------------------ MODULE MCNavigation ------------------------------
(* Small instances of Navigation.                                         *)
EXTENDS Navigation

Here  == <<0, 0>>
There == <<2, 2>>
TwoPlaces == {There, <<-2, 0>>}

\* Memory that does not look like a report with a fix.
NoFixInMemory == {[status |-> "NO_FIX", coord |-> Here]}

OddPort  == {2948}
AllPorts == {NoOption, 2947}
SomePans == {"East", "Other"}
TopZooms == 13 .. 17
=============================================================================
