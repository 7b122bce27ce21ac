------------------------------- MODULE MCJoystick -------------------------------
(* A button without a name, one with a name, and an axis. *)
EXTENDS Joystick

SomeButtons == {0, 1}
AxisX == {0}
HalfPositions == {0, 2}

\* What may be in memory: an event of the device, real or synthetic, or none.
AnyMemory ==
  {[type |-> "BUTTON", init |-> init, number |-> 0, value |-> 1] :
      init \in BOOLEAN}
    \cup {[type |-> "other", init |-> FALSE, number |-> 1, value |-> 0]}

\* The name of button 1, and one that no button of the device has.
AnyName == {"Volume", "Menu"}

AxisEvents == [X |-> 0, Y |-> 1, Max |-> 2, Zero |-> 1, Min |-> 0]
=============================================================================
