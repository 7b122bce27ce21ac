------------------------------- MODULE Simulation -------------------------------
(***************************************************************************)
(* OISPControl_simu: a panel of buttons, knobs and a cross that stands in  *)
(* for the hardware.  The user presses parts of the panel with the mouse,  *)
(* or keys that Simulation maps to parts; the programs of the theme light  *)
(* the part and emit a signal; Simulation's slots turn the signal into a   *)
(* listener call.                                                          *)
(*                                                                         *)
(* Edje puts every signal at the end of one queue, the ones that the       *)
(* programs emit included, and the main loop takes them from its front.    *)
(***************************************************************************)
EXTENDS Integers, Sequences, FiniteSets

CONSTANTS
  Panels,    \* the sets of parts a user may have to do with at a time
  Devices,   \* what they are pressed with: "key", "mouse"
  MaxHeld,   \* bound: the user presses this many at a time
  MaxQueue,  \* bound: the user waits while this many signals are queued
  MaxTurns   \* bound: how often a knob is turned

VARIABLES
  parts,     \* the parts of the panel this user presses
  running,   \* the main loop runs
  held,      \* what is pressed: pairs of a device and a part
  signals,   \* the queue of Edje
  lit,       \* the parts shown as pressed, the cross by its arrows
  told,      \* control -> what the listeners were told of it last
  turned,    \* knob -> the ticks they were told of
  \* history:
  last,      \* control -> what the user last did to it
  turns      \* knob -> how often the user turned it

vars == <<parts, running, held, signals, lit, told, turned, last, turns>>

Cross == {"cross_left_press_mask", "cross_right_press_mask",
          "cross_up_press_mask", "cross_down_press_mask"}
Knobs == {"dds_left", "dds_right", "volume_left", "volume_right"}
ButtonParts == {"dds_button", "volume_button", "button_menu_overlay",
                "button_nav_overlay", "button_media_overlay",
                "button_phone_overlay", "button_return_overlay"}

ASSUME SimulationAssumption ==
  /\ \A p \in Panels : p \subseteq Cross \cup Knobs \cup ButtonParts
  /\ Devices \subseteq {"key", "mouse"}
  /\ MaxHeld \in Nat /\ MaxQueue \in Nat /\ MaxTurns \in Nat

Nothing == <<"", "">>   \* no signal

\* What mouse and keys are to a part.
MouseDown == "mouse,down,1"
MouseUp == "mouse,up,1"

-----------------------------------------------------------------------------
(* The keys.                                                               *)

\* keyEdjeCaller: the part a key stands for; "q" quits.
KeyPart(key) ==
  CASE key = "Left"   -> "cross_left_press_mask"
    [] key = "Up"     -> "cross_up_press_mask"
    [] key = "Right"  -> "cross_right_press_mask"
    [] key = "Down"   -> "cross_down_press_mask"
    [] key = "Insert" -> "volume_left"
    [] key = "Home"   -> "volume_button"
    [] key = "Prior"  -> "volume_right"
    [] key = "Delete" -> "dds_left"
    [] key = "End"    -> "dds_button"
    [] key = "Next"   -> "dds_right"
    [] key = "n"      -> "button_nav_overlay"
    [] key = "m"      -> "button_media_overlay"
    [] key = "u"      -> "button_menu_overlay"
    [] key = "p"      -> "button_phone_overlay"
    [] key = "r"      -> "button_return_overlay"

Keys == {"Left", "Up", "Right", "Down", "Insert", "Home", "Prior", "Delete",
         "End", "Next", "n", "m", "u", "p", "r"}

-----------------------------------------------------------------------------
(* The theme.                                                              *)

\* Faulty variant: the part stays lit when it is released.
LitAfterStuck(signal) ==
  IF signal[1] = MouseDown THEN lit \cup {signal[2]} ELSE lit

\* The STATE_SET of the programs for a signal of the mouse.
LitAfter(signal) ==
  IF signal[1] = MouseDown THEN lit \cup {signal[2]} ELSE lit \ {signal[2]}

\* The source a program gives what it emits for a button or a knob.
Source(part) ==
  CASE part = "button_menu_overlay"   -> "button_menu"
    [] part = "button_nav_overlay"    -> "button_nav"
    [] part = "button_media_overlay"  -> "button_media"
    [] part = "button_phone_overlay"  -> "button_phone"
    [] part = "button_return_overlay" -> "button_return"
    [] part = "volume_button"         -> "volume_botton"
    [] OTHER -> part

Axis(part) ==
  IF part \in {"cross_left_press_mask", "cross_right_press_mask"}
  THEN "axis_x" ELSE "axis_y"

\* Faulty variant: the release of a knob is a turn as well.
TicksBothWays(signal) == TRUE

Ticks(signal) == signal[1] = MouseDown

\* The programs that set the state run these after them.
Emits(signal) ==
  LET part == signal[2]
      down == signal[1] = MouseDown
  IN CASE part \in Knobs -> IF Ticks(signal) THEN <<"tick", part>> ELSE Nothing
       [] part \in ButtonParts -> <<IF down THEN "down" ELSE "up", Source(part)>>
       [] part \in Cross ->
            <<CASE ~down -> "zero"
                [] down /\ part \in {"cross_left_press_mask", "cross_up_press_mask"} -> "min"
                [] down /\ part \in {"cross_right_press_mask", "cross_down_press_mask"} -> "max",
              Axis(part)>>

-----------------------------------------------------------------------------
(* The slots of Simulation::exec.                                          *)

ButtonSources == {"dds_button", "volume_button", "button_menu", "button_nav",
                  "button_media", "button_phone", "button_return"}

\* Faulty variant: the slot for the release of the menu button is missing.
ConnectedNoMenuUp(signal) ==
  \/ signal[1] \in {"down", "up"} /\ signal[2] \in ButtonSources
       /\ signal # <<"up", "button_menu">>
  \/ signal[1] \in {"min", "max", "zero"} /\ signal[2] \in {"axis_x", "axis_y"}

\* The signals that buttonHandler and axisHandler are connected to ...
Connected(signal) ==
  \/ signal[1] \in {"down", "up"} /\ signal[2] \in ButtonSources
  \/ signal[1] \in {"min", "max", "zero"} /\ signal[2] \in {"axis_x", "axis_y"}

\* ... and rotaryHandler.
ConnectedToRotary(signal) == signal[1] = "tick" /\ signal[2] \in Knobs

\* A listener call that is heard: of a button or an axis, or of a knob.
Slots(signal) ==
  /\ told' = IF Connected(signal) THEN [told EXCEPT ![signal[2]] = signal[1]]
                                  ELSE told
  /\ turned' = IF ConnectedToRotary(signal)
               THEN [turned EXCEPT ![signal[2]] = @ + 1] ELSE turned

-----------------------------------------------------------------------------
Control == ButtonSources \cup {"axis_x", "axis_y"}

Init ==
  /\ parts \in Panels
  /\ running = TRUE /\ held = {} /\ signals = <<>> /\ lit = {}
  /\ told = [c \in Control |-> "never"] /\ last = told
  /\ turned = [k \in Knobs |-> 0] /\ turns = turned

\* The main loop takes the first signal: the programs of the theme for those of
\* mouse and keys, the slots for those of the programs.
MainLoop ==
  /\ running /\ signals # <<>>
  /\ LET signal == Head(signals) IN
     IF signal[1] \in {MouseDown, MouseUp}
     THEN /\ lit' = LitAfter(signal)
          /\ signals' = IF Emits(signal) = Nothing THEN Tail(signals)
                        ELSE Append(Tail(signals), Emits(signal))
          /\ UNCHANGED <<told, turned>>
     ELSE /\ Slots(signal)
          /\ signals' = Tail(signals)
          /\ UNCHANGED lit
  /\ UNCHANGED <<parts, running, held, last, turns>>

\* The control a part stands for, and what the user does to it, in the words of the
\* listener calls; neither the theme's tables nor the slots' are asked.
ControlOf(part) ==
  CASE part = "button_menu_overlay"   -> "button_menu"
    [] part = "button_nav_overlay"    -> "button_nav"
    [] part = "button_media_overlay"  -> "button_media"
    [] part = "button_phone_overlay"  -> "button_phone"
    [] part = "button_return_overlay" -> "button_return"
    [] part \in {"cross_left_press_mask", "cross_right_press_mask"} -> "axis_x"
    [] part \in {"cross_up_press_mask", "cross_down_press_mask"}    -> "axis_y"
    [] OTHER -> part

WhenPressed(part) ==
  CASE part \in ButtonParts -> "down"
    [] part \in {"cross_left_press_mask", "cross_up_press_mask"}    -> "min"
    [] part \in {"cross_right_press_mask", "cross_down_press_mask"} -> "max"

WhenReleased(part) == IF part \in ButtonParts THEN "up" ELSE "zero"

Meant(name, part) ==
  IF name = MouseDown THEN WhenPressed(part) ELSE WhenReleased(part)

UserSignal(name, part) ==
  /\ running /\ Len(signals) < MaxQueue
  /\ signals' = Append(signals, <<name, part>>)
  /\ IF part \in Knobs
     THEN /\ turns' = IF name = MouseDown THEN [turns EXCEPT ![part] = @ + 1]
                                               ELSE turns
          /\ UNCHANGED last
     ELSE /\ last' = [last EXCEPT ![ControlOf(part)] = Meant(name, part)]
          /\ UNCHANGED turns
  /\ UNCHANGED <<parts, running, lit, told, turned>>

\* A part is pressed; a key that is held repeats.
Press(device, part) ==
  /\ device = "mouse" => <<device, part>> \notin held
  /\ part \in Knobs => turns[part] < MaxTurns
  /\ held' = held \cup {<<device, part>>}
  /\ Cardinality(held') <= MaxHeld
  /\ UserSignal(MouseDown, part)

Release(device, part) ==
  /\ <<device, part>> \in held
  /\ held' = held \ {<<device, part>>}
  /\ UserSignal(MouseUp, part)

\* The key "q", or the window is closed: the main loop ends, what is queued is
\* not looked at any more.
quit ==
  /\ running
  /\ running' = FALSE
  /\ UNCHANGED <<parts, held, signals, lit, told, turned, last, turns>>

KeyParts == {KeyPart(key) : key \in Keys}

Next ==
  \/ \E device \in Devices :
       \E part \in (IF device = "key" THEN parts \cap KeyParts ELSE parts) :
         Press(device, part) \/ Release(device, part)
  \/ MainLoop
  \/ quit

Spec == Init /\ [][Next]_vars

-----------------------------------------------------------------------------
(* Properties.                                                             *)

\* Every variable has its type; a knob is never heard to turn further than it
\* was turned.
TypeOK ==
  /\ parts \in Panels /\ running \in BOOLEAN
  /\ held \subseteq Devices \X parts /\ lit \subseteq parts
  /\ Len(signals) <= 2 * MaxQueue
  /\ \A c \in Control :
       told[c] \in {"never", "down", "up", "min", "max", "zero"}
  /\ \A k \in Knobs : turned[k] <= turns[k] /\ turns[k] <= MaxTurns

\* All but the volume button, which the slots know by another name than the one the
\* theme emits.
Heard == Control \ {"volume_button"}

\* The theme and the slots are two tables that have to fit: the listeners know what
\* the user did last to every control but the volume button and heard of every turn
\* of a knob (a held key being many), once the queue is empty, in whatever order
\* parts were pressed, held, repeated and released.
PanelFollowsUser ==
  signals = <<>> =>
    /\ \A c \in Heard : told[c] = last[c]
    /\ turned = turns

\* What the user sees of a button, but for the volume button, is what the listeners
\* were told of it.
LightsAgree ==
  signals = <<>> =>
    \A part \in {p \in parts \cap ButtonParts : ControlOf(p) \in Heard} :
      part \in lit <=> told[ControlOf(part)] = "down"
=============================================================================
