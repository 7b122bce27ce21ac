-------------------------------- MODULE Joystick --------------------------------
(***************************************************************************)
(* The OISPControl server: class Joystick, whose thread reads the joystick *)
(* device, and OICFControlListenerProviderImpl, which turns its events     *)
(* into listener calls.                                                    *)
(*                                                                         *)
(* Two threads: main opens the device, which creates the reader thread,    *)
(* only then connects its two slots, and later closes the device under the *)
(* reader.  Listener calls are made by the reader.                         *)
(***************************************************************************)
EXTENDS Integers, Sequences, FiniteSets

CONSTANTS
  Buttons,    \* numbers of the buttons of the device
  Axes,       \* numbers of its axes
  Deflections,\* values an axis can report
  Garbage,    \* what the uninitialised joy_event may hold
  Unset,      \* names that the uninitialised number of a ButtonEvent may stand for
  AxisEvent,  \* the enumerators X, Y, Max, Zero and Min (generated, external)
  QueueSize   \* events the driver keeps for the reader

VARIABLES
  main,       \* "start", "opened", "axis" slot connected, "running", "closed",
              \* or "exited": the process has ended
  reader,     \* the thread: "none", "check"s m_run, is "reading" or "done"
  m_run, m_init, m_buttons,
  joy_event,  \* the event read last
  plugged,    \* the device is there
  state,      \* what the device is at: control -> value
  queue,      \* events of the driver the reader has not read
  view        \* what the listeners were told last under each name, and of
              \* which control: name -> [of, value]

vars == <<main, reader, m_run, m_init, m_buttons, joy_event, plugged, state,
          queue, view>>
member == <<m_run, m_init, m_buttons>>

Control == ({"BUTTON"} \X Buttons) \cup ({"AXIS"} \X Axes)

ValuesOf(control) == IF control[1] = "BUTTON" THEN {0, 1} ELSE Deflections

EventWith(types) ==
  [type : types, init : BOOLEAN, number : 0 .. 127, value : Int]
Event == EventWith({"BUTTON", "AXIS"})

ASSUME JoystickAssumption ==
  /\ Buttons \subseteq 0 .. 127 /\ Axes \subseteq 0 .. 127
  /\ IsFiniteSet(Buttons) /\ IsFiniteSet(Axes)
  /\ Deflections \subseteq Int /\ 0 \in Deflections
  /\ Garbage \subseteq EventWith({"BUTTON", "AXIS", "other"})
  /\ AxisEvent \in [X : Int, Y : Int, Max : Int, Zero : Int, Min : Int]
  /\ QueueSize \in Nat /\ QueueSize >= Cardinality(Buttons) + Cardinality(Axes)

-----------------------------------------------------------------------------
(* The listener calls.                                                     *)

ButtonNames ==
  <<"Volume", "Return", "DDS", "Navigation", "Media", "Phone", "Menu">>

Told(name, value) == [name |-> name, value |-> value]

\* The name a button number is given.  Number 0, and those past the table,
\* leave the member as it was: uninitialised.
ButtonNamesOf(number) ==
  IF number \in DOMAIN ButtonNames THEN {ButtonNames[number]} ELSE Unset

\* Only the first two axes have names; the others keep their number ...
AxisName(number) ==
  CASE number = 0 -> AxisEvent.X [] number = 1 -> AxisEvent.Y
    [] OTHER -> number

\* Faulty variant: the middle of an axis is taken for its end.
AxisValueEager(number, value) ==
  CASE number > 1 -> value
    [] number <= 1 /\ value >= 0 -> AxisEvent.Max
    [] number <= 1 /\ value < 0 -> AxisEvent.Min

\* ... and their value.
AxisValue(number, value) ==
  CASE number > 1 -> value
    [] number <= 1 /\ value > 0 -> AxisEvent.Max
    [] number <= 1 /\ value = 0 -> AxisEvent.Zero
    [] number <= 1 /\ value < 0 -> AxisEvent.Min

\* Only a failed read leaves something else than 0 or 1 there: no value is set.
ButtonValues(value) ==
  CASE value = 0 -> {"Up"} [] value = 1 -> {"Down"}
    [] OTHER -> {"Up", "Down"}

\* onButtonListenerWrap and onAxisListenerWrap: the calls an event may lead to.
Calls(event) ==
  IF event.type = "BUTTON"
  THEN {Told(<<"BUTTON", name>>, value) :
          name \in ButtonNamesOf(event.number), value \in ButtonValues(event.value)}
  ELSE {Told(<<"AXIS", AxisName(event.number)>>,
             AxisValue(event.number, event.value))}

\* The slots are connected one after the other, after the thread was created.
Connected(type) ==
  IF type = "AXIS" THEN main \in {"axis", "running", "closed"}
                   ELSE main \in {"running", "closed"}

\* Faulty variant: no synthetic event is ever passed on.
PassedOnlyReal(init, event) == ~event.init

\* Synthetic events are skipped until the first real one.
Passed(init, event) == init \/ ~event.init

\* What the listeners have after a call that an event of a control led to.
Heard(seen, call, control) ==
  [name \in DOMAIN seen \cup {call.name} |->
     IF name = call.name THEN [of |-> control, value |-> call.value]
                         ELSE seen[name]]

-----------------------------------------------------------------------------
(* The driver (external): it announces the state of all controls with      *)
(* synthetic events when the device is opened, and again when its queue    *)
(* overflows, in place of what was in the queue.                           *)

EventOf(control, value, init) ==
  [type |-> control[1], init |-> init, number |-> control[2], value |-> value]

\* All controls, in the order of the driver.
Order ==
  CHOOSE order \in [1 .. Cardinality(Control) -> Control] :
    \A control \in Control : \E k \in DOMAIN order : order[k] = control

InitEvents(values) ==
  [k \in DOMAIN Order |-> EventOf(Order[k], values[Order[k]], TRUE)]

Opened == main \in {"opened", "axis", "running"}

ControlMoves(control, value) ==
  /\ main # "exited" /\ plugged
  /\ value \in ValuesOf(control) \ {state[control]}
  /\ state' = [state EXCEPT ![control] = value]
  /\ queue' = CASE ~Opened -> queue
                [] Opened /\ Len(queue) < QueueSize ->
                     Append(queue, EventOf(control, value, FALSE))
                [] Opened /\ Len(queue) >= QueueSize -> InitEvents(state')
  /\ UNCHANGED <<main, reader, member, joy_event, plugged, view>>

Unplug ==
  /\ main # "exited" /\ plugged
  /\ plugged' = FALSE
  /\ queue' = <<>>
  /\ UNCHANGED <<main, reader, member, joy_event, state, view>>

-----------------------------------------------------------------------------
(* The main thread.                                                        *)

Init ==
  /\ main = "start" /\ reader = "none"
  /\ m_run = TRUE /\ m_init = FALSE /\ m_buttons = 0
  /\ joy_event \in Garbage
  /\ plugged \in BOOLEAN
  /\ state \in [Control -> {0}]
  /\ queue = <<>>
  /\ view = <<>>

\* The device node that udev knows, none if there is no joystick.
getDeviceName == IF plugged THEN {"/dev/input/js0"} ELSE {}

\* Faulty variant: the buttons are counted with the request for the axes.
OpenCountsAxes ==
  /\ main = "start" /\ getDeviceName # {}
  /\ main' = "opened" /\ reader' = "check"
  /\ m_run' = TRUE /\ m_buttons' = Cardinality(Axes)
  /\ queue' = InitEvents(state)
  /\ UNCHANGED <<m_init, joy_event, plugged, state, view>>

\* Joystick::open.  Its assignment of m_run, after the thread is created, finds
\* the value of the constructor.
Open ==
  /\ main = "start"
  /\ \/ /\ getDeviceName # {}
        /\ main' = "opened" /\ reader' = "check"
        /\ m_run' = TRUE /\ m_buttons' = Cardinality(Buttons)
        /\ queue' = InitEvents(state)
        /\ UNCHANGED m_init
     \/ /\ getDeviceName = {}   \* "No joystick device found!"
        /\ main' = "exited"
        /\ UNCHANGED <<reader, member, queue>>
  /\ UNCHANGED <<joy_event, plugged, state, view>>

\* signalAxis.connect, then signalButton.connect.
Connect ==
  /\ \/ main = "opened" /\ main' = "axis"
     \/ main = "axis" /\ main' = "running"
  /\ UNCHANGED <<reader, member, joy_event, plugged, state, queue, view>>

\* SIGTERM or SIGINT ends the main loop; the destructor closes the device and
\* does not wait for the thread.
Close ==
  /\ main = "running"
  /\ main' = "closed"
  /\ m_run' = FALSE /\ m_init' = FALSE /\ m_buttons' = 0
  /\ UNCHANGED <<reader, joy_event, plugged, state, queue, view>>

\* main returns, and the process ends with whatever the thread is doing.
Exit ==
  /\ main = "closed"
  /\ main' = "exited" /\ reader' = "none"
  /\ UNCHANGED <<member, joy_event, plugged, state, queue, view>>

-----------------------------------------------------------------------------
(* The reader thread.                                                      *)

Check ==
  /\ reader = "check"
  /\ reader' = IF m_run THEN "reading" ELSE "done"
  /\ UNCHANGED <<main, member, joy_event, plugged, state, queue, view>>

\* What a read may leave in joy_event: the next event, which it waits for; or,
\* after an error, what was there before.  The device is gone or closed then.
ReadResults ==
  {e \in {joy_event} : ~plugged \/ main = "closed"}
    \cup {queue[k] : k \in {j \in {1} : queue # <<>>}}

\* One event: m_init, the switch over its type, the signal and its slot.
Handle(event) ==
  IF event.type = "other"
  THEN UNCHANGED <<m_init, view>>   \* the default of the switch
  ELSE /\ m_init' = (m_init \/ ~event.init)
       /\ IF Passed(m_init, event) /\ Connected(event.type)
          THEN \E call \in Calls(event) :
                 view' = Heard(view, call, <<event.type, event.number>>)
          ELSE UNCHANGED view

Read ==
  /\ reader = "reading"
  /\ \E event \in ReadResults :
       /\ joy_event' = event
       /\ queue' = IF queue # <<>> /\ event = Head(queue) THEN Tail(queue)
                                                          ELSE queue
       /\ Handle(event)
  /\ reader' = "check"
  /\ UNCHANGED <<main, m_run, m_buttons, plugged, state>>

-----------------------------------------------------------------------------
Next ==
  \/ \E control \in Control : \E value \in ValuesOf(control) :
        ControlMoves(control, value)
  \/ Unplug
  \/ Open \/ Connect \/ Close \/ Exit
  \/ Check \/ Read

Spec == Init /\ [][Next]_vars

\* The scheduler runs both threads; the device may stay as it is.
FairSpec == Spec /\ WF_vars(Check \/ Read) /\ WF_vars(Connect)

-----------------------------------------------------------------------------
(* Properties.                                                             *)

\* Every variable has its type, and the driver never keeps more than it can.
TypeOK ==
  /\ main \in {"start", "opened", "axis", "running", "closed", "exited"}
  /\ reader \in {"none", "check", "reading", "done"}
  /\ m_run \in BOOLEAN /\ m_init \in BOOLEAN
  /\ m_buttons \in {0, Cardinality(Buttons)}
  /\ joy_event \in Event \cup Garbage
  /\ state \in [Control -> {0, 1} \cup Deflections]
  /\ queue \in Seq(Event) /\ Len(queue) <= QueueSize
  /\ \A name \in DOMAIN view :
       /\ view[name].of \in {name[1]} \X (0 .. 127)
       /\ IF name[1] = "BUTTON" THEN view[name].value \in {"Up", "Down"}
                                ELSE view[name].value \in Int

\* Button 0 and those past the table have no name of their own.
Named(control) == control[1] = "AXIS" \/ control[2] \in DOMAIN ButtonNames

\* What a control is called, and what it is at is called.
NameOf(control) ==
  IF control[1] = "BUTTON" THEN <<"BUTTON", ButtonNames[control[2]]>>
                           ELSE <<"AXIS", AxisName(control[2])>>
ValueOf(control) ==
  LET value == state[control]
  IN  IF control[1] = "BUTTON" THEN IF value = 1 THEN "Down" ELSE "Up"
      ELSE IF control[2] > 1 THEN value
      ELSE IF value = 0 THEN AxisEvent.Zero
      ELSE IF value > 0 THEN AxisEvent.Max ELSE AxisEvent.Min

\* What the listeners have under the name of a control is about this control,
\* and not about a button without a name that was told under it.
LastTold(control) ==
  Named(control) /\ NameOf(control) \in DOMAIN view
    /\ view[NameOf(control)].of = control

\* Whatever was lost before the slots were connected, skipped as synthetic or
\* dropped in an overflow: once the queue is read, a control with a name is at
\* what the listeners were last told of it under this name.
ToldIsTrue ==
  main = "running" /\ plugged /\ queue = <<>> =>
    \A control \in Control :
      LastTold(control) => view[NameOf(control)].value = ValueOf(control)

\* ... and a device that is left alone is read to the end.
ToldInTheEnd ==
  \A control \in Control : \A value \in ValuesOf(control) :
    /\ <>[](main = "running" /\ plugged /\ state[control] = value)
    /\ <>[][state' = state]_vars
    => <>[](LastTold(control) => view[NameOf(control)].value = ValueOf(control))
=============================================================================
