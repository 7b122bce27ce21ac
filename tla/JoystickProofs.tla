----------------------------- MODULE JoystickProofs -----------------------------
(***************************************************************************)
(* What holds of the joystick server for any device, any size of the       *)
(* driver's queue and whatever the uninitialised event holds.              *)
(*                                                                         *)
(* While the device is there and open, the last event of a control in the  *)
(* queue is what the control is at, and a control without one was told as  *)
(* it is.  As long as synthetic events are skipped nothing was told at all,*)
(* and so is it until the slots are connected.                             *)
(***************************************************************************)
EXTENDS Joystick, FunctionTheorems, FiniteSetTheorems, SequenceTheorems, TLAPS

About(event, c) == event.type = c[1] /\ event.number = c[2]
Places(c) == {k \in 1 .. Len(queue) : About(queue[k], c)}
Says(event, c, value) ==
  /\ About(event, c) /\ event.value = value
  /\ \A d \in Control : About(event, d) => d = c
IsLast(c, k) == k \in Places(c) /\ \A j \in Places(c) : j <= k

ViewOK ==
  \A name \in DOMAIN view :
    /\ view[name].of \in {name[1]} \X (0 .. 127)
    /\ IF name[1] = "BUTTON" THEN view[name].value \in {"Up", "Down"}
                             ELSE view[name].value \in Int

TypesOK ==
  /\ main \in {"start", "opened", "axis", "running", "closed", "exited"}
  /\ reader \in {"none", "check", "reading", "done"}
  /\ m_run \in BOOLEAN /\ m_init \in BOOLEAN
  /\ m_buttons \in {0, Cardinality(Buttons)}
  /\ joy_event \in Event \cup Garbage /\ plugged \in BOOLEAN
  /\ state \in [Control -> {0, 1} \cup Deflections]
  /\ queue \in Seq(Event) /\ Len(queue) <= QueueSize
  /\ ViewOK
  /\ main = "start" => queue = <<>>

EventsOK ==
  /\ \A k \in 1 .. Len(queue) : \E c \in Control : About(queue[k], c)
  /\ \A c \in Control : state[c] \in ValuesOf(c)

\* The device is there and not closed yet.
Live == plugged /\ main \in {"start", "opened", "axis", "running"}

LastIsState == \A c \in Control : \A k \in Places(c) : IsLast(c, k) => queue[k].value = state[c]
ReadIsTold ==
  \A c \in Control :
    Places(c) = {} /\ LastTold(c) => view[NameOf(c)].value = ValueOf(c)
NothingTold == \A name \in DOMAIN view : m_init /\ Connected(view[name].of[1])

IInv == TypesOK /\ EventsOK /\ (Live => LastIsState /\ ReadIsTold /\ NothingTold)

-----------------------------------------------------------------------------
(* Names, controls and events.                                             *)

LEMMA ControlsFinite ==
  IsFiniteSet(Control) /\ Cardinality(Control) \in Nat /\ Cardinality(Control) <= QueueSize
<1> DEFINE B == {"BUTTON"} \X Buttons
           A == {"AXIS"} \X Axes
<1>1. \A x : IsFiniteSet({x}) /\ Cardinality({x}) = 1
  BY FS_Singleton
<1>2. /\ IsFiniteSet(Buttons) /\ Cardinality(Buttons) \in Nat
      /\ IsFiniteSet(Axes) /\ Cardinality(Axes) \in Nat
  BY JoystickAssumption, FS_CardinalityType
<1>3. IsFiniteSet(B) /\ Cardinality(B) = Cardinality(Buttons)
  <2>1. IsFiniteSet({"BUTTON"}) /\ Cardinality({"BUTTON"}) = 1
    BY <1>1
  <2>2. IsFiniteSet(B) /\ Cardinality(B) = Cardinality({"BUTTON"}) * Cardinality(Buttons)
    BY <1>2, <2>1, FS_Product
  <2>3. QED
    BY <1>2, <2>1, <2>2
<1>4. IsFiniteSet(A) /\ Cardinality(A) = Cardinality(Axes)
  <2>1. IsFiniteSet({"AXIS"}) /\ Cardinality({"AXIS"}) = 1
    BY <1>1
  <2>2. IsFiniteSet(A) /\ Cardinality(A) = Cardinality({"AXIS"}) * Cardinality(Axes)
    BY <1>2, <2>1, FS_Product
  <2>3. QED
    BY <1>2, <2>1, <2>2
<1>5. A \cap B = {}
  OBVIOUS
<1> HIDE DEF A, B
<1>6. IsFiniteSet(B \cup A) /\ Cardinality(B \cup A) = Cardinality(Buttons) + Cardinality(Axes)
  BY <1>2, <1>3, <1>4, <1>5, FS_Union, FS_EmptySet
<1>7. QED
  BY <1>2, <1>6, JoystickAssumption DEF Control, A, B

LEMMA OrderOfControls ==
  /\ Order \in [1 .. Cardinality(Control) -> Control]
  /\ \A c \in Control : \E k \in DOMAIN Order : Order[k] = c
<1>1. ExistsBijection(1 .. Cardinality(Control), Control)
  BY ControlsFinite, FS_CardinalityType
<1>2. \E f \in [1 .. Cardinality(Control) -> Control] :
        \A c \in Control : \E k \in DOMAIN f : f[k] = c
  <2>1. PICK f \in Bijection(1 .. Cardinality(Control), Control) : TRUE
    BY <1>1 DEF ExistsBijection
  <2>2. /\ f \in [1 .. Cardinality(Control) -> Control]
        /\ \A c \in Control : \E k \in 1 .. Cardinality(Control) : f[k] = c
    BY <2>1 DEF Bijection, Surjection
  <2>3. QED
    BY <2>2
<1>3. QED
  BY <1>2 DEF Order

LEMMA EventTyped ==
  ASSUME NEW c \in Control, NEW value \in {0, 1} \cup Deflections, NEW init \in BOOLEAN
  PROVE  EventOf(c, value, init) \in Event /\ Says(EventOf(c, value, init), c, value)
<1>1. c[1] \in {"BUTTON", "AXIS"} /\ c[2] \in 0 .. 127
  BY JoystickAssumption DEF Control
<1>2. value \in Int
  BY JoystickAssumption
<1>3. EventOf(c, value, init) \in Event
  BY <1>1, <1>2 DEF EventOf, Event, EventWith
<1>4. Says(EventOf(c, value, init), c, value)
  BY DEF EventOf, Control, About, Says
<1>5. QED
  BY <1>3, <1>4

LEMMA InitEventsTyped ==
  ASSUME NEW values \in [Control -> {0, 1} \cup Deflections]
  PROVE  /\ InitEvents(values) \in Seq(Event)
         /\ Len(InitEvents(values)) = Cardinality(Control)
         /\ \A k \in 1 .. Cardinality(Control) :
              Order[k] \in Control /\ Says(InitEvents(values)[k], Order[k], values[Order[k]])
<1> DEFINE n == Cardinality(Control)
           s == InitEvents(values)
<1>1. n \in Nat
  BY ControlsFinite
<1>2. DOMAIN Order = 1 .. n /\ \A k \in 1 .. n : Order[k] \in Control
  BY OrderOfControls
<1>3. \A k \in 1 .. n : values[Order[k]] \in {0, 1} \cup Deflections
  BY <1>2
<1> DEFINE e(k) == EventOf(Order[k], values[Order[k]], TRUE)
<1>4. \A k \in 1 .. n : e(k) \in Event /\ Says(e(k), Order[k], values[Order[k]])
  BY <1>2, <1>3, EventTyped
<1>5. s = [k \in 1 .. n |-> e(k)]
  BY <1>2 DEF InitEvents
<1> HIDE DEF n, s, e
<1>6. s \in [1 .. n -> Event]
  BY <1>4, <1>5
<1>7. s \in Seq(Event)
  BY <1>1, <1>6, SeqDef
<1>8. Len(s) = n
  BY <1>1, <1>6, <1>7, LenProperties
<1>9. \A k \in 1 .. n : Says(s[k], Order[k], values[Order[k]])
  BY <1>4, <1>5
<1>10. QED
  BY <1>2, <1>7, <1>8, <1>9 DEF n, s

-----------------------------------------------------------------------------
(* The driver and the main thread.                                         *)

LEMMA InitHolds == Init => IInv
<1> SUFFICES ASSUME Init PROVE IInv
  OBVIOUS
<1>1. DOMAIN view = {}
  BY DEF Init
<1>3. TypesOK
  <2>1. Len(queue) = 0 /\ queue \in Seq(Event) /\ 0 <= QueueSize
    BY JoystickAssumption DEF Init
  <2>2. state \in [Control -> {0, 1} \cup Deflections]
    BY DEF Init
  <2>3. QED
    BY <1>1, <2>1, <2>2 DEF Init, TypesOK, ViewOK
<1>4. \A c \in Control : Places(c) = {} /\ state[c] = 0
  BY DEF Init, Places
<1>5. EventsOK
  <2>1. \A c \in Control : 0 \in ValuesOf(c)
    BY JoystickAssumption DEF ValuesOf
  <2>2. QED
    BY <1>4, <2>1 DEF Init, EventsOK
<1>6. ASSUME Live PROVE LastIsState /\ ReadIsTold /\ NothingTold
  BY <1>1, <1>4 DEF LastIsState, ReadIsTold, LastTold, NothingTold
<1>7. QED
  BY <1>3, <1>5, <1>6 DEF IInv

\* The driver announces all controls.
LEMMA Announced ==
  ASSUME state' \in [Control -> {0, 1} \cup Deflections],
         \A c \in Control : state'[c] \in ValuesOf(c), queue' = InitEvents(state')
  PROVE  /\ queue' \in Seq(Event) /\ Len(queue') <= QueueSize
         /\ EventsOK' /\ LastIsState' /\ \A c \in Control : Places(c)' # {}
<1>1. /\ queue' \in Seq(Event) /\ Len(queue') = Cardinality(Control)
      /\ \A k \in 1 .. Cardinality(Control) :
           Order[k] \in Control /\ Says(queue'[k], Order[k], state'[Order[k]])
  BY InitEventsTyped
<1>2. \A k \in 1 .. Cardinality(Control) :
        /\ About(queue'[k], Order[k]) /\ queue'[k].value = state'[Order[k]]
        /\ \A d \in Control : About(queue'[k], d) => d = Order[k]
  BY <1>1 DEF Says
<1>3. EventsOK'
  BY <1>1, <1>2 DEF EventsOK
<1>4. LastIsState'
  BY <1>1, <1>2 DEF LastIsState, Places, IsLast
<1>5. \A c \in Control : Places(c)' # {}
  BY <1>1, <1>2, OrderOfControls DEF Places
<1>6. QED
  BY <1>1, <1>3, <1>4, <1>5, ControlsFinite

LEMMA AppendFacts ==
  ASSUME NEW S, NEW s \in Seq(S), NEW e \in S
  PROVE  /\ Append(s, e) \in Seq(S) /\ Len(Append(s, e)) = Len(s) + 1 /\ Len(s) \in Nat
         /\ Append(s, e)[Len(s) + 1] = e /\ \A k \in 1 .. Len(s) : Append(s, e)[k] = s[k]
OBVIOUS

\* An event is put last.
LEMMA Put ==
  ASSUME IInv, NEW c \in Control, NEW value \in ValuesOf(c), Len(queue) < QueueSize,
         NEW e \in Event, Says(e, c, value), queue' = Append(queue, e),
         state' = [state EXCEPT ![c] = value]
  PROVE  /\ queue' \in Seq(Event) /\ Len(queue') <= QueueSize /\ EventsOK'
         /\ Places(c)' # {} /\ \A d \in Control \ {c} : Places(d)' = Places(d)
         /\ LastIsState => LastIsState'
<1>1. value \in {0, 1} \cup Deflections
  BY DEF ValuesOf
<1>2. About(e, c) /\ e.value = value /\ \A d \in Control : About(e, d) => d = c
  BY DEF Says
<1>3. queue \in Seq(Event) /\ Len(queue) \in Nat /\ state \in [Control -> {0, 1} \cup Deflections]
  BY DEF IInv, TypesOK
<1>4. /\ queue' \in Seq(Event) /\ Len(queue') = Len(queue) + 1 /\ queue'[Len(queue) + 1] = e
      /\ \A k \in 1 .. Len(queue) : queue'[k] = queue[k]
  BY <1>3, AppendFacts
<1>5. EventsOK'
  BY <1>2, <1>3, <1>4 DEF IInv, EventsOK
<1>6. Places(c)' = Places(c) \cup {Len(queue) + 1}
  BY <1>2, <1>3, <1>4 DEF Places
<1>7. \A d \in Control \ {c} : Places(d)' = Places(d)
  BY <1>2, <1>3, <1>4 DEF Places
<1>8. ASSUME LastIsState PROVE LastIsState'
  <2> SUFFICES ASSUME NEW d \in Control, NEW k \in Places(d)', IsLast(d, k)'
               PROVE  queue'[k].value = state'[d]
    BY DEF LastIsState
  <2>1. CASE d = c
    <3>1. \A j \in Places(c) : j <= Len(queue)
      BY DEF Places
    <3>2. k = Len(queue) + 1
      BY <1>3, <1>6, <2>1, <3>1 DEF IsLast, Places
    <3>3. QED
      BY <1>2, <1>3, <1>4, <2>1, <3>2
  <2>2. CASE d # c
    <3>1. k \in Places(d) /\ IsLast(d, k)
      BY <1>7, <2>2 DEF IsLast
    <3>2. queue'[k] = queue[k] /\ state'[d] = state[d]
      BY <1>3, <1>4, <2>2, <3>1 DEF Places
    <3>3. QED
      BY <1>8, <3>1, <3>2 DEF LastIsState
  <2>3. QED
    BY <2>1, <2>2
<1>9. QED
  BY <1>3, <1>4, <1>5, <1>6, <1>7, <1>8, JoystickAssumption

LEMMA MovesStep ==
  ASSUME IInv, NEW c \in Control, NEW value \in ValuesOf(c), ControlMoves(c, value)
  PROVE  IInv'
<1>1. /\ UNCHANGED <<main, reader, m_run, m_init, m_buttons, joy_event, plugged, view>>
      /\ state' = [state EXCEPT ![c] = value]
  BY DEF ControlMoves, member
<1>2. state' \in [Control -> {0, 1} \cup Deflections] /\ \A d \in Control : state'[d] \in ValuesOf(d)
  BY <1>1 DEF IInv, TypesOK, EventsOK, ValuesOf
<1>3. \A d \in Control \ {c} : state'[d] = state[d]
  BY <1>1 DEF IInv, TypesOK
<1>4. NothingTold => NothingTold'
  BY <1>1 DEF NothingTold, Connected
<1>8. Len(queue) \in Nat /\ QueueSize \in Nat
  BY JoystickAssumption DEF IInv, TypesOK
<1>5. CASE ~Opened
  <2>1. queue' = queue
    BY <1>5 DEF ControlMoves
  <2>2. EventsOK'
    BY <1>2, <2>1 DEF IInv, EventsOK
  <2>3. ASSUME Live' PROVE LastIsState' /\ ReadIsTold'
    <3>1. Live /\ main = "start" /\ queue = <<>>
      BY <1>1, <1>5, <2>3 DEF Live, Opened, IInv, TypesOK
    <3>2. \A d \in Control : Places(d)' = {}
      BY <2>1, <3>1 DEF Places
    <3>3. DOMAIN view' = {}
      <4>1. \A type : ~Connected(type)
        BY <3>1 DEF Connected
      <4>2. QED
        BY <1>1, <3>1, <4>1 DEF IInv, NothingTold
    <3>4. QED
      BY <3>2, <3>3 DEF LastIsState, ReadIsTold, LastTold
  <2>4. QED
    BY <1>1, <1>2, <1>4, <2>1, <2>2, <2>3 DEF IInv, TypesOK, ViewOK, Live
<1>6. CASE Opened /\ Len(queue) < QueueSize
  <2> DEFINE e == EventOf(c, value, FALSE)
  <2>4. queue' = CASE ~Opened -> queue
                   [] Opened /\ Len(queue) < QueueSize -> Append(queue, e)
                   [] Opened /\ Len(queue) >= QueueSize -> InitEvents(state')
    BY DEF ControlMoves
  <2>5. e \in Event /\ Says(e, c, value)
    <3>1. value \in {0, 1} \cup Deflections /\ FALSE \in BOOLEAN
      BY DEF ValuesOf
    <3>2. QED
      BY <3>1, EventTyped
  <2> HIDE DEF e
  <2>1. queue' = Append(queue, e)
    BY <1>6, <1>8, <2>4
  <2>2. /\ queue' \in Seq(Event) /\ Len(queue') <= QueueSize /\ EventsOK'
        /\ Places(c)' # {} /\ \A d \in Control \ {c} : Places(d)' = Places(d)
        /\ LastIsState => LastIsState'
    BY <1>1, <1>6, <2>1, <2>5, Put
  <2>3. ReadIsTold => ReadIsTold'
    BY <1>1, <1>3, <2>2 DEF ReadIsTold, LastTold, ValueOf
  <2>6. QED
    BY <1>1, <1>2, <1>4, <1>6, <2>2, <2>3 DEF IInv, TypesOK, ViewOK, Live, Opened
<1>7. CASE Opened /\ Len(queue) >= QueueSize
  <2>1. queue' = InitEvents(state')
    BY <1>7 DEF ControlMoves
  <2>2. /\ queue' \in Seq(Event) /\ Len(queue') <= QueueSize
        /\ EventsOK' /\ LastIsState' /\ \A d \in Control : Places(d)' # {}
    BY <1>2, <2>1, Announced
  <2>3. ReadIsTold'
    BY <2>2 DEF ReadIsTold
  <2>4. QED
    BY <1>1, <1>2, <1>4, <1>7, <2>2, <2>3 DEF IInv, TypesOK, ViewOK, Live, Opened
<1>9. QED
  BY <1>5, <1>6, <1>7, <1>8

LEMMA OpenStep == ASSUME IInv, Open PROVE IInv'
<1>1. CASE main' = "opened"
  <2>1. /\ main = "start" /\ reader' = "check" /\ m_run' = TRUE
        /\ m_buttons' = Cardinality(Buttons) /\ queue' = InitEvents(state)
        /\ UNCHANGED <<m_init, joy_event, plugged, state, view>>
    BY <1>1 DEF Open
  <2>2. /\ queue' \in Seq(Event) /\ Len(queue') <= QueueSize
        /\ EventsOK' /\ LastIsState' /\ \A d \in Control : Places(d)' # {}
    BY <2>1, Announced DEF IInv, TypesOK, EventsOK
  <2>3. ReadIsTold'
    BY <2>2 DEF ReadIsTold
  <2>4. ASSUME Live' PROVE NothingTold'
    <3>1. Live /\ \A type : ~Connected(type)
      BY <2>1, <2>4 DEF Live, Connected
    <3>2. QED
      BY <2>1, <3>1 DEF IInv, NothingTold
  <2>5. QED
    BY <1>1, <2>1, <2>2, <2>3, <2>4 DEF IInv, TypesOK, ViewOK
<1>2. CASE main' = "exited"
  BY <1>2 DEF Open, member, IInv, TypesOK, ViewOK, EventsOK, Live
<1>3. QED
  BY <1>1, <1>2 DEF Open

\* Connecting a slot, closing, leaving and a device that goes tell nobody anything.
LEMMA QuietStep == ASSUME IInv, Connect \/ Close \/ Exit \/ Unplug \/ Check PROVE IInv'
<1>1. CASE Connect
  <2>1. /\ UNCHANGED <<reader, m_run, m_init, m_buttons, joy_event, plugged, state, queue, view>>
        /\ main' \in {"axis", "running"} /\ main \in {"opened", "axis"}
    BY <1>1 DEF Connect, member
  <2>2. \A type : Connected(type) => Connected(type)'
    BY <1>1 DEF Connect, Connected
  <2>3. Live' => Live
    BY <2>1 DEF Live
  <2>4. QED
    BY <2>1, <2>2, <2>3 DEF IInv, TypesOK, ViewOK, EventsOK, LastIsState, IsLast, Places,
                            ReadIsTold, LastTold, ValueOf, NothingTold
<1>2. CASE Close \/ Exit
  BY <1>2 DEF Close, Exit, member, IInv, TypesOK, ViewOK, EventsOK, Live
<1>3. CASE Unplug
  <2>1. queue' = <<>> /\ Len(queue') = 0 /\ queue' \in Seq(Event)
    BY <1>3 DEF Unplug
  <2>2. /\ UNCHANGED <<main, reader, m_run, m_init, m_buttons, joy_event, state, view>>
        /\ plugged' = FALSE
    BY <1>3 DEF Unplug, member
  <2>3. EventsOK' /\ ~Live'
    BY <2>1, <2>2 DEF IInv, EventsOK, Live
  <2>4. Len(queue') <= QueueSize
    BY <2>1, JoystickAssumption
  <2>5. TypesOK'
    BY <2>1, <2>2, <2>4 DEF IInv, TypesOK, ViewOK
  <2>6. QED
    BY <2>3, <2>5 DEF IInv
<1>4. CASE Check
  BY <1>4 DEF Check, member, IInv, TypesOK, ViewOK, EventsOK, Live, LastIsState, IsLast, Places,
              ReadIsTold, LastTold, ValueOf, NothingTold, Connected
<1>5. QED
  BY <1>1, <1>2, <1>3, <1>4

-----------------------------------------------------------------------------
(* The reader.                                                             *)

LEMMA TailFacts ==
  ASSUME NEW S, NEW s \in Seq(S), s # <<>>
  PROVE  /\ Tail(s) \in Seq(S) /\ Len(s) \in Nat /\ Len(s) > 0 /\ Len(Tail(s)) = Len(s) - 1
         /\ Head(s) = s[1] /\ \A k \in 1 .. Len(Tail(s)) : Tail(s)[k] = s[k + 1]
OBVIOUS

\* A control is known by its kind and its number.
LEMMA ControlsDiffer ==
  ASSUME NEW c \in Control, NEW d \in Control, c[1] = d[1], c[2] = d[2]
  PROVE  c = d
<1>1. ASSUME NEW e \in Control PROVE e = <<e[1], e[2]>>
  BY <1>1 DEF Control
<1>2. c = <<c[1], c[2]>> /\ d = <<d[1], d[2]>>
  BY <1>1
<1>3. QED
  BY <1>2

LEMMA AxisValuesTyped ==
  ASSUME NEW number \in 0 .. 127, NEW value \in Int
  PROVE  AxisValue(number, value) \in Int
<1>1. AxisEvent.Max \in Int /\ AxisEvent.Zero \in Int /\ AxisEvent.Min \in Int
  BY JoystickAssumption
<1>2. CASE number > 1
  BY <1>2 DEF AxisValue
<1>3. CASE number <= 1 /\ value > 0
  BY <1>1, <1>3 DEF AxisValue
<1>4. CASE number <= 1 /\ value = 0
  BY <1>1, <1>4 DEF AxisValue
<1>5. CASE number <= 1 /\ value < 0
  BY <1>1, <1>5 DEF AxisValue
<1>6. QED
  BY <1>2, <1>3, <1>4, <1>5

\* What a call tells of: a button as a button, an axis as an axis.
LEMMA CallsTyped ==
  ASSUME NEW event \in Event, NEW call \in Calls(event)
  PROVE  /\ call.name[1] = event.type
         /\ IF event.type = "BUTTON" THEN call.value \in {"Up", "Down"}
                                    ELSE call.value \in Int
<1>1. CASE event.type = "BUTTON"
  <2>1. PICK name \in ButtonNamesOf(event.number), value \in ButtonValues(event.value) :
          call = Told(<<"BUTTON", name>>, value)
    BY <1>1 DEF Calls
  <2>2. value \in {"Up", "Down"}
    BY DEF ButtonValues
  <2>3. QED
    BY <1>1, <2>1, <2>2 DEF Told
<1>2. CASE event.type # "BUTTON"
  <2>1. event.type = "AXIS" /\ event.number \in 0 .. 127 /\ event.value \in Int
    BY <1>2 DEF Event, EventWith
  <2>2. call = Told(<<"AXIS", AxisName(event.number)>>, AxisValue(event.number, event.value))
    BY <1>2 DEF Calls
  <2>3. AxisValue(event.number, event.value) \in Int
    BY <2>1, AxisValuesTyped
  <2>4. QED
    BY <1>2, <2>1, <2>2, <2>3 DEF Told
<1>3. QED
  BY <1>1, <1>2

\* What an event of a control with a name leads to is told under this name, with the
\* value of the control.
LEMMA CallsNamed ==
  ASSUME EventsOK, NEW event, NEW c \in Control, Named(c), About(event, c),
         NEW call \in Calls(event)
  PROVE  /\ call.name = NameOf(c)
         /\ event.value = state[c] => call.value = ValueOf(c)
<1>1. event.type = c[1] /\ event.number = c[2] /\ state[c] \in ValuesOf(c)
  BY DEF About, EventsOK
<1>2. CASE c[1] = "BUTTON"
  <2>1. c[2] \in DOMAIN ButtonNames
    BY <1>2 DEF Named
  <2>2. PICK value \in ButtonValues(event.value) :
          call = Told(<<"BUTTON", ButtonNames[c[2]]>>, value)
    BY <1>1, <1>2, <2>1 DEF Calls, ButtonNamesOf
  <2>3. state[c] = 0 \/ state[c] = 1
    BY <1>1, <1>2 DEF ValuesOf
  <2>4. event.value = state[c] => value = ValueOf(c)
    BY <1>2, <2>2, <2>3 DEF ButtonValues, ValueOf
  <2>5. QED
    BY <1>2, <2>2, <2>4 DEF Told, NameOf
<1>3. CASE c[1] # "BUTTON"
  <2>1. /\ c[1] = "AXIS" /\ c[2] \in 0 .. 127 /\ state[c] \in Int
    BY <1>1, <1>3, JoystickAssumption DEF Control, ValuesOf
  <2>2. call = Told(<<"AXIS", AxisName(c[2])>>, AxisValue(c[2], event.value))
    BY <1>1, <1>3 DEF Calls
  <2>3. AxisValue(c[2], state[c]) = ValueOf(c)
    <3>1. CASE c[2] > 1
      <4>1. ~(c[2] <= 1)
        BY <2>1, <3>1
      <4>2. AxisValue(c[2], state[c]) = state[c]
        BY <3>1, <4>1 DEF AxisValue
      <4>3. QED
        BY <1>3, <3>1, <4>2 DEF ValueOf
    <3>2. CASE c[2] <= 1
      BY <1>3, <2>1, <3>2 DEF AxisValue, ValueOf
    <3>3. QED
      BY <2>1, <3>1, <3>2
  <2>4. QED
    BY <1>3, <2>2, <2>3 DEF Told, NameOf
<1>4. QED
  BY <1>2, <1>3

LEMMA HandleTyped ==
  ASSUME TypesOK, NEW event \in Event \cup Garbage, Handle(event)
  PROVE  m_init' \in BOOLEAN /\ ViewOK'
<1>1. m_init' \in BOOLEAN
  BY DEF Handle, TypesOK
<1>2. CASE view' = view
  BY <1>1, <1>2 DEF TypesOK, ViewOK
<1>3. CASE view' # view
  <2>1. event.type # "other" /\ \E call \in Calls(event) :
          view' = Heard(view, call, <<event.type, event.number>>)
    BY <1>3 DEF Handle
  <2>2. PICK call \in Calls(event) :
          view' = Heard(view, call, <<event.type, event.number>>)
    BY <2>1
  <2>3. event \in Event
    BY <2>1, JoystickAssumption DEF Event, EventWith
  <2>4. /\ call.name[1] = event.type
        /\ IF event.type = "BUTTON" THEN call.value \in {"Up", "Down"}
                                   ELSE call.value \in Int
    BY <2>3, CallsTyped
  <2>5. <<event.type, event.number>> \in {call.name[1]} \X (0 .. 127)
    BY <2>3, <2>4 DEF Event, EventWith
  <2>6. ViewOK'
    <3> SUFFICES ASSUME NEW name \in DOMAIN view'
                 PROVE  /\ view'[name].of \in {name[1]} \X (0 .. 127)
                        /\ IF name[1] = "BUTTON" THEN view'[name].value \in {"Up", "Down"}
                                                 ELSE view'[name].value \in Int
      BY DEF ViewOK
    <3>1. CASE name = call.name
      <4>1. view'[name] = [of |-> <<event.type, event.number>>, value |-> call.value]
        BY <2>2, <3>1 DEF Heard
      <4>2. QED
        BY <2>4, <2>5, <3>1, <4>1
    <3>2. CASE name # call.name
      <4>1. name \in DOMAIN view /\ view'[name] = view[name]
        BY <2>2, <3>2 DEF Heard
      <4>2. QED
        BY <4>1 DEF TypesOK, ViewOK
    <3>3. QED
      BY <3>1, <3>2
  <2>7. QED
    BY <1>1, <2>6
<1>4. QED
  BY <1>2, <1>3

LEMMA ReadStep == ASSUME IInv, Read PROVE IInv'
<1>1. PICK event \in ReadResults :
        /\ joy_event' = event
        /\ queue' = IF queue # <<>> /\ event = Head(queue) THEN Tail(queue) ELSE queue
        /\ Handle(event)
  BY DEF Read
<1>2. reader' = "check" /\ UNCHANGED <<main, m_run, m_buttons, plugged, state>>
  BY DEF Read
<1>3. queue \in Seq(Event) /\ Len(queue) \in Nat
  BY DEF IInv, TypesOK
<1>4. /\ queue' \in Seq(Event) /\ Len(queue') <= QueueSize
      /\ main = "start" => queue' = <<>>
      /\ \A k \in 1 .. Len(queue') : \E c \in Control : About(queue'[k], c)
  <2>1. CASE queue # <<>> /\ event = Head(queue)
    <3>1. queue' = Tail(queue)
      BY <1>1, <2>1
    <3>2. /\ Len(queue') = Len(queue) - 1 /\ queue' \in Seq(Event)
          /\ \A k \in 1 .. Len(queue') : queue'[k] = queue[k + 1] /\ k + 1 \in 1 .. Len(queue)
      BY <1>3, <2>1, <3>1, TailFacts
    <3>3. Len(queue) <= QueueSize /\ QueueSize \in Nat
      BY JoystickAssumption DEF IInv, TypesOK
    <3>4. QED
      BY <1>3, <2>1, <3>2, <3>3 DEF IInv, TypesOK, EventsOK
  <2>2. CASE ~(queue # <<>> /\ event = Head(queue))
    BY <1>1, <2>2 DEF IInv, TypesOK, EventsOK
  <2>3. QED
    BY <2>1, <2>2
<1>5. joy_event' \in Event \cup Garbage
  BY <1>1, <1>3 DEF ReadResults, IInv, TypesOK
<1>6. TypesOK'
  <2>1. TypesOK
    BY DEF IInv
  <2>2. event \in Event \cup Garbage
    BY <1>1, <1>5
  <2>3. m_init' \in BOOLEAN /\ ViewOK'
    BY <1>1, <2>1, <2>2, HandleTyped
  <2>4. QED
    BY <1>2, <1>4, <1>5, <2>1, <2>3 DEF TypesOK
<1>7. EventsOK'
  BY <1>2, <1>4 DEF IInv, EventsOK
<1>8. ASSUME Live' PROVE LastIsState' /\ ReadIsTold' /\ NothingTold'
  <2>1. /\ Live /\ LastIsState /\ ReadIsTold /\ NothingTold
        /\ TypesOK /\ EventsOK
    BY <1>2, <1>8 DEF Live, IInv
  <2>2. queue # <<>> /\ event = Head(queue) /\ queue' = Tail(queue)
    BY <1>1, <2>1 DEF ReadResults, Live
  <2>3. /\ Len(queue) > 0 /\ Len(queue') = Len(queue) - 1 /\ event = queue[1]
        /\ \A k \in 1 .. Len(queue') : queue'[k] = queue[k + 1]
    BY <1>3, <2>2, TailFacts
  <2>4. event \in Event
    BY <1>3, <2>3
  <2>5. PICK c \in Control : About(event, c)
    BY <1>3, <2>1, <2>3 DEF EventsOK
  <2>6. \A d \in Control : About(event, d) => d = c
    BY <2>5, ControlsDiffer DEF About
  <2>7. \A d \in Control : \A k \in Nat : k \in Places(d)' <=> k # 0 /\ k + 1 \in Places(d)
    BY <1>3, <2>3 DEF Places
  <2>8. \A d \in Control : Places(d) \subseteq Nat \ {0} /\ Places(d)' \subseteq Nat \ {0}
    BY DEF Places
  <2>9. 1 \in Places(c) /\ \A d \in Control \ {c} : 1 \notin Places(d)
    BY <1>3, <2>3, <2>5, <2>6 DEF Places
  <2>10. LastIsState'
    <3> SUFFICES ASSUME NEW d \in Control, NEW k \in Places(d)', IsLast(d, k)'
                 PROVE  queue'[k].value = state'[d]
      BY DEF LastIsState
    <3>1. k \in Nat /\ k # 0 /\ k + 1 \in Places(d) /\ \A j \in Places(d)' : j <= k
      BY <2>7, <2>8 DEF IsLast
    <3>2. \A j \in Places(d) : j <= k + 1
      <4> TAKE j \in Places(d)
      <4>1. j \in Nat /\ j # 0
        BY <2>8
      <4>2. j = 1 \/ (j - 1 \in Nat /\ j - 1 # 0 /\ (j - 1) + 1 = j)
        BY <4>1
      <4>3. j # 1 => j - 1 \in Places(d)'
        BY <2>7, <4>2
      <4>4. QED
        BY <3>1, <4>1, <4>3
    <3>3. queue[k + 1].value = state[d]
      BY <2>1, <3>1, <3>2 DEF LastIsState, IsLast
    <3>4. queue'[k] = queue[k + 1]
      BY <2>3 DEF Places
    <3>5. QED
      BY <1>2, <3>3, <3>4
  <2>11. \A d \in Control \ {c} : Places(d)' = {} => Places(d) = {}
    <3> TAKE d \in Control \ {c}
    <3>1. \A j \in Places(d) : j \in Nat /\ j - 1 \in Nat /\ j - 1 # 0 /\ (j - 1) + 1 = j
      BY <2>8, <2>9
    <3>2. QED
      BY <2>7, <3>1
  <2>12. Places(c)' = {} => event.value = state[c]
    <3>1. \A j \in Places(c) : j # 1 => j - 1 \in Nat /\ j - 1 # 0 /\ (j - 1) + 1 = j
      BY <2>8
    <3>2. Places(c)' = {} => Places(c) = {1}
      BY <2>7, <2>9, <3>1
    <3>3. QED
      BY <2>1, <2>3, <2>9, <3>2 DEF LastIsState, IsLast
  <2>13. event.type # "other" /\ event.type = c[1] /\ <<event.type, event.number>> = c
    <3>1. event.type = c[1] /\ event.number = c[2]
      BY <2>5 DEF About
    <3>2. QED
      BY <3>1 DEF Control
  <2>14. \A d \in Control : ValueOf(d)' = ValueOf(d)
    BY <1>2 DEF ValueOf
  <2>15. \A type : Connected(type)' = Connected(type)
    BY <1>2 DEF Connected
  <2>16. m_init' = (m_init \/ ~event.init)
    BY <1>1, <2>13 DEF Handle
  <2>17. CASE Passed(m_init, event) /\ Connected(event.type)
    <3>1. PICK call \in Calls(event) : view' = Heard(view, call, c)
      BY <1>1, <2>13, <2>17 DEF Handle
    <3>2. /\ call.name \in DOMAIN view' /\ view'[call.name].of = c
          /\ view'[call.name].value = call.value
          /\ \A name \in DOMAIN view' : name # call.name =>
               name \in DOMAIN view /\ view'[name] = view[name]
      BY <3>1 DEF Heard
    <3>3. ReadIsTold'
      <4> SUFFICES ASSUME NEW d \in Control, Places(d)' = {}, LastTold(d)'
                   PROVE  view'[NameOf(d)].value = ValueOf(d)
        BY <2>14 DEF ReadIsTold
      <4>1. Named(d) /\ NameOf(d) \in DOMAIN view' /\ view'[NameOf(d)].of = d
        BY DEF LastTold
      <4>2. CASE d = c
        <5>1. call.name = NameOf(c) /\ call.value = ValueOf(c)
          BY <2>1, <2>5, <2>12, <4>1, <4>2, CallsNamed
        <5>2. QED
          BY <3>2, <4>2, <5>1
      <4>3. CASE d # c
        <5>1. NameOf(d) # call.name
          BY <3>2, <4>1, <4>3
        <5>2. LastTold(d) /\ view'[NameOf(d)] = view[NameOf(d)]
          BY <3>2, <4>1, <5>1 DEF LastTold
        <5>3. QED
          BY <2>1, <2>11, <4>3, <5>2 DEF ReadIsTold
      <4>4. QED
        BY <4>2, <4>3
    <3>4. m_init' = TRUE /\ Connected(c[1])
      BY <2>13, <2>16, <2>17 DEF Passed
    <3>5. NothingTold'
      <4> SUFFICES ASSUME NEW name \in DOMAIN view' PROVE Connected(view'[name].of[1])
        BY <2>15, <3>4 DEF NothingTold
      <4>1. CASE name = call.name
        BY <3>2, <3>4, <4>1
      <4>2. CASE name # call.name
        BY <2>1, <3>2, <4>2 DEF NothingTold
      <4>3. QED
        BY <4>1, <4>2
    <3>6. QED
      BY <2>10, <3>3, <3>5
  <2>18. CASE ~(Passed(m_init, event) /\ Connected(event.type))
    <3>1. view' = view
      BY <1>1, <2>13, <2>18 DEF Handle
    <3>2. ~(m_init /\ Connected(c[1]))
      BY <2>13, <2>18 DEF Passed
    <3>3. ~LastTold(c)
      BY <2>1, <3>2 DEF NothingTold, LastTold
    <3>4. ReadIsTold'
      <4> SUFFICES ASSUME NEW d \in Control, Places(d)' = {}, LastTold(d)
                   PROVE  view[NameOf(d)].value = ValueOf(d)
        BY <2>14, <3>1 DEF ReadIsTold, LastTold
      <4>1. d # c
        BY <3>3
      <4>2. QED
        BY <2>1, <2>11, <4>1 DEF ReadIsTold
    <3>5. NothingTold'
      BY <2>1, <2>15, <2>16, <3>1 DEF NothingTold
    <3>6. QED
      BY <2>10, <3>4, <3>5
  <2>19. QED
    BY <2>17, <2>18
<1>9. QED
  BY <1>6, <1>7, <1>8 DEF IInv

-----------------------------------------------------------------------------
LEMMA Inductive == IInv /\ [Next]_vars => IInv'
<1> SUFFICES ASSUME IInv, [Next]_vars PROVE IInv'
  OBVIOUS
<1>1. CASE UNCHANGED vars
  BY <1>1 DEF vars, member, IInv, TypesOK, ViewOK, EventsOK, Live, LastIsState, IsLast, Places,
              ReadIsTold, LastTold, ValueOf, NothingTold, Connected
<1>2. QED
  BY <1>1, MovesStep, OpenStep, QuietStep, ReadStep DEF Next

LEMMA AlwaysIInv == Spec => []IInv
BY InitHolds, Inductive, PTL DEF Spec

\* Every variable keeps its type, and the driver's queue its size, whatever a failing
\* read leaves in the event (Joystick::loop).
THEOREM JoystickTypes == Spec => []TypeOK
<1>1. IInv => TypeOK
  BY DEF IInv, TypesOK, ViewOK, TypeOK
<1>2. QED
  BY <1>1, AlwaysIInv, PTL

\* Whatever was lost before the slots were connected, skipped as synthetic or dropped
\* in an overflow: once the queue is read, what the listeners were told last under the
\* name of a control, if it was about this control, is what it is at
\* (Joystick::loop and the slots).
THEOREM ToldIsAlwaysTrue == Spec => []ToldIsTrue
<1>1. IInv => ToldIsTrue
  <2> SUFFICES ASSUME IInv, main = "running", plugged, queue = <<>>, NEW c \in Control,
                      LastTold(c)
               PROVE  view[NameOf(c)].value = ValueOf(c)
    BY DEF ToldIsTrue
  <2>1. Places(c) = {} /\ Live
    BY DEF Places, Live
  <2>2. QED
    BY <2>1 DEF IInv, ReadIsTold
<1>2. QED
  BY <1>1, AlwaysIInv, PTL
=============================================================================
