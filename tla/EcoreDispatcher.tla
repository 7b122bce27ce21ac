----------------------------- MODULE EcoreDispatcher -----------------------------
(***************************************************************************)
(* EcoreDispatcher: threads wake up the Ecore main loop through a pipe.    *)
(***************************************************************************)
EXTENDS Integers, FiniteSets

CONSTANTS
  Threads,
  Capacity,   \* bytes the pipe holds
  MaxSignals  \* bound: calls of signal()

ASSUME DispatcherAssumption == Capacity \in Nat /\ Capacity >= 2 /\ MaxSignals \in Nat

VARIABLES
  calling,    \* threads in signal(), whose write blocks while the pipe is full
  begun,      \* history: calls of signal() so far
  pipe,       \* bytes in the pipe
  reading,    \* the main loop is in dispatcher_async_handler
  missedEvents,
  told,       \* history: sum of the numbers that signalDispatch was emitted with
  emits,      \* history: emissions
  answered    \* history: calls that had written when the last one came

dispatcherVars == <<calling, begun, pipe, reading, missedEvents, told, emits, answered>>

\* write(fd_write, "1", 2)
Written == 2

\* Calls that have written.
written == begun - Cardinality(calling)

DispatcherInit ==
  /\ calling = {} /\ begun = 0 /\ pipe = 0
  /\ reading = FALSE /\ missedEvents = 0
  /\ told = 0 /\ emits = 0 /\ answered = 0

signal(t) ==
  /\ t \notin calling /\ begun < MaxSignals
  /\ calling' = calling \cup {t} /\ begun' = begun + 1
  /\ UNCHANGED <<pipe, reading, missedEvents, told, emits, answered>>

\* So short a write is atomic, and blocks until there is room for all of it.
write(t) ==
  /\ t \in calling /\ pipe + Written <= Capacity
  /\ calling' = calling \ {t} /\ pipe' = pipe + Written
  /\ UNCHANGED <<begun, reading, missedEvents, told, emits, answered>>

\* The main loop finds the pipe readable.
dispatcher_async_handler ==
  /\ ~reading /\ pipe > 0
  /\ reading' = TRUE
  /\ UNCHANGED <<calling, begun, pipe, missedEvents, told, emits, answered>>

\* One round of its loop.
read ==
  /\ reading /\ pipe > 0
  /\ pipe' = pipe - 1 /\ missedEvents' = missedEvents + 1
  /\ UNCHANGED <<calling, begun, reading, told, emits, answered>>

\* Faulty variant: the handler reads once.
emitAfterOneRead ==
  /\ reading /\ missedEvents > 0
  /\ reading' = FALSE /\ missedEvents' = 0
  /\ told' = told + missedEvents /\ emits' = emits + 1 /\ answered' = written
  /\ UNCHANGED <<calling, begun, pipe>>

\* The round that reads nothing is counted, too, and ends the loop.
emit ==
  /\ reading /\ pipe = 0
  /\ reading' = FALSE /\ missedEvents' = 0
  /\ told' = told + missedEvents + 1 /\ emits' = emits + 1 /\ answered' = written
  /\ UNCHANGED <<calling, begun, pipe>>

MainLoop == dispatcher_async_handler \/ read \/ emit

DispatcherNext == MainLoop \/ \E t \in Threads : signal(t) \/ write(t)

DispatcherSpec == DispatcherInit /\ [][DispatcherNext]_dispatcherVars

-----------------------------------------------------------------------------
(* Properties.                                                             *)

\* Every variable has its type, and the pipe is never overfilled.
DispatcherTypeOK ==
  /\ calling \subseteq Threads /\ IsFiniteSet(calling)
  /\ begun \in 0 .. MaxSignals /\ pipe \in 0 .. Capacity /\ reading \in BOOLEAN
  /\ missedEvents \in Nat /\ told \in Nat /\ emits \in Nat /\ answered \in Nat

\* EcoreDispatcher keeps the promise: no call goes unanswered, once the calls
\* pause, even if it has to wait for room in the pipe, and none is answered twice.
Promise == INSTANCE WakeUp WITH raised <- begun
KeepsPromise == Promise!FairWakeUp
=============================================================================
