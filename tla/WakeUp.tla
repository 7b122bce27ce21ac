--------------------------------- MODULE WakeUp ---------------------------------
(***************************************************************************)
(* What EcoreDispatcher promises: whoever calls signal() has the main loop *)
(* emit signalDispatch afterwards, one emission may answer several calls,  *)
(* and there is none that nobody called for.                               *)
(***************************************************************************)
EXTENDS Integers

VARIABLES
  raised,    \* calls of signal() that have been begun
  answered,  \* those of them an emission has followed
  emits      \* emissions

wakeUpVars == <<raised, answered, emits>>

Idle == raised = 0 /\ answered = 0 /\ emits = 0

Raise == raised' = raised + 1 /\ UNCHANGED <<answered, emits>>

\* An emission answers a call at least.
Answer ==
  /\ answered' \in answered + 1 .. raised
  /\ emits' = emits + 1
  /\ UNCHANGED raised

SafeWakeUp == Idle /\ [][Raise \/ Answer]_wakeUpVars

FairWakeUp == SafeWakeUp /\ WF_wakeUpVars(Answer)
=============================================================================
