--------------------------- MODULE TaskLifecycle ---------------------------
(***************************************************************************)
(* What the service promises about a task once it is queued, with nothing  *)
(* said of servers, segments, coroutines or generations: it waits, runs,   *)
(* and ends done, canceled or deleted, or fails and is tried again at most *)
(* MaxRetry times; the owner is told of a success exactly when it happens, *)
(* and of a failure at most when no attempt is left.                       *)
(***************************************************************************)
EXTENDS Integers

CONSTANTS Tasks, MaxRetry

VARIABLES phase, tries, told

state == <<phase, tries, told>>

Phase == {"waiting", "running", "failed", "done", "canceled", "gone"}

Init ==
    /\ phase = [t \in Tasks |-> "waiting"]
    /\ tries \in [Tasks -> 0 .. MaxRetry]
    /\ told = [t \in Tasks |-> [succeeded |-> 0, failed |-> 0]]

-----------------------------------------------------------------------------
(* The moves of one task; several tasks may move in one step. *)

From(t, P)     == phase[t] \in P
To(t, P)       == phase'[t] \in P
SameTries(t)   == tries'[t] = tries[t]
TellNothing(t) == told'[t] = told[t]
Tell(t, kind)  == told'[t] = [told[t] EXCEPT ![kind] = @ + 1]

Stay(t)    == To(t, {phase[t]}) /\ SameTries(t) /\ TellNothing(t)
Start(t)   == From(t, {"waiting"}) /\ To(t, {"running"}) /\ SameTries(t) /\ TellNothing(t)
Requeue(t) == From(t, {"running"}) /\ To(t, {"waiting"}) /\ SameTries(t) /\ TellNothing(t)
Succeed(t) == From(t, {"running"}) /\ To(t, {"done"}) /\ SameTries(t) /\ Tell(t, "succeeded")

Fail(t) ==
    /\ From(t, {"waiting", "running"}) /\ To(t, {"failed"}) /\ SameTries(t)
    /\ \/ TellNothing(t)
       \/ tries[t] = MaxRetry /\ Tell(t, "failed")

Retry(t) ==
    /\ From(t, {"failed"}) /\ tries[t] < MaxRetry
    /\ To(t, {"waiting", "running"}) /\ tries'[t] = tries[t] + 1
    /\ TellNothing(t)

Cancel(t) == From(t, {"waiting", "running"}) /\ To(t, {"canceled"}) /\ SameTries(t) /\ TellNothing(t)
Delete(t) == ~From(t, {"running"}) /\ To(t, {"gone"}) /\ TellNothing(t)

Move(t) ==
    \/ Start(t) \/ Requeue(t) \/ Succeed(t) \/ Fail(t)
    \/ Retry(t) \/ Cancel(t) \/ Delete(t)

Next == \A t \in Tasks : Move(t) \/ Stay(t)

Spec == Init /\ [][Next]_state

=============================================================================
