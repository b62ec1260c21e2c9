--------------------------- MODULE CircuitBreaker ---------------------------
(***************************************************************************)
(* The circuit breaker of one server, with the dispatcher that asks it and *)
(* the coroutines that report to it.  The dispatcher looks first           *)
(* (can_request), awaits other queries, and then asks for each item        *)
(* (allow_request); a coroutine reports long after, in whatever state the  *)
(* breaker is by then, and the breaker does not know which calls it hears  *)
(* from.                                                                   *)
(***************************************************************************)
EXTENDS Integers, FiniteSets

CONSTANTS
    Calls,             \* the server's slots: a call that is allowed takes one
    FailureThreshold, HalfOpenMax,
    Silent             \* which calls, early or probe, may end without a report

ASSUME CallsAssumption == IsFiniteSet(Calls)

ASSUME BreakerAssumption ==
    /\ FailureThreshold \in Nat \ {0} /\ HalfOpenMax \in Nat \ {0}
    /\ Silent \subseteq {"early", "probe"}

VARIABLES
    state, failures, successes, probes,
    cooled,    \* recovery_timeout has passed since the last failure
    planned,   \* the dispatcher counts the server among those available
    calls      \* what each slot is used for

vars    == <<state, failures, successes, probes, cooled, planned, calls>>
counts  == <<failures, successes, probes>>

State == {"CLOSED", "OPEN", "HALF_OPEN"}

(* A probe was allowed in this half-open period, an early call before it. *)
Use == {"free", "early", "probe", "answered"}

Using(u) == {c \in Calls : calls[c] = u}

Init ==
    /\ state = "CLOSED"
    /\ failures = 0 /\ successes = 0 /\ probes = 0
    /\ cooled = FALSE /\ planned = FALSE
    /\ calls = [c \in Calls |-> "free"]

-----------------------------------------------------------------------------
(* The gate.  Both questions first move an open breaker on. *)

Recovers     == state = "OPEN" /\ cooled
StateSeen    == IF Recovers THEN "HALF_OPEN" ELSE state
ProbesSeen   == IF Recovers THEN 0 ELSE probes
MaybeRecover == /\ state' = StateSeen
                /\ successes' = IF Recovers THEN 0 ELSE successes

Admits == \/ StateSeen = "CLOSED"
          \/ StateSeen = "HALF_OPEN" /\ ProbesSeen < HalfOpenMax

(* Mutant: the probe is not counted. *)
AllowUncounted(c) ==
    /\ planned /\ calls[c] = "free"
    /\ MaybeRecover
    /\ planned' = Admits
    /\ probes' = ProbesSeen
    /\ calls' = IF Admits
                THEN [calls EXCEPT ![c] = IF StateSeen = "HALF_OPEN" THEN "probe" ELSE "early"]
                ELSE calls
    /\ UNCHANGED <<failures, cooled>>

CanRequest ==
    /\ ~planned
    /\ MaybeRecover
    /\ planned' = Admits
    /\ probes' = ProbesSeen
    /\ UNCHANGED <<failures, cooled, calls>>

AllowRequest(c) ==
    /\ planned /\ calls[c] = "free"
    /\ MaybeRecover
    /\ planned' = Admits
    /\ probes' = IF Admits /\ StateSeen = "HALF_OPEN" THEN ProbesSeen + 1 ELSE ProbesSeen
    /\ calls' = IF Admits
                THEN [calls EXCEPT ![c] = IF StateSeen = "HALF_OPEN" THEN "probe" ELSE "early"]
                ELSE calls
    /\ UNCHANGED <<failures, cooled>>

EndDispatch ==
    /\ planned /\ planned' = FALSE
    /\ UNCHANGED <<state, counts, cooled, calls>>

-----------------------------------------------------------------------------
(* The reports. *)

(* The probes of a half-open period that is over are early calls of the next. *)
After(c, use) ==
    calls' = [d \in Calls |->
                IF d = c THEN use
                ELSE IF calls[d] = "probe" /\ state' # "HALF_OPEN" THEN "early"
                ELSE calls[d]]

(* Mutant: one success too many is asked for. *)
SuccessOneMore(c) ==
    /\ calls[c] \in {"early", "probe"}
    /\ CASE state = "HALF_OPEN" /\ successes + 1 > HalfOpenMax ->
              /\ state' = "CLOSED" /\ failures' = 0 /\ successes' = 0
         [] state = "HALF_OPEN" /\ successes + 1 <= HalfOpenMax ->
              /\ successes' = successes + 1 /\ UNCHANGED <<state, failures>>
         [] state = "CLOSED" -> failures' = 0 /\ UNCHANGED <<state, successes>>
         [] OTHER -> UNCHANGED <<state, failures, successes>>
    /\ After(c, "answered")
    /\ UNCHANGED <<probes, cooled, planned>>

RecordSuccess(c) ==
    /\ calls[c] \in {"early", "probe"}
    /\ CASE state = "HALF_OPEN" /\ successes + 1 >= HalfOpenMax ->
              /\ state' = "CLOSED" /\ failures' = 0 /\ successes' = 0
         [] state = "HALF_OPEN" /\ successes + 1 < HalfOpenMax ->
              /\ successes' = successes + 1 /\ UNCHANGED <<state, failures>>
         [] state = "CLOSED" -> failures' = 0 /\ UNCHANGED <<state, successes>>
         [] OTHER -> UNCHANGED <<state, failures, successes>>
    /\ After(c, "answered")
    /\ UNCHANGED <<probes, cooled, planned>>

(* The count of failures is read only against the threshold, where it is capped. *)
FailuresNext == IF failures < FailureThreshold THEN failures + 1 ELSE failures

(* The call failed, or its result could not be stored after a success was reported. *)
RecordFailure(c) ==
    /\ calls[c] # "free"
    /\ failures' = FailuresNext
    /\ cooled' = FALSE
    /\ IF state = "HALF_OPEN"
       THEN state' = "OPEN" /\ probes' = 0 /\ successes' = 0
       ELSE /\ state' = IF state = "CLOSED" /\ FailuresNext >= FailureThreshold
                        THEN "OPEN" ELSE state
            /\ UNCHANGED <<probes, successes>>
    /\ After(c, "free")
    /\ UNCHANGED planned

Stored(c) ==
    /\ calls[c] = "answered"
    /\ calls' = [calls EXCEPT ![c] = "free"]
    /\ UNCHANGED <<state, counts, cooled, planned>>

(* The commit is rolled back, or the coroutine returns before it asks the *)
(* server because its task or its parent is canceled, failed or gone.     *)
EndsSilently(c) ==
    /\ calls[c] \in Silent
    /\ calls' = [calls EXCEPT ![c] = "free"]
    /\ UNCHANGED <<state, counts, cooled, planned>>

Cool ==
    /\ state = "OPEN" /\ ~cooled
    /\ cooled' = TRUE
    /\ UNCHANGED <<state, counts, planned, calls>>

-----------------------------------------------------------------------------
Report(c) == RecordSuccess(c) \/ RecordFailure(c)

Next ==
    \/ CanRequest \/ EndDispatch \/ Cool
    \/ \E c \in Calls : \/ AllowRequest(c) \/ RecordSuccess(c) \/ RecordFailure(c)
                        \/ Stored(c) \/ EndsSilently(c)

Spec == Init /\ [][Next]_vars

(* Time passes, calls end, and there is work: the dispatcher looks again and *)
(* again, and does not end every look without a call.                        *)
Fairness ==
    /\ WF_vars(Cool) /\ WF_vars(CanRequest)
    /\ SF_vars(\E c \in Calls : AllowRequest(c))
    /\ \A c \in Calls : WF_vars(Report(c)) /\ WF_vars(Stored(c))

FairSpec == Spec /\ Fairness
-----------------------------------------------------------------------------
(* Properties. *)

(* The counters stay below the limits they are compared with. *)
TypeOK ==
    /\ state \in State
    /\ failures \in 0 .. FailureThreshold
    /\ successes \in 0 .. HalfOpenMax - 1
    /\ probes \in 0 .. HalfOpenMax
    /\ cooled \in BOOLEAN /\ planned \in BOOLEAN
    /\ calls \in [Calls -> Use]

(* A half-open server is tried with at most half_open_max_calls calls, over *)
(* all dispatch cycles, and whatever earlier calls report meanwhile.        *)
ProbesWithinBudget ==
    state = "HALF_OPEN" => Cardinality(Using("probe")) <= HalfOpenMax

(* Once the server has recovered, so that no call fails any more, its breaker  *)
(* closes for good, whatever is still reported of calls from before the outage. *)
ServerComesBack == <>[][\A c \in Calls : ~RecordFailure(c)]_vars => <>[](state = "CLOSED")

=============================================================================
