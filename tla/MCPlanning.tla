----------------------------- MODULE MCPlanning -----------------------------
(***************************************************************************)
(* The dispatcher's helpers, as TLC checks them: the circuit breaker of a  *)
(* server, the plan pool, the batch scheduler and the calibration of its   *)
(* estimates.  They share no state (what each leaves open of the others is *)
(* said in its module), so that a behaviour shows one of them at work and  *)
(* the others at rest, where nothing fair of theirs is enabled.            *)
(***************************************************************************)
EXTENDS CircuitBreaker, PlanPool, BatchScheduler, Calibration, TLC

(* Segments 1 and 2 of one task, of which 1 may be tried twice, and a task. *)
MCItems    == {1, 2, 3}
MCPartOf   == <<"long", "long", "whole">>
MCAttempts == <<2, 1, 1>>
MCMaxSlots == "a" :> 2 @@ "b" :> 1

Server(limit, running, rtf) == [limit |-> limit, running |-> running, rtf |-> rtf]
MCProfiles == {Server(1, 0, 1), Server(2, 1, 1), Server(2, 0, 2), Server(1, 2, 3), Server(2, 2, 1)}

(* Two tasks overlap; segments come one after the other. *)
MCCarries == <<"task", "task", "segment">>

VARIABLE at    \* the part at work

PlanningInit ==
    /\ at \in {"breaker", "pool", "batch", "calibration"}
    /\ Init /\ PoolInit /\ BatchInit /\ CalibrationInit

PlanningNext ==
    /\ UNCHANGED at
    /\ \/ at = "breaker" /\ Next /\ UNCHANGED <<poolVars, batchVars, calibrationVars>>
       \/ at = "pool" /\ PoolNext /\ UNCHANGED <<vars, batchVars, calibrationVars>>
       \/ at = "batch" /\ BatchNext /\ UNCHANGED <<vars, poolVars, calibrationVars>>
       \/ at = "calibration" /\ CalibrationNext /\ UNCHANGED <<vars, poolVars, batchVars>>

(* Fairness of the breaker when it is the part at work. *)
BreakerFairness ==
    /\ WF_vars(at = "breaker" /\ Cool) /\ WF_vars(at = "breaker" /\ CanRequest)
    /\ SF_vars(at = "breaker" /\ \E c \in Calls : AllowRequest(c))
    /\ \A c \in Calls : /\ WF_vars(at = "breaker" /\ Report(c))
                        /\ WF_vars(at = "breaker" /\ Stored(c))

PlanningSpec ==
    /\ PlanningInit /\ [][PlanningNext]_<<at, vars, poolVars, batchVars, calibrationVars>>
    /\ BreakerFairness /\ PoolFairness /\ CalibrationFairness

=============================================================================
