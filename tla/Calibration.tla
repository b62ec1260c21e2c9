----------------------------- MODULE Calibration -----------------------------
(***************************************************************************)
(* How the estimates for one server are corrected: each finished call      *)
(* reports how long it took against what was predicted, and the factor     *)
(* later predictions are multiplied with follows the last two reports.  A  *)
(* task is predicted when it is dispatched and corrected by the factor of  *)
(* the time it ends; a segment is predicted when it has ended.             *)
(*                                                                         *)
(* The server's true factor, the time of a call over its raw estimate, may *)
(* change; it is a multiple of a tenth.  Ratios are kept in hundredths.    *)
(***************************************************************************)
EXTENDS Integers, Sequences, FiniteSets, FiniteSetsExt

CONSTANTS
    Streams,          \* calls that may be open at a time
    Carries,          \* the kind of work each stream of calls carries
    Factors,          \* true factors the server may have, in tenths
    MaxTurns          \* bound on the changes of the true factor

ASSUME CalibrationAssumption ==
    /\ Carries \in [Streams -> {"task", "segment"}]
    /\ Factors \subseteq 5 .. 30 /\ MaxTurns \in Nat

VARIABLES
    actual,           \* the server's true factor, 0 before it is registered
    factor, reports,  \* ETACalibrationTracker._factors and ._history, per kind of work
    open,             \* the open calls: [kind, by], the factor they were predicted by
    turns

calibrationVars == <<actual, factor, reports, open, turns>>

Kind == {"task", "segment"}
Free == [kind |-> "none", by |-> 0]

CalibrationInit ==
    /\ actual = 0
    /\ factor = [k \in Kind |-> 10] /\ reports = [k \in Kind |-> << >>]
    /\ open = [c \in Streams |-> Free]
    /\ turns = 0

Distance(a, b) == IF a > b THEN a - b ELSE b - a

Dispatch(c) ==
    /\ actual > 0 /\ open[c] = Free
    /\ open' = [open EXCEPT ![c] = [kind |-> Carries[c], by |-> factor[Carries[c]]]]
    /\ UNCHANGED <<actual, factor, reports, turns>>

(* The actual time over predicted / (the factor of now). *)
Ratio(c) == IF open[c].kind = "segment" THEN 10 * actual
            ELSE (10 * actual * factor["task"]) \div open[c].by

Reported(k, r) == IF Len(reports[k]) = 2 THEN <<reports[k][2], r>> ELSE Append(reports[k], r)

(* _recalc: to the nearest tenth, within limits, when the mean is not near 1. *)
Recalculated(old, h) ==
    LET mean == (h[1] + h[2]) \div 2
    IN  IF Len(h) < 2 \/ Distance(mean, 100) <= 5 THEN old
        ELSE Max({5, Min({30, (mean + 5) \div 10})})

(* calibrate_after_completion. *)
Complete(c) ==
    /\ open[c] # Free
    /\ LET k == open[c].kind  h == Reported(k, Ratio(c)) IN
         /\ reports' = [reports EXCEPT ![k] = h]
         /\ factor' = [factor EXCEPT ![k] = Recalculated(@, h)]
    /\ open' = [open EXCEPT ![c] = Free]
    /\ UNCHANGED <<actual, turns>>

ServerTurns ==
    /\ turns < MaxTurns
    /\ actual' \in Factors \ {actual}
    /\ turns' = turns + 1
    /\ UNCHANGED <<factor, reports, open>>

CalibrationNext ==
    \/ ServerTurns
    \/ \E c \in Streams : Dispatch(c) \/ Complete(c)

(* There is work of both kinds again and again, and calls end. *)
CalibrationFairness == \A c \in Streams : WF_calibrationVars(Dispatch(c) \/ Complete(c))

CalibrationSpec == CalibrationInit /\ [][CalibrationNext]_calibrationVars /\ CalibrationFairness

-----------------------------------------------------------------------------
(* Properties. *)

TaskCalls == {c \in Streams : open[c].kind = "task"}


=============================================================================
