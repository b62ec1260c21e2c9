------------------------------ MODULE MergeLock ------------------------------
(***************************************************************************)
(* Who merges the results of one long task.  Every segment that has        *)
(* finished asks the finalizer, and so does the retry tick after a merge   *)
(* that failed.  Callers take turns by a lock found in a table; whoever    *)
(* has tried to merge takes the lock out of the table, also while others   *)
(* still wait for it.                                                      *)
(*                                                                         *)
(* Module TaskRunner has the merge as two steps under a perfect lock.      *)
(***************************************************************************)
EXTENDS Integers, FiniteSets

CONSTANTS
    Segment,           \* the segments of the task
    Tick,              \* the retry tick
    MergeRetries       \* settings.max_retry_count

ASSUME MergeAssumption == Tick \notin Segment /\ MergeRetries \in Nat

Caller == Segment \cup {Tick}

VARIABLES
    taskStatus,        \* of the task
    table,         \* the lock in _finalize_locks, 0 for none
    locks,         \* the locks made so far
    caller,        \* the callers: [pc, lock]
    tried,         \* retries spent
    announced      \* successes committed, each with its callback

mergeVars == <<taskStatus, table, locks, caller, tried, announced>>

MergeInit ==
    /\ taskStatus = "TRANSCRIBING"
    /\ table = 0 /\ locks = 0 /\ tried = 0 /\ announced = 0
    /\ caller = [c \in Caller |-> [pc |-> IF c = Tick THEN "away" ELSE "working", lock |-> 0]]

CallerAt(c, pc)   == caller[c].pc = pc
CallerGoes(c, pc) == caller' = [caller EXCEPT ![c].pc = pc]

(* The lock is held from its acquisition to the end of the call. *)
Inside == {"check", "read", "merge", "reread", "commit", "fail"}

(* The segment's result is committed, and its coroutine calls. *)
SegmentDone(c) ==
    /\ CallerAt(c, "working") /\ CallerGoes(c, "call")
    /\ UNCHANGED <<taskStatus, table, locks, tried, announced>>

(* Mutant: each call makes a lock of its own. *)
OwnLock(c) ==
    /\ CallerAt(c, "call")
    /\ locks' = locks + 1 /\ table' = locks'
    /\ caller' = [caller EXCEPT ![c] = [pc |-> "wait", lock |-> locks']]
    /\ UNCHANGED <<taskStatus, tried, announced>>

(* _get_finalize_lock. *)
GetLock(c) ==
    /\ CallerAt(c, "call")
    /\ locks' = IF table = 0 THEN locks + 1 ELSE locks
    /\ table' = IF table = 0 THEN locks' ELSE table
    /\ caller' = [caller EXCEPT ![c] = [pc |-> "wait", lock |-> table']]
    /\ UNCHANGED <<taskStatus, tried, announced>>

Acquire(c) ==
    /\ CallerAt(c, "wait") /\ CallerGoes(c, "check")
    /\ \A d \in Caller : caller[d].lock = caller[c].lock => caller[d].pc \notin Inside
    /\ UNCHANGED <<taskStatus, table, locks, tried, announced>>

(* Every segment has succeeded, and the task is not over. *)
MayMerge ==
    /\ \A c \in Segment : ~CallerAt(c, "working")
    /\ taskStatus \notin {"SUCCEEDED", "CANCELED", "FAILED"}

(* A call that has nothing to merge leaves the lock in the table. *)
Check(c) ==
    /\ CallerAt(c, "check") /\ CallerGoes(c, IF MayMerge THEN "read" ELSE "done")
    /\ UNCHANGED <<taskStatus, table, locks, tried, announced>>

Leave(c) == CallerGoes(c, "done") /\ table' = 0

(* _merge_and_finalize reads the segments and looks at the task again. *)
ReadSegments(c) ==
    /\ CallerAt(c, "read")
    /\ IF taskStatus = "SUCCEEDED" THEN Leave(c) ELSE CallerGoes(c, "merge") /\ UNCHANGED table
    /\ UNCHANGED <<taskStatus, locks, tried, announced>>

(* The results are merged and saved; either may fail. *)
MergeAndSave(c) ==
    /\ CallerAt(c, "merge") /\ (CallerGoes(c, "reread") \/ CallerGoes(c, "fail"))
    /\ UNCHANGED <<taskStatus, table, locks, tried, announced>>

RereadTask(c) ==
    /\ CallerAt(c, "reread")
    /\ IF taskStatus = "TRANSCRIBING" THEN CallerGoes(c, "commit") /\ UNCHANGED table ELSE Leave(c)
    /\ UNCHANGED <<taskStatus, locks, tried, announced>>

CommitSuccess(c) ==
    /\ CallerAt(c, "commit") /\ Leave(c)
    /\ taskStatus' = "SUCCEEDED" /\ announced' = announced + 1
    /\ UNCHANGED <<locks, tried>>

(* The failure is stored; the database is taken to be there for it. *)
StoreFailure(c) ==
    /\ CallerAt(c, "fail") /\ Leave(c)
    /\ taskStatus' = IF taskStatus = "TRANSCRIBING" THEN "FAILED" ELSE taskStatus
    /\ UNCHANGED <<locks, tried, announced>>

(* _retry_failed_tasks: back to TRANSCRIBING, and the tick calls. *)
RetryMerge ==
    /\ taskStatus = "FAILED" /\ tried < MergeRetries /\ caller[Tick].pc \in {"away", "done"}
    /\ taskStatus' = "TRANSCRIBING" /\ tried' = tried + 1
    /\ CallerGoes(Tick, "call")
    /\ UNCHANGED <<table, locks, announced>>

CancelTask ==
    /\ taskStatus = "TRANSCRIBING" /\ taskStatus' = "CANCELED"
    /\ UNCHANGED <<table, locks, caller, tried, announced>>

MergeNext ==
    \/ RetryMerge \/ CancelTask
    \/ \E c \in Caller : \/ SegmentDone(c) \/ GetLock(c) \/ Acquire(c) \/ Check(c) \/ ReadSegments(c)
                         \/ MergeAndSave(c) \/ RereadTask(c) \/ CommitSuccess(c) \/ StoreFailure(c)

MergeSpec == MergeInit /\ [][MergeNext]_mergeVars

-----------------------------------------------------------------------------
(* Properties. *)

(* Callers never merge together, and success is announced once: "guarantee *)
(* the merge executes at most once even when multiple segments complete     *)
(* near-simultaneously", says the docstring of maybe_finalize.              *)
MergesAlone ==
    /\ Cardinality({c \in Caller : caller[c].pc \in Inside \ {"check"}}) <= 1
    /\ announced <= 1

(* So it is as long as no failed merge was tried again, whichever segments   *)
(* come together and whoever takes the lock out of the table while others    *)
(* wait for it, or the task is canceled.                                      *)
FirstMergeAlone == tried = 0 => MergesAlone

=============================================================================
