-------------------------------- MODULE Intake --------------------------------
(***************************************************************************)
(* How many tasks of one user are taken in.  A request asks the limiter    *)
(* whether there is room for all its tasks, looks for their files, creates *)
(* them one by one, and counts each; the limiter's counts are in memory,   *)
(* and go down when a task is said to be over.                             *)
(***************************************************************************)
EXTENDS Integers, FiniteSets, FiniteSetsExt

CONSTANTS
    Batches,               \* requests that create tasks, each made once
    MaxItems,              \* the most tasks a request creates
    MaxRunning, MaxDaily,  \* rate_limit_max_concurrent_tasks, ..._max_daily_tasks
    MaxOutages             \* bound on restarts and midnights

ASSUME IntakeAssumption ==
    /\ IsFiniteSet(Batches) /\ Batches # {}
    /\ MaxItems \in Nat \ {0} /\ MaxRunning \in Nat /\ MaxDaily \in Nat /\ MaxOutages \in Nat

VARIABLES
    batch,      \* the requests: [pc, items, left]; left tasks are still to be created
    counted,    \* concurrent_tasks
    today,      \* daily_task_count
    live,       \* tasks in the table that are not over
    orphans,    \* canceled tasks that some coroutine still works on
    beside,     \* history: tasks of other requests that were let in, and not
                \* counted, when the last check found room
    forgotten,  \* history: counts taken away from tasks that go on
    outages

intakeVars == <<batch, counted, today, live, orphans, beside, forgotten, outages>>

IntakeInit ==
    /\ batch = [b \in Batches |-> [pc |-> "new", items |-> 0, left |-> 0]]
    /\ counted = 0 /\ today = 0 /\ live = 0 /\ orphans = 0
    /\ beside = 0 /\ forgotten = 0 /\ outages = 0

-----------------------------------------------------------------------------
(* create_tasks. *)

(* Tasks that were let in and are not counted yet; tasks of the requests that *)
(* were let in and are not answered yet.                                      *)
ToCome == {w \in Batches \X (1 .. MaxItems) : batch[w[1]].pc = "create" /\ w[2] <= batch[w[1]].left}
Asked  == {w \in Batches \X (1 .. MaxItems) : batch[w[1]].pc = "create" /\ w[2] <= batch[w[1]].items}

(* Mutant: room for one is room for all. *)
RoomForOne(n) == counted < MaxRunning /\ today < MaxDaily

(* check_task_limits. *)
RoomFor(n) == counted + n <= MaxRunning /\ today + n <= MaxDaily

CheckLimits(b, n) ==
    /\ batch[b].pc = "new" /\ RoomFor(n)
    /\ batch' = [batch EXCEPT ![b] = [pc |-> "create", items |-> n, left |-> n]]
    /\ beside' = Cardinality(ToCome)
    /\ UNCHANGED <<counted, today, live, orphans, forgotten, outages>>

Ends(b, pc) == batch' = [batch EXCEPT ![b].pc = pc]

(* No room, or a file that is missing. *)
Refuse(b) ==
    /\ \/ batch[b].pc = "new" /\ \E n \in 1 .. MaxItems : ~RoomFor(n)
       \/ batch[b].pc = "create" /\ batch[b].left = batch[b].items
    /\ Ends(b, "refused")
    /\ UNCHANGED <<counted, today, live, orphans, beside, forgotten, outages>>

(* Another batch of as many tasks, with one that is not over, may be of the *)
(* same files; the request may ask to look for it.                          *)
RefuseDuplicate(b) ==
    /\ batch[b].pc = "create" /\ batch[b].left = batch[b].items
    /\ live > 0 /\ \E d \in Batches : batch[d].pc = "created" /\ batch[d].items = batch[b].items
    /\ Ends(b, "refused")
    /\ UNCHANGED <<counted, today, live, orphans, beside, forgotten, outages>>

CreateTask(b) ==
    /\ batch[b].pc = "create" /\ batch[b].left > 0
    /\ batch' = [batch EXCEPT ![b].left = @ - 1]
    /\ counted' = counted + 1 /\ today' = today + 1
    /\ UNCHANGED <<live, orphans, beside, forgotten, outages>>

(* The session is committed when the request is answered; a batch that is *)
(* rolled back stays counted.                                             *)
CommitBatch(b) ==
    /\ batch[b].pc = "create" /\ batch[b].left = 0
    /\ \/ Ends(b, "created") /\ live' = live + batch[b].items
       \/ Ends(b, "lost") /\ UNCHANGED live
    /\ UNCHANGED <<counted, today, orphans, beside, forgotten, outages>>

-----------------------------------------------------------------------------
(* What happens to the tasks. *)

Release == counted' = Max({0, counted - 1})

TaskOver ==
    /\ live > 0 /\ live' = live - 1 /\ Release
    /\ UNCHANGED <<batch, today, orphans, beside, forgotten, outages>>

(* cancel_task, of a task that waits or of one that is being worked on. *)
CancelOne ==
    /\ live > 0 /\ live' = live - 1 /\ Release
    /\ orphans' \in {orphans, orphans + 1}
    /\ UNCHANGED <<batch, today, beside, forgotten, outages>>

(* Its result comes late: it is said to be over again, and the count of some *)
(* other task goes.                                                          *)
OrphanOver ==
    /\ orphans > 0 /\ orphans' = orphans - 1 /\ Release
    /\ forgotten' = forgotten + counted - counted'
    /\ UNCHANGED <<batch, today, live, beside, outages>>

(* delete_all_tasks and delete_task_group do not tell the limiter. *)
DeleteOne ==
    /\ live > 0 /\ live' = live - 1
    /\ UNCHANGED <<batch, counted, today, orphans, beside, forgotten, outages>>

Midnight ==
    /\ outages < MaxOutages /\ outages' = outages + 1
    /\ today' = 0
    /\ UNCHANGED <<batch, counted, live, orphans, beside, forgotten>>

RestartLimiter ==
    /\ outages < MaxOutages /\ outages' = outages + 1
    /\ counted' = 0 /\ today' = 0 /\ orphans' = 0
    /\ batch' = [b \in Batches |-> IF batch[b].pc = "create" THEN [batch[b] EXCEPT !.pc = "lost"] ELSE batch[b]]
    /\ forgotten' = forgotten + counted
    /\ UNCHANGED <<live, beside>>

IntakeNext ==
    \/ TaskOver \/ CancelOne \/ OrphanOver \/ DeleteOne \/ Midnight \/ RestartLimiter
    \/ \E b \in Batches : \/ Refuse(b) \/ RefuseDuplicate(b) \/ CreateTask(b) \/ CommitBatch(b)
                          \/ \E n \in 1 .. MaxItems : CheckLimits(b, n)

IntakeSpec == IntakeInit /\ [][IntakeNext]_intakeVars

-----------------------------------------------------------------------------
(* Properties. *)

(* Requests that find room between the check and the counts of others overrun *)
(* the limits by what those others were let in for, and by no more.  The tasks *)
(* that are really there overrun the limit beside that by the counts that were *)
(* taken from tasks that go on - by a late result of a canceled task, or a     *)
(* restart - and by no more, however tasks end, are canceled or deleted.       *)
IntakeBounded ==
    /\ counted + Cardinality(ToCome) <= MaxRunning + beside
    /\ today + Cardinality(ToCome) <= MaxDaily + beside
    /\ live + Cardinality(Asked) <= MaxRunning + beside + forgotten

=============================================================================
