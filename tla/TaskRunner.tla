----------------------------- MODULE TaskRunner -----------------------------
(***************************************************************************)
(* The background task runner: how queued transcription tasks, and the     *)
(* segments of long ones, are put on servers, run, retried, merged,        *)
(* canceled, and recovered after a restart.                                *)
(*                                                                         *)
(* The database rows are task and seg.  One database transaction of the    *)
(* code is one action, except the dispatcher's: it reads the queue, then   *)
(* which tasks have segments to do, then the segments of each, awaits the  *)
(* circuit breakers and the scheduler, and only then writes, so that each  *)
(* of these is an action and snap holds what has been read so far.  The    *)
(* coroutines _execute_task and _execute_segment are the records of runs;  *)
(* pc names the transaction or call each will make next.                   *)
(***************************************************************************)
EXTENDS Integers, FiniteSets, FiniteSetsExt

CONSTANTS
    Tasks, Segs, Servers,
    None,              \* no server: the column is NULL
    Parent,            \* the task each segment belongs to
    Cap,               \* max_concurrency of each server
    MaxRetry,          \* settings.max_retry_count
    SegMaxRetry,       \* settings.segment_max_retry_count
    SegParallel,       \* settings.segment_max_parallel_per_task
    QueuedRetries,     \* retry_count a task may carry when preprocessing queues it
    Groups,            \* the scopes an emergency stop may name
    MaxRestarts,       \* bound on process restarts
    Lingering,         \* a restart may overlap with coroutines of the old process
    ApiDuringDispatch  \* API transactions may fall between the dispatcher's reads and its write

Items == Tasks \cup Segs

ASSUME SetsAssumption ==
    /\ IsFiniteSet(Tasks) /\ IsFiniteSet(Segs) /\ IsFiniteSet(Servers)
    /\ Tasks \cap Segs = {}
    /\ None \notin Servers
    /\ Parent \in [Segs -> Tasks]
    /\ Groups \subseteq SUBSET Tasks

ASSUME BoundsAssumption ==
    /\ Cap \in [Servers -> Nat \ {0}]
    /\ MaxRetry \in Nat /\ SegMaxRetry \in Nat /\ SegParallel \in Nat \ {0}
    /\ QueuedRetries \subseteq 0 .. MaxRetry
    /\ MaxRestarts \in Nat
    /\ Lingering \in BOOLEAN /\ ApiDuringDispatch \in BOOLEAN

VARIABLES
    task,        \* the tasks table
    seg,         \* the task_segments table
    inflight,    \* ids in BackgroundTaskRunner._inflight
    runs,        \* the live coroutines
    snap,        \* what the dispatcher has read and not yet acted on
    toFinalize,  \* tasks with a maybe_finalize call that has not checked yet
    awaited,     \* tasks whose maybe_finalize call the runner's loop waits for
    merging,     \* tasks whose finalizer passed the check and is merging
    notices,     \* callback_outbox records written for each task
    released,    \* rate_limiter.record_task_completed calls for each task
    restarts

db      == <<task, seg>>
finals  == <<toFinalize, awaited, merging>>
memory  == <<inflight, runs, snap, toFinalize, awaited, merging>>
effects == <<notices, released>>
vars    == <<task, seg, inflight, runs, snap, toFinalize, awaited, merging,
             notices, released, restarts>>

-----------------------------------------------------------------------------
(* Statuses and rows.  "GONE" is a deleted task, "NONE" a segment without a row. *)

ValidTransitions ==
    [PENDING       |-> {"PREPROCESSING", "CANCELED"},
     PREPROCESSING |-> {"QUEUED", "FAILED", "CANCELED"},
     QUEUED        |-> {"DISPATCHED", "CANCELED", "FAILED"},
     DISPATCHED    |-> {"TRANSCRIBING", "FAILED", "CANCELED"},
     TRANSCRIBING  |-> {"SUCCEEDED", "FAILED", "CANCELED"},
     SUCCEEDED     |-> {},
     FAILED        |-> {"QUEUED", "TRANSCRIBING"},
     CANCELED      |-> {},
     GONE          |-> {}]

TaskStatus    == DOMAIN ValidTransitions
SegmentStatus == {"NONE", "PENDING", "DISPATCHED", "TRANSCRIBING", "SUCCEEDED", "FAILED"}
Active        == {"DISPATCHED", "TRANSCRIBING"}
Finished      == {"CANCELED", "FAILED", "SUCCEEDED"}
ErrorCode     == {"none", "TRANSCRIBE_ERROR", "SEGMENT_RETRY_EXHAUSTED", "MERGE_FAILED"}

CanTransition(from, to) == to \in ValidTransitions[from]

Task == [status: TaskStatus, server: Servers \cup {None}, retry: 0 .. MaxRetry,
         gen: Nat, err: ErrorCode, started: BOOLEAN]
Segment == [status: SegmentStatus, server: Servers \cup {None},
            retry: 0 .. SegMaxRetry, gen: Nat]
RunPC == {"load", "parent", "begin", "recheck", "asr", "mark", "end"}
Run == [id: Items, pc: RunPC, gen: Nat, server: Servers \cup {None}, mine: BOOLEAN]

NoTask    == [status |-> "GONE", server |-> None, retry |-> 0, gen |-> 0,
              err |-> "none", started |-> FALSE]
NoSegment == [status |-> "NONE", server |-> None, retry |-> 0, gen |-> 0]
Idle      == [stage |-> "rest", busy |-> {}, items |-> {}, gen |-> [i \in Items |-> 0],
              parents |-> {}, avail |-> {}, free |-> [s \in Servers |-> 0]]

SegsOf(t)        == {x \in Segs : Parent[x] = t}
SegsIn(t, S)     == {x \in SegsOf(t) : seg[x].status \in S}
Rows(t)          == {x \in SegsOf(t) : seg[x].status # "NONE"}
SomeSucceeded(t) == \E x \in Rows(t) : seg[x].status = "SUCCEEDED"      \* mutant
AllSucceeded(t)  == Rows(t) # {} /\ \A x \in Rows(t) : seg[x].status = "SUCCEEDED"
Exists(i)        == IF i \in Tasks THEN task[i].status # "GONE" ELSE seg[i].status # "NONE"
Generation(i)    == IF i \in Tasks THEN task[i].gen ELSE seg[i].gen

(* Counters that no guard reads count up to two: enough to tell once from twice. *)
Twice(n) == IF n < 2 THEN n + 1 ELSE 2

(* Mutant: only work that has started takes a slot. *)
StartedWork(tk, sg, s) ==
    {t \in Tasks : /\ tk[t].status = "TRANSCRIBING"
                   /\ tk[t].server = s
                   /\ \A x \in SegsOf(t) : sg[x].status \in {"NONE", "FAILED"}}
    \cup {x \in Segs : sg[x].status = "TRANSCRIBING" /\ sg[x].server = s}

(* The work the code counts on server s, in the tables tk and sg. *)
ActiveWork(tk, sg, s) ==
    {t \in Tasks : /\ tk[t].status \in Active
                   /\ tk[t].server = s
                   /\ \A x \in SegsOf(t) : sg[x].status \in {"NONE", "FAILED"}}
    \cup {x \in Segs : sg[x].status \in Active /\ sg[x].server = s}

Init ==
    /\ \E retry \in [Tasks -> QueuedRetries] :
         task = [t \in Tasks |-> [NoTask EXCEPT !.status = "QUEUED", !.retry = retry[t]]]
    /\ seg = [x \in Segs |-> [NoSegment EXCEPT !.status = "PENDING"]]
    /\ inflight = {} /\ runs = {} /\ snap = Idle
    /\ toFinalize = {} /\ awaited = {} /\ merging = {}
    /\ notices = [t \in Tasks |-> [succeeded |-> 0, failed |-> 0]]
    /\ released = [t \in Tasks |-> 0]
    /\ restarts = 0

-----------------------------------------------------------------------------
(* The dispatcher.  Which servers answer and are enabled, and which work   *)
(* item the plan puts on which of them, is left open here.                 *)

Room(t, avail) == LET most == Min({Cardinality(avail), SegParallel})
                      busy == Cardinality(SegsIn(t, Active))
                  IN  IF busy < most THEN most - busy ELSE 0

HasPending(t) == SegsIn(t, {"PENDING"}) # {}
FreeSlots(s)  == LET free == Cap[s] - Cardinality(ActiveWork(task, seg, s))
                 IN  IF free > 0 THEN free ELSE 0

(* Mutant: without the check of _inflight. *)
QueuedAll == {t \in Tasks : task[t].status = "QUEUED"}
Queued    == {t \in Tasks : task[t].status = "QUEUED" /\ t \notin inflight}

(* What is read is added, with its generation; busy is of use only while reading. *)
ReadMore(items, parents) ==
    LET next == [snap EXCEPT !.stage = "work", !.items = items, !.parents = parents,
                             !.gen = [i \in Items |-> IF i \in items \ snap.items THEN Generation(i)
                                                      ELSE IF i \in items THEN snap.gen[i] ELSE 0]]
    IN  IF parents # {} THEN next
        ELSE IF items # {} THEN [next EXCEPT !.busy = {}]
        ELSE Idle

(* A cycle with nothing to do at its beginning finds at most a segment put back    *)
(* since, as the cycle that begins after it does.                                 *)
ReadQueue ==
    /\ snap.stage = "rest" /\ awaited = {}
    /\ Queued # {} \/ \E t \in Tasks : HasPending(t) /\ task[t].status \in Active
    /\ snap' = [Idle EXCEPT !.stage = "queue", !.busy = inflight, !.items = Queued,
                            !.gen = [i \in Items |-> IF i \in Queued THEN Generation(i) ELSE 0]]
    /\ UNCHANGED <<db, inflight, runs, finals, effects, restarts>>

(* Which tasks have pending segments; those of the queue that have none, or have  *)
(* none any more, are taken for whole files.  Then the slots in use, the breakers. *)
AllQueuedWork == snap.items                            \* mutant: segments are not asked for
WholeFileWork == {t \in snap.items : ~HasPending(t)}
ParentsToRead == {t \in Tasks \ snap.busy : HasPending(t) /\ (t \in snap.items \/ task[t].status \in Active)}

ReadParents ==
    /\ snap.stage = "queue"
    /\ IF WholeFileWork \cup ParentsToRead = {} \/ \A s \in Servers : FreeSlots(s) = 0
       THEN snap' = Idle
       ELSE \E avail \in SUBSET Servers :
              /\ \E s \in avail : FreeSlots(s) > 0
              /\ snap' = [ReadMore(WholeFileWork, ParentsToRead) EXCEPT
                            !.avail = avail,
                            !.free = [s \in Servers |-> IF s \in avail THEN FreeSlots(s) ELSE 0]]
    /\ UNCHANGED <<db, inflight, runs, finals, effects, restarts>>

(* Pending segments of task t, as many as it has room for beside its active ones. *)
ReadSegments(t) ==
    /\ t \in snap.parents
    /\ \E picked \in SUBSET SegsIn(t, {"PENDING"}) :
         /\ Cardinality(picked) = Min({Room(t, snap.avail), Cardinality(SegsIn(t, {"PENDING"}))})
         /\ snap' = ReadMore(snap.items \cup (picked \ snap.busy), snap.parents \ {t})
    /\ UNCHANGED <<db, inflight, runs, finals, effects, restarts>>

DispatchRead == ReadQueue \/ ReadParents \/ \E t \in Tasks : ReadSegments(t)

Planned == snap.stage = "work" /\ snap.parents = {}

NewRun(i) == [id |-> i, pc |-> "load", gen |-> 0, server |-> None, mine |-> TRUE]

(* The rows are overwritten from the snapshot; only a parent's status is read again. *)
Assign(chosen, plan) ==
    /\ seg' = [x \in Segs |-> IF x \in chosen
                 THEN [seg[x] EXCEPT !.status = "DISPATCHED", !.server = plan[x],
                                     !.gen = snap.gen[x] + 1]
                 ELSE seg[x]]
    /\ task' = [t \in Tasks |->
                 IF t \in chosen
                 THEN [task[t] EXCEPT !.status = "DISPATCHED", !.server = plan[t],
                                      !.gen = snap.gen[t] + 1]
                 ELSE IF task[t].status = "QUEUED" /\ chosen \cap SegsOf(t) # {}
                 THEN [task[t] EXCEPT !.status = "DISPATCHED"]
                 ELSE task[t]]

DispatchCommit ==
    /\ Planned
    /\ \E chosen \in (SUBSET snap.items) \ {{}} : \E plan \in [chosen -> snap.avail] :
         /\ \A s \in snap.avail : Cardinality({i \in chosen : plan[i] = s}) <= snap.free[s]
         /\ \A i \in chosen : Exists(i)
         /\ Assign(chosen, plan)
         /\ \A s \in snap.avail : Cardinality(ActiveWork(task', seg', s)) <= Cap[s]
         /\ inflight' = inflight \cup chosen
         /\ runs' = runs \cup {NewRun(i) : i \in chosen}
    /\ snap' = Idle
    /\ UNCHANGED <<finals, effects, restarts>>

(* A breaker refuses, the slot check rolls back, or a row has been deleted. *)
DispatchGiveUp ==
    /\ Planned
    /\ snap' = Idle
    /\ UNCHANGED <<db, inflight, runs, finals, effects, restarts>>

-----------------------------------------------------------------------------
(* Steps of a coroutine r. *)

Become(r, new) == runs' = (runs \ {r}) \cup {new}
Go(r, pc)      == Become(r, [r EXCEPT !.pc = pc])
RunOf(r, items, pc) == r.id \in items /\ r.pc = pc

LoadTask(r) ==
    /\ RunOf(r, Tasks, "load")
    /\ LET t == task[r.id] IN
       IF /\ t.status # "GONE" /\ t.server # None
          /\ CanTransition(t.status, "TRANSCRIBING")
       THEN Become(r, [r EXCEPT !.pc = "begin", !.gen = t.gen, !.server = t.server])
       ELSE Go(r, "end")
    /\ UNCHANGED <<db, inflight, snap, finals, effects, restarts>>

(* A task that can no longer start is transcribed all the same. *)
BeginTask(r) ==
    /\ RunOf(r, Tasks, "begin")
    /\ task' = IF CanTransition(task[r.id].status, "TRANSCRIBING")
               THEN [task EXCEPT ![r.id].status = "TRANSCRIBING", ![r.id].started = TRUE]
               ELSE task
    /\ Go(r, IF Exists(r.id) THEN "asr" ELSE "end")
    /\ UNCHANGED <<seg, inflight, snap, finals, effects, restarts>>

LoadSegment(r) ==
    /\ RunOf(r, Segs, "load")
    /\ LET x == seg[r.id] IN
       IF /\ x.status # "NONE" /\ x.server # None
          /\ task[Parent[r.id]].status # "GONE"
       THEN Become(r, [r EXCEPT !.pc = "parent", !.gen = x.gen, !.server = x.server])
       ELSE Go(r, "end")
    /\ UNCHANGED <<db, inflight, snap, finals, effects, restarts>>

(* Mutant: the segment is not closed when its parent is. *)
CheckParentOnly(r) ==
    /\ RunOf(r, Segs, "parent")
    /\ Go(r, IF task[Parent[r.id]].status \in {"CANCELED", "FAILED"} THEN "end" ELSE "begin")
    /\ UNCHANGED <<db, inflight, snap, finals, effects, restarts>>

CheckParent(r) ==
    /\ RunOf(r, Segs, "parent")
    /\ IF task[Parent[r.id]].status \in {"CANCELED", "FAILED"}
       THEN /\ seg' = IF seg[r.id].status \in {"DISPATCHED", "PENDING"}
                      THEN [seg EXCEPT ![r.id].status = "FAILED"] ELSE seg
            /\ Go(r, "end")
       ELSE Go(r, "begin") /\ UNCHANGED seg
    /\ UNCHANGED <<task, inflight, snap, finals, effects, restarts>>

(* The segment's status is overwritten whatever it is by now. *)
BeginSegment(r) ==
    /\ RunOf(r, Segs, "begin")
    /\ LET t == Parent[r.id] IN
       IF Exists(r.id)
       THEN /\ seg' = [seg EXCEPT ![r.id].status = "TRANSCRIBING"]
            /\ task' = IF task[t].status \in {"DISPATCHED", "QUEUED"}
                       THEN [task EXCEPT ![t].status = "TRANSCRIBING", ![t].started = TRUE]
                       ELSE task
            /\ Go(r, "recheck")
       ELSE Go(r, "end") /\ UNCHANGED db
    /\ UNCHANGED <<inflight, snap, finals, effects, restarts>>

(* Mutant: the second check of the parent is left out. *)
SkipRecheck(r) ==
    /\ RunOf(r, Segs, "recheck")
    /\ Go(r, "asr")
    /\ UNCHANGED <<db, inflight, snap, finals, effects, restarts>>

RecheckParent(r) ==
    /\ RunOf(r, Segs, "recheck")
    /\ IF task[Parent[r.id]].status \in {"CANCELED", "FAILED"}
       THEN /\ seg' = IF seg[r.id].status \notin {"NONE", "SUCCEEDED", "FAILED"}
                      THEN [seg EXCEPT ![r.id].status = "FAILED"] ELSE seg
            /\ Go(r, "end")
       ELSE Go(r, "asr") /\ UNCHANGED seg
    /\ UNCHANGED <<task, inflight, snap, finals, effects, restarts>>

(* Mutant: a run is taken for stale when its id is not in _inflight. *)
CheckInflight(r) ==
    /\ RunOf(r, Items, "asr")
    /\ Go(r, IF Exists(r.id) /\ r.id \in inflight THEN "mark" ELSE "end")
    /\ UNCHANGED <<db, inflight, snap, finals, effects, restarts>>

(* The server has answered with a text: is the run still the row's latest?  Everything *)
(* between the call and this read is local to the coroutine. *)
CheckStaleRun(r) ==
    /\ RunOf(r, Items, "asr")
    /\ Go(r, IF Exists(r.id) /\ Generation(r.id) = r.gen THEN "mark" ELSE "end")
    /\ UNCHANGED <<db, inflight, snap, finals, effects, restarts>>

Notify(t, kind) == notices' = [notices EXCEPT ![t][kind] = Twice(@)]
Release(t)      == released' = [released EXCEPT ![t] = Twice(@)]

(* Mutant: the success is announced whether or not it is stored. *)
AnnounceSuccess(r) ==
    /\ RunOf(r, Tasks, "mark")
    /\ task' = IF task[r.id].status \in {"TRANSCRIBING", "QUEUED", "DISPATCHED"}
               THEN [task EXCEPT ![r.id].status = "SUCCEEDED", ![r.id].err = "none"]
               ELSE task
    /\ Notify(r.id, "succeeded") /\ Release(r.id)
    /\ Go(r, "end")
    /\ UNCHANGED <<seg, inflight, snap, finals, restarts>>

(* A success may come late, after the task was put back in the queue. *)
MarkTaskSucceeded(r) ==
    /\ RunOf(r, Tasks, "mark")
    /\ LET t == r.id IN
       CASE task[t].status = "GONE" -> UNCHANGED <<task, effects>>
         [] task[t].status = "TRANSCRIBING" ->
              /\ task' = [task EXCEPT ![t].status = "SUCCEEDED", ![t].err = "none"]
              /\ Notify(t, "succeeded") /\ Release(t)
         [] task[t].status \in {"QUEUED", "DISPATCHED"} ->
              /\ task' = [task EXCEPT ![t].status = "SUCCEEDED", ![t].err = "none",
                                      ![t].server = None]
              /\ Notify(t, "succeeded") /\ Release(t)
         [] OTHER ->
              /\ task' = [task EXCEPT ![t].err = "none"]
              /\ Release(t) /\ UNCHANGED notices
    /\ Go(r, "end")
    /\ UNCHANGED <<seg, inflight, snap, finals, restarts>>

AttemptsOver(t)  == task[t].retry > MaxRetry        \* mutant: off by one
AnyAttempt(t)    == TRUE                            \* mutant: every failure is the last
NoAttemptLeft(t) == task[t].retry >= MaxRetry

(* The server answered with an error, not in time, or with no text for a long audio; *)
(* or its results could not be saved.  Nothing asks whether the run is stale.        *)
MarkTaskFailed(r) ==
    /\ r.id \in Tasks /\ r.pc \in {"asr", "mark"}
    /\ LET t     == r.id
           fails == CanTransition(task[t].status, "FAILED")
       IN  IF task[t].status = "GONE"
           THEN UNCHANGED <<task, effects>>
           ELSE /\ task' = [task EXCEPT ![t].err = "TRANSCRIBE_ERROR",
                                        ![t].status = IF fails THEN "FAILED" ELSE @]
                /\ IF NoAttemptLeft(t) /\ fails THEN Notify(t, "failed") ELSE UNCHANGED notices
                /\ IF NoAttemptLeft(t) THEN Release(t) ELSE UNCHANGED released
    /\ Go(r, "end")
    /\ UNCHANGED <<seg, inflight, snap, finals, restarts>>

(* Marks of a segment that is no longer active, or whose parent is finished or gone, are ignored. *)
Accepts(x) == seg[x].status \in Active /\ task[Parent[x]].status \notin Finished \cup {"GONE"}

MarkSegmentSucceeded(r) ==
    /\ RunOf(r, Segs, "mark")
    /\ IF Accepts(r.id)
       THEN /\ seg' = [seg EXCEPT ![r.id].status = "SUCCEEDED"]
            /\ toFinalize' = toFinalize \cup {Parent[r.id]}
       ELSE UNCHANGED <<seg, toFinalize>>
    /\ Go(r, "end")
    /\ UNCHANGED <<task, inflight, snap, awaited, merging, effects, restarts>>

RetriesUsed(x)  == seg[x].retry > SegMaxRetry       \* mutant: off by one
RetriesSpent(x) == seg[x].retry >= SegMaxRetry

RetrySegment(x) ==
    /\ seg' = [seg EXCEPT ![x].status = "PENDING", ![x].server = None, ![x].retry = @ + 1]
    /\ UNCHANGED <<task, effects>>

(* The parent fails with its last segment; the other open segments with it. *)
ExhaustSegment(x) ==
    LET t == Parent[x] IN
    /\ task' = [task EXCEPT ![t].status = "FAILED", ![t].err = "SEGMENT_RETRY_EXHAUSTED"]
    /\ seg' = [y \in Segs |->
                IF /\ y \in SegsOf(t) \ {x}
                   /\ seg[y].status \notin {"NONE", "SUCCEEDED", "FAILED"}
                THEN [seg[y] EXCEPT !.status = "FAILED"] ELSE seg[y]]
    /\ IF NoAttemptLeft(t)
       THEN Notify(t, "failed") /\ Release(t)
       ELSE UNCHANGED effects

MarkSegmentFailed(r) ==
    /\ RunOf(r, Segs, "asr")
    /\ IF ~Accepts(r.id) THEN UNCHANGED <<db, effects>>
       ELSE IF RetriesSpent(r.id) THEN ExhaustSegment(r.id)
       ELSE RetrySegment(r.id)
    /\ Go(r, "end")
    /\ UNCHANGED <<inflight, snap, finals, restarts>>

(* Mutant: the id stays in _inflight. *)
LeaveRun(r) ==
    /\ r.pc = "end"
    /\ runs' = runs \ {r}
    /\ UNCHANGED <<db, inflight, snap, finals, effects, restarts>>

(* The finally clause: only now may the item be dispatched again. *)
EndRun(r) ==
    /\ r.pc = "end"
    /\ runs' = runs \ {r}
    /\ inflight' = IF r.mine THEN inflight \ {r.id} ELSE inflight
    /\ UNCHANGED <<db, snap, finals, effects, restarts>>

RunStep ==
    \E r \in runs :
        \/ LoadTask(r) \/ BeginTask(r) \/ LoadSegment(r) \/ CheckParent(r)
        \/ BeginSegment(r) \/ RecheckParent(r) \/ CheckStaleRun(r)
        \/ MarkTaskSucceeded(r) \/ MarkTaskFailed(r)
        \/ MarkSegmentSucceeded(r) \/ MarkSegmentFailed(r) \/ EndRun(r)

-----------------------------------------------------------------------------
(* The finalizer: one call at a time for a task, the check made under its lock. *)

StartMerge(t) ==
    /\ t \in toFinalize \ merging
    /\ toFinalize' = toFinalize \ {t}
    /\ merging' = IF AllSucceeded(t) /\ task[t].status \notin Finished \cup {"GONE"}
                  THEN merging \cup {t} ELSE merging
    /\ awaited' = awaited \ ({t} \ merging')
    /\ UNCHANGED <<db, inflight, runs, snap, effects, restarts>>

(* Mutant: the parent's status is not looked at again after the merge. *)
MergeAnyway(t) ==
    /\ t \in merging
    /\ merging' = merging \ {t} /\ awaited' = awaited \ {t}
    /\ task' = [task EXCEPT ![t].status = "SUCCEEDED", ![t].err = "none"]
    /\ Notify(t, "succeeded") /\ Release(t)
    /\ UNCHANGED <<seg, inflight, runs, snap, toFinalize, restarts>>

MergeSucceeds(t) ==
    /\ t \in merging
    /\ merging' = merging \ {t} /\ awaited' = awaited \ {t}
    /\ IF CanTransition(task[t].status, "SUCCEEDED")
       THEN /\ task' = [task EXCEPT ![t].status = "SUCCEEDED", ![t].err = "none"]
            /\ Notify(t, "succeeded") /\ Release(t)
       ELSE UNCHANGED <<task, effects>>
    /\ UNCHANGED <<seg, inflight, runs, snap, toFinalize, restarts>>

MergeFails(t) ==
    /\ t \in merging
    /\ merging' = merging \ {t} /\ awaited' = awaited \ {t}
    /\ task' = IF CanTransition(task[t].status, "FAILED")
               THEN [task EXCEPT ![t].status = "FAILED", ![t].err = "MERGE_FAILED"]
               ELSE task
    /\ UNCHANGED <<seg, inflight, runs, snap, toFinalize, effects, restarts>>

FinalizeStep == \E t \in Tasks : StartMerge(t) \/ MergeSucceeds(t) \/ MergeFails(t)

-----------------------------------------------------------------------------
(* The retry tick of the runner's loop, which never overlaps a dispatch. *)

Retryable(t)     == task[t].status = "FAILED" /\ task[t].retry < MaxRetry
RetriesMerge(t)  == Retryable(t) /\ Rows(t) # {} /\ task[t].err = "MERGE_FAILED"
FallsBack(t)     == Retryable(t) /\ Rows(t) # {} /\ task[t].err = "SEGMENT_RETRY_EXHAUSTED"
Requeues(t)      == Retryable(t) /\ Rows(t) = {}

RetryFailedTasks ==
    /\ snap.stage = "rest" /\ awaited = {}
    /\ \E t \in Tasks : RetriesMerge(t) \/ FallsBack(t) \/ Requeues(t)
    /\ task' = [t \in Tasks |->
                 IF RetriesMerge(t)
                 THEN [task[t] EXCEPT !.status = "TRANSCRIBING", !.retry = @ + 1, !.err = "none"]
                 ELSE IF FallsBack(t) \/ Requeues(t)
                 THEN [task[t] EXCEPT !.status = "QUEUED", !.retry = @ + 1, !.err = "none",
                                      !.server = None, !.started = FALSE]
                 ELSE task[t]]
    /\ seg' = [x \in Segs |-> IF FallsBack(Parent[x]) THEN NoSegment ELSE seg[x]]
    /\ awaited' = {t \in Tasks : RetriesMerge(t)}
    /\ toFinalize' = toFinalize \cup awaited'
    /\ UNCHANGED <<inflight, runs, snap, merging, effects, restarts>>

-----------------------------------------------------------------------------
(* The API's writers. *)

ApiMayWrite == ApiDuringDispatch \/ snap.stage = "rest"

(* Open segments of the tasks in S lose their server and become FAILED. *)
ReleaseSegments(S) ==
    seg' = [x \in Segs |-> IF Parent[x] \in S /\ seg[x].status \in Active \cup {"PENDING"}
                           THEN [seg[x] EXCEPT !.status = "FAILED", !.server = None,
                                               !.gen = @ + 1]
                           ELSE seg[x]]

CancelTask(t) ==
    /\ ApiMayWrite
    /\ CanTransition(task[t].status, "CANCELED")
    /\ ReleaseSegments({t})
    /\ task' = [task EXCEPT ![t].status = "CANCELED", ![t].gen = @ + 1]
    /\ Release(t)
    /\ UNCHANGED <<memory, notices, restarts>>

EmergencyStop(scope) ==
    LET stopped == {t \in scope : task[t].status \in {"QUEUED"} \cup Active} IN
    /\ ApiMayWrite
    /\ stopped # {} \/ \E t \in scope : SegsIn(t, Active \cup {"PENDING"}) # {}
    /\ ReleaseSegments(scope)
    /\ task' = [t \in Tasks |-> IF t \in stopped
                  THEN [task[t] EXCEPT !.status = "CANCELED", !.gen = @ + 1, !.server = None]
                  ELSE task[t]]
    /\ UNCHANGED <<memory, effects, restarts>>

(* Bulk delete, of one status or of every task that is not on a server. *)
DeleteTasks(statuses) ==
    LET deleted == {t \in Tasks : task[t].status \in statuses} IN
    /\ ApiMayWrite
    /\ deleted # {}
    /\ task' = [t \in Tasks |-> IF t \in deleted THEN NoTask ELSE task[t]]
    /\ seg' = [x \in Segs |-> IF Parent[x] \in deleted THEN NoSegment ELSE seg[x]]
    /\ UNCHANGED <<memory, effects, restarts>>

Deletable == {"QUEUED", "SUCCEEDED", "FAILED", "CANCELED"}

ApiStep ==
    \/ \E t \in Tasks : CancelTask(t)
    \/ \E scope \in Groups : EmergencyStop(scope)
    \/ \E statuses \in {{st} : st \in Deletable} \cup {Deletable} : DeleteTasks(statuses)

-----------------------------------------------------------------------------
(* A crash, and the start-up that follows it: main.py resets the tasks that  *)
(* never started or started long ago (old), the runner puts active segments  *)
(* back and calls the finalizer for parents whose segments all succeeded.    *)
(* released counts the calls made to the rate limiter, whose own counters    *)
(* are lost with the process.                                                *)

Reset(t, old) == task[t].status \in Active /\ (t \in old \/ ~task[t].started)

ResetTasks(old) ==
    task' = [t \in Tasks |->
              IF Reset(t, old)
              THEN [task[t] EXCEPT !.status = "QUEUED", !.server = None, !.started = FALSE]
              ELSE task[t]]

PutBack(S) ==
    seg' = [x \in Segs |-> IF seg[x].status \in S
                           THEN [seg[x] EXCEPT !.status = "PENDING", !.server = None]
                           ELSE seg[x]]

(* Mutants: finished segments are put back too; those that run are left. *)
RecoverEverySegment == PutBack(Active \cup {"SUCCEEDED"})
RecoverDispatched   == PutBack({"DISPATCHED"})
RecoverSegments     == PutBack(Active)

Restart ==
    /\ restarts < MaxRestarts
    /\ restarts' = restarts + 1
    /\ \E old \in SUBSET {t \in Tasks : task[t].started} : ResetTasks(old)
    /\ RecoverSegments
    /\ \E kept \in IF Lingering THEN SUBSET runs ELSE {{}} :
         runs' = {[r EXCEPT !.mine = FALSE] : r \in kept}
    /\ inflight' = {} /\ snap' = Idle /\ merging' = {}
    /\ toFinalize' = {t \in Tasks : AllSucceeded(t)
                                    /\ task[t].status \notin {"SUCCEEDED", "CANCELED", "GONE"}}
    /\ awaited' = toFinalize'
    /\ UNCHANGED effects

-----------------------------------------------------------------------------
Next ==
    \/ DispatchRead \/ DispatchCommit \/ DispatchGiveUp
    \/ RunStep \/ FinalizeStep \/ RetryFailedTasks
    \/ ApiStep \/ Restart

Spec == Init /\ [][Next]_vars

(* The event loop serves every coroutine and the runner's loop comes round again;   *)
(* a dispatch that is possible again and again is not given up every time.          *)
Fairness ==
    /\ WF_vars(RunStep) /\ WF_vars(FinalizeStep) /\ WF_vars(RetryFailedTasks)
    /\ WF_vars(DispatchRead) /\ WF_vars(DispatchGiveUp) /\ SF_vars(DispatchCommit)

FairSpec == Spec /\ Fairness
-----------------------------------------------------------------------------
(* Properties. *)

(* Every variable has the shape of the row, set or call it stands for; a segment *)
(* is retried, and a task requeued, no more often than its settings allow.       *)
TypeOK ==
    /\ task \in [Tasks -> Task]
    /\ seg \in [Segs -> Segment]
    /\ inflight \subseteq Items
    /\ runs \subseteq Run
    /\ snap \in [stage: {"rest", "queue", "work"}, busy: SUBSET Items, items: SUBSET Items,
                gen: [Items -> Nat], parents: SUBSET Tasks,
                avail: SUBSET Servers, free: [Servers -> Nat]]
    /\ toFinalize \subseteq Tasks /\ awaited \subseteq Tasks /\ merging \subseteq Tasks
    /\ notices \in [Tasks -> [succeeded: 0 .. 2, failed: 0 .. 2]]
    /\ released \in [Tasks -> 0 .. 2]
    /\ restarts \in 0 .. MaxRestarts

(* Nothing more will happen to the task by itself. *)
Settled(t) == \/ task[t].status \in {"SUCCEEDED", "CANCELED", "GONE"}
              \/ task[t].status = "FAILED" /\ task[t].retry >= MaxRetry

Open == Active \cup {"PENDING"}

(* A task or segment is worked on by at most one coroutine of this process, *)
(* whatever retries, cancels and stale dispatches happen: _inflight is      *)
(* filled after the commit and emptied in the coroutine's finally.          *)
OneRunPerItem ==
    \A r \in runs : r.mine =>
        /\ r.id \in inflight
        /\ \A q \in runs : q.mine /\ q.id = r.id => q = r

(* The run is the one its row now speaks of. *)
Current(r) == LET row == IF r.id \in Tasks THEN task[r.id] ELSE seg[r.id]
              IN  row.status \in Active /\ row.server = r.server /\ row.gen = r.gen

(* The calls to a server that speak for an active row never exceed its         *)
(* max_concurrency, although slots are counted before, and taken after, other  *)
(* coroutines and API calls have changed the rows.  (A segment that its task's *)
(* failure has closed may be TRANSCRIBING again for a moment, but makes no call.) *)
SlotsRespected ==
    \A s \in Servers : Cardinality({r \in runs : r.server = s /\ r.pc = "asr" /\ Current(r)}) <= Cap[s]

(* A slot that is counted is in use: an active row has a coroutine.  Only the *)
(* segment that exhausted its retries waits for its task's retry to drop it.  *)
SlotsUsed ==
    \A s \in Servers : \A i \in ActiveWork(task, seg, s) :
        \/ \E r \in runs : r.id = i
        \/ i \in Segs /\ Retryable(Parent[i])

(* CANCELED has no successor in VALID_TRANSITIONS: a canceled task is never *)
(* brought back, only deleted.                                              *)
CanceledStaysCanceled ==
    [][\A t \in Tasks : task[t].status = "CANCELED" => task'[t].status \in {"CANCELED", "GONE"}]_vars

(* The owner is told of a success once, by the commit that makes the task  *)
(* SUCCEEDED, and is never told of one that is then taken back: by a late  *)
(* result, a second run, a second finalizer call or a cancel.              *)
SuccessNotifiedOnce ==
    \A t \in Tasks : /\ notices[t].succeeded <= 1
                     /\ task[t].status = "SUCCEEDED" => notices[t].succeeded = 1
                     /\ notices[t].succeeded = 1 => task[t].status \in {"SUCCEEDED", "GONE"}

(* A failure is announced once, and only when no retry can follow; every last *)
(* failure of a transcription is announced (a failed merge is not).           *)
FailureNotifiedWhenFinal ==
    \A t \in Tasks :
        /\ notices[t].failed <= 1
        /\ notices[t].failed = 1 => task[t].status \in {"FAILED", "GONE"} /\ Settled(t)
        /\ task[t].status = "FAILED" /\ Settled(t) /\ task[t].err # "MERGE_FAILED"
              => notices[t].failed = 1

(* After a cancel a segment is open only while a coroutine that has not asked  *)
(* the server yet is about to close it: one dispatched from a stale snapshot,  *)
(* or one that had passed the first check of its parent.                       *)
CancelFreesSegments ==
    \A x \in Segs : seg[x].status \in Open /\ task[Parent[x]].status = "CANCELED" =>
        \E r \in runs : r.id = x /\ r.pc \in {"load", "parent", "begin", "recheck"}

(* No segment of a settled task stays open once its coroutine is over: it would *)
(* hold a slot for ever.                                                        *)
NoZombieSegments ==
    \A x \in Segs : seg[x].status \in Open /\ Settled(Parent[x]) => \E r \in runs : r.id = x

(* A segmented task succeeds only with every one of its segments, however *)
(* segments are retried, failed with their parent, or reset.              *)
SuccessIsComplete ==
    \A t \in Tasks : task[t].status = "SUCCEEDED" => \A x \in Rows(t) : seg[x].status = "SUCCEEDED"

(* A task that was cut into segments is never transcribed as a whole file *)
(* while it has them: the segments are deleted first.                     *)
WholeFileOnlyWithoutSegments ==
    \A r \in runs : r.id \in Tasks /\ r.pc # "end" => Rows(r.id) = {}

(* A task is worked on as a whole file or by segments, never both at once:  *)
(* the one that a cancel between the dispatcher's reads turns into a whole  *)
(* file has only segments that the cancel has failed, and none is at work.  *)
WholeFileOrSegments ==
    \A r \in runs : r.id \in Tasks /\ r.pc # "end" =>
        \A x \in Rows(r.id) :
            /\ seg[x].status = "FAILED"
            /\ ~ \E q \in runs : q.id = x /\ q.pc # "end"

(* A success is a whole one: a segmented task has succeeded with every one of *)
(* its segments or, as a whole file, with none of them, never with some.      *)
SuccessIsWhole ==
    \A t \in Tasks : task[t].status = "SUCCEEDED" =>
        \/ \A x \in Rows(t) : seg[x].status = "SUCCEEDED"
        \/ \A x \in Rows(t) : seg[x].status = "FAILED"

(* A task's concurrency slot is given back only when nothing more will happen *)
(* to the task: retries keep it.                                              *)
SlotHeldUntilSettled == \A t \in Tasks : released[t] > 0 => Settled(t)

(* Recovery, retries and late answers never undo the transcription of a segment; *)
(* it goes only with its task's other segments.                                  *)
FinishedSegmentsKept ==
    [][\A x \in Segs : seg[x].status = "SUCCEEDED" => seg'[x].status \in {"SUCCEEDED", "NONE"}]_vars

(* Whatever fails, every task comes to its end: no inflight mark, slot, retry *)
(* or merge is left that would keep it from being dispatched again.           *)
EveryTaskSettles == \A t \in Tasks : <>[]Settled(t)

(* The same, of the behaviours without a crash. *)
SettlesWithoutCrash == [](restarts = 0) => EveryTaskSettles

(* A segment that waits or is on a server when the process dies is transcribed, *)
(* fails or is dropped in the end, unless its task is settled.                  *)
SegmentsResume ==
    \A x \in Segs : seg[x].status \in Open ~> seg[x].status \notin Open \/ Settled(Parent[x])

(* A task whose one coroutine survived a restart in its call to the server, *)
(* and which start-up left TRANSCRIBING, comes to its end through that call *)
(* or a retry.                                                              *)
LateResultKept ==
    \A t \in Tasks :
        /\ restarts = MaxRestarts /\ task[t].status = "TRANSCRIBING"
        /\ \E r \in runs : /\ ~r.mine /\ r.pc = "asr" /\ Current(r)
                            /\ {q \in runs : q.id = t} = {r}
        ~> Settled(t)

(* The runner keeps the promise of TaskLifecycle to the owner of a task. *)
Lifecycle == INSTANCE TaskLifecycle WITH
    phase <- [t \in Tasks |->
                CASE task[t].status = "QUEUED"    -> "waiting"
                  [] task[t].status \in Active    -> "running"
                  [] task[t].status = "SUCCEEDED" -> "done"
                  [] task[t].status = "FAILED"    -> "failed"
                  [] task[t].status = "CANCELED"  -> "canceled"
                  [] OTHER                        -> "gone"],
    tries <- [t \in Tasks |-> task[t].retry],
    told  <- notices

LifecycleKept == Lifecycle!Spec

=============================================================================
