-------------------------- MODULE TaskRunnerProofs --------------------------
(***************************************************************************)
(* What TLAPS proves of TaskRunner, for every set of tasks, segments and   *)
(* servers and every setting: the types; that an item is worked on by one  *)
(* coroutine at a time, whatever is restarted; that finished segments and  *)
(* canceled tasks stay so; over restarts that end the coroutines of the    *)
(* process, what the owner of a task is told, up to the refinement of      *)
(* TaskLifecycle; and, of behaviours without a restart, that a task is not *)
(* transcribed as a whole file and by its segments at once, that none      *)
(* succeeds with some of its segments only, that no server has more calls *)
(* for its rows than slots, and that no slot it counts is lost.            *)
(***************************************************************************)
EXTENDS TaskRunner, FiniteSetTheorems, TLAPS

(* A counter of calls stays within the values it is kept to. *)
LEMMA TwiceType ==
    ASSUME NEW n \in 0 .. 2
    PROVE  Twice(n) \in 0 .. 2
  BY DEF Twice

(* The work counted on a server is a finite set of items, so that it has a size. *)
LEMMA ActiveWorkSize ==
    ASSUME NEW tk, NEW sg, NEW s
    PROVE  Cardinality(ActiveWork(tk, sg, s)) \in Nat
<1>1. IsFiniteSet(Tasks \cup Segs)
  BY SetsAssumption, FS_Union
<1>2. ActiveWork(tk, sg, s) \subseteq Tasks \cup Segs
  BY DEF ActiveWork
<1>3. IsFiniteSet(ActiveWork(tk, sg, s))
  BY <1>1, <1>2, FS_Subset
<1> QED
  BY <1>3, FS_CardinalityType

Counts == [Tasks -> [succeeded: 0 .. 2, failed: 0 .. 2]]

LEMMA NotifyType ==
    ASSUME notices \in Counts, NEW t \in Tasks, NEW kind \in {"succeeded", "failed"},
           Notify(t, kind)
    PROVE  notices' \in Counts
  BY TwiceType DEF Notify, Counts

LEMMA ReleaseType ==
    ASSUME released \in [Tasks -> 0 .. 2], NEW t \in Tasks, Release(t)
    PROVE  released' \in [Tasks -> 0 .. 2]
  BY TwiceType DEF Release

(* A coroutine that moves on stays a coroutine of the same item. *)
LEMMA GoType ==
    ASSUME runs \subseteq Run, NEW r \in runs, NEW pc \in RunPC, Go(r, pc)
    PROVE  runs' \subseteq Run
  BY DEF Go, Become, Run

-----------------------------------------------------------------------------
(* Type correctness. *)

Snap == [stage: {"rest", "queue", "work"}, busy: SUBSET Items, items: SUBSET Items,
         gen: [Items -> Nat], parents: SUBSET Tasks,
         avail: SUBSET Servers, free: [Servers -> Nat]]

LEMMA IdleType == Idle \in Snap
  BY DEF Idle, Snap

LEMMA InitType == Init => TypeOK
<1> SUFFICES ASSUME Init PROVE TypeOK
  OBVIOUS
<1> USE SetsAssumption, BoundsAssumption
<1>1. task \in [Tasks -> Task]
  <2>1. PICK retry \in [Tasks -> QueuedRetries] :
          task = [t \in Tasks |-> [NoTask EXCEPT !.status = "QUEUED", !.retry = retry[t]]]
    BY DEF Init
  <2> QED
    BY <2>1 DEF NoTask, Task, TaskStatus, ValidTransitions, ErrorCode
<1>2. seg \in [Segs -> Segment]
  <2>1. [NoSegment EXCEPT !.status = "PENDING"] \in Segment
    BY DEF NoSegment, Segment, SegmentStatus
  <2> QED
    BY <2>1 DEF Init
<1>3. snap \in Snap
  BY IdleType DEF Init
<1>4. notices \in Counts
  <2>1. notices = [t \in Tasks |-> [succeeded |-> 0, failed |-> 0]]
    BY DEF Init
  <2> QED
    BY <2>1 DEF Counts
<1>5. released \in [Tasks -> 0 .. 2] /\ restarts \in 0 .. MaxRestarts
  <2>1. released = [t \in Tasks |-> 0] /\ restarts = 0
    BY DEF Init
  <2> QED
    BY <2>1
<1> QED
  BY <1>1, <1>2, <1>3, <1>4, <1>5 DEF Init, TypeOK, Snap, Counts

LEMMA FreeSlotsType ==
    ASSUME NEW s \in Servers
    PROVE  FreeSlots(s) \in Nat
<1>1. Cardinality(ActiveWork(task, seg, s)) \in Nat
  BY ActiveWorkSize
<1> QED
  BY <1>1, BoundsAssumption DEF FreeSlots

LEMMA GenerationType ==
    ASSUME TypeOK, NEW i \in Items
    PROVE  Generation(i) \in Nat
  BY DEF TypeOK, Generation, Items, Task, Segment

LEMMA ReadMoreType ==
    ASSUME TypeOK, NEW items \in SUBSET Items, NEW parents \in SUBSET Tasks
    PROVE  ReadMore(items, parents) \in Snap
<1> DEFINE gen  == [i \in Items |-> IF i \in items \ snap.items THEN Generation(i)
                                   ELSE IF i \in items THEN snap.gen[i] ELSE 0]
           next == [snap EXCEPT !.stage = "work", !.items = items, !.parents = parents,
                                !.gen = gen]
<1>1. snap \in Snap
  BY DEF TypeOK, Snap
<1>2. gen \in [Items -> Nat]
  BY <1>1, GenerationType DEF Snap
<1>3. next \in Snap /\ [next EXCEPT !.busy = {}] \in Snap
  <2> HIDE DEF gen
  <2> QED
    BY <1>1, <1>2 DEF Snap
<1> QED
  BY <1>3, IdleType DEF ReadMore

(* What a read adds: nothing but tasks of the queue, of which some are left out, and *)
(* pending segments that are not at work.                                            *)
ReadsQueue ==
    /\ snap.stage = "rest" /\ awaited = {}
    /\ snap'.stage = "queue" /\ snap'.items = Queued /\ snap'.busy = inflight
    /\ snap'.parents = {}
ReadsParents ==
    /\ snap.stage = "queue" /\ snap'.stage = "work"
    /\ snap'.items = WholeFileWork /\ snap'.parents = ParentsToRead
    /\ snap'.parents = {} \/ snap'.busy = snap.busy
ReadsSegments(t, picked) ==
    /\ t \in snap.parents /\ picked \subseteq SegsIn(t, {"PENDING"})
    /\ snap'.stage = "work"
    /\ snap'.items = snap.items \cup (picked \ snap.busy)
    /\ snap'.parents = snap.parents \ {t}
    /\ snap'.parents = {} \/ snap'.busy = snap.busy

LEMMA ReadMoreFields ==
    ASSUME TypeOK, NEW items, NEW parents, ReadMore(items, parents) # Idle
    PROVE  LET next == ReadMore(items, parents) IN
           /\ next.stage = "work" /\ next.items = items /\ next.parents = parents
           /\ parents = {} \/ next.busy = snap.busy
<1>1. snap \in Snap
  BY DEF TypeOK, Snap
<1> QED
  BY <1>1 DEF ReadMore, Snap

LEMMA ReadMoves ==
    ASSUME TypeOK, DispatchRead
    PROVE  /\ snap' \in Snap
           /\ \/ snap' = Idle \/ ReadsQueue \/ ReadsParents
              \/ \E t \in snap.parents : \E picked \in SUBSET Segs : ReadsSegments(t, picked)
<1> USE SetsAssumption
<1>1. snap \in Snap
  BY DEF TypeOK, Snap
<1>2. CASE ReadQueue
  <2> DEFINE gen == [i \in Items |-> IF i \in Queued THEN Generation(i) ELSE 0]
  <2>1. gen \in [Items -> Nat]
    BY GenerationType
  <2>2. Queued \in SUBSET Items /\ inflight \in SUBSET Items
    BY DEF TypeOK, Queued, Items
  <2>3. snap' = [Idle EXCEPT !.stage = "queue", !.busy = inflight, !.items = Queued, !.gen = gen]
    BY <1>2 DEF ReadQueue
  <2>4. snap' \in Snap /\ snap'.stage = "queue" /\ snap'.busy = inflight
        /\ snap'.items = Queued /\ snap'.parents = {}
    <3> HIDE DEF gen
    <3> QED
      BY <2>1, <2>2, <2>3, IdleType DEF Snap, Idle
  <2> QED
    BY <1>2, <2>4 DEF ReadQueue, ReadsQueue
<1>3. CASE ReadParents
  <2>1. CASE snap' = Idle
    BY <2>1, IdleType
  <2>2. CASE snap' # Idle
    <3> DEFINE next == ReadMore(WholeFileWork, ParentsToRead)
    <3>1. PICK avail \in SUBSET Servers :
            snap' = [next EXCEPT
                       !.avail = avail,
                       !.free = [s \in Servers |-> IF s \in avail THEN FreeSlots(s) ELSE 0]]
      BY <1>3, <2>2 DEF ReadParents
    <3>2. WholeFileWork \in SUBSET Items /\ ParentsToRead \in SUBSET Tasks
      BY <1>1 DEF WholeFileWork, ParentsToRead, Snap
    <3>3. next \in Snap
      BY <3>2, ReadMoreType
    <3>4. WholeFileWork \cup ParentsToRead # {}
      BY <1>3, <2>2 DEF ReadParents
    <3>5. next.stage = "work" /\ next.items = WholeFileWork /\ next.parents = ParentsToRead
          /\ (ParentsToRead = {} \/ next.busy = snap.busy)
      BY <1>1, <3>4 DEF ReadMore, Snap
    <3>6. [s \in Servers |-> IF s \in avail THEN FreeSlots(s) ELSE 0] \in [Servers -> Nat]
      BY FreeSlotsType
    <3> HIDE DEF next
    <3>7. snap' \in Snap
      BY <3>1, <3>3, <3>6 DEF Snap
    <3>8. snap'.stage = next.stage /\ snap'.items = next.items /\ snap'.parents = next.parents
          /\ snap'.busy = next.busy
      BY <3>1, <3>3 DEF Snap
    <3> QED
      BY <1>3, <3>5, <3>7, <3>8 DEF ReadParents, ReadsParents
  <2> QED
    BY <2>1, <2>2
<1>4. ASSUME NEW t \in Tasks, ReadSegments(t)
      PROVE  snap' \in Snap /\ (\/ snap' = Idle
                               \/ /\ t \in snap.parents
                                  /\ \E picked \in SUBSET Segs : ReadsSegments(t, picked))
  <2>1. PICK picked \in SUBSET SegsIn(t, {"PENDING"}) :
          snap' = ReadMore(snap.items \cup (picked \ snap.busy), snap.parents \ {t})
    BY <1>4 DEF ReadSegments
  <2>2. SegsIn(t, {"PENDING"}) \subseteq Segs
    BY DEF SegsIn, SegsOf
  <2>3. /\ snap.items \cup (picked \ snap.busy) \in SUBSET Items
        /\ snap.parents \ {t} \in SUBSET Tasks
    BY <1>1, <2>2 DEF Snap, Items
  <2>4. snap' \in Snap
    BY <2>1, <2>3, ReadMoreType
  <2>5. ASSUME snap' # Idle
        PROVE  ReadsSegments(t, picked)
    <3> DEFINE items == snap.items \cup (picked \ snap.busy)
               parents == snap.parents \ {t}
    <3>1. snap' = ReadMore(items, parents)
      BY <2>1
    <3> HIDE DEF items, parents
    <3>2. snap'.stage = "work" /\ snap'.items = items /\ snap'.parents = parents
          /\ (parents = {} \/ snap'.busy = snap.busy)
      BY <2>5, <3>1, ReadMoreFields
    <3> USE DEF items, parents
    <3>3. t \in snap.parents
      BY <1>4 DEF ReadSegments
    <3> QED
      BY <3>2, <3>3 DEF ReadsSegments
  <2> QED
    BY <1>4, <2>2, <2>4, <2>5 DEF ReadSegments
<1> QED
  BY <1>2, <1>3, <1>4 DEF DispatchRead

LEMMA ReadFrame ==
    DispatchRead => /\ task' = task /\ seg' = seg /\ inflight' = inflight /\ runs' = runs
                    /\ toFinalize' = toFinalize /\ awaited' = awaited /\ merging' = merging
                    /\ notices' = notices /\ released' = released /\ restarts' = restarts
                    /\ db' = db /\ finals' = finals /\ effects' = effects
  BY DEF DispatchRead, ReadQueue, ReadParents, ReadSegments, db, finals, effects

LEMMA AssignType ==
    ASSUME TypeOK, NEW chosen \in SUBSET snap.items, NEW plan \in [chosen -> snap.avail],
           Assign(chosen, plan)
    PROVE  task' \in [Tasks -> Task] /\ seg' \in [Segs -> Segment]
<1>1. chosen \subseteq Items /\ snap.avail \subseteq Servers
  BY DEF TypeOK
<1>2. \A i \in chosen : plan[i] \in Servers /\ snap.gen[i] + 1 \in Nat
  BY <1>1 DEF TypeOK
<1>3. ASSUME NEW t \in Tasks
      PROVE  task'[t] \in Task
  <2>1. task[t] \in Task
    BY DEF TypeOK
  <2> QED
    BY <1>2, <2>1 DEF Assign, Task, TaskStatus, ValidTransitions
<1>4. ASSUME NEW x \in Segs
      PROVE  seg'[x] \in Segment
  <2>1. seg[x] \in Segment
    BY DEF TypeOK
  <2> QED
    BY <1>2, <2>1 DEF Assign, Segment, SegmentStatus
<1> QED
  BY <1>3, <1>4 DEF Assign

(* The dispatcher's snapshot and commit. *)
LEMMA DispatchType ==
    ASSUME TypeOK, DispatchRead \/ DispatchCommit \/ DispatchGiveUp
    PROVE  TypeOK'
<1>1. CASE DispatchRead
  BY <1>1, ReadMoves, ReadFrame DEF TypeOK, Snap
<1>2. CASE DispatchCommit
  <2>1. PICK chosen \in SUBSET snap.items : \E plan \in [chosen -> snap.avail] :
          /\ Assign(chosen, plan)
          /\ inflight' = inflight \cup chosen
          /\ runs' = runs \cup {NewRun(i) : i \in chosen}
    BY <1>2 DEF DispatchCommit
  <2>2. chosen \subseteq Items
    BY DEF TypeOK
  <2>3. \A i \in chosen : NewRun(i) \in Run
    BY <2>2 DEF NewRun, Run, RunPC
  <2>4. inflight' \subseteq Items /\ runs' \subseteq Run
    BY <2>1, <2>2, <2>3 DEF TypeOK
  <2>5. task' \in [Tasks -> Task] /\ seg' \in [Segs -> Segment]
    BY <2>1, AssignType
  <2>6. snap' \in Snap
    BY <1>2, IdleType DEF DispatchCommit
  <2> QED
    BY <1>2, <2>4, <2>5, <2>6 DEF DispatchCommit, TypeOK, Snap, finals, effects
<1>3. CASE DispatchGiveUp
  BY <1>3, IdleType DEF DispatchGiveUp, TypeOK, Snap, db, finals, effects
<1> QED
  BY <1>1, <1>2, <1>3

(* The steps of a coroutine. *)
LEMMA LoadType ==
    ASSUME TypeOK, NEW r \in runs, LoadTask(r) \/ LoadSegment(r)
    PROVE  TypeOK'
<1>1. task \in [Tasks -> Task] /\ seg \in [Segs -> Segment] /\ r \in Run
  BY DEF TypeOK
<1>2. \E new \in Run : Become(r, new)
  <2>1. CASE LoadTask(r)
    <3>1. r.id \in Tasks
      BY <2>1 DEF LoadTask, RunOf
    <3>2. \/ Go(r, "end")
          \/ Become(r, [r EXCEPT !.pc = "begin", !.gen = task[r.id].gen,
                                 !.server = task[r.id].server])
      BY <2>1 DEF LoadTask
    <3>3. task[r.id].gen \in Nat /\ task[r.id].server \in Servers \cup {None}
      BY <1>1, <3>1 DEF Task
    <3> QED
      BY <1>1, <3>2, <3>3 DEF Go, Run, RunPC
  <2>2. CASE LoadSegment(r)
    <3>1. r.id \in Segs
      BY <2>2 DEF LoadSegment, RunOf
    <3>2. \/ Go(r, "end")
          \/ Become(r, [r EXCEPT !.pc = "parent", !.gen = seg[r.id].gen,
                                 !.server = seg[r.id].server])
      BY <2>2 DEF LoadSegment
    <3>3. seg[r.id].gen \in Nat /\ seg[r.id].server \in Servers \cup {None}
      BY <1>1, <3>1 DEF Segment
    <3> QED
      BY <1>1, <3>2, <3>3 DEF Go, Run, RunPC
  <2> QED
    BY <2>1, <2>2
<1>3. runs' \subseteq Run
  BY <1>2 DEF Become, TypeOK
<1> QED
  BY <1>3 DEF LoadTask, LoadSegment, TypeOK, db, finals, effects

LEMMA CheckType ==
    ASSUME TypeOK, NEW r \in runs,
           \/ BeginTask(r) \/ CheckParent(r) \/ BeginSegment(r) \/ RecheckParent(r)
           \/ CheckStaleRun(r) \/ EndRun(r)
    PROVE  TypeOK'
<1>1. task \in [Tasks -> Task] /\ seg \in [Segs -> Segment] /\ r \in Run
  BY DEF TypeOK
<1>2. CASE BeginTask(r)
  <2>1. \E pc \in RunPC : Go(r, pc)
    BY <1>2 DEF BeginTask, RunPC
  <2>2. task' \in [Tasks -> Task]
    <3>1. \/ task' = task
          \/ task' = [task EXCEPT ![r.id].status = "TRANSCRIBING", ![r.id].started = TRUE]
      BY <1>2 DEF BeginTask
    <3> QED
      BY <1>1, <3>1 DEF Task, TaskStatus, ValidTransitions
  <2> QED
    BY <1>2, <2>1, <2>2, GoType DEF BeginTask, TypeOK, finals, effects
<1>3. CASE CheckParent(r)
  <2>1. \E pc \in RunPC : Go(r, pc)
    BY <1>3 DEF CheckParent, RunPC
  <2>2. seg' \in [Segs -> Segment]
    BY <1>1, <1>3 DEF CheckParent, Segment, SegmentStatus
  <2> QED
    BY <1>3, <2>1, <2>2, GoType DEF CheckParent, TypeOK, finals, effects
<1>4. CASE BeginSegment(r)
  <2>1. \E pc \in RunPC : Go(r, pc)
    BY <1>4 DEF BeginSegment, RunPC
  <2>2. seg' \in [Segs -> Segment]
    BY <1>1, <1>4 DEF BeginSegment, Segment, SegmentStatus, db
  <2>3. task' \in [Tasks -> Task]
    BY <1>1, <1>4 DEF BeginSegment, Task, TaskStatus, ValidTransitions, db
  <2> QED
    BY <1>4, <2>1, <2>2, <2>3, GoType DEF BeginSegment, TypeOK, finals, effects
<1>5. CASE RecheckParent(r)
  <2>1. \E pc \in RunPC : Go(r, pc)
    BY <1>5 DEF RecheckParent, RunPC
  <2>2. seg' \in [Segs -> Segment]
    BY <1>1, <1>5 DEF RecheckParent, Segment, SegmentStatus
  <2> QED
    BY <1>5, <2>1, <2>2, GoType DEF RecheckParent, TypeOK, finals, effects
<1>6. CASE CheckStaleRun(r)
  <2>1. \E pc \in RunPC : Go(r, pc)
    BY <1>6 DEF CheckStaleRun, RunPC
  <2> QED
    BY <1>6, <2>1, GoType DEF CheckStaleRun, TypeOK, db, finals, effects
<1>7. CASE EndRun(r)
  BY <1>7 DEF EndRun, TypeOK, db, finals, effects
<1> QED
  BY <1>2, <1>3, <1>4, <1>5, <1>6, <1>7

LEMMA MarkTaskType ==
    ASSUME TypeOK, NEW r \in runs, MarkTaskSucceeded(r) \/ MarkTaskFailed(r)
    PROVE  TypeOK'
<1>1. /\ task \in [Tasks -> Task] /\ notices \in Counts
      /\ released \in [Tasks -> 0 .. 2] /\ r \in Run /\ r.id \in Tasks
  BY DEF TypeOK, Counts, MarkTaskSucceeded, MarkTaskFailed, RunOf
<1>2. runs' \subseteq Run
  <2>1. Go(r, "end")
    BY DEF MarkTaskSucceeded, MarkTaskFailed
  <2> QED
    BY <2>1, GoType DEF TypeOK, RunPC
<1>3. CASE MarkTaskSucceeded(r)
  <2>1. \/ task' = task
        \/ task' = [task EXCEPT ![r.id].status = "SUCCEEDED", ![r.id].err = "none"]
        \/ task' = [task EXCEPT ![r.id].status = "SUCCEEDED", ![r.id].err = "none",
                                ![r.id].server = None]
        \/ task' = [task EXCEPT ![r.id].err = "none"]
    BY <1>3 DEF MarkTaskSucceeded
  <2>2. task' \in [Tasks -> Task]
    BY <1>1, <2>1 DEF Task, TaskStatus, ValidTransitions, ErrorCode
  <2>3. /\ Notify(r.id, "succeeded") \/ notices' = notices
        /\ Release(r.id) \/ released' = released
    BY <1>3 DEF MarkTaskSucceeded, effects
  <2>4. notices' \in Counts /\ released' \in [Tasks -> 0 .. 2]
    BY <1>1, <2>3, NotifyType, ReleaseType
  <2> QED
    BY <1>2, <1>3, <2>2, <2>4 DEF MarkTaskSucceeded, TypeOK, Counts, finals
<1>4. CASE MarkTaskFailed(r)
  <2>1. \/ task' = task
        \/ task' = [task EXCEPT ![r.id].err = "TRANSCRIBE_ERROR", ![r.id].status = "FAILED"]
        \/ task' = [task EXCEPT ![r.id].err = "TRANSCRIBE_ERROR", ![r.id].status = @]
    BY <1>4 DEF MarkTaskFailed
  <2>2. task' \in [Tasks -> Task]
    BY <1>1, <2>1 DEF Task, TaskStatus, ValidTransitions, ErrorCode
  <2>3. /\ Notify(r.id, "failed") \/ notices' = notices
        /\ Release(r.id) \/ released' = released
    BY <1>4 DEF MarkTaskFailed, effects
  <2>4. notices' \in Counts /\ released' \in [Tasks -> 0 .. 2]
    BY <1>1, <2>3, NotifyType, ReleaseType
  <2> QED
    BY <1>2, <1>4, <2>2, <2>4 DEF MarkTaskFailed, TypeOK, Counts, finals
<1> QED
  BY <1>3, <1>4

LEMMA MarkSegmentType ==
    ASSUME TypeOK, NEW r \in runs, MarkSegmentSucceeded(r) \/ MarkSegmentFailed(r)
    PROVE  TypeOK'
<1>1. /\ task \in [Tasks -> Task] /\ seg \in [Segs -> Segment] /\ notices \in Counts
      /\ released \in [Tasks -> 0 .. 2] /\ r \in Run /\ r.id \in Segs
      /\ Parent[r.id] \in Tasks
  BY SetsAssumption DEF TypeOK, Counts, MarkSegmentSucceeded, MarkSegmentFailed, RunOf
<1>2. runs' \subseteq Run
  <2>1. Go(r, "end")
    BY DEF MarkSegmentSucceeded, MarkSegmentFailed
  <2> QED
    BY <2>1, GoType DEF TypeOK, RunPC
<1>3. CASE MarkSegmentSucceeded(r)
  <2>1. seg' = seg \/ seg' = [seg EXCEPT ![r.id].status = "SUCCEEDED"]
    BY <1>3 DEF MarkSegmentSucceeded
  <2>2. seg' \in [Segs -> Segment]
    BY <1>1, <2>1 DEF Segment, SegmentStatus
  <2>3. toFinalize' \subseteq Tasks
    BY <1>1, <1>3 DEF MarkSegmentSucceeded, TypeOK
  <2> QED
    BY <1>2, <1>3, <2>2, <2>3 DEF MarkSegmentSucceeded, TypeOK, effects
<1>4. CASE MarkSegmentFailed(r)
  <2>1. CASE UNCHANGED <<db, effects>>
    BY <1>2, <1>4, <2>1 DEF MarkSegmentFailed, TypeOK, db, effects, finals
  <2>2. CASE RetrySegment(r.id) /\ ~RetriesSpent(r.id)
    <3>1. seg[r.id].retry + 1 \in 0 .. SegMaxRetry
      BY <1>1, <2>2, BoundsAssumption DEF RetriesSpent, Segment
    <3>2. seg' \in [Segs -> Segment]
      BY <1>1, <2>2, <3>1 DEF RetrySegment, Segment, SegmentStatus
    <3> QED
      BY <1>2, <1>4, <2>2, <3>2 DEF MarkSegmentFailed, RetrySegment, TypeOK, effects, finals
  <2>3. CASE ExhaustSegment(r.id)
    <3>1. task' \in [Tasks -> Task]
      BY <1>1, <2>3 DEF ExhaustSegment, Task, TaskStatus, ValidTransitions, ErrorCode
    <3>2. seg' \in [Segs -> Segment]
      BY <1>1, <2>3 DEF ExhaustSegment, Segment, SegmentStatus
    <3>3. \/ Notify(Parent[r.id], "failed") /\ Release(Parent[r.id])
          \/ notices' = notices /\ released' = released
      BY <2>3 DEF ExhaustSegment, effects
    <3>4. notices' \in Counts /\ released' \in [Tasks -> 0 .. 2]
      BY <1>1, <3>3, NotifyType, ReleaseType
    <3> QED
      BY <1>2, <1>4, <3>1, <3>2, <3>4 DEF MarkSegmentFailed, TypeOK, Counts, finals
  <2> QED
    BY <1>4, <2>1, <2>2, <2>3 DEF MarkSegmentFailed
<1> QED
  BY <1>3, <1>4

(* The finalizer, the retry tick, the API and the restart. *)
LEMMA FinalizeType ==
    ASSUME TypeOK, NEW t \in Tasks, StartMerge(t) \/ MergeSucceeds(t) \/ MergeFails(t)
    PROVE  TypeOK'
<1>1. task \in [Tasks -> Task] /\ notices \in Counts /\ released \in [Tasks -> 0 .. 2]
  BY DEF TypeOK, Counts
<1>2. CASE StartMerge(t)
  BY <1>2 DEF StartMerge, TypeOK, db, effects
<1>3. CASE MergeSucceeds(t)
  <2>1. \/ task' = task /\ notices' = notices /\ released' = released
        \/ /\ task' = [task EXCEPT ![t].status = "SUCCEEDED", ![t].err = "none"]
           /\ Notify(t, "succeeded") /\ Release(t)
    BY <1>3 DEF MergeSucceeds, effects
  <2>2. task' \in [Tasks -> Task]
    BY <1>1, <2>1 DEF Task, TaskStatus, ValidTransitions, ErrorCode
  <2>3. notices' \in Counts /\ released' \in [Tasks -> 0 .. 2]
    BY <1>1, <2>1, NotifyType, ReleaseType
  <2> QED
    BY <1>3, <2>2, <2>3 DEF MergeSucceeds, TypeOK, Counts
<1>4. CASE MergeFails(t)
  <2>1. \/ task' = task
        \/ task' = [task EXCEPT ![t].status = "FAILED", ![t].err = "MERGE_FAILED"]
    BY <1>4 DEF MergeFails
  <2>2. task' \in [Tasks -> Task]
    BY <1>1, <2>1 DEF Task, TaskStatus, ValidTransitions, ErrorCode
  <2> QED
    BY <1>4, <2>2 DEF MergeFails, TypeOK, effects
<1> QED
  BY <1>2, <1>3, <1>4

LEMMA NoRowType == NoTask \in Task /\ NoSegment \in Segment
<1>1. NoTask \in Task
  BY BoundsAssumption DEF NoTask, Task, TaskStatus, ValidTransitions, ErrorCode
<1>2. NoSegment \in Segment
  BY BoundsAssumption DEF NoSegment, Segment, SegmentStatus
<1> QED
  BY <1>1, <1>2

LEMMA RetryType ==
    ASSUME TypeOK, RetryFailedTasks
    PROVE  TypeOK'
<1>1. ASSUME NEW t \in Tasks
      PROVE  task'[t] \in Task
  <2>1. task[t] \in Task
    BY DEF TypeOK
  <2>2. Retryable(t) => task[t].retry + 1 \in 0 .. MaxRetry
    BY <2>1, BoundsAssumption DEF Retryable, Task
  <2> QED
    BY <2>1, <2>2 DEF RetryFailedTasks, RetriesMerge, FallsBack, Requeues, Task,
                      TaskStatus, ValidTransitions, ErrorCode
<1>2. task' \in [Tasks -> Task]
  BY <1>1 DEF RetryFailedTasks
<1>3. seg' \in [Segs -> Segment]
  BY NoRowType DEF RetryFailedTasks, TypeOK
<1>4. toFinalize' \subseteq Tasks /\ awaited' \subseteq Tasks
  BY DEF RetryFailedTasks, TypeOK
<1> QED
  BY <1>2, <1>3, <1>4 DEF RetryFailedTasks, TypeOK, effects

LEMMA ReleaseSegmentsType ==
    ASSUME TypeOK, NEW S, ReleaseSegments(S)
    PROVE  seg' \in [Segs -> Segment]
<1>1. ASSUME NEW x \in Segs
      PROVE  seg'[x] \in Segment
  <2>1. seg[x] \in Segment
    BY DEF TypeOK
  <2>2. \/ seg'[x] = seg[x]
        \/ seg'[x] = [seg[x] EXCEPT !.status = "FAILED", !.server = None, !.gen = @ + 1]
    BY DEF ReleaseSegments
  <2>3. seg[x].gen + 1 \in Nat
    BY <2>1 DEF Segment
  <2> QED
    BY <2>1, <2>2, <2>3 DEF Segment, SegmentStatus
<1> QED
  BY <1>1 DEF ReleaseSegments

LEMMA ApiType ==
    ASSUME TypeOK, ApiStep
    PROVE  TypeOK'
<1>1. task \in [Tasks -> Task] /\ released \in [Tasks -> 0 .. 2]
  BY DEF TypeOK
<1>2. ASSUME NEW t \in Tasks, CancelTask(t)
      PROVE  TypeOK'
  <2>1. task' \in [Tasks -> Task]
    BY <1>1, <1>2 DEF CancelTask, Task, TaskStatus, ValidTransitions
  <2>2. seg' \in [Segs -> Segment] /\ released' \in [Tasks -> 0 .. 2]
    BY <1>1, <1>2, ReleaseType, ReleaseSegmentsType DEF CancelTask
  <2> QED
    BY <1>2, <2>1, <2>2 DEF CancelTask, TypeOK, memory
<1>3. ASSUME NEW scope \in Groups, EmergencyStop(scope)
      PROVE  TypeOK'
  <2>1. task' \in [Tasks -> Task]
    <3>1. ASSUME NEW t \in Tasks
          PROVE  task'[t] \in Task
      <4>1. task[t] \in Task
        BY <1>1
      <4>2. \/ task'[t] = task[t]
            \/ task'[t] = [task[t] EXCEPT !.status = "CANCELED", !.gen = @ + 1,
                                          !.server = None]
        BY <1>3 DEF EmergencyStop
      <4>3. task[t].gen + 1 \in Nat
        BY <4>1 DEF Task
      <4> QED
        BY <4>1, <4>2, <4>3 DEF Task, TaskStatus, ValidTransitions
    <3> QED
      BY <1>3, <3>1 DEF EmergencyStop
  <2>2. seg' \in [Segs -> Segment]
    BY <1>3, ReleaseSegmentsType DEF EmergencyStop
  <2> QED
    BY <1>3, <2>1, <2>2 DEF EmergencyStop, TypeOK, memory, effects
<1>4. ASSUME NEW statuses, DeleteTasks(statuses)
      PROVE  TypeOK'
  <2>1. task' \in [Tasks -> Task] /\ seg' \in [Segs -> Segment]
    BY <1>4, NoRowType DEF DeleteTasks, TypeOK
  <2> QED
    BY <1>4, <2>1 DEF DeleteTasks, TypeOK, memory, effects
<1> QED
  BY <1>2, <1>3, <1>4 DEF ApiStep

LEMMA RestartType ==
    ASSUME TypeOK, Restart
    PROVE  TypeOK'
<1>1. task \in [Tasks -> Task] /\ seg \in [Segs -> Segment] /\ restarts \in 0 .. MaxRestarts
  BY DEF TypeOK
<1>2. task' \in [Tasks -> Task]
  <2>0. "QUEUED" \in TaskStatus
    BY DEF TaskStatus, ValidTransitions
  <2>1. ASSUME NEW t \in Tasks
        PROVE  task'[t] \in Task
    <3>1. task[t] \in Task
      BY <1>1
    <3>2. \/ task'[t] = task[t]
          \/ task'[t] = [task[t] EXCEPT !.status = "QUEUED", !.server = None,
                                        !.started = FALSE]
      BY DEF Restart, ResetTasks
    <3> QED
      BY <2>0, <3>1, <3>2 DEF Task
  <2> QED
    BY <2>1 DEF Restart, ResetTasks
<1>3. seg' \in [Segs -> Segment]
  <2>1. ASSUME NEW x \in Segs
        PROVE  [seg[x] EXCEPT !.status = "PENDING", !.server = None] \in Segment /\ seg[x] \in Segment
    BY <1>1 DEF Segment, SegmentStatus
  <2> QED
    BY <2>1 DEF Restart, RecoverSegments, PutBack
<1>4. runs' \subseteq Run
  <2>1. PICK kept \in SUBSET runs : runs' = {[r EXCEPT !.mine = FALSE] : r \in kept}
    BY DEF Restart
  <2>2. \A r \in Run : [r EXCEPT !.mine = FALSE] \in Run
    BY DEF Run
  <2> QED
    BY <2>1, <2>2 DEF TypeOK
<1>5. snap' \in Snap
  BY IdleType DEF Restart
<1>6. restarts' \in 0 .. MaxRestarts
  BY <1>1, BoundsAssumption DEF Restart
<1>7. inflight' \subseteq Items /\ merging' \subseteq Tasks
      /\ toFinalize' \subseteq Tasks /\ awaited' \subseteq Tasks
  BY DEF Restart
<1> QED
  BY <1>2, <1>3, <1>4, <1>5, <1>6, <1>7 DEF Restart, TypeOK, Snap, effects

LEMMA NextType == TypeOK /\ [Next]_vars => TypeOK'
<1> SUFFICES ASSUME TypeOK, [Next]_vars PROVE TypeOK'
  OBVIOUS
<1>1. CASE RunStep
  BY <1>1, LoadType, CheckType, MarkTaskType, MarkSegmentType DEF RunStep
<1>2. CASE FinalizeStep
  BY <1>2, FinalizeType DEF FinalizeStep
<1>3. CASE UNCHANGED vars
  BY <1>3 DEF vars, TypeOK
<1> QED
  BY <1>1, <1>2, <1>3, DispatchType, RetryType, ApiType, RestartType DEF Next

(* Every row, set and call keeps its shape; in particular no task is requeued  *)
(* more often than max_retry_count and no segment more often than              *)
(* segment_max_retry_count, by whatever path (retry tick, fallback, merge).    *)
THEOREM TypeCorrect == Spec => []TypeOK
  BY InitType, NextType, PTL DEF Spec

-----------------------------------------------------------------------------
(* One coroutine per item.  OneRunPerItem is not inductive by itself: the      *)
(* dispatcher starts coroutines for items it has read earlier, and they are    *)
(* free because _inflight only grows when such a commit is made.               *)

SnapshotFree == snap.stage # "rest" => snap.items \cap inflight = {}
SnapshotForm == /\ snap.parents # {} => snap.stage = "work"
                /\ snap.stage = "queue" => snap.items \subseteq Tasks
BusyCovers   == snap.stage = "queue" \/ snap.parents # {} => inflight \subseteq snap.busy
RunInv       == OneRunPerItem /\ SnapshotFree /\ SnapshotForm /\ BusyCovers

(* A snapshot that is left as it is, or dropped. *)
LEMMA SnapshotStays ==
    ASSUME RunInv, (snap' = snap /\ inflight' \subseteq inflight) \/ snap' = Idle
    PROVE  SnapshotFree' /\ SnapshotForm' /\ BusyCovers'
<1>1. CASE snap' = Idle
  <2>1. snap'.stage = "rest" /\ snap'.parents = {}
    BY <1>1 DEF Idle
  <2> QED
    BY <2>1 DEF SnapshotFree, SnapshotForm, BusyCovers
<1>2. CASE snap' = snap /\ inflight' \subseteq inflight
  BY <1>2 DEF RunInv, SnapshotFree, SnapshotForm, BusyCovers
<1> QED
  BY <1>1, <1>2

LEMMA ReadItems ==
    ASSUME TypeOK, RunInv, DispatchRead, NEW i \in snap'.items
    PROVE  \/ snap.stage # "rest" /\ i \in snap.items
           \/ snap.stage = "rest" /\ snap'.stage = "queue" /\ awaited = {} /\ i \in Queued
           \/ \E t \in snap.parents : /\ i \in SegsIn(t, {"PENDING"}) \ snap.busy
                                     /\ snap.stage = "work"
<1>1. CASE snap' = Idle
  BY <1>1 DEF Idle
<1>2. CASE ReadsQueue
  BY <1>2 DEF ReadsQueue
<1>3. CASE ReadsParents
  BY <1>3 DEF ReadsParents, WholeFileWork
<1>4. CASE \E t \in snap.parents : \E picked \in SUBSET Segs : ReadsSegments(t, picked)
  BY <1>4 DEF ReadsSegments, RunInv, SnapshotForm
<1> QED
  BY <1>1, <1>2, <1>3, <1>4, ReadMoves

(* A coroutine that moves on, of the same item and process. *)
LEMMA MoveKeepsRuns ==
    ASSUME RunInv, NEW r \in runs, NEW new, new.id = r.id, new.mine = r.mine,
           Become(r, new), UNCHANGED <<inflight, snap>>
    PROVE  RunInv'
<1>1. ASSUME NEW p \in runs', p.mine
      PROVE  p.id \in inflight' /\ \A q \in runs' : q.mine /\ q.id = p.id => q = p
  <2>1. \A q \in runs' : q = new \/ q \in runs \ {r}
    BY DEF Become
  <2>2. CASE p = new
    BY <1>1, <2>1, <2>2 DEF RunInv, OneRunPerItem
  <2>3. CASE p \in runs \ {r}
    BY <1>1, <2>1, <2>3 DEF RunInv, OneRunPerItem
  <2> QED
    BY <2>1, <2>2, <2>3
<1>2. OneRunPerItem'
  BY <1>1 DEF OneRunPerItem
<1>3. SnapshotFree' /\ SnapshotForm' /\ BusyCovers'
  BY SnapshotStays
<1> QED
  BY <1>2, <1>3 DEF RunInv

LEMMA GoKeepsRuns ==
    ASSUME TypeOK, RunInv, NEW r \in runs, NEW pc, Go(r, pc), UNCHANGED <<inflight, snap>>
    PROVE  RunInv'
<1> DEFINE new == [r EXCEPT !.pc = pc]
<1>1. r \in Run
  BY DEF TypeOK
<1>2. new.id = r.id /\ new.mine = r.mine
  BY <1>1 DEF Run
<1>3. Become(r, new)
  BY DEF Go
<1> HIDE DEF new
<1> QED
  BY <1>2, <1>3, MoveKeepsRuns

LEMMA LoadKeepsRuns ==
    ASSUME TypeOK, RunInv, NEW r \in runs, LoadTask(r) \/ LoadSegment(r)
    PROVE  RunInv'
<1>1. r \in Run /\ UNCHANGED <<inflight, snap>>
  BY DEF TypeOK, LoadTask, LoadSegment
<1>2. \/ Go(r, "end")
      \/ \E pc, gen, server :
           Become(r, [r EXCEPT !.pc = pc, !.gen = gen, !.server = server])
  BY DEF LoadTask, LoadSegment
<1>3. CASE Go(r, "end")
  BY <1>1, <1>3, GoKeepsRuns
<1>4. ASSUME NEW pc, NEW gen, NEW server,
             Become(r, [r EXCEPT !.pc = pc, !.gen = gen, !.server = server])
      PROVE  RunInv'
  <2> DEFINE new == [r EXCEPT !.pc = pc, !.gen = gen, !.server = server]
  <2>1. new.id = r.id /\ new.mine = r.mine
    BY <1>1 DEF Run
  <2>2. Become(r, new)
    BY <1>4
  <2> HIDE DEF new
  <2> QED
    BY <1>1, <2>1, <2>2, MoveKeepsRuns
<1> QED
  BY <1>2, <1>3, <1>4

LEMMA EndKeepsRuns ==
    ASSUME RunInv, NEW r \in runs, EndRun(r)
    PROVE  RunInv'
<1>1. runs' = runs \ {r} /\ snap' = snap
      /\ inflight' = IF r.mine THEN inflight \ {r.id} ELSE inflight
  BY DEF EndRun
<1>2. OneRunPerItem'
  BY <1>1 DEF RunInv, OneRunPerItem
<1>3. SnapshotFree' /\ SnapshotForm' /\ BusyCovers'
  BY <1>1, SnapshotStays
<1> QED
  BY <1>2, <1>3 DEF RunInv

LEMMA RunStepKeepsRuns ==
    ASSUME TypeOK, RunInv, RunStep
    PROVE  RunInv'
<1>1. PICK r \in runs :
        \/ LoadTask(r) \/ LoadSegment(r)
        \/ EndRun(r)
        \/ BeginTask(r) \/ CheckParent(r) \/ BeginSegment(r) \/ RecheckParent(r)
        \/ CheckStaleRun(r) \/ MarkTaskSucceeded(r) \/ MarkTaskFailed(r)
        \/ MarkSegmentSucceeded(r) \/ MarkSegmentFailed(r)
  BY DEF RunStep
<1>2. CASE LoadTask(r) \/ LoadSegment(r)
  BY <1>2, LoadKeepsRuns
<1>3. CASE EndRun(r)
  BY <1>3, EndKeepsRuns
<1>4. CASE \/ BeginTask(r) \/ CheckParent(r) \/ BeginSegment(r) \/ RecheckParent(r)
           \/ CheckStaleRun(r) \/ MarkTaskSucceeded(r) \/ MarkTaskFailed(r)
           \/ MarkSegmentSucceeded(r) \/ MarkSegmentFailed(r)
  <2>1. UNCHANGED <<inflight, snap>>
    BY <1>4 DEF BeginTask, CheckParent, BeginSegment, RecheckParent, CheckStaleRun,
                MarkTaskSucceeded, MarkTaskFailed, MarkSegmentSucceeded, MarkSegmentFailed
  <2>2. \E pc : Go(r, pc)
    BY <1>4 DEF BeginTask, CheckParent, BeginSegment, RecheckParent, CheckStaleRun,
                MarkTaskSucceeded, MarkTaskFailed, MarkSegmentSucceeded, MarkSegmentFailed
  <2> QED
    BY <2>1, <2>2, GoKeepsRuns
<1> QED
  BY <1>1, <1>2, <1>3, <1>4

LEMMA DispatchKeepsRuns ==
    ASSUME TypeOK, RunInv, DispatchRead \/ DispatchCommit \/ DispatchGiveUp
    PROVE  RunInv'
<1>1. CASE DispatchRead
  <2>1. OneRunPerItem'
    BY <1>1, ReadFrame DEF RunInv, OneRunPerItem
  <2>2. CASE snap' = Idle
    BY <2>1, <2>2, SnapshotStays DEF RunInv
  <2>3. CASE ReadsQueue
    <3>1. snap'.items \subseteq Tasks /\ snap'.items \cap inflight = {}
      BY <2>3 DEF ReadsQueue, Queued
    <3> QED
      BY <1>1, <2>1, <2>3, <3>1, ReadFrame
         DEF ReadsQueue, RunInv, SnapshotFree, SnapshotForm, BusyCovers
  <2>4. CASE ReadsParents
    <3>1. snap'.items \subseteq snap.items
      BY <2>4 DEF ReadsParents, WholeFileWork
    <3> QED
      BY <1>1, <2>1, <2>4, <3>1, ReadFrame
         DEF ReadsParents, RunInv, SnapshotFree, SnapshotForm, BusyCovers
  <2>5. CASE \E t \in snap.parents : \E picked \in SUBSET Segs : ReadsSegments(t, picked)
    <3>1. PICK t \in snap.parents, picked \in SUBSET Segs : ReadsSegments(t, picked)
      BY <2>5
    <3>2. snap.stage = "work" /\ inflight \subseteq snap.busy
      BY DEF RunInv, SnapshotForm, BusyCovers
    <3> QED
      BY <1>1, <2>1, <3>1, <3>2, ReadFrame
         DEF ReadsSegments, RunInv, SnapshotFree, SnapshotForm, BusyCovers
  <2> QED
    BY <1>1, <2>2, <2>3, <2>4, <2>5, ReadMoves
<1>2. CASE DispatchCommit
  <2>1. PICK chosen \in SUBSET snap.items :
          /\ inflight' = inflight \cup chosen
          /\ runs' = runs \cup {NewRun(i) : i \in chosen}
    BY <1>2 DEF DispatchCommit
  <2>2. chosen \cap inflight = {}
    BY <1>2 DEF DispatchCommit, Planned, RunInv, SnapshotFree
  <2>3. \A i : NewRun(i).id = i
    BY DEF NewRun
  <2>4. ASSUME NEW p \in runs', p.mine
        PROVE  p.id \in inflight' /\ \A q \in runs' : q.mine /\ q.id = p.id => q = p
    <3>1. CASE p \in runs
      <4>1. p.id \in inflight /\ \A q \in runs : q.mine /\ q.id = p.id => q = p
        BY <2>4, <3>1 DEF RunInv, OneRunPerItem
      <4>2. \A i \in chosen : NewRun(i).id # p.id
        BY <2>2, <2>3, <4>1
      <4> QED
        BY <2>1, <4>1, <4>2
    <3>2. CASE \E i \in chosen : p = NewRun(i)
      <4>1. PICK i \in chosen : p = NewRun(i)
        BY <3>2
      <4>2. p.id = i
        BY <2>3, <4>1
      <4>3. \A q \in runs : q.mine => q.id # i
        BY <2>2 DEF RunInv, OneRunPerItem
      <4>4. \A j \in chosen : NewRun(j).id = i => NewRun(j) = p
        BY <2>3, <4>1
      <4> QED
        BY <2>1, <4>2, <4>3, <4>4
    <3> QED
      BY <2>1, <3>1, <3>2
  <2>5. OneRunPerItem'
    BY <2>4 DEF OneRunPerItem
  <2>6. SnapshotFree' /\ SnapshotForm' /\ BusyCovers'
    BY <1>2, SnapshotStays DEF DispatchCommit
  <2> QED
    BY <2>5, <2>6 DEF RunInv
<1>3. CASE DispatchGiveUp
  BY <1>3, SnapshotStays DEF DispatchGiveUp, RunInv, OneRunPerItem
<1> QED
  BY <1>1, <1>2, <1>3

LEMMA RestartKeepsRuns ==
    ASSUME TypeOK, RunInv, Restart
    PROVE  RunInv'
<1>1. PICK kept \in SUBSET runs : runs' = {[r EXCEPT !.mine = FALSE] : r \in kept}
  BY DEF Restart
<1>2. \A r \in Run : [r EXCEPT !.mine = FALSE].mine = FALSE
  BY DEF Run
<1>3. \A r \in runs' : ~r.mine
  BY <1>1, <1>2 DEF TypeOK
<1>4. SnapshotFree' /\ SnapshotForm' /\ BusyCovers'
  BY SnapshotStays DEF Restart
<1> QED
  BY <1>3, <1>4 DEF RunInv, OneRunPerItem

LEMMA InitRuns == Init => RunInv
<1> SUFFICES ASSUME Init PROVE RunInv
  OBVIOUS
<1>1. snap.stage = "rest" /\ snap.parents = {} /\ runs = {}
  BY DEF Init, Idle
<1> QED
  BY <1>1 DEF RunInv, OneRunPerItem, SnapshotFree, SnapshotForm, BusyCovers

LEMMA NextKeepsRuns == TypeOK /\ RunInv /\ [Next]_vars => RunInv'
<1> SUFFICES ASSUME TypeOK, RunInv, [Next]_vars PROVE RunInv'
  OBVIOUS
<1>1. CASE UNCHANGED <<inflight, runs, snap>>
  BY <1>1, SnapshotStays DEF RunInv, OneRunPerItem
<1>2. CASE FinalizeStep
  BY <1>1, <1>2 DEF FinalizeStep, StartMerge, MergeSucceeds, MergeFails
<1>3. CASE RetryFailedTasks
  BY <1>1, <1>3 DEF RetryFailedTasks
<1>4. CASE ApiStep
  BY <1>1, <1>4 DEF ApiStep, CancelTask, EmergencyStop, DeleteTasks, memory
<1>5. CASE UNCHANGED vars
  BY <1>1, <1>5 DEF vars
<1> QED
  BY <1>2, <1>3, <1>4, <1>5, RunStepKeepsRuns, DispatchKeepsRuns, RestartKeepsRuns DEF Next

(* Whatever retries, cancels, stale dispatches and restarts happen, no task and *)
(* no segment is worked on by two coroutines of one process.                    *)
THEOREM OneRun == Spec => []OneRunPerItem
<1>1. RunInv => OneRunPerItem
  BY DEF RunInv
<1> QED
  BY <1>1, TypeCorrect, InitRuns, NextKeepsRuns, PTL DEF Spec

-----------------------------------------------------------------------------
(* Finished segments are kept, where no coroutine outlives its process.        *)

Early == {"load", "parent", "begin", "recheck"}

OwnRuns            == \A r \in runs : r.mine
EarlyUnfinished    == \A r \in runs : r.id \in Segs /\ r.pc \in Early
                                       => seg[r.id].status # "SUCCEEDED"
SnapshotUnfinished == snap.stage # "rest" => \A x \in snap.items \cap Segs : seg[x].status # "SUCCEEDED"

SegmentInv == OwnRuns /\ EarlyUnfinished /\ SnapshotUnfinished

Marked(x) == \E r \in runs : r.id = x /\ MarkSegmentSucceeded(r)

(* How a coroutine, and any other step, changes the status of a segment. *)
LEMMA RunMovesSegment ==
    ASSUME TypeOK, SegmentInv, NEW r \in runs, NEW x \in Segs,
           \/ LoadTask(r) \/ BeginTask(r) \/ LoadSegment(r) \/ CheckParent(r)
           \/ BeginSegment(r) \/ RecheckParent(r) \/ CheckStaleRun(r)
           \/ MarkTaskSucceeded(r) \/ MarkTaskFailed(r)
           \/ MarkSegmentSucceeded(r) \/ MarkSegmentFailed(r) \/ EndRun(r)
    PROVE  /\ seg[x].status = "SUCCEEDED" => seg'[x].status = "SUCCEEDED"
           /\ seg'[x].status = "SUCCEEDED" => seg[x].status = "SUCCEEDED" \/ Marked(x)
<1>1. seg \in [Segs -> Segment] /\ seg[x] \in Segment
  BY DEF TypeOK
<1>2. CASE seg' = seg
  BY <1>2
<1>3. CASE CheckParent(r)
  BY <1>1, <1>3 DEF CheckParent, Segment
<1>4. CASE BeginSegment(r)
  <2>1. r.id = x => seg[x].status # "SUCCEEDED"
    BY <1>4 DEF BeginSegment, RunOf, SegmentInv, EarlyUnfinished, Early
  <2> QED
    BY <1>1, <1>4, <2>1 DEF BeginSegment, Segment, db
<1>5. CASE RecheckParent(r)
  BY <1>1, <1>5 DEF RecheckParent, Segment
<1>6. CASE MarkSegmentSucceeded(r)
  <2>1. r.id = x => Marked(x)
    BY <1>6 DEF Marked
  <2> QED
    BY <1>1, <1>6, <2>1 DEF MarkSegmentSucceeded, Segment
<1>7. CASE MarkSegmentFailed(r)
  <2>1. CASE RetrySegment(r.id) /\ Accepts(r.id)
    BY <1>1, <2>1 DEF RetrySegment, Accepts, Active, Segment
  <2>2. CASE ExhaustSegment(r.id)
    BY <1>1, <2>2 DEF ExhaustSegment, Segment
  <2>3. CASE UNCHANGED <<db, effects>>
    BY <1>2, <2>3 DEF db
  <2> QED
    BY <1>7, <2>1, <2>2, <2>3 DEF MarkSegmentFailed
<1> QED
  BY <1>2, <1>3, <1>4, <1>5, <1>6, <1>7 DEF LoadTask, BeginTask, LoadSegment, CheckStaleRun,
     MarkTaskSucceeded, MarkTaskFailed, EndRun, db

LEMMA NextMovesSegment ==
    ASSUME TypeOK, SegmentInv, [Next]_vars, NEW x \in Segs
    PROVE  /\ seg[x].status = "SUCCEEDED" => seg'[x].status \in {"SUCCEEDED", "NONE"}
           /\ seg'[x].status = "SUCCEEDED" => seg[x].status = "SUCCEEDED" \/ Marked(x)
<1>1. seg \in [Segs -> Segment] /\ seg[x] \in Segment
  BY DEF TypeOK
<1>2. CASE seg' = seg
  BY <1>2
<1>3. CASE RunStep
  BY <1>3, RunMovesSegment DEF RunStep
<1>4. CASE DispatchCommit
  <2>1. PICK chosen \in SUBSET snap.items : \E plan : Assign(chosen, plan)
    BY <1>4 DEF DispatchCommit
  <2>2. x \in chosen => seg[x].status # "SUCCEEDED"
    BY <1>4 DEF DispatchCommit, Planned, SegmentInv, SnapshotUnfinished
  <2>3. x \in chosen => seg'[x].status = "DISPATCHED"
    BY <1>1, <2>1 DEF Assign, Segment
  <2>4. x \notin chosen => seg'[x] = seg[x]
    BY <2>1 DEF Assign
  <2> QED
    BY <2>2, <2>3, <2>4
<1>5. CASE RetryFailedTasks
  BY <1>1, <1>5 DEF RetryFailedTasks, NoSegment
<1>6. CASE ApiStep
  <2>1. ASSUME NEW S, ReleaseSegments(S)
        PROVE  \/ seg'[x] = seg[x]
               \/ seg[x].status # "SUCCEEDED" /\ seg'[x].status # "SUCCEEDED"
    <3>1. CASE Parent[x] \in S /\ seg[x].status \in Active \cup {"PENDING"}
      BY <1>1, <2>1, <3>1 DEF ReleaseSegments, Active, Segment
    <3>2. CASE ~(Parent[x] \in S /\ seg[x].status \in Active \cup {"PENDING"})
      BY <2>1, <3>2 DEF ReleaseSegments
    <3> QED
      BY <3>1, <3>2
  <2>2. ASSUME NEW statuses, DeleteTasks(statuses)
        PROVE  seg'[x] = seg[x] \/ seg'[x].status = "NONE"
    BY <2>2 DEF DeleteTasks, NoSegment
  <2> QED
    BY <1>6, <2>1, <2>2 DEF ApiStep, CancelTask, EmergencyStop
<1>7. CASE Restart
  BY <1>1, <1>7 DEF Restart, RecoverSegments, PutBack, Active, Segment
<1> QED
  BY <1>2, <1>3, <1>4, <1>5, <1>6, <1>7, ReadFrame
     DEF Next, DispatchGiveUp, FinalizeStep, StartMerge, MergeSucceeds,
         MergeFails, vars, db

(* A coroutine that has not asked the server yet is new, or had not before. *)
LEMMA RunStaysEarly ==
    ASSUME TypeOK, RunStep, NEW p \in runs', p.pc \in Early
    PROVE  \E q \in runs : q.id = p.id /\ q.pc \in Early
<1> USE DEF RunOf, Early
<1>1. PICK r \in runs :
        \/ LoadTask(r) \/ BeginTask(r) \/ LoadSegment(r) \/ CheckParent(r)
        \/ BeginSegment(r) \/ RecheckParent(r) \/ CheckStaleRun(r)
        \/ MarkTaskSucceeded(r) \/ MarkTaskFailed(r)
        \/ MarkSegmentSucceeded(r) \/ MarkSegmentFailed(r) \/ EndRun(r)
  BY DEF RunStep
<1>2. r \in Run
  BY DEF TypeOK
<1>3. CASE p \in runs
  BY <1>3
<1>4. CASE p \notin runs
  <2>1. CASE LoadTask(r) \/ LoadSegment(r)
    <3>1. r.pc = "load"
      BY <2>1 DEF LoadTask, LoadSegment, RunOf
    <3>2. \/ Go(r, "end")
          \/ \E pc, gen, server :
               Become(r, [r EXCEPT !.pc = pc, !.gen = gen, !.server = server])
      BY <2>1 DEF LoadTask, LoadSegment
    <3>3. \A pc, gen, server : [r EXCEPT !.pc = pc, !.gen = gen, !.server = server].id = r.id
      BY <1>2 DEF Run
    <3>4. [r EXCEPT !.pc = "end"].id = r.id
      BY <1>2 DEF Run
    <3>5. p.id = r.id
      <4>1. CASE Go(r, "end")
        BY <1>4, <3>4, <4>1 DEF Go, Become
      <4>2. ASSUME NEW pc, NEW gen, NEW server,
                   Become(r, [r EXCEPT !.pc = pc, !.gen = gen, !.server = server])
            PROVE  p.id = r.id
        <5>1. p = [r EXCEPT !.pc = pc, !.gen = gen, !.server = server]
          BY <1>4, <4>2 DEF Become
        <5>2. [r EXCEPT !.pc = pc, !.gen = gen, !.server = server].id = r.id
          BY <3>3
        <5> QED
          BY <5>1, <5>2
      <4> QED
        BY <3>2, <4>1, <4>2
    <3> QED
      BY <3>1, <3>5
  <2>2. CASE CheckParent(r) \/ BeginSegment(r)
    <3>1. r.pc \in Early /\ \E pc : Go(r, pc)
      BY <2>2 DEF CheckParent, BeginSegment
    <3>2. p.id = r.id
      BY <1>2, <1>4, <3>1 DEF Go, Become, Run
    <3> QED
      BY <3>1, <3>2
  <2>3. CASE \/ BeginTask(r) \/ RecheckParent(r) \/ CheckStaleRun(r)
             \/ MarkTaskSucceeded(r) \/ MarkTaskFailed(r)
             \/ MarkSegmentSucceeded(r) \/ MarkSegmentFailed(r)
    <3>1. \E pc \in {"asr", "mark", "end"} : Go(r, pc)
      BY <2>3 DEF BeginTask, RecheckParent, CheckStaleRun, MarkTaskSucceeded,
                  MarkTaskFailed, MarkSegmentSucceeded, MarkSegmentFailed
    <3>2. p.pc \in {"asr", "mark", "end"}
      BY <1>2, <1>4, <3>1 DEF Go, Become, Run
    <3> QED
      BY <3>2
  <2>4. CASE EndRun(r)
    BY <1>4, <2>4 DEF EndRun
  <2> QED
    BY <1>1, <2>1, <2>2, <2>3, <2>4
<1> QED
  BY <1>3, <1>4

(* The coroutine that stores a segment is the only one of it. *)
LEMMA MarkedIsOver ==
    ASSUME TypeOK, RunInv, SegmentInv, NEW x \in Segs, Marked(x)
    PROVE  /\ x \in inflight /\ snap' = snap
           /\ \A p \in runs' : p.id = x => p.pc = "end"
<1>1. PICK r \in runs : r.id = x /\ MarkSegmentSucceeded(r)
  BY DEF Marked
<1>2. r \in Run /\ r.mine
  BY DEF TypeOK, SegmentInv, OwnRuns
<1>3. x \in inflight /\ \A q \in runs : q.id = x => q = r
  BY <1>1, <1>2 DEF RunInv, OneRunPerItem, SegmentInv, OwnRuns
<1>4. runs' = (runs \ {r}) \cup {[r EXCEPT !.pc = "end"]} /\ snap' = snap
  BY <1>1 DEF MarkSegmentSucceeded, Go, Become
<1>5. [r EXCEPT !.pc = "end"].pc = "end"
  BY <1>2 DEF Run
<1> QED
  BY <1>3, <1>4, <1>5

LEMMA OwnRunsKept ==
    ASSUME TypeOK, SegmentInv, Lingering = FALSE \/ ~Restart, [Next]_vars
    PROVE  OwnRuns'
<1>1. CASE UNCHANGED runs
  BY <1>1 DEF SegmentInv, OwnRuns
<1>2. CASE RunStep
  <2>1. PICK r \in runs :
          \/ LoadTask(r) \/ LoadSegment(r)
          \/ EndRun(r)
          \/ BeginTask(r) \/ CheckParent(r) \/ BeginSegment(r) \/ RecheckParent(r)
          \/ CheckStaleRun(r) \/ MarkTaskSucceeded(r) \/ MarkTaskFailed(r)
          \/ MarkSegmentSucceeded(r) \/ MarkSegmentFailed(r)
    BY <1>2 DEF RunStep
  <2>2. r \in Run /\ r.mine
    BY DEF TypeOK, SegmentInv, OwnRuns
  <2>3. \/ runs' = runs \ {r}
        \/ \E pc : Go(r, pc)
        \/ \E pc, gen, server :
             Become(r, [r EXCEPT !.pc = pc, !.gen = gen, !.server = server])
    BY <2>1 DEF LoadTask, LoadSegment, EndRun, BeginTask, CheckParent, BeginSegment,
       RecheckParent, CheckStaleRun, MarkTaskSucceeded, MarkTaskFailed,
       MarkSegmentSucceeded, MarkSegmentFailed
  <2> QED
    BY <2>2, <2>3 DEF Go, Become, Run, SegmentInv, OwnRuns
<1>3. CASE DispatchCommit
  <2>1. PICK chosen : runs' = runs \cup {NewRun(i) : i \in chosen}
    BY <1>3 DEF DispatchCommit
  <2>2. \A i : NewRun(i).mine
    BY DEF NewRun
  <2> QED
    BY <2>1, <2>2 DEF SegmentInv, OwnRuns
<1>4. CASE Restart
  BY <1>4 DEF Restart, OwnRuns
<1> QED
  BY <1>1, <1>2, <1>3, <1>4, ReadFrame
     DEF Next, DispatchGiveUp, FinalizeStep, StartMerge, MergeSucceeds,
         MergeFails, RetryFailedTasks, ApiStep, CancelTask, EmergencyStop, DeleteTasks,
         memory, vars

LEMMA EarlyKept ==
    ASSUME TypeOK, RunInv, SegmentInv, Lingering = FALSE \/ ~Restart, [Next]_vars
    PROVE  EarlyUnfinished'
<1> SUFFICES ASSUME NEW p \in runs', p.id \in Segs, p.pc \in Early,
                    seg'[p.id].status = "SUCCEEDED"
             PROVE  FALSE
  BY DEF EarlyUnfinished
<1>1. ~Marked(p.id)
  BY MarkedIsOver DEF Early
<1>2. seg[p.id].status = "SUCCEEDED"
  BY <1>1, NextMovesSegment
<1>3. ~\E q \in runs : q.id = p.id /\ q.pc \in Early
  BY <1>2 DEF SegmentInv, EarlyUnfinished
<1>4. ~UNCHANGED runs
  BY <1>3
<1>5. ~RunStep
  BY <1>3, RunStaysEarly
<1>6. CASE DispatchCommit
  <2>1. PICK chosen \in SUBSET snap.items : runs' = runs \cup {NewRun(i) : i \in chosen}
    BY <1>6 DEF DispatchCommit
  <2>2. p.id \in chosen
    BY <1>3, <2>1 DEF NewRun
  <2> QED
    BY <1>2, <1>6, <2>2 DEF DispatchCommit, Planned, SegmentInv, SnapshotUnfinished
<1>7. CASE Restart
  BY <1>7 DEF Restart
<1> QED
  BY <1>4, <1>5, <1>6, <1>7, ReadFrame
     DEF Next, DispatchGiveUp, FinalizeStep, StartMerge, MergeSucceeds,
         MergeFails, RetryFailedTasks, ApiStep, CancelTask, EmergencyStop, DeleteTasks,
         memory, vars

LEMMA SnapshotKept ==
    ASSUME TypeOK, RunInv, SegmentInv, [Next]_vars
    PROVE  SnapshotUnfinished'
<1> SUFFICES ASSUME snap'.stage # "rest", NEW x \in Segs, x \in snap'.items,
                    seg'[x].status = "SUCCEEDED"
             PROVE  FALSE
  BY DEF SnapshotUnfinished
<1>1. CASE DispatchRead
  <2>1. x \notin Queued
    BY SetsAssumption DEF Queued
  <2>2. seg[x].status = "SUCCEEDED"
    BY <1>1, ReadFrame
  <2>3. ~ \E t : x \in SegsIn(t, {"PENDING"})
    BY <2>2 DEF SegsIn
  <2> QED
    BY <1>1, <2>1, <2>2, <2>3, ReadItems DEF SegmentInv, SnapshotUnfinished
<1>2. CASE snap' = snap
  <2>1. seg[x].status # "SUCCEEDED"
    BY <1>2 DEF SegmentInv, SnapshotUnfinished
  <2>2. Marked(x)
    BY <2>1, NextMovesSegment
  <2> QED
    BY <1>2, <2>2, MarkedIsOver DEF RunInv, SnapshotFree
<1>3. CASE snap' = Idle
  BY <1>3 DEF Idle
<1> QED
  BY <1>1, <1>2, <1>3
     DEF Next, DispatchCommit, DispatchGiveUp, RunStep, LoadTask, BeginTask, LoadSegment,
         CheckParent, BeginSegment, RecheckParent, CheckStaleRun, MarkTaskSucceeded,
         MarkTaskFailed, MarkSegmentSucceeded, MarkSegmentFailed, EndRun, FinalizeStep,
         StartMerge, MergeSucceeds, MergeFails, RetryFailedTasks, ApiStep, CancelTask,
         EmergencyStop, DeleteTasks, Restart, memory, vars

LEMMA InitSegments == Init => SegmentInv
<1> SUFFICES ASSUME Init PROVE SegmentInv
  OBVIOUS
<1>1. runs = {} /\ snap = Idle
  BY DEF Init
<1>2. snap.stage = "rest"
  BY <1>1 DEF Idle
<1> QED
  BY <1>1, <1>2 DEF SegmentInv, OwnRuns, EarlyUnfinished, SnapshotUnfinished

(* Where a process ends with its coroutines, no recovery, retry, late answer or *)
(* dispatch from a stale snapshot undoes the transcription of a segment, other  *)
(* than by deleting the segments of its task together.                          *)
THEOREM FinishedKept ==
    ASSUME Lingering = FALSE
    PROVE  Spec => FinishedSegmentsKept
<1> DEFINE Kept == \A x \in Segs : seg[x].status = "SUCCEEDED"
                                    => seg'[x].status \in {"SUCCEEDED", "NONE"}
<1>1. TypeOK /\ RunInv /\ SegmentInv /\ [Next]_vars => SegmentInv'
  BY OwnRunsKept, EarlyKept, SnapshotKept DEF SegmentInv
<1>2. TypeOK /\ SegmentInv /\ [Next]_vars => [Kept]_vars
  BY NextMovesSegment
<1>3. Spec => [][Kept]_vars
  <2> HIDE DEF Kept
  <2> QED
    BY <1>1, <1>2, TypeCorrect, InitRuns, NextKeepsRuns, InitSegments, PTL DEF Spec
<1> QED
  BY <1>3 DEF FinishedSegmentsKept

-----------------------------------------------------------------------------
(* A canceled task stays canceled, where no cancel falls between a dispatcher's *)
(* read and its write.  The run canceled_revived shows what happens when one    *)
(* does.                                                                        *)

CanceledUnread == snap.stage # "rest" => \A t \in snap.items \cap Tasks : task[t].status # "CANCELED"

(* Which steps leave a task canceled, and which make it so. *)
LEMMA RunMovesTask ==
    ASSUME TypeOK, RunStep, NEW t \in Tasks
    PROVE  task'[t].status = "CANCELED" <=> task[t].status = "CANCELED"
<1>1. PICK r \in runs :
        \/ LoadTask(r) \/ BeginTask(r) \/ LoadSegment(r) \/ CheckParent(r)
        \/ BeginSegment(r) \/ RecheckParent(r) \/ CheckStaleRun(r)
        \/ MarkTaskSucceeded(r) \/ MarkTaskFailed(r)
        \/ MarkSegmentSucceeded(r) \/ MarkSegmentFailed(r) \/ EndRun(r)
  BY DEF RunStep
<1>2. task \in [Tasks -> Task] /\ task[t] \in Task
  BY DEF TypeOK
<1>3. CASE task' = task
  BY <1>3
<1>4. CASE BeginTask(r)
  <2>1. r.id = t /\ task' # task => task[t].status # "CANCELED"
    BY <1>4 DEF BeginTask, CanTransition, ValidTransitions
  <2> QED
    BY <1>2, <1>4, <2>1 DEF BeginTask, Task
<1>5. CASE BeginSegment(r)
  BY <1>2, <1>5 DEF BeginSegment, Task, db
<1>6. CASE MarkTaskSucceeded(r)
  BY <1>2, <1>6 DEF MarkTaskSucceeded, Task
<1>7. CASE MarkTaskFailed(r)
  <2>1. \/ task' = task
        \/ task' = [task EXCEPT ![r.id].err = "TRANSCRIBE_ERROR", ![r.id].status = @]
        \/ /\ CanTransition(task[r.id].status, "FAILED")
           /\ task' = [task EXCEPT ![r.id].err = "TRANSCRIBE_ERROR", ![r.id].status = "FAILED"]
    BY <1>7 DEF MarkTaskFailed
  <2>2. r.id = t /\ CanTransition(task[r.id].status, "FAILED") => task[t].status # "CANCELED"
    BY DEF CanTransition, ValidTransitions
  <2> QED
    BY <1>2, <2>1, <2>2 DEF Task
<1>8. CASE MarkSegmentFailed(r)
  <2>1. CASE task' = task
    BY <2>1
  <2>2. CASE ExhaustSegment(r.id) /\ Accepts(r.id)
    BY <1>2, <2>2 DEF ExhaustSegment, Accepts, Finished, Task
  <2> QED
    BY <1>8, <2>1, <2>2 DEF MarkSegmentFailed, RetrySegment, db
<1> QED
  BY <1>1, <1>3, <1>4, <1>5, <1>6, <1>7, <1>8
     DEF LoadTask, LoadSegment, CheckParent, RecheckParent, CheckStaleRun,
         MarkSegmentSucceeded, EndRun, db

LEMMA NextKeepsCanceled ==
    ASSUME TypeOK, CanceledUnread, [Next]_vars, NEW t \in Tasks, task[t].status = "CANCELED"
    PROVE  task'[t].status \in {"CANCELED", "GONE"}
<1>1. task \in [Tasks -> Task] /\ task[t] \in Task
  BY DEF TypeOK
<1>2. CASE task' = task
  BY <1>2
<1>3. CASE RunStep
  BY <1>3, RunMovesTask
<1>4. CASE DispatchCommit
  <2>1. PICK chosen \in SUBSET snap.items : \E plan : Assign(chosen, plan)
    BY <1>4 DEF DispatchCommit
  <2>2. t \notin chosen
    BY <1>4, <2>1 DEF DispatchCommit, Planned, CanceledUnread
  <2> QED
    BY <2>1, <2>2 DEF Assign
<1>5. CASE FinalizeStep
  <2>1. ~CanTransition("CANCELED", "SUCCEEDED") /\ ~CanTransition("CANCELED", "FAILED")
    BY DEF CanTransition, ValidTransitions
  <2> QED
    BY <1>1, <1>5, <2>1 DEF FinalizeStep, StartMerge, MergeSucceeds, MergeFails, Task, db
<1>6. CASE RetryFailedTasks
  BY <1>1, <1>6 DEF RetryFailedTasks, RetriesMerge, FallsBack, Requeues, Retryable
<1>7. CASE ApiStep
  <2>1. ASSUME NEW u \in Tasks, CancelTask(u)
        PROVE  task'[t].status = "CANCELED"
    BY <1>1, <2>1 DEF CancelTask, Task
  <2>2. ASSUME NEW scope, EmergencyStop(scope)
        PROVE  task'[t].status = "CANCELED"
    BY <1>1, <2>2 DEF EmergencyStop, Task
  <2>3. ASSUME NEW statuses, DeleteTasks(statuses)
        PROVE  task'[t].status \in {"CANCELED", "GONE"}
    BY <2>3 DEF DeleteTasks, NoTask
  <2> QED
    BY <1>7, <2>1, <2>2, <2>3 DEF ApiStep
<1>8. CASE Restart
  BY <1>1, <1>8 DEF Restart, ResetTasks, Reset, Active
<1> QED
  BY <1>2, <1>3, <1>4, <1>5, <1>6, <1>7, <1>8, ReadFrame
     DEF Next, DispatchGiveUp, vars, db

LEMMA UnreadKept ==
    ASSUME TypeOK, RunInv, CanceledUnread, ApiDuringDispatch = FALSE, [Next]_vars
    PROVE  CanceledUnread'
<1> SUFFICES ASSUME snap'.stage # "rest", NEW t \in Tasks, t \in snap'.items, task'[t].status = "CANCELED"
             PROVE  FALSE
  BY DEF CanceledUnread
<1>1. CASE DispatchRead
  <2>1. task[t].status = "CANCELED"
    BY <1>1, ReadFrame
  <2>2. t \notin Queued
    BY <2>1 DEF Queued
  <2>3. ~ \E u : t \in SegsIn(u, {"PENDING"})
    BY SetsAssumption DEF SegsIn, SegsOf
  <2> QED
    BY <1>1, <2>1, <2>2, <2>3, ReadItems DEF CanceledUnread
<1>2. CASE snap' = Idle
  BY <1>2 DEF Idle
<1>3. CASE snap' = snap
  <2>1. task[t].status # "CANCELED"
    BY <1>3 DEF CanceledUnread
  <2>2. ~RunStep /\ ~UNCHANGED task
    BY <2>1, RunMovesTask
  <2>3. ~ApiStep
    BY <1>3 DEF ApiStep, CancelTask, EmergencyStop, DeleteTasks, ApiMayWrite
  <2>4. task \in [Tasks -> Task] /\ task[t] \in Task
    BY DEF TypeOK
  <2>5. CASE FinalizeStep
    BY <2>1, <2>4, <2>5 DEF FinalizeStep, StartMerge, MergeSucceeds, MergeFails, Task, db
  <2>6. CASE RetryFailedTasks
    BY <2>1, <2>4, <2>6 DEF RetryFailedTasks, Task
  <2>7. ~DispatchRead
    BY <2>2, ReadFrame
  <2>8. ~DispatchCommit /\ ~DispatchGiveUp /\ ~Restart
    BY <1>3 DEF DispatchCommit, DispatchGiveUp, Restart, Idle
  <2> QED
    BY <2>2, <2>3, <2>5, <2>6, <2>7, <2>8 DEF Next, vars
<1> QED
  BY <1>1, <1>2, <1>3
     DEF Next, DispatchCommit, DispatchGiveUp, RunStep, LoadTask, BeginTask, LoadSegment,
         CheckParent, BeginSegment, RecheckParent, CheckStaleRun, MarkTaskSucceeded,
         MarkTaskFailed, MarkSegmentSucceeded, MarkSegmentFailed, EndRun, FinalizeStep,
         StartMerge, MergeSucceeds, MergeFails, RetryFailedTasks, ApiStep, CancelTask,
         EmergencyStop, DeleteTasks, Restart, memory, vars

LEMMA InitUnread == Init => CanceledUnread
<1> SUFFICES ASSUME snap = Idle PROVE CanceledUnread
  BY DEF Init
<1>1. snap.stage = "rest"
  BY DEF Idle
<1> QED
  BY <1>1 DEF CanceledUnread

(* A late result, a retry, a merge or a restart never brings a canceled task back: *)
(* only a dispatch whose read the cancel has overtaken can.                        *)
THEOREM CanceledKept ==
    ASSUME ApiDuringDispatch = FALSE
    PROVE  Spec => CanceledStaysCanceled
<1> DEFINE Kept == \A t \in Tasks : task[t].status = "CANCELED"
                                    => task'[t].status \in {"CANCELED", "GONE"}
<1>1. TypeOK /\ RunInv /\ CanceledUnread /\ [Next]_vars => CanceledUnread'
  BY UnreadKept
<1>2. TypeOK /\ CanceledUnread /\ [Next]_vars => [Kept]_vars
  BY NextKeepsCanceled
<1>3. Spec => [][Kept]_vars
  <2> HIDE DEF Kept
  <2> QED
    BY <1>1, <1>2, TypeCorrect, InitRuns, NextKeepsRuns, InitUnread, PTL DEF Spec
<1> QED
  BY <1>3 DEF CanceledStaysCanceled

-----------------------------------------------------------------------------
(* Where no coroutine outlives its process, a restart leaves none at work, and *)
(* every task and segment to the recovery: of such behaviours, or of those     *)
(* without any restart, the following theorems speak.                          *)

CleanStep == Lingering = FALSE \/ ~Restart

LEMMA NoRestart ==
    ASSUME TypeOK, MaxRestarts = 0
    PROVE  ~Restart
  BY DEF TypeOK, Restart

LEMMA StepIsClean ==
    ASSUME TypeOK, Lingering = FALSE \/ MaxRestarts = 0
    PROVE  CleanStep
  BY NoRestart DEF CleanStep

LEMMA CleanRestart ==
    ASSUME CleanStep, Restart
    PROVE  /\ runs' = {} /\ snap' = Idle /\ snap'.stage = "rest"
           /\ merging' = {} /\ awaited' = toFinalize'
  BY DEF CleanStep, Restart, Idle

LEMMA SegmentInvKept == TypeOK /\ RunInv /\ SegmentInv /\ [Next]_vars /\ CleanStep => SegmentInv'
  BY OwnRunsKept, EarlyKept, SnapshotKept DEF SegmentInv, CleanStep

(* A coroutine that is not about to end has been at work before, or is new. *)
BeforeWork == {"load", "parent", "begin"}

LEMMA RunStaysBusy ==
    ASSUME TypeOK, RunStep, NEW p \in runs', p.pc # "end"
    PROVE  \E q \in runs : /\ q.id = p.id /\ q.pc # "end"
                           /\ p.pc \in BeforeWork => q.pc \in BeforeWork
<1> USE DEF RunOf, BeforeWork
<1>1. PICK r \in runs :
        \/ LoadTask(r) \/ BeginTask(r) \/ LoadSegment(r) \/ CheckParent(r)
        \/ BeginSegment(r) \/ RecheckParent(r) \/ CheckStaleRun(r)
        \/ MarkTaskSucceeded(r) \/ MarkTaskFailed(r)
        \/ MarkSegmentSucceeded(r) \/ MarkSegmentFailed(r) \/ EndRun(r)
  BY DEF RunStep
<1>2. r \in Run
  BY DEF TypeOK
<1>3. CASE p \in runs
  BY <1>3
<1>4. CASE p \notin runs
  <2>1. CASE LoadTask(r) \/ LoadSegment(r)
    <3>1. r.pc = "load"
      BY <2>1 DEF LoadTask, LoadSegment, RunOf
    <3>2. \/ Go(r, "end")
          \/ \E pc, gen, server :
               Become(r, [r EXCEPT !.pc = pc, !.gen = gen, !.server = server])
      BY <2>1 DEF LoadTask, LoadSegment
    <3>3. \A pc, gen, server : [r EXCEPT !.pc = pc, !.gen = gen, !.server = server].id = r.id
      BY <1>2 DEF Run
    <3>4. [r EXCEPT !.pc = "end"].id = r.id
      BY <1>2 DEF Run
    <3>5. p.id = r.id
      <4>1. CASE Go(r, "end")
        BY <1>4, <3>4, <4>1 DEF Go, Become
      <4>2. ASSUME NEW pc, NEW gen, NEW server,
                   Become(r, [r EXCEPT !.pc = pc, !.gen = gen, !.server = server])
            PROVE  p.id = r.id
        <5>1. p = [r EXCEPT !.pc = pc, !.gen = gen, !.server = server]
          BY <1>4, <4>2 DEF Become
        <5>2. [r EXCEPT !.pc = pc, !.gen = gen, !.server = server].id = r.id
          BY <3>3
        <5> QED
          BY <5>1, <5>2
      <4> QED
        BY <3>2, <4>1, <4>2
    <3> QED
      BY <3>1, <3>5
  <2>2. CASE CheckParent(r)
    <3>1. r.pc = "parent" /\ \E pc : Go(r, pc)
      BY <2>2 DEF CheckParent
    <3>2. p.id = r.id
      BY <1>2, <1>4, <3>1 DEF Go, Become, Run
    <3> QED
      BY <3>1, <3>2
  <2>3. CASE \/ BeginTask(r) \/ BeginSegment(r) \/ RecheckParent(r) \/ CheckStaleRun(r)
             \/ MarkTaskSucceeded(r) \/ MarkTaskFailed(r)
             \/ MarkSegmentSucceeded(r) \/ MarkSegmentFailed(r)
    <3>1. r.pc # "end" /\ \E pc \in {"recheck", "asr", "mark", "end"} : Go(r, pc)
      BY <2>3 DEF BeginTask, BeginSegment, RecheckParent, CheckStaleRun, MarkTaskSucceeded,
                  MarkTaskFailed, MarkSegmentSucceeded, MarkSegmentFailed
    <3>2. p.id = r.id /\ p.pc \notin BeforeWork
      BY <1>2, <1>4, <3>1 DEF Go, Become, Run
    <3> QED
      BY <3>1, <3>2
  <2>4. CASE EndRun(r)
    BY <1>4, <2>4 DEF EndRun
  <2> QED
    BY <1>1, <2>1, <2>2, <2>3, <2>4
<1> QED
  BY <1>3, <1>4

LEMMA NextStaysBusy ==
    ASSUME TypeOK, [Next]_vars, ~Restart, NEW p \in runs', p.pc # "end"
    PROVE  \/ \E q \in runs : /\ q.id = p.id /\ q.pc # "end"
                              /\ p.pc \in BeforeWork => q.pc \in BeforeWork
           \/ DispatchCommit /\ p.id \in snap.items /\ p = NewRun(p.id)
<1>1. CASE UNCHANGED runs
  BY <1>1
<1>2. CASE RunStep
  BY <1>2, RunStaysBusy
<1>3. CASE DispatchCommit
  <2>1. PICK chosen \in SUBSET snap.items : runs' = runs \cup {NewRun(i) : i \in chosen}
    BY <1>3 DEF DispatchCommit
  <2>2. \A i : NewRun(i).id = i
    BY DEF NewRun
  <2> QED
    BY <1>3, <2>1, <2>2
<1> QED
  BY <1>1, <1>2, <1>3, ReadFrame
     DEF Next, DispatchGiveUp, FinalizeStep, StartMerge, MergeSucceeds,
         MergeFails, RetryFailedTasks, ApiStep, CancelTask, EmergencyStop, DeleteTasks,
         memory, vars

(* The dispatcher gives a row it writes to a coroutine. *)
LEMMA CommitWrites ==
    ASSUME TypeOK, DispatchCommit, NEW i \in Items
    PROVE  \/ /\ i \in snap.items /\ Exists(i) /\ NewRun(i) \in runs'
              /\ i \in Segs => seg'[i].status = "DISPATCHED" /\ seg'[i].server \in Servers
              /\ i \in Tasks => task'[i].status = "DISPATCHED"
           \/ /\ NewRun(i) \in runs' => NewRun(i) \in runs
              /\ i \in Segs => seg'[i] = seg[i]
              /\ i \in Tasks => \/ task'[i] = task[i]
                                \/ task[i].status = "QUEUED" /\ task'[i].status = "DISPATCHED"
<1>1. PICK chosen \in SUBSET snap.items : \E plan \in [chosen -> snap.avail] :
        /\ \A j \in chosen : Exists(j)
        /\ Assign(chosen, plan)
        /\ runs' = runs \cup {NewRun(j) : j \in chosen}
  BY DEF DispatchCommit
<1>2. PICK plan \in [chosen -> snap.avail] : Assign(chosen, plan)
  BY <1>1
<1>3. snap.avail \subseteq Servers /\ task \in [Tasks -> Task] /\ seg \in [Segs -> Segment]
  BY DEF TypeOK
<1>4. CASE i \in chosen
  <2>1. plan[i] \in Servers
    BY <1>2, <1>3, <1>4
  <2>2. i \in Segs => seg'[i].status = "DISPATCHED" /\ seg'[i].server \in Servers
    BY <1>2, <1>3, <1>4, <2>1 DEF Assign, Segment
  <2>3. i \in Tasks => task'[i].status = "DISPATCHED"
    BY <1>2, <1>3, <1>4 DEF Assign, Task
  <2> QED
    BY <1>1, <1>4, <2>2, <2>3
<1>5. CASE i \notin chosen
  <2>1. i \in Segs => seg'[i] = seg[i]
    BY <1>2, <1>5 DEF Assign
  <2>2. i \in Tasks => \/ task'[i] = task[i]
                       \/ task[i].status = "QUEUED" /\ task'[i].status = "DISPATCHED"
    <3> SUFFICES ASSUME i \in Tasks
                 PROVE  \/ task'[i] = task[i]
                        \/ task[i].status = "QUEUED" /\ task'[i].status = "DISPATCHED"
      OBVIOUS
    <3>1. task[i] \in Task
      BY <1>3
    <3> QED
      BY <1>2, <1>5, <3>1 DEF Assign, Task
  <2>3. \A j : NewRun(j).id = j
    BY DEF NewRun
  <2> QED
    BY <1>1, <1>5, <2>1, <2>2, <2>3
<1> QED
  BY <1>4, <1>5

-----------------------------------------------------------------------------
(* The segments of a task that nobody works on.  A whole file is taken of a     *)
(* task only when none of its segments is at work and none waits: it is then    *)
(* shut, its segments are over, and no step of anybody opens one of them again. *)

BusyNotPending == \A r \in runs : r.id \in Segs /\ r.pc # "end" => seg[r.id].status # "PENDING"
Unsegmented(t) == \A x \in Segs : Parent[x] = t => seg[x].status = "NONE"
IdleRows(t)    == \A r \in runs : r.id \in SegsOf(t) /\ r.pc # "end" => seg[r.id].status = "NONE"
Unopened(t)    == \A x \in SegsOf(t) : seg[x].status \in {"NONE", "SUCCEEDED", "FAILED"}
Shut(t)        == Unopened(t) /\ IdleRows(t) /\ SegsOf(t) \cap snap.items = {}

(* A deleted segment stays deleted. *)
LEMMA NoRowStays ==
    ASSUME TypeOK, [Next]_vars, NEW x \in Segs, seg[x].status = "NONE"
    PROVE  seg'[x].status = "NONE"
<1>1. seg \in [Segs -> Segment] /\ seg[x] \in Segment /\ Segs \subseteq Items
  BY DEF TypeOK, Items
<1>2. CASE seg' = seg
  BY <1>2
<1>3. CASE DispatchCommit
  BY <1>1, <1>3, CommitWrites, SetsAssumption DEF Exists
<1>4. CASE RunStep
  <2>1. PICK r \in runs :
          \/ LoadTask(r) \/ BeginTask(r) \/ LoadSegment(r) \/ CheckParent(r)
          \/ BeginSegment(r) \/ RecheckParent(r) \/ CheckStaleRun(r)
          \/ MarkTaskSucceeded(r) \/ MarkTaskFailed(r)
          \/ MarkSegmentSucceeded(r) \/ MarkSegmentFailed(r) \/ EndRun(r)
    BY <1>4 DEF RunStep
  <2>2. CASE CheckParent(r)
    BY <1>1, <2>2 DEF CheckParent, Segment
  <2>3. CASE BeginSegment(r)
    <3>1. r.id = x => ~Exists(r.id)
      BY <2>3, SetsAssumption DEF Exists
    <3> QED
      BY <1>1, <2>3, <3>1 DEF BeginSegment, Segment, db
  <2>4. CASE RecheckParent(r)
    BY <1>1, <2>4 DEF RecheckParent, Segment
  <2>5. CASE MarkSegmentSucceeded(r)
    <3>1. r.id = x => ~Accepts(r.id)
      BY DEF Accepts, Active
    <3> QED
      BY <1>1, <2>5, <3>1 DEF MarkSegmentSucceeded, Segment
  <2>6. CASE MarkSegmentFailed(r)
    <3>1. r.id = x => ~Accepts(r.id)
      BY DEF Accepts, Active
    <3>2. CASE RetrySegment(r.id) /\ Accepts(r.id)
      BY <1>1, <3>1, <3>2 DEF RetrySegment, Segment
    <3>3. CASE ExhaustSegment(r.id)
      BY <1>1, <3>3 DEF ExhaustSegment, Segment
    <3> QED
      BY <1>2, <2>6, <3>2, <3>3 DEF MarkSegmentFailed, db
  <2> QED
    BY <1>2, <2>1, <2>2, <2>3, <2>4, <2>5, <2>6
       DEF LoadTask, BeginTask, LoadSegment, CheckStaleRun, MarkTaskSucceeded,
           MarkTaskFailed, EndRun, db
<1>5. CASE RetryFailedTasks
  BY <1>1, <1>5 DEF RetryFailedTasks, NoSegment
<1>6. CASE ApiStep
  <2>1. ASSUME NEW S, ReleaseSegments(S)
        PROVE  seg'[x] = seg[x]
    BY <2>1 DEF ReleaseSegments, Active
  <2>2. ASSUME NEW statuses, DeleteTasks(statuses)
        PROVE  seg'[x].status = "NONE"
    BY <2>2 DEF DeleteTasks, NoSegment
  <2> QED
    BY <1>6, <2>1, <2>2 DEF ApiStep, CancelTask, EmergencyStop
<1>7. CASE Restart
  BY <1>1, <1>7 DEF Restart, RecoverSegments, PutBack, Active, Segment
<1> QED
  BY <1>2, <1>3, <1>4, <1>5, <1>6, <1>7, ReadFrame
     DEF Next, DispatchGiveUp, FinalizeStep, StartMerge, MergeSucceeds,
         MergeFails, vars, db

LEMMA UnsegmentedStays ==
    ASSUME TypeOK, [Next]_vars, NEW t, Unsegmented(t)
    PROVE  Unsegmented(t)'
  BY NoRowStays DEF Unsegmented

(* A row no coroutine works on is left alone, deleted, or failed with its task. *)
LEMMA IdleRowMoves ==
    ASSUME TypeOK, [Next]_vars, ~Restart, NEW x \in Segs,
           \A r \in runs : r.id = x => r.pc = "end",
           ~(DispatchCommit /\ x \in snap.items)
    PROVE  \/ seg'[x].status \in {seg[x].status, "NONE"}
           \/ seg[x].status \in Open /\ seg'[x].status = "FAILED"
<1>1. seg \in [Segs -> Segment] /\ seg[x] \in Segment /\ x \in Items
  BY DEF TypeOK, Items
<1>2. CASE seg' = seg
  BY <1>2
<1>3. CASE DispatchCommit
  BY <1>1, <1>3, CommitWrites
<1>4. CASE RunStep
  <2>1. PICK r \in runs :
          \/ LoadTask(r) \/ BeginTask(r) \/ LoadSegment(r) \/ CheckParent(r)
          \/ BeginSegment(r) \/ RecheckParent(r) \/ CheckStaleRun(r)
          \/ MarkTaskSucceeded(r) \/ MarkTaskFailed(r)
          \/ MarkSegmentSucceeded(r) \/ MarkSegmentFailed(r) \/ EndRun(r)
    BY <1>4 DEF RunStep
  <2>2. CASE CheckParent(r) \/ BeginSegment(r) \/ RecheckParent(r) \/ MarkSegmentSucceeded(r)
    <3>1. r.id # x
      BY <2>2 DEF CheckParent, BeginSegment, RecheckParent, MarkSegmentSucceeded, RunOf
    <3> QED
      BY <1>1, <2>2, <3>1
         DEF CheckParent, BeginSegment, RecheckParent, MarkSegmentSucceeded, db
  <2>3. CASE MarkSegmentFailed(r)
    <3>1. r.id # x
      BY <2>3 DEF MarkSegmentFailed, RunOf
    <3>2. CASE RetrySegment(r.id)
      BY <1>1, <3>1, <3>2 DEF RetrySegment
    <3>3. CASE ExhaustSegment(r.id)
      BY <1>1, <3>3 DEF ExhaustSegment, Segment, SegmentStatus, Open, Active
    <3> QED
      BY <1>2, <2>3, <3>2, <3>3 DEF MarkSegmentFailed, db
  <2> QED
    BY <1>2, <2>1, <2>2, <2>3
       DEF LoadTask, BeginTask, LoadSegment, CheckStaleRun, MarkTaskSucceeded,
           MarkTaskFailed, EndRun, db
<1>5. CASE RetryFailedTasks
  BY <1>5 DEF RetryFailedTasks, NoSegment
<1>6. CASE ApiStep
  <2>1. ASSUME NEW S, ReleaseSegments(S)
        PROVE  seg'[x] = seg[x] \/ (seg[x].status \in Open /\ seg'[x].status = "FAILED")
    <3>1. CASE Parent[x] \in S /\ seg[x].status \in Active \cup {"PENDING"}
      BY <1>1, <2>1, <3>1 DEF ReleaseSegments, Segment, Open
    <3>2. CASE ~(Parent[x] \in S /\ seg[x].status \in Active \cup {"PENDING"})
      BY <2>1, <3>2 DEF ReleaseSegments
    <3> QED
      BY <3>1, <3>2
  <2>2. ASSUME NEW statuses, DeleteTasks(statuses)
        PROVE  seg'[x] = seg[x] \/ seg'[x].status = "NONE"
    BY <2>2 DEF DeleteTasks, NoSegment
  <2> QED
    BY <1>6, <2>1, <2>2 DEF ApiStep, CancelTask, EmergencyStop
<1> QED
  BY <1>2, <1>3, <1>4, <1>5, <1>6, ReadFrame
     DEF Next, DispatchGiveUp, FinalizeStep, StartMerge, MergeSucceeds,
         MergeFails, vars, db

LEMMA IdleStays ==
    ASSUME TypeOK, [Next]_vars, ~Restart, NEW t, IdleRows(t),
           ~(DispatchCommit /\ SegsOf(t) \cap snap.items # {})
    PROVE  /\ IdleRows(t)'
           /\ \A x \in SegsOf(t) : \/ seg'[x].status \in {seg[x].status, "NONE"}
                                   \/ seg[x].status \in Open /\ seg'[x].status = "FAILED"
<1>1. ASSUME NEW x \in SegsOf(t)
      PROVE  \/ seg'[x].status \in {seg[x].status, "NONE"}
             \/ seg[x].status \in Open /\ seg'[x].status = "FAILED"
  <2>1. x \in Segs
    BY DEF SegsOf
  <2>2. CASE seg[x].status = "NONE"
    BY <2>1, <2>2, NoRowStays
  <2>3. CASE seg[x].status # "NONE"
    <3>1. \A r \in runs : r.id = x => r.pc = "end"
      BY <2>3 DEF IdleRows
    <3> QED
      BY <2>1, <3>1, IdleRowMoves
  <2> QED
    BY <2>2, <2>3
<1>2. ASSUME NEW p \in runs', p.id \in SegsOf(t), p.pc # "end"
      PROVE  seg'[p.id].status = "NONE"
  <2>1. p.id \in Segs
    BY <1>2 DEF SegsOf
  <2>2. PICK q \in runs : q.id = p.id /\ q.pc # "end"
    BY <1>2, NextStaysBusy
  <2>3. seg[p.id].status = "NONE"
    BY <1>2, <2>2 DEF IdleRows
  <2> QED
    BY <2>1, <2>3, NoRowStays
<1> QED
  BY <1>1, <1>2 DEF IdleRows, SegsOf

(* What the dispatcher has read changes when it reads on, or ends its cycle. *)
LEMMA SnapshotMoves ==
    ASSUME [Next]_vars
    PROVE  snap' = snap \/ snap' = Idle \/ DispatchRead
  BY DEF Next, DispatchCommit, DispatchGiveUp, RunStep, LoadTask, BeginTask, LoadSegment,
         CheckParent, BeginSegment, RecheckParent, CheckStaleRun, MarkTaskSucceeded,
         MarkTaskFailed, MarkSegmentSucceeded, MarkSegmentFailed, EndRun, FinalizeStep,
         StartMerge, MergeSucceeds, MergeFails, RetryFailedTasks, ApiStep, CancelTask,
         EmergencyStop, DeleteTasks, Restart, memory, vars

LEMMA ShutStays ==
    ASSUME TypeOK, RunInv, [Next]_vars, CleanStep, NEW t \in Tasks, Shut(t)
    PROVE  /\ Shut(t)'
           /\ \A x \in SegsOf(t) : seg'[x].status \in {seg[x].status, "NONE"}
<1>1. CASE Restart
  <2>1. \A x \in SegsOf(t) : seg'[x].status = seg[x].status
    <3> SUFFICES ASSUME NEW x \in SegsOf(t) PROVE seg'[x].status = seg[x].status
      OBVIOUS
    <3>1. x \in Segs /\ seg[x].status \notin Active
      BY DEF Shut, Unopened, SegsOf, Active
    <3> QED
      BY <1>1, <3>1 DEF Restart, RecoverSegments, PutBack
  <2>2. runs' = {} /\ snap'.items = {}
    BY <1>1, CleanRestart DEF Idle
  <2> QED
    BY <2>1, <2>2 DEF Shut, Unopened, IdleRows, SegsOf
<1>2. CASE ~Restart
  <2>1. /\ IdleRows(t)'
        /\ \A x \in SegsOf(t) : \/ seg'[x].status \in {seg[x].status, "NONE"}
                                \/ seg[x].status \in Open /\ seg'[x].status = "FAILED"
    BY <1>2, IdleStays DEF Shut
  <2>2. \A x \in SegsOf(t) : seg'[x].status \in {seg[x].status, "NONE"}
    BY <2>1 DEF Shut, Unopened, Open, Active
  <2>3. SegsOf(t) \cap snap'.items = {}
    <3> SUFFICES ASSUME NEW x \in SegsOf(t), x \in snap'.items PROVE FALSE
      OBVIOUS
    <3>1. x \in Segs /\ seg[x].status # "PENDING" /\ x \notin snap.items
      BY DEF Shut, Unopened, SegsOf
    <3>2. x \notin Queued /\ ~ \E u : x \in SegsIn(u, {"PENDING"})
      BY <3>1, SetsAssumption DEF Queued, SegsIn
    <3>3. CASE snap' = snap
      BY <3>1, <3>3
    <3>4. CASE snap' = Idle
      BY <3>4 DEF Idle
    <3>5. CASE DispatchRead
      BY <3>1, <3>2, <3>5, ReadItems
    <3> QED
      BY <3>3, <3>4, <3>5, SnapshotMoves
  <2> QED
    BY <2>1, <2>2, <2>3 DEF Shut, Unopened, SegsOf
<1> QED
  BY <1>1, <1>2

(* A segment waits again when its coroutine has reported a failure and ends. *)
LEMMA NewlyPending ==
    ASSUME TypeOK, [Next]_vars, ~Restart, NEW x \in Segs, seg'[x].status = "PENDING"
    PROVE  \/ seg[x].status = "PENDING"
           \/ \E r \in runs : r.id = x /\ Go(r, "end")
<1>1. seg \in [Segs -> Segment] /\ seg[x] \in Segment /\ Segs \subseteq Items
  BY DEF TypeOK, Items
<1>2. CASE seg' = seg
  BY <1>2
<1>3. CASE DispatchCommit
  BY <1>1, <1>3, CommitWrites
<1>4. CASE RunStep
  <2>1. PICK r \in runs :
          \/ LoadTask(r) \/ BeginTask(r) \/ LoadSegment(r) \/ CheckParent(r)
          \/ BeginSegment(r) \/ RecheckParent(r) \/ CheckStaleRun(r)
          \/ MarkTaskSucceeded(r) \/ MarkTaskFailed(r)
          \/ MarkSegmentSucceeded(r) \/ MarkSegmentFailed(r) \/ EndRun(r)
    BY <1>4 DEF RunStep
  <2>2. CASE CheckParent(r) \/ BeginSegment(r) \/ RecheckParent(r) \/ MarkSegmentSucceeded(r)
    BY <1>1, <2>2 DEF CheckParent, BeginSegment, RecheckParent, MarkSegmentSucceeded, Segment, db
  <2>3. CASE MarkSegmentFailed(r)
    <3>1. CASE RetrySegment(r.id)
      <4>1. CASE r.id = x
        BY <2>3, <4>1 DEF MarkSegmentFailed
      <4>2. CASE r.id # x
        BY <1>1, <3>1, <4>2 DEF RetrySegment
      <4> QED
        BY <4>1, <4>2
    <3>2. CASE ExhaustSegment(r.id)
      BY <1>1, <3>2 DEF ExhaustSegment, Segment
    <3> QED
      BY <1>2, <2>3, <3>1, <3>2 DEF MarkSegmentFailed, db
  <2> QED
    BY <1>2, <2>1, <2>2, <2>3
       DEF LoadTask, BeginTask, LoadSegment, CheckStaleRun, MarkTaskSucceeded,
           MarkTaskFailed, EndRun, db
<1>5. CASE RetryFailedTasks
  BY <1>1, <1>5 DEF RetryFailedTasks, NoSegment
<1>6. CASE ApiStep
  <2>1. ASSUME NEW S, ReleaseSegments(S)
        PROVE  seg[x].status = "PENDING"
    BY <1>1, <2>1 DEF ReleaseSegments, Segment
  <2>2. ASSUME NEW statuses, DeleteTasks(statuses)
        PROVE  seg[x].status = "PENDING"
    BY <2>2 DEF DeleteTasks, NoSegment
  <2> QED
    BY <1>6, <2>1, <2>2 DEF ApiStep, CancelTask, EmergencyStop
<1> QED
  BY <1>2, <1>3, <1>4, <1>5, <1>6, ReadFrame
     DEF Next, DispatchGiveUp, FinalizeStep, StartMerge, MergeSucceeds,
         MergeFails, vars, db

LEMMA BusyKept ==
    ASSUME TypeOK, RunInv, SegmentInv, BusyNotPending, [Next]_vars, CleanStep
    PROVE  BusyNotPending'
<1> SUFFICES ASSUME NEW p \in runs', p.id \in Segs, p.pc # "end", seg'[p.id].status = "PENDING"
             PROVE  FALSE
  BY DEF BusyNotPending
<1>1. p.id \in Items /\ ~Restart
  BY CleanRestart DEF Items
<1>2. ~(DispatchCommit /\ p.id \in snap.items /\ p = NewRun(p.id))
  <2> SUFFICES ASSUME DispatchCommit, p.id \in snap.items, p = NewRun(p.id) PROVE FALSE
    OBVIOUS
  <2>1. NewRun(p.id) \in runs /\ seg'[p.id] = seg[p.id]
    BY <1>1, CommitWrites
  <2> QED
    BY <2>1 DEF BusyNotPending
<1>3. PICK q \in runs : q.id = p.id /\ q.pc # "end"
  BY <1>1, <1>2, NextStaysBusy
<1>4. seg[p.id].status # "PENDING"
  BY <1>3 DEF BusyNotPending
<1>5. PICK r \in runs : r.id = p.id /\ Go(r, "end")
  BY <1>1, <1>4, NewlyPending
<1>6. \A o \in runs : o.id = p.id => o = r
  BY <1>5 DEF SegmentInv, OwnRuns, RunInv, OneRunPerItem
<1>7. r \in Run
  BY DEF TypeOK
<1>8. p.pc = "end"
  BY <1>5, <1>6, <1>7 DEF Go, Become, Run
<1> QED
  BY <1>8

-----------------------------------------------------------------------------
(* A task is not transcribed as a whole file beside its segments.  It is queued *)
(* with segments only before the first of them is dispatched, when all of them  *)
(* are PENDING; a cancel between the dispatcher's reads fails those, and then   *)
(* the task may be taken for a whole file, but none of its segments for work.   *)

QueuedWaits == \A x \in Segs : task[Parent[x]].status = "QUEUED"
                                 => seg[x].status \in {"NONE", "PENDING"}
Waits(t)    == /\ IdleRows(t)
               /\ \A x \in SegsOf(t) : seg[x].status \in {"NONE", "PENDING", "FAILED"}
Uncut(t)    == Shut(t) /\ \A x \in SegsOf(t) : seg[x].status # "SUCCEEDED"

SnapshotWhole == /\ snap.stage = "queue" => \A t \in snap.items \cap Tasks : Waits(t)
                 /\ snap.stage = "work" => \A t \in snap.items \cap Tasks : Uncut(t)
WholeAlone    == \A r \in runs : r.id \in Tasks /\ r.pc # "end" => Uncut(r.id)

WholeInv == BusyNotPending /\ QueuedWaits /\ SnapshotWhole /\ WholeAlone

LEMMA UncutStays ==
    ASSUME TypeOK, RunInv, [Next]_vars, CleanStep, NEW t \in Tasks, Uncut(t)
    PROVE  Uncut(t)'
<1>1. Shut(t)' /\ \A x \in SegsOf(t) : seg'[x].status \in {seg[x].status, "NONE"}
  BY ShutStays DEF Uncut
<1> QED
  BY <1>1 DEF Uncut, SegsOf

(* Without a restart a task is queued again only when it has no segments any more. *)
LEMMA NewlyQueued ==
    ASSUME TypeOK, [Next]_vars, ~Restart, NEW x \in Segs, task'[Parent[x]].status = "QUEUED"
    PROVE  task[Parent[x]].status = "QUEUED" \/ seg'[x].status = "NONE"
<1> DEFINE t == Parent[x]
<1>1. task \in [Tasks -> Task] /\ t \in Tasks /\ task[t] \in Task /\ t \in Items
  BY SetsAssumption DEF TypeOK, Items
<1>2. CASE task' = task
  BY <1>2
<1>3. CASE DispatchCommit
  BY <1>1, <1>3, CommitWrites
<1>4. CASE RunStep
  <2>1. PICK r \in runs :
          \/ LoadTask(r) \/ BeginTask(r) \/ LoadSegment(r) \/ CheckParent(r)
          \/ BeginSegment(r) \/ RecheckParent(r) \/ CheckStaleRun(r)
          \/ MarkTaskSucceeded(r) \/ MarkTaskFailed(r)
          \/ MarkSegmentSucceeded(r) \/ MarkSegmentFailed(r) \/ EndRun(r)
    BY <1>4 DEF RunStep
  <2>2. CASE BeginTask(r)
    BY <1>1, <2>2 DEF BeginTask, Task
  <2>3. CASE BeginSegment(r)
    BY <1>1, <2>3 DEF BeginSegment, Task, db
  <2>4. CASE MarkTaskSucceeded(r)
    BY <1>1, <2>4 DEF MarkTaskSucceeded, Task
  <2>5. CASE MarkTaskFailed(r)
    <3>1. \/ task' = task
          \/ task' = [task EXCEPT ![r.id].err = "TRANSCRIBE_ERROR", ![r.id].status = "FAILED"]
          \/ task' = [task EXCEPT ![r.id].err = "TRANSCRIBE_ERROR", ![r.id].status = @]
      BY <2>5 DEF MarkTaskFailed
    <3> QED
      BY <1>1, <3>1 DEF Task
  <2>6. CASE MarkSegmentFailed(r)
    <3>1. CASE ExhaustSegment(r.id)
      BY <1>1, <3>1 DEF ExhaustSegment, Task
    <3> QED
      BY <1>2, <2>6, <3>1 DEF MarkSegmentFailed, RetrySegment, db
  <2> QED
    BY <1>2, <2>1, <2>2, <2>3, <2>4, <2>5, <2>6
       DEF LoadTask, LoadSegment, CheckParent, RecheckParent, CheckStaleRun,
           MarkSegmentSucceeded, EndRun, db
<1>5. CASE FinalizeStep
  BY <1>1, <1>5 DEF FinalizeStep, StartMerge, MergeSucceeds, MergeFails, Task, db
<1>6. CASE RetryFailedTasks
  <2>1. CASE FallsBack(t)
    BY <1>6, <2>1 DEF RetryFailedTasks, NoSegment
  <2>2. CASE Requeues(t)
    <3>1. seg[x].status = "NONE"
      BY <2>2 DEF Requeues, Rows, SegsOf
    <3> QED
      BY <3>1, NoRowStays
  <2>3. CASE ~FallsBack(t) /\ ~Requeues(t)
    BY <1>1, <1>6, <2>3 DEF RetryFailedTasks, Task
  <2> QED
    BY <2>1, <2>2, <2>3
<1>7. CASE ApiStep
  <2>1. ASSUME NEW u \in Tasks, CancelTask(u)
        PROVE  task[t].status = "QUEUED"
    BY <1>1, <2>1 DEF CancelTask, Task
  <2>2. ASSUME NEW scope, EmergencyStop(scope)
        PROVE  task[t].status = "QUEUED"
    BY <1>1, <2>2 DEF EmergencyStop, Task
  <2>3. ASSUME NEW statuses, DeleteTasks(statuses)
        PROVE  task[t].status = "QUEUED"
    BY <1>1, <2>3 DEF DeleteTasks, NoTask
  <2> QED
    BY <1>7, <2>1, <2>2, <2>3 DEF ApiStep
<1> QED
  BY <1>2, <1>3, <1>4, <1>5, <1>6, <1>7, ReadFrame DEF Next, DispatchGiveUp, vars, db

(* A segment that waits while its task is queued goes on waiting. *)
LEMMA WaitingStays ==
    ASSUME TypeOK, BusyNotPending, [Next]_vars, ~Restart, NEW x \in Segs, seg[x].status = "PENDING",
           task[Parent[x]].status = "QUEUED", task'[Parent[x]].status = "QUEUED"
    PROVE  seg'[x].status \in {"NONE", "PENDING"}
<1> DEFINE t == Parent[x]
<1>1. /\ task \in [Tasks -> Task] /\ t \in Tasks /\ task[t] \in Task /\ t \in Items
      /\ seg \in [Segs -> Segment] /\ seg[x] \in Segment /\ x \in Items
  BY SetsAssumption DEF TypeOK, Items
<1>2. \A r \in runs : r.id = x => r.pc = "end"
  BY DEF BusyNotPending
<1>3. CASE seg' = seg
  BY <1>3
<1>4. CASE DispatchCommit
  <2>1. PICK chosen \in SUBSET snap.items : \E plan : Assign(chosen, plan)
    BY <1>4 DEF DispatchCommit
  <2>2. x \notin chosen
    <3> SUFFICES ASSUME x \in chosen PROVE task'[t].status = "DISPATCHED"
      OBVIOUS
    <3>1. x \in chosen \cap SegsOf(t)
      BY DEF SegsOf
    <3>2. \/ \E plan : task'[t] = [task[t] EXCEPT !.status = "DISPATCHED", !.server = plan[t],
                                               !.gen = snap.gen[t] + 1]
          \/ task'[t] = [task[t] EXCEPT !.status = "DISPATCHED"]
      BY <1>1, <2>1, <3>1 DEF Assign
    <3> QED
      BY <1>1, <3>2 DEF Task
  <2> QED
    BY <2>1, <2>2 DEF Assign
<1>5. CASE RunStep
  <2>1. PICK r \in runs :
          \/ LoadTask(r) \/ BeginTask(r) \/ LoadSegment(r) \/ CheckParent(r)
          \/ BeginSegment(r) \/ RecheckParent(r) \/ CheckStaleRun(r)
          \/ MarkTaskSucceeded(r) \/ MarkTaskFailed(r)
          \/ MarkSegmentSucceeded(r) \/ MarkSegmentFailed(r) \/ EndRun(r)
    BY <1>5 DEF RunStep
  <2>2. CASE CheckParent(r) \/ BeginSegment(r) \/ RecheckParent(r) \/ MarkSegmentSucceeded(r)
    <3>1. r.id # x
      BY <1>2, <2>2
         DEF CheckParent, BeginSegment, RecheckParent, MarkSegmentSucceeded, RunOf
    <3> QED
      BY <1>1, <2>2, <3>1
         DEF CheckParent, BeginSegment, RecheckParent, MarkSegmentSucceeded, Segment, db
  <2>3. CASE MarkSegmentFailed(r)
    <3>1. r.id # x
      BY <1>2, <2>3 DEF MarkSegmentFailed, RunOf
    <3>2. CASE RetrySegment(r.id)
      BY <1>1, <3>1, <3>2 DEF RetrySegment, Segment
    <3>3. CASE ExhaustSegment(r.id)
      <4>1. Parent[r.id] # t
        BY <1>1, <3>3 DEF ExhaustSegment, Task
      <4> QED
        BY <3>3, <4>1 DEF ExhaustSegment, SegsOf
    <3> QED
      BY <1>3, <2>3, <3>2, <3>3 DEF MarkSegmentFailed, db
  <2> QED
    BY <1>3, <2>1, <2>2, <2>3
       DEF LoadTask, BeginTask, LoadSegment, CheckStaleRun, MarkTaskSucceeded,
           MarkTaskFailed, EndRun, db
<1>6. CASE RetryFailedTasks
  BY <1>6 DEF RetryFailedTasks, NoSegment
<1>7. CASE ApiStep
  <2>1. ASSUME NEW u \in Tasks, CancelTask(u)
        PROVE  seg'[x] = seg[x]
    <3>1. t # u
      BY <1>1, <2>1 DEF CancelTask, Task
    <3> QED
      BY <2>1, <3>1 DEF CancelTask, ReleaseSegments
  <2>2. ASSUME NEW scope, EmergencyStop(scope)
        PROVE  seg'[x] = seg[x]
    <3>1. t \notin scope
      BY <1>1, <2>2 DEF EmergencyStop, Task
    <3> QED
      BY <2>2, <3>1 DEF EmergencyStop, ReleaseSegments
  <2>3. ASSUME NEW statuses, DeleteTasks(statuses)
        PROVE  seg'[x] = seg[x] \/ seg'[x].status = "NONE"
    BY <2>3 DEF DeleteTasks, NoSegment
  <2> QED
    BY <1>7, <2>1, <2>2, <2>3 DEF ApiStep
<1> QED
  BY <1>3, <1>4, <1>5, <1>6, <1>7, ReadFrame
     DEF Next, DispatchGiveUp, FinalizeStep, StartMerge, MergeSucceeds,
         MergeFails, vars, db

LEMMA QueuedWaitsKept ==
    ASSUME TypeOK, WholeInv, [Next]_vars, ~Restart
    PROVE  QueuedWaits'
<1> SUFFICES ASSUME NEW x \in Segs, task'[Parent[x]].status = "QUEUED"
             PROVE  seg'[x].status \in {"NONE", "PENDING"}
  BY DEF QueuedWaits
<1>1. CASE seg'[x].status = "NONE"
  BY <1>1
<1>2. CASE task[Parent[x]].status = "QUEUED"
  <2>1. seg[x].status \in {"NONE", "PENDING"} /\ BusyNotPending
    BY <1>2 DEF WholeInv, QueuedWaits
  <2> QED
    BY <1>2, <2>1, NoRowStays, WaitingStays
<1> QED
  BY <1>1, <1>2, NewlyQueued

LEMMA SnapshotWholeKept ==
    ASSUME TypeOK, RunInv, WholeInv, [Next]_vars, ~Restart
    PROVE  SnapshotWhole'
<1>1. ASSUME NEW t \in Tasks, t \in snap.items, snap.stage = "work"
      PROVE  Uncut(t)'
  BY <1>1, UncutStays DEF WholeInv, SnapshotWhole, CleanStep
<1>2. CASE snap' = Idle
  BY <1>2 DEF Idle, SnapshotWhole
<1>3. CASE snap' = snap
  <2>1. ASSUME NEW t \in Tasks, t \in snap.items, snap.stage = "queue"
        PROVE  Waits(t)'
    <3>1. ~DispatchCommit
      BY <2>1, <1>3 DEF DispatchCommit, Planned
    <3>2. Waits(t)
      BY <2>1 DEF WholeInv, SnapshotWhole
    <3>3. IdleRows(t)' /\ \A x \in SegsOf(t) : seg'[x].status \in {seg[x].status, "NONE", "FAILED"}
      BY <3>1, <3>2, IdleStays DEF Waits
    <3> QED
      BY <3>2, <3>3 DEF Waits, SegsOf
  <2> QED
    BY <1>1, <1>3, <2>1 DEF SnapshotWhole
<1>4. CASE DispatchRead
  <2>1. CASE ReadsQueue
    <3>1. ASSUME NEW t \in Queued
          PROVE  Waits(t)
      <4>1. \A x \in SegsOf(t) : seg[x].status \in {"NONE", "PENDING"}
        BY <3>1 DEF Queued, WholeInv, QueuedWaits, SegsOf
      <4> QED
        BY <4>1 DEF Waits, IdleRows, WholeInv, BusyNotPending, SegsOf
    <3>2. \A t \in Tasks : Waits(t) => Waits(t)'
      BY <1>4, ReadFrame DEF Waits, IdleRows, SegsOf
    <3> QED
      BY <2>1, <3>1, <3>2 DEF ReadsQueue, SnapshotWhole, Queued
  <2>2. CASE ReadsParents
    <3>1. ASSUME NEW t \in Tasks, t \in WholeFileWork
          PROVE  Uncut(t)'
      <4>1. Waits(t) /\ ~HasPending(t)
        BY <2>2, <3>1 DEF ReadsParents, WholeFileWork, WholeInv, SnapshotWhole
      <4>2. \A x \in SegsOf(t) : seg[x].status \in {"NONE", "FAILED"}
        BY <4>1 DEF Waits, HasPending, SegsIn
      <4>3. SegsOf(t) \cap snap'.items = {}
        BY <2>2, SetsAssumption
           DEF ReadsParents, WholeFileWork, RunInv, SnapshotForm, SegsOf
      <4>4. seg' = seg /\ runs' = runs
        BY <1>4, ReadFrame
      <4> QED
        BY <4>1, <4>2, <4>3, <4>4 DEF Uncut, Shut, Unopened, Waits, IdleRows, SegsOf
    <3> QED
      BY <2>2, <3>1 DEF ReadsParents, SnapshotWhole
  <2>3. CASE \E u \in snap.parents : \E picked \in SUBSET Segs : ReadsSegments(u, picked)
    <3>1. snap.stage = "work" /\ snap'.stage = "work"
      BY <2>3 DEF ReadsSegments, RunInv, SnapshotForm
    <3>2. \A t \in snap'.items \cap Tasks : t \in snap.items
      BY <2>3, SetsAssumption DEF ReadsSegments
    <3> QED
      BY <1>1, <3>1, <3>2 DEF SnapshotWhole
  <2> QED
    BY <1>2, <1>4, <2>1, <2>2, <2>3, ReadMoves
<1> QED
  BY <1>2, <1>3, <1>4, SnapshotMoves

LEMMA WholeAloneKept ==
    ASSUME TypeOK, RunInv, WholeInv, [Next]_vars, ~Restart
    PROVE  WholeAlone'
<1> SUFFICES ASSUME NEW p \in runs', p.id \in Tasks, p.pc # "end"
             PROVE  Uncut(p.id)'
  BY DEF WholeAlone
<1>1. CASE DispatchCommit /\ p.id \in snap.items
  BY <1>1, UncutStays DEF DispatchCommit, Planned, WholeInv, SnapshotWhole, CleanStep
<1>2. CASE \E q \in runs : q.id = p.id /\ q.pc # "end"
  BY <1>2, UncutStays DEF WholeInv, WholeAlone, CleanStep
<1> QED
  BY <1>1, <1>2, NextStaysBusy

LEMMA InitWhole == Init => WholeInv
<1> SUFFICES ASSUME Init PROVE WholeInv
  OBVIOUS
<1>1. runs = {} /\ snap = Idle /\ snap.stage = "rest"
  BY DEF Init, Idle
<1>2. \A x \in Segs : seg[x].status = "PENDING"
  BY DEF Init, NoSegment
<1> QED
  BY <1>1, <1>2 DEF WholeInv, BusyNotPending, QueuedWaits, SnapshotWhole, WholeAlone

LEMMA WholeInvKept ==
    TypeOK /\ RunInv /\ SegmentInv /\ WholeInv /\ [Next]_vars /\ ~Restart => WholeInv'
  BY BusyKept, QueuedWaitsKept, SnapshotWholeKept, WholeAloneKept DEF WholeInv, CleanStep

(* _dispatch_queued_tasks: over retries, fallbacks, and cancels and deletions      *)
(* between any two reads of the dispatcher and its commit, a task transcribed as a *)
(* whole file has no segment that is at work, waits or has succeeded.              *)
THEOREM WholeFileAlone ==
    ASSUME MaxRestarts = 0
    PROVE  Spec => []WholeFileOrSegments
<1>1. WholeInv => WholeFileOrSegments
  <2> SUFFICES ASSUME WholeInv, NEW r \in runs, r.id \in Tasks, r.pc # "end", NEW x \in Rows(r.id)
               PROVE  /\ seg[x].status = "FAILED"
                      /\ ~ \E q \in runs : q.id = x /\ q.pc # "end"
    BY DEF WholeFileOrSegments
  <2>1. Uncut(r.id) /\ x \in SegsOf(r.id) /\ seg[x].status # "NONE"
    BY DEF WholeInv, WholeAlone, Rows
  <2> QED
    BY <2>1 DEF Uncut, Shut, Unopened, IdleRows
<1>2. TypeOK /\ RunInv /\ SegmentInv /\ WholeInv /\ [Next]_vars => SegmentInv' /\ WholeInv'
  BY NoRestart, SegmentInvKept, WholeInvKept DEF CleanStep
<1> QED
  BY <1>1, <1>2, TypeCorrect, InitRuns, NextKeepsRuns, InitSegments, InitWhole, PTL DEF Spec

-----------------------------------------------------------------------------
(* A restart may put a task whose segments were transcribed back in the queue,  *)
(* and the task may then be transcribed again as a whole file.  Nobody works on  *)
(* its segments any more then, and no finalizer call for it is on its way: a     *)
(* task of the queue rests, and one that is taken for a whole file is apart.     *)

NoActive(t)    == \A x \in SegsOf(t) : seg[x].status \notin Active
Transcribed(t) == \A x \in SegsOf(t) : seg[x].status \in {"NONE", "SUCCEEDED"}
Free(t)        == Unsegmented(t) \/ t \notin toFinalize \cup merging
Resting(t)     == NoActive(t) /\ IdleRows(t) /\ Free(t)
Apart(t)       == Shut(t) /\ Free(t)

QueuedRests   == \A t \in Tasks : task[t].status = "QUEUED" => NoActive(t) /\ IdleRows(t)
QueuedFree    == \A t \in Tasks : task[t].status = "QUEUED" /\ t \notin awaited => Free(t)
SnapshotRests == snap.stage = "queue" => \A t \in snap.items \cap Tasks : Resting(t)
SnapshotApart == snap.stage = "work" => \A t \in snap.items \cap Tasks : Apart(t)
WorkApart     == \A r \in runs : r.id \in Tasks /\ r.pc # "end" => Apart(r.id)

ApartInv == /\ BusyNotPending /\ QueuedRests /\ QueuedFree
            /\ SnapshotRests /\ SnapshotApart /\ WorkApart

LEMMA ApartRests ==
    ASSUME NEW t, Apart(t)
    PROVE  Resting(t)
  BY DEF Apart, Resting, Shut, Unopened, NoActive, Active

LEMMA ReadRests ==
    ASSUME TypeOK, ApartInv, snap.stage # "rest", NEW t \in snap.items \cap Tasks
    PROVE  Resting(t)
<1>1. snap.stage \in {"queue", "work"}
  BY DEF TypeOK
<1> QED
  BY <1>1, ApartRests DEF ApartInv, SnapshotRests, SnapshotApart

LEMMA TranscribedStays ==
    ASSUME TypeOK, SegmentInv, [Next]_vars, NEW t, Transcribed(t)
    PROVE  Transcribed(t)'
<1> SUFFICES ASSUME NEW x \in SegsOf(t)
             PROVE  seg'[x].status \in {"NONE", "SUCCEEDED"}
  BY DEF Transcribed, SegsOf
<1>1. x \in Segs /\ seg[x].status \in {"NONE", "SUCCEEDED"}
  BY DEF Transcribed, SegsOf
<1> QED
  BY <1>1, NoRowStays, NextMovesSegment

(* Who calls the finalizer: the coroutine of a segment, or a retry of the merge. *)
LEMMA NewlyFinal ==
    ASSUME TypeOK, [Next]_vars, ~Restart, NEW t \in Tasks, t \in toFinalize', t \notin toFinalize
    PROVE  \/ \E x \in SegsOf(t) : seg[x].status \in Active
           \/ RetryFailedTasks /\ task[t].status = "FAILED"
<1>1. CASE RunStep
  <2>1. PICK r \in runs : MarkSegmentSucceeded(r)
    BY <1>1 DEF RunStep, LoadTask, BeginTask, LoadSegment, CheckParent, BeginSegment,
       RecheckParent, CheckStaleRun, MarkTaskSucceeded, MarkTaskFailed, MarkSegmentFailed,
       EndRun, finals
  <2>2. r.id \in SegsOf(t) /\ Accepts(r.id)
    BY <2>1 DEF MarkSegmentSucceeded, RunOf, SegsOf
  <2> QED
    BY <2>2 DEF Accepts
<1>2. CASE RetryFailedTasks
  BY <1>2 DEF RetryFailedTasks, RetriesMerge, Retryable
<1>3. ~FinalizeStep
  BY DEF FinalizeStep, StartMerge, MergeSucceeds, MergeFails
<1> QED
  BY <1>1, <1>2, <1>3, ReadFrame
     DEF Next, DispatchCommit, DispatchGiveUp, ApiStep, CancelTask, EmergencyStop,
         DeleteTasks, finals, memory, vars

LEMMA NewlyMerging ==
    ASSUME [Next]_vars, NEW t \in merging', t \notin merging
    PROVE  StartMerge(t)
<1>1. FinalizeStep
  BY ReadFrame DEF Next, DispatchCommit, DispatchGiveUp, RunStep, LoadTask, BeginTask,
       LoadSegment, CheckParent, BeginSegment, RecheckParent, CheckStaleRun,
       MarkTaskSucceeded, MarkTaskFailed, MarkSegmentSucceeded, MarkSegmentFailed, EndRun,
       RetryFailedTasks, ApiStep, CancelTask, EmergencyStop, DeleteTasks, Restart,
       finals, memory, vars
<1> QED
  BY <1>1 DEF FinalizeStep, StartMerge, MergeSucceeds, MergeFails

LEMMA FreeStays ==
    ASSUME TypeOK, [Next]_vars, ~Restart, NEW t \in Tasks, Free(t), NoActive(t),
           ~RetryFailedTasks \/ task[t].status # "FAILED"
    PROVE  Free(t)'
<1>1. CASE Unsegmented(t)
  BY <1>1, UnsegmentedStays DEF Free
<1>2. CASE t \notin toFinalize \cup merging
  <2>1. t \notin toFinalize'
    BY <1>2, NewlyFinal DEF NoActive
  <2>2. t \notin merging'
    BY <1>2, NewlyMerging DEF StartMerge
  <2> QED
    BY <2>1, <2>2 DEF Free
<1> QED
  BY <1>1, <1>2 DEF Free

LEMMA RestingStays ==
    ASSUME TypeOK, [Next]_vars, ~Restart, ~DispatchCommit, NEW t \in Tasks, Resting(t),
           ~RetryFailedTasks \/ task[t].status # "FAILED"
    PROVE  Resting(t)'
<1>1. Free(t)'
  BY FreeStays DEF Resting
<1>2. /\ IdleRows(t)'
      /\ \A x \in SegsOf(t) : seg'[x].status \in {seg[x].status, "NONE", "FAILED"}
  BY IdleStays DEF Resting
<1>3. NoActive(t)'
  BY <1>2 DEF Resting, NoActive, SegsOf, Active
<1> QED
  BY <1>1, <1>2, <1>3 DEF Resting

LEMMA ApartStays ==
    ASSUME TypeOK, RunInv, [Next]_vars, ~Restart, NEW t \in Tasks, Apart(t),
           ~RetryFailedTasks \/ task[t].status # "FAILED"
    PROVE  Apart(t)'
<1>1. Shut(t)'
  BY ShutStays DEF Apart, CleanStep
<1>2. NoActive(t)
  BY ApartRests DEF Resting
<1> QED
  BY <1>1, <1>2, FreeStays DEF Apart

(* The runner's loop goes on when the calls it waits for have come to their end. *)
LEMMA AwaitedLeaves ==
    ASSUME [Next]_vars, ~Restart, NEW t \in awaited, t \notin awaited'
    PROVE  StartMerge(t) \/ MergeSucceeds(t) \/ MergeFails(t)
<1>1. ~RetryFailedTasks
  BY DEF RetryFailedTasks
<1>2. FinalizeStep
  BY <1>1, ReadFrame DEF Next, DispatchCommit, DispatchGiveUp, RunStep, LoadTask, BeginTask,
       LoadSegment, CheckParent, BeginSegment, RecheckParent, CheckStaleRun,
       MarkTaskSucceeded, MarkTaskFailed, MarkSegmentSucceeded, MarkSegmentFailed, EndRun,
       ApiStep, CancelTask, EmergencyStop, DeleteTasks, finals, memory, vars
<1> QED
  BY <1>2 DEF FinalizeStep, StartMerge, MergeSucceeds, MergeFails

-----------------------------------------------------------------------------
(* What one step may do to a task.  The moves name who makes them, since it is *)
(* by its cause that one excludes another: a task is worked on as a whole file, *)
(* or has segments that are transcribed, or has them merged, and no two of the  *)
(* three.                                                                       *)

Ended == {"CANCELED", "FAILED"}

Begun        == \A t \in Tasks : task[t].status \notin {"PENDING", "PREPROCESSING"}
RunAlive     == \A r \in runs : r.id \in Tasks /\ r.pc # "end"
                                 => task[r.id].status \in Active \cup {"CANCELED", "GONE"}
MergeWhole   == \A t \in merging : \/ task[t].status = "GONE"
                                   \/ /\ task[t].status \notin {"FAILED", "SUCCEEDED"}
                                      /\ AllSucceeded(t) /\ t \notin toFinalize
SnapshotOpen == snap.stage # "rest" => \A t \in snap.items \cap Tasks :
                             task[t].status \in {"QUEUED", "CANCELED", "GONE"}

GoneEmpty     == \A t \in Tasks : task[t].status = "GONE" => Unsegmented(t)
UnmergedWhole == \A x \in Segs :
                   task[Parent[x]].status = "FAILED" /\ task[Parent[x]].err = "MERGE_FAILED"
                     => seg[x].status \in {"NONE", "SUCCEEDED"}
SuccessShut   == \A t \in Tasks : task[t].status = "SUCCEEDED" => Transcribed(t) \/ Shut(t)
ClosedParent  == \A x \in Segs : seg[x].status = "FAILED" =>
                   Shut(Parent[x]) \/ task[Parent[x]].status \in Ended

OutcomeInv == Begun /\ RunAlive /\ MergeWhole /\ SnapshotOpen
ClosedInv  == SuccessShut /\ GoneEmpty /\ UnmergedWhole /\ ClosedParent

Invs == TypeOK /\ RunInv /\ SegmentInv /\ ApartInv /\ OutcomeInv /\ ClosedInv

Quiet(t)       == notices'[t] = notices[t]
Tells(t, kind) == notices'[t] = [notices[t] EXCEPT ![kind] = Twice(@)]
SlotKept(t)    == released'[t] = released[t]
Worker(t)      == \E r \in runs : r.id = t /\ r.pc # "end"
Ends(t)        == \E r \in runs : r.id = t /\ r.pc # "end" /\ Go(r, "end")

Exhausts(t)    == \E x \in SegsOf(t) : /\ seg[x].status \in Active
                                       /\ \A y \in SegsOf(t) \ {x} : seg'[y].status \notin Active
                                       /\ \E r \in runs : r.id = x /\ Go(r, "end")

Turns(t, from, to) == /\ task[t].status \in from /\ task'[t].status = to
                      /\ task'[t].retry = task[t].retry

Stays(t)   == /\ Turns(t, TaskStatus, task[t].status) /\ Quiet(t)
              /\ task[t].status # "CANCELED" => SlotKept(t) /\ task'[t].err = task[t].err
Put(t)     == /\ Turns(t, {"QUEUED", "CANCELED"}, "DISPATCHED") /\ Quiet(t) /\ SlotKept(t)
              /\ task[t].status = "CANCELED" => /\ snap.stage = "work" /\ t \in snap.items
                                                /\ task'[t].server \in snap.avail
              /\ DispatchCommit
Starts(t)  == /\ Turns(t, {"QUEUED", "DISPATCHED"}, "TRANSCRIBING") /\ Quiet(t) /\ SlotKept(t)
              /\ Worker(t) \/ ~IdleRows(t)
Done(t)    == /\ Turns(t, Active, "SUCCEEDED") /\ Tells(t, "succeeded")
              /\ Ends(t) \/ t \in merging \ merging'
Fails(t)   == /\ Turns(t, {"QUEUED"} \cup Active, "FAILED")
              /\ task'[t].err # "MERGE_FAILED"
              /\ IF NoAttemptLeft(t) THEN Tells(t, "failed") ELSE Quiet(t) /\ SlotKept(t)
              /\ Ends(t) \/ Exhausts(t)
Unmerged(t) == /\ Turns(t, {"QUEUED"} \cup Active, "FAILED") /\ Quiet(t) /\ SlotKept(t)
               /\ task'[t].err = "MERGE_FAILED"
               /\ t \in merging \ merging'
Again(t)   == /\ RetryFailedTasks /\ Retryable(t) /\ task'[t].status \in {"QUEUED", "TRANSCRIBING"}
              /\ task'[t].retry = task[t].retry + 1
              /\ Quiet(t) /\ SlotKept(t)
Canceled(t) == /\ Turns(t, {"QUEUED"} \cup Active, "CANCELED") /\ Quiet(t)
               /\ \A x \in SegsOf(t) : seg'[x].status \notin Open
Gone(t)     == /\ task[t].status \notin Active /\ task'[t].status = "GONE"
               /\ Quiet(t) /\ SlotKept(t) /\ Unsegmented(t)'

Recovered(t) == Restart /\ Turns(t, Active, "QUEUED") /\ Quiet(t) /\ SlotKept(t)

TaskMove(t) == \/ Stays(t) \/ Put(t) \/ Starts(t) \/ Done(t) \/ Fails(t) \/ Unmerged(t)
               \/ Again(t) \/ Canceled(t) \/ Gone(t) \/ Recovered(t)

(* What VALID_TRANSITIONS allows of the statuses a task has once it is queued. *)
LEMMA Transitions ==
    ASSUME NEW st \in TaskStatus, st \notin {"PENDING", "PREPROCESSING"}
    PROVE  /\ CanTransition(st, "SUCCEEDED") => st \in Active
           /\ CanTransition(st, "FAILED") => st \in {"QUEUED"} \cup Active
           /\ CanTransition(st, "CANCELED") => st \in {"QUEUED"} \cup Active
<1>1. st \in {"QUEUED", "DISPATCHED", "TRANSCRIBING", "SUCCEEDED", "FAILED", "CANCELED", "GONE"}
  BY DEF TaskStatus, ValidTransitions
<1>2. /\ ~CanTransition("QUEUED", "SUCCEEDED") /\ ~CanTransition("SUCCEEDED", "SUCCEEDED")
      /\ ~CanTransition("FAILED", "SUCCEEDED") /\ ~CanTransition("CANCELED", "SUCCEEDED")
      /\ ~CanTransition("GONE", "SUCCEEDED")
  BY DEF CanTransition, ValidTransitions
<1>3. /\ ~CanTransition("SUCCEEDED", "FAILED") /\ ~CanTransition("FAILED", "FAILED")
      /\ ~CanTransition("CANCELED", "FAILED") /\ ~CanTransition("GONE", "FAILED")
  BY DEF CanTransition, ValidTransitions
<1>4. /\ ~CanTransition("SUCCEEDED", "CANCELED") /\ ~CanTransition("FAILED", "CANCELED")
      /\ ~CanTransition("CANCELED", "CANCELED") /\ ~CanTransition("GONE", "CANCELED")
  BY DEF CanTransition, ValidTransitions
<1>5. Active = {"DISPATCHED", "TRANSCRIBING"}
  BY DEF Active
<1> QED
  BY <1>1, <1>2, <1>3, <1>4, <1>5

LEMMA StatusRange ==
    ASSUME Invs, NEW t \in Tasks
    PROVE  task[t].status \in TaskStatus /\ task[t].status \notin {"PENDING", "PREPROCESSING"}
  BY DEF Invs, TypeOK, Task, OutcomeInv, Begun

LEMMA Untouched ==
    ASSUME TypeOK, NEW t \in Tasks, task'[t] = task[t], Quiet(t), SlotKept(t)
    PROVE  Stays(t)
  BY DEF Stays, Turns, TypeOK, Task

LEMMA CommitMoves ==
    ASSUME Invs, DispatchCommit, NEW t \in Tasks
    PROVE  TaskMove(t)
<1>1. task \in [Tasks -> Task] /\ task[t] \in Task
  BY DEF Invs, TypeOK
<1>2. Quiet(t) /\ SlotKept(t)
  BY DEF DispatchCommit, effects, Quiet, SlotKept
<1>3. PICK chosen \in SUBSET snap.items : /\ \A i \in chosen : Exists(i)
                                          /\ \E plan \in [chosen -> snap.avail] : Assign(chosen, plan)
  BY DEF DispatchCommit
<1>4. CASE t \in chosen
  <2>1. task[t].status \in {"QUEUED", "CANCELED"} /\ snap.stage = "work"
    BY <1>3, <1>4 DEF Exists, Invs, OutcomeInv, SnapshotOpen, DispatchCommit, Planned
  <2>2. PICK plan \in [chosen -> snap.avail] : Assign(chosen, plan)
    BY <1>3
  <2>3. task'[t] = [task[t] EXCEPT !.status = "DISPATCHED", !.server = plan[t],
                                   !.gen = snap.gen[t] + 1]
    BY <1>4, <2>2 DEF Assign
  <2>4. /\ task'[t].status = "DISPATCHED" /\ task'[t].retry = task[t].retry
        /\ task'[t].server \in snap.avail
    BY <1>1, <1>4, <2>2, <2>3 DEF Task
  <2> QED
    BY <1>2, <1>3, <1>4, <2>1, <2>4 DEF TaskMove, Put, Turns
<1>5. CASE t \notin chosen
  <2>1. CASE task'[t] = task[t]
    BY <1>2, <2>1, Untouched DEF Invs, TaskMove
  <2>2. CASE task[t].status = "QUEUED" /\ task'[t] = [task[t] EXCEPT !.status = "DISPATCHED"]
    <3>1. task'[t].status = "DISPATCHED" /\ task'[t].retry = task[t].retry
      BY <1>1, <2>2 DEF Task
    <3> QED
      BY <1>2, <2>2, <3>1 DEF TaskMove, Put, Turns
  <2> QED
    BY <1>3, <1>5, <2>1, <2>2 DEF Assign
<1> QED
  BY <1>4, <1>5

LEMMA MarkTaskMoves ==
    ASSUME Invs, NEW r \in runs, MarkTaskSucceeded(r) \/ MarkTaskFailed(r)
    PROVE  TaskMove(r.id)
<1> DEFINE t == r.id
<1>1. /\ task \in [Tasks -> Task] /\ t \in Tasks /\ task[t] \in Task
      /\ notices \in [Tasks -> [succeeded: 0 .. 2, failed: 0 .. 2]]
      /\ released \in [Tasks -> 0 .. 2]
  BY DEF Invs, TypeOK, MarkTaskSucceeded, MarkTaskFailed, RunOf
<1>2. r.pc # "end" /\ Go(r, "end")
  BY DEF MarkTaskSucceeded, MarkTaskFailed, RunOf
<1>3. task[t].status \in Active \cup {"CANCELED", "GONE"} /\ Ends(t)
  BY <1>1, <1>2 DEF Invs, OutcomeInv, RunAlive, Ends
<1>4. Notify(t, "succeeded") => Tells(t, "succeeded")
  BY <1>1 DEF Notify, Tells
<1>5. Notify(t, "failed") => Tells(t, "failed")
  BY <1>1 DEF Notify, Tells
<1>6. UNCHANGED notices => Quiet(t)
  BY DEF Quiet
<1>7. UNCHANGED released => SlotKept(t)
  BY DEF SlotKept
<1>8. CASE UNCHANGED <<task, effects>>
  BY <1>1, <1>6, <1>7, <1>8, Untouched DEF effects, Invs, TaskMove
<1>9. CASE MarkTaskSucceeded(r)
  <2>1. CASE task[t].status \in Active
    <3>1. /\ \/ task' = [task EXCEPT ![t].status = "SUCCEEDED", ![t].err = "none"]
             \/ task' = [task EXCEPT ![t].status = "SUCCEEDED", ![t].err = "none",
                                     ![t].server = None]
          /\ Notify(t, "succeeded")
      BY <1>9, <2>1 DEF MarkTaskSucceeded, Active
    <3>2. task'[t].status = "SUCCEEDED" /\ task'[t].retry = task[t].retry
      BY <1>1, <3>1 DEF Task
    <3> QED
      BY <1>3, <1>4, <2>1, <3>1, <3>2 DEF TaskMove, Done, Turns
  <2>2. CASE task[t].status = "CANCELED"
    <3>1. task' = [task EXCEPT ![t].err = "none"] /\ UNCHANGED notices
      BY <1>9, <2>2 DEF MarkTaskSucceeded
    <3>2. task'[t].status = task[t].status /\ task'[t].retry = task[t].retry
      BY <1>1, <3>1 DEF Task
    <3> QED
      BY <1>1, <1>6, <2>2, <3>1, <3>2 DEF TaskMove, Stays, Turns, Task
  <2>3. CASE task[t].status = "GONE"
    BY <1>8, <1>9, <2>3 DEF MarkTaskSucceeded
  <2> QED
    BY <1>3, <2>1, <2>2, <2>3
<1>10. CASE MarkTaskFailed(r)
  <2>1. CASE task[t].status \in Active
    <3>1. CanTransition(task[t].status, "FAILED")
      BY <2>1 DEF CanTransition, ValidTransitions, Active
    <3>2. /\ task' = [task EXCEPT ![t].err = "TRANSCRIBE_ERROR", ![t].status = "FAILED"]
          /\ IF NoAttemptLeft(t) THEN Notify(t, "failed") ELSE UNCHANGED notices
          /\ ~NoAttemptLeft(t) => UNCHANGED released
      BY <1>10, <2>1, <3>1 DEF MarkTaskFailed, Active
    <3>3. /\ task'[t].status = "FAILED" /\ task'[t].retry = task[t].retry
          /\ task'[t].err = "TRANSCRIBE_ERROR"
      BY <1>1, <3>2 DEF Task
    <3>4. IF NoAttemptLeft(t) THEN Tells(t, "failed") ELSE Quiet(t) /\ SlotKept(t)
      BY <1>5, <1>6, <1>7, <3>2
    <3> QED
      BY <1>3, <2>1, <3>3, <3>4 DEF TaskMove, Fails, Turns
  <2>2. CASE task[t].status = "CANCELED"
    <3>1. ~CanTransition(task[t].status, "FAILED")
      BY <2>2 DEF CanTransition, ValidTransitions
    <3>2. /\ task' = [task EXCEPT ![t].err = "TRANSCRIBE_ERROR", ![t].status = @]
          /\ UNCHANGED notices
      BY <1>10, <2>2, <3>1 DEF MarkTaskFailed
    <3>3. task'[t].status = task[t].status /\ task'[t].retry = task[t].retry
      BY <1>1, <3>2 DEF Task
    <3> QED
      BY <1>1, <1>6, <2>2, <3>2, <3>3 DEF TaskMove, Stays, Turns, Task
  <2>3. CASE task[t].status = "GONE"
    BY <1>8, <1>10, <2>3 DEF MarkTaskFailed
  <2> QED
    BY <1>3, <2>1, <2>2, <2>3
<1> QED
  BY <1>9, <1>10

LEMMA RunMoves ==
    ASSUME Invs, RunStep, NEW t \in Tasks
    PROVE  TaskMove(t)
<1>1. PICK r \in runs :
        \/ LoadTask(r) \/ BeginTask(r) \/ LoadSegment(r) \/ CheckParent(r)
        \/ BeginSegment(r) \/ RecheckParent(r) \/ CheckStaleRun(r)
        \/ MarkTaskSucceeded(r) \/ MarkTaskFailed(r)
        \/ MarkSegmentSucceeded(r) \/ MarkSegmentFailed(r) \/ EndRun(r)
  BY DEF RunStep
<1>2. /\ TypeOK /\ task \in [Tasks -> Task] /\ task[t] \in Task
      /\ notices \in [Tasks -> [succeeded: 0 .. 2, failed: 0 .. 2]]
      /\ released \in [Tasks -> 0 .. 2] /\ seg \in [Segs -> Segment]
  BY DEF Invs, TypeOK
<1>3. UNCHANGED effects => Quiet(t) /\ SlotKept(t)
  BY DEF effects, Quiet, SlotKept
<1>4. task'[t] = task[t] /\ UNCHANGED effects => TaskMove(t)
  BY <1>2, <1>3, Untouched DEF TaskMove
<1>5. CASE BeginTask(r)
  <2>1. task'[t] # task[t] => r.id = t /\ CanTransition(task[t].status, "TRANSCRIBING")
    BY <1>2, <1>5 DEF BeginTask
  <2>2. CASE task'[t] = task[t]
    BY <1>4, <1>5, <2>2 DEF BeginTask
  <2>3. CASE task'[t] # task[t]
    <3>1. r.id = t /\ r.pc = "begin"
      BY <1>5, <2>1, <2>3 DEF BeginTask, RunOf
    <3>2. task[t].status \in Active \cup {"CANCELED", "GONE"} /\ Worker(t)
      BY <3>1 DEF Invs, OutcomeInv, RunAlive, Worker
    <3>3. task[t].status = "DISPATCHED"
      BY <2>1, <2>3, <3>2 DEF CanTransition, ValidTransitions, Active
    <3>4. task'[t].status = "TRANSCRIBING" /\ task'[t].retry = task[t].retry
      BY <1>2, <1>5, <2>1, <2>3 DEF BeginTask, Task
    <3> QED
      BY <1>3, <1>5, <3>2, <3>3, <3>4 DEF BeginTask, TaskMove, Starts, Turns
  <2> QED
    BY <2>2, <2>3
<1>6. CASE BeginSegment(r)
  <2>1. CASE task'[t] = task[t]
    BY <1>4, <1>6, <2>1 DEF BeginSegment
  <2>2. CASE task'[t] # task[t]
    <3>1. /\ Parent[r.id] = t /\ Exists(r.id) /\ r.id \in Segs
          /\ task[t].status \in {"DISPATCHED", "QUEUED"}
          /\ task' = [task EXCEPT ![t].status = "TRANSCRIBING", ![t].started = TRUE]
      BY <1>2, <1>6, <2>2 DEF BeginSegment, RunOf, db
    <3>2. ~IdleRows(t)
      <4>1. r.pc = "begin" /\ seg[r.id].status # "NONE" /\ r.id \in SegsOf(t)
        BY <1>6, <3>1, SetsAssumption DEF BeginSegment, RunOf, Exists, SegsOf
      <4> QED
        BY <4>1 DEF IdleRows
    <3>3. task'[t].status = "TRANSCRIBING" /\ task'[t].retry = task[t].retry
      BY <1>2, <3>1 DEF Task
    <3> QED
      BY <1>3, <1>6, <3>1, <3>2, <3>3 DEF BeginSegment, TaskMove, Starts, Turns
  <2> QED
    BY <2>1, <2>2
<1>7. CASE MarkTaskSucceeded(r) \/ MarkTaskFailed(r)
  <2>1. CASE r.id = t
    BY <1>7, <2>1, MarkTaskMoves
  <2>2. CASE r.id # t
    <3>1. task'[t] = task[t] /\ Quiet(t) /\ SlotKept(t)
      BY <1>2, <1>7, <2>2
         DEF MarkTaskSucceeded, MarkTaskFailed, Notify, Release, effects, Quiet, SlotKept
    <3> QED
      BY <1>2, <3>1, Untouched DEF TaskMove
  <2> QED
    BY <2>1, <2>2
<1>8. CASE MarkSegmentFailed(r)
  <2>1. CASE ExhaustSegment(r.id) /\ Accepts(r.id) /\ Parent[r.id] = t
    <3>1. r.id \in SegsOf(t) /\ seg[r.id].status \in Active
      BY <1>8, <2>1 DEF MarkSegmentFailed, RunOf, SegsOf, Accepts
    <3>2. task[t].status \in {"QUEUED"} \cup Active
      BY <2>1, StatusRange DEF Accepts, Finished, Active, TaskStatus, ValidTransitions
    <3>3. /\ task' = [task EXCEPT ![t].status = "FAILED", ![t].err = "SEGMENT_RETRY_EXHAUSTED"]
          /\ IF NoAttemptLeft(t) THEN Notify(t, "failed") ELSE UNCHANGED effects
      BY <2>1 DEF ExhaustSegment
    <3>4. /\ task'[t].status = "FAILED" /\ task'[t].retry = task[t].retry
          /\ task'[t].err = "SEGMENT_RETRY_EXHAUSTED"
      BY <1>2, <3>3 DEF Task
    <3>5. Notify(t, "failed") => Tells(t, "failed")
      BY <1>2 DEF Notify, Tells
    <3>6. Exhausts(t)
      <4>1. ASSUME NEW y \in SegsOf(t) \ {r.id}
            PROVE  seg'[y].status \notin Active
        BY <1>2, <2>1, <4>1 DEF ExhaustSegment, SegsOf, Active, Segment, SegmentStatus
      <4>2. Go(r, "end")
        BY <1>8 DEF MarkSegmentFailed
      <4> QED
        BY <3>1, <4>1, <4>2 DEF Exhausts
    <3> QED
      BY <1>3, <3>2, <3>3, <3>4, <3>5, <3>6 DEF TaskMove, Fails, Turns
  <2>2. CASE ExhaustSegment(r.id) /\ Parent[r.id] # t
    <3>1. task'[t] = task[t] /\ Quiet(t) /\ SlotKept(t)
      BY <1>2, <1>3, <2>2 DEF ExhaustSegment, Notify, Release, Quiet, SlotKept
    <3> QED
      BY <1>2, <3>1, Untouched DEF TaskMove
  <2> QED
    BY <1>4, <1>8, <2>1, <2>2 DEF MarkSegmentFailed, RetrySegment, db
<1> QED
  BY <1>1, <1>4, <1>5, <1>6, <1>7, <1>8
     DEF LoadTask, LoadSegment, CheckParent, RecheckParent, CheckStaleRun,
         MarkSegmentSucceeded, EndRun, db

LEMMA FinalizeMoves ==
    ASSUME Invs, FinalizeStep, NEW t \in Tasks
    PROVE  TaskMove(t)
<1>1. /\ TypeOK /\ task \in [Tasks -> Task] /\ task[t] \in Task
      /\ notices \in [Tasks -> [succeeded: 0 .. 2, failed: 0 .. 2]]
      /\ released \in [Tasks -> 0 .. 2]
  BY DEF Invs, TypeOK
<1>2. UNCHANGED effects => Quiet(t) /\ SlotKept(t)
  BY DEF effects, Quiet, SlotKept
<1>3. CASE task'[t] = task[t] /\ Quiet(t) /\ SlotKept(t)
  BY <1>1, <1>3, Untouched DEF TaskMove
<1>4. PICK u \in Tasks : StartMerge(u) \/ MergeSucceeds(u) \/ MergeFails(u)
  BY DEF FinalizeStep
<1>5. CASE StartMerge(u)
  BY <1>2, <1>3, <1>5 DEF StartMerge, db
<1>6. CASE MergeSucceeds(u)
  <2>1. CASE u = t /\ CanTransition(task[t].status, "SUCCEEDED")
    <3>1. /\ task' = [task EXCEPT ![t].status = "SUCCEEDED", ![t].err = "none"]
          /\ Notify(t, "succeeded") /\ t \in merging \ merging'
      BY <1>6, <2>1 DEF MergeSucceeds
    <3>2. task[t].status \in Active
      BY <2>1, StatusRange, Transitions
    <3>3. task'[t].status = "SUCCEEDED" /\ task'[t].retry = task[t].retry
      BY <1>1, <3>1 DEF Task
    <3>4. Tells(t, "succeeded")
      BY <1>1, <3>1 DEF Notify, Tells
    <3> QED
      BY <3>1, <3>2, <3>3, <3>4 DEF TaskMove, Done, Turns
  <2>2. CASE ~(u = t /\ CanTransition(task[t].status, "SUCCEEDED"))
    <3>1. task'[t] = task[t] /\ Quiet(t) /\ SlotKept(t)
      BY <1>1, <1>6, <2>2 DEF MergeSucceeds, Notify, Release, effects, Quiet, SlotKept
    <3> QED
      BY <1>3, <3>1
  <2> QED
    BY <2>1, <2>2
<1>7. CASE MergeFails(u)
  <2>1. CASE u = t /\ CanTransition(task[t].status, "FAILED")
    <3>1. /\ task' = [task EXCEPT ![t].status = "FAILED", ![t].err = "MERGE_FAILED"]
          /\ t \in merging \ merging'
      BY <1>7, <2>1 DEF MergeFails
    <3>2. task[t].status \in {"QUEUED"} \cup Active
      BY <2>1, StatusRange, Transitions
    <3>3. /\ task'[t].status = "FAILED" /\ task'[t].retry = task[t].retry
          /\ task'[t].err = "MERGE_FAILED"
      BY <1>1, <3>1 DEF Task
    <3> QED
      BY <1>2, <1>7, <3>1, <3>2, <3>3 DEF MergeFails, TaskMove, Unmerged, Turns
  <2>2. CASE ~(u = t /\ CanTransition(task[t].status, "FAILED"))
    <3>1. task'[t] = task[t]
      BY <1>1, <1>7, <2>2 DEF MergeFails
    <3> QED
      BY <1>2, <1>3, <1>7, <3>1 DEF MergeFails
  <2> QED
    BY <2>1, <2>2
<1> QED
  BY <1>4, <1>5, <1>6, <1>7

LEMMA RetryMoves ==
    ASSUME Invs, RetryFailedTasks, NEW t \in Tasks
    PROVE  TaskMove(t)
<1>1. TypeOK /\ task \in [Tasks -> Task] /\ task[t] \in Task
  BY DEF Invs, TypeOK
<1>2. Quiet(t) /\ SlotKept(t)
  BY DEF RetryFailedTasks, effects, Quiet, SlotKept
<1>3. CASE RetriesMerge(t)
  <2>1. task'[t] = [task[t] EXCEPT !.status = "TRANSCRIBING", !.retry = @ + 1, !.err = "none"]
    BY <1>3 DEF RetryFailedTasks
  <2>2. task'[t].status = "TRANSCRIBING" /\ task'[t].retry = task[t].retry + 1
    BY <1>1, <2>1 DEF Task
  <2> QED
    BY <1>2, <1>3, <2>2 DEF RetriesMerge, TaskMove, Again
<1>4. CASE ~RetriesMerge(t) /\ (FallsBack(t) \/ Requeues(t))
  <2>1. task'[t] = [task[t] EXCEPT !.status = "QUEUED", !.retry = @ + 1, !.err = "none",
                                   !.server = None, !.started = FALSE]
    BY <1>4 DEF RetryFailedTasks
  <2>2. task'[t].status = "QUEUED" /\ task'[t].retry = task[t].retry + 1
    BY <1>1, <2>1 DEF Task
  <2> QED
    BY <1>2, <1>4, <2>2 DEF FallsBack, Requeues, TaskMove, Again
<1>5. CASE ~RetriesMerge(t) /\ ~FallsBack(t) /\ ~Requeues(t)
  <2>1. task'[t] = task[t]
    BY <1>5 DEF RetryFailedTasks
  <2> QED
    BY <1>1, <1>2, <2>1, Untouched DEF TaskMove
<1> QED
  BY <1>3, <1>4, <1>5

LEMMA ApiMoves ==
    ASSUME Invs, ApiStep, NEW t \in Tasks
    PROVE  TaskMove(t)
<1>1. /\ TypeOK /\ task \in [Tasks -> Task] /\ task[t] \in Task
      /\ released \in [Tasks -> 0 .. 2]
  BY DEF Invs, TypeOK
<1>2. Quiet(t)
  BY DEF ApiStep, CancelTask, EmergencyStop, DeleteTasks, effects, Quiet
<1>3. CASE task'[t] = task[t] /\ SlotKept(t)
  BY <1>1, <1>2, <1>3, Untouched DEF TaskMove
<1>0. ASSUME NEW S, ReleaseSegments(S), t \in S, NEW x \in SegsOf(t)
      PROVE  seg'[x].status \notin Open
  <2>1. seg[x] \in Segment /\ x \in Segs /\ Parent[x] = t
    BY DEF Invs, TypeOK, SegsOf
  <2> QED
    BY <1>0, <2>1 DEF ReleaseSegments, Open, Active, Segment
<1>4. ASSUME NEW u \in Tasks, CancelTask(u)
      PROVE  TaskMove(t)
  <2>1. CASE u = t
    <3>1. task'[t].status = "CANCELED" /\ task'[t].retry = task[t].retry
      BY <1>1, <1>4, <2>1 DEF CancelTask, Task
    <3>2. task[t].status \in {"QUEUED"} \cup Active
      BY <1>4, <2>1, StatusRange, Transitions DEF CancelTask
    <3> QED
      BY <1>0, <1>2, <1>4, <2>1, <3>1, <3>2 DEF CancelTask, TaskMove, Canceled, Turns
  <2>2. CASE u # t
    <3>1. task'[t] = task[t] /\ SlotKept(t)
      BY <1>1, <1>4, <2>2 DEF CancelTask, Release, SlotKept
    <3> QED
      BY <1>3, <3>1
  <2> QED
    BY <2>1, <2>2
<1>5. ASSUME NEW scope, EmergencyStop(scope)
      PROVE  TaskMove(t)
  <2>1. CASE task'[t] = task[t]
    BY <1>3, <1>5, <2>1 DEF EmergencyStop, effects, SlotKept
  <2>2. CASE /\ t \in scope /\ task[t].status \in {"QUEUED"} \cup Active
             /\ task'[t] = [task[t] EXCEPT !.status = "CANCELED", !.gen = @ + 1, !.server = None]
    <3>1. task'[t].status = "CANCELED" /\ task'[t].retry = task[t].retry
      BY <1>1, <2>2 DEF Task
    <3> QED
      BY <1>0, <1>2, <1>5, <2>2, <3>1 DEF EmergencyStop, TaskMove, Canceled, Turns
  <2> QED
    BY <1>5, <2>1, <2>2 DEF EmergencyStop
<1>6. ASSUME NEW statuses \in {{st} : st \in Deletable} \cup {Deletable}, DeleteTasks(statuses)
      PROVE  TaskMove(t)
  <2>1. SlotKept(t)
    BY <1>6 DEF DeleteTasks, effects, SlotKept
  <2>2. CASE task[t].status \in statuses
    <3>1. task[t].status \notin Active
      BY <1>6, <2>2 DEF Deletable, Active
    <3>2. task'[t].status = "GONE"
      BY <1>6, <2>2 DEF DeleteTasks, NoTask
    <3>3. Unsegmented(t)'
      BY <1>6, <2>2 DEF DeleteTasks, NoSegment, Unsegmented
    <3> QED
      BY <1>2, <2>1, <3>1, <3>2, <3>3 DEF TaskMove, Gone
  <2>3. CASE task[t].status \notin statuses
    BY <1>3, <1>6, <2>1, <2>3 DEF DeleteTasks
  <2> QED
    BY <2>2, <2>3
<1> QED
  BY <1>4, <1>5, <1>6 DEF ApiStep

LEMMA RestartMoves ==
    ASSUME Invs, Restart, NEW t \in Tasks
    PROVE  TaskMove(t)
<1>1. TypeOK /\ task \in [Tasks -> Task] /\ task[t] \in Task
  BY DEF Invs, TypeOK
<1>2. Quiet(t) /\ SlotKept(t)
  BY DEF Restart, effects, Quiet, SlotKept
<1>3. CASE task'[t] = task[t]
  BY <1>1, <1>2, <1>3, Untouched DEF TaskMove
<1>4. CASE task'[t] # task[t]
  <2>1. /\ task[t].status \in Active
        /\ task'[t] = [task[t] EXCEPT !.status = "QUEUED", !.server = None, !.started = FALSE]
    BY <1>1, <1>4 DEF Restart, ResetTasks, Reset
  <2>2. task'[t].status = "QUEUED" /\ task'[t].retry = task[t].retry
    BY <1>1, <2>1 DEF Task
  <2> QED
    BY <1>2, <2>1, <2>2 DEF TaskMove, Recovered, Turns
<1> QED
  BY <1>3, <1>4

LEMMA NextMoves ==
    ASSUME Invs, [Next]_vars, NEW t \in Tasks
    PROVE  TaskMove(t)
<1>1. CASE task' = task /\ UNCHANGED effects
  BY <1>1, Untouched DEF Invs, effects, Quiet, SlotKept, TaskMove
<1>2. CASE DispatchRead \/ DispatchGiveUp \/ UNCHANGED vars
  BY <1>1, <1>2, ReadFrame DEF DispatchGiveUp, effects, vars, db
<1>3. CASE DispatchCommit \/ RunStep \/ FinalizeStep \/ RetryFailedTasks \/ ApiStep \/ Restart
  BY <1>3, CommitMoves, RunMoves, FinalizeMoves, RetryMoves, ApiMoves, RestartMoves
<1> QED
  BY <1>2, <1>3 DEF Next

(* A segment is deleted with its task, or when the task falls back to the whole file. *)
LEMMA RowDropped ==
    ASSUME TypeOK, [Next]_vars, NEW x \in Segs,
           seg[x].status # "NONE", seg'[x].status = "NONE"
    PROVE  task[Parent[x]].status = "FAILED" \/ task'[Parent[x]].status = "GONE"
<1>1. seg \in [Segs -> Segment] /\ seg[x] \in Segment /\ Segs \subseteq Items
  BY DEF TypeOK, Items
<1>2. CASE seg' = seg
  BY <1>2
<1>3. CASE DispatchCommit
  BY <1>1, <1>3, CommitWrites
<1>4. CASE RunStep
  <2>1. PICK r \in runs :
          \/ LoadTask(r) \/ BeginTask(r) \/ LoadSegment(r) \/ CheckParent(r)
          \/ BeginSegment(r) \/ RecheckParent(r) \/ CheckStaleRun(r)
          \/ MarkTaskSucceeded(r) \/ MarkTaskFailed(r)
          \/ MarkSegmentSucceeded(r) \/ MarkSegmentFailed(r) \/ EndRun(r)
    BY <1>4 DEF RunStep
  <2>2. CASE CheckParent(r) \/ BeginSegment(r) \/ RecheckParent(r) \/ MarkSegmentSucceeded(r)
    BY <1>1, <2>2 DEF CheckParent, BeginSegment, RecheckParent, MarkSegmentSucceeded, Segment, db
  <2>3. CASE MarkSegmentFailed(r)
    <3>1. CASE RetrySegment(r.id)
      BY <1>1, <3>1 DEF RetrySegment, Segment
    <3>2. CASE ExhaustSegment(r.id)
      BY <1>1, <3>2 DEF ExhaustSegment, Segment
    <3> QED
      BY <1>2, <2>3, <3>1, <3>2 DEF MarkSegmentFailed, db
  <2> QED
    BY <1>2, <2>1, <2>2, <2>3
       DEF LoadTask, BeginTask, LoadSegment, CheckStaleRun, MarkTaskSucceeded,
           MarkTaskFailed, EndRun, db
<1>5. CASE RetryFailedTasks
  BY <1>1, <1>5 DEF RetryFailedTasks, FallsBack, Retryable
<1>6. CASE ApiStep
  <2>1. ASSUME NEW S, ReleaseSegments(S)
        PROVE  seg'[x].status # "NONE"
    BY <1>1, <2>1 DEF ReleaseSegments, Segment
  <2>2. ASSUME NEW statuses, DeleteTasks(statuses)
        PROVE  task'[Parent[x]].status = "GONE"
    BY <2>2, SetsAssumption DEF DeleteTasks, NoTask
  <2> QED
    BY <1>6, <2>1, <2>2 DEF ApiStep, CancelTask, EmergencyStop
<1>7. CASE Restart
  BY <1>1, <1>7 DEF Restart, RecoverSegments, PutBack, Active, Segment
<1> QED
  BY <1>2, <1>3, <1>4, <1>5, <1>6, <1>7, ReadFrame
     DEF Next, DispatchGiveUp, FinalizeStep, StartMerge, MergeSucceeds,
         MergeFails, vars, db

(* Who transcribes a task as a whole file has it for himself. *)
LEMMA WorkerApart ==
    ASSUME Invs, NEW t \in Tasks, Worker(t)
    PROVE  Apart(t) /\ Unopened(t)
  BY DEF Invs, ApartInv, WorkApart, Worker, Apart, Shut

(* While the segments of a task are merged, nobody else decides about the task. *)
LEMMA MergeDecides ==
    ASSUME Invs, NEW t \in merging, task[t].status # "GONE"
    PROVE  ~Worker(t) /\ ~Unsegmented(t) /\ \A x \in SegsOf(t) : seg[x].status \notin Active
<1>1. AllSucceeded(t) /\ t \in Tasks
  BY DEF Invs, OutcomeInv, MergeWhole, TypeOK
<1>2. ~Unsegmented(t)
  BY <1>1 DEF AllSucceeded, Rows, SegsOf, Unsegmented
<1>3. ~Worker(t)
  BY <1>1, <1>2, WorkerApart DEF Apart, Free
<1>4. \A x \in SegsOf(t) : seg[x].status \notin Active
  BY <1>1 DEF AllSucceeded, Rows, Active
<1> QED
  BY <1>2, <1>3, <1>4

LEMMA MergeWholeKept ==
    ASSUME Invs, [Next]_vars
    PROVE  MergeWhole'
<1> SUFFICES ASSUME NEW t \in merging', task'[t].status # "GONE"
             PROVE  /\ task'[t].status \notin {"FAILED", "SUCCEEDED"}
                    /\ AllSucceeded(t)' /\ t \notin toFinalize'
  BY DEF MergeWhole
<1>1. CASE t \notin merging
  BY <1>1, NewlyMerging DEF StartMerge, Finished, AllSucceeded, Rows, db
<1>2. CASE t \in merging
  <2>1. t \in Tasks /\ TaskMove(t) /\ ~Restart
    BY <1>2, NextMoves DEF Invs, TypeOK, Restart
  <2>2. task[t].status # "GONE"
    BY <2>1 DEF TaskMove, Stays, Put, Starts, Done, Fails, Unmerged, Again, Canceled, Gone, Recovered,
                Turns, Active, Retryable
  <2>3. /\ task[t].status \notin {"FAILED", "SUCCEEDED"} /\ AllSucceeded(t)
        /\ t \notin toFinalize
    BY <1>2, <2>2 DEF Invs, OutcomeInv, MergeWhole
  <2>4. ~Ends(t) /\ ~Worker(t) /\ ~Unsegmented(t) /\ \A x \in SegsOf(t) : seg[x].status \notin Active
    BY <1>2, <2>2, MergeDecides DEF Ends, Worker
  <2>5. task'[t].status \notin {"FAILED", "SUCCEEDED"}
    BY <2>1, <2>3, <2>4 DEF TaskMove, Stays, Put, Starts, Done, Fails, Exhausts, Unmerged, Again,
                            Canceled, Gone, Recovered, Turns, Retryable
  <2>6. \A x \in SegsOf(t) : seg[x].status # "NONE" =>
          seg[x].status = "SUCCEEDED" /\ seg'[x].status = "SUCCEEDED"
    <3> SUFFICES ASSUME NEW x \in SegsOf(t), seg[x].status # "NONE"
                 PROVE  seg[x].status = "SUCCEEDED" /\ seg'[x].status = "SUCCEEDED"
      OBVIOUS
    <3>1. x \in Segs /\ Parent[x] = t /\ seg[x].status = "SUCCEEDED"
      BY <2>3 DEF SegsOf, AllSucceeded, Rows
    <3>2. seg'[x].status # "NONE"
      BY <2>3, <3>1, RowDropped DEF Invs
    <3> QED
      BY <3>1, <3>2, NextMovesSegment DEF Invs
  <2>7. \A x \in SegsOf(t) : seg[x].status = "NONE" => seg'[x].status = "NONE"
    BY NoRowStays DEF SegsOf, Invs
  <2>8. AllSucceeded(t)'
    <3>1. PICK x \in SegsOf(t) : seg[x].status # "NONE"
      BY <2>3 DEF AllSucceeded, Rows
    <3>2. SegsOf(t)' = SegsOf(t)
      BY DEF SegsOf
    <3> QED
      BY <2>6, <2>7, <3>1, <3>2 DEF AllSucceeded, Rows
  <2>9. t \notin toFinalize'
    BY <2>1, <2>3, <2>4, NewlyFinal DEF Invs
  <2> QED
    BY <2>5, <2>8, <2>9
<1> QED
  BY <1>1, <1>2

LEMMA RunAliveKept ==
    ASSUME Invs, [Next]_vars, CleanStep
    PROVE  RunAlive'
<1> SUFFICES ASSUME NEW p \in runs', p.id \in Tasks, p.pc # "end"
             PROVE  task'[p.id].status \in Active \cup {"CANCELED", "GONE"}
  BY DEF RunAlive
<1> DEFINE t == p.id
<1>1. TaskMove(t) /\ ~Restart
  BY NextMoves, CleanRestart
<1>2. CASE Worker(t)
  <2>1. task[t].status \in Active \cup {"CANCELED", "GONE"}
    BY <1>2 DEF Worker, Invs, OutcomeInv, RunAlive
  <2>2. Unopened(t)
    BY <1>2, WorkerApart
  <2>3. ~Ends(t)
    <3> SUFFICES ASSUME NEW r \in runs, r.id = t, Go(r, "end") PROVE FALSE
      BY DEF Ends
    <3>1. \A o \in runs : o.id = t => o = r
      BY DEF Invs, SegmentInv, OwnRuns, RunInv, OneRunPerItem
    <3>2. r \in Run
      BY DEF Invs, TypeOK
    <3> QED
      BY <3>1, <3>2 DEF Go, Become, Run
  <2>4. t \notin merging \/ task[t].status = "GONE"
    BY <1>2, MergeDecides
  <2>5. ~Exhausts(t)
    BY <2>2 DEF Exhausts, Unopened, SegsOf, Active
  <2> QED
    BY <1>1, <2>1, <2>3, <2>4, <2>5
       DEF TaskMove, Stays, Put, Starts, Done, Fails, Unmerged, Again, Canceled, Gone, Recovered,
           Turns, Retryable, Active
<1>3. CASE DispatchCommit /\ t \in snap.items /\ p = NewRun(t) /\ ~Worker(t)
  <2>1. NewRun(t) \notin runs
    BY <1>3 DEF Worker, NewRun
  <2>2. task'[t].status = "DISPATCHED"
    BY <1>3, <2>1, CommitWrites DEF Invs, Items
  <2> QED
    BY <2>2 DEF Active
<1> QED
  BY <1>1, <1>2, <1>3, NextStaysBusy DEF Invs, Worker

LEMMA SnapshotOpenKept ==
    ASSUME Invs, [Next]_vars, CleanStep
    PROVE  SnapshotOpen'
<1> SUFFICES ASSUME snap'.stage # "rest", NEW t \in Tasks, t \in snap'.items
             PROVE  task'[t].status \in {"QUEUED", "CANCELED", "GONE"}
  BY DEF SnapshotOpen
<1>0. ~Restart
  BY CleanRestart
<1>1. CASE DispatchRead
  <2>1. ~ \E u : t \in SegsIn(u, {"PENDING"})
    BY SetsAssumption DEF SegsIn, SegsOf
  <2>2. \/ snap.stage # "rest" /\ t \in snap.items
        \/ t \in Queued
    BY <1>1, <2>1, ReadItems DEF Invs
  <2> QED
    BY <1>1, <2>2, ReadFrame DEF Queued, Invs, OutcomeInv, SnapshotOpen
<1>2. CASE snap' = snap
  <2>1. /\ task[t].status \in {"QUEUED", "CANCELED", "GONE"}
        /\ t \notin inflight
    BY <1>2 DEF Invs, OutcomeInv, SnapshotOpen, RunInv, SnapshotFree
  <2>2. ~Worker(t) /\ ~Ends(t)
    BY <2>1 DEF Worker, Ends, Invs, SegmentInv, OwnRuns, RunInv, OneRunPerItem
  <2>3. Resting(t)
    BY <1>2, ReadRests DEF Invs
  <2>4. t \notin merging \/ task[t].status = "GONE"
    BY <2>3, MergeDecides DEF Resting, Free
  <2>5. ~DispatchCommit
    BY DEF DispatchCommit, Idle
  <2>6. ~Exhausts(t) /\ IdleRows(t)
    BY <2>3 DEF Exhausts, Resting, NoActive
  <2> QED
    BY <1>0, <2>1, <2>2, <2>4, <2>5, <2>6, NextMoves
       DEF TaskMove, Stays, Put, Starts, Done, Fails, Unmerged, Again, Canceled, Gone, Recovered,
           Turns, Retryable, Active
<1>3. CASE snap' = Idle
  BY <1>3 DEF Idle
<1> QED
  BY <1>1, <1>2, <1>3, SnapshotMoves

LEMMA BegunKept ==
    ASSUME Invs, [Next]_vars
    PROVE  Begun'
<1> SUFFICES ASSUME NEW t \in Tasks
             PROVE  task'[t].status \notin {"PENDING", "PREPROCESSING"}
  BY DEF Begun
<1>1. task[t].status \notin {"PENDING", "PREPROCESSING"} /\ TaskMove(t)
  BY NextMoves DEF Invs, OutcomeInv, Begun
<1> QED
  BY <1>1 DEF TaskMove, Stays, Put, Starts, Done, Fails, Unmerged, Again, Canceled, Gone, Recovered, Turns

(* A task is in the queue with segments none of which is on a server: those that *)
(* start-up found on one wait again.                                             *)
LEMMA QueuedRestsKept ==
    ASSUME Invs, [Next]_vars, CleanStep
    PROVE  QueuedRests'
<1> SUFFICES ASSUME NEW t \in Tasks, task'[t].status = "QUEUED"
             PROVE  NoActive(t)' /\ IdleRows(t)'
  BY DEF QueuedRests
<1>1. /\ TypeOK /\ QueuedRests /\ seg \in [Segs -> Segment]
      /\ task \in [Tasks -> Task] /\ task[t] \in Task /\ t \in Items
  BY DEF Invs, TypeOK, ApartInv, Items
<1>2. CASE Restart
  <2>1. runs' = {}
    BY <1>2, CleanRestart
  <2>2. ASSUME NEW x \in SegsOf(t)
        PROVE  seg'[x].status \notin Active
    <3>1. x \in Segs /\ seg[x] \in Segment
      BY <1>1 DEF SegsOf
    <3>2. CASE seg[x].status \in Active
      BY <1>2, <3>1, <3>2 DEF Restart, RecoverSegments, PutBack, Segment, Active
    <3>3. CASE seg[x].status \notin Active
      BY <1>2, <3>1, <3>3 DEF Restart, RecoverSegments, PutBack
    <3> QED
      BY <3>2, <3>3
  <2> QED
    BY <2>1, <2>2 DEF NoActive, IdleRows, SegsOf
<1>3. CASE ~Restart /\ task[t].status # "QUEUED"
  <2>1. \A x \in SegsOf(t) : seg'[x].status = "NONE"
    BY <1>1, <1>3, NewlyQueued DEF SegsOf
  <2> QED
    BY <2>1 DEF NoActive, IdleRows, SegsOf, Active
<1>4. CASE ~Restart /\ task[t].status = "QUEUED" /\ ~DispatchCommit
  <2>1. NoActive(t) /\ IdleRows(t)
    BY <1>1, <1>4 DEF QueuedRests
  <2>2. /\ IdleRows(t)'
        /\ \A x \in SegsOf(t) : seg'[x].status \in {seg[x].status, "NONE", "FAILED"}
    BY <1>1, <1>4, <2>1, IdleStays
  <2> QED
    BY <2>1, <2>2 DEF NoActive, SegsOf, Active
<1>5. CASE task[t].status = "QUEUED" /\ DispatchCommit
  <2>1. NoActive(t) /\ IdleRows(t)
    BY <1>1, <1>5 DEF QueuedRests
  <2>2. PICK chosen \in SUBSET snap.items : /\ \E plan : Assign(chosen, plan)
                                            /\ runs' = runs \cup {NewRun(i) : i \in chosen}
    BY <1>5 DEF DispatchCommit
  <2>3. chosen \cap SegsOf(t) = {}
    <3> SUFFICES ASSUME chosen \cap SegsOf(t) # {} PROVE task'[t].status = "DISPATCHED"
      OBVIOUS
    <3>1. \/ \E plan : task'[t] = [task[t] EXCEPT !.status = "DISPATCHED", !.server = plan[t],
                                               !.gen = snap.gen[t] + 1]
          \/ task'[t] = [task[t] EXCEPT !.status = "DISPATCHED"]
      BY <1>1, <1>5, <2>2 DEF Assign
    <3> QED
      BY <1>1, <3>1 DEF Task
  <2>4. \A x \in SegsOf(t) : seg'[x] = seg[x]
    BY <2>2, <2>3 DEF Assign, SegsOf
  <2>5. \A p \in runs' : p.id \in SegsOf(t) => p \in runs
    BY <2>2, <2>3 DEF NewRun
  <2> QED
    BY <2>1, <2>4, <2>5 DEF NoActive, IdleRows, SegsOf
<1> QED
  BY <1>2, <1>3, <1>4, <1>5

(* It is in the queue with a finalizer call on its way only while the runner's loop *)
(* waits for that call.                                                             *)
LEMMA QueuedFreeKept ==
    ASSUME Invs, [Next]_vars, CleanStep
    PROVE  QueuedFree'
<1> SUFFICES ASSUME NEW t \in Tasks, task'[t].status = "QUEUED", t \notin awaited',
                    ~Unsegmented(t)'
             PROVE  t \notin toFinalize' \cup merging'
  BY DEF QueuedFree, Free
<1>1. /\ TypeOK /\ QueuedRests /\ QueuedFree
  BY DEF Invs, ApartInv
<1>2. PICK x \in Segs : Parent[x] = t /\ seg'[x].status # "NONE"
  BY DEF Unsegmented
<1>3. CASE Restart
  BY <1>3, CleanRestart
<1>4. CASE ~Restart
  <2>1. task[t].status = "QUEUED"
    BY <1>1, <1>2, <1>4, NewlyQueued
  <2>2. CASE t \notin awaited
    <3>1. Free(t) /\ NoActive(t)
      BY <1>1, <2>1, <2>2 DEF QueuedFree, QueuedRests
    <3>2. Free(t)'
      BY <1>1, <1>4, <2>1, <3>1, FreeStays
    <3> QED
      BY <3>2 DEF Free
  <2>3. CASE t \in awaited
    <3>1. CASE StartMerge(t)
      BY <2>3, <3>1 DEF StartMerge
    <3>2. CASE MergeSucceeds(t) \/ MergeFails(t)
      <4>1. t \in merging /\ merging' = merging \ {t} /\ toFinalize' = toFinalize
        BY <3>2 DEF MergeSucceeds, MergeFails
      <4>2. t \notin toFinalize
        BY <2>1, <4>1 DEF Invs, OutcomeInv, MergeWhole
      <4> QED
        BY <4>1, <4>2
    <3> QED
      BY <1>4, <2>3, <3>1, <3>2, AwaitedLeaves
  <2> QED
    BY <2>2, <2>3
<1> QED
  BY <1>3, <1>4

LEMMA SnapshotApartKept ==
    ASSUME Invs, [Next]_vars, CleanStep
    PROVE  SnapshotRests' /\ SnapshotApart'
<1> DEFINE quiet == snap' # Idle
<1>0. TypeOK /\ RunInv /\ (quiet => ~Restart)
  BY CleanRestart DEF Invs
<1>1. ASSUME NEW t \in Tasks, t \in snap.items, snap.stage = "work", quiet
      PROVE  Apart(t)'
  <2>1. Apart(t) /\ ~RetryFailedTasks
    BY <1>1 DEF Invs, ApartInv, SnapshotApart, RetryFailedTasks
  <2> QED
    BY <1>0, <1>1, <2>1, ApartStays
<1>2. CASE snap' = Idle
  BY <1>2 DEF Idle, SnapshotRests, SnapshotApart
<1>3. CASE snap' = snap /\ quiet
  <2>1. ASSUME NEW t \in Tasks, t \in snap.items, snap.stage = "queue"
        PROVE  Resting(t)'
    <3>1. ~DispatchCommit /\ ~RetryFailedTasks
      BY <2>1 DEF DispatchCommit, Planned, RetryFailedTasks
    <3>2. Resting(t)
      BY <2>1 DEF Invs, ApartInv, SnapshotRests
    <3> QED
      BY <1>0, <1>3, <3>1, <3>2, RestingStays
  <2> QED
    BY <1>1, <1>3, <2>1 DEF SnapshotRests, SnapshotApart
<1>4. CASE DispatchRead /\ quiet
  <2>0. \A t \in Tasks : Resting(t) => Resting(t)'
    BY <1>4, ReadFrame DEF Resting, NoActive, IdleRows, Free, Unsegmented, SegsOf
  <2>1. CASE ReadsQueue
    <3>1. ASSUME NEW t \in Queued
          PROVE  t \in Tasks /\ Resting(t)
      BY <2>1, <3>1
         DEF ReadsQueue, Queued, Invs, ApartInv, QueuedRests, QueuedFree, Resting
    <3> QED
      BY <2>0, <2>1, <3>1 DEF ReadsQueue, SnapshotRests, SnapshotApart
  <2>2. CASE ReadsParents
    <3>1. ASSUME NEW t \in Tasks, t \in WholeFileWork
          PROVE  Apart(t)'
      <4>1. Resting(t) /\ ~HasPending(t)
        BY <2>2, <3>1 DEF ReadsParents, WholeFileWork, Invs, ApartInv, SnapshotRests
      <4>2. \A x \in SegsOf(t) : seg[x].status \in {"NONE", "SUCCEEDED", "FAILED"}
        <5> SUFFICES ASSUME NEW x \in SegsOf(t)
                     PROVE  seg[x].status \in {"NONE", "SUCCEEDED", "FAILED"}
          OBVIOUS
        <5>1. seg[x].status \in SegmentStatus
          BY <1>0 DEF SegsOf, TypeOK, Segment
        <5> QED
          BY <4>1, <5>1 DEF Resting, NoActive, HasPending, SegsIn, SegmentStatus, Active
      <4>3. SegsOf(t) \cap snap'.items = {}
        BY <1>0, <2>2, SetsAssumption
           DEF ReadsParents, WholeFileWork, RunInv, SnapshotForm, SegsOf
      <4>4. Resting(t)' /\ seg' = seg
        BY <1>4, <2>0, <4>1, ReadFrame
      <4> QED
        BY <4>2, <4>3, <4>4 DEF Apart, Shut, Unopened, Resting, SegsOf
    <3> QED
      BY <2>2, <3>1 DEF ReadsParents, SnapshotRests, SnapshotApart
  <2>3. CASE \E u \in snap.parents : \E picked \in SUBSET Segs : ReadsSegments(u, picked)
    <3>1. snap.stage = "work" /\ snap'.stage = "work"
      BY <1>0, <2>3 DEF ReadsSegments, RunInv, SnapshotForm
    <3>2. \A t \in snap'.items \cap Tasks : t \in snap.items
      BY <2>3, SetsAssumption DEF ReadsSegments
    <3> QED
      BY <1>1, <1>4, <3>1, <3>2 DEF SnapshotRests, SnapshotApart
  <2> QED
    BY <1>0, <1>2, <1>4, <2>1, <2>2, <2>3, ReadMoves
<1> QED
  BY <1>2, <1>3, <1>4, SnapshotMoves

LEMMA WorkApartKept ==
    ASSUME Invs, [Next]_vars, CleanStep
    PROVE  WorkApart'
<1> SUFFICES ASSUME NEW p \in runs', p.id \in Tasks, p.pc # "end"
             PROVE  Apart(p.id)'
  BY DEF WorkApart
<1>0. TypeOK /\ RunInv /\ ~Restart
  BY CleanRestart DEF Invs
<1>1. CASE DispatchCommit /\ p.id \in snap.items
  <2>1. Apart(p.id) /\ ~RetryFailedTasks
    BY <1>1 DEF DispatchCommit, Planned, RetryFailedTasks, Invs, ApartInv, SnapshotApart
  <2> QED
    BY <1>0, <2>1, ApartStays
<1>2. CASE \E q \in runs : q.id = p.id /\ q.pc # "end"
  <2>1. Apart(p.id) /\ task[p.id].status # "FAILED"
    BY <1>2 DEF Invs, ApartInv, WorkApart, OutcomeInv, RunAlive, Active
  <2> QED
    BY <1>0, <2>1, ApartStays
<1> QED
  BY <1>0, <1>1, <1>2, NextStaysBusy

LEMMA ApartInvKept == Invs /\ [Next]_vars /\ CleanStep => ApartInv'
<1> SUFFICES ASSUME Invs, [Next]_vars, CleanStep PROVE ApartInv'
  OBVIOUS
<1>1. BusyNotPending'
  BY BusyKept DEF Invs, ApartInv
<1> QED
  BY <1>1, QueuedRestsKept, QueuedFreeKept, SnapshotApartKept, WorkApartKept DEF ApartInv

LEMMA GoneEmptyKept ==
    ASSUME Invs, [Next]_vars
    PROVE  GoneEmpty'
<1> SUFFICES ASSUME NEW t \in Tasks, task'[t].status = "GONE"
             PROVE  Unsegmented(t)'
  BY DEF GoneEmpty
<1>1. CASE task[t].status = "GONE"
  BY <1>1, UnsegmentedStays DEF Invs, ClosedInv, GoneEmpty
<1>2. CASE task[t].status # "GONE"
  BY <1>2, NextMoves
     DEF TaskMove, Stays, Put, Starts, Done, Fails, Unmerged, Again, Canceled, Gone, Recovered, Turns
<1> QED
  BY <1>1, <1>2

LEMMA UnmergedWholeKept ==
    ASSUME Invs, [Next]_vars
    PROVE  UnmergedWhole'
<1> SUFFICES ASSUME NEW x \in Segs, task'[Parent[x]].status = "FAILED",
                    task'[Parent[x]].err = "MERGE_FAILED"
             PROVE  seg'[x].status \in {"NONE", "SUCCEEDED"}
  BY DEF UnmergedWhole
<1> DEFINE t == Parent[x]
<1>1. TypeOK /\ SegmentInv /\ t \in Tasks /\ TaskMove(t) /\ x \in SegsOf(t)
  BY NextMoves, SetsAssumption DEF Invs, SegsOf
<1>2. seg[x].status \in {"NONE", "SUCCEEDED"}
  <2>1. CASE Stays(t)
    BY <2>1 DEF Stays, Turns, Invs, ClosedInv, UnmergedWhole
  <2>2. CASE Unmerged(t)
    <3>1. AllSucceeded(t)
      BY <2>2 DEF Unmerged, Turns, Active, Invs, OutcomeInv, MergeWhole
    <3> QED
      BY <1>1, <3>1 DEF AllSucceeded, Rows
  <2> QED
    BY <1>1, <2>1, <2>2 DEF TaskMove, Put, Starts, Done, Fails, Again, Canceled, Gone, Recovered, Turns
<1> QED
  BY <1>1, <1>2, NoRowStays, NextMovesSegment

LEMMA NewlyClosed ==
    ASSUME Invs, [Next]_vars,
           NEW x \in Segs, seg[x].status # "FAILED", seg'[x].status = "FAILED"
    PROVE  task'[Parent[x]].status \in Ended
<1> DEFINE t == Parent[x]
<1>1. /\ seg \in [Segs -> Segment] /\ seg[x] \in Segment /\ task \in [Tasks -> Task]
      /\ task[t] \in Task /\ t \in Tasks /\ x \in SegsOf(t) /\ x \in Items /\ TypeOK
  BY SetsAssumption DEF Invs, TypeOK, SegsOf, Items
<1>2. CASE seg'[x] = seg[x]
  BY <1>2
<1>3. CASE DispatchCommit
  BY <1>1, <1>3, CommitWrites
<1>4. CASE task' = task /\ task[t].status \in Ended
  BY <1>4
<1>5. CASE RunStep
  <2>1. PICK r \in runs :
          \/ LoadTask(r) \/ BeginTask(r) \/ LoadSegment(r) \/ CheckParent(r)
          \/ BeginSegment(r) \/ RecheckParent(r) \/ CheckStaleRun(r)
          \/ MarkTaskSucceeded(r) \/ MarkTaskFailed(r)
          \/ MarkSegmentSucceeded(r) \/ MarkSegmentFailed(r) \/ EndRun(r)
    BY <1>5 DEF RunStep
  <2>2. CASE CheckParent(r) \/ RecheckParent(r)
    <3>1. CASE r.id = x
      <4>1. task[t].status \in Ended /\ task' = task
        BY <1>2, <2>2, <3>1 DEF CheckParent, RecheckParent, Ended
      <4> QED
        BY <1>4, <4>1
    <3>2. CASE r.id # x
      BY <1>1, <1>2, <2>2, <3>2 DEF CheckParent, RecheckParent
    <3> QED
      BY <3>1, <3>2
  <2>3. CASE BeginSegment(r) \/ MarkSegmentSucceeded(r)
    BY <1>1, <2>3 DEF BeginSegment, MarkSegmentSucceeded, Segment, db
  <2>4. CASE MarkSegmentFailed(r)
    <3>1. CASE RetrySegment(r.id)
      BY <1>1, <3>1 DEF RetrySegment, Segment
    <3>2. CASE ExhaustSegment(r.id)
      <4>1. Parent[r.id] = t
        BY <1>1, <1>2, <3>2 DEF ExhaustSegment, SegsOf
      <4>2. task'[t].status = "FAILED"
        BY <1>1, <3>2, <4>1 DEF ExhaustSegment, Task
      <4> QED
        BY <4>2 DEF Ended
    <3> QED
      BY <1>2, <2>4, <3>1, <3>2 DEF MarkSegmentFailed, db
  <2> QED
    BY <1>2, <2>1, <2>2, <2>3, <2>4
       DEF LoadTask, BeginTask, LoadSegment, CheckStaleRun, MarkTaskSucceeded,
           MarkTaskFailed, EndRun, db
<1>6. CASE RetryFailedTasks
  BY <1>1, <1>6 DEF RetryFailedTasks, NoSegment
<1>7. CASE ApiStep
  <2>1. ASSUME NEW S, ReleaseSegments(S)
        PROVE  t \in S /\ seg[x].status \in Open
    BY <1>1, <1>2, <2>1 DEF ReleaseSegments, Open
  <2>2. ASSUME NEW u \in Tasks, CancelTask(u)
        PROVE  task'[t].status = "CANCELED"
    <3>1. t = u
      BY <2>1, <2>2 DEF CancelTask
    <3> QED
      BY <1>1, <2>2, <3>1 DEF CancelTask, Task
  <2>3. ASSUME NEW scope, EmergencyStop(scope)
        PROVE  \/ task'[t].status = "CANCELED"
               \/ task'[t] = task[t] /\ task[t].status = "FAILED"
    <3>1. t \in scope /\ seg[x].status \in Open
      BY <2>1, <2>3 DEF EmergencyStop
    <3>2. CASE task[t].status \in {"QUEUED"} \cup Active
      BY <1>1, <2>3, <3>1, <3>2 DEF EmergencyStop, Task
    <3>3. CASE task[t].status \notin {"QUEUED"} \cup Active
      <4>1. task'[t] = task[t]
        BY <1>1, <2>3, <3>3 DEF EmergencyStop
      <4>2. task[t].status # "GONE"
        BY <1>1, <3>1 DEF Invs, ClosedInv, GoneEmpty, Unsegmented, Open, Active
      <4>3. task[t].status # "SUCCEEDED"
        BY <1>1, <3>1
           DEF Invs, ClosedInv, SuccessShut, Transcribed, Shut, Unopened, Open, Active
      <4>4. task[t].status \in {"CANCELED", "FAILED"}
        BY <1>1, <3>3, <4>2, <4>3, StatusRange DEF TaskStatus, ValidTransitions, Active
      <4> QED
        BY <4>1, <4>4
    <3> QED
      BY <3>2, <3>3
  <2>4. ASSUME NEW statuses, DeleteTasks(statuses)
        PROVE  FALSE
    BY <2>4 DEF DeleteTasks, NoSegment
  <2> QED
    BY <1>7, <2>2, <2>3, <2>4 DEF ApiStep, Ended
<1>8. CASE Restart
  BY <1>1, <1>8 DEF Restart, RecoverSegments, PutBack, Active, Segment
<1> QED
  BY <1>2, <1>3, <1>5, <1>6, <1>7, <1>8, ReadFrame
     DEF Next, DispatchGiveUp, FinalizeStep, StartMerge, MergeSucceeds,
         MergeFails, vars, db

(* The segments of a task that is tried again are dropped, or were all finished. *)
LEMMA AgainDrops ==
    ASSUME Invs, [Next]_vars, NEW x \in Segs, Again(Parent[x])
    PROVE  seg'[x].status \in {"NONE", "SUCCEEDED"}
<1> DEFINE t == Parent[x]
<1>1. /\ RetryFailedTasks /\ Retryable(t) /\ t \in Tasks /\ x \in SegsOf(t)
      /\ task'[t].status # "FAILED" /\ TypeOK /\ SegmentInv
  BY SetsAssumption DEF Again, SegsOf, Invs
<1>2. CASE RetriesMerge(t)
  <2>1. seg[x].status \in {"NONE", "SUCCEEDED"}
    BY <1>2 DEF RetriesMerge, Retryable, Invs, ClosedInv, UnmergedWhole
  <2> QED
    BY <1>1, <2>1, NoRowStays, NextMovesSegment
<1>3. CASE FallsBack(t)
  BY <1>1, <1>3 DEF RetryFailedTasks, NoSegment
<1>4. CASE Requeues(t)
  BY <1>1, <1>4, NoRowStays DEF Requeues, Rows
<1>5. CASE ~RetriesMerge(t) /\ ~FallsBack(t) /\ ~Requeues(t)
  BY <1>1, <1>5 DEF RetryFailedTasks, Retryable
<1> QED
  BY <1>2, <1>3, <1>4, <1>5

(* A task that has ended, and is not tried again, keeps the segments it has closed; *)
(* a canceled one may be put on a server from a stale snapshot, and is shut then.   *)
LEMMA EndedStays ==
    ASSUME Invs, [Next]_vars, CleanStep, NEW x \in Segs,
           task[Parent[x]].status \in Ended, seg'[x].status \notin {"NONE", "SUCCEEDED"}
    PROVE  \/ /\ task'[Parent[x]].status = task[Parent[x]].status
              /\ task[Parent[x]].status = "FAILED" => task'[Parent[x]].err = task[Parent[x]].err
           \/ Put(Parent[x]) /\ Shut(Parent[x])'
<1> DEFINE t == Parent[x]
<1>1. t \in Tasks /\ TaskMove(t) /\ TypeOK /\ RunInv
  BY NextMoves, SetsAssumption DEF Invs
<1>2. ~Unsegmented(t)'
  BY DEF Unsegmented
<1>3. ~Again(t)
  BY AgainDrops
<1>4. ~Gone(t)
  BY <1>2 DEF Gone
<1>5. CASE Put(t)
  <2>1. snap.stage = "work" /\ t \in snap.items
    BY <1>5 DEF Put, Turns, Ended
  <2>2. Shut(t)
    BY <1>1, <2>1 DEF Invs, ApartInv, SnapshotApart, Apart
  <2>3. Shut(t)'
    BY <1>1, <2>2, ShutStays
  <2> QED
    BY <1>5, <2>3
<1>6. CASE ~Put(t)
  <2>1. Stays(t)
    BY <1>1, <1>3, <1>4, <1>6
       DEF TaskMove, Starts, Done, Fails, Unmerged, Canceled, Recovered, Turns, Ended, Active
  <2> QED
    BY <2>1 DEF Stays, Turns
<1> QED
  BY <1>5, <1>6

(* One of whose segments a step leaves on a server has ended for good. *)
LEMMA EndedHolds ==
    ASSUME Invs, [Next]_vars, CleanStep, NEW x \in Segs,
           task[Parent[x]].status \in Ended, seg'[x].status \in Active
    PROVE  /\ task'[Parent[x]].status = task[Parent[x]].status
           /\ task[Parent[x]].status = "FAILED" => task'[Parent[x]].err = task[Parent[x]].err
<1>1. ~Shut(Parent[x])' /\ seg'[x].status \notin {"NONE", "SUCCEEDED"}
  BY DEF Shut, Unopened, SegsOf, Active
<1> QED
  BY <1>1, EndedStays

LEMMA ClosedParentKept ==
    ASSUME Invs, [Next]_vars, CleanStep
    PROVE  ClosedParent'
<1> SUFFICES ASSUME NEW x \in Segs, seg'[x].status = "FAILED"
             PROVE  Shut(Parent[x])' \/ task'[Parent[x]].status \in Ended
  BY DEF ClosedParent
<1>0. TypeOK /\ RunInv /\ Parent[x] \in Tasks
  BY SetsAssumption DEF Invs
<1>1. CASE seg[x].status # "FAILED"
  BY <1>1, NewlyClosed
<1>2. CASE seg[x].status = "FAILED"
  <2>1. Shut(Parent[x]) \/ task[Parent[x]].status \in Ended
    BY <1>2 DEF Invs, ClosedInv, ClosedParent
  <2>2. CASE Shut(Parent[x])
    BY <1>0, <2>2, ShutStays
  <2>3. CASE task[Parent[x]].status \in Ended
    BY <2>3, EndedStays
  <2> QED
    BY <2>1, <2>2, <2>3
<1> QED
  BY <1>1, <1>2

(* A task succeeds by the merge of its segments or, with all of them over, as a whole file. *)
LEMMA NewSuccess ==
    ASSUME Invs, [Next]_vars, NEW t \in Tasks, task'[t].status = "SUCCEEDED",
           task[t].status # "SUCCEEDED"
    PROVE  Worker(t) \/ Transcribed(t)
<1>1. TaskMove(t) /\ MergeWhole
  BY NextMoves DEF Invs, OutcomeInv
<1>2. task[t].status \in Active /\ (Ends(t) \/ t \in merging)
  BY <1>1
     DEF TaskMove, Stays, Put, Starts, Done, Fails, Unmerged, Again, Canceled, Gone, Recovered, Turns
<1>3. CASE Ends(t)
  BY <1>3 DEF Ends, Worker
<1>4. CASE t \in merging
  <2>1. AllSucceeded(t)
    BY <1>1, <1>2, <1>4 DEF MergeWhole, Active
  <2> QED
    BY <2>1 DEF AllSucceeded, Rows, Transcribed
<1> QED
  BY <1>2, <1>3, <1>4

LEMMA SuccessShutKept ==
    ASSUME Invs, [Next]_vars, CleanStep
    PROVE  SuccessShut'
<1> SUFFICES ASSUME NEW t \in Tasks, task'[t].status = "SUCCEEDED"
             PROVE  Transcribed(t)' \/ Shut(t)'
  BY DEF SuccessShut
<1>1. TypeOK /\ RunInv /\ SegmentInv
  BY DEF Invs
<1>2. Transcribed(t) \/ Shut(t)
  <2>1. CASE task[t].status = "SUCCEEDED"
    BY <2>1 DEF Invs, ClosedInv, SuccessShut
  <2>2. CASE task[t].status # "SUCCEEDED"
    BY <2>2, NewSuccess, WorkerApart DEF Apart
  <2> QED
    BY <2>1, <2>2
<1> QED
  BY <1>1, <1>2, TranscribedStays, ShutStays

LEMMA ClosedInvKept == Invs /\ [Next]_vars /\ CleanStep => ClosedInv'
  BY SuccessShutKept, GoneEmptyKept, UnmergedWholeKept, ClosedParentKept DEF ClosedInv

LEMMA InitTasks ==
    ASSUME Init, NEW t \in Tasks
    PROVE  /\ task[t].status = "QUEUED" /\ released[t] = 0
           /\ notices[t].succeeded = 0 /\ notices[t].failed = 0
<1>1. PICK retry : task = [u \in Tasks |-> [NoTask EXCEPT !.status = "QUEUED", !.retry = retry[u]]]
  BY DEF Init
<1>2. task[t] = [NoTask EXCEPT !.status = "QUEUED", !.retry = retry[t]]
  BY <1>1
<1>3. [NoTask EXCEPT !.status = "QUEUED", !.retry = retry[t]].status = "QUEUED"
  BY DEF NoTask
<1>4. released[t] = 0 /\ notices[t] = [succeeded |-> 0, failed |-> 0]
  BY DEF Init
<1> QED
  BY <1>2, <1>3, <1>4

LEMMA InitInvs == Init => Invs
<1> SUFFICES ASSUME Init PROVE Invs
  OBVIOUS
<1>1. runs = {} /\ merging = {} /\ toFinalize = {} /\ snap = Idle /\ snap.stage = "rest"
  BY DEF Init, Idle
<1>2. \A t \in Tasks : task[t].status = "QUEUED"
  BY InitTasks
<1>3. \A x \in Segs : seg[x].status = "PENDING"
  BY DEF Init, NoSegment
<1>4. OutcomeInv
  BY <1>1, <1>2 DEF OutcomeInv, Begun, RunAlive, MergeWhole, SnapshotOpen
<1>5. ClosedInv
  BY <1>2, <1>3, SetsAssumption
     DEF ClosedInv, SuccessShut, GoneEmpty, UnmergedWhole, ClosedParent
<1>6. QueuedRests /\ QueuedFree
  BY <1>1, <1>3 DEF QueuedRests, NoActive, IdleRows, Active, SegsOf, QueuedFree, Free
<1>7. ApartInv
  BY <1>1, <1>3, <1>6 DEF ApartInv, BusyNotPending, SnapshotRests, SnapshotApart, WorkApart
<1> QED
  BY <1>4, <1>5, <1>7, InitType, InitRuns, InitSegments DEF Invs

LEMMA InvsKept == Invs /\ [Next]_vars /\ CleanStep => Invs'
<1> SUFFICES ASSUME Invs, [Next]_vars, CleanStep PROVE Invs'
  OBVIOUS
<1>1. TypeOK /\ RunInv /\ SegmentInv
  BY DEF Invs
<1>2. TypeOK' /\ RunInv' /\ SegmentInv'
  BY <1>1, NextType, NextKeepsRuns, SegmentInvKept
<1>3. OutcomeInv'
  BY BegunKept, RunAliveKept, MergeWholeKept, SnapshotOpenKept DEF OutcomeInv
<1> QED
  BY <1>2, <1>3, ApartInvKept, ClosedInvKept DEF Invs

LEMMA InvsAlways ==
    ASSUME Lingering = FALSE \/ MaxRestarts = 0
    PROVE  Spec => []Invs
<1>1. Invs /\ [Next]_vars => Invs'
  BY InvsKept, StepIsClean DEF Invs
<1> QED
  BY <1>1, InitInvs, PTL DEF Spec

(* Where no cancel falls inside a dispatch, a failed segment has a task that has ended. *)
ClosedEnded == \A x \in Segs : seg[x].status = "FAILED" => task[Parent[x]].status \in Ended

LEMMA ClosedEndedKept ==
    ASSUME Invs, CanceledUnread, ClosedEnded, [Next]_vars, CleanStep
    PROVE  ClosedEnded'
<1> SUFFICES ASSUME NEW x \in Segs, seg'[x].status = "FAILED"
             PROVE  task'[Parent[x]].status \in Ended
  BY DEF ClosedEnded
<1>1. CASE seg[x].status # "FAILED"
  BY <1>1, NewlyClosed
<1>2. CASE seg[x].status = "FAILED"
  <2>1. task[Parent[x]].status \in Ended /\ Parent[x] \in Tasks
    BY <1>2, SetsAssumption DEF ClosedEnded
  <2>2. ~Put(Parent[x])
    BY <2>1 DEF Put, Turns, Ended, CanceledUnread
  <2> QED
    BY <2>1, <2>2, EndedStays
<1> QED
  BY <1>1, <1>2

(* merge_segment_results and start-up recovery: over retries, late results, fallbacks, *)
(* restarts, and cancels that do not fall inside a dispatch, a task that has segments  *)
(* succeeds only with all of them.                                                     *)
THEOREM SuccessComplete ==
    ASSUME Lingering = FALSE \/ MaxRestarts = 0, ApiDuringDispatch = FALSE
    PROVE  Spec => []SuccessIsComplete
<1>1. Invs /\ ClosedEnded => SuccessIsComplete
  <2> SUFFICES ASSUME Invs, ClosedEnded, NEW t \in Tasks, task[t].status = "SUCCEEDED",
                      NEW x \in Rows(t)
               PROVE  seg[x].status = "SUCCEEDED"
    BY DEF SuccessIsComplete
  <2>1. x \in SegsOf(t) /\ x \in Segs /\ Parent[x] = t /\ seg[x].status # "NONE"
    BY DEF Rows, SegsOf
  <2>2. seg[x].status # "FAILED"
    BY <2>1 DEF ClosedEnded, Ended
  <2> QED
    BY <2>1, <2>2 DEF Invs, ClosedInv, SuccessShut, Transcribed, Shut, Unopened
<1>2. Init => ClosedEnded
  BY DEF Init, NoSegment, ClosedEnded
<1>3. Invs /\ CanceledUnread /\ [Next]_vars => CanceledUnread'
  BY UnreadKept DEF Invs
<1>4. Invs /\ CanceledUnread /\ ClosedEnded /\ [Next]_vars => ClosedEnded'
  BY ClosedEndedKept, StepIsClean DEF Invs
<1> QED
  BY <1>1, <1>2, <1>3, <1>4, InvsAlways, InitUnread, PTL DEF Spec

(* Where no restart comes between, who succeeds has finished segments or a whole file. *)
SuccessUncut == \A t \in Tasks : task[t].status = "SUCCEEDED" => Transcribed(t) \/ Uncut(t)

LEMMA SuccessUncutKept ==
    ASSUME Invs, WholeInv, SuccessUncut, [Next]_vars, ~Restart
    PROVE  SuccessUncut'
<1> SUFFICES ASSUME NEW t \in Tasks, task'[t].status = "SUCCEEDED"
             PROVE  Transcribed(t)' \/ Uncut(t)'
  BY DEF SuccessUncut
<1>1. TypeOK /\ RunInv /\ SegmentInv /\ CleanStep
  BY DEF Invs, CleanStep
<1>2. Transcribed(t) \/ Uncut(t)
  <2>1. CASE task[t].status = "SUCCEEDED"
    BY <2>1 DEF SuccessUncut
  <2>2. CASE task[t].status # "SUCCEEDED"
    BY <2>2, NewSuccess DEF Worker, WholeInv, WholeAlone
  <2> QED
    BY <2>1, <2>2
<1> QED
  BY <1>1, <1>2, TranscribedStays, UncutStays

(* merge_segment_results and _dispatch_queued_tasks: where no restart comes between, and *)
(* wherever cancels fall, also between the dispatcher's reads, no success is one of a     *)
(* part: a task with segments succeeds with all of them or, as a whole file, with all of  *)
(* them failed.                                                                           *)
THEOREM SuccessWhole ==
    ASSUME MaxRestarts = 0
    PROVE  Spec => []SuccessIsWhole
<1>1. SuccessUncut => SuccessIsWhole
  <2> SUFFICES ASSUME SuccessUncut, NEW t \in Tasks, task[t].status = "SUCCEEDED"
               PROVE  \/ \A x \in Rows(t) : seg[x].status = "SUCCEEDED"
                      \/ \A x \in Rows(t) : seg[x].status = "FAILED"
    BY DEF SuccessIsWhole
  <2>1. Transcribed(t) \/ Uncut(t)
    BY DEF SuccessUncut
  <2> QED
    BY <2>1 DEF Transcribed, Uncut, Shut, Unopened, Rows
<1>2. Init => SuccessUncut
  BY InitTasks DEF SuccessUncut
<1>3. Invs /\ WholeInv /\ SuccessUncut /\ [Next]_vars => SuccessUncut'
  BY SuccessUncutKept, NoRestart DEF Invs
<1>4. Invs /\ WholeInv /\ [Next]_vars => WholeInv'
  BY WholeInvKept, NoRestart DEF Invs
<1> QED
  BY <1>1, <1>2, <1>3, <1>4, InvsAlways, InitWhole, PTL DEF Spec

(* _mark_task_succeeded and _merge_and_finalize: the owner is told of a success *)
(* exactly once, by the commit that stores it, and the success stands.          *)
THEOREM SuccessOnce ==
    ASSUME Lingering = FALSE \/ MaxRestarts = 0
    PROVE  Spec => []SuccessNotifiedOnce
<1>1. Init => SuccessNotifiedOnce
  BY InitTasks DEF SuccessNotifiedOnce
<1>2. Invs /\ SuccessNotifiedOnce /\ [Next]_vars => SuccessNotifiedOnce'
  <2> SUFFICES ASSUME Invs, SuccessNotifiedOnce, [Next]_vars, NEW t \in Tasks
               PROVE  /\ notices'[t].succeeded <= 1
                      /\ task'[t].status = "SUCCEEDED" => notices'[t].succeeded = 1
                      /\ notices'[t].succeeded = 1 => task'[t].status \in {"SUCCEEDED", "GONE"}
    BY DEF SuccessNotifiedOnce
  <2>1. /\ notices[t].succeeded <= 1
        /\ task[t].status = "SUCCEEDED" => notices[t].succeeded = 1
        /\ notices[t].succeeded = 1 => task[t].status \in {"SUCCEEDED", "GONE"}
    BY DEF SuccessNotifiedOnce
  <2>2. notices[t] \in [succeeded: 0 .. 2, failed: 0 .. 2]
    BY DEF Invs, TypeOK
  <2>3. CASE Done(t)
    <3>1. notices[t].succeeded = 0
      BY <2>1, <2>2, <2>3 DEF Done, Turns, Active
    <3>2. notices'[t].succeeded = 1
      BY <2>2, <2>3, <3>1 DEF Done, Tells, Twice
    <3> QED
      BY <2>3, <3>2 DEF Done, Turns
  <2>4. CASE Fails(t)
    <3>1. notices'[t].succeeded = notices[t].succeeded
      BY <2>2, <2>4 DEF Fails, Tells, Quiet
    <3> QED
      BY <2>1, <2>4, <3>1 DEF Fails, Turns, Active
  <2>5. CASE \/ Stays(t) \/ Put(t) \/ Starts(t) \/ Unmerged(t) \/ Again(t) \/ Canceled(t)
             \/ Gone(t) \/ Recovered(t)
    <3>1. notices'[t] = notices[t]
      BY <2>5 DEF Stays, Put, Starts, Unmerged, Again, Canceled, Gone, Recovered, Quiet
    <3> QED
      BY <2>1, <2>5, <3>1
         DEF Stays, Put, Starts, Unmerged, Again, Canceled, Gone, Recovered, Turns, Retryable, Active
  <2> QED
    BY <2>3, <2>4, <2>5, NextMoves DEF TaskMove
<1>3. Spec => []Invs
  BY InvsAlways
<1> QED
  BY <1>1, <1>2, <1>3, PTL DEF Spec

(* _mark_task_failed and the failure of a last segment: a transcription's final *)
(* failure is announced, once, and no retry takes the announcement back.        *)
THEOREM FailureOnce ==
    ASSUME Lingering = FALSE \/ MaxRestarts = 0
    PROVE  Spec => []FailureNotifiedWhenFinal
<1>1. Init => FailureNotifiedWhenFinal
  BY InitTasks DEF FailureNotifiedWhenFinal
<1>2. Invs /\ FailureNotifiedWhenFinal /\ [Next]_vars => FailureNotifiedWhenFinal'
  <2> SUFFICES ASSUME Invs, FailureNotifiedWhenFinal, [Next]_vars, NEW t \in Tasks
               PROVE  /\ notices'[t].failed <= 1
                      /\ notices'[t].failed = 1 => task'[t].status \in {"FAILED", "GONE"} /\ Settled(t)'
                      /\ task'[t].status = "FAILED" /\ Settled(t)' /\ task'[t].err # "MERGE_FAILED"
                           => notices'[t].failed = 1
    BY DEF FailureNotifiedWhenFinal
  <2>1. /\ notices[t].failed <= 1
        /\ notices[t].failed = 1 => task[t].status \in {"FAILED", "GONE"} /\ Settled(t)
        /\ task[t].status = "FAILED" /\ Settled(t) /\ task[t].err # "MERGE_FAILED"
             => notices[t].failed = 1
    BY DEF FailureNotifiedWhenFinal
  <2>2. /\ notices[t] \in [succeeded: 0 .. 2, failed: 0 .. 2]
        /\ task[t] \in Task
    BY DEF Invs, TypeOK
  <2>3. CASE Done(t)
    <3>1. notices'[t].failed = 0
      BY <2>1, <2>2, <2>3 DEF Done, Tells, Turns, Active
    <3> QED
      BY <2>3, <3>1 DEF Done, Turns
  <2>4. CASE Fails(t)
    <3>1. /\ notices[t].failed = 0 /\ task'[t].status = "FAILED"
          /\ task'[t].retry = task[t].retry
      BY <2>1, <2>2, <2>4 DEF Fails, Turns, Active
    <3>2. Settled(t)' <=> NoAttemptLeft(t)
      BY <3>1 DEF Settled, NoAttemptLeft
    <3>3. IF NoAttemptLeft(t) THEN notices'[t].failed = 1 ELSE notices'[t].failed = 0
      BY <2>2, <2>4, <3>1 DEF Fails, Tells, Quiet, Twice
    <3> QED
      BY <3>1, <3>2, <3>3
  <2>5. CASE \/ Stays(t) \/ Put(t) \/ Starts(t) \/ Unmerged(t) \/ Again(t) \/ Canceled(t)
             \/ Gone(t) \/ Recovered(t)
    <3>1. notices'[t] = notices[t]
      BY <2>5 DEF Stays, Put, Starts, Unmerged, Again, Canceled, Gone, Recovered, Quiet
    <3>2. CASE Stays(t)
      <4>1. task'[t].status = task[t].status /\ task'[t].retry = task[t].retry
        BY <3>2 DEF Stays, Turns
      <4>2. Settled(t)' <=> Settled(t)
        BY <4>1 DEF Settled
      <4>3. task[t].status = "FAILED" => task'[t].err = task[t].err
        BY <3>2 DEF Stays
      <4> QED
        BY <2>1, <3>1, <4>1, <4>2, <4>3
    <3>3. CASE Gone(t)
      BY <2>1, <3>1, <3>3 DEF Gone, Settled
    <3>4. CASE Put(t) \/ Starts(t) \/ Unmerged(t) \/ Canceled(t) \/ Recovered(t)
      <4>1. notices[t].failed = 0
        BY <2>1, <2>2, <3>4 DEF Put, Starts, Unmerged, Canceled, Recovered, Turns, Active
      <4> QED
        BY <3>1, <3>4, <4>1 DEF Put, Starts, Unmerged, Canceled, Recovered, Turns
    <3>5. CASE Again(t)
      <4>1. task[t].status = "FAILED" /\ ~Settled(t)
        BY <2>2, <3>5, BoundsAssumption DEF Again, Retryable, Settled, Task
      <4>2. notices[t].failed = 0
        BY <2>1, <2>2, <4>1
      <4> QED
        BY <3>1, <3>5, <4>2 DEF Again
    <3> QED
      BY <2>5, <3>2, <3>3, <3>4, <3>5
  <2> QED
    BY <2>3, <2>4, <2>5, NextMoves DEF TaskMove
<1>3. Spec => []Invs
  BY InvsAlways
<1> QED
  BY <1>1, <1>2, <1>3, PTL DEF Spec

(* The rate limiter's slot of a task is kept over its retries: it is given back *)
(* only by the step that settles the task, or after it.                         *)
THEOREM SlotHeld ==
    ASSUME Lingering = FALSE \/ MaxRestarts = 0, ApiDuringDispatch = FALSE
    PROVE  Spec => []SlotHeldUntilSettled
<1>1. Init => SlotHeldUntilSettled
  BY InitTasks DEF SlotHeldUntilSettled
<1>2. Invs /\ CanceledUnread /\ SlotHeldUntilSettled /\ [Next]_vars => SlotHeldUntilSettled'
  <2> SUFFICES ASSUME Invs, CanceledUnread, SlotHeldUntilSettled, [Next]_vars, NEW t \in Tasks,
                      released'[t] > 0, ~Settled(t)'
               PROVE  FALSE
    BY DEF SlotHeldUntilSettled
  <2>1. released[t] > 0 => Settled(t)
    BY DEF SlotHeldUntilSettled
  <2>2. released[t] \in 0 .. 2 /\ task[t] \in Task
    BY DEF Invs, TypeOK
  <2>3. CASE Stays(t)
    <3>1. Settled(t)' <=> Settled(t)
      BY <2>3 DEF Stays, Turns, Settled
    <3>2. task[t].status # "CANCELED"
      BY <3>1 DEF Settled
    <3> QED
      BY <2>1, <2>3, <3>1, <3>2 DEF Stays, SlotKept
  <2>4. CASE Put(t)
    BY <2>1, <2>4 DEF Put, Turns, SlotKept, Settled, CanceledUnread
  <2>5. CASE Starts(t) \/ Unmerged(t) \/ Recovered(t)
    BY <2>1, <2>5 DEF Starts, Unmerged, Recovered, Turns, SlotKept, Settled, Active
  <2>6. CASE Fails(t)
    <3>1. CASE NoAttemptLeft(t)
      BY <2>6, <3>1 DEF Fails, Turns, NoAttemptLeft, Settled
    <3>2. CASE ~NoAttemptLeft(t)
      BY <2>1, <2>6, <3>2 DEF Fails, Turns, SlotKept, Settled, Active
    <3> QED
      BY <3>1, <3>2
  <2>7. CASE Again(t)
    BY <2>1, <2>2, <2>7, BoundsAssumption DEF Again, Retryable, SlotKept, Settled, Task
  <2>8. CASE Done(t) \/ Canceled(t) \/ Gone(t)
    BY <2>8 DEF Done, Canceled, Gone, Turns, Settled
  <2> QED
    BY <2>3, <2>4, <2>5, <2>6, <2>7, <2>8, NextMoves DEF TaskMove
<1>3. Invs /\ CanceledUnread /\ [Next]_vars => CanceledUnread'
  BY UnreadKept DEF Invs
<1>4. Spec => []Invs
  BY InvsAlways
<1> QED
  BY <1>1, <1>2, <1>3, <1>4, InitUnread, PTL DEF Spec

-----------------------------------------------------------------------------
(* The runner implements TaskLifecycle, move by move. *)

PhaseOf(status) ==
    CASE status = "QUEUED"    -> "waiting"
      [] status \in Active    -> "running"
      [] status = "SUCCEEDED" -> "done"
      [] status = "FAILED"    -> "failed"
      [] status = "CANCELED"  -> "canceled"
      [] OTHER                -> "gone"

LEMMA PhaseValues ==
    /\ PhaseOf("QUEUED") = "waiting" /\ PhaseOf("SUCCEEDED") = "done"
    /\ PhaseOf("FAILED") = "failed" /\ PhaseOf("CANCELED") = "canceled"
    /\ PhaseOf("GONE") = "gone"
    /\ PhaseOf("DISPATCHED") = "running" /\ PhaseOf("TRANSCRIBING") = "running"
  BY DEF PhaseOf, Active

LEMMA LifecycleFrom ==
    ASSUME NEW t \in Tasks, NEW P
    PROVE  Lifecycle!From(t, P) <=> PhaseOf(task[t].status) \in P
  BY DEF Lifecycle!From, PhaseOf

LEMMA LifecycleTo ==
    ASSUME NEW t \in Tasks, NEW P
    PROVE  Lifecycle!To(t, P) <=> PhaseOf(task'[t].status) \in P
  BY DEF Lifecycle!To, PhaseOf

LEMMA LifecycleStay ==
    ASSUME NEW t \in Tasks, PhaseOf(task'[t].status) = PhaseOf(task[t].status),
           Lifecycle!SameTries(t), Lifecycle!TellNothing(t)
    PROVE  Lifecycle!Stay(t)
  BY DEF Lifecycle!Stay, Lifecycle!To, PhaseOf

LEMMA LifecycleInit == Init => Lifecycle!Init
<1> SUFFICES ASSUME Init PROVE Lifecycle!Init
  OBVIOUS
<1>1. \A t \in Tasks : task[t].status = "QUEUED" /\ task[t].retry \in 0 .. MaxRetry
  BY InitInvs, InitTasks DEF Invs, TypeOK, Task
<1>2. notices = [t \in Tasks |-> [succeeded |-> 0, failed |-> 0]]
  BY DEF Init
<1>3. [t \in Tasks |-> PhaseOf(task[t].status)] = [t \in Tasks |-> "waiting"]
  BY <1>1, PhaseValues
<1>4. [t \in Tasks |-> task[t].retry] \in [Tasks -> 0 .. MaxRetry]
  BY <1>1
<1> QED
  BY <1>2, <1>3, <1>4 DEF Lifecycle!Init, PhaseOf

LEMMA LifecycleMove ==
    ASSUME Invs, CanceledUnread, SuccessNotifiedOnce, FailureNotifiedWhenFinal,
           NEW t \in Tasks, TaskMove(t)
    PROVE  Lifecycle!Move(t) \/ Lifecycle!Stay(t)
<1>1. /\ task[t] \in Task
      /\ notices[t] \in [succeeded: 0 .. 2, failed: 0 .. 2]
  BY DEF Invs, TypeOK
<1>2. task'[t].retry = task[t].retry => Lifecycle!SameTries(t)
  BY DEF Lifecycle!SameTries
<1>3. Quiet(t) => Lifecycle!TellNothing(t)
  BY DEF Quiet, Lifecycle!TellNothing
<1>4. ASSUME NEW kind \in {"succeeded", "failed"}, notices[t][kind] = 0, Tells(t, kind)
      PROVE  Lifecycle!Tell(t, kind)
  BY <1>4 DEF Tells, Twice, Lifecycle!Tell
<1> USE PhaseValues, LifecycleFrom, LifecycleTo
<1>5. CASE Stays(t)
  BY <1>2, <1>3, <1>5, LifecycleStay DEF Stays, Turns
<1>6. CASE Put(t)
  <2>1. task[t].status = "QUEUED"
    BY <1>6 DEF Put, Turns, CanceledUnread
  <2> QED
    BY <1>2, <1>3, <1>6, <2>1 DEF Put, Turns, Lifecycle!Move, Lifecycle!Start
<1>7. CASE Starts(t)
  <2>1. CASE task[t].status = "QUEUED"
    BY <1>2, <1>3, <1>7, <2>1 DEF Starts, Turns, Lifecycle!Move, Lifecycle!Start
  <2>2. CASE task[t].status = "DISPATCHED"
    <3>1. PhaseOf(task'[t].status) = PhaseOf(task[t].status)
      BY <1>7, <2>2 DEF Starts, Turns
    <3> QED
      BY <1>2, <1>3, <1>7, <3>1, LifecycleStay DEF Starts, Turns
  <2> QED
    BY <1>7, <2>1, <2>2 DEF Starts, Turns
<1>8. CASE Done(t)
  <2>1. notices[t].succeeded = 0
    BY <1>1, <1>8 DEF Done, Turns, Active, SuccessNotifiedOnce
  <2> QED
    BY <1>2, <1>4, <1>8, <2>1 DEF Done, Turns, Active, Lifecycle!Move, Lifecycle!Succeed
<1>9. CASE Fails(t)
  <2>1. notices[t].failed = 0
    BY <1>1, <1>9 DEF Fails, Turns, Active, FailureNotifiedWhenFinal
  <2>2. NoAttemptLeft(t) => task[t].retry = MaxRetry
    BY <1>1, BoundsAssumption DEF NoAttemptLeft, Task
  <2>3. Lifecycle!TellNothing(t) \/ (task[t].retry = MaxRetry /\ Lifecycle!Tell(t, "failed"))
    BY <1>3, <1>4, <1>9, <2>1, <2>2 DEF Fails
  <2> QED
    BY <1>2, <1>9, <2>3 DEF Fails, Turns, Active, Lifecycle!Move, Lifecycle!Fail
<1>10. CASE Unmerged(t)
  BY <1>2, <1>3, <1>10 DEF Unmerged, Turns, Active, Lifecycle!Move, Lifecycle!Fail
<1>11. CASE Again(t)
  BY <1>3, <1>11 DEF Again, Retryable, Lifecycle!Move, Lifecycle!Retry
<1>12. CASE Canceled(t)
  BY <1>2, <1>3, <1>12 DEF Canceled, Turns, Active, Lifecycle!Move, Lifecycle!Cancel
<1>13. CASE Gone(t)
  <2>1. PhaseOf(task[t].status) # "running"
    BY <1>13 DEF Gone, PhaseOf
  <2> QED
    BY <1>3, <1>13, <2>1 DEF Gone, Lifecycle!Move, Lifecycle!Delete
<1>14. CASE Recovered(t)
  BY <1>2, <1>3, <1>14 DEF Recovered, Turns, Active, Lifecycle!Move, Lifecycle!Requeue
<1> QED
  BY <1>5, <1>6, <1>7, <1>8, <1>9, <1>10, <1>11, <1>12, <1>13, <1>14 DEF TaskMove

(* TaskRunner implements TaskLifecycle: every step of the dispatcher, of a       *)
(* coroutine, of the finalizer, of a retry, of the API or of a recovery moves     *)
(* each task as the owner was promised, and tells of it once.                    *)
THEOREM LifecycleImplemented ==
    ASSUME Lingering = FALSE \/ MaxRestarts = 0, ApiDuringDispatch = FALSE
    PROVE  Spec => LifecycleKept
<1>1. Invs /\ CanceledUnread /\ SuccessNotifiedOnce /\ FailureNotifiedWhenFinal /\ [Next]_vars
        => [Lifecycle!Next]_(Lifecycle!state)
  BY NextMoves, LifecycleMove DEF Lifecycle!Next
<1>2. Invs /\ CanceledUnread /\ [Next]_vars => CanceledUnread'
  BY UnreadKept DEF Invs
<1>3. Spec => []Invs /\ []SuccessNotifiedOnce /\ []FailureNotifiedWhenFinal
  BY InvsAlways, SuccessOnce, FailureOnce
<1> QED
  BY <1>1, <1>2, <1>3, InitUnread, LifecycleInit, PTL DEF Spec, LifecycleKept, Lifecycle!Spec

-----------------------------------------------------------------------------
(* After a cancel, an open segment has a coroutine that will close it.  It does *)
(* so because a coroutine that has not begun finds its segment as dispatched,   *)
(* with the server it was given, or closed.                                     *)

Given(x)   == \/ seg[x].status \in {"NONE", "FAILED"}
              \/ seg[x].status = "DISPATCHED" /\ seg[x].server \in Servers
EarlyGiven == \A r \in runs : r.id \in Segs /\ r.pc \in BeforeWork => Given(r.id)

LEMMA GivenStays ==
    ASSUME TypeOK, [Next]_vars, ~Restart, NEW x \in Segs, Given(x)
    PROVE  Given(x)' \/ \E r \in runs : r.id = x /\ (Go(r, "recheck") \/ Go(r, "end"))
<1>1. seg \in [Segs -> Segment] /\ seg[x] \in Segment /\ Segs \subseteq Items
  BY DEF TypeOK, Items
<1>2. CASE seg'[x] = seg[x]
  BY <1>2 DEF Given
<1>3. CASE DispatchCommit
  BY <1>1, <1>2, <1>3, CommitWrites DEF Given
<1>4. CASE RunStep
  <2>1. PICK r \in runs :
          \/ LoadTask(r) \/ BeginTask(r) \/ LoadSegment(r) \/ CheckParent(r)
          \/ BeginSegment(r) \/ RecheckParent(r) \/ CheckStaleRun(r)
          \/ MarkTaskSucceeded(r) \/ MarkTaskFailed(r)
          \/ MarkSegmentSucceeded(r) \/ MarkSegmentFailed(r) \/ EndRun(r)
    BY <1>4 DEF RunStep
  <2>2. CASE CheckParent(r) \/ RecheckParent(r)
    <3>1. CASE r.id = x
      BY <1>1, <2>2, <3>1 DEF CheckParent, RecheckParent, Segment, Given
    <3>2. CASE r.id # x
      BY <1>1, <1>2, <2>2, <3>2 DEF CheckParent, RecheckParent
    <3> QED
      BY <3>1, <3>2
  <2>3. CASE BeginSegment(r) \/ MarkSegmentSucceeded(r)
    <3>1. CASE r.id = x
      BY <1>2, <2>3, <3>1 DEF BeginSegment, MarkSegmentSucceeded, db
    <3>2. CASE r.id # x
      BY <1>1, <1>2, <2>3, <3>2 DEF BeginSegment, MarkSegmentSucceeded, db
    <3> QED
      BY <3>1, <3>2
  <2>4. CASE MarkSegmentFailed(r)
    <3>1. CASE r.id = x
      BY <2>4, <3>1 DEF MarkSegmentFailed
    <3>2. CASE r.id # x /\ RetrySegment(r.id)
      BY <1>1, <1>2, <3>2 DEF RetrySegment
    <3>3. CASE ExhaustSegment(r.id)
      BY <1>1, <3>3 DEF ExhaustSegment, Segment, Given
    <3> QED
      BY <1>2, <2>4, <3>1, <3>2, <3>3 DEF MarkSegmentFailed, db
  <2> QED
    BY <1>2, <2>1, <2>2, <2>3, <2>4
       DEF LoadTask, BeginTask, LoadSegment, CheckStaleRun, MarkTaskSucceeded,
           MarkTaskFailed, EndRun, db
<1>5. CASE RetryFailedTasks
  BY <1>2, <1>5 DEF RetryFailedTasks, NoSegment, Given
<1>6. CASE ApiStep
  <2>1. ASSUME NEW S, ReleaseSegments(S)
        PROVE  Given(x)'
    BY <1>1, <2>1 DEF ReleaseSegments, Segment, Given
  <2>2. ASSUME NEW statuses, DeleteTasks(statuses)
        PROVE  Given(x)'
    BY <1>2, <2>2 DEF DeleteTasks, NoSegment, Given
  <2> QED
    BY <1>6, <2>1, <2>2 DEF ApiStep, CancelTask, EmergencyStop
<1> QED
  BY <1>2, <1>3, <1>4, <1>5, <1>6, ReadFrame
     DEF Next, DispatchGiveUp, FinalizeStep, StartMerge, MergeSucceeds,
         MergeFails, vars, db

LEMMA EarlyGivenKept ==
    ASSUME Invs, EarlyGiven, [Next]_vars, ~Restart
    PROVE  EarlyGiven'
<1> SUFFICES ASSUME NEW p \in runs', p.id \in Segs, p.pc \in BeforeWork
             PROVE  Given(p.id)'
  BY DEF EarlyGiven
<1> DEFINE x == p.id
<1>1. TypeOK /\ x \in Items /\ p.pc # "end"
  BY DEF Invs, Items, BeforeWork
<1>2. CASE \E q \in runs : q.id = x /\ q.pc \in BeforeWork
  <2>1. Given(x)
    BY <1>2 DEF EarlyGiven
  <2>2. CASE \E r \in runs : r.id = x /\ (Go(r, "recheck") \/ Go(r, "end"))
    <3>1. PICK r \in runs : r.id = x /\ (Go(r, "recheck") \/ Go(r, "end"))
      BY <2>2
    <3>2. \A o \in runs : o.id = x => o = r
      BY <3>1 DEF Invs, SegmentInv, OwnRuns, RunInv, OneRunPerItem
    <3>3. r \in Run
      BY DEF Invs, TypeOK
    <3>4. p.pc \in {"recheck", "end"}
      BY <3>1, <3>2, <3>3 DEF Go, Become, Run
    <3> QED
      BY <3>4 DEF BeforeWork
  <2> QED
    BY <1>1, <2>1, <2>2, GivenStays
<1>3. CASE DispatchCommit /\ x \in snap.items /\ p = NewRun(x) /\ p \notin runs
  BY <1>1, <1>3, CommitWrites DEF Given
<1> QED
  BY <1>1, <1>2, <1>3, NextStaysBusy

LEMMA RunClosesSegment ==
    ASSUME Invs, EarlyGiven, RunStep, NEW x \in Segs, task[Parent[x]].status = "CANCELED",
           seg[x].status \in Open => \E r \in runs : r.id = x /\ r.pc \in Early,
           seg'[x].status \in Open
    PROVE  \E r \in runs' : r.id = x /\ r.pc \in Early
<1>1. PICK r \in runs :
        \/ LoadTask(r) \/ BeginTask(r) \/ LoadSegment(r) \/ CheckParent(r)
        \/ BeginSegment(r) \/ RecheckParent(r) \/ CheckStaleRun(r)
        \/ MarkTaskSucceeded(r) \/ MarkTaskFailed(r)
        \/ MarkSegmentSucceeded(r) \/ MarkSegmentFailed(r) \/ EndRun(r)
  BY DEF RunStep
<1>2. /\ seg \in [Segs -> Segment] /\ seg[x] \in Segment /\ r \in Run
      /\ Segs \cap Tasks = {} /\ \A q \in runs : q.id = r.id => q = r
  BY SetsAssumption DEF Invs, TypeOK, SegmentInv, OwnRuns, RunInv, OneRunPerItem
<1>3. CASE r.id # x
  <2>1. seg[x].status \in Open
    <3>1. CASE CheckParent(r) \/ BeginSegment(r) \/ RecheckParent(r) \/ MarkSegmentSucceeded(r)
      BY <1>2, <1>3, <3>1 DEF CheckParent, BeginSegment, RecheckParent, MarkSegmentSucceeded, db
    <3>2. CASE MarkSegmentFailed(r)
      <4>1. CASE RetrySegment(r.id)
        BY <1>2, <1>3, <4>1 DEF RetrySegment
      <4>2. CASE ExhaustSegment(r.id)
        BY <1>2, <4>2 DEF ExhaustSegment, Open, Active, Segment
      <4> QED
        BY <3>2, <4>1, <4>2 DEF MarkSegmentFailed, db
    <3> QED
      BY <1>1, <3>1, <3>2 DEF LoadTask, BeginTask, LoadSegment, CheckStaleRun, MarkTaskSucceeded,
         MarkTaskFailed, EndRun, db
  <2>2. PICK q \in runs : q.id = x /\ q.pc \in Early
    BY <2>1
  <2>3. runs \ {r} \subseteq runs'
    BY <1>1 DEF LoadTask, BeginTask, LoadSegment, CheckParent, BeginSegment, RecheckParent,
       CheckStaleRun, MarkTaskSucceeded, MarkTaskFailed, MarkSegmentSucceeded, MarkSegmentFailed,
       EndRun, Go, Become
  <2> QED
    BY <1>3, <2>2, <2>3
<1>4. CASE r.id = x
  <2>1. ~Accepts(x)
    BY DEF Accepts, Finished
  <2>2. seg[x].status \in Open => r.pc \in Early
    BY <1>2, <1>4
  <2>3. CASE LoadSegment(r)
    <3>1. seg[x].status \in Open /\ Given(x)
      BY <1>4, <2>3 DEF LoadSegment, RunOf, EarlyGiven, BeforeWork, db
    <3>2. seg[x].server # None /\ seg[x].status # "NONE"
      BY <3>1, SetsAssumption DEF Given, Open, Active
    <3>3. PICK gen, server : Become(r, [r EXCEPT !.pc = "parent", !.gen = gen, !.server = server])
      BY <1>4, <2>3, <3>2 DEF LoadSegment
    <3> DEFINE new == [r EXCEPT !.pc = "parent", !.gen = gen, !.server = server]
    <3>4. new \in runs' /\ new.id = x /\ new.pc = "parent"
      BY <1>2, <1>4, <3>3 DEF Become, Run
    <3> QED
      BY <3>4 DEF Early
  <2>4. CASE CheckParent(r)
    <3>1. Given(x)
      BY <1>4, <2>4 DEF CheckParent, RunOf, EarlyGiven, BeforeWork
    <3>2. seg'[x].status \notin Open
      BY <1>2, <1>4, <2>4, <3>1 DEF CheckParent, Given, Open, Active, Segment
    <3> QED
      BY <3>2
  <2>5. CASE BeginSegment(r)
    <3>1. Exists(x)
      BY <1>2, <1>4, <2>5, SetsAssumption DEF BeginSegment, Exists, Open, Active, db
    <3>2. Go(r, "recheck")
      BY <1>4, <2>5, <3>1 DEF BeginSegment
    <3>3. [r EXCEPT !.pc = "recheck"] \in runs' /\ [r EXCEPT !.pc = "recheck"].id = x
          /\ [r EXCEPT !.pc = "recheck"].pc = "recheck"
      BY <1>2, <1>4, <3>2 DEF Go, Become, Run
    <3> QED
      BY <3>3 DEF Early
  <2>6. CASE RecheckParent(r)
    <3>1. seg'[x].status \notin Open
      BY <1>2, <1>4, <2>6 DEF RecheckParent, Open, Active, Segment
    <3> QED
      BY <3>1
  <2>7. CASE CheckStaleRun(r) \/ MarkSegmentSucceeded(r) \/ MarkSegmentFailed(r) \/ EndRun(r)
    <3>1. r.pc \notin Early
      BY <2>7 DEF CheckStaleRun, MarkSegmentSucceeded, MarkSegmentFailed, EndRun, RunOf, Early
    <3>2. seg' = seg
      BY <1>4, <2>1, <2>7
         DEF CheckStaleRun, MarkSegmentSucceeded, MarkSegmentFailed, EndRun, db
    <3> QED
      BY <2>2, <3>1, <3>2
  <2> QED
    BY <1>1, <1>2, <1>4, <2>3, <2>4, <2>5, <2>6, <2>7
       DEF LoadTask, BeginTask, MarkTaskSucceeded, MarkTaskFailed, RunOf
<1> QED
  BY <1>3, <1>4

(* cancel_task and emergency_stop_tasks: they free the segments of the task, and *)
(* whichever a stale dispatch or a coroutine on its way has opened since, that    *)
(* coroutine is about to close.                                                   *)
THEOREM CancelFrees ==
    ASSUME MaxRestarts = 0
    PROVE  Spec => []CancelFreesSegments
<1>1. Init => CancelFreesSegments /\ EarlyGiven
  <2> SUFFICES ASSUME Init PROVE CancelFreesSegments /\ EarlyGiven
    OBVIOUS
  <2>1. runs = {}
    BY DEF Init
  <2>2. \A t \in Tasks : task[t].status = "QUEUED"
    BY InitTasks
  <2> QED
    BY <2>1, <2>2, SetsAssumption DEF CancelFreesSegments, EarlyGiven
<1>2. Invs /\ EarlyGiven /\ [Next]_vars => EarlyGiven'
  BY EarlyGivenKept, NoRestart DEF Invs
<1>3. Invs /\ EarlyGiven /\ CancelFreesSegments /\ [Next]_vars => CancelFreesSegments'
  <2> SUFFICES ASSUME Invs, EarlyGiven, CancelFreesSegments, [Next]_vars, NEW x \in Segs,
                      seg'[x].status \in Open, task'[Parent[x]].status = "CANCELED"
               PROVE  \E r \in runs' : r.id = x /\ r.pc \in Early
    BY DEF CancelFreesSegments, Early
  <2> DEFINE t == Parent[x]
  <2>1. /\ t \in Tasks /\ t \in Items /\ x \in Items /\ ~Restart
        /\ seg \in [Segs -> Segment] /\ seg[x] \in Segment /\ task \in [Tasks -> Task]
    BY SetsAssumption, NoRestart DEF Items, Invs, TypeOK
  <2>2. task[t].status = "CANCELED" =>
          (seg[x].status \in Open => \E r \in runs : r.id = x /\ r.pc \in Early)
    BY DEF CancelFreesSegments, Early
  <2>3. CASE seg'[x] = seg[x] /\ task'[t].status = task[t].status /\ runs \subseteq runs'
    BY <2>2, <2>3
  <2>4. CASE RunStep
    <3>1. task[t].status = "CANCELED"
      BY <2>1, <2>4, RunMovesTask DEF Invs
    <3>2. seg[x].status \in Open => \E r \in runs : r.id = x /\ r.pc \in Early
      BY <2>2, <3>1
    <3> QED
      BY <2>4, <3>1, <3>2, RunClosesSegment
  <2>5. CASE DispatchCommit
    <3>1. runs \subseteq runs'
      BY <2>5 DEF DispatchCommit
    <3>2. task[t].status = "CANCELED"
      BY <2>1, <2>5, CommitWrites DEF Invs
    <3>3. CASE NewRun(x) \in runs'
      BY <3>3 DEF NewRun, Early
    <3> QED
      BY <2>1, <2>2, <2>5, <3>1, <3>2, <3>3, CommitWrites DEF Invs
  <2>6. CASE FinalizeStep
    <3>1. task[t].status = "CANCELED"
      BY <2>1, <2>6 DEF FinalizeStep, StartMerge, MergeSucceeds, MergeFails, Task, db
    <3> QED
      BY <2>3, <2>6, <3>1 DEF FinalizeStep, StartMerge, MergeSucceeds, MergeFails, db
  <2>7. CASE RetryFailedTasks
    <3>1. task[t].status = "CANCELED"
      BY <2>1, <2>7 DEF RetryFailedTasks, Task
    <3> QED
      BY <2>3, <2>7, <3>1 DEF RetryFailedTasks, FallsBack, Retryable
  <2>8. CASE ApiStep
    <3>1. ASSUME NEW S, ReleaseSegments(S)
          PROVE  t \notin S
      BY <2>1, <3>1 DEF ReleaseSegments, Open, Active, Segment
    <3>2. ASSUME NEW u \in Tasks, CancelTask(u)
          PROVE  seg'[x] = seg[x] /\ task'[t] = task[t]
      <4>1. t # u
        BY <3>1, <3>2 DEF CancelTask
      <4> QED
        BY <2>1, <3>2, <4>1 DEF CancelTask, ReleaseSegments
    <3>3. ASSUME NEW scope, EmergencyStop(scope)
          PROVE  seg'[x] = seg[x] /\ task'[t] = task[t]
      <4>1. t \notin scope
        BY <3>1, <3>3 DEF EmergencyStop
      <4> QED
        BY <2>1, <3>3, <4>1 DEF EmergencyStop, ReleaseSegments
    <3>4. ASSUME NEW statuses, DeleteTasks(statuses)
          PROVE  seg'[x] = seg[x] /\ task'[t] = task[t]
      <4>1. task[t].status \notin statuses
        BY <2>1, <3>4 DEF DeleteTasks, NoTask
      <4> QED
        BY <2>1, <3>4, <4>1 DEF DeleteTasks
    <3>5. runs' = runs
      BY <2>8 DEF ApiStep, CancelTask, EmergencyStop, DeleteTasks, memory
    <3> QED
      BY <2>3, <2>8, <3>2, <3>3, <3>4, <3>5 DEF ApiStep
  <2>9. CASE DispatchRead \/ DispatchGiveUp \/ UNCHANGED vars
    BY <2>3, <2>9, ReadFrame DEF DispatchGiveUp, vars, db
  <2> QED
    BY <2>1, <2>4, <2>5, <2>6, <2>7, <2>8, <2>9 DEF Next
<1>4. Spec => []Invs
  BY InvsAlways
<1> QED
  BY <1>1, <1>2, <1>3, <1>4, PTL DEF Spec

-----------------------------------------------------------------------------
(* The slots.  ActiveWork itself may pass a server's capacity for a moment, when *)
(* a coroutine overwrites the FAILED of a segment that its task's end has closed; *)
(* what stays within it is the work whose task is still wanted.                   *)

LiveTasks(s) == {t \in Tasks : task[t].status \in Active /\ task[t].server = s}
LiveSegs(s)  == {x \in Segs : /\ seg[x].status \in Active /\ seg[x].server = s
                              /\ task[Parent[x]].status \notin Ended}
Live(s)      == LiveTasks(s) \cup LiveSegs(s)
LiveBound    == \A s \in Servers : Cardinality(Live(s)) <= Cap[s]

WholeServer   == \A t \in Tasks : task[t].server # None
                                    => Uncut(t) /\ task[t].status # "QUEUED"
AskingParent  == \A r \in runs :
                   r.id \in Segs /\ r.pc \in {"asr", "mark"} /\ seg[r.id].status \in Active
                     => task[Parent[r.id]].status \notin Ended

SlotInv == WholeInv /\ WholeServer /\ AskingParent /\ LiveBound

LEMMA ServerMoves ==
    ASSUME TypeOK, [Next]_vars, ~Restart, NEW t \in Tasks
    PROVE  \/ task'[t].server \in {task[t].server, None}
           \/ /\ DispatchCommit /\ t \in snap.items
              /\ task'[t].status = "DISPATCHED" /\ task'[t].server \in snap.avail
              /\ NewRun(t) \in runs'
<1>1. task \in [Tasks -> Task] /\ task[t] \in Task /\ t \in Items
  BY DEF TypeOK, Items
<1>2. CASE task'[t] = task[t]
  BY <1>2
<1>3. CASE DispatchCommit
  <2>1. PICK chosen \in SUBSET snap.items :
          /\ \E plan \in [chosen -> snap.avail] : Assign(chosen, plan)
          /\ runs' = runs \cup {NewRun(i) : i \in chosen}
    BY <1>3 DEF DispatchCommit
  <2>2. PICK plan \in [chosen -> snap.avail] : Assign(chosen, plan)
    BY <2>1
  <2>3. CASE t \in chosen
    <3>1. task'[t].status = "DISPATCHED" /\ task'[t].server = plan[t]
      BY <1>1, <2>2, <2>3 DEF Assign, Task
    <3> QED
      BY <1>3, <2>1, <2>2, <2>3, <3>1
  <2>4. CASE t \notin chosen
    <3>1. task'[t] = task[t] \/ task'[t] = [task[t] EXCEPT !.status = "DISPATCHED"]
      BY <2>2, <2>4 DEF Assign
    <3> QED
      BY <1>1, <3>1 DEF Task
  <2> QED
    BY <2>3, <2>4
<1>4. CASE RunStep
  <2>1. PICK r \in runs :
          \/ LoadTask(r) \/ BeginTask(r) \/ LoadSegment(r) \/ CheckParent(r)
          \/ BeginSegment(r) \/ RecheckParent(r) \/ CheckStaleRun(r)
          \/ MarkTaskSucceeded(r) \/ MarkTaskFailed(r)
          \/ MarkSegmentSucceeded(r) \/ MarkSegmentFailed(r) \/ EndRun(r)
    BY <1>4 DEF RunStep
  <2>2. CASE BeginTask(r)
    BY <1>1, <2>2 DEF BeginTask, Task
  <2>3. CASE BeginSegment(r)
    BY <1>1, <2>3 DEF BeginSegment, Task, db
  <2>4. CASE MarkTaskSucceeded(r)
    BY <1>1, <2>4 DEF MarkTaskSucceeded, Task
  <2>5. CASE MarkTaskFailed(r)
    BY <1>1, <2>5 DEF MarkTaskFailed, Task
  <2>6. CASE MarkSegmentFailed(r)
    BY <1>1, <1>2, <2>6 DEF MarkSegmentFailed, RetrySegment, ExhaustSegment, Task, db
  <2> QED
    BY <1>2, <2>1, <2>2, <2>3, <2>4, <2>5, <2>6
       DEF LoadTask, LoadSegment, CheckParent, RecheckParent, CheckStaleRun,
           MarkSegmentSucceeded, EndRun, db
<1>5. CASE FinalizeStep
  BY <1>1, <1>5 DEF FinalizeStep, StartMerge, MergeSucceeds, MergeFails, Task, db
<1>6. CASE RetryFailedTasks
  BY <1>1, <1>6 DEF RetryFailedTasks, Task
<1>7. CASE ApiStep
  <2>1. ASSUME NEW u \in Tasks, CancelTask(u)
        PROVE  task'[t].server = task[t].server
    BY <1>1, <2>1 DEF CancelTask, Task
  <2>2. ASSUME NEW scope, EmergencyStop(scope)
        PROVE  task'[t].server \in {task[t].server, None}
    BY <1>1, <2>2 DEF EmergencyStop, Task
  <2>3. ASSUME NEW statuses, DeleteTasks(statuses)
        PROVE  task'[t].server \in {task[t].server, None}
    BY <2>3 DEF DeleteTasks, NoTask
  <2> QED
    BY <1>7, <2>1, <2>2, <2>3 DEF ApiStep
<1> QED
  BY <1>2, <1>3, <1>4, <1>5, <1>6, <1>7, ReadFrame DEF Next, DispatchGiveUp, vars, db

LEMMA WholeServerKept ==
    ASSUME Invs, WholeInv, WholeServer, [Next]_vars, ~Restart
    PROVE  WholeServer'
<1> SUFFICES ASSUME NEW t \in Tasks, task'[t].server # None
             PROVE  Uncut(t)' /\ task'[t].status # "QUEUED"
  BY DEF WholeServer
<1>1. TypeOK /\ RunInv /\ CleanStep /\ TaskMove(t)
  BY NextMoves DEF Invs, CleanStep
<1>2. CASE DispatchCommit /\ t \in snap.items /\ task'[t].status = "DISPATCHED"
  <2>1. Uncut(t)
    BY <1>2 DEF DispatchCommit, Planned, WholeInv, SnapshotWhole
  <2> QED
    BY <1>1, <1>2, <2>1, UncutStays
<1>3. CASE task'[t].server = task[t].server
  <2>1. Uncut(t) /\ task[t].status # "QUEUED"
    BY <1>3 DEF WholeServer
  <2>2. ~Again(t) \/ task'[t].status # "QUEUED"
    <3> SUFFICES ASSUME RetryFailedTasks, Retryable(t), task'[t].status = "QUEUED" PROVE FALSE
      BY DEF Again
    <3>1. task \in [Tasks -> Task] /\ task[t] \in Task
      BY <1>1 DEF TypeOK
    <3>2. CASE RetriesMerge(t)
      BY <3>1, <3>2 DEF RetryFailedTasks, Task
    <3>3. CASE ~RetriesMerge(t) /\ (FallsBack(t) \/ Requeues(t))
      BY <3>1, <3>3 DEF RetryFailedTasks, Task
    <3>4. CASE ~RetriesMerge(t) /\ ~FallsBack(t) /\ ~Requeues(t)
      BY <2>1, <3>4 DEF RetryFailedTasks
    <3> QED
      BY <3>2, <3>3, <3>4
  <2>3. task'[t].status # "QUEUED"
    BY <1>1, <2>1, <2>2
       DEF TaskMove, Stays, Put, Starts, Done, Fails, Unmerged, Again, Canceled, Gone, Recovered, Turns
  <2> QED
    BY <1>1, <2>1, <2>3, UncutStays
<1> QED
  BY <1>1, <1>2, <1>3, ServerMoves

(* How a segment comes to be active: by the dispatcher, or when a coroutine *)
(* overwrites what has become of it since.                                  *)
LEMMA NewlyActive ==
    ASSUME TypeOK, [Next]_vars, ~Restart, NEW x \in Segs, seg'[x].status \in Active
    PROVE  \/ seg[x].status \in Active /\ seg'[x].server = seg[x].server
           \/ /\ DispatchCommit /\ x \in snap.items
              /\ seg'[x].server \in snap.avail /\ NewRun(x) \in runs'
           \/ /\ seg[x].status \notin Active \cup {"NONE"}
              /\ \E r \in runs : r.id = x /\ r.pc = "begin" /\ Go(r, "recheck")
<1>1. seg \in [Segs -> Segment] /\ seg[x] \in Segment
  BY DEF TypeOK
<1>2. CASE seg'[x] = seg[x]
  BY <1>2
<1>3. CASE DispatchCommit
  <2>1. PICK chosen \in SUBSET snap.items :
          /\ \E plan \in [chosen -> snap.avail] : Assign(chosen, plan)
          /\ runs' = runs \cup {NewRun(i) : i \in chosen}
    BY <1>3 DEF DispatchCommit
  <2>2. PICK plan \in [chosen -> snap.avail] : Assign(chosen, plan)
    BY <2>1
  <2>3. CASE x \in chosen
    <3>1. seg'[x].server = plan[x]
      BY <1>1, <2>2, <2>3 DEF Assign, Segment
    <3> QED
      BY <1>3, <2>1, <2>2, <2>3, <3>1
  <2>4. CASE x \notin chosen
    BY <1>2, <2>2, <2>4 DEF Assign
  <2> QED
    BY <2>3, <2>4
<1>4. CASE RunStep
  <2>1. PICK r \in runs :
          \/ LoadTask(r) \/ BeginTask(r) \/ LoadSegment(r) \/ CheckParent(r)
          \/ BeginSegment(r) \/ RecheckParent(r) \/ CheckStaleRun(r)
          \/ MarkTaskSucceeded(r) \/ MarkTaskFailed(r)
          \/ MarkSegmentSucceeded(r) \/ MarkSegmentFailed(r) \/ EndRun(r)
    BY <1>4 DEF RunStep
  <2>2. CASE CheckParent(r) \/ RecheckParent(r)
    <3>1. seg'[x] = seg[x] \/ seg'[x] = [seg[x] EXCEPT !.status = "FAILED"]
      BY <1>1, <2>2 DEF CheckParent, RecheckParent
    <3> QED
      BY <1>1, <1>2, <3>1 DEF Segment, Active
  <2>3. CASE BeginSegment(r)
    <3>1. CASE r.id = x /\ Exists(x)
      <4>1. seg[x].status # "NONE" /\ r.pc = "begin" /\ Go(r, "recheck")
        BY <2>3, <3>1, SetsAssumption DEF BeginSegment, RunOf, Exists
      <4>2. seg'[x].server = seg[x].server
        BY <1>1, <2>3, <3>1 DEF BeginSegment, Segment
      <4> QED
        BY <3>1, <4>1, <4>2
    <3>2. CASE ~(r.id = x /\ Exists(x))
      BY <1>1, <1>2, <2>3, <3>2 DEF BeginSegment, db
    <3> QED
      BY <3>1, <3>2
  <2>4. CASE MarkSegmentSucceeded(r)
    <3>1. seg'[x] = seg[x] \/ seg'[x] = [seg[x] EXCEPT !.status = "SUCCEEDED"]
      BY <1>1, <2>4 DEF MarkSegmentSucceeded
    <3> QED
      BY <1>1, <1>2, <3>1 DEF Segment, Active
  <2>5. CASE MarkSegmentFailed(r)
    <3>1. CASE RetrySegment(r.id)
      <4>1. r.id = x => seg'[x].status = "PENDING"
        BY <1>1, <3>1 DEF RetrySegment, Segment
      <4>2. r.id # x => seg'[x] = seg[x]
        BY <1>1, <3>1 DEF RetrySegment
      <4> QED
        BY <1>2, <4>1, <4>2 DEF Active
    <3>2. CASE ExhaustSegment(r.id)
      <4>1. seg'[x] = seg[x] \/ seg'[x] = [seg[x] EXCEPT !.status = "FAILED"]
        BY <3>2 DEF ExhaustSegment
      <4> QED
        BY <1>1, <1>2, <4>1 DEF Segment, Active
    <3> QED
      BY <1>2, <2>5, <3>1, <3>2 DEF MarkSegmentFailed, db
  <2> QED
    BY <1>2, <2>1, <2>2, <2>3, <2>4, <2>5
       DEF LoadTask, BeginTask, LoadSegment, CheckStaleRun, MarkTaskSucceeded,
           MarkTaskFailed, EndRun, db
<1>5. CASE RetryFailedTasks
  BY <1>2, <1>5 DEF RetryFailedTasks, NoSegment, Active
<1>6. CASE ApiStep
  <2>1. ASSUME NEW S, ReleaseSegments(S)
        PROVE  seg'[x] = seg[x]
    BY <1>1, <2>1 DEF ReleaseSegments, Segment, Active
  <2>2. ASSUME NEW statuses, DeleteTasks(statuses)
        PROVE  seg'[x] = seg[x]
    BY <2>2 DEF DeleteTasks, NoSegment, Active
  <2> QED
    BY <1>2, <1>6, <2>1, <2>2 DEF ApiStep, CancelTask, EmergencyStop
<1> QED
  BY <1>2, <1>3, <1>4, <1>5, <1>6, ReadFrame
     DEF Next, DispatchGiveUp, FinalizeStep, StartMerge, MergeSucceeds,
         MergeFails, vars, db

(* Before a coroutine asks the server for its segment it has looked at the parent again. *)
LEMMA NewlyAsking ==
    ASSUME TypeOK, [Next]_vars, ~Restart, NEW p \in runs', p \notin runs,
           p.id \in Segs, p.pc \in {"asr", "mark"}
    PROVE  /\ UNCHANGED db
           /\ \/ task[Parent[p.id]].status \notin Ended
              \/ \E r \in runs : r.id = p.id /\ r.pc = "asr"
<1>1. CASE RunStep
  <2>1. PICK r \in runs :
          \/ LoadTask(r) \/ BeginTask(r) \/ LoadSegment(r) \/ CheckParent(r)
          \/ BeginSegment(r) \/ RecheckParent(r) \/ CheckStaleRun(r)
          \/ MarkTaskSucceeded(r) \/ MarkTaskFailed(r)
          \/ MarkSegmentSucceeded(r) \/ MarkSegmentFailed(r) \/ EndRun(r)
    BY <1>1 DEF RunStep
  <2>2. r \in Run /\ Segs \cap Tasks = {}
    BY SetsAssumption DEF TypeOK
  <2>3. ASSUME NEW pc, Go(r, pc)
        PROVE  p.pc = pc /\ p.id = r.id
    <3>1. p = [r EXCEPT !.pc = pc]
      BY <2>3 DEF Go, Become
    <3> QED
      BY <2>2, <3>1 DEF Run
  <2>4. CASE LoadTask(r) \/ LoadSegment(r)
    <3>1. ASSUME NEW pc \in {"begin", "parent"}, NEW gen, NEW server,
                 Become(r, [r EXCEPT !.pc = pc, !.gen = gen, !.server = server])
          PROVE  p.pc = pc
      <4>1. p = [r EXCEPT !.pc = pc, !.gen = gen, !.server = server]
        BY <3>1 DEF Become
      <4> QED
        BY <2>2, <4>1 DEF Run
    <3>2. CASE Go(r, "end")
      BY <2>3, <3>2
    <3>3. CASE Become(r, [r EXCEPT !.pc = "begin", !.gen = task[r.id].gen,
                                   !.server = task[r.id].server])
      BY <3>1, <3>3
    <3>4. CASE Become(r, [r EXCEPT !.pc = "parent", !.gen = seg[r.id].gen,
                                   !.server = seg[r.id].server])
      BY <3>1, <3>4
    <3> QED
      BY <2>4, <3>2, <3>3, <3>4 DEF LoadTask, LoadSegment
  <2>5. CASE BeginTask(r)
    <3>1. p.id = r.id /\ r.id \in Tasks
      BY <2>3, <2>5 DEF BeginTask, RunOf
    <3> QED
      BY <2>2, <3>1
  <2>6. CASE CheckParent(r) \/ BeginSegment(r)
    <3>1. Go(r, "end") \/ Go(r, "begin") \/ Go(r, "recheck")
      BY <2>6 DEF CheckParent, BeginSegment
    <3> QED
      BY <2>3, <3>1
  <2>7. CASE RecheckParent(r)
    <3>1. \/ Go(r, "end")
          \/ /\ task[Parent[r.id]].status \notin {"CANCELED", "FAILED"}
             /\ Go(r, "asr") /\ UNCHANGED db
      BY <2>7 DEF RecheckParent, db
    <3> QED
      BY <2>3, <3>1 DEF Ended
  <2>8. CASE CheckStaleRun(r)
    <3>1. /\ Go(r, "mark") \/ Go(r, "end")
          /\ UNCHANGED db /\ r.pc = "asr"
      BY <2>8 DEF CheckStaleRun, RunOf
    <3> QED
      BY <2>3, <3>1
  <2>9. CASE \/ MarkTaskSucceeded(r) \/ MarkTaskFailed(r)
             \/ MarkSegmentSucceeded(r) \/ MarkSegmentFailed(r)
    <3>1. Go(r, "end")
      BY <2>9 DEF MarkTaskSucceeded, MarkTaskFailed, MarkSegmentSucceeded, MarkSegmentFailed
    <3> QED
      BY <2>3, <3>1
  <2>10. ~EndRun(r)
    BY DEF EndRun
  <2> QED
    BY <2>1, <2>4, <2>5, <2>6, <2>7, <2>8, <2>9, <2>10
<1>2. CASE DispatchCommit
  BY <1>2 DEF DispatchCommit, NewRun
<1>3. ~UNCHANGED runs
  OBVIOUS
<1> QED
  BY <1>1, <1>2, <1>3, ReadFrame
     DEF Next, DispatchGiveUp, FinalizeStep, StartMerge, MergeSucceeds,
         MergeFails, RetryFailedTasks, ApiStep, CancelTask, EmergencyStop, DeleteTasks,
         memory, vars

LEMMA AskingParentKept ==
    ASSUME Invs, AskingParent, [Next]_vars, ~Restart
    PROVE  AskingParent'
<1> SUFFICES ASSUME NEW p \in runs', p.id \in Segs, p.pc \in {"asr", "mark"},
                    seg'[p.id].status \in Active, task'[Parent[p.id]].status \in Ended
             PROVE  FALSE
  BY DEF AskingParent
<1> DEFINE x == p.id
           t == Parent[x]
<1>1. TypeOK /\ x \in SegsOf(t) /\ t \in Tasks /\ TaskMove(t)
  BY NextMoves, SetsAssumption DEF Invs, SegsOf
<1>2. p \in runs
  BY <1>1, NewlyAsking DEF AskingParent, db
<1>3. p \in Run /\ p.id \in inflight /\ \A o \in runs : o.id = x => o = p
  BY <1>2 DEF Invs, TypeOK, SegmentInv, OwnRuns, RunInv, OneRunPerItem
<1>4. seg[x].status \in Active
  <2>1. ~(DispatchCommit /\ x \in snap.items)
    BY <1>3 DEF DispatchCommit, Planned, Invs, RunInv, SnapshotFree
  <2>2. ~(\E r \in runs : r.id = x /\ r.pc = "begin")
    BY <1>3
  <2> QED
    BY <1>1, <2>1, <2>2, NewlyActive
<1>5. task[t].status \notin Ended
  BY <1>2, <1>4 DEF AskingParent
<1>6. ~Unsegmented(t) /\ seg'[x].status \in Open
  BY <1>1, <1>4 DEF Unsegmented, SegsOf, Active, Open
<1>7. ~Ends(t)
  BY <1>1, <1>4, WorkerApart DEF Ends, Worker, Unopened, SegsOf, Active
<1>8. ~Exhausts(t)
  <2> SUFFICES ASSUME NEW y \in SegsOf(t), \A z \in SegsOf(t) \ {y} : seg'[z].status \notin Active,
                      NEW r \in runs, r.id = y, Go(r, "end")
               PROVE  FALSE
    BY DEF Exhausts
  <2>1. r = p
    BY <1>1, <1>3
  <2> QED
    BY <1>3, <2>1 DEF Go, Become, Run
<1>9. t \notin merging \/ task[t].status = "GONE"
  BY <1>1, <1>4, MergeDecides
<1> QED
  BY <1>1, <1>5, <1>6, <1>7, <1>8, <1>9
     DEF TaskMove, Stays, Put, Starts, Done, Fails, Unmerged, Again, Canceled, Gone, Recovered, Turns,
         Ended, Active

(* A step leaves the live work of a server as it is, or less, unless it puts *)
(* work there: then the check before its commit bounds it.                   *)
LEMMA TasksShrink ==
    ASSUME Invs, WholeServer, [Next]_vars, ~Restart, NEW s \in Servers, NEW t \in LiveTasks(s)',
           ~DispatchCommit \/ s \notin snap.avail
    PROVE  t \in LiveTasks(s)
<1>1. /\ t \in Tasks /\ TaskMove(t) /\ task'[t].status \in Active /\ task'[t].server = s
      /\ s # None
  BY NextMoves, SetsAssumption DEF LiveTasks
<1>2. task[t].server = s
  BY <1>1, ServerMoves DEF Invs
<1>3. Uncut(t) /\ task[t].status # "QUEUED"
  BY <1>1, <1>2 DEF WholeServer
<1>4. ~Put(t)
  BY <1>1, <1>3 DEF Put, Turns
<1>5. ~(Again(t) /\ task'[t].status = "TRANSCRIBING")
  <2> SUFFICES ASSUME RetryFailedTasks, Retryable(t), task'[t].status = "TRANSCRIBING" PROVE FALSE
    BY DEF Again
  <2>1. task \in [Tasks -> Task] /\ task[t] \in Task
    BY <1>1 DEF Invs, TypeOK
  <2>2. ~RetriesMerge(t)
    <3>1. \A x \in SegsOf(t) : seg[x].status # "SUCCEEDED"
      BY <1>3 DEF Uncut
    <3> QED
      BY <3>1 DEF RetriesMerge, Retryable, Rows, SegsOf, Invs, ClosedInv, UnmergedWhole
  <2>3. CASE FallsBack(t) \/ Requeues(t)
    BY <1>1, <2>1, <2>2, <2>3 DEF RetryFailedTasks, Task
  <2>4. CASE ~FallsBack(t) /\ ~Requeues(t)
    BY <1>1, <2>2, <2>4 DEF RetryFailedTasks, Retryable
  <2> QED
    BY <2>3, <2>4
<1>6. task[t].status \in Active
  BY <1>1, <1>3, <1>4, <1>5
     DEF TaskMove, Stays, Starts, Done, Fails, Unmerged, Again, Canceled, Gone, Recovered, Turns, Active
<1> QED
  BY <1>1, <1>2, <1>6 DEF LiveTasks

LEMMA SegmentsShrink ==
    ASSUME Invs, EarlyGiven, [Next]_vars, ~Restart,
           NEW s \in Servers, NEW x \in LiveSegs(s)',
           ~DispatchCommit \/ s \notin snap.avail
    PROVE  x \in LiveSegs(s)
<1>1. /\ x \in Segs /\ seg'[x].status \in Active /\ seg'[x].server = s
      /\ task'[Parent[x]].status \notin Ended /\ TypeOK /\ RunInv /\ CleanStep
  BY DEF LiveSegs, Invs, CleanStep
<1>2. task[Parent[x]].status \notin Ended
  BY <1>1, EndedHolds
<1>3. seg[x].status # "FAILED"
  <2>1. Parent[x] \in Tasks /\ x \in SegsOf(Parent[x])
    BY <1>1, SetsAssumption DEF SegsOf
  <2>2. ~Shut(Parent[x])'
    BY <1>1 DEF Shut, Unopened, SegsOf, Active
  <2>3. ~Shut(Parent[x])
    BY <1>1, <2>1, <2>2, ShutStays
  <2> QED
    BY <1>1, <1>2, <2>3 DEF Invs, ClosedInv, ClosedParent
<1>4. (\E r \in runs : r.id = x /\ r.pc = "begin") => seg[x].status \in Active \cup {"NONE"}
  BY <1>1, <1>3 DEF EarlyGiven, BeforeWork, Given, Active
<1>5. seg[x].status \in Active /\ seg'[x].server = seg[x].server
  BY <1>1, <1>4, NewlyActive
<1> QED
  BY <1>1, <1>2, <1>5 DEF LiveSegs

LEMMA LiveFinite ==
    ASSUME NEW s
    PROVE  IsFiniteSet(Live(s)) /\ Live(s) \subseteq Items
<1>1. IsFiniteSet(Items)
  BY SetsAssumption, FS_Union DEF Items
<1>2. Live(s) \subseteq Items
  BY DEF Live, LiveTasks, LiveSegs, Items
<1> QED
  BY <1>1, <1>2, FS_Subset

LEMMA LiveBoundKept ==
    ASSUME Invs, EarlyGiven, WholeInv, WholeServer, LiveBound, [Next]_vars, ~Restart
    PROVE  LiveBound'
<1> SUFFICES ASSUME NEW s \in Servers
             PROVE  Cardinality(Live(s)') <= Cap[s]
  BY DEF LiveBound
<1>1. Cap[s] \in Nat
  BY BoundsAssumption
<1>2. CASE ~DispatchCommit \/ s \notin snap.avail
  <2>1. Live(s)' \subseteq Live(s)
    BY <1>2, TasksShrink, SegmentsShrink DEF Live
  <2>2. /\ IsFiniteSet(Live(s)) /\ Cardinality(Live(s)) \in Nat
        /\ Cardinality(Live(s)') \in Nat /\ Cardinality(Live(s)') <= Cardinality(Live(s))
    BY <2>1, LiveFinite, FS_Subset, FS_CardinalityType
  <2>3. Cardinality(Live(s)) <= Cap[s]
    BY DEF LiveBound
  <2> QED
    BY <1>1, <2>2, <2>3
<1>3. CASE DispatchCommit /\ s \in snap.avail
  <2> DEFINE counted == ActiveWork(task', seg', s)
  <2>1. Cardinality(counted) <= Cap[s]
    BY <1>3 DEF DispatchCommit
  <2>2. Live(s)' \subseteq counted
    <3>1. ASSUME NEW t \in LiveTasks(s)'
          PROVE  t \in counted
      <4>1. t \in Tasks /\ task'[t].status \in Active /\ task'[t].server = s /\ s # None
        BY SetsAssumption DEF LiveTasks
      <4>2. \A x \in SegsOf(t) : seg'[x].status \in {"NONE", "FAILED"}
        <5>1. Uncut(t)'
          BY <4>1, WholeServerKept DEF WholeServer
        <5> QED
          BY <5>1 DEF Uncut, Shut, Unopened, SegsOf
      <4> QED
        BY <4>1, <4>2 DEF ActiveWork
    <3>2. LiveSegs(s)' \subseteq counted
      BY DEF LiveSegs, ActiveWork
    <3> QED
      BY <3>1, <3>2 DEF Live
  <2>3. IsFiniteSet(counted)
    <3>1. counted \subseteq Items /\ IsFiniteSet(Items)
      BY SetsAssumption, FS_Union DEF ActiveWork, Items
    <3> QED
      BY <3>1, FS_Subset
  <2>4. /\ Cardinality(counted) \in Nat
        /\ Cardinality(Live(s)') \in Nat /\ Cardinality(Live(s)') <= Cardinality(counted)
    BY <2>2, <2>3, FS_Subset, FS_CardinalityType
  <2> QED
    BY <1>1, <2>1, <2>4
<1> QED
  BY <1>2, <1>3

(* The calls that speak for an active row are no more than the rows that are live. *)
LEMMA LiveBoundsCalls ==
    ASSUME Invs, AskingParent, LiveBound
    PROVE  SlotsRespected
<1> SUFFICES ASSUME NEW s \in Servers
             PROVE  Cardinality({r \in runs : r.server = s /\ r.pc = "asr" /\ Current(r)}) <= Cap[s]
  BY DEF SlotsRespected
<1> DEFINE calls == {r \in runs : r.server = s /\ r.pc = "asr" /\ Current(r)}
           item  == [r \in calls |-> r.id]
<1>1. ASSUME NEW r \in calls
      PROVE  r.id \in Live(s)
  <2>1. r \in Run /\ r.server = s /\ r.pc = "asr" /\ Current(r)
    BY DEF Invs, TypeOK
  <2>2. CASE r.id \in Tasks
    BY <2>1, <2>2 DEF Current, Live, LiveTasks
  <2>3. CASE r.id \in Segs
    <3>1. seg[r.id].status \in Active /\ seg[r.id].server = s
      BY <2>1, <2>3, SetsAssumption DEF Current
    <3> QED
      BY <2>1, <2>3, <3>1 DEF AskingParent, Live, LiveSegs
  <2> QED
    BY <2>1, <2>2, <2>3 DEF Run, Items
<1>2. \A a, b \in calls : a.id = b.id => a = b
  BY DEF Invs, SegmentInv, OwnRuns, RunInv, OneRunPerItem
<1>3. item \in Injection(calls, Live(s))
  BY <1>1, <1>2 DEF Injection, IsInjective
<1>4. Cardinality(calls) <= Cardinality(Live(s)) /\ IsFiniteSet(calls)
  BY <1>3, LiveFinite, FS_Injection
<1>5. Cardinality(calls) \in Nat /\ Cardinality(Live(s)) \in Nat /\ Cap[s] \in Nat
  BY <1>4, LiveFinite, FS_CardinalityType, BoundsAssumption
<1>6. Cardinality(Live(s)) <= Cap[s]
  BY DEF LiveBound
<1> QED
  BY <1>4, <1>5, <1>6

LEMMA InitSlots == Init => SlotInv
<1> SUFFICES ASSUME Init PROVE SlotInv
  OBVIOUS
<1>1. runs = {} /\ \A x \in Segs : seg[x].status = "PENDING"
  BY DEF Init, NoSegment
<1>2. \A t \in Tasks : task[t].status = "QUEUED" /\ task[t].server = None
  <2>1. PICK retry : task = [u \in Tasks |-> [NoTask EXCEPT !.status = "QUEUED", !.retry = retry[u]]]
    BY DEF Init
  <2> QED
    BY <2>1 DEF NoTask
<1>3. WholeInv /\ WholeServer /\ AskingParent
  BY <1>1, <1>2, SetsAssumption, InitWhole DEF WholeServer, AskingParent
<1>4. \A s \in Servers : Live(s) = {}
  BY <1>1, <1>2 DEF Live, LiveTasks, LiveSegs, Active
<1>5. LiveBound
  BY <1>4, FS_EmptySet, BoundsAssumption DEF LiveBound
<1> QED
  BY <1>3, <1>5 DEF SlotInv

LEMMA SlotInvKept ==
    ASSUME MaxRestarts = 0, Invs, EarlyGiven, SlotInv, [Next]_vars
    PROVE  EarlyGiven' /\ SlotInv'
<1>1. /\ WholeInv /\ WholeServer /\ AskingParent /\ LiveBound /\ ~Restart
      /\ TypeOK /\ RunInv /\ SegmentInv
  BY NoRestart DEF SlotInv, Invs
<1>2. EarlyGiven' /\ WholeInv' /\ WholeServer'
  BY <1>1, EarlyGivenKept, WholeInvKept, WholeServerKept
<1>3. AskingParent' /\ LiveBound'
  BY <1>1, AskingParentKept, LiveBoundKept
<1> QED
  BY <1>2, <1>3 DEF SlotInv

(* _dispatch_queued_tasks and its check before the commit: the calls to a server that *)
(* speak for an active row stay within max_concurrency, over stale snapshots, retries, *)
(* cancels and late results.                                                           *)
THEOREM SlotsKept ==
    ASSUME MaxRestarts = 0
    PROVE  Spec => []SlotsRespected
<1>1. Invs /\ EarlyGiven /\ SlotInv /\ [Next]_vars => EarlyGiven' /\ SlotInv'
  BY SlotInvKept
<1>2. Init => EarlyGiven
  BY DEF Init, EarlyGiven
<1>3. Invs /\ SlotInv => SlotsRespected
  BY LiveBoundsCalls DEF SlotInv
<1>4. Spec => []Invs
  BY InvsAlways
<1> QED
  BY <1>1, <1>2, <1>3, <1>4, InitSlots, PTL DEF Spec

-----------------------------------------------------------------------------
(* No slot is lost.  An active row is held by a coroutine that will not take    *)
(* itself for stale; only a segment that has used up its retries is not, and it *)
(* is dropped with its task's next retry.                                       *)

HeldTask(t) == \E r \in runs : /\ r.id = t
                               /\ \/ r.pc = "load" /\ task[t].status = "DISPATCHED"
                                  \/ r.pc \in {"begin", "asr", "mark"} /\ r.gen = task[t].gen
HeldSeg(x)  == \E r \in runs : /\ r.id = x
                               /\ \/ r.pc = "load"
                                  \/ /\ r.pc \in {"parent", "begin", "recheck", "asr", "mark"}
                                     /\ r.gen = seg[x].gen
                                  \/ r.pc = "recheck" /\ task[Parent[x]].status \in Ended
Spent(x)    == /\ task[Parent[x]].status = "FAILED"
               /\ task[Parent[x]].err = "SEGMENT_RETRY_EXHAUSTED"

TasksHeld == \A t \in Tasks : task[t].status \in Active /\ task[t].server # None => HeldTask(t)
SegsHeld  == \A x \in Segs : seg[x].status \in Active => HeldSeg(x) \/ Spent(x)
TriesLeft == \A x \in Segs : seg[x].status \notin {"NONE", "SUCCEEDED"}
                              => task[Parent[x]].retry < MaxRetry

(* A whole file stays on its server under the generation it was given. *)
LEMMA TaskHoldsStill ==
    ASSUME Invs, [Next]_vars, ~Restart, NEW t \in Tasks, Uncut(t),
           task[t].status \in Active, task'[t].status \in Active,
           ~(DispatchCommit /\ t \in snap.items)
    PROVE  /\ task'[t].gen = task[t].gen
           /\ \/ task'[t].status = task[t].status
              \/ \E r \in runs : r.id = t /\ BeginTask(r)
<1>1. task \in [Tasks -> Task] /\ task[t] \in Task /\ t \in Items /\ TypeOK
  BY DEF Invs, TypeOK, Items
<1>2. CASE task'[t] = task[t]
  BY <1>2
<1>3. CASE DispatchCommit
  <2>1. task'[t] = task[t]
    BY <1>1, <1>3, CommitWrites DEF Active
  <2> QED
    BY <2>1
<1>4. CASE RunStep
  <2>1. PICK r \in runs :
          \/ LoadTask(r) \/ BeginTask(r) \/ LoadSegment(r) \/ CheckParent(r)
          \/ BeginSegment(r) \/ RecheckParent(r) \/ CheckStaleRun(r)
          \/ MarkTaskSucceeded(r) \/ MarkTaskFailed(r)
          \/ MarkSegmentSucceeded(r) \/ MarkSegmentFailed(r) \/ EndRun(r)
    BY <1>4 DEF RunStep
  <2>2. CASE BeginTask(r)
    <3>1. r.id # t => task'[t] = task[t]
      BY <1>1, <2>2 DEF BeginTask
    <3>2. task'[t].gen = task[t].gen
      BY <1>1, <2>2 DEF BeginTask, Task
    <3> QED
      BY <2>2, <3>1, <3>2
  <2>3. CASE BeginSegment(r)
    <3>1. Exists(r.id) => Parent[r.id] # t
      BY <2>3, SetsAssumption DEF BeginSegment, RunOf, Exists, Uncut, Shut, IdleRows, SegsOf
    <3>2. task'[t] = task[t]
      BY <1>1, <2>3, <3>1 DEF BeginSegment, db
    <3> QED
      BY <3>2
  <2>4. CASE MarkTaskSucceeded(r) \/ MarkTaskFailed(r)
    <3>1. r.id # t => task'[t] = task[t]
      BY <1>1, <2>4 DEF MarkTaskSucceeded, MarkTaskFailed
    <3>2. task'[t].gen = task[t].gen
      <4>1. CASE MarkTaskSucceeded(r)
        BY <1>1, <4>1 DEF MarkTaskSucceeded, Task
      <4>2. CASE MarkTaskFailed(r)
        BY <1>1, <4>2 DEF MarkTaskFailed, Task
      <4> QED
        BY <2>4, <4>1, <4>2
    <3>3. r.id = t => task'[t].status \notin Active
      <4>1. CASE MarkTaskSucceeded(r)
        BY <1>1, <4>1 DEF MarkTaskSucceeded, Task, Active
      <4>2. CASE MarkTaskFailed(r)
        <5>1. CanTransition(task[t].status, "FAILED")
          BY DEF Active, CanTransition, ValidTransitions
        <5> QED
          BY <1>1, <4>2, <5>1 DEF MarkTaskFailed, Task, Active
      <4> QED
        BY <2>4, <4>1, <4>2
    <3> QED
      BY <3>1, <3>2, <3>3
  <2>5. CASE MarkSegmentFailed(r)
    <3>1. Accepts(r.id) => Parent[r.id] # t
      BY <2>5 DEF MarkSegmentFailed, RunOf, Accepts, Active, Uncut, Shut, Unopened, SegsOf
    <3>2. task'[t] = task[t]
      BY <1>1, <2>5, <3>1 DEF MarkSegmentFailed, RetrySegment, ExhaustSegment, db
    <3> QED
      BY <3>2
  <2> QED
    BY <1>2, <2>1, <2>2, <2>3, <2>4, <2>5
       DEF LoadTask, LoadSegment, CheckParent, RecheckParent, CheckStaleRun,
           MarkSegmentSucceeded, EndRun, db
<1>5. CASE FinalizeStep
  <2>1. PICK u \in Tasks : StartMerge(u) \/ MergeSucceeds(u) \/ MergeFails(u)
    BY <1>5 DEF FinalizeStep
  <2>2. CASE u = t /\ task'[t] # task[t]
    <3>1. task'[t].status \in {"SUCCEEDED", "FAILED"}
      BY <1>1, <2>1, <2>2 DEF StartMerge, MergeSucceeds, MergeFails, Task, db
    <3> QED
      BY <3>1 DEF Active
  <2>3. CASE u # t
    BY <1>1, <1>2, <2>1, <2>3 DEF StartMerge, MergeSucceeds, MergeFails, db
  <2> QED
    BY <1>2, <2>2, <2>3
<1>6. CASE RetryFailedTasks
  <2>1. ~Retryable(t)
    BY DEF Retryable, Active
  <2> QED
    BY <1>2, <1>6, <2>1 DEF RetryFailedTasks, RetriesMerge, FallsBack, Requeues
<1>7. CASE ApiStep
  <2>1. ASSUME NEW u \in Tasks, CancelTask(u)
        PROVE  task'[t] = task[t]
    BY <1>1, <2>1 DEF CancelTask, Task, Active
  <2>2. ASSUME NEW scope, EmergencyStop(scope)
        PROVE  task'[t] = task[t]
    BY <1>1, <2>2 DEF EmergencyStop, Task, Active
  <2>3. ASSUME NEW statuses, DeleteTasks(statuses)
        PROVE  task'[t] = task[t]
    BY <2>3 DEF DeleteTasks, NoTask, Active
  <2> QED
    BY <1>2, <1>7, <2>1, <2>2, <2>3 DEF ApiStep
<1> QED
  BY <1>2, <1>3, <1>4, <1>5, <1>6, <1>7, ReadFrame DEF Next, DispatchGiveUp, vars, db

(* A coroutine goes its way only by its own steps. *)
LEMMA OthersLeave ==
    ASSUME Invs, [Next]_vars, ~Restart, NEW r \in runs
    PROVE  \/ r \in runs'
           \/ LoadTask(r) \/ BeginTask(r) \/ LoadSegment(r) \/ CheckParent(r)
           \/ BeginSegment(r) \/ RecheckParent(r) \/ CheckStaleRun(r)
           \/ MarkTaskSucceeded(r) \/ MarkTaskFailed(r)
           \/ MarkSegmentSucceeded(r) \/ MarkSegmentFailed(r) \/ EndRun(r)
<1>1. CASE RunStep
  <2>1. PICK q \in runs :
          \/ LoadTask(q) \/ BeginTask(q) \/ LoadSegment(q) \/ CheckParent(q)
          \/ BeginSegment(q) \/ RecheckParent(q) \/ CheckStaleRun(q)
          \/ MarkTaskSucceeded(q) \/ MarkTaskFailed(q)
          \/ MarkSegmentSucceeded(q) \/ MarkSegmentFailed(q) \/ EndRun(q)
    BY <1>1 DEF RunStep
  <2>2. runs \ {q} \subseteq runs'
    BY <2>1 DEF LoadTask, BeginTask, LoadSegment, CheckParent, BeginSegment, RecheckParent,
       CheckStaleRun, MarkTaskSucceeded, MarkTaskFailed, MarkSegmentSucceeded, MarkSegmentFailed,
       EndRun, Go, Become
  <2> QED
    BY <2>1, <2>2
<1>2. CASE DispatchCommit
  BY <1>2 DEF DispatchCommit
<1>3. CASE UNCHANGED runs
  BY <1>3
<1> QED
  BY <1>1, <1>2, <1>3, ReadFrame
     DEF Next, DispatchGiveUp, FinalizeStep, StartMerge, MergeSucceeds,
         MergeFails, RetryFailedTasks, ApiStep, CancelTask, EmergencyStop, DeleteTasks,
         memory, vars

LEMMA TasksHeldKept ==
    ASSUME Invs, WholeServer, TasksHeld, [Next]_vars, ~Restart
    PROVE  TasksHeld'
<1> SUFFICES ASSUME NEW t \in Tasks, task'[t].status \in Active, task'[t].server # None
             PROVE  HeldTask(t)'
  BY DEF TasksHeld
<1>1. /\ TaskMove(t) /\ TypeOK /\ t \in Items /\ task \in [Tasks -> Task] /\ task[t] \in Task
      /\ NewRun(t).id = t /\ NewRun(t).pc = "load" /\ Tasks \cap Segs = {}
  BY NextMoves, SetsAssumption DEF Invs, TypeOK, Items, NewRun
<1>2. CASE NewRun(t) \in runs' /\ task'[t].status = "DISPATCHED"
  BY <1>1, <1>2 DEF HeldTask
<1>3. CASE task'[t].server = task[t].server /\ task[t].status \notin Active
  <2>1. Uncut(t) /\ task[t].status # "QUEUED"
    BY <1>3 DEF WholeServer
  <2>2. PICK s \in Servers : s = task[t].server
    BY <1>1, <1>3 DEF Task
  <2>3. t \in LiveTasks(s)' /\ t \notin LiveTasks(s)
    BY <1>3, <2>2 DEF LiveTasks
  <2>4. /\ task'[t].status # task[t].status /\ DispatchCommit
    BY <1>3, <2>3, TasksShrink
  <2>5. NewRun(t) \in runs' /\ task'[t].status = "DISPATCHED"
    BY <1>1, <2>1, <2>4, CommitWrites
  <2> QED
    BY <1>2, <2>5
<1>4. CASE task'[t].server = task[t].server /\ task[t].status \in Active
  <2>1. Uncut(t) /\ HeldTask(t)
    BY <1>4 DEF WholeServer, TasksHeld
  <2>2. PICK r \in runs :
          /\ r.id = t
          /\ \/ r.pc = "load" /\ task[t].status = "DISPATCHED"
             \/ r.pc \in {"begin", "asr", "mark"} /\ r.gen = task[t].gen
    BY <2>1 DEF HeldTask
  <2>3. r \in Run /\ t \in inflight /\ \A q \in runs : q.id = t => q = r
    BY <2>2 DEF Invs, TypeOK, SegmentInv, OwnRuns, RunInv, OneRunPerItem
  <2>4. ~(DispatchCommit /\ t \in snap.items)
    BY <2>3 DEF DispatchCommit, Planned, Invs, RunInv, SnapshotFree
  <2>5. /\ task'[t].gen = task[t].gen
        /\ r.pc = "load" => task'[t].status = task[t].status
    <3>1. r.pc = "load" => ~(\E q \in runs : q.id = t /\ BeginTask(q))
      BY <2>3 DEF BeginTask, RunOf
    <3> QED
      BY <1>4, <2>1, <2>4, <3>1, TaskHoldsStill
  <2>6. CASE r \in runs'
    BY <2>2, <2>5, <2>6 DEF HeldTask
  <2>7. ASSUME NEW pc \in {"begin", "asr", "mark"}, NEW gen, NEW server, gen = task[t].gen,
               Become(r, [r EXCEPT !.pc = pc, !.gen = gen, !.server = server])
        PROVE  HeldTask(t)'
    <3> DEFINE new == [r EXCEPT !.pc = pc, !.gen = gen, !.server = server]
    <3>1. new \in runs' /\ new.id = t /\ new.pc = pc /\ new.gen = task'[t].gen
      BY <2>2, <2>3, <2>5, <2>7 DEF Become, Run
    <3> QED
      BY <3>1 DEF HeldTask
  <2>8. ASSUME NEW pc \in {"begin", "asr", "mark"}, Go(r, pc), r.gen = task[t].gen
        PROVE  HeldTask(t)'
    <3>1. [r EXCEPT !.pc = pc] \in runs' /\ [r EXCEPT !.pc = pc].id = t
          /\ [r EXCEPT !.pc = pc].pc = pc /\ [r EXCEPT !.pc = pc].gen = task'[t].gen
      BY <2>2, <2>3, <2>5, <2>8 DEF Go, Become, Run
    <3> QED
      BY <3>1 DEF HeldTask
  <2>9. Exists(t)
    BY <1>1, <1>4 DEF Exists, Active
  <2>10. CASE LoadTask(r)
    <3>1. /\ task[t].status # "GONE" /\ task[t].server # None
          /\ CanTransition(task[t].status, "TRANSCRIBING")
      BY <1>4, <2>2, <2>10 DEF LoadTask, RunOf, CanTransition, ValidTransitions
    <3>2. Become(r, [r EXCEPT !.pc = "begin", !.gen = task[t].gen, !.server = task[t].server])
      BY <2>2, <2>10, <3>1 DEF LoadTask
    <3> QED
      BY <2>7, <3>2
  <2>11. CASE BeginTask(r)
    BY <2>2, <2>8, <2>9, <2>11 DEF BeginTask, RunOf
  <2>12. CASE CheckStaleRun(r)
    BY <1>1, <2>2, <2>8, <2>9, <2>12 DEF CheckStaleRun, RunOf, Generation
  <2>13. ~MarkTaskSucceeded(r)
    BY <1>1, <1>4, <2>2 DEF MarkTaskSucceeded, Task, Active
  <2>14. ~MarkTaskFailed(r)
    <3>1. CanTransition(task[t].status, "FAILED") /\ task[t].status # "GONE"
      BY <1>4 DEF Active, CanTransition, ValidTransitions
    <3> QED
      BY <1>1, <2>2, <3>1 DEF MarkTaskFailed, Task, Active
  <2>15. ~EndRun(r)
    BY <2>2 DEF EndRun
  <2>16. r.id \notin Segs
    BY <1>1, <2>2
  <2> QED
    BY <2>6, <2>10, <2>11, <2>12, <2>13, <2>14, <2>15, <2>16, OthersLeave
       DEF LoadSegment, CheckParent, BeginSegment, RecheckParent, MarkSegmentSucceeded,
           MarkSegmentFailed, RunOf
<1> QED
  BY <1>2, <1>3, <1>4, ServerMoves, <1>1

LEMMA SegmentHoldsStill ==
    ASSUME TypeOK, [Next]_vars, ~Restart, NEW x \in Segs,
           seg[x].status \in Active, seg'[x].status \in Active,
           ~(DispatchCommit /\ x \in snap.items)
    PROVE  seg'[x].gen = seg[x].gen
<1>1. seg \in [Segs -> Segment] /\ seg[x] \in Segment /\ x \in Items
  BY DEF TypeOK, Items
<1>2. CASE seg'[x] = seg[x]
  BY <1>2
<1>3. CASE DispatchCommit
  BY <1>1, <1>2, <1>3, CommitWrites
<1>4. CASE RunStep
  <2>1. PICK r \in runs :
          \/ LoadTask(r) \/ BeginTask(r) \/ LoadSegment(r) \/ CheckParent(r)
          \/ BeginSegment(r) \/ RecheckParent(r) \/ CheckStaleRun(r)
          \/ MarkTaskSucceeded(r) \/ MarkTaskFailed(r)
          \/ MarkSegmentSucceeded(r) \/ MarkSegmentFailed(r) \/ EndRun(r)
    BY <1>4 DEF RunStep
  <2>2. CASE CheckParent(r) \/ RecheckParent(r) \/ BeginSegment(r) \/ MarkSegmentSucceeded(r)
    <3>1. \/ UNCHANGED seg
          \/ seg' = [seg EXCEPT ![r.id].status = "FAILED"]
          \/ seg' = [seg EXCEPT ![r.id].status = "TRANSCRIBING"]
          \/ seg' = [seg EXCEPT ![r.id].status = "SUCCEEDED"]
      BY <2>2 DEF CheckParent, RecheckParent, BeginSegment, MarkSegmentSucceeded, db
    <3>2. r.id # x => seg'[x] = seg[x]
      BY <1>1, <3>1
    <3>3. r.id = x => seg'[x].gen = seg[x].gen
      BY <1>1, <3>1 DEF Segment
    <3> QED
      BY <3>2, <3>3
  <2>3. CASE MarkSegmentFailed(r)
    <3>1. CASE RetrySegment(r.id)
      BY <1>1, <3>1 DEF RetrySegment, Segment
    <3>2. CASE ExhaustSegment(r.id)
      BY <1>1, <3>2 DEF ExhaustSegment, Segment
    <3> QED
      BY <1>2, <2>3, <3>1, <3>2 DEF MarkSegmentFailed, db
  <2> QED
    BY <1>2, <2>1, <2>2, <2>3
       DEF LoadTask, BeginTask, LoadSegment, CheckStaleRun, MarkTaskSucceeded,
           MarkTaskFailed, EndRun, db
<1>5. CASE RetryFailedTasks
  BY <1>2, <1>5 DEF RetryFailedTasks, NoSegment, Active
<1>6. CASE ApiStep
  <2>1. ASSUME NEW S, ReleaseSegments(S)
        PROVE  seg'[x] = seg[x]
    BY <1>1, <2>1 DEF ReleaseSegments, Segment, Active
  <2>2. ASSUME NEW statuses, DeleteTasks(statuses)
        PROVE  seg'[x] = seg[x]
    BY <2>2 DEF DeleteTasks, NoSegment, Active
  <2> QED
    BY <1>2, <1>6, <2>1, <2>2 DEF ApiStep, CancelTask, EmergencyStop
<1> QED
  BY <1>2, <1>3, <1>4, <1>5, <1>6, ReadFrame
     DEF Next, DispatchGiveUp, FinalizeStep, StartMerge, MergeSucceeds,
         MergeFails, vars, db

(* The step of the coroutine that holds a segment passes the segment on, closes it, *)
(* or spends its retries.                                                           *)
LEMMA RunPassesOn ==
    ASSUME Invs, EarlyGiven, SlotInv, [Next]_vars, ~Restart,
           NEW x \in Segs, seg[x].status \in Active, seg'[x].status \in Active,
           seg'[x].gen = seg[x].gen, NEW r \in runs, r.id = x,
           \/ r.pc = "load"
           \/ r.pc \in {"parent", "begin", "recheck", "asr", "mark"} /\ r.gen = seg[x].gen
           \/ r.pc = "recheck" /\ task[Parent[x]].status \in Ended,
           r \notin runs'
    PROVE  HeldSeg(x)' \/ Spent(x)'
<1> DEFINE t == Parent[x]
<1>1. /\ r \in Run /\ seg \in [Segs -> Segment] /\ seg[x] \in Segment /\ t \in Tasks
      /\ task \in [Tasks -> Task] /\ x \notin Tasks
  BY SetsAssumption DEF Invs, TypeOK
<1>2. task[t].status \notin {"GONE", "SUCCEEDED"} /\ Exists(x)
  <2>1. x \in SegsOf(t) /\ seg[x].status \notin {"NONE", "SUCCEEDED"}
    BY DEF SegsOf, Active
  <2> QED
    BY <1>1, <2>1
       DEF Invs, ClosedInv, GoneEmpty, Unsegmented, SuccessShut, Transcribed, Shut, Unopened,
           Exists, Active
<1>3. ASSUME NEW pc \in {"parent", "begin", "recheck", "asr", "mark"}, Go(r, pc), r.gen = seg[x].gen
      PROVE  HeldSeg(x)'
  <2>1. [r EXCEPT !.pc = pc] \in runs' /\ [r EXCEPT !.pc = pc].id = x
        /\ [r EXCEPT !.pc = pc].pc = pc /\ [r EXCEPT !.pc = pc].gen = seg'[x].gen
    BY <1>1, <1>3 DEF Go, Become, Run
  <2> QED
    BY <2>1 DEF HeldSeg
<1>4. r.pc \in BeforeWork => seg[x].status = "DISPATCHED" /\ seg[x].server \in Servers
  BY DEF EarlyGiven, Given, Active
<1>5. CASE LoadSegment(r)
  <2>1. Become(r, [r EXCEPT !.pc = "parent", !.gen = seg[x].gen, !.server = seg[x].server])
    BY <1>2, <1>4, <1>5, SetsAssumption DEF LoadSegment, RunOf, BeforeWork
  <2> DEFINE new == [r EXCEPT !.pc = "parent", !.gen = seg[x].gen, !.server = seg[x].server]
  <2>2. new \in runs' /\ new.id = x /\ new.pc = "parent" /\ new.gen = seg'[x].gen
    BY <1>1, <2>1 DEF Become, Run
  <2> QED
    BY <2>2 DEF HeldSeg
<1>6. CASE CheckParent(r)
  <2>1. r.pc = "parent" /\ r.gen = seg[x].gen /\ seg[x].status = "DISPATCHED"
    BY <1>4, <1>6 DEF CheckParent, RunOf, BeforeWork
  <2>2. CASE task[t].status \in {"CANCELED", "FAILED"}
    <3>1. seg'[x].status = "FAILED"
      BY <1>1, <1>6, <2>1, <2>2 DEF CheckParent, Segment
    <3> QED
      BY <3>1 DEF Active
  <2>3. CASE task[t].status \notin {"CANCELED", "FAILED"}
    BY <1>3, <1>6, <2>1, <2>3 DEF CheckParent
  <2> QED
    BY <2>2, <2>3
<1>7. CASE BeginSegment(r)
  BY <1>2, <1>3, <1>7 DEF BeginSegment, RunOf
<1>8. CASE RecheckParent(r)
  <2>1. CASE task[t].status \in {"CANCELED", "FAILED"}
    <3>1. seg'[x].status = "FAILED"
      BY <1>1, <1>8, <2>1 DEF RecheckParent, Segment, Active
    <3> QED
      BY <3>1 DEF Active
  <2>2. CASE task[t].status \notin {"CANCELED", "FAILED"}
    BY <1>3, <1>8, <2>2 DEF RecheckParent, RunOf, Ended
  <2> QED
    BY <2>1, <2>2
<1>9. CASE CheckStaleRun(r)
  BY <1>1, <1>2, <1>3, <1>9 DEF CheckStaleRun, RunOf, Generation
<1>10. r.pc \in {"asr", "mark"} => Accepts(x)
  <2>1. r.pc \in {"asr", "mark"} => task[t].status \notin Ended
    BY DEF SlotInv, AskingParent
  <2> QED
    BY <1>2, <2>1 DEF Accepts, Finished, Ended
<1>11. ~MarkSegmentSucceeded(r)
  BY <1>1, <1>10 DEF MarkSegmentSucceeded, RunOf, Segment, Active
<1>12. CASE MarkSegmentFailed(r)
  <2>1. Accepts(x)
    BY <1>10, <1>12 DEF MarkSegmentFailed, RunOf
  <2>2. CASE RetrySegment(x)
    <3>1. seg'[x].status = "PENDING"
      BY <1>1, <2>2 DEF RetrySegment, Segment
    <3> QED
      BY <3>1 DEF Active
  <2>3. CASE ExhaustSegment(x)
    <3>1. task'[t].status = "FAILED" /\ task'[t].err = "SEGMENT_RETRY_EXHAUSTED"
      BY <1>1, <2>3 DEF ExhaustSegment, Task
    <3> QED
      BY <3>1 DEF Spent
  <2> QED
    BY <1>12, <2>1, <2>2, <2>3 DEF MarkSegmentFailed
<1>13. ~EndRun(r)
  BY DEF EndRun
<1> QED
  BY <1>1, <1>5, <1>6, <1>7, <1>8, <1>9, <1>11, <1>12, <1>13, OthersLeave
     DEF LoadTask, BeginTask, MarkTaskSucceeded, MarkTaskFailed, RunOf

LEMMA SegsHeldKept ==
    ASSUME Invs, EarlyGiven, SlotInv, SegsHeld, [Next]_vars, ~Restart
    PROVE  SegsHeld'
<1> SUFFICES ASSUME NEW x \in Segs, seg'[x].status \in Active
             PROVE  HeldSeg(x)' \/ Spent(x)'
  BY DEF SegsHeld
<1> DEFINE t == Parent[x]
<1>1. /\ TypeOK /\ NewRun(x).id = x /\ NewRun(x).pc = "load"
      /\ CleanStep /\ ClosedParent
  BY DEF Invs, NewRun, CleanStep, ClosedInv
<1>2. CASE NewRun(x) \in runs'
  BY <1>1, <1>2 DEF HeldSeg
<1>3. ASSUME task[t].status \in Ended
      PROVE  /\ task'[t].status = task[t].status
             /\ task[t].status = "FAILED" => task'[t].err = task[t].err
  BY <1>1, <1>3, EndedHolds
<1>4. ASSUME seg[x].status \notin Active \cup {"NONE"},
             NEW r \in runs, r.id = x, r.pc = "begin", Go(r, "recheck")
      PROVE  HeldSeg(x)'
  <2>1. seg[x].status = "FAILED"
    BY <1>4 DEF EarlyGiven, BeforeWork, Given, Active
  <2>2. task'[t].status \in Ended
    <3>1. ~Shut(t)
      BY <1>4, <2>1 DEF Shut, IdleRows, SegsOf
    <3> QED
      BY <1>1, <1>3, <2>1, <3>1 DEF ClosedParent
  <2>3. [r EXCEPT !.pc = "recheck"] \in runs' /\ [r EXCEPT !.pc = "recheck"].id = x
        /\ [r EXCEPT !.pc = "recheck"].pc = "recheck"
    BY <1>1, <1>4 DEF Go, Become, Run, TypeOK
  <2> QED
    BY <2>2, <2>3 DEF HeldSeg
<1>5. CASE seg[x].status \in Active /\ Spent(x)
  BY <1>3, <1>5 DEF Spent, Ended
<1>6. CASE seg[x].status \in Active /\ HeldSeg(x)
  <2>1. PICK r \in runs :
          /\ r.id = x
          /\ \/ r.pc = "load"
             \/ /\ r.pc \in {"parent", "begin", "recheck", "asr", "mark"}
                /\ r.gen = seg[x].gen
             \/ r.pc = "recheck" /\ task[t].status \in Ended
    BY <1>6 DEF HeldSeg
  <2>2. x \in inflight
    BY <2>1 DEF Invs, SegmentInv, OwnRuns, RunInv, OneRunPerItem
  <2>3. ~(DispatchCommit /\ x \in snap.items)
    BY <2>2 DEF DispatchCommit, Planned, Invs, RunInv, SnapshotFree
  <2>4. seg'[x].gen = seg[x].gen
    BY <1>1, <1>6, <2>3, SegmentHoldsStill
  <2>5. CASE r \in runs'
    BY <1>3, <2>1, <2>4, <2>5 DEF HeldSeg
  <2>6. CASE r \notin runs'
    BY <1>6, <2>1, <2>4, <2>6, RunPassesOn
  <2> QED
    BY <2>5, <2>6
<1> QED
  BY <1>1, <1>2, <1>4, <1>5, <1>6, NewlyActive DEF SegsHeld

LEMMA TriesLeftKept ==
    ASSUME Invs, TriesLeft, [Next]_vars, ~Restart
    PROVE  TriesLeft'
<1> SUFFICES ASSUME NEW x \in Segs, seg'[x].status \notin {"NONE", "SUCCEEDED"}
             PROVE  task'[Parent[x]].retry < MaxRetry
  BY DEF TriesLeft
<1> DEFINE t == Parent[x]
<1>1. TypeOK /\ SegmentInv /\ t \in Tasks /\ TaskMove(t)
  BY NextMoves, SetsAssumption DEF Invs
<1>2. seg[x].status \notin {"NONE", "SUCCEEDED"}
  BY <1>1, NoRowStays, NextMovesSegment
<1>3. task[t].retry < MaxRetry
  BY <1>2 DEF TriesLeft
<1>4. ~Again(t) /\ ~Gone(t)
  BY AgainDrops DEF Gone, Unsegmented
<1>5. task'[t].retry = task[t].retry
  BY <1>1, <1>4 DEF TaskMove, Stays, Put, Starts, Done, Fails, Unmerged, Canceled, Recovered, Turns
<1> QED
  BY <1>3, <1>5

LEMMA HeldUses ==
    ASSUME TasksHeld, SegsHeld, TriesLeft
    PROVE  SlotsUsed
<1> SUFFICES ASSUME NEW s \in Servers, NEW i \in ActiveWork(task, seg, s)
             PROVE  \/ \E r \in runs : r.id = i
                    \/ i \in Segs /\ Retryable(Parent[i])
  BY DEF SlotsUsed
<1>1. CASE i \in Tasks /\ task[i].status \in Active /\ task[i].server = s
  <2>1. HeldTask(i)
    BY <1>1, SetsAssumption DEF TasksHeld
  <2> QED
    BY <2>1 DEF HeldTask
<1>2. CASE i \in Segs /\ seg[i].status \in Active
  <2>1. CASE HeldSeg(i)
    BY <2>1 DEF HeldSeg
  <2>2. CASE Spent(i)
    BY <1>2, <2>2 DEF Spent, TriesLeft, Retryable, Active
  <2> QED
    BY <1>2, <2>1, <2>2 DEF SegsHeld
<1> QED
  BY <1>1, <1>2 DEF ActiveWork

LEMMA InitHeld ==
    ASSUME Init, MaxRetry \notin QueuedRetries
    PROVE  TasksHeld /\ SegsHeld /\ TriesLeft
<1>1. \A x \in Segs : seg[x].status = "PENDING"
  BY DEF Init, NoSegment
<1>2. \A t \in Tasks : task[t].status = "QUEUED" /\ task[t].retry < MaxRetry
  <2>1. PICK retry \in [Tasks -> QueuedRetries] :
          task = [u \in Tasks |-> [NoTask EXCEPT !.status = "QUEUED", !.retry = retry[u]]]
    BY DEF Init
  <2>2. ASSUME NEW t \in Tasks
        PROVE  task[t].status = "QUEUED" /\ task[t].retry = retry[t]
    BY <2>1 DEF NoTask
  <2>3. \A n \in QueuedRetries : n < MaxRetry
    BY BoundsAssumption
  <2> QED
    BY <2>2, <2>3
<1> QED
  BY <1>1, <1>2, SetsAssumption DEF TasksHeld, SegsHeld, TriesLeft, Active

(* _unmark_inflight and the marks: a row that counts against its server's slots has *)
(* a coroutine that will give the slot back, or a retry to come that will; it is     *)
(* so as long as no task is queued with all its retries used (see zombie_segment).   *)
THEOREM NoSlotLost ==
    ASSUME MaxRestarts = 0, MaxRetry \notin QueuedRetries
    PROVE  Spec => []SlotsUsed
<1>1. Invs /\ EarlyGiven /\ SlotInv /\ [Next]_vars => EarlyGiven' /\ SlotInv'
  BY SlotInvKept
<1>2. Invs /\ EarlyGiven /\ SlotInv /\ TasksHeld /\ SegsHeld
        /\ TriesLeft /\ [Next]_vars => TasksHeld' /\ SegsHeld' /\ TriesLeft'
  <2> SUFFICES ASSUME Invs, EarlyGiven, SlotInv,
                      TasksHeld, SegsHeld, TriesLeft, [Next]_vars
               PROVE  TasksHeld' /\ SegsHeld' /\ TriesLeft'
    OBVIOUS
  <2>1. ~Restart /\ WholeServer
    BY NoRestart DEF SlotInv, Invs
  <2> QED
    BY <2>1, TasksHeldKept, SegsHeldKept, TriesLeftKept
<1>3. Init => EarlyGiven /\ TasksHeld /\ SegsHeld /\ TriesLeft
  BY InitHeld DEF Init, EarlyGiven
<1>4. TasksHeld /\ SegsHeld /\ TriesLeft => SlotsUsed
  BY HeldUses
<1>5. Spec => []Invs
  BY InvsAlways
<1> QED
  BY <1>1, <1>2, <1>3, <1>4, <1>5, InitSlots, PTL DEF Spec

=============================================================================
