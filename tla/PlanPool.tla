------------------------------ MODULE PlanPool ------------------------------
(***************************************************************************)
(* The dispatcher's plan: a queue of decisions for each server that lives  *)
(* on over dispatch cycles, and the cycle that refreshes it, pops the head *)
(* of the queues, steals their tails for idle servers and starts what it   *)
(* took.  Tasks are canceled, finish and are retried, servers come and go  *)
(* and are given fewer slots between any two steps of a cycle.             *)
(*                                                                         *)
(* A queue is sorted by estimated finish.  Only that order and whether a   *)
(* decision starts at once are kept of its times, and what the scheduler   *)
(* may answer is Plans below (BatchScheduler shows that it answers that).  *)
(***************************************************************************)
EXTENDS Integers, Sequences, FiniteSets, FiniteSetsExt, SequencesExt

CONSTANTS
    Items,         \* tasks and segments, as numbers: segments are read in that order
    Whole,         \* "no parent" for a task that is transcribed as one file
    PartOf,        \* the task a segment belongs to
    Hosts, NoHost,
    MaxSlots,      \* max_concurrency when the cycle begins
    MaxParallel,   \* settings.segment_max_parallel_per_task
    MaxAttempts,   \* how often each item may be tried
    MaxChanges     \* bound on changes of the servers

ASSUME PoolAssumption ==
    /\ IsFiniteSet(Items) /\ Items \subseteq Nat /\ IsFiniteSet(Hosts)
    /\ NoHost \notin Hosts
    /\ MaxSlots \in [Hosts -> Nat \ {0}]
    /\ MaxParallel \in Nat \ {0} /\ MaxAttempts \in [Items -> Nat \ {0}] /\ MaxChanges \in Nat

VARIABLES
    queue,     \* PlanPool._queues: decisions [id, now] of each server
    index,     \* PlanPool._task_index
    plannedFor,   \* _planned_available_server_ids
    since,     \* seconds since the last replan: 0 (< 3), 1 (< 5), 2
    work,      \* the rows: [st, host, tries]
    busyIds,   \* BackgroundTaskRunner._inflight
    host,      \* a server is "ready", "blocked" by its breaker or "away"
    slots,     \* max_concurrency, which an operator may lower
    changes,
    cycle      \* the dispatch cycle: what it has read and done

planVars == <<queue, index, plannedFor, since>>
envVars  == <<work, busyIds, host, slots, changes>>
poolVars == <<queue, index, plannedFor, since, work, busyIds, host, slots, changes, cycle>>

Decision == [id: Items, now: BOOLEAN]

Resting == [pc |-> "rest", avail |-> {}, items |-> {}, cap |-> [s \in Hosts |-> 0],
            free |-> [s \in Hosts |-> 0], fresh |-> FALSE, todo |-> {},
            taken |-> [i \in Items |-> NoHost]]

PoolInit ==
    /\ queue = [s \in Hosts |-> <<>>]
    /\ index = [i \in Items |-> NoHost]
    /\ plannedFor = {} /\ since = 2
    /\ work = [i \in Items |-> [st |-> "absent", host |-> NoHost, tries |-> 0]]
    /\ busyIds = {}
    /\ host = [s \in Hosts |-> "ready"]
    /\ slots = MaxSlots
    /\ changes = 0
    /\ cycle = Resting

In(st)        == {i \in Items : work[i].st = st}
RunningOn(s)  == {i \in In("running") : work[i].host = s}
Taken         == {i \in Items : cycle.taken[i] # NoHost}
TakenFor(s)   == {i \in Taken : cycle.taken[i] = s}
Pooled        == {i \in Items : index[i] # NoHost}
PoolEmpty     == \A s \in Hosts : queue[s] = <<>>
Parents       == {PartOf[i] : i \in Items} \ {Whole}
PartsOf(t)    == {i \in Items : PartOf[i] = t}
Ids(q)        == {q[k].id : k \in DOMAIN q}

-----------------------------------------------------------------------------
(* The operations of the pool. *)

(* The element of a set of numbers that has n - 1 before it. *)
Nth(S, n) == CHOOSE k \in S : Cardinality({m \in S : m < k}) = n - 1

(* A queue without some of its items, in the order it had. *)
Without(q, ids) ==
    LET keep == {k \in DOMAIN q : q[k].id \notin ids}
    IN  [n \in 1 .. Cardinality(keep) |-> q[Nth(keep, n)]]

Clear(resetServers) ==
    /\ queue' = [s \in Hosts |-> <<>>]
    /\ index' = [i \in Items |-> NoHost]
    /\ plannedFor' = IF resetServers THEN {} ELSE plannedFor

(* The position pop_dispatchable picks: the first that starts now, or the head. *)
Nows(q)           == {k \in DOMAIN q : q[k].now}
PopNowOnly(q, fut) == Nows(q) # {}      \* mutant: the rest of the plan is never popped
Poppable(q, fut)  == Nows(q) # {} \/ (fut /\ q # <<>>)
PopAt(q)          == IF Nows(q) # {} THEN Min(Nows(q)) ELSE 1

(* What schedule_batch may answer for items: every item on one available     *)
(* server, and on each server as many at once as it has free slots for them. *)
Plans(items, avail, free) ==
    LET On(on, s) == {i \in items : on[i] = s}
        Options == {o \in [items -> avail] \X SetToSeqs(items) \X SUBSET items :
                      \A s \in avail : Cardinality(On(o[1], s) \cap o[3])
                                         = Min({Cardinality(On(o[1], s)), free[s]})}
        All(o) == [k \in DOMAIN o[2] |-> [id |-> o[2][k], now |-> o[2][k] \in o[3]]]
    IN  {[s \in Hosts |-> Without(All(o), items \ On(o[1], s))] : o \in Options}

IndexOf(qs) == [i \in Items |-> IF \E s \in Hosts : i \in Ids(qs[s])
                                THEN CHOOSE s \in Hosts : i \in Ids(qs[s]) ELSE NoHost]

-----------------------------------------------------------------------------
(* The cycle. *)

(* Mutant: the segments that are on servers already are not counted. *)
RoomAnyway(t, avail) == Min({Cardinality(avail), MaxParallel})

Room(t, avail) == Min({Cardinality(avail), MaxParallel}) - Cardinality(PartsOf(t) \cap In("running"))

(* The first n of a set of numbers. *)
First(S, n) == {i \in S : Cardinality({j \in S : j < i}) < n}

Readable(avail) ==
    ({i \in In("waiting") : PartOf[i] = Whole}
       \cup UNION {First(PartsOf(t) \cap In("waiting"), Room(t, avail)) : t \in Parents}) \ busyIds

Online == {s \in Hosts : host[s] # "away"}
Avail  == {s \in Hosts : host[s] = "ready" /\ slots[s] > 0}

ReadWork ==
    /\ cycle.pc = "rest" /\ Avail # {} /\ Readable(Avail) # {}
    /\ cycle' = [Resting EXCEPT
         !.pc = "plan", !.avail = Avail, !.items = Readable(Avail), !.cap = slots,
         !.free = [s \in Hosts |-> Max({slots[s] - Cardinality(RunningOn(s)), 0})]]
    /\ UNCHANGED <<planVars, envVars>>

(* No server is online: the plan is dropped. *)
NobodyOnline ==
    /\ cycle.pc = "rest" /\ Online = {}
    /\ Clear(TRUE)
    /\ UNCHANGED <<since, envVars, cycle>>

NewWork == cycle.items \ Pooled

(* The imbalance of the queues is left open: it only asks for a fresh plan. *)
Replans(imbalanced) ==
    \/ cycle.avail # plannedFor /\ (since > 0 \/ plannedFor = {})
    \/ PoolEmpty
    \/ since = 2 /\ (NewWork # {} \/ imbalanced)

Purged(qs) == [s \in Hosts |-> Without(qs[s], Items \ cycle.items)]

(* Phases A and B look at the servers that are available, one after the other. *)
StartPhaseA(qs, isFresh) ==
    /\ queue' = Purged(qs)
    /\ index' = IndexOf(Purged(qs))
    /\ cycle' = [cycle EXCEPT !.pc = "pop", !.fresh = isFresh, !.todo = cycle.avail]

Replan(imbalanced) ==
    /\ cycle.pc = "plan" /\ Replans(imbalanced)
    /\ \E p \in Plans(cycle.items, cycle.avail, cycle.free) : StartPhaseA(p, TRUE)
    /\ plannedFor' = cycle.avail /\ since' = 0
    /\ UNCHANGED envVars

(* Between replans new work goes behind what the queues hold. *)
Behind(q, r) == q \o [k \in DOMAIN r |-> [r[k] EXCEPT !.now = r[k].now /\ q = <<>>]]

MergeNew ==
    /\ cycle.pc = "plan" /\ ~Replans(FALSE) /\ NewWork # {} /\ since < 2
    /\ \E p \in Plans(NewWork, cycle.avail, cycle.free) :
         StartPhaseA([s \in Hosts |-> Behind(queue[s], p[s])], TRUE)
    /\ UNCHANGED <<plannedFor, since, envVars>>

KeepPlan ==
    /\ cycle.pc = "plan" /\ ~Replans(FALSE) /\ NewWork = {}
    /\ StartPhaseA(queue, FALSE)
    /\ UNCHANGED <<plannedFor, since, envVars>>

PopHead(s) ==
    /\ cycle.pc = "pop" /\ s \in cycle.todo
    /\ cycle.free[s] > 0 /\ Poppable(queue[s], ~cycle.fresh)
    /\ LET d == queue[s][PopAt(queue[s])].id IN
         IF host[s] = "blocked"
         THEN /\ cycle' = [cycle EXCEPT !.todo = @ \ {s}]      \* merged back
              /\ UNCHANGED <<queue, index>>
         ELSE /\ queue' = [queue EXCEPT ![s] = Without(@, {d})]
              /\ index' = [index EXCEPT ![d] = NoHost]
              /\ cycle' = [cycle EXCEPT !.free[s] = @ - 1, !.taken[d] = s]
    /\ UNCHANGED <<plannedFor, since, envVars>>

StartStealing ==
    /\ cycle.pc = "pop"
    /\ \A s \in cycle.todo : ~(cycle.free[s] > 0 /\ Poppable(queue[s], ~cycle.fresh))
    /\ cycle' = [cycle EXCEPT !.pc = "steal", !.todo = cycle.avail]
    /\ UNCHANGED <<planVars, envVars>>

(* The last three of every other queue are looked at; which of them gains *)
(* enough time on the idle server, if any does, is left open.             *)
Tail3(q)        == {q[k].id : k \in {j \in DOMAIN q : j > Len(q) - 3}}
StealFrom(s)    == UNION {Tail3(queue[r]) : r \in cycle.avail \ {s}}

SegmentsActive(t) == PartsOf(t) \cap (In("running") \cup Taken)
MaySteal(i) == \/ PartOf[i] = Whole
               \/ Cardinality(SegmentsActive(PartOf[i])) < Min({Cardinality(cycle.avail), MaxParallel})

(* Mutant: the stolen item stays in the queue it was taken from. *)
StealKeep(s, i) ==
    /\ cycle.pc = "steal" /\ s \in cycle.todo /\ cycle.free[s] > 0
    /\ i \in StealFrom(s) /\ MaySteal(i) /\ host[s] # "blocked"
    /\ cycle' = [cycle EXCEPT !.free[s] = @ - 1, !.taken[i] = s]
    /\ UNCHANGED <<planVars, envVars>>

Steal(s, i) ==
    /\ cycle.pc = "steal" /\ s \in cycle.todo /\ cycle.free[s] > 0
    /\ i \in StealFrom(s) /\ MaySteal(i) /\ host[s] # "blocked"
    /\ queue' = [queue EXCEPT ![index[i]] = Without(@, {i})]
    /\ index' = [index EXCEPT ![i] = NoHost]
    /\ cycle' = [cycle EXCEPT !.free[s] = @ - 1, !.taken[i] = s]
    /\ UNCHANGED <<plannedFor, since, envVars>>

(* What the tables would hold if the cycle committed. *)
Booked(s)     == Cardinality((RunningOn(s) \ Taken) \cup TakenFor(s))
Overcommitted == \E s \in cycle.avail : Booked(s) > cycle.cap[s]

EndCycle ==
    /\ cycle.pc = "steal"
    /\ CASE Taken = {} -> UNCHANGED <<planVars, work, busyIds>>
         [] Taken # {} /\ Overcommitted ->
              Clear(FALSE) /\ UNCHANGED <<since, work, busyIds>>
         [] OTHER ->
              /\ work' = [i \in Items |-> IF i \in Taken
                            THEN [work[i] EXCEPT !.st = "running", !.host = cycle.taken[i], !.tries = @ + 1]
                            ELSE work[i]]
              /\ busyIds' = busyIds \cup Taken
              /\ UNCHANGED planVars
    /\ cycle' = Resting
    /\ UNCHANGED <<host, slots, changes>>

-----------------------------------------------------------------------------
(* What happens beside the cycle. *)

(* A task is queued, or the segments of one are created. *)
Arrive(i) ==
    /\ work[i].st = "absent"
    /\ work' = [j \in Items |-> IF j = i \/ (PartOf[i] # Whole /\ PartOf[j] = PartOf[i])
                               THEN [work[j] EXCEPT !.st = "waiting"] ELSE work[j]]
    /\ UNCHANGED <<planVars, busyIds, host, slots, changes, cycle>>

(* The row of an item is settled, or put back for another try while its       *)
(* coroutine is still in flight.  An id in flight matters only to a row that  *)
(* waits, so that a settled one leaves busyIds at once.                       *)
Settle(i) ==
    /\ work[i].st = "running"
    /\ \/ work' = [work EXCEPT ![i].st = "over"] /\ busyIds' = busyIds \ {i}
       \/ /\ work[i].tries < MaxAttempts[i]
          /\ work' = [work EXCEPT ![i].st = "waiting"] /\ UNCHANGED busyIds
    /\ UNCHANGED <<planVars, host, slots, changes, cycle>>

Unmark(i) ==
    /\ i \in busyIds /\ work[i].st = "waiting"
    /\ busyIds' = busyIds \ {i}
    /\ UNCHANGED <<planVars, work, host, slots, changes, cycle>>

Cancel(i) ==
    /\ work[i].st \in {"waiting", "running"} /\ changes < MaxChanges
    /\ work' = [work EXCEPT ![i].st = "over"]
    /\ busyIds' = busyIds \ {i}
    /\ changes' = changes + 1
    /\ UNCHANGED <<planVars, host, slots, cycle>>

HostChanges(s, h) ==
    /\ changes < MaxChanges /\ h # host[s]
    /\ host' = [host EXCEPT ![s] = h] /\ changes' = changes + 1
    /\ UNCHANGED <<planVars, work, busyIds, slots, cycle>>

LowerSlots(s) ==
    /\ changes < MaxChanges /\ slots[s] > 1
    /\ slots' = [slots EXCEPT ![s] = 1] /\ changes' = changes + 1
    /\ UNCHANGED <<planVars, work, busyIds, host, cycle>>

TimePasses ==
    /\ since < 2 /\ since' = since + 1
    /\ UNCHANGED <<queue, index, plannedFor, envVars, cycle>>

-----------------------------------------------------------------------------
CycleStep ==
    \/ ReadWork \/ NobodyOnline \/ MergeNew \/ KeepPlan \/ StartStealing \/ EndCycle
    \/ \E imbalanced \in BOOLEAN : Replan(imbalanced)
    \/ \E s \in Hosts : PopHead(s) \/ \E i \in Items : Steal(s, i)

PoolNext ==
    \/ CycleStep \/ TimePasses
    \/ \E i \in Items : Arrive(i) \/ Settle(i) \/ Unmark(i) \/ Cancel(i)
    \/ \E s \in Hosts : LowerSlots(s) \/ \E h \in {"ready", "blocked", "away"} : HostChanges(s, h)

(* The loop goes on, calls end and time passes. *)
PoolFairness ==
    /\ WF_poolVars(CycleStep) /\ WF_poolVars(TimePasses)
    /\ \A i \in Items : WF_poolVars(Settle(i)) /\ WF_poolVars(Unmark(i))

PoolSpec == PoolInit /\ [][PoolNext]_poolVars /\ PoolFairness

-----------------------------------------------------------------------------
(* Properties. *)

PoolTypeOK ==
    /\ queue \in [Hosts -> Seq(Decision)]
    /\ index \in [Items -> Hosts \cup {NoHost}]
    /\ plannedFor \subseteq Hosts /\ since \in 0 .. 2
    /\ busyIds \subseteq Items

(* The index names exactly the queue an item is in, no queue holds an item   *)
(* twice, and what the cycle has taken is in none, whatever is purged, put   *)
(* back or stolen: otherwise an item would be started twice, or would count  *)
(* as planned and never be planned again.                                    *)
PoolIndexed ==
    /\ \A s \in Hosts :
         /\ \A i \in Items : index[i] = s <=> i \in Ids(queue[s])
         /\ \A j, k \in DOMAIN queue[s] : queue[s][j].id = queue[s][k].id => j = k
    /\ \A i \in Taken : index[i] = NoHost

(* No task has more segments on servers than one task may have at a time, *)
(* over all cycles, retries and steals.                                   *)
ParallelWithinLimit ==
    \A t \in Parents : Cardinality(PartsOf(t) \cap In("running")) <= MaxParallel

(* If some server is ready in the end, no item waits for ever: a blocked  *)
(* breaker, a stale plan or a vanished server delays it and no more.      *)
EveryItemIsPlaced ==
    <>[](Avail # {}) => \A i \in Items : []<>(work[i].st # "waiting")

=============================================================================
