--------------------------- MODULE BatchScheduler ---------------------------
(***************************************************************************)
(* TaskScheduler.schedule_batch: a batch of work is put on the slots of    *)
(* the available servers, longest first, each item on the slot where it    *)
(* would finish first, within quotas that follow the servers' speeds, and  *)
(* with the segments of one task spread over the servers.                  *)
(*                                                                         *)
(* One step is one turn of the loop over the items.  Times are integers in *)
(* tenths of a unit, so that the penalty of a tenth per running call of    *)
(* penalty_factor is exact; servers are numbers, in the order of the query.*)
(***************************************************************************)
EXTENDS Integers, Sequences, FiniteSets, FiniteSetsExt, Functions

CONSTANTS
    Machines,              \* the servers
    Profiles,              \* what a ServerProfile may say: slots, running calls, base RTF
    Durations, MaxBatch,   \* lengths of the audio, items in a batch
    Overhead, AverageTask  \* DEFAULT_OVERHEAD, the length assumed of running work

ASSUME SchedulerAssumption ==
    /\ IsFiniteSet(Machines) /\ Machines \subseteq Nat /\ Machines # {}
    /\ Profiles \subseteq [limit: Nat \ {0}, running: Nat, rtf: Nat \ {0}]
    /\ MaxBatch \in Nat /\ Durations \subseteq Nat
    /\ Overhead \in Nat \ {0} /\ AverageTask \in Nat

VARIABLES
    profile,   \* the ServerProfile of each server: [limit, running, rtf]
    left,      \* task_estimates still to be placed: [n, dur, segment]
    freeAt,    \* earliest_free of each slot
    quota, given,
    decided    \* the decisions: [n, on, slot, start, segment]

batchVars == <<profile, left, freeAt, quota, given, decided>>

Segmented(J) == {j \in J : j.segment}

BatchInit ==
    /\ profile = [h \in {} |-> 0] /\ freeAt = [s \in {} |-> 0]
    /\ left = {} /\ decided = {}
    /\ quota = [h \in {} |-> 0] /\ given = [h \in {} |-> 0]

-----------------------------------------------------------------------------
(* Estimates. *)

Estimate(j, h) == j.dur * profile[h].rtf * (10 + profile[h].running) + 10 * Overhead
Best(j)        == Min({Estimate(j, h) : h \in Machines})

(* get_throughput_speed is limit / rtf; all speeds are brought to one denominator. *)
Scale          == FoldFunction(LAMBDA p, n : p.rtf * n, 1, profile')
Speed(h)       == profile'[h].limit * (Scale \div profile'[h].rtf)
Total(f)       == FoldFunction(+, 0, f)

(* Python's round: to the nearest integer, and from the middle to the even one. *)
RoundHalfEven(a, b) ==
    LET q == a \div b  r == 2 * (a % b)
    IN  IF r > b \/ (r = b /\ q % 2 = 1) THEN q + 1 ELSE q

Shares(n) ==
    LET all == Total([h \in Machines |-> Speed(h)])
    IN  [h \in Machines |-> RoundHalfEven(n * Speed(h), all)]

Fastest == CHOOSE h \in Machines : \A k \in Machines :
             Speed(h) > Speed(k) \/ (Speed(h) = Speed(k) /\ h <= k)
Slower(k, h) == Speed(k) < Speed(h) \/ (Speed(k) = Speed(h) /\ k < h)

(* Mutant: what was rounded up too often is not taken back. *)
QuotasUncut(n) ==
    LET share == Shares(n)  diff == n - Total(share)
    IN  [share EXCEPT ![Fastest] = @ + Max({diff, 0})]

(* A missing rest goes to the fastest, one too many is taken from the slowest on. *)
Quotas(n) ==
    LET share == Shares(n)
        diff  == n - Total(share)
        Before(h) == Total([k \in {m \in Machines : Slower(m, h)} |-> share[k]])
    IN  IF diff >= 0 THEN [share EXCEPT ![Fastest] = @ + diff]
        ELSE [h \in Machines |-> share[h] - Min({share[h], Max({-diff - Before(h), 0})})]

-----------------------------------------------------------------------------
(* A request: work items and the profiles of the available servers. *)

Occupied(h) == Min({profile'[h].running, profile'[h].limit})

SlotSet == UNION {{h} \X (0 .. profile'[h].limit - 1) : h \in Machines}

(* A slot in use is free after its share of an average task, rounded up: *)
(* a time that is not 0 in the code is not 0 here.                       *)
EarliestFree ==
    [s \in SlotSet |->
        LET h == s[1]  occ == Occupied(h)
        IN  IF s[2] < occ
            THEN (10 * (AverageTask * profile'[h].rtf + Overhead) * (occ - s[2]) + occ - 1) \div occ
            ELSE 0]

Jobs(n) == [1 .. n -> [dur: Durations, segment: BOOLEAN]]

Request ==
    /\ profile = << >>
    /\ profile' \in [Machines -> Profiles]
    /\ \E n \in 1 .. MaxBatch : \E jobs \in Jobs(n) :
         /\ left' = {[n |-> k, dur |-> jobs[k].dur, segment |-> jobs[k].segment] : k \in 1 .. n}
         /\ quota' = Quotas(n)
    /\ freeAt' = EarliestFree
    /\ given' = [h \in Machines |-> 0]
    /\ UNCHANGED decided

(* The longest by its best estimate, and the first of those in the batch. *)
Longest == CHOOSE j \in left : \A k \in left :
             Best(j) > Best(k) \/ (Best(j) = Best(k) /\ j.n <= k.n)

OnHost(S, H)  == {s \in S : s[1] \in H}
WithinQuota   == {s \in DOMAIN freeAt : given[s[1]] < quota[s[1]]}
UsedBySegments == {d.on : d \in Segmented(decided)}

(* A segment prefers a server its task does not use yet, within the quotas *)
(* if there is one, and beyond them otherwise.                             *)
Eligible(j) ==
    LET quotaSlots == IF WithinQuota # {} THEN WithinQuota ELSE DOMAIN freeAt
        fresh      == OnHost(quotaSlots, Machines \ UsedBySegments)
        freshAny   == OnHost(DOMAIN freeAt, Machines \ UsedBySegments)
    IN  CASE j.segment /\ fresh # {}    -> fresh
          [] j.segment /\ fresh = {} /\ freshAny # {} -> freshAny
          [] OTHER                      -> quotaSlots

Finish(j, s) == freeAt[s] + Estimate(j, s[1])
Earlier(s, r)  == s[1] < r[1] \/ (s[1] = r[1] /\ s[2] <= r[2])

BestSlot(j, S) == CHOOSE s \in S : \A r \in S :
                    Finish(j, s) < Finish(j, r) \/ (Finish(j, s) = Finish(j, r) /\ Earlier(s, r))

Place ==
    /\ left # {}
    /\ LET j == Longest
           s == BestSlot(j, Eligible(j))
       IN  /\ decided' = decided \cup {[n |-> j.n, on |-> s[1], slot |-> s[2],
                                        start |-> freeAt[s], segment |-> j.segment]}
           /\ freeAt' = [freeAt EXCEPT ![s] = Finish(j, s)]
           /\ given' = [given EXCEPT ![s[1]] = @ + 1]
           /\ left' = left \ {j}
    /\ UNCHANGED <<profile, quota>>

BatchNext == Request \/ Place
BatchSpec == BatchInit /\ [][BatchNext]_batchVars

-----------------------------------------------------------------------------
(* Properties. *)

Answered    == profile # << >> /\ left = {}
DecidedOn(h) == {d \in decided : d.on = h}

(* The quotas share out the batch exactly, over any rounding and although    *)
(* segments may be placed beyond them, so that some server is always below   *)
(* its quota while work is left: the code's fallback to all slots is unused. *)
QuotaLeftForRest ==
    /\ Total(quota) - Total(given) = Cardinality(left)
    /\ \A h \in DOMAIN quota : quota[h] >= 0
    /\ left # {} => WithinQuota # {}

(* Of a server's items as many start at once as it has free slots for them. *)
FreeSlotsUsed ==
    \A h \in Machines :
        Cardinality({d \in DecidedOn(h) : d.start = 0})
            = Min({Cardinality(DecidedOn(h)), Max({profile[h].limit - profile[h].running, 0})})

(* Two segments of a task share a server only when it has some on every server. *)
SegmentsSpread ==
    UsedBySegments = Machines \/ \A d, e \in Segmented(decided) : d.on = e.on => d = e

(* The answer is a plan as the plan pool expects it: every item is placed    *)
(* once, a server is asked to start at once what it has free slots for, no   *)
(* more and no less, and segments are spread, for any rounding of the quotas. *)
AnswerIsPlan ==
    /\ QuotaLeftForRest
    /\ Answered => /\ FreeSlotsUsed /\ SegmentsSpread
                   /\ \A d, e \in decided : d.n = e.n => d = e

=============================================================================
