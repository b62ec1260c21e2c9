---------------------------- MODULE Preprocessing ----------------------------
(***************************************************************************)
(* From PREPROCESSING to QUEUED: runners claim the tasks that wait, cut    *)
(* the audio of each into segment files, record the segments and promote   *)
(* the task.  A claim is the column started_at; one older than five        *)
(* minutes, or found at start-up, is released, whoever holds it.  Runners  *)
(* crash, and tasks are canceled and deleted, at any step.                 *)
(*                                                                         *)
(* Every task here is long enough to need segments; a short one is claimed *)
(* and promoted without the steps between.                                 *)
(***************************************************************************)
EXTENDS Integers, FiniteSets

CONSTANTS
    Jobs, Runners,
    MaxSplitRetry,   \* settings.max_retry_count
    MaxFaults        \* bound on crashes and on claims that grow old

ASSUME PreprocessingAssumption ==
    IsFiniteSet(Jobs) /\ IsFiniteSet(Runners) /\ MaxSplitRetry \in Nat /\ MaxFaults \in Nat

VARIABLES
    job,       \* the task rows: [st, claim, retry]
    rows,      \* the tasks that have segment rows
    files,     \* the tasks whose segment directory is published
    runner,    \* each runner: [pc, todo, at]
    faults

prepVars == <<job, rows, files, runner, faults>>

Waiting(j) == job[j].st = "PREPROCESSING"
Rest       == [pc |-> "rest", todo |-> {}, at |-> {}]

PrepInit ==
    /\ job = [j \in Jobs |-> [st |-> "PENDING", claim |-> "none", retry |-> 0]]
    /\ rows = {} /\ files = {}
    /\ runner = [r \in Runners |-> Rest]
    /\ faults = 0

Submit(j) ==
    /\ job[j].st = "PENDING"
    /\ job' = [job EXCEPT ![j].st = "PREPROCESSING"]
    /\ UNCHANGED <<rows, files, runner, faults>>

-----------------------------------------------------------------------------
(* The pass of a runner over the tasks that wait. *)

Claimable == {j \in Jobs : Waiting(j) /\ job[j].claim = "none"}
Old       == {j \in Jobs : Waiting(j) /\ job[j].claim = "old"}

(* Mutant: an old claim is never released. *)
KeepOldClaims(r) == UNCHANGED job /\ FALSE

(* The update at the head of a pass commits on its own. *)
ReleaseOldClaims(r) ==
    /\ runner[r].pc = "rest" /\ Old # {}
    /\ job' = [j \in Jobs |-> IF j \in Old THEN [job[j] EXCEPT !.claim = "none"] ELSE job[j]]
    /\ UNCHANGED <<rows, files, runner, faults>>

Claim(r) ==
    /\ runner[r].pc = "rest" /\ Claimable # {}
    /\ job' = [j \in Jobs |-> IF j \in Claimable THEN [job[j] EXCEPT !.claim = "fresh"] ELSE job[j]]
    /\ runner' = [runner EXCEPT ![r] = [pc |-> "next", todo |-> Claimable, at |-> {}]]
    /\ UNCHANGED <<rows, files, faults>>

Goes(r, pc) == runner' = [runner EXCEPT ![r].pc = pc]
Works(r, pc, j) == runner[r].pc = pc /\ runner[r].at = {j}

(* The claimed tasks are processed one after the other, without a look at *)
(* what has become of them; a task that has segments keeps them.          *)
TakeNext(r, j) ==
    /\ runner[r].pc = "next" /\ j \in runner[r].todo
    /\ runner' = [runner EXCEPT ![r] = [pc |-> IF j \in rows THEN "promote" ELSE "split",
                                        todo |-> @.todo \ {j}, at |-> {j}]]
    /\ UNCHANGED <<job, rows, files, faults>>

PassDone(r) ==
    /\ runner[r].pc = "next" /\ runner[r].todo = {}
    /\ runner' = [runner EXCEPT ![r] = Rest]
    /\ UNCHANGED <<job, rows, files, faults>>

(* Mutant: when splitting fails the task is promoted as it is. *)
SplitOrNot(r, j) ==
    /\ Works(r, "split", j) /\ (Goes(r, "clear") \/ Goes(r, "promote"))
    /\ UNCHANGED <<job, rows, files, faults>>

(* Conversion, silence detection, planning and splitting, into a directory of *)
(* the runner's own; any of them may fail.                                    *)
SplitAudio(r, j) ==
    /\ Works(r, "split", j) /\ (Goes(r, "clear") \/ Goes(r, "failed"))
    /\ UNCHANGED <<job, rows, files, faults>>

ClearStale(r, j) ==
    /\ Works(r, "clear", j) /\ Goes(r, "publish")
    /\ files' = files \ {j}
    /\ UNCHANGED <<job, rows, faults>>

(* The rename fails when another runner has published meanwhile. *)
Publish(r, j) ==
    /\ Works(r, "publish", j)
    /\ Goes(r, IF j \in files THEN "failed" ELSE "insert")
    /\ files' = files \cup {j}
    /\ UNCHANGED <<job, rows, faults>>

(* One set of rows, whoever comes first; the database may refuse. *)
InsertRows(r, j) ==
    /\ Works(r, "insert", j)
    /\ \/ Goes(r, "promote") /\ rows' = rows \cup {j}
       \/ j \notin rows /\ Goes(r, "failed") /\ UNCHANGED rows
    /\ UNCHANGED <<job, files, faults>>

Promotable == {"PREPROCESSING", "FAILED"}

Promote(r, j) ==
    /\ Works(r, "promote", j) /\ Goes(r, "next")
    /\ job' = IF job[j].st \in Promotable
              THEN [job EXCEPT ![j] = [st |-> "QUEUED", claim |-> "none", retry |-> @.retry]]
              ELSE job
    /\ UNCHANGED <<rows, files, faults>>

(* _handle_segmentation_failure: another attempt, then FAILED, whatever the *)
(* status has become meanwhile.                                             *)
GiveUpOrRetry(r, j) ==
    /\ Works(r, "failed", j) /\ Goes(r, "next")
    /\ CASE job[j].st = "GONE" -> UNCHANGED job
         [] job[j].st # "GONE" /\ job[j].retry < MaxSplitRetry ->
              job' = [job EXCEPT ![j].claim = "none", ![j].retry = @ + 1]
         [] job[j].st \in {"PREPROCESSING", "QUEUED"} /\ job[j].retry = MaxSplitRetry ->
              job' = [job EXCEPT ![j].claim = "none", ![j].st = "FAILED"]
         [] OTHER -> job' = [job EXCEPT ![j].claim = "none"]
    /\ UNCHANGED <<rows, files, faults>>

-----------------------------------------------------------------------------
(* Faults and requests. *)

ClaimGrowsOld(j) ==
    /\ Waiting(j) /\ job[j].claim = "fresh"
    /\ \/ faults < MaxFaults /\ faults' = faults + 1
       \/ (\A r \in Runners : j \notin runner[r].todo \cup runner[r].at) /\ UNCHANGED faults
    /\ job' = [job EXCEPT ![j].claim = "old"]
    /\ UNCHANGED <<rows, files, runner>>

Crash(r) ==
    /\ runner[r].pc \notin {"rest", "down"} /\ faults < MaxFaults
    /\ runner' = [runner EXCEPT ![r] = [Rest EXCEPT !.pc = "down"]]
    /\ faults' = faults + 1
    /\ UNCHANGED <<job, rows, files>>

(* Start-up releases every claim, those of other runners too. *)
StartUp(r) ==
    /\ runner[r].pc = "down"
    /\ runner' = [runner EXCEPT ![r] = Rest]
    /\ job' = [j \in Jobs |-> IF Waiting(j) THEN [job[j] EXCEPT !.claim = "none"] ELSE job[j]]
    /\ UNCHANGED <<rows, files, faults>>

(* DELETE also removes the segment rows there are. *)
CancelOrDelete(j, st) ==
    /\ job[j].st \in {"PREPROCESSING", "QUEUED"} /\ faults < MaxFaults
    /\ job' = [job EXCEPT ![j].st = st]
    /\ rows' = IF st = "GONE" THEN rows \ {j} ELSE rows
    /\ faults' = faults + 1
    /\ UNCHANGED <<files, runner>>

-----------------------------------------------------------------------------
PassStep(r) ==
    \/ ReleaseOldClaims(r) \/ Claim(r) \/ PassDone(r)
    \/ \E j \in Jobs : \/ TakeNext(r, j) \/ SplitAudio(r, j) \/ ClearStale(r, j) \/ Publish(r, j)
                       \/ InsertRows(r, j) \/ Promote(r, j) \/ GiveUpOrRetry(r, j)

PrepNext ==
    \/ \E r \in Runners : PassStep(r) \/ Crash(r) \/ StartUp(r)
    \/ \E j \in Jobs : Submit(j) \/ ClaimGrowsOld(j) \/ \E st \in {"CANCELED", "GONE"} : CancelOrDelete(j, st)

(* The loop of a runner that is up goes on, and five minutes pass.  A runner *)
(* that has crashed need not be started again, as long as another is up.     *)
PrepFairness ==
    /\ \A r \in Runners : WF_prepVars(PassStep(r))
    /\ \A j \in Jobs : WF_prepVars(ClaimGrowsOld(j))

PrepSpec == PrepInit /\ [][PrepNext]_prepVars /\ PrepFairness

-----------------------------------------------------------------------------
(* Properties. *)

PrepTypeOK ==
    /\ job \in [Jobs -> [st: {"PENDING", "PREPROCESSING", "QUEUED", "FAILED", "CANCELED", "GONE"},
                         claim: {"none", "fresh", "old"}, retry: 0 .. MaxSplitRetry]]
    /\ rows \subseteq Jobs /\ files \subseteq Jobs
    /\ runner \in [Runners -> [pc: {"rest", "next", "split", "clear", "publish", "insert",
                                    "promote", "failed", "down"},
                               todo: SUBSET Jobs, at: SUBSET Jobs]]

(* A long recording is queued only when its segments are recorded, over    *)
(* failures, crashes, and a claim another runner holds too: it would be     *)
(* sent to a recognizer as one file and time out.                           *)
LongOnlyAsSegments == \A j \in Jobs : job[j].st = "QUEUED" => j \in rows

(* A runner that is about to promote a task has seen its rows, unless the   *)
(* task was deleted meanwhile.                                              *)
PromotedWithRows ==
    \A r \in Runners, j \in Jobs : Works(r, "promote", j) => j \in rows \/ job[j].st = "GONE"

(* A task does not stay in preprocessing while some runner is up, whichever *)
(* runner held its claim when it crashed.                                   *)
LeavesPreprocessing ==
    (<>[]\E r \in Runners : runner[r].pc # "down") =>
        \A j \in Jobs : Waiting(j) ~> ~Waiting(j)

=============================================================================
