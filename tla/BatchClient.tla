------------------------------ MODULE BatchClient ------------------------------
(***************************************************************************)
(* The command line on a batch of files: transcribe uploads those that     *)
(* exist, creates one group of tasks, polls the group until every task is  *)
(* over, downloads the results and reports on each file; of one file, it   *)
(* waits for its task alone.  Another user may wait for the group with     *)
(* "task wait --group".  The service goes on meanwhile: failed tasks are   *)
(* tried again, and tasks may be canceled or deleted.                      *)
(*                                                                         *)
(* Left out: which file a result is written to, and --no-wait, which ends  *)
(* after the tasks are created.                                            *)
(***************************************************************************)
EXTENDS Integers, FiniteSets

CONSTANTS
    Inputs,          \* the files given
    RetryAgain       \* settings.max_retry_count

ASSUME BatchClientAssumption == IsFiniteSet(Inputs) /\ RetryAgain \in Nat

VARIABLES
    jobs,             \* the tasks: [st, tries]; "none" before they are created
    cli,             \* transcribe: where it is, and its exit code
    existing,        \* the files given that exist
    one,             \* whether it runs on one file alone: _run_single
    sent,            \* what became of each upload: "no", "yes" or "failed"
    seen,            \* `completed`: the status each task was seen to end with
    report,          \* what is reported of each file
    waiter           \* task wait --group

batchVars == <<jobs, cli, existing, one, sent, seen, report, waiter>>

BatchClientInit ==
    /\ jobs = [f \in Inputs |-> [st |-> "none", tries |-> 0]]
    /\ cli = [pc |-> "begin", exit |-> 0] /\ existing = {} /\ one = FALSE
    /\ sent = [f \in Inputs |-> "no"]
    /\ seen = [f \in Inputs |-> "none"] /\ report = [f \in Inputs |-> "none"]
    /\ waiter = "away"

Uploaded == {f \in Inputs : sent[f] = "yes"}
InGroup  == {f \in Inputs : jobs[f].st \notin {"none", "deleted"}}
Exit(code) == cli' = [pc |-> "done", exit |-> code]

-----------------------------------------------------------------------------
(* The service. *)

(* Mutant: a task that has failed is over. *)
FailedIsOver(f) == jobs[f].st \in {"SUCCEEDED", "CANCELED", "FAILED"}

(* is_terminal of the task's representation. *)
IsTerminal(f) ==
    \/ jobs[f].st \in {"SUCCEEDED", "CANCELED"}
    \/ jobs[f].st = "FAILED" /\ jobs[f].tries >= RetryAgain

JobEnds(f) ==
    /\ jobs[f].st = "going"
    /\ \E st \in {"SUCCEEDED", "FAILED", "CANCELED"} : jobs' = [jobs EXCEPT ![f].st = st]
    /\ UNCHANGED <<cli, existing, one, sent, seen, report, waiter>>

JobRetried(f) ==
    /\ jobs[f].st = "FAILED" /\ jobs[f].tries < RetryAgain
    /\ jobs' = [jobs EXCEPT ![f] = [st |-> "going", tries |-> @.tries + 1]]
    /\ UNCHANGED <<cli, existing, one, sent, seen, report, waiter>>

(* delete_task_group leaves the tasks that are being worked on, not those *)
(* that wait.                                                             *)
GroupDeleted ==
    /\ \E kept \in SUBSET {f \in InGroup : jobs[f].st = "going"} :
         jobs' = [f \in Inputs |-> IF f \in InGroup \ kept THEN [jobs[f] EXCEPT !.st = "deleted"] ELSE jobs[f]]
    /\ UNCHANGED <<cli, existing, one, sent, seen, report, waiter>>

(* _group_stats. *)
IsComplete == \A f \in InGroup : jobs[f].st \in {"SUCCEEDED", "FAILED", "CANCELED"}

-----------------------------------------------------------------------------
(* transcribe. *)

(* Files that do not exist are dropped without a word.  One file may be run *)
(* as a batch, several always are.                                          *)
Begin ==
    /\ cli.pc = "begin" /\ existing' \in SUBSET Inputs
    /\ \/ existing' = {} /\ Exit(1) /\ UNCHANGED one
       \/ /\ existing' # {} /\ cli' = [cli EXCEPT !.pc = "upload"]
          /\ one' \in {FALSE, Cardinality(existing') = 1}
    /\ UNCHANGED <<jobs, sent, seen, report, waiter>>

Upload(f) ==
    /\ ~one /\ cli.pc = "upload" /\ f \in existing /\ sent[f] = "no"
    /\ \E how \in {"yes", "failed"} : sent' = [sent EXCEPT ![f] = how]
    /\ UNCHANGED <<jobs, cli, existing, one, seen, report, waiter>>

(* One request; its answer, that it failed, may be wrong. *)
CreateBatch ==
    /\ ~one /\ cli.pc = "upload" /\ \A f \in existing : sent[f] # "no"
    /\ LET made == [f \in Inputs |-> [st |-> IF f \in Uploaded THEN "going" ELSE "none", tries |-> 0]] IN
       \/ Uploaded # {} /\ jobs' = made /\ cli' = [cli EXCEPT !.pc = "poll"]
       \/ jobs' \in {jobs, made} /\ Exit(1)
    /\ UNCHANGED <<existing, one, sent, seen, report, waiter>>

(* A task that was seen to end is not looked at again. *)
PollGroup ==
    /\ cli.pc = "poll" /\ InGroup # {}
    /\ seen' = [f \in Inputs |-> IF seen[f] = "none" /\ f \in InGroup /\ IsTerminal(f) THEN jobs[f].st ELSE seen[f]]
    /\ cli' = IF \A f \in Uploaded : seen'[f] # "none" THEN [cli EXCEPT !.pc = "download"] ELSE cli
    /\ UNCHANGED <<jobs, existing, one, sent, report, waiter>>

(* Polls that fail are repeated, until the time is up. *)
TimeUp ==
    /\ cli.pc = "poll" /\ cli' = [cli EXCEPT !.pc = "download"]
    /\ UNCHANGED <<jobs, existing, one, sent, seen, report, waiter>>

Download(f) ==
    /\ cli.pc = "download" /\ seen[f] = "SUCCEEDED" /\ report[f] = "none"
    /\ \/ f \in InGroup /\ report' = [report EXCEPT ![f] = "SUCCEEDED"]
       \/ report' = [report EXCEPT ![f] = "DOWNLOAD_FAILED"]
    /\ UNCHANGED <<jobs, cli, existing, one, sent, seen, waiter>>

(* Downloads that fail are reported, but do not count for the exit code. *)
Code == IF (\E f \in Uploaded : seen[f] # "SUCCEEDED") \/ Uploaded # existing THEN 1 ELSE 0

Report ==
    /\ cli.pc = "download" /\ \A f \in existing : seen[f] = "SUCCEEDED" => report[f] # "none"
    /\ report' = [f \in Inputs |-> CASE f \in existing \ Uploaded -> "UPLOAD_FAILED"
                                     [] f \in Uploaded /\ seen[f] = "none" -> "TIMEOUT"
                                     [] seen[f] \in {"FAILED", "CANCELED"} -> seen[f]
                                     [] OTHER -> report[f]]
    /\ Exit(Code)
    /\ UNCHANGED <<jobs, existing, one, sent, seen, waiter>>

-----------------------------------------------------------------------------
(* transcribe, of one file: every error ends it with 1. *)

UploadOne(f) ==
    /\ one /\ cli.pc = "upload" /\ f \in existing
    /\ UNCHANGED <<jobs, existing, one, seen, report, waiter>>
    /\ \/ sent' = [sent EXCEPT ![f] = "yes"] /\ cli' = [cli EXCEPT !.pc = "create"]
       \/ sent' = [sent EXCEPT ![f] = "failed"] /\ Exit(1)

CreateOne ==
    /\ cli.pc = "create" /\ UNCHANGED <<existing, one, sent, seen, report, waiter>>
    /\ LET made == [f \in Inputs |-> [st |-> IF f \in Uploaded THEN "going" ELSE "none", tries |-> 0]] IN
       \/ jobs' = made /\ cli' = [cli EXCEPT !.pc = "wait"]
       \/ jobs' \in {jobs, made} /\ Exit(1)

(* wait_for_task looks at the status, not at is_terminal: what is tried again *)
(* is given up.  A poll that fails, a deleted task, and the time end it too.  *)
WaitForTask ==
    /\ cli.pc = "wait" /\ UNCHANGED <<jobs, existing, one, sent, seen, report, waiter>>
    /\ \/ \E f \in Uploaded : jobs[f].st = "SUCCEEDED" /\ cli' = [cli EXCEPT !.pc = "fetch"]
       \/ Exit(1)

FetchResult ==
    /\ cli.pc = "fetch" /\ UNCHANGED <<jobs, existing, one, sent, seen, waiter>>
    /\ \/ Uploaded \subseteq InGroup /\ Exit(0)
          /\ report' = [f \in Inputs |-> IF f \in Uploaded THEN "SUCCEEDED" ELSE report[f]]
       \/ Exit(1) /\ UNCHANGED report

-----------------------------------------------------------------------------
(* task wait --group. *)

BeginWait ==
    /\ waiter = "away" /\ InGroup # {} /\ waiter' = "waiting"
    /\ UNCHANGED <<jobs, cli, existing, one, sent, seen, report>>

WaitGroup ==
    /\ waiter = "waiting"
    /\ waiter' = IF InGroup = {} THEN "error" ELSE IF IsComplete THEN "complete" ELSE "waiting"
    /\ UNCHANGED <<jobs, cli, existing, one, sent, seen, report>>

WaitGivesUp ==
    /\ waiter = "waiting" /\ waiter' = "timeout"
    /\ UNCHANGED <<jobs, cli, existing, one, sent, seen, report>>

BatchClientNext ==
    \/ GroupDeleted \/ CreateBatch \/ PollGroup \/ TimeUp \/ Report
    \/ Begin \/ CreateOne \/ WaitForTask \/ FetchResult
    \/ BeginWait \/ WaitGroup \/ WaitGivesUp
    \/ \E f \in Inputs : JobEnds(f) \/ JobRetried(f) \/ Upload(f) \/ Download(f) \/ UploadOne(f)

BatchClientSpec == BatchClientInit /\ [][BatchClientNext]_batchVars

-----------------------------------------------------------------------------
(* Properties. *)

(* What transcribe reports stays true while the service goes on: a file it   *)
(* calls failed or canceled is not transcribed after all, and it exits with 0 *)
(* only when there was a file and every one was transcribed.  That speaks of  *)
(* the files that exist: one that was given and does not is dropped without a *)
(* report, and changes no exit code.                                          *)
ReportsStayTrue ==
    cli.pc = "done" =>
      /\ \A f \in Inputs : report[f] \in {"SUCCEEDED", "FAILED", "CANCELED"} => jobs[f].st \in {report[f], "deleted"}
      /\ cli.exit = 0 => existing # {} /\ \A f \in existing : jobs[f].st \in {"SUCCEEDED", "deleted"}

(* A group said to be complete has no task that goes on: "FAILED 仅在重试耗尽 *)
(* 后才是终态", and clients rely on it to stop watching, says README.md.      *)
CompleteIsFinal ==
    waiter = "complete" => \A f \in InGroup : IsTerminal(f)

=============================================================================
