------------------------------ MODULE EventStream ------------------------------
(***************************************************************************)
(* The stream of events a client watches a task by.  Once a second it      *)
(* reads the task and tells what is new; the task goes its way in between. *)
(*                                                                         *)
(* The task's way is that of module TaskLifecycle, with its retries; late  *)
(* results that bring a canceled task back are left to module TaskRunner.  *)
(***************************************************************************)
EXTENDS Integers

CONSTANTS
    RetryLimit,      \* settings.max_retry_count
    MaxProgress      \* values progress takes while the task is TRANSCRIBING

ASSUME EventStreamAssumption == RetryLimit \in Nat /\ MaxProgress \in Nat

VARIABLES
    task,            \* the row: [st, tries, progress, hopeless]
    stream,          \* "closed", "open" or how it ended
    told             \* last_status and last_progress; history: the task's tries then

eventVars == <<task, stream, told>>

EventInit ==
    /\ task = [st |-> "PREPROCESSING", tries |-> 0, progress |-> 0, hopeless |-> FALSE]
    /\ stream = "closed"
    /\ told = [st |-> "nothing", progress |-> 0, tries |-> 0]

-----------------------------------------------------------------------------
(* The task.  Progress counts the time since it started. *)

TaskGoes(from, to) ==
    /\ stream # "closed" /\ task.st \in from
    /\ task' = [task EXCEPT !.st = to, !.progress = 0] /\ UNCHANGED <<stream, told>>

TaskDispatched   == TaskGoes({"QUEUED"}, "DISPATCHED")
TaskTranscribing == TaskGoes({"DISPATCHED"}, "TRANSCRIBING")
TaskQueued       == TaskGoes({"PREPROCESSING", "DISPATCHED", "TRANSCRIBING"}, "QUEUED")
TaskSucceeds     == TaskGoes({"QUEUED", "DISPATCHED", "TRANSCRIBING"}, "SUCCEEDED")
TaskCanceled     == TaskGoes({"PREPROCESSING", "QUEUED", "DISPATCHED", "TRANSCRIBING"}, "CANCELED")
TaskDeleted      == TaskGoes({"PREPROCESSING", "QUEUED", "SUCCEEDED", "FAILED", "CANCELED"}, "deleted")

TaskProgresses ==
    /\ task.st = "TRANSCRIBING" /\ task.progress < MaxProgress
    /\ task' = [task EXCEPT !.progress = @ + 1] /\ UNCHANGED <<stream, told>>

(* Some failures of a task in segments are not retried. *)
TaskFails ==
    /\ stream # "closed" /\ task.st \in {"PREPROCESSING", "QUEUED", "DISPATCHED", "TRANSCRIBING"}
    /\ \E h \in BOOLEAN : task' = [task EXCEPT !.st = "FAILED", !.progress = 0, !.hopeless = h]
    /\ UNCHANGED <<stream, told>>

TaskRetried ==
    /\ task.st = "FAILED" /\ task.tries < RetryLimit /\ ~task.hopeless
    /\ \E st \in {"QUEUED", "TRANSCRIBING"} : task' = [task EXCEPT !.st = st, !.tries = @ + 1]
    /\ UNCHANGED <<stream, told>>

-----------------------------------------------------------------------------
(* The stream. *)

OpenStream ==
    /\ stream = "closed" /\ stream' = "open" /\ UNCHANGED <<task, told>>

(* Mutant: a failure ends the stream. *)
AnyFailureEnds == task.st \in {"SUCCEEDED", "CANCELED", "FAILED"}

EndsStream ==
    \/ task.st \in {"SUCCEEDED", "CANCELED"}
    \/ task.st = "FAILED" /\ task.tries >= RetryLimit

(* One poll.  What ends the task is only noticed when something is new. *)
PollTask ==
    /\ stream = "open" /\ UNCHANGED task
    /\ \/ task.st = "deleted" /\ stream' = "no such task" /\ UNCHANGED told
       \/ /\ task.st # "deleted" /\ <<task.st, task.progress>> # <<told.st, told.progress>>
          /\ told' = [st |-> task.st, progress |-> task.progress, tries |-> task.tries]
          /\ stream' = IF EndsStream THEN "complete" ELSE "open"

(* The reader leaves, the database fails, or the hour is over. *)
StreamBreaks ==
    /\ stream = "open" /\ stream' \in {"left", "error", "timeout"} /\ UNCHANGED <<task, told>>

EventNext ==
    \/ TaskDispatched \/ TaskTranscribing \/ TaskQueued \/ TaskSucceeds \/ TaskCanceled \/ TaskDeleted
    \/ TaskProgresses \/ TaskFails \/ TaskRetried
    \/ OpenStream \/ PollTask \/ StreamBreaks

(* The stream polls; a failed task is retried. *)
EventFairness == WF_eventVars(PollTask) /\ WF_eventVars(TaskRetried)

EventSpec == EventInit /\ [][EventNext]_eventVars /\ EventFairness

-----------------------------------------------------------------------------
(* Properties. *)

(* A last failure that looks like one that was told before it was retried. *)
LooksTold == task.st = "FAILED" /\ told.tries < task.tries

(* A stream that does not break off tells the status the task stays in, and  *)
(* completes when that is its end: it neither says a task is over that is to *)
(* be tried again, nor misses an end that came between two polls.  One end   *)
(* the code does miss: a retry that fails before the next poll leaves what   *)
(* was told, a failure, unchanged, and the stream stays open.                *)
EndIsTold ==
    \A st \in {"SUCCEEDED", "FAILED", "CANCELED"} :
        <>[](task.st = st /\ stream \in {"open", "complete"})
            => <>[](told.st = st /\ (EndsStream => stream = "complete" \/ LooksTold))

=============================================================================
