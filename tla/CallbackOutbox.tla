--------------------------- MODULE CallbackOutbox ---------------------------
(***************************************************************************)
(* The delivery of callbacks.  A record is written in the transaction that *)
(* ends its task.  Two deliverers work on it: the coroutine that has just  *)
(* committed it tries once, and the runner's loop retries what is pending. *)
(* Each works on the retry_count it has read, and writes only the columns  *)
(* it has changed.                                                         *)
(***************************************************************************)
EXTENDS Integers

CONSTANTS
    Records,
    MaxRetries,    \* MAX_CALLBACK_RETRIES
    MaxRestarts    \* bound on process restarts

ASSUME OutboxAssumption ==
    /\ MaxRetries \in Nat \ {0}
    /\ MaxRestarts \in Nat

VARIABLES
    status, retries,   \* the callback_outbox table
    work,              \* what each deliverer is doing with each record
    tries,             \* POSTs made
    reached,           \* records whose POST has reached the owner
    restarts

vars == <<status, retries, work, tries, reached, restarts>>

Status    == {"NONE", "PENDING", "SENT", "FAILED"}
Deliverer == {"now", "loop"}

(* What deliver_callback makes of the owner's answer. *)
Reply == {"ok", "error"}
Work  == [at: {"no", "due", "post", "store"}, seen: 0 .. MaxRetries - 1, reply: Reply]
NoWork == [at |-> "no", seen |-> 0, reply |-> "error"]

Init ==
    /\ status = [r \in Records |-> "NONE"]
    /\ retries = [r \in Records |-> 0]
    /\ work = [d \in Deliverer |-> [r \in Records |-> NoWork]]
    /\ tries = [r \in Records |-> 0]
    /\ reached = {}
    /\ restarts = 0

-----------------------------------------------------------------------------
At(d, r, pc)  == work[d][r].at = pc
Working(d, S) == work' = [work EXCEPT ![d] = [r \in Records |->
                            IF r \in S THEN [at |-> "post", seen |-> retries[r], reply |-> "error"]
                            ELSE @[r]]]

(* The task's transaction; its coroutine goes on to try_deliver. *)
Enqueue(r) ==
    /\ status[r] = "NONE"
    /\ status' = [status EXCEPT ![r] = "PENDING"]
    /\ work' = [work EXCEPT !["now"][r].at = "due"]
    /\ UNCHANGED <<retries, tries, reached, restarts>>

TryDeliver(r) ==
    /\ At("now", r, "due")
    /\ IF status[r] = "PENDING" THEN Working("now", {r})
       ELSE work' = [work EXCEPT !["now"][r] = NoWork]
    /\ UNCHANGED <<status, retries, tries, reached, restarts>>

Pending == {r \in Records : status[r] = "PENDING" /\ retries[r] < MaxRetries}

(* One batch at a time; its records are not read again before they are sent. *)
RetryPending ==
    /\ \A r \in Records : At("loop", r, "no")
    /\ Pending # {}
    /\ Working("loop", Pending)
    /\ UNCHANGED <<status, retries, tries, reached, restarts>>

(* The owner answers, the answer is lost, or nothing arrives. *)
Post(d, r) ==
    /\ At(d, r, "post")
    /\ d = "loop" => \A q \in Records : ~At("loop", q, "store")
    /\ \E reply \in Reply :
         /\ work' = [work EXCEPT ![d][r].at = "store", ![d][r].reply = reply]
         /\ reached' = reached \cup {r} \/ (reply = "error" /\ UNCHANGED reached)
    /\ tries' = [tries EXCEPT ![r] = @ + 1]
    /\ UNCHANGED <<status, retries, restarts>>

LastButOne(n) == n + 1 >= MaxRetries      \* mutant: off by one
PastLast(n)   == n > MaxRetries           \* mutant: off by one, the other way
FinalTry(n)   == n >= MaxRetries

(* Mutant: the record is SENT whatever the owner answers. *)
StoreSent(d, r) ==
    /\ At(d, r, "store")
    /\ status' = [status EXCEPT ![r] = "SENT"]
    /\ work' = [work EXCEPT ![d][r] = NoWork]
    /\ UNCHANGED <<retries, tries, reached, restarts>>

(* The retry_count written is the one read plus one, whatever it is by now. *)
Store(d, r) ==
    /\ At(d, r, "store")
    /\ LET count == work[d][r].seen + 1 IN
       IF work[d][r].reply = "ok"
       THEN status' = [status EXCEPT ![r] = "SENT"] /\ UNCHANGED retries
       ELSE /\ retries' = [retries EXCEPT ![r] = count]
            /\ status' = IF FinalTry(count) THEN [status EXCEPT ![r] = "FAILED"] ELSE status
    /\ work' = [work EXCEPT ![d][r] = NoWork]
    /\ UNCHANGED <<tries, reached, restarts>>

Restart ==
    /\ restarts < MaxRestarts
    /\ restarts' = restarts + 1
    /\ work' = [d \in Deliverer |-> [r \in Records |-> NoWork]]
    /\ UNCHANGED <<status, retries, tries, reached>>

LoopStep   == RetryPending \/ \E r \in Records : Post("loop", r) \/ Store("loop", r)
NowStep(r) == TryDeliver(r) \/ Post("now", r) \/ Store("now", r)

Next ==
    \/ LoopStep \/ Restart
    \/ \E r \in Records : Enqueue(r) \/ NowStep(r)

Spec == Init /\ [][Next]_vars

(* The event loop serves both deliverers: a POST ends within its timeout. *)
Fairness == WF_vars(LoopStep) /\ \A r \in Records : WF_vars(NowStep(r))

FairSpec == Spec /\ Fairness
-----------------------------------------------------------------------------
(* Properties. *)

(* A record is read for delivery only while it has attempts left. *)
TypeOK ==
    /\ status \in [Records -> Status]
    /\ retries \in [Records -> 0 .. MaxRetries]
    /\ work \in [Deliverer -> [Records -> Work]]
    /\ tries \in [Records -> Nat]
    /\ reached \subseteq Records
    /\ restarts \in 0 .. MaxRestarts

(* SENT is never written for a callback that did not reach the owner, by *)
(* either deliverer, whichever of them writes last.                      *)
SentWasReceived == \A r \in Records : status[r] = "SENT" => r \in reached

(* A callback is given up only after MAX_CALLBACK_RETRIES attempts, although *)
(* both deliverers write the count they have read.                           *)
GivenUpAfterAllTries ==
    \A r \in Records : status[r] = "FAILED" => tries[r] >= MaxRetries

(* Every callback that is written is delivered or given up in the end: no *)
(* crash and no lost count leaves it pending.                             *)
CallbacksSettle == \A r \in Records : status[r] = "PENDING" ~> status[r] \in {"SENT", "FAILED"}

=============================================================================
