--------------------------- MODULE CompletionProofs ---------------------------
(***************************************************************************)
(* What TLAPS proves of the end of a task: that the first merge of a long  *)
(* one is alone and announced once, for any number of segments, and what   *)
(* the outbox promises of the callbacks, for any records and any number of *)
(* attempts and restarts.                                                  *)
(***************************************************************************)
EXTENDS MergeLock, CallbackOutbox, FiniteSetTheorems, TLAPS

-----------------------------------------------------------------------------
(* MergeLock.  Until some caller has tried, there is but one lock; whoever  *)
(* takes it out of the table leaves a task that is over, and the locks made *)
(* afterwards protect callers that have nothing to merge.                   *)

CallerPc == {"away", "working", "call", "wait", "done"} \cup Inside
Merging  == Inside \ {"check"}

MergeTypeOK ==
    /\ taskStatus \in {"TRANSCRIBING", "SUCCEEDED", "FAILED", "CANCELED"}
    /\ table \in Nat /\ locks \in Nat /\ tried \in Nat /\ announced \in Nat
    /\ caller \in [Caller -> [pc: CallerPc, lock: Nat]]

(* A lock is held by one caller at a time. *)
Mutex ==
    \A c, d \in Caller :
        caller[c].pc \in Inside /\ caller[d].pc \in Inside /\ caller[c].lock = caller[d].lock => c = d

(* While the task is not over there is one lock, and it is in the table. *)
OneLock ==
    taskStatus = "TRANSCRIBING" =>
        /\ locks \in {0, 1} /\ table = locks
        /\ \A c \in Caller : caller[c].pc \in Inside \cup {"wait"} => caller[c].lock = 1

OneMerges == \A c, d \in Caller : caller[c].pc \in Merging /\ caller[d].pc \in Merging => c = d

(* Once a success is announced, nobody merges and the task is over. *)
AnnouncedLast ==
    \/ announced = 0
    \/ announced = 1 /\ taskStatus = "SUCCEEDED" /\ \A c \in Caller : caller[c].pc \notin Merging

FirstMerge == Mutex /\ OneLock /\ OneMerges /\ AnnouncedLast
MergeInv   == MergeTypeOK /\ (tried = 0 => FirstMerge)

LEMMA InitMerge == MergeInit => MergeInv
  BY DEF MergeInit, MergeInv, MergeTypeOK, CallerPc, Inside, Merging, FirstMerge,
         Mutex, OneLock, OneMerges, AnnouncedLast

-----------------------------------------------------------------------------
(* A caller that goes to another place, its lock unchanged. *)
LEMMA GoesShape ==
    ASSUME MergeTypeOK, NEW c \in Caller, NEW pc \in CallerPc, CallerGoes(c, pc)
    PROVE  /\ caller' \in [Caller -> [pc: CallerPc, lock: Nat]]
           /\ caller'[c].pc = pc /\ caller'[c].lock = caller[c].lock
           /\ \A d \in Caller : d # c => caller'[d] = caller[d]
  BY DEF MergeTypeOK, CallerGoes

(* A call that ends, the task being over, or one that goes on inside. *)
LEMMA GoesKeeps ==
    ASSUME MergeTypeOK, FirstMerge, NEW c \in Caller, NEW pc \in CallerPc, CallerGoes(c, pc),
           taskStatus' = taskStatus, announced' = announced, locks' = locks,
           table' = table \/ taskStatus # "TRANSCRIBING",
           pc \in Inside \cup {"wait"} => caller[c].pc \in Inside \cup {"wait"},
           pc \in Inside => caller[c].pc \in Inside,
           pc \in Merging => caller[c].pc \in Merging
    PROVE  FirstMerge'
<1>1. /\ caller'[c].pc = pc /\ caller'[c].lock = caller[c].lock
      /\ \A d \in Caller : d # c => caller'[d] = caller[d]
  BY GoesShape
<1>2. Mutex'
  BY <1>1 DEF FirstMerge, Mutex
<1>3. OneLock'
  BY <1>1 DEF FirstMerge, OneLock
<1>4. OneMerges'
  BY <1>1 DEF FirstMerge, OneMerges
<1>5. AnnouncedLast'
  BY <1>1 DEF FirstMerge, AnnouncedLast
<1> QED
  BY <1>2, <1>3, <1>4, <1>5 DEF FirstMerge

(* The one that merges ends with the task over. *)
LEMMA EndKeeps ==
    ASSUME MergeTypeOK, FirstMerge, NEW c \in Caller, caller[c].pc \in Merging, CallerGoes(c, "done"),
           taskStatus' # "TRANSCRIBING",
           announced' = announced \/ (announced' = announced + 1 /\ taskStatus' = "SUCCEEDED")
    PROVE  FirstMerge'
<1>1. /\ caller'[c].pc = "done"
      /\ \A d \in Caller : d # c => caller'[d] = caller[d]
  BY GoesShape DEF CallerPc
<1>2. announced = 0 /\ \A d \in Caller : caller'[d].pc \notin Merging
  BY <1>1 DEF FirstMerge, AnnouncedLast, OneMerges, Merging, Inside
<1>3. Mutex'
  BY <1>1 DEF FirstMerge, Mutex, Inside
<1> QED
  BY <1>2, <1>3 DEF FirstMerge, OneLock, OneMerges, AnnouncedLast

-----------------------------------------------------------------------------
LEMMA NextMerge == MergeInv /\ [MergeNext]_mergeVars => MergeInv'
<1> SUFFICES ASSUME MergeInv, [MergeNext]_mergeVars PROVE MergeInv'
  OBVIOUS
<1>0. MergeTypeOK /\ (tried = 0 => FirstMerge) /\ Tick \in Caller
  BY DEF MergeInv, Caller
<1>1. CASE RetryMerge
  <2>1. MergeTypeOK'
    BY <1>0, <1>1, GoesShape DEF RetryMerge, MergeTypeOK, CallerPc
  <2> QED
    BY <1>0, <1>1, <2>1 DEF RetryMerge, MergeInv, MergeTypeOK
<1>2. CASE CancelTask
  BY <1>0, <1>2 DEF CancelTask, MergeInv, MergeTypeOK, FirstMerge, Mutex, OneLock, OneMerges, AnnouncedLast
<1>3. ASSUME NEW c \in Caller, SegmentDone(c) PROVE MergeInv'
  BY <1>0, <1>3, GoesShape, GoesKeeps
     DEF SegmentDone, CallerAt, MergeInv, MergeTypeOK, CallerPc, Inside, Merging
<1>4. ASSUME NEW c \in Caller, GetLock(c) PROVE MergeInv'
  <2>1. /\ caller[c].pc = "call" /\ UNCHANGED <<taskStatus, tried, announced>>
        /\ caller' \in [Caller -> [pc: CallerPc, lock: Nat]] /\ table' \in Nat /\ locks' \in Nat
        /\ caller'[c].pc = "wait" /\ caller'[c].lock = table'
        /\ \A d \in Caller : d # c => caller'[d] = caller[d]
    BY <1>0, <1>4 DEF GetLock, CallerAt, MergeTypeOK, CallerPc
  <2>2. MergeTypeOK'
    BY <1>0, <2>1 DEF MergeTypeOK
  <2>3. ASSUME tried = 0 PROVE FirstMerge'
    <3>1. Mutex' /\ OneMerges' /\ AnnouncedLast'
      BY <1>0, <2>1, <2>3 DEF FirstMerge, Mutex, OneMerges, AnnouncedLast, Inside, Merging
    <3>2. OneLock'
      BY <1>0, <1>4, <2>1, <2>3 DEF FirstMerge, OneLock, GetLock
    <3> QED
      BY <3>1, <3>2 DEF FirstMerge
  <2> QED
    BY <1>0, <2>1, <2>2, <2>3 DEF MergeInv
<1>5. ASSUME NEW c \in Caller, Acquire(c) PROVE MergeInv'
  <2>1. /\ caller[c].pc = "wait" /\ CallerGoes(c, "check") /\ "check" \in CallerPc
        /\ UNCHANGED <<taskStatus, table, locks, tried, announced>>
        /\ \A d \in Caller : caller[d].lock = caller[c].lock => caller[d].pc \notin Inside
    BY <1>5 DEF Acquire, CallerAt, CallerPc, Inside
  <2>2. MergeTypeOK' /\ caller'[c].pc = "check" /\ caller'[c].lock = caller[c].lock
        /\ \A d \in Caller : d # c => caller'[d] = caller[d]
    BY <1>0, <2>1, GoesShape DEF MergeTypeOK
  <2>3. ASSUME tried = 0 PROVE FirstMerge'
    BY <1>0, <2>1, <2>2, <2>3 DEF FirstMerge, Mutex, OneLock, OneMerges, AnnouncedLast, Inside, Merging
  <2> QED
    BY <2>1, <2>2, <2>3 DEF MergeInv
<1>6. ASSUME NEW c \in Caller, Check(c) PROVE MergeInv'
  <2>1. CASE ~MayMerge
    BY <1>0, <1>6, <2>1, GoesShape, GoesKeeps
       DEF Check, CallerAt, MergeInv, MergeTypeOK, CallerPc, Inside, Merging
  <2>2. CASE MayMerge
    <3>1. /\ caller[c].pc = "check" /\ CallerGoes(c, "read") /\ "read" \in CallerPc
          /\ taskStatus = "TRANSCRIBING" /\ UNCHANGED <<taskStatus, table, locks, tried, announced>>
      BY <1>0, <1>6, <2>2 DEF Check, CallerAt, MayMerge, MergeTypeOK, CallerPc, Inside
    <3>2. MergeTypeOK' /\ caller'[c].pc = "read" /\ caller'[c].lock = caller[c].lock
          /\ \A d \in Caller : d # c => caller'[d] = caller[d]
      BY <1>0, <3>1, GoesShape DEF MergeTypeOK
    <3>3. ASSUME tried = 0 PROVE FirstMerge'
      <4>1. \A d \in Caller : caller[d].pc \in Inside => d = c
        BY <1>0, <3>1, <3>3 DEF FirstMerge, Mutex, OneLock, Inside
      <4> QED
        BY <1>0, <3>1, <3>2, <3>3, <4>1
           DEF FirstMerge, Mutex, OneLock, OneMerges, AnnouncedLast, Inside, Merging
    <3> QED
      BY <3>1, <3>2, <3>3 DEF MergeInv
  <2> QED
    BY <2>1, <2>2
<1>7. ASSUME NEW c \in Caller, ReadSegments(c) \/ MergeAndSave(c) \/ RereadTask(c) PROVE MergeInv'
  <2>1. /\ caller[c].pc \in Merging /\ UNCHANGED <<taskStatus, locks, tried, announced>>
        /\ \E pc \in Merging \cup {"done"} : CallerGoes(c, pc)
        /\ table' = table \/ (table' = 0 /\ taskStatus # "TRANSCRIBING")
    BY <1>7 DEF ReadSegments, MergeAndSave, RereadTask, Leave, CallerAt, Inside, Merging
  <2>2. PICK pc \in Merging \cup {"done"} : CallerGoes(c, pc)
    BY <2>1
  <2>3. pc \in CallerPc /\ Merging \subseteq Inside /\ "done" \notin Inside \cup {"wait"}
    BY DEF CallerPc, Merging, Inside
  <2>4. MergeTypeOK'
    BY <1>0, <2>1, <2>2, <2>3, GoesShape DEF MergeTypeOK
  <2>5. tried = 0 => FirstMerge'
    BY <1>0, <2>1, <2>2, <2>3, GoesKeeps
  <2> QED
    BY <2>1, <2>4, <2>5 DEF MergeInv
<1>8. ASSUME NEW c \in Caller, CommitSuccess(c) \/ StoreFailure(c) PROVE MergeInv'
  <2>1. /\ caller[c].pc \in Merging /\ CallerGoes(c, "done") /\ "done" \in CallerPc
        /\ table' = 0 /\ UNCHANGED <<locks, tried>>
        /\ taskStatus' \in {"SUCCEEDED", "FAILED", "CANCELED"}
        /\ announced' = announced \/ (announced' = announced + 1 /\ taskStatus' = "SUCCEEDED")
    BY <1>0, <1>8 DEF CommitSuccess, StoreFailure, Leave, CallerAt, Inside, Merging, CallerPc, MergeTypeOK
  <2>2. MergeTypeOK'
    BY <1>0, <2>1, GoesShape DEF MergeTypeOK
  <2>3. tried = 0 => FirstMerge'
    BY <1>0, <2>1, EndKeeps
  <2> QED
    BY <2>1, <2>2, <2>3 DEF MergeInv
<1>9. CASE UNCHANGED mergeVars
  BY <1>0, <1>9 DEF mergeVars, MergeInv, MergeTypeOK, FirstMerge, Mutex, OneLock, OneMerges, AnnouncedLast
<1> QED
  BY <1>1, <1>2, <1>3, <1>4, <1>5, <1>6, <1>7, <1>8, <1>9 DEF MergeNext

-----------------------------------------------------------------------------
LEMMA AtMostOne ==
    ASSUME NEW S, \A x, y \in S : x = y
    PROVE  Cardinality(S) <= 1
<1>1. CASE S = {}
  BY <1>1, FS_EmptySet
<1>2. CASE \E x \in S : TRUE
  <2>1. PICK x \in S : S = {x}
    BY <1>2
  <2> QED
    BY <2>1, FS_Singleton
<1> QED
  BY <1>1, <1>2

(* maybe_finalize: the first merge of a task is made by one caller alone and *)
(* is announced at most once, though callers take the lock out of the table  *)
(* while others wait for it.                                                 *)
THEOREM FirstAlone == MergeSpec => []FirstMergeAlone
<1>1. MergeInv => FirstMergeAlone
  <2> SUFFICES ASSUME FirstMerge, MergeTypeOK PROVE MergesAlone
    BY DEF MergeInv, FirstMergeAlone
  <2>1. Cardinality({c \in Caller : caller[c].pc \in Inside \ {"check"}}) <= 1
    BY AtMostOne DEF FirstMerge, OneMerges, Merging
  <2> QED
    BY <2>1 DEF MergesAlone, FirstMerge, AnnouncedLast
<1> QED
  BY <1>1, InitMerge, NextMerge, PTL DEF MergeSpec

-----------------------------------------------------------------------------
(* CallbackOutbox. *)

(* An open record has attempts left; a count, stored or about to be, is never *)
(* more than the attempts made; an answer waits only where the owner was      *)
(* reached, and SENT is written only for one.                                 *)
OpenHasTries   == \A r \in Records : status[r] \in {"NONE", "PENDING"} => retries[r] < MaxRetries
CountsAreTries ==
    \A r \in Records :
        /\ retries[r] <= tries[r]
        /\ \A d \in Deliverer : /\ At(d, r, "post") => work[d][r].seen <= tries[r]
                                /\ At(d, r, "store") => work[d][r].seen + 1 <= tries[r]
AnswersReached ==
    \A r \in Records, d \in Deliverer :
        At(d, r, "store") /\ work[d][r].reply = "ok" => r \in reached

OutboxInv == /\ TypeOK /\ OpenHasTries /\ CountsAreTries /\ AnswersReached
             /\ SentWasReceived /\ GivenUpAfterAllTries

LEMMA NoWorkType == NoWork \in Work
  BY OutboxAssumption DEF NoWork, Work, Reply

LEMMA InitInv == Init => OutboxInv
<1> SUFFICES ASSUME Init PROVE OutboxInv
  OBVIOUS
<1>1. TypeOK
  BY NoWorkType, OutboxAssumption DEF Init, TypeOK, Status
<1>2. \A r \in Records, d \in Deliverer : work[d][r] = NoWork
  BY DEF Init
<1>3. \A r \in Records : status[r] = "NONE" /\ retries[r] = 0 /\ tries[r] = 0
  BY DEF Init
<1>4. NoWork.at = "no"
  BY DEF NoWork
<1> QED
  BY <1>1, <1>2, <1>3, <1>4, OutboxAssumption
     DEF OutboxInv, OpenHasTries, CountsAreTries, AnswersReached, SentWasReceived,
         GivenUpAfterAllTries, At

(* A deliverer takes the records in S, which have attempts left. *)
LEMMA WorkingKeepsInv ==
    ASSUME OutboxInv, NEW d \in Deliverer, NEW S \in SUBSET Records,
           \A r \in S : retries[r] < MaxRetries, Working(d, S),
           UNCHANGED <<status, retries, tries, reached, restarts>>
    PROVE  OutboxInv'
<1> DEFINE taken(r) == [at |-> "post", seen |-> retries[r], reply |-> "error"]
<1>1. ASSUME NEW r \in S
      PROVE  taken(r) \in Work /\ taken(r).at = "post" /\ taken(r).seen = retries[r]
  <2>1. retries[r] \in 0 .. MaxRetries - 1
    BY OutboxAssumption DEF OutboxInv, TypeOK
  <2> QED
    BY <2>1 DEF Work, Reply
<1>2. \A e \in Deliverer, r \in Records :
        work'[e][r] = IF e = d /\ r \in S THEN taken(r) ELSE work[e][r]
  BY DEF Working, OutboxInv, TypeOK
<1>3. work' \in [Deliverer -> [Records -> Work]]
  <2>1. work' = [e \in Deliverer |-> IF e = d THEN [r \in Records |->
                   IF r \in S THEN taken(r) ELSE work[d][r]] ELSE work[e]]
    BY DEF Working, OutboxInv, TypeOK
  <2> HIDE DEF taken
  <2> QED
    BY <1>1, <2>1 DEF OutboxInv, TypeOK
<1> HIDE DEF taken
<1>4. TypeOK'
  BY <1>3 DEF OutboxInv, TypeOK
<1>5. CountsAreTries' /\ AnswersReached'
  BY <1>1, <1>2 DEF OutboxInv, CountsAreTries, AnswersReached, At
<1> QED
  BY <1>4, <1>5 DEF OutboxInv, OpenHasTries, SentWasReceived, GivenUpAfterAllTries

(* A deliverer is done with a record. *)
LEMMA Dropped ==
    ASSUME TypeOK, NEW d \in Deliverer, NEW r \in Records,
           work' = [work EXCEPT ![d][r] = NoWork]
    PROVE  /\ work' \in [Deliverer -> [Records -> Work]]
           /\ \A e \in Deliverer, q \in Records :
                work'[e][q] = IF e = d /\ q = r THEN NoWork ELSE work[e][q]
  BY NoWorkType DEF TypeOK

LEMMA NoWorkAt == NoWork.at = "no"
  BY DEF NoWork

LEMMA DroppedKeepsInv ==
    ASSUME OutboxInv, NEW d \in Deliverer, NEW r \in Records,
           work' = [work EXCEPT ![d][r] = NoWork],
           UNCHANGED <<status, retries, tries, reached, restarts>>
    PROVE  OutboxInv'
<1>1. TypeOK'
  BY Dropped DEF OutboxInv, TypeOK
<1>2. CountsAreTries' /\ AnswersReached'
  BY Dropped, NoWorkAt DEF OutboxInv, CountsAreTries, AnswersReached, At
<1> QED
  BY <1>1, <1>2 DEF OutboxInv, OpenHasTries, SentWasReceived, GivenUpAfterAllTries

LEMMA EnqueueKeepsInv ==
    ASSUME OutboxInv, NEW r \in Records, Enqueue(r)
    PROVE  OutboxInv'
<1> DEFINE due == [work["now"][r] EXCEPT !.at = "due"]
<1>1. due \in Work /\ due.at = "due"
  BY DEF OutboxInv, TypeOK, Work, Deliverer
<1>2. /\ work' \in [Deliverer -> [Records -> Work]]
      /\ \A e \in Deliverer, q \in Records :
           work'[e][q] = IF e = "now" /\ q = r THEN due ELSE work[e][q]
  <2>1. work' = [work EXCEPT !["now"] = [@ EXCEPT ![r] = due]]
    BY DEF Enqueue
  <2> HIDE DEF due
  <2> QED
    BY <1>1, <2>1 DEF OutboxInv, TypeOK, Deliverer
<1> HIDE DEF due
<1>3. TypeOK'
  BY <1>2 DEF OutboxInv, TypeOK, Enqueue, Status
<1>4. CountsAreTries' /\ AnswersReached'
  BY <1>1, <1>2 DEF OutboxInv, CountsAreTries, AnswersReached, At, Enqueue
<1>5. OpenHasTries' /\ SentWasReceived' /\ GivenUpAfterAllTries'
  BY DEF OutboxInv, TypeOK, OpenHasTries, SentWasReceived, GivenUpAfterAllTries, Enqueue
<1> QED
  BY <1>3, <1>4, <1>5 DEF OutboxInv

(* The attempt is counted when the owner is called, before its outcome is stored. *)
LEMMA PostKeepsInv ==
    ASSUME OutboxInv, NEW r \in Records, NEW d \in Deliverer, Post(d, r)
    PROVE  OutboxInv'
<1>1. PICK reply \in Reply :
        /\ work' = [work EXCEPT ![d][r].at = "store", ![d][r].reply = reply]
        /\ reached' = reached \cup {r} \/ (reply = "error" /\ UNCHANGED reached)
  BY DEF Post
<1> DEFINE sent == [work[d][r] EXCEPT !.at = "store", !.reply = reply]
<1>2. /\ sent \in Work /\ sent.at = "store" /\ sent.reply = reply
      /\ sent.seen = work[d][r].seen
  <2>1. work[d][r] \in Work
    BY DEF OutboxInv, TypeOK
  <2> QED
    BY <2>1 DEF Work
<1>3. /\ work' \in [Deliverer -> [Records -> Work]]
      /\ \A e \in Deliverer, q \in Records :
           work'[e][q] = IF e = d /\ q = r THEN sent ELSE work[e][q]
  <2>1. work' = [work EXCEPT ![d] = [@ EXCEPT ![r] = sent]]
    BY <1>1 DEF OutboxInv, TypeOK
  <2> HIDE DEF sent
  <2> QED
    BY <1>2, <2>1 DEF OutboxInv, TypeOK
<1> HIDE DEF sent
<1>4. /\ tries' \in [Records -> Nat]
      /\ \A q \in Records : tries'[q] = IF q = r THEN tries[q] + 1 ELSE tries[q]
  BY DEF OutboxInv, TypeOK, Post
<1>5. reached' \subseteq Records /\ reached \subseteq reached'
      /\ (reply = "ok" => r \in reached')
  BY <1>1 DEF OutboxInv, TypeOK
<1>6. TypeOK'
  BY <1>3, <1>4, <1>5 DEF OutboxInv, TypeOK, Post
<1>7. CountsAreTries'
  <2>1. work[d][r].seen \in Nat /\ work[d][r].seen <= tries[r]
    BY DEF OutboxInv, TypeOK, Work, CountsAreTries, Post
  <2>2. \A q \in Records : retries[q] \in Nat /\ tries[q] \in Nat
    BY DEF OutboxInv, TypeOK
  <2>3. \A q \in Records, e \in Deliverer : work[e][q].seen \in Nat
    BY DEF OutboxInv, TypeOK, Work
  <2> QED
    BY <1>2, <1>3, <1>4, <2>1, <2>2, <2>3 DEF OutboxInv, CountsAreTries, At, Post
<1>8. AnswersReached'
  BY <1>2, <1>3, <1>5 DEF OutboxInv, AnswersReached, At
<1>9. OpenHasTries' /\ SentWasReceived' /\ GivenUpAfterAllTries'
  <2>1. \A q \in Records : tries[q] \in Nat /\ tries'[q] >= tries[q]
    BY <1>4 DEF OutboxInv, TypeOK
  <2> QED
    BY <1>4, <1>5, <2>1, OutboxAssumption
       DEF OutboxInv, OpenHasTries, SentWasReceived, GivenUpAfterAllTries, Post
<1> QED
  BY <1>6, <1>7, <1>8, <1>9 DEF OutboxInv

(* The count that is stored is one more than the one read, and was an attempt. *)
LEMMA StoreKeepsInv ==
    ASSUME OutboxInv, NEW r \in Records, NEW d \in Deliverer, Store(d, r)
    PROVE  OutboxInv'
<1> DEFINE count == work[d][r].seen + 1
<1>1. count \in 1 .. MaxRetries /\ count <= tries[r]
  BY OutboxAssumption DEF OutboxInv, TypeOK, Work, CountsAreTries, Store
<1>2. /\ work' \in [Deliverer -> [Records -> Work]]
      /\ \A e \in Deliverer, q \in Records :
           work'[e][q] = IF e = d /\ q = r THEN NoWork ELSE work[e][q]
  BY Dropped DEF OutboxInv, Store
<1>3. CASE work[d][r].reply = "ok"
  <2>1. status' = [status EXCEPT ![r] = "SENT"] /\ UNCHANGED <<retries, tries, reached, restarts>>
    BY <1>3 DEF Store
  <2>2. r \in reached
    BY <1>3 DEF OutboxInv, AnswersReached, Store
  <2>3. TypeOK'
    BY <1>2, <2>1 DEF OutboxInv, TypeOK, Status
  <2>4. CountsAreTries' /\ AnswersReached'
    BY <1>2, <2>1, NoWorkAt DEF OutboxInv, CountsAreTries, AnswersReached, At
  <2>5. OpenHasTries' /\ SentWasReceived' /\ GivenUpAfterAllTries'
    BY <2>1, <2>2 DEF OutboxInv, TypeOK, OpenHasTries, SentWasReceived, GivenUpAfterAllTries
  <2> QED
    BY <2>3, <2>4, <2>5 DEF OutboxInv
<1>4. CASE work[d][r].reply # "ok"
  <2>1. /\ retries' = [retries EXCEPT ![r] = count]
        /\ status' = IF count >= MaxRetries THEN [status EXCEPT ![r] = "FAILED"] ELSE status
        /\ UNCHANGED <<tries, reached, restarts>>
    BY <1>4 DEF Store, FinalTry
  <2> HIDE DEF count
  <2>2. TypeOK'
    BY <1>1, <1>2, <2>1, OutboxAssumption DEF OutboxInv, TypeOK, Status
  <2>3. CountsAreTries' /\ AnswersReached'
    BY <1>1, <1>2, <2>1, NoWorkAt DEF OutboxInv, TypeOK, CountsAreTries, AnswersReached, At
  <2>4. OpenHasTries' /\ SentWasReceived' /\ GivenUpAfterAllTries'
    BY <1>1, <2>1, OutboxAssumption
       DEF OutboxInv, TypeOK, OpenHasTries, SentWasReceived, GivenUpAfterAllTries
  <2> QED
    BY <2>2, <2>3, <2>4 DEF OutboxInv
<1> QED
  BY <1>3, <1>4

LEMMA RestartKeepsInv == OutboxInv /\ Restart => OutboxInv'
<1> SUFFICES ASSUME OutboxInv, Restart PROVE OutboxInv'
  OBVIOUS
<1>1. \A e \in Deliverer, q \in Records : work'[e][q] = NoWork
  BY DEF Restart
<1>2. TypeOK'
  BY NoWorkType, OutboxAssumption DEF OutboxInv, TypeOK, Restart
<1>3. CountsAreTries' /\ AnswersReached'
  BY <1>1, NoWorkAt DEF OutboxInv, CountsAreTries, AnswersReached, At, Restart
<1> QED
  BY <1>2, <1>3 DEF OutboxInv, OpenHasTries, SentWasReceived, GivenUpAfterAllTries, Restart

LEMMA NextKeepsInv == OutboxInv /\ [Next]_vars => OutboxInv'
<1> SUFFICES ASSUME OutboxInv, [Next]_vars PROVE OutboxInv'
  OBVIOUS
<1> USE OutboxAssumption
<1>1. CASE RetryPending
  BY <1>1, WorkingKeepsInv DEF RetryPending, Pending, Deliverer
<1>2. CASE Restart
  BY <1>2, RestartKeepsInv
<1>3. ASSUME NEW r \in Records, Enqueue(r)
      PROVE  OutboxInv'
  BY <1>3, EnqueueKeepsInv
<1>4. ASSUME NEW r \in Records, TryDeliver(r)
      PROVE  OutboxInv'
  <2>1. CASE status[r] = "PENDING"
    <3>1. retries[r] < MaxRetries
      BY <2>1 DEF OutboxInv, OpenHasTries
    <3> QED
      BY <1>4, <2>1, <3>1, WorkingKeepsInv DEF TryDeliver, Deliverer
  <2>2. CASE status[r] # "PENDING"
    BY <1>4, <2>2, DroppedKeepsInv DEF TryDeliver, Deliverer
  <2> QED
    BY <2>1, <2>2
<1>5. ASSUME NEW r \in Records, NEW d \in Deliverer, Post(d, r)
      PROVE  OutboxInv'
  BY <1>5, PostKeepsInv
<1>6. ASSUME NEW r \in Records, NEW d \in Deliverer, Store(d, r)
      PROVE  OutboxInv'
  BY <1>6, StoreKeepsInv
<1>7. CASE UNCHANGED vars
  BY <1>7 DEF vars, OutboxInv, TypeOK, OpenHasTries, CountsAreTries, AnswersReached,
              SentWasReceived, GivenUpAfterAllTries, At
<1> QED
  BY <1>1, <1>2, <1>3, <1>4, <1>5, <1>6, <1>7 DEF Next, LoopStep, NowStep, Deliverer

LEMMA OutboxInvariant == Spec => []OutboxInv
  BY InitInv, NextKeepsInv, PTL DEF Spec

(* Whatever the order of reads and writes, a record is read for delivery only *)
(* while it has attempts left, and no count passes MAX_CALLBACK_RETRIES.      *)
THEOREM TypeCorrect == Spec => []TypeOK
<1>1. OutboxInv => TypeOK
  BY DEF OutboxInv
<1> QED
  BY <1>1, OutboxInvariant, PTL

(* SENT is never stored for a callback that did not reach the owner. *)
THEOREM SentReceived == Spec => []SentWasReceived
<1>1. OutboxInv => SentWasReceived
  BY DEF OutboxInv
<1> QED
  BY <1>1, OutboxInvariant, PTL

(* No callback is given up before MAX_CALLBACK_RETRIES attempts, whatever counts *)
(* the two deliverers read and overwrite.                                        *)
THEOREM NotGivenUpEarly == Spec => []GivenUpAfterAllTries
<1>1. OutboxInv => GivenUpAfterAllTries
  BY DEF OutboxInv
<1> QED
  BY <1>1, OutboxInvariant, PTL

=============================================================================
