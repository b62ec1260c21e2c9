----------------------------- MODULE ClientProofs -----------------------------
(***************************************************************************)
(* What TLAPS proves of those who send tasks and watch them: that what is  *)
(* taken in stays within the limits and what is in flight, for any number  *)
(* of requests, and that what the command line reports stays true, for any *)
(* files and number of retries.                                            *)
(***************************************************************************)
EXTENDS Intake, BatchClient, FiniteSetTheorems, TLAPS

-----------------------------------------------------------------------------
(* Intake. *)

Request == [pc: {"new", "create", "created", "lost", "refused"}, items: 0 .. MaxItems, left: 0 .. MaxItems]

IntakeTypeOK ==
    /\ batch \in [Batches -> Request]
    /\ \A b \in Batches : batch[b].left <= batch[b].items
    /\ counted \in Nat /\ today \in Nat /\ live \in Nat /\ beside \in Nat /\ forgotten \in Nat

(* Every task that is there is counted, is going to be, or has lost its count. *)
Accounted == live + Cardinality(Asked) <= counted + Cardinality(ToCome) + forgotten

IntakeInv ==
    /\ IntakeTypeOK
    /\ Accounted
    /\ counted + Cardinality(ToCome) <= MaxRunning + beside
    /\ today + Cardinality(ToCome) <= MaxDaily + beside

LEMMA MaxWithZero ==
    ASSUME NEW n \in Nat
    PROVE  Max({0, n - 1}) \in Nat /\ Max({0, n - 1}) <= n /\ n <= Max({0, n - 1}) + 1
<1>1. \E x \in {0, n - 1} : \A y \in {0, n - 1} : x >= y
  <2>1. CASE n = 0
    BY <2>1
  <2>2. CASE n > 0
    BY <2>2
  <2> QED
    BY <2>1, <2>2
<1>2. Max({0, n - 1}) \in {0, n - 1} /\ Max({0, n - 1}) >= 0 /\ Max({0, n - 1}) >= n - 1
  BY <1>1 DEF Max
<1> QED
  BY <1>2

LEMMA BoundsNat == MaxItems \in Nat /\ MaxRunning \in Nat /\ MaxDaily \in Nat
BY IntakeAssumption DEF IntakeAssumption

LEMMA DisjointUnion ==
    ASSUME NEW S, IsFiniteSet(S), NEW T, IsFiniteSet(T), S \cap T = {}
    PROVE  Cardinality(S \cup T) = Cardinality(S) + Cardinality(T)
<1>1. Cardinality(S \cap T) = 0
  BY FS_EmptySet
<1>2. Cardinality(S \cup T) = Cardinality(S) + Cardinality(T) - Cardinality(S \cap T)
  BY FS_Union
<1>3. Cardinality(S) \in Nat /\ Cardinality(T) \in Nat
  BY FS_CardinalityType
<1> QED
  BY <1>1, <1>2, <1>3

(* The tasks n of request b, of those any request may create. *)
Of(b, n) == {b} \X (1 .. n)

LEMMA OfCounted ==
    ASSUME NEW b \in Batches, NEW n \in 0 .. MaxItems
    PROVE  /\ Of(b, n) \subseteq Batches \X (1 .. MaxItems)
           /\ IsFiniteSet(Of(b, n)) /\ Cardinality(Of(b, n)) = n
<1>1. n \in Nat
  BY BoundsNat
<1>2. IsFiniteSet({b}) /\ Cardinality({b}) = 1
  BY FS_Singleton, Zenon
<1>3. IsFiniteSet(1 .. n) /\ Cardinality(1 .. n) = n
  BY <1>1, FS_Interval
<1>4. IsFiniteSet(Of(b, n)) /\ Cardinality(Of(b, n)) = Cardinality({b}) * Cardinality(1 .. n)
  BY <1>2, <1>3, FS_Product, Zenon DEF Of
<1>5. Cardinality(Of(b, n)) = 1 * n
  BY <1>2, <1>3, <1>4, Zenon
<1>6. 1 .. n \subseteq 1 .. MaxItems
  BY <1>1, BoundsNat
<1> QED
  BY <1>1, <1>4, <1>5, <1>6 DEF Of

LEMMA ToComeFinite ==
    /\ IsFiniteSet(ToCome) /\ Cardinality(ToCome) \in Nat
    /\ IsFiniteSet(Asked) /\ Cardinality(Asked) \in Nat
<1>1. IsFiniteSet(Batches) /\ IsFiniteSet(1 .. MaxItems)
  BY BoundsNat, IntakeAssumption, FS_Interval DEF IntakeAssumption
<1>2. ToCome \in SUBSET (Batches \X (1 .. MaxItems)) /\ Asked \in SUBSET (Batches \X (1 .. MaxItems))
  BY DEF ToCome, Asked
<1>3. IsFiniteSet(Batches \X (1 .. MaxItems))
  BY <1>1, FS_Product, Zenon
<1>4. IsFiniteSet(ToCome) /\ IsFiniteSet(Asked)
  BY <1>2, <1>3, FS_Subset, Zenon
<1> QED
  BY <1>4, FS_CardinalityType

LEMMA ToComeAsked == IntakeTypeOK => Cardinality(ToCome) <= Cardinality(Asked)
<1> SUFFICES ASSUME IntakeTypeOK PROVE Cardinality(ToCome) <= Cardinality(Asked)
  OBVIOUS
<1>1. ToCome \in SUBSET Asked
  <2>1. \A w \in ToCome : w \in Asked
    <3> TAKE w \in ToCome
    <3>1. PICK d \in Batches, k \in 1 .. MaxItems : w = <<d, k>>
      BY DEF ToCome
    <3>2. batch[d].left <= batch[d].items /\ batch[d].left \in Int /\ batch[d].items \in Int
      BY DEF IntakeTypeOK, Request
    <3> QED
      BY <3>1, <3>2 DEF ToCome, Asked
  <2> QED
    BY <2>1
<1> QED
  BY <1>1, ToComeFinite, FS_Subset

(* What a task that ends, or is said to end, does to the counts. *)
LEMMA CountStep ==
    ASSUME IntakeInv, IntakeTypeOK', UNCHANGED <<batch, beside>>,
           counted' <= counted, today' <= today,
           live' + counted + forgotten <= live + counted' + forgotten'
    PROVE  IntakeInv'
<1>1. ToCome' = ToCome /\ Asked' = Asked
  BY DEF ToCome, Asked
<1>2. Cardinality(ToCome)' = Cardinality(ToCome) /\ Cardinality(Asked)' = Cardinality(Asked)
  BY <1>1
<1>3. Accounted'
  <2> DEFINE lv == live' cn == counted' fg == forgotten'
  <2>1. /\ live \in Nat /\ counted \in Nat /\ forgotten \in Nat
        /\ lv \in Nat /\ cn \in Nat /\ fg \in Nat
    BY DEF IntakeInv, IntakeTypeOK
  <2>2. live + Cardinality(Asked) <= counted + Cardinality(ToCome) + forgotten
    BY DEF IntakeInv, Accounted
  <2>3. lv + counted + forgotten <= live + cn + fg
    OBVIOUS
  <2> SUFFICES lv + Cardinality(Asked) <= cn + Cardinality(ToCome) + fg
    BY <1>2 DEF Accounted
  <2> HIDE DEF lv, cn, fg
  <2> QED
    BY <2>1, <2>2, <2>3, ToComeFinite
<1>4. (counted + Cardinality(ToCome) <= MaxRunning + beside)' /\ (today + Cardinality(ToCome) <= MaxDaily + beside)'
  BY <1>2, BoundsNat, ToComeFinite DEF IntakeInv, IntakeTypeOK
<1> QED
  BY <1>3, <1>4 DEF IntakeInv

LEMMA CheckStep ==
    ASSUME IntakeInv, NEW b \in Batches, NEW n \in 1 .. MaxItems, CheckLimits(b, n)
    PROVE  IntakeInv'
<1>0. n \in Nat /\ n <= MaxItems /\ n \in 0 .. MaxItems
  BY BoundsNat
<1>1. IntakeTypeOK' /\ UNCHANGED <<counted, today, live, forgotten>> /\ beside' = Cardinality(ToCome)
  BY <1>0, ToComeFinite DEF CheckLimits, IntakeInv, IntakeTypeOK, Request
<1>2. /\ batch'[b] = [pc |-> "create", items |-> n, left |-> n] /\ batch[b].pc = "new"
      /\ \A d \in Batches : d # b => batch'[d] = batch[d]
  BY DEF CheckLimits, IntakeInv, IntakeTypeOK
<1>3. /\ ToCome' = ToCome \cup Of(b, n) /\ ToCome \cap Of(b, n) = {}
      /\ Asked' = Asked \cup Of(b, n) /\ Asked \cap Of(b, n) = {}
  <2>1. ASSUME NEW w \in Batches \X (1 .. MaxItems)
        PROVE  /\ w \in ToCome' <=> w \in ToCome \/ w \in Of(b, n)
               /\ w \in Asked' <=> w \in Asked \/ w \in Of(b, n)
               /\ w \in Of(b, n) => w \notin ToCome /\ w \notin Asked
    <3>1. PICK d \in Batches, k \in 1 .. MaxItems : w = <<d, k>>
      OBVIOUS
    <3>2. CASE d = b
      BY <1>0, <1>2, <3>1, <3>2 DEF ToCome, Asked, Of
    <3>3. CASE d # b
      BY <1>0, <1>2, <3>1, <3>3 DEF ToCome, Asked, Of
    <3> QED
      BY <3>2, <3>3
  <2>2. Of(b, n) \subseteq Batches \X (1 .. MaxItems)
    BY <1>0, OfCounted
  <2>3. /\ ToCome \subseteq Batches \X (1 .. MaxItems) /\ ToCome' \subseteq Batches \X (1 .. MaxItems)
        /\ Asked \subseteq Batches \X (1 .. MaxItems) /\ Asked' \subseteq Batches \X (1 .. MaxItems)
    BY DEF ToCome, Asked
  <2> QED
    BY <2>1, <2>2, <2>3
<1>4. IsFiniteSet(Of(b, n)) /\ Cardinality(Of(b, n)) = n
  BY <1>0, OfCounted
<1>5. Cardinality(ToCome') = Cardinality(ToCome) + n /\ Cardinality(Asked') = Cardinality(Asked) + n
  <2> QED
    BY <1>3, <1>4, ToComeFinite, DisjointUnion
<1>6. counted + n <= MaxRunning /\ today + n <= MaxDaily
  BY DEF CheckLimits, RoomFor
<1> QED
  BY <1>0, <1>1, <1>5, <1>6, BoundsNat, ToComeFinite DEF IntakeInv, Accounted, IntakeTypeOK

LEMMA CreateStep ==
    ASSUME IntakeInv, NEW b \in Batches, CreateTask(b)
    PROVE  IntakeInv'
<1>1. batch[b].left \in 1 .. MaxItems /\ batch[b].left <= batch[b].items /\ batch[b].pc = "create"
  BY BoundsNat DEF CreateTask, IntakeInv, IntakeTypeOK, Request
<1>2. /\ batch'[b].left = batch[b].left - 1 /\ batch'[b].items = batch[b].items /\ batch'[b].pc = "create"
      /\ \A d \in Batches : d # b => batch'[d] = batch[d]
  BY <1>1 DEF CreateTask, IntakeInv, IntakeTypeOK, Request
<1>3. IntakeTypeOK' /\ counted' = counted + 1 /\ today' = today + 1 /\ UNCHANGED <<live, beside, forgotten>>
  <2>1. \A d \in Batches : batch[d].left \in Int /\ batch[d].items \in Int
    BY BoundsNat DEF IntakeInv, IntakeTypeOK, Request
  <2> QED
    BY <1>1, <1>2, <2>1, BoundsNat DEF CreateTask, IntakeInv, IntakeTypeOK, Request
<1>4. ToCome' = ToCome \ {<<b, batch[b].left>>} /\ <<b, batch[b].left>> \in ToCome /\ Asked' = Asked
  <2>1. ASSUME NEW w \in Batches \X (1 .. MaxItems)
        PROVE  /\ w \in ToCome' <=> w \in ToCome /\ w # <<b, batch[b].left>>
               /\ w \in Asked' <=> w \in Asked
    <3>1. PICK d \in Batches, k \in 1 .. MaxItems : w = <<d, k>>
      OBVIOUS
    <3>2. CASE d = b
      BY <1>1, <1>2, <3>1, <3>2, BoundsNat DEF ToCome, Asked
    <3>3. CASE d # b
      BY <1>2, <3>1, <3>3 DEF ToCome, Asked
    <3> QED
      BY <3>2, <3>3
  <2> QED
    BY <1>1, <2>1 DEF ToCome, Asked
<1>5. Cardinality(ToCome') = Cardinality(ToCome) - 1
  BY <1>4, ToComeFinite, FS_RemoveElement
<1> QED
  BY <1>3, <1>4, <1>5, BoundsNat, ToComeFinite DEF IntakeInv, Accounted, IntakeTypeOK

(* A request that ends has nothing more to come: all it was let in for was *)
(* still to be created, or all was and is now in the table, or is lost.    *)
LEMMA EndStep ==
    ASSUME IntakeInv, NEW b \in Batches, NEW pc \in {"created", "lost", "refused"}, Ends(b, pc),
           UNCHANGED <<counted, today, beside, forgotten>>,
           \/ batch[b].pc = "new" /\ live' = live
           \/ batch[b].pc = "create" /\ batch[b].left = batch[b].items /\ live' = live
           \/ batch[b].pc = "create" /\ batch[b].left = 0 /\ live' \in {live, live + batch[b].items}
    PROVE  IntakeInv'
<1> DEFINE n == IF batch[b].pc = "create" THEN batch[b].items ELSE 0
           m == IF batch[b].pc = "create" THEN batch[b].left ELSE 0
<1>0. n \in 0 .. MaxItems /\ m \in 0 .. MaxItems /\ n \in Nat /\ m \in Nat
  BY BoundsNat DEF IntakeInv, IntakeTypeOK, Request
<1>1. /\ IntakeTypeOK' /\ batch'[b].pc # "create"
      /\ batch'[b].left = batch[b].left /\ batch'[b].items = batch[b].items
      /\ \A d \in Batches : d # b => batch'[d] = batch[d]
  <2>1. batch'[b].pc = pc /\ batch'[b].left = batch[b].left /\ batch'[b].items = batch[b].items
        /\ \A d \in Batches : d # b => batch'[d] = batch[d]
    BY DEF Ends, IntakeInv, IntakeTypeOK, Request
  <2>2. batch' \in [Batches -> Request]
    BY DEF Ends, IntakeInv, IntakeTypeOK, Request
  <2>3. \A d \in Batches : batch'[d].left <= batch'[d].items
    BY <2>1 DEF IntakeInv, IntakeTypeOK
  <2>4. live' \in Nat
    BY BoundsNat DEF IntakeInv, IntakeTypeOK, Request
  <2> QED
    BY <2>1, <2>2, <2>3, <2>4 DEF IntakeInv, IntakeTypeOK
<1>2. /\ ToCome' \cap Of(b, m) = {} /\ ToCome = ToCome' \cup Of(b, m)
      /\ Asked' \cap Of(b, n) = {} /\ Asked = Asked' \cup Of(b, n)
  <2>1. ASSUME NEW w \in Batches \X (1 .. MaxItems)
        PROVE  /\ w \in ToCome <=> w \in ToCome' \/ w \in Of(b, m)
               /\ w \in Asked <=> w \in Asked' \/ w \in Of(b, n)
               /\ w \in Of(b, m) => w \notin ToCome'
               /\ w \in Of(b, n) => w \notin Asked'
    <3>1. PICK d \in Batches, k \in 1 .. MaxItems : w = <<d, k>>
      OBVIOUS
    <3>2. CASE d = b
      BY <1>0, <1>1, <3>1, <3>2, BoundsNat DEF ToCome, Asked, Of
    <3>3. CASE d # b
      BY <1>0, <1>1, <3>1, <3>3 DEF ToCome, Asked, Of
    <3> QED
      BY <3>2, <3>3
  <2>2. Of(b, m) \subseteq Batches \X (1 .. MaxItems) /\ Of(b, n) \subseteq Batches \X (1 .. MaxItems)
    BY <1>0, OfCounted
  <2>3. /\ ToCome \subseteq Batches \X (1 .. MaxItems) /\ ToCome' \subseteq Batches \X (1 .. MaxItems)
        /\ Asked \subseteq Batches \X (1 .. MaxItems) /\ Asked' \subseteq Batches \X (1 .. MaxItems)
    BY DEF ToCome, Asked
  <2> HIDE DEF n, m
  <2> QED
    BY <2>1, <2>2, <2>3
<1>3. /\ IsFiniteSet(Of(b, m)) /\ Cardinality(Of(b, m)) = m
      /\ IsFiniteSet(Of(b, n)) /\ Cardinality(Of(b, n)) = n
  BY <1>0, OfCounted
<1>4. /\ IsFiniteSet(ToCome') /\ Cardinality(ToCome') \in Nat
      /\ IsFiniteSet(Asked') /\ Cardinality(Asked') \in Nat
  <2>1. ToCome' \in SUBSET ToCome /\ Asked' \in SUBSET Asked
    BY <1>2
  <2> QED
    BY <2>1, ToComeFinite, FS_Subset, FS_CardinalityType
<1>5. Cardinality(ToCome) = Cardinality(ToCome') + m /\ Cardinality(Asked) = Cardinality(Asked') + n
  <2> HIDE DEF n, m
  <2> QED
    BY <1>2, <1>3, <1>4, DisjointUnion
<1>6. live' - n <= live - m /\ live' - n \in Int
  BY <1>0 DEF IntakeInv, IntakeTypeOK, Request
<1> HIDE DEF n, m
<1>7. Accounted'
  <2>1. live + Cardinality(Asked) <= counted + Cardinality(ToCome) + forgotten
    BY DEF IntakeInv, Accounted
  <2>2. live \in Nat /\ counted \in Nat /\ forgotten \in Nat /\ live' \in Nat
    BY <1>1 DEF IntakeInv, IntakeTypeOK
  <2>3. live' + Cardinality(Asked') <= counted + Cardinality(ToCome') + forgotten
    BY <1>0, <1>4, <1>5, <1>6, <2>1, <2>2
  <2> QED
    BY <2>3 DEF Accounted
<1>8. (counted + Cardinality(ToCome) <= MaxRunning + beside)' /\ (today + Cardinality(ToCome) <= MaxDaily + beside)'
  <2>1. Cardinality(ToCome') <= Cardinality(ToCome)
    BY <1>0, <1>4, <1>5
  <2> QED
    BY <1>4, <2>1, BoundsNat, ToComeFinite DEF IntakeInv, IntakeTypeOK
<1> QED
  BY <1>1, <1>7, <1>8 DEF IntakeInv

LEMMA InitIntake == IntakeInit => IntakeInv
<1> SUFFICES ASSUME IntakeInit PROVE IntakeInv
  OBVIOUS
<1>1. IntakeTypeOK
  BY BoundsNat DEF IntakeInit, IntakeTypeOK, Request
<1>2. ToCome = {} /\ Asked = {}
  BY DEF IntakeInit, ToCome, Asked
<1>3. Cardinality(ToCome) = 0 /\ Cardinality(Asked) = 0
  BY <1>2, FS_EmptySet
<1> QED
  BY <1>1, <1>3, BoundsNat DEF IntakeInv, Accounted, IntakeInit

LEMMA NextIntake == IntakeInv /\ [IntakeNext]_intakeVars => IntakeInv'
<1> SUFFICES ASSUME IntakeInv, [IntakeNext]_intakeVars PROVE IntakeInv'
  OBVIOUS
<1>0. IntakeTypeOK
  BY DEF IntakeInv
<1>1. CASE TaskOver \/ CancelOne \/ OrphanOver
  <2>1. Release => counted' \in Nat /\ counted' <= counted /\ counted <= counted' + 1
    BY <1>0, MaxWithZero DEF Release, IntakeTypeOK
  <2>2. /\ IntakeTypeOK' /\ UNCHANGED <<batch, today, beside>>
        /\ counted' <= counted
        /\ live' + counted + forgotten <= live + counted' + forgotten'
    <3>1. CASE TaskOver \/ CancelOne
      BY <1>0, <2>1, <3>1 DEF TaskOver, CancelOne, IntakeTypeOK
    <3>2. CASE OrphanOver
      BY <1>0, <2>1, <3>2 DEF OrphanOver, IntakeTypeOK
    <3> QED
      BY <1>1, <3>1, <3>2
  <2>3. today' <= today
    BY <1>0, <2>2 DEF IntakeTypeOK
  <2> QED
    BY <2>2, <2>3, CountStep
<1>2. CASE DeleteOne \/ Midnight \/ UNCHANGED intakeVars
  <2>1. /\ IntakeTypeOK' /\ UNCHANGED <<batch, counted, beside, forgotten>>
        /\ today' <= today /\ live' <= live
    BY <1>0, <1>2 DEF DeleteOne, Midnight, intakeVars, IntakeTypeOK
  <2>2. live' + counted + forgotten <= live + counted' + forgotten'
    <3> DEFINE lv == live'
    <3>1. lv \in Nat /\ lv <= live /\ live \in Nat /\ counted \in Nat /\ forgotten \in Nat
      BY <1>0, <2>1 DEF IntakeTypeOK
    <3> SUFFICES lv + counted + forgotten <= live + counted + forgotten
      BY <2>1
    <3> HIDE DEF lv
    <3> QED
      BY <3>1
  <2>3. counted' <= counted
    BY <1>0, <2>1 DEF IntakeTypeOK
  <2> QED
    BY <2>1, <2>2, <2>3, CountStep
<1>3. CASE RestartLimiter
  <2>1. counted' = 0 /\ today' = 0 /\ forgotten' = forgotten + counted /\ UNCHANGED <<live, beside>>
    BY <1>3 DEF RestartLimiter
  <2>2. /\ batch' \in [Batches -> Request]
        /\ \A b \in Batches : batch'[b].pc # "create" /\ batch'[b].left <= batch'[b].items
    BY <1>0, <1>3 DEF RestartLimiter, IntakeTypeOK, Request
  <2>3. ToCome' = {} /\ Asked' = {}
    BY <2>2 DEF ToCome, Asked
  <2>4. Cardinality(ToCome') = 0 /\ Cardinality(Asked') = 0
    BY <2>3, FS_EmptySet
  <2>5. IntakeTypeOK'
    BY <1>0, <2>1, <2>2 DEF IntakeTypeOK
  <2> QED
    BY <1>0, <2>1, <2>4, <2>5, BoundsNat, ToComeFinite, ToComeAsked DEF IntakeInv, Accounted, IntakeTypeOK
<1>4. ASSUME NEW b \in Batches, Refuse(b) \/ RefuseDuplicate(b) PROVE IntakeInv'
  BY <1>4, EndStep DEF Refuse, RefuseDuplicate
<1>5. ASSUME NEW b \in Batches, CommitBatch(b) PROVE IntakeInv'
  BY <1>5, EndStep DEF CommitBatch
<1>6. ASSUME NEW b \in Batches, CreateTask(b) PROVE IntakeInv'
  BY <1>6, CreateStep
<1>7. ASSUME NEW b \in Batches, NEW n \in 1 .. MaxItems, CheckLimits(b, n) PROVE IntakeInv'
  BY <1>7, CheckStep
<1> QED
  BY <1>1, <1>2, <1>3, <1>4, <1>5, <1>6, <1>7 DEF IntakeNext

(* create_tasks and the limiter: whatever requests run between a check and    *)
(* its counts, however tasks end, come late, are deleted or rolled back, and   *)
(* whenever the limiter forgets, the counts overrun the limits by no more than *)
(* the requests beside the last check were let in for, and the tasks that are  *)
(* there by no more than that and the counts they have lost.                   *)
THEOREM BoundedAlways == IntakeSpec => []IntakeBounded
<1>1. IntakeInv => IntakeBounded
  BY BoundsNat, ToComeFinite DEF IntakeInv, Accounted, IntakeTypeOK, IntakeBounded
<1> QED
  BY <1>1, InitIntake, NextIntake, PTL DEF IntakeSpec

-----------------------------------------------------------------------------
(* BatchClient. *)

Endings == {"SUCCEEDED", "FAILED", "CANCELED"}

ClientTypeOK ==
    /\ jobs \in [Inputs -> [st: {"none", "going", "deleted"} \cup Endings, tries: Nat]]
    /\ cli \in [pc: {"begin", "upload", "poll", "download", "create", "wait", "fetch", "done"}, exit: {0, 1}]
    /\ existing \in SUBSET Inputs /\ one \in BOOLEAN
    /\ sent \in [Inputs -> {"no", "yes", "failed"}]
    /\ seen \in [Inputs -> {"none"} \cup Endings]
    /\ report \in [Inputs -> {"none", "UPLOAD_FAILED", "TIMEOUT", "DOWNLOAD_FAILED"} \cup Endings]

(* The task has ended so and stays so, unless it is deleted. *)
EndedAs(f, st) == \/ jobs[f].st = "deleted"
                  \/ jobs[f].st = st /\ IsTerminal(f)

(* The two ways of transcribe, and what each knows where. *)
ClientKnows ==
    /\ cli.pc \in {"create", "wait", "fetch"} => one
    /\ cli.pc \in {"begin", "poll", "download"} => ~one
    /\ one => \E f \in Inputs : existing = {f}
    /\ cli.pc \notin {"begin", "done"} => existing # {}
    /\ cli.pc \in {"create", "wait", "fetch"} => Uploaded = existing
    /\ Uploaded \subseteq existing /\ (cli.pc = "begin" => Uploaded = {})
    /\ cli.pc \in {"begin", "upload", "create"} => \A f \in Inputs : seen[f] = "none" /\ report[f] = "none"
    /\ cli.pc = "fetch" => \A f \in Uploaded : EndedAs(f, "SUCCEEDED")

ClientInv ==
    /\ ClientTypeOK
    /\ ClientKnows
    /\ \A f \in Inputs : /\ seen[f] \in Endings => EndedAs(f, seen[f])
                         /\ report[f] \in Endings => EndedAs(f, report[f])
    /\ cli.pc = "done" /\ cli.exit = 0 => existing # {} /\ \A f \in existing : EndedAs(f, "SUCCEEDED")

LEMMA InitClient == BatchClientInit => ClientInv
<1> SUFFICES ASSUME BatchClientInit PROVE ClientInv
  OBVIOUS
<1>1. ClientTypeOK
  BY DEF BatchClientInit, ClientTypeOK
<1>2. ClientKnows
  BY DEF BatchClientInit, ClientKnows, Uploaded
<1> QED
  BY <1>1, <1>2 DEF BatchClientInit, ClientInv, Endings

(* The service goes on: an end that is_terminal calls final is not taken back. *)
LEMMA ServiceStep ==
    ASSUME ClientInv, ClientTypeOK', UNCHANGED <<cli, existing, one, sent, seen, report>>,
           \A f \in Inputs, st \in Endings : EndedAs(f, st) => EndedAs(f, st)'
    PROVE  ClientInv'
<1>1. Uploaded' = Uploaded
  BY DEF Uploaded
<1>2. ClientKnows'
  <2>1. \A f \in Uploaded : EndedAs(f, "SUCCEEDED") => EndedAs(f, "SUCCEEDED")'
    BY DEF Uploaded, Endings
  <2> QED
    BY <1>1, <2>1 DEF ClientInv, ClientKnows
<1>3. \A f \in Inputs : /\ seen[f] \in Endings => EndedAs(f, seen[f])'
                        /\ report[f] \in Endings => EndedAs(f, report[f])'
  BY DEF ClientInv, EndedAs
<1>4. cli'.pc = "done" /\ cli'.exit = 0 => existing' # {} /\ \A f \in existing' : EndedAs(f, "SUCCEEDED")'
  <2>1. existing \subseteq Inputs /\ "SUCCEEDED" \in Endings
    BY DEF ClientInv, ClientTypeOK, Endings
  <2> QED
    BY <1>1, <2>1 DEF ClientInv
<1> QED
  BY <1>2, <1>3, <1>4 DEF ClientInv

LEMMA JobsStep ==
    ASSUME ClientInv, NEW f \in Inputs, JobEnds(f) \/ JobRetried(f)
    PROVE  ClientInv'
<1>1. ClientTypeOK'
  BY DEF JobEnds, JobRetried, ClientInv, ClientTypeOK, Endings
<1>2. /\ \A g \in Inputs : g # f => jobs'[g] = jobs[g]
      /\ \/ jobs[f].st = "going"
         \/ jobs[f].st = "FAILED" /\ jobs[f].tries < RetryAgain
  BY DEF JobEnds, JobRetried, ClientInv, ClientTypeOK
<1>3. ASSUME NEW g \in Inputs, NEW st \in Endings, EndedAs(g, st) PROVE EndedAs(g, st)'
  <2>1. g # f
    BY <1>2, <1>3, BatchClientAssumption DEF EndedAs, IsTerminal, Endings, ClientInv, ClientTypeOK
  <2> QED
    BY <1>2, <1>3, <2>1 DEF EndedAs, IsTerminal
<1> QED
  BY <1>1, <1>3, ServiceStep DEF JobEnds, JobRetried

LEMMA DeletedStep ==
    ASSUME ClientInv, GroupDeleted
    PROVE  ClientInv'
<1>1. \A f \in Inputs : jobs'[f] = jobs[f] \/ jobs'[f] = [jobs[f] EXCEPT !.st = "deleted"]
  BY DEF GroupDeleted
<1>2. jobs' = [f \in Inputs |-> jobs'[f]]
  BY DEF GroupDeleted
<1>3. ClientTypeOK'
  BY <1>1, <1>2 DEF GroupDeleted, ClientInv, ClientTypeOK
<1>4. ASSUME NEW g \in Inputs, NEW st \in Endings, EndedAs(g, st) PROVE EndedAs(g, st)'
  <2>1. jobs'[g].st = "deleted" \/ jobs'[g] = jobs[g]
    BY <1>1 DEF ClientInv, ClientTypeOK
  <2> QED
    BY <1>4, <2>1 DEF EndedAs, IsTerminal
<1> QED
  BY <1>3, <1>4, ServiceStep DEF GroupDeleted

LEMMA NextClient == ClientInv /\ [BatchClientNext]_batchVars => ClientInv'
<1> SUFFICES ASSUME ClientInv, [BatchClientNext]_batchVars PROVE ClientInv'
  OBVIOUS
<1>0. ClientTypeOK /\ ClientKnows
  BY DEF ClientInv
<1>1. ASSUME NEW f \in Inputs, JobEnds(f) \/ JobRetried(f) PROVE ClientInv'
  BY <1>1, JobsStep
<1>2. CASE GroupDeleted
  BY <1>2, DeletedStep
<1>3. ASSUME NEW f \in Inputs, Upload(f) PROVE ClientInv'
  <2>1. ~one /\ cli.pc = "upload" /\ f \in existing /\ UNCHANGED <<jobs, cli, existing, one, seen, report>>
    BY <1>3 DEF Upload
  <2>2. ClientTypeOK'
    BY <1>0, <1>3 DEF Upload, ClientTypeOK
  <2>3. Uploaded' \subseteq Uploaded \cup {f}
    BY <1>0, <1>3 DEF Upload, ClientTypeOK, Uploaded
  <2>4. ClientKnows'
    BY <1>0, <2>1, <2>3 DEF ClientKnows
  <2> QED
    BY <1>0, <2>1, <2>2, <2>4 DEF ClientInv, ClientKnows, EndedAs, IsTerminal, Endings
<1>14. CASE Begin
  <2>1. cli.pc = "begin" /\ ~one /\ UNCHANGED <<jobs, sent, seen, report>> /\ existing' \in SUBSET Inputs
    BY <1>0, <1>14 DEF Begin, ClientKnows
  <2>2. \/ cli' = [pc |-> "done", exit |-> 1] /\ one' = one
        \/ cli' = [cli EXCEPT !.pc = "upload"] /\ existing' # {} /\ one' \in {FALSE, Cardinality(existing') = 1}
    BY <1>14 DEF Begin, Exit
  <2>3. cli' \in [pc: {"done", "upload"}, exit: {0, 1}] /\ (cli'.pc = "done" => cli'.exit = 1)
    <3>1. cli \in [pc: {"begin", "upload", "poll", "download", "create", "wait", "fetch", "done"}, exit: {0, 1}]
      BY <1>0 DEF ClientTypeOK
    <3>2. CASE cli' = [pc |-> "done", exit |-> 1]
      BY <3>2
    <3>3. CASE cli' = [cli EXCEPT !.pc = "upload"]
      BY <3>1, <3>3
    <3> QED
      BY <2>2, <3>2, <3>3
  <2>4. one' \in BOOLEAN /\ (cli'.pc = "upload" => existing' # {})
    <3>1. CASE cli' = [pc |-> "done", exit |-> 1] /\ one' = one
      BY <1>0, <3>1 DEF ClientTypeOK
    <3>2. CASE existing' # {} /\ one' \in {FALSE, Cardinality(existing') = 1}
      BY <3>2, Zenon
    <3> QED
      BY <2>2, <3>1, <3>2
  <2>5. one' => \E f \in Inputs : existing' = {f}
    <3>1. IsFiniteSet(existing') /\ Cardinality(existing') = 1 => \E f \in existing' : existing' = {f}
      BY FS_Singleton
    <3>2. IsFiniteSet(existing')
      BY <2>1, BatchClientAssumption, FS_Subset
    <3>3. one' => Cardinality(existing') = 1
      BY <2>1, <2>2
    <3> QED
      BY <2>1, <3>1, <3>2, <3>3
  <2>6. ClientTypeOK'
    BY <1>0, <2>1, <2>3, <2>4 DEF ClientTypeOK
  <2>7. Uploaded' = Uploaded /\ Uploaded = {}
    BY <1>0, <2>1 DEF ClientKnows, ClientInv, Uploaded
  <2>8. ClientKnows'
    BY <1>0, <2>1, <2>3, <2>4, <2>5, <2>7 DEF ClientKnows
  <2> QED
    BY <1>0, <2>1, <2>3, <2>6, <2>8 DEF ClientInv, ClientKnows, EndedAs, IsTerminal, Endings
<1>4. CASE CreateBatch
  BY <1>0, <1>4 DEF CreateBatch, Exit, ClientInv, ClientTypeOK, ClientKnows, EndedAs, IsTerminal, Uploaded, Endings
<1>5. CASE PollGroup
  <2>1. seen' = [f \in Inputs |-> IF seen[f] = "none" /\ f \in InGroup /\ IsTerminal(f) THEN jobs[f].st ELSE seen[f]]
    BY <1>5 DEF PollGroup
  <2>2. \A f \in Inputs : seen'[f] \in Endings => EndedAs(f, seen'[f])
    BY <1>0, <2>1 DEF ClientInv, EndedAs, IsTerminal, Endings
  <2>3. ClientTypeOK' /\ cli'.pc \in {"poll", "download"} /\ UNCHANGED <<jobs, existing, one, sent, report>>
    BY <1>0, <1>5, <2>1 DEF PollGroup, ClientTypeOK, IsTerminal, Endings
  <2> QED
    BY <1>0, <1>5, <2>2, <2>3 DEF PollGroup, ClientInv, ClientKnows, EndedAs, IsTerminal, Uploaded
<1>6. CASE TimeUp
  BY <1>0, <1>6 DEF TimeUp, ClientInv, ClientTypeOK, ClientKnows, EndedAs, IsTerminal, Uploaded
<1>7. ASSUME NEW f \in Inputs, Download(f) PROVE ClientInv'
  <2>1. cli.pc = "download" /\ seen[f] = "SUCCEEDED" /\ UNCHANGED <<jobs, cli, existing, one, sent, seen>>
    BY <1>7 DEF Download
  <2>2. ClientTypeOK' /\ \A g \in Inputs : report'[g] \in {report[g], seen[g], "DOWNLOAD_FAILED"}
    BY <1>0, <1>7 DEF Download, ClientTypeOK, Endings
  <2>3. ClientKnows'
    BY <1>0, <2>1 DEF ClientKnows, Uploaded
  <2> QED
    BY <2>1, <2>2, <2>3 DEF ClientInv, EndedAs, IsTerminal, Endings
<1>8. CASE Report
  <2>1. /\ cli' = [pc |-> "done", exit |-> Code] /\ Code \in {0, 1} /\ ~one
        /\ UNCHANGED <<jobs, existing, one, sent, seen>>
    BY <1>0, <1>8 DEF Report, Exit, Code, ClientKnows
  <2>2. \A f \in Inputs : report'[f] \in {report[f], seen[f], "UPLOAD_FAILED", "TIMEOUT"}
    BY <1>8 DEF Report
  <2>3. report' \in [Inputs -> {"none", "UPLOAD_FAILED", "TIMEOUT", "DOWNLOAD_FAILED"} \cup Endings]
    <3>1. report' = [f \in Inputs |-> report'[f]]
      BY <1>8 DEF Report
    <3> QED
      BY <1>0, <2>2, <3>1 DEF ClientTypeOK
  <2>4. \A f \in Inputs : (EndedAs(f, "SUCCEEDED") => EndedAs(f, "SUCCEEDED")')
                          /\ \A st \in Endings : EndedAs(f, st) => EndedAs(f, st)'
    BY <2>1 DEF EndedAs, IsTerminal
  <2>5. \A f \in Inputs : (report[f] \in Endings => EndedAs(f, report[f]))'
    BY <2>1, <2>2 DEF ClientInv, Endings, EndedAs, IsTerminal
  <2>6. Code = 0 => \A f \in existing : EndedAs(f, "SUCCEEDED")
    BY DEF Code, ClientInv, ClientTypeOK, Endings
  <2> QED
    <3>1. ClientTypeOK'
      BY <1>0, <2>1, <2>3 DEF ClientTypeOK
    <3>2. ClientKnows'
      BY <1>0, <2>1 DEF ClientKnows, Uploaded
    <3>3. existing # {}
      BY <1>0, <1>8 DEF Report, ClientKnows
    <3>4. \A f \in Inputs : (seen[f] \in Endings => EndedAs(f, seen[f]))'
      BY <2>1, <2>4 DEF ClientInv
    <3>5. (cli.pc = "done" /\ cli.exit = 0 => existing # {} /\ \A f \in existing : EndedAs(f, "SUCCEEDED"))'
      BY <1>0, <2>1, <2>4, <2>6, <3>3 DEF ClientTypeOK
    <3> QED
      BY <2>5, <3>1, <3>2, <3>4, <3>5 DEF ClientInv
<1>9. ASSUME NEW f \in Inputs, UploadOne(f) PROVE ClientInv'
  <2>1. /\ cli.pc = "upload" /\ one /\ f \in existing /\ UNCHANGED <<jobs, existing, one, seen, report>>
        /\ \/ sent' = [sent EXCEPT ![f] = "yes"] /\ cli' = [cli EXCEPT !.pc = "create"]
           \/ sent' = [sent EXCEPT ![f] = "failed"] /\ cli' = [pc |-> "done", exit |-> 1]
    BY <1>9 DEF UploadOne, Exit
  <2>2. existing = {f} /\ Uploaded \subseteq {f}
    BY <1>0, <2>1 DEF ClientKnows
  <2>3. CASE sent' = [sent EXCEPT ![f] = "yes"] /\ cli' = [cli EXCEPT !.pc = "create"]
    <3>1. ClientTypeOK' /\ cli'.pc = "create"
      BY <1>0, <2>1, <2>3 DEF ClientTypeOK
    <3>2. Uploaded' = {f}
      BY <1>0, <2>2, <2>3 DEF ClientTypeOK, Uploaded
    <3>3. ClientKnows'
      BY <1>0, <2>1, <2>2, <3>1, <3>2 DEF ClientKnows
    <3> QED
      BY <1>0, <2>1, <3>1, <3>3 DEF ClientInv, ClientKnows, Endings
  <2>4. CASE sent' = [sent EXCEPT ![f] = "failed"] /\ cli' = [pc |-> "done", exit |-> 1]
    <3>1. ClientTypeOK' /\ cli'.pc = "done" /\ cli'.exit = 1
      BY <1>0, <2>1, <2>4 DEF ClientTypeOK
    <3>2. Uploaded' \subseteq Uploaded
      BY <1>0, <2>4 DEF ClientTypeOK, Uploaded
    <3>3. ClientKnows'
      BY <1>0, <2>1, <3>1, <3>2 DEF ClientKnows
    <3> QED
      BY <1>0, <2>1, <3>1, <3>3 DEF ClientInv, ClientKnows, Endings
  <2> QED
    BY <2>1, <2>3, <2>4
<1>10. CASE CreateOne
  BY <1>0, <1>10 DEF CreateOne, Exit, ClientInv, ClientTypeOK, ClientKnows, EndedAs, IsTerminal, Uploaded, Endings
<1>11. CASE WaitForTask
  BY <1>0, <1>11 DEF WaitForTask, Exit, ClientInv, ClientTypeOK, ClientKnows, EndedAs, IsTerminal, Uploaded
<1>12. CASE FetchResult
  BY <1>0, <1>12 DEF FetchResult, Exit, ClientInv, ClientTypeOK, ClientKnows, EndedAs, IsTerminal, Uploaded, Endings
<1>13. CASE BeginWait \/ WaitGroup \/ WaitGivesUp \/ UNCHANGED batchVars
  BY <1>0, <1>13 DEF BeginWait, WaitGroup, WaitGivesUp, batchVars, ClientInv, ClientTypeOK, ClientKnows,
                     EndedAs, IsTerminal, Uploaded
<1> QED
  BY <1>1, <1>2, <1>3, <1>4, <1>5, <1>6, <1>7, <1>8, <1>9, <1>10, <1>11, <1>12, <1>13, <1>14 DEF BatchClientNext

(* transcribe and the service: what is reported of a file stays true while   *)
(* tasks are retried, canceled and deleted, and exit code 0 means that there  *)
(* was a file, of those given, and every one that exists was transcribed, for *)
(* any number of files and retries.                                          *)
THEOREM ReportsTrue == BatchClientSpec => []ReportsStayTrue
<1>1. ClientInv => ReportsStayTrue
  BY DEF ClientInv, ClientTypeOK, ReportsStayTrue, EndedAs, Endings
<1> QED
  BY <1>1, InitClient, NextClient, PTL DEF BatchClientSpec

=============================================================================
