------------------------ MODULE CircuitBreakerProofs ------------------------
(***************************************************************************)
(* What TLAPS proves of CircuitBreaker, for every number of slots, every   *)
(* threshold and every probe budget.                                       *)
(***************************************************************************)
EXTENDS CircuitBreaker, FiniteSetTheorems, TLAPS

LEMMA InitType == Init => TypeOK
<1> SUFFICES ASSUME Init PROVE TypeOK
  OBVIOUS
<1>1. /\ failures \in 0 .. FailureThreshold /\ successes \in 0 .. HalfOpenMax - 1
      /\ probes \in 0 .. HalfOpenMax
  BY BreakerAssumption DEF Init
<1>2. calls \in [Calls -> Use]
  BY DEF Init, Use
<1> QED
  BY <1>1, <1>2 DEF Init, TypeOK, State

(* What either question sees of the breaker. *)
LEMMA SeenType ==
    ASSUME TypeOK
    PROVE  /\ StateSeen \in State /\ ProbesSeen \in 0 .. HalfOpenMax
           /\ (IF Recovers THEN 0 ELSE successes) \in 0 .. HalfOpenMax - 1
           /\ Admits /\ StateSeen = "HALF_OPEN" => ProbesSeen + 1 \in 0 .. HalfOpenMax
           /\ Admits \in BOOLEAN
  BY BreakerAssumption DEF TypeOK, StateSeen, ProbesSeen, Recovers, Admits, State

LEMMA NextType == TypeOK /\ [Next]_vars => TypeOK'
<1> SUFFICES ASSUME TypeOK, [Next]_vars PROVE TypeOK'
  OBVIOUS
<1> USE BreakerAssumption
<1>1. ASSUME NEW c \in Calls, AllowRequest(c)
      PROVE  TypeOK'
  BY <1>1, SeenType DEF AllowRequest, MaybeRecover, TypeOK, Use
<1>2. CASE CanRequest
  BY <1>2, SeenType DEF CanRequest, MaybeRecover, TypeOK
<1>3. ASSUME NEW c \in Calls, NEW use \in Use, After(c, use)
      PROVE  calls' \in [Calls -> Use]
  BY <1>3 DEF After, TypeOK, Use
<1>4. ASSUME NEW c \in Calls, RecordSuccess(c)
      PROVE  TypeOK'
  BY <1>3, <1>4 DEF RecordSuccess, TypeOK, State, Use
<1>5. ASSUME NEW c \in Calls, RecordFailure(c)
      PROVE  TypeOK'
  <2>1. FailuresNext \in 0 .. FailureThreshold
    BY DEF FailuresNext, TypeOK
  <2>2. calls' \in [Calls -> Use]
    BY <1>3, <1>5 DEF RecordFailure, Use
  <2>3. state' \in State /\ probes' \in 0 .. HalfOpenMax /\ successes' \in 0 .. HalfOpenMax - 1
    BY <1>5 DEF RecordFailure, TypeOK, State
  <2> QED
    BY <1>5, <2>1, <2>2, <2>3 DEF RecordFailure, TypeOK
<1>6. ASSUME NEW c \in Calls, Stored(c) \/ EndsSilently(c)
      PROVE  TypeOK'
  BY <1>6 DEF Stored, EndsSilently, TypeOK, Use, counts
<1>7. CASE EndDispatch \/ Cool
  BY <1>7 DEF EndDispatch, Cool, TypeOK, counts
<1>8. CASE UNCHANGED vars
  BY <1>8 DEF vars, counts, TypeOK
<1> QED
  BY <1>1, <1>2, <1>4, <1>5, <1>6, <1>7, <1>8 DEF Next

(* The counters stay below their limits in every history of calls and reports. *)
THEOREM TypeCorrect == Spec => []TypeOK
  BY InitType, NextType, PTL DEF Spec

-----------------------------------------------------------------------------
(* The budget.  Every probe that is out has been counted, and none is out     *)
(* when the breaker is not half-open: it has become an early call.            *)

ProbesCounted ==
    /\ state = "HALF_OPEN" => Cardinality(Using("probe")) <= probes
    /\ state # "HALF_OPEN" => Using("probe") = {}

LEMMA UsingSize ==
    ASSUME NEW S, S \subseteq Calls
    PROVE  IsFiniteSet(S) /\ Cardinality(S) \in Nat
  BY CallsAssumption, FS_Subset, FS_CardinalityType

LEMMA FewerProbes ==
    ASSUME Using("probe")' \subseteq Using("probe")
    PROVE  Cardinality(Using("probe")') <= Cardinality(Using("probe"))
<1>1. IsFiniteSet(Using("probe"))
  BY UsingSize DEF Using
<1> QED
  BY <1>1, FS_Subset

LEMMA GateKeepsCount ==
    ASSUME TypeOK, ProbesCounted, NEW c \in Calls, AllowRequest(c) \/ CanRequest
    PROVE  ProbesCounted'
<1> DEFINE P == Using("probe")
<1>1. CASE calls' = calls /\ probes' = ProbesSeen
  <2>1. P' = P
    BY <1>1 DEF Using
  <2>2. state' = StateSeen
    BY DEF AllowRequest, CanRequest, MaybeRecover
  <2>3. CASE Recovers
    <3>1. P = {} /\ probes' = 0 /\ state' = "HALF_OPEN"
      BY <1>1, <2>2, <2>3 DEF Recovers, ProbesSeen, StateSeen, ProbesCounted
    <3>2. Cardinality(P') = 0
      BY <2>1, <3>1, FS_EmptySet
    <3> QED
      BY <3>1, <3>2 DEF ProbesCounted
  <2>4. CASE ~Recovers
    BY <1>1, <2>1, <2>2, <2>4 DEF ProbesSeen, StateSeen, ProbesCounted
  <2> QED
    BY <2>3, <2>4
<1>2. CASE AllowRequest(c) /\ Admits /\ StateSeen = "HALF_OPEN"
  <2>1. probes' = ProbesSeen + 1 /\ state' = "HALF_OPEN" /\ P' = P \cup {c} /\ c \notin P
    BY <1>2 DEF AllowRequest, MaybeRecover, Using, TypeOK
  <2>2. Cardinality(P) <= ProbesSeen
    <3>1. CASE Recovers
      <4>1. P = {}
        BY <3>1 DEF Recovers, ProbesCounted
      <4> QED
        BY <3>1, <4>1, FS_EmptySet DEF ProbesSeen
    <3>2. CASE ~Recovers
      BY <1>2, <3>2 DEF ProbesSeen, StateSeen, ProbesCounted
    <3> QED
      BY <3>1, <3>2
  <2>3. IsFiniteSet(P) /\ Cardinality(P) \in Nat
    BY UsingSize DEF Using
  <2>4. Cardinality(P \cup {c}) = Cardinality(P) + 1
    BY <2>1, <2>3, FS_AddElement
  <2>5. Cardinality(P') <= probes'
    <3>1. P' = P \cup {c}
      BY <2>1
    <3>2. ProbesSeen \in Nat
      BY SeenType, BreakerAssumption
    <3> HIDE DEF P
    <3> QED
      BY <2>1, <2>2, <2>3, <2>4, <3>1, <3>2
  <2> QED
    BY <2>1, <2>5 DEF ProbesCounted
<1>3. CASE AllowRequest(c) /\ Admits /\ StateSeen # "HALF_OPEN"
  <2>1. state' = "CLOSED" /\ state = "CLOSED" /\ P' = P
    BY <1>3 DEF AllowRequest, MaybeRecover, Admits, StateSeen, Using, TypeOK
  <2> QED
    BY <2>1 DEF ProbesCounted
<1> QED
  BY <1>1, <1>2, <1>3 DEF AllowRequest, CanRequest

LEMMA ReportKeepsCount ==
    ASSUME TypeOK, ProbesCounted, NEW c \in Calls, RecordSuccess(c) \/ RecordFailure(c)
    PROVE  ProbesCounted'
<1>1. PICK use \in {"answered", "free"} : After(c, use)
  BY DEF RecordSuccess, RecordFailure
<1>2. CASE state' = "HALF_OPEN"
  <2>1. state = "HALF_OPEN" /\ probes' = probes
    BY <1>2 DEF RecordSuccess, RecordFailure
  <2>2. Using("probe")' \subseteq Using("probe")
    BY <1>1 DEF After, Using
  <2>3. /\ Cardinality(Using("probe")') <= Cardinality(Using("probe"))
        /\ Cardinality(Using("probe")) <= probes
    BY <2>1, <2>2, FewerProbes DEF ProbesCounted
  <2>4. /\ Cardinality(Using("probe")) \in Nat /\ Cardinality(Using("probe")') \in Nat
        /\ probes \in Int
    BY UsingSize DEF Using, TypeOK
  <2>5. Cardinality(Using("probe")') <= probes'
    BY <2>1, <2>3, <2>4
  <2> QED
    BY <1>2, <2>5 DEF ProbesCounted
<1>3. CASE state' # "HALF_OPEN"
  <2>1. Using("probe")' = {}
    BY <1>1, <1>3 DEF After, Using
  <2> QED
    BY <1>3, <2>1 DEF ProbesCounted
<1> QED
  BY <1>2, <1>3

LEMMA EndKeepsCount ==
    ASSUME TypeOK, ProbesCounted, NEW c \in Calls, Stored(c) \/ EndsSilently(c)
    PROVE  ProbesCounted'
<1>1. Using("probe")' \subseteq Using("probe") /\ state' = state /\ probes' = probes
  BY DEF Stored, EndsSilently, Using, counts, TypeOK
<1>2. /\ Cardinality(Using("probe")') <= Cardinality(Using("probe"))
      /\ Cardinality(Using("probe")) \in Nat /\ Cardinality(Using("probe")') \in Nat
  BY <1>1, FewerProbes, UsingSize DEF Using
<1>3. probes \in Int
  BY DEF TypeOK
<1> QED
  BY <1>1, <1>2, <1>3 DEF ProbesCounted

(* However the dispatcher's stale looks, the reports of earlier calls, dropped   *)
(* calls and re-openings interleave, a half-open server is never tried with more *)
(* probes than half_open_max_calls.                                              *)
THEOREM BudgetKept == Spec => []ProbesWithinBudget
<1>1. Init => ProbesCounted
  BY DEF Init, ProbesCounted, Using
<1>2. TypeOK /\ ProbesCounted /\ [Next]_vars => ProbesCounted'
  <2> SUFFICES ASSUME TypeOK, ProbesCounted, [Next]_vars PROVE ProbesCounted'
    OBVIOUS
  <2>1. CASE CanRequest
    <3>1. CASE Calls = {}
      <4>1. Using("probe")' = {} /\ Cardinality({}) = 0
        BY <3>1, FS_EmptySet DEF Using
      <4>2. probes' \in Nat
        BY <2>1, SeenType, BreakerAssumption DEF CanRequest
      <4> QED
        BY <4>1, <4>2 DEF ProbesCounted
    <3>2. CASE Calls # {}
      BY <2>1, <3>2, GateKeepsCount
    <3> QED
      BY <3>1, <3>2
  <2>2. CASE EndDispatch \/ Cool \/ UNCHANGED vars
    BY <2>2 DEF EndDispatch, Cool, vars, counts, ProbesCounted, Using
  <2> QED
    BY <2>1, <2>2, GateKeepsCount, ReportKeepsCount, EndKeepsCount DEF Next
<1>3. TypeOK /\ ProbesCounted => ProbesWithinBudget
  <2>1. Cardinality(Using("probe")) \in Nat
    BY UsingSize DEF Using
  <2> QED
    BY <2>1, BreakerAssumption DEF ProbesCounted, ProbesWithinBudget, TypeOK
<1> QED
  BY <1>1, <1>2, <1>3, TypeCorrect, PTL DEF Spec

=============================================================================
