---------------------------- MODULE BenchmarkProofs ----------------------------
(***************************************************************************)
(* What TLAPS proves of the benchmarks: that no two load an endpoint at a  *)
(* time, for every set of servers, endpoints and requests, and that the    *)
(* limit one sets is earned, for all levels and times.                     *)
(***************************************************************************)
EXTENDS BenchmarkStreams, Benchmark, SequenceTheorems, WellFoundedInduction, TLAPS

-----------------------------------------------------------------------------
(* BenchmarkStreams. *)

LEMMA InitType == StreamsInit => StreamsTypeOK
  BY DEF StreamsInit, StreamsTypeOK

LEMMA PlacesType == ASSUME NEW L \in SUBSET Machine PROVE Places(L) \in SUBSET Address
  BY StreamsAssumption DEF Places

(* Every benchmark that begins is a reservation of distinct endpoints. *)
LEMMA Beginning ==
    ASSUME NEW b \in Requests, BenchmarkOne(b) \/ BenchmarkRegistered(b) \/ BenchmarkAll(b)
    PROVE  \E to \in {"reserved", "running"}, L \in SUBSET Machine :
              Reserve(b, to, L) /\ \A m, n \in L : Locate[m] = Locate[n] => m = n
<1>1. ASSUME NEW n \in Machine
      PROVE  {n} \in SUBSET Machine /\ \A k, l \in {n} : k = l
  OBVIOUS
<1>2. CASE BenchmarkOne(b)
  BY <1>1, <1>2 DEF BenchmarkOne
<1>3. CASE BenchmarkRegistered(b)
  BY <1>1, <1>3 DEF BenchmarkRegistered
<1>4. CASE BenchmarkAll(b)
  BY <1>4 DEF BenchmarkAll
<1> QED
  BY <1>2, <1>3, <1>4

LEMMA NextType == StreamsTypeOK /\ [StreamsNext]_streamVars => StreamsTypeOK'
<1> SUFFICES ASSUME StreamsTypeOK, [StreamsNext]_streamVars PROVE StreamsTypeOK'
  OBVIOUS
<1>1. ASSUME NEW b \in Requests, BenchmarkOne(b) \/ BenchmarkRegistered(b) \/ BenchmarkAll(b)
      PROVE  StreamsTypeOK'
  <2>1. PICK to \in {"reserved", "running"}, L \in SUBSET Machine : Reserve(b, to, L)
    BY <1>1, Beginning
  <2> QED
    BY <2>1, PlacesType DEF Reserve, Reserved, StreamGoes, StreamsTypeOK
<1>2. ASSUME NEW b \in Requests, StartStream(b) \/ ReaderLeaves(b) \/ CloseStream(b)
      PROVE  StreamsTypeOK'
  BY <1>2 DEF StartStream, ReaderLeaves, CloseStream, StreamGoes, StreamsTypeOK
<1>3. ASSUME NEW b \in Requests, NEW n \in Machine, BenchEnds(b, n) \/ BenchDies(b, n) \/ CancelEnds(b, n)
      PROVE  StreamsTypeOK'
  BY <1>3 DEF BenchEnds, BenchDies, CancelEnds, LosesOne, StreamGoes, StreamsTypeOK
<1>4. CASE UNCHANGED streamVars
  BY <1>4 DEF streamVars, StreamsTypeOK
<1> QED
  BY <1>1, <1>2, <1>3, <1>4 DEF StreamsNext

(* The registry and the streams keep their shape. *)
THEOREM TypeCorrect == StreamsSpec => []StreamsTypeOK
  BY InitType, NextType, PTL DEF StreamsSpec

-----------------------------------------------------------------------------
(* A stream that is neither closed nor yet made keeps what it reserved, which *)
(* includes what it loads; no two streams hold the same.  A stream whose       *)
(* reader left early is closed, and what it reserved stays in the registry.    *)

Live(b) == stage[b] \in {"reserved", "running", "stuck", "leaving"}

HoldsKept(b) ==
    Live(b) => /\ holds[b] \subseteq held
               /\ \A m \in load[b] : Locate[m] \in holds[b]
               /\ \A m, n \in load[b] : Locate[m] = Locate[n] => m = n

HeldOnce == \A b, c \in Requests : b # c /\ Live(b) /\ Live(c) => holds[b] \cap holds[c] = {}

Reservations == StreamsTypeOK /\ HeldOnce /\ \A b \in Requests : HoldsKept(b)

LEMMA InitReservations == StreamsInit => Reservations
  BY InitType DEF StreamsInit, Reservations, HeldOnce, HoldsKept, Live

LEMMA ReserveStep ==
    ASSUME Reservations, StreamsTypeOK', NEW b \in Requests, NEW to \in {"reserved", "running"},
           NEW L \in SUBSET Machine, Reserve(b, to, L),
           \A m, n \in L : Locate[m] = Locate[n] => m = n
    PROVE  Reservations'
<1>1. /\ load'[b] = L /\ holds'[b] = Places(L) /\ ~Live(b)
      /\ \A c \in Requests : c # b => stage'[c] = stage[c] /\ load'[c] = load[c] /\ holds'[c] = holds[c]
      /\ held' = held \cup Places(L) /\ Places(L) \cap held = {}
  BY DEF Reserve, Reserved, StreamGoes, Live, Reservations, StreamsTypeOK
<1>2. ASSUME NEW c \in Requests PROVE HoldsKept(c)'
  <2>1. CASE c = b
    BY <1>1, <2>1 DEF HoldsKept, Places
  <2>2. CASE c # b
    BY <1>1, <2>2 DEF Reservations, HoldsKept, Live
  <2> QED
    BY <2>1, <2>2
<1>3. ASSUME NEW c \in Requests, NEW d \in Requests, c # d, Live(c)', Live(d)'
      PROVE  (holds[c] \cap holds[d] = {})'
  <2>1. \A r \in Requests : r # b /\ Live(r)' => Live(r) /\ holds'[r] \subseteq held
    BY <1>1 DEF Reservations, HoldsKept, Live
  <2>2. CASE c = b \/ d = b
    BY <1>1, <1>3, <2>1, <2>2
  <2>3. CASE c # b /\ d # b
    BY <1>1, <1>3, <2>1, <2>3 DEF Reservations, HeldOnce
  <2> QED
    BY <2>2, <2>3
<1> QED
  BY <1>2, <1>3 DEF Reservations, HeldOnce

(* A step of stream b alone, which loses benchmarks but no reservation. *)
LEMMA WorkStep ==
    ASSUME Reservations, StreamsTypeOK', NEW b \in Requests, Live(b), UNCHANGED <<holds, held>>,
           \A c \in Requests : c # b => stage'[c] = stage[c] /\ load'[c] = load[c],
           load'[b] \subseteq load[b]
    PROVE  Reservations'
<1>1. ASSUME NEW c \in Requests PROVE HoldsKept(c)'
  <2>1. CASE c = b
    BY <2>1 DEF Reservations, HoldsKept
  <2>2. CASE c # b
    BY <2>2 DEF Reservations, HoldsKept, Live
  <2> QED
    BY <2>1, <2>2
<1>2. \A c \in Requests : Live(c)' => Live(c)
  BY DEF Live
<1> QED
  BY <1>1, <1>2 DEF Reservations, HeldOnce

LEMMA CloseStep ==
    ASSUME Reservations, StreamsTypeOK', NEW b \in Requests, CloseStream(b)
    PROVE  Reservations'
<1>1. /\ stage'[b] = "closed" /\ Live(b) /\ UNCHANGED <<holds, load>>
      /\ \A c \in Requests : c # b => stage'[c] = stage[c]
      /\ held' = held \ holds[b]
  BY DEF CloseStream, StreamGoes, Live, Reservations, StreamsTypeOK
<1>2. ASSUME NEW c \in Requests PROVE HoldsKept(c)'
  <2>1. CASE c = b
    BY <1>1, <2>1 DEF HoldsKept, Live
  <2>2. CASE c # b /\ Live(c)
    <3>1. holds[c] \cap holds[b] = {}
      BY <1>1, <2>2 DEF Reservations, HeldOnce
    <3> QED
      BY <1>1, <2>2, <3>1 DEF Reservations, HoldsKept
  <2>3. CASE c # b /\ ~Live(c)
    BY <1>1, <2>3 DEF HoldsKept, Live
  <2> QED
    BY <2>1, <2>2, <2>3
<1>3. \A c \in Requests : Live(c)' => Live(c)
  BY <1>1 DEF Live
<1> QED
  BY <1>1, <1>2, <1>3 DEF Reservations, HeldOnce

LEMMA NextReservations == Reservations /\ [StreamsNext]_streamVars => Reservations'
<1> SUFFICES ASSUME Reservations, [StreamsNext]_streamVars PROVE Reservations'
  OBVIOUS
<1>1. StreamsTypeOK /\ StreamsTypeOK'
  BY NextType DEF Reservations
<1>2. ASSUME NEW b \in Requests, BenchmarkOne(b) \/ BenchmarkRegistered(b) \/ BenchmarkAll(b)
      PROVE  Reservations'
  BY <1>1, <1>2, Beginning, ReserveStep
<1>3. ASSUME NEW b \in Requests, StartStream(b) \/ ReaderLeaves(b)
      PROVE  Reservations'
  <2>1. /\ Live(b) /\ UNCHANGED <<holds, held>> /\ load'[b] \subseteq load[b]
        /\ \A c \in Requests : c # b => stage'[c] = stage[c] /\ load'[c] = load[c]
    BY <1>1, <1>3 DEF StartStream, ReaderLeaves, StreamGoes, Live, StreamsTypeOK
  <2> QED
    BY <1>1, <2>1, WorkStep
<1>4. ASSUME NEW b \in Requests, NEW n \in Machine, BenchEnds(b, n) \/ BenchDies(b, n) \/ CancelEnds(b, n)
      PROVE  Reservations'
  <2>1. /\ Live(b) /\ UNCHANGED <<holds, held>> /\ load'[b] \subseteq load[b]
        /\ \A c \in Requests : c # b => stage'[c] = stage[c] /\ load'[c] = load[c]
    BY <1>1, <1>4 DEF BenchEnds, BenchDies, CancelEnds, LosesOne, StreamGoes, Live, StreamsTypeOK
  <2> QED
    BY <1>1, <2>1, WorkStep
<1>5. ASSUME NEW b \in Requests, CloseStream(b)
      PROVE  Reservations'
  BY <1>1, <1>5, CloseStep
<1>6. CASE UNCHANGED streamVars
  BY <1>1, <1>6 DEF streamVars, Reservations, HeldOnce, HoldsKept, Live
<1> QED
  BY <1>2, <1>3, <1>4, <1>5, <1>6 DEF StreamsNext

LEMMA ReservedAlone == Reservations => BenchmarkAlone
<1> SUFFICES ASSUME Reservations,
                    NEW b \in Requests, NEW c \in Requests, NEW m \in Loaded(b), NEW n \in Loaded(c),
                    Locate[m] = Locate[n]
             PROVE  b = c /\ m = n
  BY DEF BenchmarkAlone
<1>1. Live(b) /\ Live(c) /\ m \in load[b] /\ n \in load[c]
  BY DEF Loaded, Live
<1>2. Locate[m] \in holds[b] /\ Locate[m] \in holds[c]
  BY <1>1 DEF Reservations, HoldsKept
<1>3. b = c
  BY <1>1, <1>2 DEF Reservations, HeldOnce
<1> QED
  BY <1>1, <1>3 DEF Reservations, HoldsKept

(* No endpoint is loaded by two benchmarks, whoever asks for them, under     *)
(* whatever names the servers are registered, and whenever readers leave.    *)
THEOREM AloneAlways == StreamsSpec => []BenchmarkAlone
  BY InitReservations, NextReservations, ReservedAlone, PTL DEF StreamsSpec

-----------------------------------------------------------------------------
(* Benchmark. *)

(* A set of numbers below a bound has a greatest one. *)
LEMMA Greatest ==
    ASSUME NEW S \in SUBSET Nat, S # {}, NEW n \in Nat, \A k \in S : k <= n
    PROVE  Max(S) \in S /\ \A k \in S : k <= Max(S)
<1> DEFINE gaps == {n - k : k \in S}
<1>1. gaps \subseteq Nat /\ gaps # {}
  <2>1. \A k \in S : n - k \in Nat
    OBVIOUS
  <2> QED
    BY <2>1
<1>2. PICK g \in gaps : \A h \in gaps : ~(<<h, g>> \in OpToRel(<, Nat))
  BY <1>1, NatLessThanWellFounded, WFMin, Zenon
<1>3. PICK m \in S : g = n - m
  OBVIOUS
<1>4. \A k \in S : k <= m
  <2>1. ASSUME NEW k \in S, k > m PROVE FALSE
    <3>1. n - k \in gaps /\ n - k < g /\ n - k \in Nat /\ g \in Nat
      BY <1>3, <2>1
    <3>2. <<n - k, g>> \in OpToRel(<, Nat)
      BY <3>1 DEF OpToRel
    <3> QED
      BY <1>2, <3>1, <3>2
  <2> QED
    BY <2>1
<1> QED
  BY <1>3, <1>4 DEF Max

LEMMA MaxOfTwo ==
    ASSUME NEW a \in Nat, NEW b \in Nat
    PROVE  Max({a, b}) \in Nat /\ a <= Max({a, b}) /\ b <= Max({a, b})
<1>1. \E n \in Nat : \A k \in {a, b} : k <= n
  <2>1. CASE a <= b
    BY <2>1
  <2>2. CASE b <= a
    BY <2>2
  <2> QED
    BY <2>1, <2>2
<1> QED
  BY <1>1, Greatest

(* The shortest of the times of a level is a time. *)
LEMMA ShortestTime ==
    ASSUME NEW times \in Seq(Times), Len(times) >= 1
    PROVE  Min({times[i] : i \in 1 .. Len(times)}) \in Times
<1> DEFINE S == {times[i] : i \in 1 .. Len(times)}
<1>1. Times \subseteq Nat
  BY BenchmarkAssumption DEF BenchmarkAssumption
<1>2. S \subseteq Times /\ S \subseteq Nat /\ S # {}
  <2>1. 1 \in 1 .. Len(times) /\ \A i \in 1 .. Len(times) : times[i] \in Times
    OBVIOUS
  <2> QED
    BY <1>1, <2>1
<1>3. PICK m \in S : \A k \in S : ~(<<k, m>> \in OpToRel(<, Nat))
  BY <1>2, NatLessThanWellFounded, WFMin, Zenon
<1>4. ASSUME NEW k \in S PROVE m <= k
  <2>1. k \in Nat /\ m \in Nat /\ ~(<<k, m>> \in OpToRel(<, Nat))
    BY <1>2, <1>3
  <2> QED
    BY <2>1 DEF OpToRel
<1> QED
  BY <1>2, <1>4 DEF Min

LEMMA LevelAppended ==
    ASSUME NEW times \in Seq(Times), times # << >>,
           LevelDone(times)
    PROVE  \E m \in Times : gradient' = Append(gradient, m)
<1>1. Len(times) >= 1
  OBVIOUS
<1> QED
  BY <1>1, ShortestTime DEF LevelDone

(* What the levels done say of the server, and the single call's repetitions *)
(* are over when the levels begin.                                           *)
BenchInv ==
    /\ phase \in {"idle", "single", "level", "detect", "stored", "canceled", "unreachable", "misconfigured"}
    /\ Len(gradient) \in 0 .. Len(Levels) /\ Len(repeats) \in 0 .. 1
    /\ gradient \in Seq(Times) /\ repeats \in Seq(Times)
    /\ proved \in Nat /\ limit \in Nat \ {0} /\ complete \in BOOLEAN
    /\ \A k \in 1 .. Len(gradient) : Levels[k] <= proved
    /\ phase = "level" /\ repeats # << >> => Len(gradient) < Len(Levels) /\ Wanted <= proved
    /\ phase \in {"detect", "stored"} /\ complete => Len(gradient) = Len(Levels)
    /\ LimitEarned

(* _detect_optimal_concurrency: the last level of those that pay in a row. *)
LEMMA OptimalLevel ==
    ASSUME BenchInv, gradient # << >>
    PROVE  /\ Optimal \in 1 .. Len(gradient)
           /\ Optimal < Len(gradient) => ~Pays(Optimal + 1)
<1> DEFINE row == {k \in 1 .. Len(gradient) : \A i \in 2 .. k : Pays(i)}
<1>1. Len(gradient) \in Nat /\ Len(gradient) > 0
  BY DEF BenchInv
<1>2. row \in SUBSET Nat /\ 1 \in row /\ \A k \in row : k <= Len(gradient)
  BY <1>1
<1>3. Max(row) \in row /\ \A k \in row : k <= Max(row)
  <2> HIDE DEF row
  <2> QED
    BY <1>1, <1>2, Greatest
<1>4. Optimal = Max(row)
  BY DEF Optimal
<1>5. Optimal < Len(gradient) /\ Pays(Optimal + 1) => Optimal + 1 \in row
  <2> SUFFICES ASSUME Optimal < Len(gradient), Pays(Optimal + 1) PROVE Optimal + 1 \in row
    OBVIOUS
  <2>1. \A i \in 2 .. Optimal + 1 : i \in 2 .. Optimal \/ i = Optimal + 1
    BY <1>1, <1>3, <1>4
  <2>2. \A i \in 2 .. Optimal : Pays(i)
    BY <1>3, <1>4
  <2> QED
    BY <1>1, <1>3, <1>4, <2>1, <2>2
<1> QED
  BY <1>1, <1>3, <1>4, <1>5

LEMMA StoreStep ==
    ASSUME BenchInv, StoreResult
    PROVE  BenchInv'
<1>1. /\ phase = "detect" /\ phase' = "stored" /\ limit = before
      /\ UNCHANGED <<repeats, gradient, complete, before, proved, single>>
  BY DEF StoreResult, BenchInv, LimitEarned
<1>2. CASE gradient = << >>
  <2>1. limit' = limit
    BY <1>1, <1>2 DEF StoreResult, Applied, Recommended, BenchInv
  <2> QED
    BY <1>1, <2>1 DEF BenchInv, LimitEarned, Wanted
<1>3. CASE gradient # << >>
  <2>1. /\ Optimal \in 1 .. Len(gradient) /\ Recommended = Levels[Optimal]
        /\ Levels[Optimal] \in Nat \ {0} /\ Levels[Optimal] <= proved
    BY <1>3, OptimalLevel, BenchmarkAssumption DEF Recommended, BenchmarkAssumption, BenchInv
  <2>2. limit' \in Nat \ {0} /\ limit' \in {limit, Levels[Optimal]}
    BY <2>1 DEF StoreResult, Applied, BenchInv
  <2>3. limit' > before => limit' <= proved
    BY <1>1, <2>1, <2>2 DEF BenchInv
  <2>4. limit' < before => complete /\ limit' = Levels[Optimal]
    BY <1>1, <2>1, <2>2 DEF StoreResult, Applied, BenchInv
  <2>5. complete => Len(gradient) = Len(Levels)
    BY <1>1 DEF BenchInv
  <2>6. \A k \in 1 .. Len(Levels) : Pays(k + 1)' <=> Pays(k + 1)
    BY <1>1 DEF Pays
  <2>7. limit' < before => \E k \in 1 .. Len(Levels) :
           Levels[k] = limit' /\ (k < Len(Levels) => Len(gradient) > k /\ ~Pays(k + 1)')
    BY <1>3, <2>1, <2>4, <2>5, <2>6, OptimalLevel
  <2>8. LimitEarned'
    BY <1>1, <2>1, <2>3, <2>4, <2>7 DEF LimitEarned
  <2> QED
    BY <1>1, <2>2, <2>8 DEF BenchInv
<1> QED
  BY <1>2, <1>3

LEMMA InitBench == BenchInit => BenchInv
<1> SUFFICES ASSUME BenchInit PROVE BenchInv
  OBVIOUS
<1>1. /\ gradient = << >> /\ repeats = << >> /\ Len(gradient) = 0 /\ Len(repeats) = 0
      /\ gradient \in Seq(Times) /\ repeats \in Seq(Times)
  BY DEF BenchInit
<1>2. Len(Levels) \in Nat
  BY BenchmarkAssumption DEF BenchmarkAssumption
<1> QED
  BY <1>1, <1>2 DEF BenchInit, BenchInv, LimitEarned

(* Levels that are done stay below what the server has answered together. *)
LEMMA NextBench == BenchInv /\ [BenchNext]_benchVars => BenchInv'
<1> SUFFICES ASSUME BenchInv, [BenchNext]_benchVars PROVE BenchInv'
  OBVIOUS
<1>0. /\ Levels \in Seq(Nat \ {0}) /\ Len(Levels) \in Nat /\ Limits \subseteq Nat \ {0}
      /\ Times \subseteq Nat \ {0}
  BY BenchmarkAssumption DEF BenchmarkAssumption
<1>00. gradient \in Seq(Times) /\ repeats \in Seq(Times)
  BY DEF BenchInv
<1>1. CASE BeginBenchmark
  BY <1>0, <1>1 DEF BeginBenchmark, BenchInv, LimitEarned
<1>2. ASSUME NEW t \in Times, SingleAnswers(t) PROVE BenchInv'
  <2>1. \/ phase' = "level" /\ repeats' = << >>
        \/ UNCHANGED phase /\ repeats' = <<t>>
    BY <1>2 DEF SingleAnswers, SingleDone
  <2>2. repeats' \in Seq(Times) /\ Len(repeats') \in 0 .. 1
    <3>1. CASE repeats' = << >>
      BY <3>1
    <3>2. CASE repeats' = <<t>>
      BY <3>2
    <3> QED
      BY <2>1, <3>1, <3>2
  <2> QED
    BY <1>2, <2>1, <2>2 DEF SingleAnswers, BenchInv, LimitEarned
<1>3. CASE SingleFails
  <2>1. /\ phase' \in {"level", "unreachable"} /\ phase = "single" /\ repeats' = << >>
        /\ UNCHANGED <<gradient, complete, limit, before, proved>>
    BY <1>3 DEF SingleFails, SingleDone
  <2> QED
    BY <2>1 DEF BenchInv, LimitEarned
<1>4. CASE FallBackToWs
  BY <1>4 DEF FallBackToWs, BenchInv, LimitEarned
<1>5. CASE Connect \/ Fire \/ CallAnswered \/ CallFails
  <2>1. UNCHANGED <<phase, single, repeats, gradient, complete, limit, before, proved>>
    BY <1>5 DEF Connect, Fire, CallAnswered, CallFails, Measured
  <2> QED
    BY <2>1 DEF BenchInv, LimitEarned, Wanted, Pays
<1>6. ASSUME NEW t \in Times, RepeatDone(t) PROVE BenchInv'
  <2>1. /\ phase = "level" /\ Len(gradient) < Len(Levels) /\ Len(gradient) \in Nat
        /\ calls.done = Wanted /\ Wanted \in Nat
        /\ UNCHANGED <<phase, complete, limit, before>>
    BY <1>0, <1>6 DEF RepeatDone, Measuring, AllAnswered, Wanted, BenchInv
  <2>2. proved' \in Nat /\ proved <= proved' /\ Wanted <= proved'
    BY <1>6, <2>1, MaxOfTwo DEF RepeatDone, BenchInv
  <2>3. \A k \in 1 .. Len(gradient) : Levels[k] <= proved'
    <3>1. \A k \in 1 .. Len(gradient) : Levels[k] \in Nat /\ Levels[k] <= proved /\ proved \in Nat
      BY <1>0, <2>1 DEF BenchInv
    <3> QED
      BY <2>2, <3>1
  <2>4. CASE Len(repeats) = 1
    <3>1. LevelDone(Append(repeats, t))
      BY <1>6, <2>4 DEF RepeatDone
    <3>2. PICK m \in Times : gradient' = Append(gradient, m)
      <4>1. Append(repeats, t) \in Seq(Times) /\ Append(repeats, t) # << >>
        BY <1>00
      <4> QED
        BY <3>1, <4>1, LevelAppended
    <3>3. /\ gradient' \in Seq(Times) /\ Len(gradient') = Len(gradient) + 1
          /\ repeats' = << >>
      <4>1. repeats' = << >>
        BY <3>1 DEF LevelDone
      <4> QED
        BY <1>00, <3>2, <4>1
    <3>4. \A k \in 1 .. Len(gradient') : Levels[k] <= proved'
      BY <2>1, <2>2, <2>3, <3>3 DEF Wanted
    <3> QED
      BY <2>1, <2>2, <3>3, <3>4 DEF BenchInv, LimitEarned
  <2>5. CASE Len(repeats) # 1
    <3>1. repeats' = <<t>> /\ UNCHANGED gradient
      BY <1>6, <2>5 DEF RepeatDone
    <3> QED
      BY <2>1, <2>2, <2>3, <3>1 DEF BenchInv, LimitEarned, Wanted
  <2> QED
    BY <2>4, <2>5
<1>7. CASE RepeatFails
  <2>1. /\ phase = "level" /\ Len(gradient) < Len(Levels) /\ Len(gradient) \in Nat
        /\ UNCHANGED <<limit, before, proved>>
    BY <1>0, <1>7 DEF RepeatFails, Measuring, BenchInv
  <2>2. CASE repeats # << >>
    <3>1. LevelDone(repeats) /\ UNCHANGED <<phase, complete>> /\ Wanted <= proved
      BY <1>7, <2>1, <2>2 DEF RepeatFails, BenchInv
    <3>2. PICK m \in Times : gradient' = Append(gradient, m)
      BY <1>00, <2>2, <3>1, LevelAppended
    <3>3. /\ gradient' \in Seq(Times) /\ Len(gradient') = Len(gradient) + 1
          /\ repeats' = << >>
      BY <1>00, <3>1, <3>2 DEF LevelDone
    <3>4. \A k \in 1 .. Len(gradient') : Levels[k] <= proved'
      BY <2>1, <3>1, <3>3 DEF Wanted, BenchInv
    <3> QED
      BY <2>1, <3>1, <3>3, <3>4 DEF BenchInv, LimitEarned
  <2>3. CASE repeats = << >>
    <3>1. /\ phase' = "detect" /\ complete' = FALSE /\ UNCHANGED <<gradient, repeats>>
      BY <1>7, <2>3 DEF RepeatFails
    <3>2. LimitEarned'
      BY <2>1, <3>1 DEF BenchInv, LimitEarned
    <3> QED
      BY <2>1, <2>3, <3>1, <3>2 DEF BenchInv
  <2> QED
    BY <2>2, <2>3
<1>8. CASE AllLevelsDone
  BY <1>8 DEF AllLevelsDone, BenchInv, LimitEarned
<1>9. CASE StoreResult
  BY <1>9, StoreStep
<1>10. CASE Canceled
  BY <1>10 DEF Canceled, BenchInv, LimitEarned
<1>11. CASE UNCHANGED benchVars
  BY <1>11 DEF benchVars, BenchInv, LimitEarned, Wanted, Pays
<1> QED
  BY <1>1, <1>2, <1>3, <1>4, <1>5, <1>6, <1>7, <1>8, <1>9, <1>10, <1>11 DEF BenchNext

(* _apply_benchmark_result: whatever levels there are and however their calls *)
(* end, the limit is raised to no more calls than the server has answered     *)
(* together, and lowered only past a level that was measured and did not pay. *)
THEOREM LimitAlwaysEarned == BenchSpec => []LimitEarned
<1>1. BenchInv => LimitEarned
  BY DEF BenchInv
<1> QED
  BY <1>1, InitBench, NextBench, PTL DEF BenchSpec

=============================================================================
