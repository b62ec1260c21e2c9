--------------------------- MODULE BenchmarkStreams ---------------------------
(***************************************************************************)
(* Requests for benchmarks of ASR servers, answered by streams.  A stream  *)
(* reserves the endpoints it loads in a registry all streams share, starts *)
(* one benchmark for each, and gives them back in its finally.  Its reader *)
(* may leave at any time.                                                  *)
(*                                                                         *)
(* Several registered servers may be at one endpoint.  What a benchmark    *)
(* measures is in module Benchmark, what it stores in ServerHealth.        *)
(***************************************************************************)
EXTENDS FiniteSets

CONSTANTS
    Machine, Address,   \* registered servers, and the endpoints they are at
    Locate,             \* the endpoint of each server
    Requests            \* benchmark requests, each made once

ASSUME StreamsAssumption == Locate \in [Machine -> Address]

VARIABLES
    stage,      \* of each stream
    holds,      \* the endpoints it has reserved
    load,       \* the servers whose benchmarks it has yet to see the end of
    held        \* _active_benchmark_endpoints

streamVars == <<stage, holds, load, held>>

Places(L) == {Locate[n] : n \in L}

StreamsInit ==
    /\ stage = [b \in Requests |-> "not made"]
    /\ holds = [b \in Requests |-> {}] /\ load = [b \in Requests |-> {}]
    /\ held = {}

StreamGoes(b, to) == stage' = [stage EXCEPT ![b] = to]

-----------------------------------------------------------------------------
Reserved(b, to, L) ==
    /\ StreamGoes(b, to)
    /\ load' = [load EXCEPT ![b] = L] /\ holds' = [holds EXCEPT ![b] = Places(L)]
    /\ held' = held \cup Places(L)

(* _reserve_benchmark_endpoints, all of them or none; a conflict is answered *)
(* with 409.                                                                 *)
Reserve(b, to, L) ==
    /\ stage[b] = "not made" /\ L # {} /\ Places(L) \cap held = {}
    /\ Reserved(b, to, L)

BenchmarkOne(b) == \E n \in Machine : Reserve(b, "reserved", {n})

(* The stream of a registration reserves when it is already being read. *)
BenchmarkRegistered(b) == \E n \in Machine : Reserve(b, "running", {n})

(* The servers that are ONLINE now, the first of each endpoint. *)
BenchmarkAll(b) ==
    \E L \in SUBSET Machine :
        /\ \A m, n \in L : Locate[m] = Locate[n] => m = n
        /\ Reserve(b, "reserved", L)

(* The stream is read; or its reader left before, and nothing of it runs, *)
(* its finally neither.                                                   *)
StartStream(b) ==
    /\ stage[b] = "reserved" /\ UNCHANGED <<holds, held>>
    /\ \/ StreamGoes(b, "running") /\ UNCHANGED load
       \/ StreamGoes(b, "closed") /\ load' = [load EXCEPT ![b] = {}]

LosesOne(b, n) == n \in load[b] /\ load' = [load EXCEPT ![b] = @ \ {n}] /\ UNCHANGED <<holds, held>>

(* A benchmark ends, with a result that is stored or an error, and the *)
(* stream is told.                                                     *)
BenchEnds(b, n) == stage[b] \in {"running", "stuck"} /\ LosesOne(b, n) /\ UNCHANGED stage

(* The result cannot be stored: no event follows, and the stream waits for *)
(* one until its reader leaves.                                            *)
BenchDies(b, n) == stage[b] \in {"running", "stuck"} /\ LosesOne(b, n) /\ StreamGoes(b, "stuck")

(* The benchmarks are canceled, and their ends awaited. *)
ReaderLeaves(b) ==
    /\ stage[b] \in {"running", "stuck"} /\ StreamGoes(b, "leaving")
    /\ UNCHANGED <<holds, load, held>>

CancelEnds(b, n) == stage[b] = "leaving" /\ LosesOne(b, n) /\ UNCHANGED stage

(* Mutant: the endpoints of a stream that is left are released at once. *)
CloseEarly(b) ==
    /\ \/ stage[b] = "running" /\ load[b] = {} /\ StreamGoes(b, "closed")
       \/ stage[b] = "leaving" /\ UNCHANGED stage
    /\ held' = held \ holds[b]
    /\ UNCHANGED <<holds, load>>

CloseStream(b) ==
    /\ stage[b] \in {"running", "leaving"} /\ load[b] = {}
    /\ StreamGoes(b, "closed")
    /\ held' = held \ holds[b]
    /\ UNCHANGED <<holds, load>>

StreamsNext ==
    \E b \in Requests :
        \/ BenchmarkOne(b) \/ BenchmarkRegistered(b) \/ BenchmarkAll(b)
        \/ StartStream(b) \/ ReaderLeaves(b) \/ CloseStream(b)
        \/ \E n \in Machine : BenchEnds(b, n) \/ BenchDies(b, n) \/ CancelEnds(b, n)

StreamsSpec == StreamsInit /\ [][StreamsNext]_streamVars

-----------------------------------------------------------------------------
(* Properties. *)

(* The servers a stream has under load: their benchmarks run, or are canceled *)
(* and have not ended.                                                        *)
Loaded(b) == IF stage[b] \in {"running", "stuck", "leaving"} THEN load[b] ELSE {}

(* Two benchmarks never load an endpoint together, be they of one stream or *)
(* of two, while streams are opened, left and closed: both would measure an  *)
(* overloaded server, and set its limit.                                     *)
BenchmarkAlone ==
    \A b, c \in Requests : \A m \in Loaded(b), n \in Loaded(c) :
        Locate[m] = Locate[n] => b = c /\ m = n

StreamsTypeOK ==
    /\ stage \in [Requests -> {"not made", "reserved", "running", "stuck", "leaving", "closed"}]
    /\ holds \in [Requests -> SUBSET Address]
    /\ load \in [Requests -> SUBSET Machine]
    /\ held \subseteq Address

=============================================================================
