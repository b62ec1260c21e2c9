------------------------------ MODULE Benchmark ------------------------------
(***************************************************************************)
(* One benchmark of one server: a single call first, by wss and, when the  *)
(* server was not reached so, by ws; then level after level of concurrent  *)
(* calls, each level twice, until one fails.  The calls of a level connect, *)
(* wait for each other, and are fired together.  The level to recommend is  *)
(* found from the levels done, and the server's limit is set to it.         *)
(*                                                                         *)
(* A second repetition that fails is forgiven: the first counts.  Times    *)
(* are in units of the length of the sample.                               *)
(***************************************************************************)
EXTENDS Integers, Sequences, FiniteSets, FiniteSetsExt

CONSTANTS
    Levels,        \* CONCURRENCY_GRADIENT, the calls of each level
    Times,         \* times a call, or a level, may take
    Limits         \* limits the server may have before

ASSUME BenchmarkAssumption ==
    Levels \in Seq(Nat \ {0}) /\ Len(Levels) > 0 /\ Levels[1] = 1 /\ Times \subseteq Nat \ {0} /\ Limits \subseteq Nat \ {0}

VARIABLES
    phase,         \* "idle", "single", "level", or how it ended
    secure,        \* whether it speaks wss
    single,        \* the time of the single call, 0 before
    repeats,       \* the times of the repetitions done
    calls,         \* the calls of the level: [waiting, fired, done, failed]
    gradient,      \* the times of the levels done
    complete,      \* gradient_complete
    limit, before, \* max_concurrency of the server, now and before
    proved         \* most calls the server has answered together, all of them

benchVars == <<phase, secure, single, repeats, calls, gradient, complete, limit, before, proved>>

NoCalls == [waiting |-> 0, fired |-> 0, done |-> 0, failed |-> 0]
Wanted  == Levels[Len(gradient) + 1]

BenchInit ==
    /\ phase = "idle" /\ secure = TRUE /\ single = 0
    /\ repeats = << >> /\ calls = NoCalls /\ gradient = << >> /\ complete = TRUE
    /\ limit = 1 /\ before = 1 /\ proved = 0

(* The samples may be missing, which is no fault of the server. *)
BeginBenchmark ==
    /\ phase = "idle" /\ phase' \in {"single", "misconfigured"}
    /\ limit' \in Limits /\ before' = limit'
    /\ UNCHANGED <<secure, single, repeats, calls, gradient, complete, proved>>

-----------------------------------------------------------------------------
(* Phase 1, and the fallback to ws. *)

SingleDone(times) ==
    /\ single' = Min({times[i] : i \in 1 .. Len(times)})
    /\ repeats' = << >> /\ phase' = "level"

SingleAnswers(t) ==
    /\ phase = "single"
    /\ IF Len(repeats) = 1 THEN SingleDone(Append(repeats, t))
                           ELSE repeats' = <<t>> /\ UNCHANGED <<phase, single>>
    /\ UNCHANGED <<secure, calls, gradient, complete, limit, before, proved>>

SingleFails ==
    /\ phase = "single"
    /\ \/ repeats # << >> /\ SingleDone(repeats)
       \/ repeats = << >> /\ phase' = "unreachable" /\ UNCHANGED <<single, repeats>>
    /\ UNCHANGED <<secure, calls, gradient, complete, limit, before, proved>>

(* Some errors by wss are no reason to try ws. *)
FallBackToWs ==
    /\ phase = "unreachable" /\ secure
    /\ phase' = "single" /\ secure' = FALSE
    /\ UNCHANGED <<single, repeats, calls, gradient, complete, limit, before, proved>>

-----------------------------------------------------------------------------
(* Phase 2: _benchmark_concurrent for each repetition of each level. *)

Measuring == phase = "level" /\ Len(gradient) < Len(Levels)
Measured  == UNCHANGED <<phase, secure, single, repeats, gradient, complete, limit, before, proved>>

Connect ==
    /\ Measuring /\ calls.waiting < Wanted /\ calls.fired + calls.done + calls.failed = 0
    /\ calls' = [calls EXCEPT !.waiting = @ + 1] /\ Measured

(* All are ready; a level of one does not wait. *)
Fire ==
    /\ Measuring /\ calls.waiting = Wanted
    /\ calls' = [calls EXCEPT !.waiting = 0, !.fired = Wanted] /\ Measured

CallAnswered ==
    /\ Measuring /\ calls.fired > 0
    /\ calls' = [calls EXCEPT !.fired = @ - 1, !.done = @ + 1] /\ Measured

CallFails ==
    /\ Measuring /\ calls.fired > 0
    /\ calls' = [calls EXCEPT !.fired = @ - 1, !.failed = @ + 1] /\ Measured

(* Mutant: a level counts when one of its calls was answered. *)
SomeAnswered == calls.fired = 0 /\ calls.done > 0

AllAnswered == calls.done = Wanted

LevelDone(times) ==
    /\ gradient' = Append(gradient, Min({times[i] : i \in 1 .. Len(times)}))
    /\ repeats' = << >>

RepeatDone(t) ==
    /\ Measuring /\ AllAnswered
    /\ calls' = NoCalls
    /\ proved' = Max({proved, calls.done})
    /\ IF Len(repeats) = 1 THEN LevelDone(Append(repeats, t)) ELSE repeats' = <<t>> /\ UNCHANGED gradient
    /\ UNCHANGED <<phase, secure, single, complete, limit, before>>

(* A call did not connect, failed, or the time is up. *)
RepeatFails ==
    /\ Measuring /\ ~AllAnswered
    /\ calls' = NoCalls
    /\ \/ repeats # << >> /\ LevelDone(repeats) /\ UNCHANGED <<phase, complete>>
       \/ repeats = << >> /\ complete' = FALSE /\ phase' = "detect" /\ UNCHANGED <<gradient, repeats>>
    /\ UNCHANGED <<secure, single, limit, before, proved>>

AllLevelsDone ==
    /\ phase = "level" /\ Len(gradient) = Len(Levels) /\ phase' = "detect"
    /\ UNCHANGED <<secure, single, repeats, calls, gradient, complete, limit, before, proved>>

-----------------------------------------------------------------------------
(* The level to recommend. *)

(* Ten percent more throughput than the level before, and no file takes more *)
(* than twice the time it takes alone.                                       *)
Pays(i) ==
    /\ 10 * gradient[i] * Levels[i - 1] <= 9 * gradient[i - 1] * Levels[i]
    /\ gradient[i] <= 2 * single

(* _detect_optimal_concurrency: up to the first level that does not pay. *)
Optimal == Max({k \in 1 .. Len(gradient) : \A i \in 2 .. k : Pays(i)})

Recommended == IF gradient = << >> THEN 1 ELSE Levels[Optimal]

(* _apply_benchmark_result: levels that were not tried are no reason to lower *)
(* the limit.                                                                 *)
Applied(n) == IF ~(complete /\ gradient # << >>) /\ n < limit THEN limit ELSE n

StoreResult ==
    /\ phase = "detect" /\ phase' = "stored"
    /\ limit' = Applied(Recommended)
    /\ UNCHANGED <<secure, single, repeats, calls, gradient, complete, before, proved>>

(* The reader of the stream leaves: calls that were fired are canceled, calls *)
(* that wait for others are left waiting.                                     *)
Canceled ==
    /\ phase \in {"single", "level", "detect"} /\ phase' = "canceled"
    /\ calls' = IF calls.waiting > 0 THEN calls ELSE NoCalls
    /\ UNCHANGED <<secure, single, repeats, gradient, complete, limit, before, proved>>

BenchNext ==
    \/ BeginBenchmark \/ SingleFails \/ FallBackToWs \/ Connect \/ Fire \/ CallAnswered \/ CallFails
    \/ RepeatFails \/ AllLevelsDone \/ StoreResult \/ Canceled
    \/ \E t \in Times : SingleAnswers(t) \/ RepeatDone(t)

BenchSpec == BenchInit /\ [][BenchNext]_benchVars

-----------------------------------------------------------------------------
(* Properties. *)

(* The limit is raised no further than to a number of calls the server has   *)
(* answered together, all of them, and is lowered only when every level was   *)
(* tried and the next one was measured and did not pay.                       *)
LimitEarned ==
    /\ limit > before => limit <= proved
    /\ limit < before =>
         /\ complete /\ limit <= proved
         /\ \E k \in 1 .. Len(Levels) :
              Levels[k] = limit /\ (k < Len(Levels) => Len(gradient) > k /\ ~Pays(k + 1))
    /\ phase # "stored" => limit = before

=============================================================================
