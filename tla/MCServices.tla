----------------------------- MODULE MCServices -----------------------------
(***************************************************************************)
(* What works beside the dispatcher, as TLC checks it: the delivery of     *)
(* callbacks, preprocessing, conversion and segmentation of audio, the     *)
(* merge, the health and the benchmarks of servers, the intake of tasks,   *)
(* and the clients that watch them.  They share no state (what each leaves *)
(* open of the others is said in its module), so that a behaviour shows    *)
(* one of them at work and the others at rest, where nothing fair of       *)
(* theirs is enabled.                                                      *)
(***************************************************************************)
EXTENDS CallbackOutbox, Preprocessing, Conversion, Segmentation, MergeLock,
        ServerHealth, BenchmarkStreams, Benchmark, Intake, EventStream, BatchClient, TLC

Silence(a, b) == [from |-> a, to |-> b]
MCSilences    == {Silence(2, 4), Silence(4, 6), Silence(6, 7), Silence(7, 10), Silence(9, 11), Silence(3, -1)}

MCLocate == <<"a", "a", "b">>
MCLevels == <<1, 2, 4>>

VARIABLE at    \* the part at work

allVars == <<vars, prepVars, conversionVars, segmentationVars, mergeVars, healthVars,
             streamVars, benchVars, intakeVars, eventVars, batchVars>>

Parts == {"outbox", "preprocessing", "conversion", "segmentation", "merge", "health",
          "streams", "benchmark", "intake", "events", "batch"}

ServicesInit ==
    /\ at \in Parts
    /\ Init /\ PrepInit /\ ConversionInit /\ SegmentationInit /\ MergeInit /\ HealthInit
    /\ StreamsInit /\ BenchInit /\ IntakeInit /\ EventInit /\ BatchClientInit

(* Every part but p is at rest. *)
Only(p) ==
    /\ at = p /\ UNCHANGED at
    /\ p = "outbox"        \/ UNCHANGED vars
    /\ p = "preprocessing" \/ UNCHANGED prepVars
    /\ p = "conversion"    \/ UNCHANGED conversionVars
    /\ p = "segmentation"  \/ UNCHANGED segmentationVars
    /\ p = "merge"         \/ UNCHANGED mergeVars
    /\ p = "health"        \/ UNCHANGED healthVars
    /\ p = "streams"       \/ UNCHANGED streamVars
    /\ p = "benchmark"     \/ UNCHANGED benchVars
    /\ p = "intake"        \/ UNCHANGED intakeVars
    /\ p = "events"        \/ UNCHANGED eventVars
    /\ p = "batch"         \/ UNCHANGED batchVars

ServicesNext ==
    \/ Only("outbox") /\ Next
    \/ Only("preprocessing") /\ PrepNext
    \/ Only("conversion") /\ ConversionNext
    \/ Only("segmentation") /\ SegmentationNext
    \/ Only("merge") /\ MergeNext
    \/ Only("health") /\ HealthNext
    \/ Only("streams") /\ StreamsNext
    \/ Only("benchmark") /\ BenchNext
    \/ Only("intake") /\ IntakeNext
    \/ Only("events") /\ EventNext
    \/ Only("batch") /\ BatchClientNext

ServicesSpec ==
    /\ ServicesInit /\ [][ServicesNext]_<<at, allVars>>
    /\ Fairness /\ PrepFairness /\ HealthFairness /\ EventFairness

=============================================================================
