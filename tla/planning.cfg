SPECIFICATION PlanningSpec
CONSTANTS
    Calls = {c1, c2, c3}
    FailureThreshold = 2
    HalfOpenMax = 2
    Silent = {"early"}
    Items <- MCItems
    Whole = "whole"
    PartOf <- MCPartOf
    Hosts = {"a", "b"}
    NoHost = "none"
    MaxSlots <- MCMaxSlots
    MaxParallel = 1
    MaxAttempts <- MCAttempts
    MaxChanges = 1
    Machines = {1, 2, 3}
    Profiles <- MCProfiles
    Durations = {1, 4}
    MaxBatch = 3
    Overhead = 1
    AverageTask = 3
    Streams = {1, 2, 3}
    Carries <- MCCarries
    Factors = {8, 20}
    MaxTurns = 2
INVARIANTS TypeOK ProbesWithinBudget PoolIndexed ParallelWithinLimit AnswerIsPlan
PROPERTIES EveryItemIsPlaced  ServerComesBack
CHECK_DEADLOCK FALSE
