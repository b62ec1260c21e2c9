SPECIFICATION ServicesSpec
CONSTANTS
    Records = {r1, r2}
    MaxRetries = 2
    MaxRestarts = 1
    Jobs = {j1}
    Runners = {p1, p2}
    MaxSplitRetry = 1
    MaxFaults = 3
    Request = {1, 2, 3}
    MaxExits = 1
    MinLength = 2
    TargetLength = 4
    MaxLength = 6
    Overlap = 1
    SearchStep = 1
    Rounds = 4
    LongSilence = 2
    ShortSilence = 1
    Lengths = {5, 7, 11, 14}
    Silences <- MCSilences
    Segment = {x1, x2, x3}
    Tick = tick
    MergeRetries = 1
    Nodes = {n1}
    Endpoints = {e1, e2}
    MaxAdmin = 2
    MaxFlips = 2
    Machine = {1, 2, 3}
    Address = {"a", "b"}
    Locate <- MCLocate
    Requests = {q1, q2, q3}
    Levels <- MCLevels
    Times = {2, 3, 5}
    Limits = {1, 3}
    Batches = {b1, b2}
    MaxItems = 3
    MaxRunning = 2
    MaxDaily = 4
    MaxOutages = 1
    RetryLimit = 2
    MaxProgress = 2
    Inputs = {f1, f2}
    RetryAgain = 1
INVARIANTS
    SentWasReceived GivenUpAfterAllTries
    LongOnlyAsSegments FilesWhole PiecesBounded SentencesOnce FirstMergeAlone
    BenchmarkAlone LimitEarned IntakeBounded ReportsStayTrue
PROPERTIES CallbacksSettle LeavesPreprocessing StatusFollowsServer EndIsTold
CHECK_DEADLOCK FALSE
