\* A long and a short task share two servers of one slot; no crash, no emergency stop.
SPECIFICATION Spec
CONSTANTS
    long = long  short = short  x1 = x1  x2 = x2  s1 = s1  s2 = s2
    None = None
    Tasks <- MCTasks
    Segs <- MCSegs
    Servers <- MCServers
    Parent <- MCParent
    Cap <- MCCap
    MaxRetry = 1
    SegMaxRetry = 0
    SegParallel = 2
    QueuedRetries = {0}
    Groups = {}
    MaxRestarts = 0
    Lingering = FALSE
    ApiDuringDispatch = TRUE
SYMMETRY MCSymmetry
\* The runner has nothing to do once every task is settled.
CHECK_DEADLOCK FALSE
INVARIANTS
    TypeOK
    OneRunPerItem
    SlotsRespected
    SlotsUsed
    SuccessNotifiedOnce
    FailureNotifiedWhenFinal
    CancelFreesSegments
    SuccessIsWhole
    WholeFileOrSegments
