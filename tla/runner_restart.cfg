\* A long task on two servers of one slot, one crash; API calls wait for the dispatcher.
SPECIFICATION FairSpec
CONSTANTS
    long = long  short = short  x1 = x1  x2 = x2  s1 = s1  s2 = s2
    None = None
    Tasks <- OnlyLong
    Segs <- MCSegs
    Servers <- MCServers
    Parent <- MCParent
    Cap <- MCCap
    MaxRetry = 1
    SegMaxRetry = 1
    SegParallel = 2
    QueuedRetries = {0}
    Groups <- MCGroups
    MaxRestarts = 1
    Lingering = FALSE
    ApiDuringDispatch = FALSE
\* The runner has nothing to do once every task is settled.
CHECK_DEADLOCK FALSE
INVARIANTS
    SuccessIsComplete
    SlotHeldUntilSettled
PROPERTIES
    FinishedSegmentsKept
    CanceledStaysCanceled
    SegmentsResume
    SettlesWithoutCrash
    LifecycleKept
