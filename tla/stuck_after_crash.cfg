\* A crash shortly after a whole-file task has started.
SPECIFICATION FairSpec
CONSTANTS
    long = long  short = short  x1 = x1  x2 = x2  s1 = s1  s2 = s2
    None = None
    Tasks <- OnlyShort
    Segs = {}
    Servers <- OneServer
    Parent <- NoParent
    Cap <- OneCap
    MaxRetry = 1
    SegMaxRetry = 0
    SegParallel = 2
    QueuedRetries = {0}
    Groups <- MCGroups
    MaxRestarts = 1
    Lingering = FALSE
    ApiDuringDispatch = FALSE
\* The runner has nothing to do once every task is settled.
CHECK_DEADLOCK FALSE
PROPERTIES
    EveryTaskSettles
