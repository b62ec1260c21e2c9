\* Two files, one of which may fail once and be tried again.
SPECIFICATION BatchClientSpec
CONSTANTS
    Inputs = {f1, f2}
    RetryAgain = 1
INVARIANT CompleteIsFinal
CHECK_DEADLOCK FALSE
