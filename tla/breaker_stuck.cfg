\* A probe may be dropped between the breaker's permission and the server.
SPECIFICATION FairSpec
CONSTANTS
    Calls = {c1, c2, c3}
    FailureThreshold = 2
    HalfOpenMax = 2
    Silent = {"probe"}
PROPERTIES
    ServerComesBack
