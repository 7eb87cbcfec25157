\* Four goroutines, two half-open probes, and a server that answers no probe with 4xx.
SPECIFICATION FairSpec
CONSTANTS
    Callers = {a, b, c, d}
    FailureThreshold = 5
    HalfOpenMaxCalls = 2
    MayRefuseProbes = FALSE
INVARIANTS
    HalfOpenExclusive
    ClosedIsHealthy
PROPERTIES
    Recovers
