\* What becomes of removed clusters and idle informers, of an in-cluster row.
SPECIFICATION FairSpec
CONSTANTS
    w1 = w1  w2 = w2  w3 = w3
    Workers = {w1, w2}
    Clients = {c1, c2, c3, c4}
    Managers = {m1, m2}
    None = None
    OpsOf <- Consumers
    InCluster = TRUE
    CtxMayEnd = FALSE
INVARIANTS
    CleanupOwed
PROPERTIES
    RemovedGoesQuiet
    IdleStops
