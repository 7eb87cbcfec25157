\* Every operation at once.
SPECIFICATION Spec
CONSTANTS
    w1 = w1  w2 = w2  w3 = w3
    Workers = {w1, w2}
    Clients = {c1, c2, c3, c4}
    Managers = {m1, m2}
    None = None
    OpsOf <- Everyone
    InCluster = FALSE
    CtxMayEnd = TRUE
SYMMETRY Identities
INVARIANTS
    TypeOK
    NoHalfState
PROPERTIES
    BuriedForCause
    InformersFollowPool
