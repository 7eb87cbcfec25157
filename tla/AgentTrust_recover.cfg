\* A pod of the hub's cluster beside one of a remote cluster, from which a Secret
\* may be restored, with one fault, against a hub that may also name expiry: safety
\* across clusters and recovery from 410.
SPECIFICATION FairSpec
CONSTANTS
    p1 = p1  p2 = p2  u1 = u1  u2 = u2  t1 = t1  h1 = h1  h2 = h2
    Pods = {p1, p2}
    UIDs = {u1, u2}
    Tokens = {t1}
    Handlers = {h1, h2}
    HomeOf <- TwoHomes
    TokenOf <- MixedProof
    HubUID = u1
    SA = SA
    None = None
    NamesExpiry = TRUE
    MaxSerial = 2
    MaxFaults = 1
INVARIANTS
    HeldCredentialsBacked
    SingleUse
PROPERTIES
    KeepsPromise
    LocalPodsRecover
