\* One pod of the hub's cluster, two access tokens, no fault, and the hub of this
\* repository: the access token expires and is never replaced.
SPECIFICATION FairSpec
CONSTANTS
    p1 = p1  p2 = p2  u1 = u1  u2 = u2  t1 = t1  h1 = h1  h2 = h2
    Pods = {p1, p2}
    UIDs = {u1}
    Tokens = {}
    Handlers = {h1, h2}
    HomeOf <- SameHome
    TokenOf <- ServiceAccount
    HubUID = u1
    SA = SA
    None = None
    NamesExpiry = FALSE
    MaxSerial = 2
    MaxFaults = 0
PROPERTIES
    AccessRotates
