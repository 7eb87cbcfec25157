\* A rolling update in the hub's own cluster: two pods, no bootstrap token, one Secret.
SPECIFICATION Spec
CONSTANTS
    p1 = p1  p2 = p2  u1 = u1  u2 = u2  t1 = t1  h1 = h1  h2 = h2
    Pods = {p1, p2}
    UIDs = {u1}
    Tokens = {}
    Handlers = {h1, h2}
    HomeOf <- SameHome
    TokenOf <- ServiceAccount
    HubUID = u1
    SA = SA
    None = None
    NamesExpiry = FALSE
    MaxSerial = 2
    MaxFaults = 2
SYMMETRY HandlerSymmetry
INVARIANTS
    TypeOK
    RegistrationRevokes
    RotatedOutNotAcked
PROPERTIES
    NoRevival
