\* Three requests, two of them for one target; two grants.
SPECIFICATION Spec
CONSTANTS
    r1 = r1  r2 = r2  r3 = r3  t1 = t1  t2 = t2  o1 = o1  o2 = o2
    Requests = {r1, r2, r3}
    Ids = {g1, g2}
    Targets = {t1, t2}
    Origins = {o1, o2}
    TargetOf <- TwoTargets
    OriginOf <- TwoOrigins
    None = None
    OneTimeTTL = 1
    SessionTTL = 2
    MaxItems = 2
    MaxTime = 2
SYMMETRY Symmetry
INVARIANTS OneTimeServesOne BridgeTold
PROPERTIES RevokedStopsRegistered
CHECK_DEADLOCK FALSE
