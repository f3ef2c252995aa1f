CONSTANTS
    t1 = t1
    t2 = t2
    r1 = r1
    r2 = r2
    r3 = r3
    Tabs = {t1, t2}
    Requests = {r1, r2, r3}
    TabOf <- MCTabOf
    Users = {u1, u2}
    NoUser = NoUser
    Gone = Gone
    MaxPairs = 3
    MaxFaults = 1
    MaxOps = 3
SPECIFICATION FairSpec
PROPERTY RequestsSettle
INVARIANTS TypeOK LogoutHasCause StoredPairAlive IdentityMatches
CHECK_DEADLOCK FALSE
