CONSTANTS
    a = a
    b = b
    plat = plat
    def = def
    ra = ra
    Roles = {plat, def, ra}
    Existing = {plat, ra}
    Perms = {p}
    Emails = {e}
    Tenants = {a, b}
    GroupOf <- MCGroupOf
    None = None
    Absent = Absent
    MaxOps = 5
    MaxFaults = 1
SPECIFICATION FairSpec
INVARIANTS TypeOK EditShowsOwnRole AssignmentFitsRole AccountsAreComplete
PROPERTIES SuccessMeansStored SavesEnd
CHECK_DEADLOCK FALSE
