CONSTANTS
    Sizes = {1, 2}
    InitRows = 2
    MaxRows = 3
    MaxOps = 3
    MaxFaults = 1
SPECIFICATION FairSpec
INVARIANTS ListIsCurrent PageInRange OnlyApprovedSent
PROPERTIES PagesSettle
CHECK_DEADLOCK FALSE
