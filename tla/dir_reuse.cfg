SPECIFICATION MCSpec
CONSTANTS
    t1 = t1
    t2 = t2
    t3 = t3
    Transactions = {t1, t2}
    Files = {1, 2}
    Data = {"x", "y"}
    Plans <- PairPlans
    Old = Old
    OldTree <- MCOldTree
    Absent = Absent
    MaxFaultsInOverlap = 0
    MaxFaults = 0
    MaxCrashes = 0
CHECK_DEADLOCK FALSE
INVARIANTS ReuseIsIdentical
