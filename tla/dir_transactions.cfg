SPECIFICATION MCSpec
CONSTANTS
    t1 = t1
    t2 = t2
    t3 = t3
    Transactions = {t1, t2}
    Files = {1, 2}
    Data = {"x", "y"}
    Plans <- MCPlans
    Old = Old
    OldTree <- MCOldTree
    Absent = Absent
    MaxFaultsInOverlap = 2
    MaxFaults = 3
    MaxCrashes = 1
CHECK_DEADLOCK FALSE
SYMMETRY TransactionSymmetry
INVARIANTS TreesAreWhole NoLitter
PROPERTIES PublishedTreeSurvives NoForceLeavesOthers TurnsAreAtomic
