SPECIFICATION MCSpec
CONSTANTS
    Handles = {h1, h2, h3}
    h1 = h1
    h2 = h2
    h3 = h3
    Queries = {1, 2}
    Results = {1, 2}
    Urls = {1, 2}
    Artifacts = {1, 2}
    Contents = {"a", "big"}
    Size <- MCSize
    Absent = Absent
    Budget <- MCBudget
    Limit <- MCLimit
    MaxAge = 0
    MaxCalls = 3
    MaxSecond = 1
    MaxFaults = 1
    MaxRewrites = 1
INVARIANTS Bounded HitIsSound
PROPERTIES TablesAreLru
CHECK_DEADLOCK FALSE
