SPECIFICATION MCSpec
CONSTANTS
    w1 = w1
    w2 = w2
    w3 = w3
    Writers = {w1}
    Contents <- MCContents
    Size <- MCSize
    Requests <- AllRequests
    Old = Old
    OldContent = "old"
    Absent = Absent
    MaxFaultsInOverlap = 0
    MaxFaults = 0
    MaxCrashes = 0
CHECK_DEADLOCK FALSE
PROPERTIES PathNeverVanishes
