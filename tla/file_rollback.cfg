SPECIFICATION MCSpec
CONSTANTS
    w1 = w1
    w2 = w2
    w3 = w3
    Writers = {w1, w2}
    Contents <- MCContents
    Size <- MCSize
    Requests <- FewRequests
    Old = Old
    OldContent = "old"
    Absent = Absent
    MaxFaultsInOverlap = 1
    MaxFaults = 1
    MaxCrashes = 0
CHECK_DEADLOCK FALSE
PROPERTIES DifferingContentRequiresForce
