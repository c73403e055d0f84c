SPECIFICATION MCSpec
CONSTANTS
    w1 = w1
    w2 = w2
    w3 = w3
    Writers = {w1, w2, w3}
    Contents <- MCContents
    Size <- MCSize
    Requests <- AllRequests
    Old = Old
    OldContent = "old"
    Absent = Absent
    MaxFaultsInOverlap = 0
    MaxFaults = 2
    MaxCrashes = 1
CHECK_DEADLOCK FALSE
SYMMETRY WriterSymmetry
INVARIANTS PublishedIsComplete NoLitter LastWriteIsReported
PROPERTIES ArtifactSurvives TurnsAreAtomic TurnsAreDurable
