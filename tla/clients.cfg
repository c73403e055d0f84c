SPECIFICATION ClientSpec
CONSTANTS
    None = None
    p1 = p1
    p2 = p2
    p3 = p3
    Processes = {p1, p2, p3}
    URLs = {"u", "v", "g"}
    Mentioned <- MCMentioned
    Stem <- MCStem
    GuruMatch = "g"
    MaxURLs = 2
    Loose = TRUE
    MaxFaults = 2
    MaxCrashes = 1
    Callers = {"c"}
    Options <- MCOptions
    Webs <- MCWebs
    WellKnown <- MCWellKnown
    Valid = {1, 3}
    LinkLimit = 2
    MaxCalls = 2
    MaxFailures = 2
INVARIANTS ReportsAreExplained ImportsSurvive OnlyCrashesLitter NothingIsSkipped
PROPERTIES EveryCallEnds
CHECK_DEADLOCK FALSE
