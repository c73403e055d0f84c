SPECIFICATION MCSpec
CONSTANTS
    Fetchers = {c1}
    Refreshers = {r1, r2}
    u1 = u1
    u2 = u2
    u3 = u3
    p1 = p1
    p2 = p2
    Urls = {u1, u2, u3}
    Redirects <- MCRedirects
    Refs = {u1, u2}
    Requested = {u1, u2}
    ArtifactPath <- MCArtifactPath
    Paths = {p1, p2}
    Batches <- MCBatches
    Contents = {"a", "b"}
    Valid = {"a"}
    Savable = {"a", "b"}
    Inline = Inline
    Absent = Absent
    MaxFaults = 1
    MaxPublished = 1
INVARIANTS ResultWasServed MismatchIsExplained
PROPERTIES IntegrityIsRepaired RefreshIsRegistered
SYMMETRY Symmetry
CHECK_DEADLOCK FALSE
