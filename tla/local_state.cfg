SPECIFICATION MCSpec
CONSTANTS
    a = a
    s = s
    x = x
    y = y
    z = z
    k1 = k1
    k2 = k2
    p1 = p1
    p2 = p2
    p3 = p3
    u1 = u1
    u2 = u2
    None = None
    Dirs = {a, s}
    Files = {x, y, z}
    Kinds = {k1, k2}
    Contents = {"one", "other", "both", "plain"}
    Named = {x, y}
    Likely = {y}
    Declarable = {x, z}
    Entries <- MCEntries
    Order <- MCOrder
    Detected <- MCDetected
    Structured <- MCStructured
    Valid <- MCValid
    Rank <- MCRank
    Documents <- MCDocuments
    MaxVisited = 7
    MaxCandidates = 2
    MaxChanges = 1
    Openers = {p1, p2, p3}
    Urls = {u1, u2}
    MaxFaults = 1
    MaxCrashes = 2
    MaxUses = 2
INVARIANTS
    WithinLimits
    ContentsDiffer
    NothingIsLost
    ReportedOnce
    OpenIsUsable
    UseOutranksMigration
PROPERTIES
    MigrationIsSound
CHECK_DEADLOCK FALSE
