CONSTANTS
    Nodes <- MCNodes
    Root = 1
    Values <- MCValues
    Texts <- MCTexts
    MaxDocumentBytes = 3
    MaxNestingDepth = 2
    MaxWorkItems = 5
    MaxStructuralItems = 6
    Alphabet <- MCAlphabet
    Capitalized = {"A", "B", "C", "Color"}
    NoObject = NoObject
    Reading <- MCReading
    WithUnions = FALSE
SPECIFICATION MCSpec
INVARIANTS
    NothingIsDropped
CHECK_DEADLOCK FALSE
