CONSTANTS
    Nodes <- MCNodes
    Root = 1
    Values <- MCValues
    Texts <- MCTexts
    MaxDocumentBytes = 3
    MaxNestingDepth = 2
    MaxWorkItems = 5
    MaxStructuralItems = 6
    Alphabet <- MCAlphabet
    Capitalized = {"A", "B", "C", "Color"}
    NoObject = NoObject
    Reading <- MCReading
    WithUnions = TRUE
SPECIFICATION MCSpec
INVARIANTS
    OperationsArePreserved
CHECK_DEADLOCK FALSE
