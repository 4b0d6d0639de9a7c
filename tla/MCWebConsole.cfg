SPECIFICATION Spec

CONSTANTS
    Visited = {"nodes", "groups", "credentials"}
    Texts = {"", "t"}
    Rows = {1}
    Totals = {0, 2}
    Filters = {"none", "f"}
    NoFilter = "none"
    Sizes = {1, 2}
    FirstSize = 1
    Records = {r1, r2}
    NoRecord = NoRecord
    MaxSaves = 2
    Ids = {c1, c2}
    NoId = NoId
    Nodes = {n1, n2}
    Groups = {g1}
    MaxRequests = 1
    MaxItems = 2
    MaxWrites = 2
    MaxEntries = 2
    Watched <- MCWatched

CONSTRAINT OnePartMoves
SYMMETRY Symmetry
CHECK_DEADLOCK FALSE

INVARIANTS
    TypeOK
    SelectionWasShown
    SavesGoToTheirRecord
    SentScopesAreStored
    
    HighlightIsShown

PROPERTIES
    ClampOnlyBeyondEnd
