SPECIFICATION Spec
CONSTANTS
    n1 = n1
    n2 = n2
    g1 = g1
    a1 = a1
    a2 = a2
    Nodes = {n1, n2}
    Groups = {g1}
    Workers = {a1, a2}
    Scheduler = scheduler
    Updates <- AllUpdates
    Handlers = {"credential", "node", "check", "group", "switch"}
    NoNode = NoNode
SYMMETRY Alike
ACTION_CONSTRAINT TogglesOneNode
CONSTRAINT OneConcern
INVARIANT StoredScopeOK
INVARIANT GroupsWithinNodes
INVARIANT ReloadIsExact
PROPERTY DeletedForGood
