SPECIFICATION MCSpec
CONSTANTS
    scheduler = scheduler
    api = api
    c1 = c1
    hint = hint
    StableKeys = {1, 2}
    LegacyKeys = {3, 4}
    StableOf <- TwoLegacyRows
    Configs = {c1, hint}
    Hinting = {hint}
    Loopback = {1}
    Feeds <- MCFeeds
    Unstorable <- NotJson
    Refreshers = {scheduler, api}
    Scheduler = scheduler
    DefaultAgent = FALSE
    Unreachable = Unreachable
    Unparsable = Unparsable
INVARIANT RefreshIsExact
INVARIANT NoDuplicateNodes
INVARIANT NoOrphanNodes
INVARIANT PlaceholderListsAreRefused
INVARIANT EnginesOfChangedNodesClose
 
ACTION_CONSTRAINT EditsAreBounded
CHECK_DEADLOCK FALSE
