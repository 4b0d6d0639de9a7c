SPECIFICATION UnhinderedSpec
CONSTANTS
    scheduler = scheduler
    api = api
    c1 = c1
    hint = hint
    StableKeys = {1, 2}
    LegacyKeys = {}
    StableOf <- NoLegacyRow
    Configs = {c1, hint}
    Hinting = {hint}
    Loopback = {1}
    Feeds <- SmallFeeds
    Unstorable = {}
    Refreshers = {scheduler, api}
    Scheduler = scheduler
    DefaultAgent = FALSE
    Unreachable = Unreachable
    Unparsable = Unparsable
INVARIANT ParsedNodesArePooled
CHECK_DEADLOCK FALSE
