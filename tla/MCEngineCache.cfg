SPECIFICATION Spec
CONSTANTS
    d1 = d1
    d2 = d2
    n1 = n1
    n2 = n2
    e1 = e1
    e2 = e2
    e3 = e3
    old = old
    new = new
    NoEngine = NoEngine
    Dialers = {d1, d2}
    NodeIds = {n1, n2}
    Configs = {old, new}
    Engines = {e1, e2, e3}
    MaxActiveEngines = 1
    IdleTicks = 1
    MaxCalls = 3
CHECK_DEADLOCK FALSE
INVARIANT PoolBounded
INVARIANT PoolHoldsLiveEngines
INVARIANT AtMostOneOwner
INVARIANT DialUsesOwnConfig
 
