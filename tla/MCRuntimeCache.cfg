SPECIFICATION CacheSpec
CONSTANTS
    alice = alice
    bob = bob
    Nodes = {1, 2, 3}
    Groups = {11, 12}
    Credentials = {alice, bob}
    Snapshots <- MCSnapshots
    FailureThreshold = 2
    CircuitTicks = 1
INVARIANT BagsFollowSnapshot
INVARIANT CircuitsMatchCounts
PROPERTY ServedNodesAreBelowThreshold
