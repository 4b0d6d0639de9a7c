SPECIFICATION Spec
CONSTANTS
    alice = alice
    bob = bob
    r1 = r1
    r2 = r2
    r3 = r3
    Nodes = {1, 2, 3}
    Groups = {11}
    Credentials = {alice, bob}
    Snapshots <- SafetySnapshots
    Requests = {r1, r2, r3}
    CredentialOf <- OfCredential
    ProtocolOf <- OfProtocol
    FailureThreshold = 2
    CircuitTicks = 1
    MaxAttempts = 2
SYMMETRY Symmetry
ACTION_CONSTRAINT EntriesOfAliceAreWritten
INVARIANT TypeOK
INVARIANT AttemptsOK
INVARIANT EachAttemptCountedOnce
INVARIANT LoggedRequestsFailed
INVARIANT CircuitNeedsDistinctRequests
PROPERTY SelectionsAreLegal
