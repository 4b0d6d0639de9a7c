----------------------------- MODULE RuntimeCache -----------------------------
(***************************************************************************)
(* The in-memory store every proxy request reads                            *)
(* (src/internal/cache/store.go).  One mutex guards it, so each exported    *)
(* method is one atomic step; the callers - request goroutines, the admin   *)
(* API, the scheduler - interleave freely between methods.                  *)
(*                                                                         *)
(* Abstractions.  A username stands for its credential id; a username that  *)
(* is absent from the map is one that is not enabled.  Candidate slices are *)
(* sorted by id and free of duplicates, so sets stand for them.  Time is    *)
(* the number of ticks an open circuit has left, and failure counts stop at *)
(* the threshold, the only number they are compared with.                   *)
(***************************************************************************)
EXTENDS FairRounds, FiniteSets, Sequences

CONSTANTS
    Nodes,              \* the node ids that exist
    Groups,             \* the group ids that exist
    Credentials,        \* the usernames
    Snapshots,          \* what loadSnapshot may return over time
    FailureThreshold,   \* runtime.failure_threshold
    CircuitTicks        \* runtime.circuit_break_seconds, in ticks

BindModes == {"all", "group", "node"}
Policies  == {"random", "fixed", "sticky"}

(* A credential's bindings are the target ids of its bind mode, oldest      *)
(* first: the code skips bindings of any other type.                        *)
CredentialSnapshot ==
    [enabled : BOOLEAN, mode : BindModes, policy : Policies,
     bindings : Seq(Nodes \cup Groups)]

Snapshot ==
    [credentials : [Credentials -> CredentialSnapshot],
     nodes       : SUBSET Nodes,
     groups      : [Groups -> SUBSET Nodes],
     sticky      : [Credentials -> Nodes \cup {NoNode}]]

ASSUME ConstantsAssumption ==
    /\ Nodes \subseteq Nat \ {NoNode}
    /\ IsFiniteSet(Nodes)
    /\ FailureThreshold \in Nat \ {0}
    /\ CircuitTicks \in Nat \ {0}

(* loadNodeGroups keeps the memberships of loaded nodes only.               *)
ASSUME SnapshotsAssumption ==
    \A s \in Snapshots :
        s \in Snapshot /\ \A g \in Groups : s.groups[g] \subseteq s.nodes

VARIABLES
    credentials,    \* credentialsByUsername
    nodes,          \* the ids in nodesByID (and, sorted, allNodeIDs)
    groups,         \* groupNodeIDs
    sticky,         \* stickyNodeIDs, NoNode where the map has no entry
    bags,           \* selectionBags, as rounds
    failures        \* nodeFailures, NoFailure where the map has no entry

config    == <<credentials, nodes, groups>>
cacheVars == <<credentials, nodes, groups, sticky, bags, failures>>

NoFailure == [count |-> 0, tripped |-> FALSE, left |-> 0]

(* tripped: CircuitUntil is set.  left: the ticks until CircuitUntil.       *)
FailureState ==
    [count : 0..FailureThreshold, tripped : BOOLEAN, left : 0..CircuitTicks]

Elements(seq) == {seq[i] : i \in 1..Len(seq)}

-------------------------------------------------------------------------------
(* Candidates.                                                              *)

Open(n)    == failures[n].tripped /\ failures[n].left > 0
Expired(n) == failures[n].tripped /\ failures[n].left = 0

(* The loaded nodes a credential is bound to.  A binding to a deleted or    *)
(* unloaded target contributes nothing.                                     *)
Scope(c) ==
    LET bound == Elements(credentials[c].bindings)
    IN  CASE credentials[c].mode = "all"   -> nodes
          [] credentials[c].mode = "group" -> UNION {groups[g] : g \in bound \cap Groups}
          [] credentials[c].mode = "node"  -> bound \cap nodes

Available(c) == {n \in Scope(c) : ~Open(n)}

(* Mutant: a circuit that has run out lets the node through, its failures    *)
(* are not deleted.                                                         *)
MutantForget(S) == failures

(* Looking for candidates forgets the failures of those whose circuit has   *)
(* run out.                                                                 *)
Forget(S) == [n \in Nodes |-> IF n \in S /\ Expired(n) THEN NoFailure ELSE failures[n]]

-------------------------------------------------------------------------------
(* Selection.  C is the non-empty set of candidates, n the outcome.         *)

(* A single candidate is returned without touching the bag.                 *)
SelectRandom(c, C, n) ==
    IF Cardinality(C) = 1
    THEN n \in C /\ UNCHANGED bags
    ELSE /\ n \in Eligible(bags[c], C)
         /\ bags' = [bags EXCEPT ![c] = Serve(bags[c], C, n)]

(* The sticky choice is kept in memory only.                                *)
SelectSticky(c, C, n) ==
    IF sticky[c] \in C
    THEN n = sticky[c] /\ UNCHANGED <<sticky, bags>>
    ELSE SelectRandom(c, C, n) /\ sticky' = [sticky EXCEPT ![c] = n]

SelectFixed(C, n) == n \in C /\ \A m \in C : n <= m

SelectExcluding(c, excluded, n) ==
    /\ credentials[c].enabled
    /\ LET C == Available(c) \ excluded
       IN  /\ C # {}
           /\ \/ credentials[c].policy = "sticky" /\ SelectSticky(c, C, n)
              \/ credentials[c].policy = "random" /\ SelectRandom(c, C, n) /\ UNCHANGED sticky
              \/ credentials[c].policy = "fixed"  /\ SelectFixed(C, n) /\ UNCHANGED <<sticky, bags>>
    /\ failures' = Forget(Scope(c))
    /\ UNCHANGED config

(* ErrNoCandidateNodes.  Expired failures are forgotten all the same.       *)
SelectNothing(c, excluded) ==
    /\ credentials[c].enabled
    /\ Available(c) \subseteq excluded
    /\ failures' = Forget(Scope(c))
    /\ UNCHANGED <<credentials, nodes, groups, sticky, bags>>

(* A switch picks any other candidate, or the only one there is.            *)
SwitchStickyNode(c, n) ==
    /\ credentials[c].enabled
    /\ credentials[c].policy = "sticky"
    /\ n \in Available(c)
    /\ Cardinality(Available(c)) > 1 => n # sticky[c]
    /\ sticky' = [sticky EXCEPT ![c] = n]
    /\ failures' = Forget(Scope(c))
    /\ UNCHANGED <<credentials, nodes, groups, bags>>

-------------------------------------------------------------------------------
(* Mutant: the deadline is added to the one before.                         *)
MutantReportNodeFailure(n) ==
    LET count == IF failures[n].count < FailureThreshold
                 THEN failures[n].count + 1 ELSE FailureThreshold
        trip  == count >= FailureThreshold
    IN  /\ failures' = [failures EXCEPT ![n] =
                [count   |-> count,
                 tripped |-> failures[n].tripped \/ trip,
                 left    |-> failures[n].left + (IF trip THEN CircuitTicks ELSE 0)]]
        /\ UNCHANGED <<credentials, nodes, groups, sticky, bags>>

(* Failure accounting.  Reports may be about a node that a reload has since *)
(* removed, and about one whose circuit is open: its deadline is renewed.   *)
ReportNodeFailure(n) ==
    LET count == IF failures[n].count < FailureThreshold
                 THEN failures[n].count + 1 ELSE FailureThreshold
        trip  == count >= FailureThreshold
    IN  /\ failures' = [failures EXCEPT ![n] =
                [count   |-> count,
                 tripped |-> failures[n].tripped \/ trip,
                 left    |-> IF trip THEN CircuitTicks ELSE failures[n].left]]
        /\ UNCHANGED <<credentials, nodes, groups, sticky, bags>>

(* Mutant: a success resets the count and forgets the circuit.              *)
MutantReportNodeSuccess(n) ==
    /\ failures' = [failures EXCEPT ![n].count = 0]
    /\ UNCHANGED <<credentials, nodes, groups, sticky, bags>>

ReportNodeSuccess(n) ==
    /\ failures' = [failures EXCEPT ![n] = NoFailure]
    /\ UNCHANGED <<credentials, nodes, groups, sticky, bags>>

(* The admin API's runtime page.                                            *)
RuntimeNodeSnapshots ==
    /\ failures' = Forget(Nodes)
    /\ UNCHANGED <<credentials, nodes, groups, sticky, bags>>

(* Time passes: the clock the code reads with time.Now.                     *)
Tick ==
    /\ \E n \in Nodes : failures[n].left > 0
    /\ failures' = [n \in Nodes |->
            IF failures[n].left > 0
            THEN [failures[n] EXCEPT !.left = failures[n].left - 1]
            ELSE failures[n]]
    /\ UNCHANGED <<credentials, nodes, groups, sticky, bags>>

(* Mutant: the bags survive the reload.                                     *)
MutantLoad(s) ==
    /\ credentials' = s.credentials
    /\ nodes' = s.nodes
    /\ groups' = s.groups
    /\ sticky' = s.sticky
    /\ UNCHANGED <<bags, failures>>

(* The second half of Load: install a snapshot, drop the bags, keep the     *)
(* failures.                                                                *)
Load(s) ==
    /\ credentials' = s.credentials
    /\ nodes' = s.nodes
    /\ groups' = s.groups
    /\ sticky' = s.sticky
    /\ bags' = [c \in Credentials |-> EmptyRound]
    /\ UNCHANGED failures

-------------------------------------------------------------------------------
(* The process loads the cache once before it serves anything.              *)
CacheInit ==
    /\ \E s \in Snapshots :
        /\ credentials = s.credentials
        /\ nodes = s.nodes
        /\ groups = s.groups
        /\ sticky = s.sticky
    /\ bags = [c \in Credentials |-> EmptyRound]
    /\ failures = [n \in Nodes |-> NoFailure]

CacheNext ==
    \/ \E c \in Credentials, excluded \in SUBSET Nodes :
        \/ \E n \in Nodes : SelectExcluding(c, excluded, n)
        \/ SelectNothing(c, excluded)
    \/ \E c \in Credentials, n \in Nodes : SwitchStickyNode(c, n)
    \/ \E n \in Nodes : ReportNodeFailure(n) \/ ReportNodeSuccess(n)
    \/ RuntimeNodeSnapshots
    \/ Tick
    \/ \E s \in Snapshots : Load(s)

CacheSpec == CacheInit /\ [][CacheNext]_cacheVars

-------------------------------------------------------------------------------
Round ==
    {r \in [candidates : SUBSET Nodes, left : SUBSET Nodes, lastSelected : Nodes \cup {NoNode}] :
        r.left \subseteq r.candidates}

CacheTypeOK ==
    /\ credentials \in [Credentials -> CredentialSnapshot]
    /\ nodes \in SUBSET Nodes
    /\ groups \in [Groups -> SUBSET Nodes]
    /\ sticky \in [Credentials -> Nodes \cup {NoNode}]
    /\ bags \in [Credentials -> Round]
    /\ failures \in [Nodes -> FailureState]

(* What a bag may still hand out are nodes its credential is bound to now:  *)
(* Load drops the bags, and a selection compares their candidates besides.  *)
BagsFollowSnapshot ==
    \A c \in Credentials :
        /\ bags[c].candidates \subseteq Scope(c)
        /\ bags[c] # EmptyRound => bags[c].lastSelected \in bags[c].candidates \ bags[c].left

(* A circuit is set exactly when the threshold was reached since the last   *)
(* success or expiry, and only a set circuit has time left.                 *)
CircuitsMatchCounts ==
    \A n \in Nodes :
        /\ failures[n].tripped <=> failures[n].count = FailureThreshold
        /\ failures[n].left > 0 => failures[n].tripped

(* One of the credential's bindings names the node.                         *)
Permitted(c, n) ==
    LET bound == Elements(credentials[c].bindings)
    IN  \/ credentials[c].mode = "all"
        \/ credentials[c].mode = "node" /\ n \in bound
        \/ credentials[c].mode = "group" /\ \E g \in bound \cap Groups : n \in groups[g]

(* A loaded membership is of a loaded node.                                 *)
GroupsAreLoaded == \A g \in Groups : groups[g] \subseteq nodes

(* A node whose failures have reached the threshold is not handed out: those *)
(* that kept it out once are forgotten when its circuit has run out, whoever  *)
(* finds it so, and late reports that came in meanwhile set a new circuit.    *)
(* So the node that is tried again has all its failures to spare.             *)
ServedNodesAreBelowThreshold ==
    [][\A n \in Nodes : failures'[n].count >= FailureThreshold =>
          \A c \in Credentials :
              /\ \A excluded \in SUBSET Nodes : ~SelectExcluding(c, excluded, n)
              /\ ~SwitchStickyNode(c, n)]_cacheVars

===============================================================================
