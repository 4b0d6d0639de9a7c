-------------------------- MODULE RuntimeCacheProofs --------------------------
(* Invariants of the runtime cache and what a selection may return, for any   *)
(* sets of nodes, groups and credentials, any snapshots, threshold and        *)
(* circuit time, and any callers.                                             *)
EXTENDS RuntimeCache, TLAPS

(* The parts of the invariant depend on each other: the bags on the scope,    *)
(* the scope on the loaded groups, all of them on the types.                  *)
CacheInv ==
    /\ CacheTypeOK
    /\ GroupsAreLoaded
    /\ BagsFollowSnapshot
    /\ CircuitsMatchCounts

(* A credential's scope consists of loaded nodes its bindings name.           *)
LEMMA ScopeIsPermitted ==
  ASSUME CacheTypeOK, GroupsAreLoaded, NEW c \in Credentials
  PROVE  /\ Scope(c) \subseteq nodes
         /\ Scope(c) \subseteq Nodes
         /\ \A n \in Scope(c) : Permitted(c, n)
<1> credentials[c].mode \in BindModes
  BY DEF CacheTypeOK, CredentialSnapshot
<1>1. CASE credentials[c].mode = "all"
  BY <1>1 DEF Scope, CacheTypeOK, Permitted
<1>2. CASE credentials[c].mode = "group"
  BY <1>2 DEF Scope, CacheTypeOK, Permitted, GroupsAreLoaded
<1>3. CASE credentials[c].mode = "node"
  BY <1>3 DEF Scope, CacheTypeOK, Permitted
<1> QED
  BY <1>1, <1>2, <1>3 DEF BindModes

(* An open round serves only candidates, so does a new one.                   *)
LEMMA EligibleIsCandidate ==
  ASSUME NEW r \in Round, NEW C, NEW n \in Eligible(r, C)
  PROVE  n \in C
BY DEF Eligible, Continues, Round

(* Serving a candidate leaves a round of the candidates without it.           *)
LEMMA ServeIsRound ==
  ASSUME NEW r \in Round, NEW C \in SUBSET Nodes, NEW n \in Eligible(r, C)
  PROVE  /\ Serve(r, C, n) \in Round
         /\ Serve(r, C, n).candidates = C
         /\ Serve(r, C, n).lastSelected = n
         /\ n \in C \ Serve(r, C, n).left
<1>1. n \in C
  BY EligibleIsCandidate
<1> QED
  BY <1>1 DEF Serve, Continues, Round

(* What the random policy does to the bags: nothing, or one served candidate. *)
LEMMA RandomSelection ==
  ASSUME CacheTypeOK, NEW c \in Credentials, NEW C \in SUBSET Nodes, NEW n,
         SelectRandom(c, C, n)
  PROVE  /\ n \in C
         /\ bags' \in [Credentials -> Round]
         /\ \A d \in Credentials :
              \/ bags'[d] = bags[d]
              \/ /\ d = c
                 /\ bags'[d].candidates = C
                 /\ bags'[d].lastSelected = n
                 /\ n \notin bags'[d].left
<1>1. bags \in [Credentials -> Round]
  BY DEF CacheTypeOK
<1>2. CASE n \in C /\ UNCHANGED bags
  BY <1>1, <1>2
<1>3. CASE n \in Eligible(bags[c], C) /\ bags' = [bags EXCEPT ![c] = Serve(bags[c], C, n)]
  <2>1. bags[c] \in Round
    BY <1>1
  <2> QED
    BY <1>1, <1>3, <2>1, ServeIsRound, EligibleIsCandidate
<1> QED
  BY <1>2, <1>3 DEF SelectRandom

(* Whatever the policy, the state of the bag and the sticky choice, a         *)
(* selection returns a loaded node that one of the credential's bindings      *)
(* names, that the caller has not excluded and whose circuit is not open.     *)
LEMMA SelectionIsLegal ==
  ASSUME CacheTypeOK, GroupsAreLoaded, NEW c \in Credentials, NEW excluded,
         NEW n, SelectExcluding(c, excluded, n)
  PROVE  /\ credentials[c].enabled
         /\ n \in Available(c) \ excluded
         /\ n \in nodes
         /\ n \in Nodes
         /\ Permitted(c, n)
         /\ ~(failures[n].tripped /\ failures[n].left > 0)
<1> DEFINE C == Available(c) \ excluded
<1>1. C \in SUBSET Nodes
  BY ScopeIsPermitted DEF Available
<1>2. n \in C
  <2>1. CASE SelectSticky(c, C, n)
    <3>1. CASE n = sticky[c] /\ sticky[c] \in C
      BY <3>1
    <3>2. CASE SelectRandom(c, C, n)
      BY <1>1, <3>2, RandomSelection
    <3> HIDE DEF C
    <3> QED
      BY <2>1, <3>1, <3>2 DEF SelectSticky
  <2>2. CASE SelectRandom(c, C, n)
    BY <1>1, <2>2, RandomSelection
  <2>3. CASE SelectFixed(C, n)
    BY <2>3 DEF SelectFixed
  <2> HIDE DEF C
  <2> QED
    BY <2>1, <2>2, <2>3 DEF SelectExcluding, C
<1> QED
  BY <1>2, ScopeIsPermitted DEF SelectExcluding, Available, Open

-------------------------------------------------------------------------------
(* Forgetting expired failures keeps the types and the circuit accounting.    *)
LEMMA ForgetKeepsCircuits ==
  ASSUME CacheTypeOK, CircuitsMatchCounts, NEW S, failures' = Forget(S)
  PROVE  /\ failures' \in [Nodes -> FailureState]
         /\ CircuitsMatchCounts'
BY ConstantsAssumption
   DEF CacheTypeOK, CircuitsMatchCounts, Forget, NoFailure, FailureState

(* A failure report sets the circuit exactly when it is the last one allowed. *)
LEMMA FailureReportKeepsCircuits ==
  ASSUME CacheTypeOK, CircuitsMatchCounts, NEW n \in Nodes, ReportNodeFailure(n)
  PROVE  /\ failures' \in [Nodes -> FailureState]
         /\ CircuitsMatchCounts'
<1> DEFINE count == IF failures[n].count < FailureThreshold
                    THEN failures[n].count + 1 ELSE FailureThreshold
           after == [count   |-> count,
                     tripped |-> failures[n].tripped \/ count >= FailureThreshold,
                     left    |-> IF count >= FailureThreshold
                                 THEN CircuitTicks ELSE failures[n].left]
<1>1. /\ failures \in [Nodes -> FailureState]
      /\ failures[n].count \in 0..FailureThreshold
      /\ failures[n].tripped \in BOOLEAN
      /\ failures[n].left \in 0..CircuitTicks
  BY DEF CacheTypeOK, FailureState
<1>2. count \in 0..FailureThreshold
  BY <1>1, ConstantsAssumption
<1>3. CircuitTicks \in 0..CircuitTicks
  BY ConstantsAssumption
<1>4. /\ count >= FailureThreshold <=> count = FailureThreshold
      /\ failures[n].tripped => count = FailureThreshold
  BY <1>1, <1>2, ConstantsAssumption DEF CircuitsMatchCounts
<1>5. failures' = [failures EXCEPT ![n] = after]
  BY DEF ReportNodeFailure
<1>6. /\ after \in FailureState
      /\ after.tripped <=> after.count = FailureThreshold
      /\ after.left > 0 => after.tripped
  <2>1. after.count = count
    OBVIOUS
  <2>2. after.tripped <=> count = FailureThreshold
    <3> HIDE DEF count
    <3> QED
      BY <1>1, <1>4
  <2>3. after.left > 0 => after.tripped
    <3> HIDE DEF count
    <3> QED
      BY <1>1, <1>4 DEF CircuitsMatchCounts
  <2>4. after \in FailureState
    <3> HIDE DEF count
    <3> QED
      BY <1>1, <1>2, <1>3 DEF FailureState
  <2> QED
    BY <2>1, <2>2, <2>3, <2>4
<1> HIDE DEF after
<1>7. \A m \in Nodes : failures'[m] = IF m = n THEN after ELSE failures[m]
  BY <1>1, <1>5
<1>8. failures' \in [Nodes -> FailureState]
  BY <1>1, <1>5, <1>6
<1> QED
  BY <1>6, <1>7, <1>8 DEF CircuitsMatchCounts

(* A step that leaves the configuration, the sticky choices and the bags      *)
(* alone keeps everything but the failures as it was.                         *)
LEMMA FailureStepInv ==
  ASSUME CacheInv, failures' \in [Nodes -> FailureState], CircuitsMatchCounts',
         UNCHANGED <<credentials, nodes, groups, sticky, bags>>
  PROVE  CacheInv'
<1>1. \A d \in Credentials : Scope(d)' = Scope(d)
  BY DEF Scope, Elements
<1>2. BagsFollowSnapshot'
  BY <1>1 DEF CacheInv, BagsFollowSnapshot
<1>3. CacheTypeOK' /\ GroupsAreLoaded'
  BY DEF CacheInv, CacheTypeOK, GroupsAreLoaded
<1> QED
  BY <1>2, <1>3 DEF CacheInv

(* A selection forgets, fills or advances a bag, or moves the sticky choice.  *)
LEMMA SelectInv ==
  ASSUME CacheInv, NEW c \in Credentials, NEW excluded \in SUBSET Nodes, NEW n \in Nodes,
         SelectExcluding(c, excluded, n)
  PROVE  CacheInv'
<1> DEFINE C == Available(c) \ excluded
<1> USE DEF CacheInv
<1>1. C \subseteq Scope(c) /\ C \in SUBSET Nodes
  BY ScopeIsPermitted DEF Available
<1>2. /\ failures' \in [Nodes -> FailureState]
      /\ CircuitsMatchCounts'
  BY ForgetKeepsCircuits DEF SelectExcluding
<1>3. UNCHANGED <<credentials, nodes, groups>>
  BY DEF SelectExcluding, config
<1>4. /\ bags' \in [Credentials -> Round]
      /\ \A d \in Credentials :
           \/ bags'[d] = bags[d]
           \/ /\ d = c
              /\ bags'[d].candidates \subseteq Scope(c)
              /\ bags'[d].lastSelected \in bags'[d].candidates \ bags'[d].left
  <2>1. UNCHANGED bags \/ SelectRandom(c, C, n)
    <3>1. \/ SelectSticky(c, C, n)
          \/ SelectRandom(c, C, n)
          \/ UNCHANGED bags
      BY DEF SelectExcluding
    <3> HIDE DEF C
    <3> QED
      BY <3>1 DEF SelectSticky
  <2> HIDE DEF C
  <2>2. CASE UNCHANGED bags
    BY <2>2 DEF CacheTypeOK
  <2>3. CASE SelectRandom(c, C, n)
    <3>1. /\ bags' \in [Credentials -> Round]
          /\ \A d \in Credentials :
               \/ bags'[d] = bags[d]
               \/ /\ d = c
                  /\ bags'[d].candidates = C
                  /\ bags'[d].lastSelected = n
                  /\ n \notin bags'[d].left
      BY <1>1, <2>3, RandomSelection
    <3>2. n \in C
      BY <1>1, <2>3, RandomSelection
    <3> QED
      BY <1>1, <3>1, <3>2
  <2> QED
    BY <2>1, <2>2, <2>3
<1>5. sticky' \in [Credentials -> Nodes \cup {NoNode}]
  <2>1. sticky' = sticky \/ sticky' = [sticky EXCEPT ![c] = n]
    BY DEF SelectExcluding, SelectSticky
  <2> QED
    BY <2>1 DEF CacheTypeOK
<1>6. \A d \in Credentials : Scope(d)' = Scope(d)
  BY <1>3 DEF Scope, Elements
<1>7. BagsFollowSnapshot'
  BY <1>4, <1>6 DEF BagsFollowSnapshot
<1> QED
  BY <1>2, <1>3, <1>4, <1>5, <1>7 DEF CacheTypeOK, GroupsAreLoaded

(* A reload installs groups of loaded nodes and drops the bags.               *)
LEMMA LoadInv ==
  ASSUME CacheInv, NEW s \in Snapshots, Load(s)
  PROVE  CacheInv'
<1>1. s \in Snapshot /\ \A g \in Groups : s.groups[g] \subseteq s.nodes
  BY SnapshotsAssumption
<1>2. /\ bags' = [c \in Credentials |-> EmptyRound]
      /\ EmptyRound \in Round
  BY DEF Load, EmptyRound, Round, NoNode
<1>3. CacheTypeOK'
  BY <1>1, <1>2 DEF Load, CacheInv, CacheTypeOK, Snapshot
<1>4. GroupsAreLoaded'
  BY <1>1 DEF Load, GroupsAreLoaded
<1>5. BagsFollowSnapshot'
  BY <1>2 DEF BagsFollowSnapshot, EmptyRound
<1>6. CircuitsMatchCounts'
  BY DEF Load, CacheInv, CircuitsMatchCounts
<1> QED
  BY <1>3, <1>4, <1>5, <1>6 DEF CacheInv

(* The first snapshot, no bags and no failures.                               *)
LEMMA CacheInit_Inv == CacheInit => CacheInv
<1> SUFFICES ASSUME CacheInit PROVE CacheInv
  OBVIOUS
<1>1. PICK s \in Snapshots :
        credentials = s.credentials /\ nodes = s.nodes /\ groups = s.groups /\ sticky = s.sticky
  BY DEF CacheInit
<1>2. s \in Snapshot /\ \A g \in Groups : s.groups[g] \subseteq s.nodes
  BY SnapshotsAssumption
<1>3. /\ bags = [c \in Credentials |-> EmptyRound]
      /\ EmptyRound \in Round
  BY DEF CacheInit, EmptyRound, Round, NoNode
<1>4. failures \in [Nodes -> FailureState] /\ CircuitsMatchCounts
  BY ConstantsAssumption DEF CacheInit, NoFailure, FailureState, CircuitsMatchCounts
<1>5. CacheTypeOK
  BY <1>1, <1>2, <1>3, <1>4 DEF CacheTypeOK, Snapshot
<1> QED
  BY <1>1, <1>2, <1>3, <1>4, <1>5
     DEF CacheInv, GroupsAreLoaded, BagsFollowSnapshot, EmptyRound

(* Every method of the cache, and the passing of time, keeps the invariant.   *)
LEMMA CacheStepInv == CacheInv /\ [CacheNext]_cacheVars => CacheInv'
<1> SUFFICES ASSUME CacheInv, [CacheNext]_cacheVars PROVE CacheInv'
  OBVIOUS
<1> USE DEF CacheInv
<1>1. ASSUME NEW c \in Credentials, NEW excluded \in SUBSET Nodes, NEW n \in Nodes,
             SelectExcluding(c, excluded, n)
      PROVE  CacheInv'
  BY <1>1, SelectInv
<1>2. ASSUME NEW c \in Credentials, NEW excluded \in SUBSET Nodes, SelectNothing(c, excluded)
      PROVE  CacheInv'
  BY <1>2, ForgetKeepsCircuits, FailureStepInv DEF SelectNothing
<1>3. ASSUME NEW c \in Credentials, NEW n \in Nodes, SwitchStickyNode(c, n)
      PROVE  CacheInv'
  <2>1. failures' \in [Nodes -> FailureState] /\ CircuitsMatchCounts'
    BY <1>3, ForgetKeepsCircuits DEF SwitchStickyNode
  <2>2. /\ UNCHANGED <<credentials, nodes, groups, bags>>
        /\ sticky' = [sticky EXCEPT ![c] = n]
    BY <1>3 DEF SwitchStickyNode
  <2>3. \A d \in Credentials : Scope(d)' = Scope(d)
    BY <2>2 DEF Scope, Elements
  <2>4. BagsFollowSnapshot'
    BY <2>2, <2>3 DEF BagsFollowSnapshot
  <2> QED
    BY <2>1, <2>2, <2>4 DEF CacheTypeOK, GroupsAreLoaded
<1>4. ASSUME NEW n \in Nodes, ReportNodeFailure(n)
      PROVE  CacheInv'
  BY <1>4, FailureReportKeepsCircuits, FailureStepInv DEF ReportNodeFailure
<1>5. ASSUME NEW n \in Nodes, ReportNodeSuccess(n)
      PROVE  CacheInv'
  <2>1. failures' \in [Nodes -> FailureState] /\ CircuitsMatchCounts'
    BY <1>5, ConstantsAssumption
       DEF ReportNodeSuccess, CacheTypeOK, CircuitsMatchCounts, FailureState, NoFailure
  <2> QED
    BY <1>5, <2>1, FailureStepInv DEF ReportNodeSuccess
<1>6. CASE RuntimeNodeSnapshots
  BY <1>6, ForgetKeepsCircuits, FailureStepInv DEF RuntimeNodeSnapshots
<1>7. CASE Tick
  <2>1. failures' \in [Nodes -> FailureState] /\ CircuitsMatchCounts'
    BY <1>7, ConstantsAssumption DEF Tick, CacheTypeOK, CircuitsMatchCounts, FailureState
  <2> QED
    BY <1>7, <2>1, FailureStepInv DEF Tick
<1>8. ASSUME NEW s \in Snapshots, Load(s)
      PROVE  CacheInv'
  BY <1>8, LoadInv
<1>9. CASE UNCHANGED cacheVars
  <2>1. UNCHANGED <<credentials, nodes, groups, sticky, bags>> /\ UNCHANGED failures
    BY <1>9 DEF cacheVars
  <2>2. failures' \in [Nodes -> FailureState] /\ CircuitsMatchCounts'
    BY <2>1 DEF CacheTypeOK, CircuitsMatchCounts
  <2> QED
    BY <2>1, <2>2, FailureStepInv
<1> QED
  BY <1>1, <1>2, <1>3, <1>4, <1>5, <1>6, <1>7, <1>8, <1>9 DEF CacheNext

(* The invariant behind the theorems of this module.                          *)
THEOREM CacheInvariant == CacheSpec => []CacheInv
BY CacheInit_Inv, CacheStepInv, PTL DEF CacheSpec

(* The store's maps hold what they are meant to hold: every snapshot, every   *)
(* selection and every report keeps node ids, rounds and failure states well  *)
(* formed.                                                                    *)
THEOREM CacheTypeCorrect == CacheSpec => []CacheTypeOK
<1>1. CacheInv => CacheTypeOK
  BY DEF CacheInv
<1> QED
  BY <1>1, CacheInvariant, PTL

(* What a bag may still hand out is in its credential's scope, whatever has   *)
(* been reloaded since it was filled.                                         *)
THEOREM BagsAreCurrent == CacheSpec => []BagsFollowSnapshot
<1>1. CacheInv => BagsFollowSnapshot
  BY DEF CacheInv
<1> QED
  BY <1>1, CacheInvariant, PTL

(* A node is kept out only after FailureThreshold failures since its last     *)
(* success or expiry, whatever reports, lookups and reloads interleave.       *)
THEOREM CircuitsAreEarned == CacheSpec => []CircuitsMatchCounts
<1>1. CacheInv => CircuitsMatchCounts
  BY DEF CacheInv
<1> QED
  BY <1>1, CacheInvariant, PTL

(* Whoever is looked at as a candidate and is not kept out is below the       *)
(* threshold once the lookup has forgotten expired failures.                  *)
LEMMA CandidatesAreBelowThreshold ==
  ASSUME CacheTypeOK, GroupsAreLoaded, CircuitsMatchCounts,
         NEW c \in Credentials, NEW n \in Available(c), failures' = Forget(Scope(c))
  PROVE  ~(failures'[n].count >= FailureThreshold)
<1>1. n \in Scope(c) /\ n \in Nodes /\ ~Open(n)
  BY ScopeIsPermitted DEF Available
<1>2. failures[n] \in FailureState
  BY <1>1 DEF CacheTypeOK
<1>3. failures'[n] = IF Expired(n) THEN NoFailure ELSE failures[n]
  BY <1>1 DEF Forget
<1>4. CASE Expired(n)
  BY <1>3, <1>4, ConstantsAssumption DEF NoFailure
<1>5. CASE ~Expired(n)
  <2>1. ~failures[n].tripped
    BY <1>1, <1>2, <1>5 DEF Open, Expired, FailureState
  <2>2. failures[n].count # FailureThreshold
    BY <1>1, <2>1 DEF CircuitsMatchCounts
  <2> QED
    BY <1>2, <1>3, <1>5, <2>2, ConstantsAssumption DEF FailureState
<1> QED
  BY <1>4, <1>5

(* No selection and no switch hands out a node whose failures have reached    *)
(* the threshold: after a circuit the node has all its failures to spare.     *)
THEOREM ServedNodesHaveFailuresLeft == CacheSpec => ServedNodesAreBelowThreshold
<1> DEFINE NotHandedOut(n) ==
        \A c \in Credentials :
            /\ \A excluded \in SUBSET Nodes : ~SelectExcluding(c, excluded, n)
            /\ ~SwitchStickyNode(c, n)
<1>1. ASSUME CacheInv
      PROVE  [\A n \in Nodes : failures'[n].count >= FailureThreshold => NotHandedOut(n)]_cacheVars
  <2> USE <1>1 DEF CacheInv
  <2> SUFFICES ASSUME NEW n \in Nodes, NEW c \in Credentials
               PROVE  /\ \A excluded \in SUBSET Nodes : SelectExcluding(c, excluded, n) =>
                            ~(failures'[n].count >= FailureThreshold)
                      /\ SwitchStickyNode(c, n) => ~(failures'[n].count >= FailureThreshold)
    OBVIOUS
  <2>1. ASSUME NEW excluded \in SUBSET Nodes, SelectExcluding(c, excluded, n)
        PROVE  ~(failures'[n].count >= FailureThreshold)
    <3>1. n \in Available(c)
      BY <2>1, SelectionIsLegal
    <3>2. failures' = Forget(Scope(c))
      BY <2>1 DEF SelectExcluding
    <3> QED
      BY <3>1, <3>2, CandidatesAreBelowThreshold
  <2>2. ASSUME SwitchStickyNode(c, n)
        PROVE  ~(failures'[n].count >= FailureThreshold)
    BY <2>2, CandidatesAreBelowThreshold DEF SwitchStickyNode
  <2> QED
    BY <2>1, <2>2
<1> QED
  BY <1>1, CacheInvariant, PTL DEF ServedNodesAreBelowThreshold

===============================================================================
