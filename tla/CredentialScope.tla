---------------------------- MODULE CredentialScope ----------------------------
(***************************************************************************)
(* The scope of a credential: which nodes it may use, and how one is chosen. *)
(* The service accepts a scope or refuses it (src/internal/auth/service.go); *)
(* the credentials page (src/web/src/pages/CredentialsPage.tsx) lets the     *)
(* admin put one together and sends it.                                      *)
(***************************************************************************)
EXTENDS Integers, FiniteSets

CONSTANTS Nodes, Groups

(* A binding is the node or the group it names: its type is the set it is in. *)
ASSUME TargetsAssumption == Nodes \cap Groups = {} /\ IsFiniteSet(Nodes)

Targets == Nodes \cup Groups

Modes == {"all", "group", "node"}

Policies == {"random", "sticky", "fixed"}

(* What a form holds, and what a row of credentials and its bindings hold.   *)
Scopes == [mode : Modes, policy : Policies, bindings : SUBSET Targets]

DefaultScope == [mode |-> "all", policy |-> "random", bindings |-> {}]

-------------------------------------------------------------------------------
(* Mutant: a fixed node is any node.                                        *)
MutantNormalized(mode, policy, wanted) ==
    LET range == IF policy = "sticky" THEN "sticky" ELSE "random"
    IN  {s \in {[mode |-> "all",   policy |-> range,   bindings |-> {}],
                [mode |-> "group", policy |-> range,   bindings |-> wanted \cap Groups],
                [mode |-> "node",  policy |-> "fixed", bindings |-> wanted \cap Nodes]} :
            s.mode = mode /\ (mode # "all" => s.bindings # {})}

(* normalizeCredentialScope: the scope as a singleton, or nothing.          *)
Normalized(mode, policy, wanted) ==
    LET range == IF policy = "sticky" THEN "sticky" ELSE "random"
    IN  {s \in {[mode |-> "all",   policy |-> range,   bindings |-> {}],
                [mode |-> "group", policy |-> range,   bindings |-> wanted \cap Groups],
                [mode |-> "node",  policy |-> "fixed", bindings |-> wanted \cap Nodes]} :
            /\ s.mode = mode
            /\ mode = "group" => s.bindings # {}
            /\ mode = "node" => Cardinality(s.bindings) = 1}

(* The service stores exactly this scope when it is sent.                   *)
StoredAsSent(s) == Normalized(s.mode, s.policy, s.bindings) = {s}

-------------------------------------------------------------------------------
(* Mutant: the policy of a range is kept for a node.                         *)
MutantPolicyForBindMode(mode, policy) == IF policy = "sticky" THEN "sticky" ELSE "random"

PolicyForBindMode(mode, policy) ==
    IF mode = "node" THEN "fixed" ELSE IF policy = "sticky" THEN "sticky" ELSE "random"

(* The bindings that go with the mode: of several nodes the first, which may *)
(* be any of them.                                                           *)
KeptBindings(s) ==
    {kept \in SUBSET s.bindings :
        CASE s.mode = "all"   -> kept = {}
          [] s.mode = "group" -> kept = s.bindings \cap Groups
          [] s.mode = "node"  -> /\ kept \subseteq Nodes /\ Cardinality(kept) <= 1
                                 /\ kept = {} => s.bindings \cap Nodes = {}}

NormalizeScope(s) ==
    {[s EXCEPT !.policy = PolicyForBindMode(s.mode, s.policy), !.bindings = kept] :
        kept \in KeptBindings(s)}

ScopeError(s) ==
    \/ s.mode = "group" /\ s.bindings \cap Groups = {}
    \/ s.mode = "node" /\ Cardinality(s.bindings \cap Nodes) # 1

-------------------------------------------------------------------------------
(* The fields of the form.  The options are targets of the form's mode.      *)
SetBindMode(s, mode) ==
    [mode |-> mode, policy |-> PolicyForBindMode(mode, s.policy), bindings |-> {}]

SetSelectionPolicy(s, policy) ==
    IF s.mode = "node" THEN s
    ELSE [s EXCEPT !.policy = IF policy = "sticky" THEN "sticky" ELSE "random"]

NextBindings(s, target) == IF s.mode = "node" THEN {target} ELSE s.bindings \cup {target}

Edits(s) ==
    {SetBindMode(s, mode) : mode \in Modes \ {s.mode}}
    \cup {SetSelectionPolicy(s, policy) : policy \in {"random", "sticky"}}
    \cup {[s EXCEPT !.bindings = NextBindings(s, target)] :
            target \in CASE s.mode = "all"   -> {}
                         [] s.mode = "group" -> Groups
                         [] s.mode = "node"  -> Nodes}
    \cup {[s EXCEPT !.bindings = @ \ {target}] : target \in IF s.mode = "all" THEN {}
                                                            ELSE s.bindings}

===============================================================================
