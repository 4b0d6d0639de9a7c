---------------------------- MODULE MCConfigReload ----------------------------
(* Two handlers of requests that concern the credential, or of requests that  *)
(* concern nodes, groups and the sticky choice: one concern or the other      *)
(* until all of the former is as it was at first.                             *)
EXTENDS ConfigReload, TLC

CONSTANTS n1, n2, g1, a1, a2

(* Nothing tells one handler from the other.                                  *)
Alike == Permutations({a1, a2})

(* What an admin does to the credential: switch it off and on, give it all    *)
(* nodes, a group or a node, or change one of these and leave the rest.       *)
AllUpdates == {[enabled |-> TRUE],
               [enabled |-> FALSE],
               [mode |-> "all"],
               [mode |-> "group", bindings |-> {g1}],
               [mode |-> "node", bindings |-> {n1}],
               [bindings |-> {n1, n2, g1}],
               [policy |-> "random"]}

FirstAccount == [enabled |-> TRUE, mode |-> "all", policy |-> "sticky"]

SameCredential(view) == view.account = FirstAccount /\ view.bindings = {}

CredentialAsAtFirst ==
    /\ SameCredential(View) /\ SameCredential(cache)
    /\ \A w \in Workers :
        /\ job[w].at \notin {"merging", "rereading", "updating"}
        /\ job[w].at \in {"nodes", "groups", "sticky", "install"} => SameCredential(job[w].seen)

SameNodes(view) ==
    /\ view.nodes = Nodes /\ view.sticky = NoNode
    /\ \A g \in Groups : view.members[g] = Nodes

NodesAsAtFirst ==
    /\ SameNodes(View) /\ SameNodes(cache)
    /\ \A w \in Workers :
        /\ job[w].at \notin {"checking", "storing"}
        /\ job[w].at = "install" => SameNodes(job[w].seen)

(* BOUND of both passing runs: the admin enables and disables one node.       *)
TogglesOneNode == \A n \in Nodes \ {n1} : rows'[n].enabled = rows[n].enabled

OneConcern == CredentialAsAtFirst \/ NodesAsAtFirst

===============================================================================
