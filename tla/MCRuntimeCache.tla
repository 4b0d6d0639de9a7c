---------------------------- MODULE MCRuntimeCache ----------------------------
(* Two credentials of different policies over three nodes, and snapshots     *)
(* between which a node leaves, a binding dangles, the policy changes and a   *)
(* credential is disabled.                                                    *)
EXTENDS RuntimeCache, TLC

CONSTANTS alice, bob

Cred(enabled, mode, policy, bindings) ==
    [enabled |-> enabled, mode |-> mode, policy |-> policy, bindings |-> bindings]

Snap(a, b, loaded, members, stickyAlice) ==
    [credentials |-> (alice :> a @@ bob :> b),
     nodes       |-> loaded,
     groups      |-> (11 :> members @@ 12 :> {3} \cap loaded),
     sticky      |-> (alice :> stickyAlice @@ bob :> NoNode)]

(* The scopes are those normalizeCredentialScope stores: sticky or random over  *)
(* everything or over groups, fixed over one node.                            *)
MCSnapshots ==
    {Snap(Cred(TRUE, "all", "sticky", <<>>), Cred(TRUE, "group", "random", <<12, 11>>),
          {1, 2, 3}, {1, 2, 3}, NoNode),
     Snap(Cred(TRUE, "group", "sticky", <<11>>), Cred(TRUE, "all", "random", <<>>),
          {2, 3}, {2, 3}, 1),
     Snap(Cred(TRUE, "node", "fixed", <<3>>), Cred(FALSE, "group", "random", <<11>>),
          {1, 2, 3}, {}, 2)}

===============================================================================
