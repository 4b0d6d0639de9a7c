---------------------------- MODULE MCProxyRequest ----------------------------
(* Three requests: r1 and r2 share the credential alice, r3 is bob's.  A      *)
(* reload drops a node and alice's credential, and frees bob's of its node.   *)
EXTENDS ProxyRequest, TLC

CONSTANTS alice, bob, r1, r2, r3

Cred(enabled, mode, policy, bindings) ==
    [enabled |-> enabled, mode |-> mode, policy |-> policy, bindings |-> bindings]

Snap(a, b, loaded, members) ==
    [credentials |-> (alice :> a @@ bob :> b),
     nodes       |-> loaded,
     groups      |-> (11 :> members),
     sticky      |-> (alice :> NoNode @@ bob :> NoNode)]

SafetySnapshots ==
    {Snap(Cred(TRUE, "group", "random", <<11>>), Cred(TRUE, "node", "fixed", <<1>>),
          {1, 2, 3}, {1, 2}),
     Snap(Cred(FALSE, "group", "random", <<11>>), Cred(TRUE, "all", "sticky", <<>>),
          {2, 3}, {2})}

OfCredential == [r \in Requests |-> IF r = r3 THEN bob ELSE alice]
OfProtocol   == [r \in Requests |-> IF r = r3 THEN "HTTP" ELSE "SOCKS5"]

(* BOUND: only the log entry of bob's request may be lost.                    *)
EntriesOfAliceAreWritten ==
    \A r \in Requests \ {r3} : pc'[r] = "failed" => log'[r] # NotLogged

Symmetry == Permutations({r1, r2})

===============================================================================
