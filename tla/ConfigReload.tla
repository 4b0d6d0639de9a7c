----------------------------- MODULE ConfigReload -----------------------------
(***************************************************************************)
(* The configuration in the database and the copy of it that proxy requests *)
(* use.  Admin handlers (src/internal/api/server.go) and the scheduler      *)
(* (src/internal/scheduler) write to the database and then reload the cache *)
(* (src/internal/cache/store.go, Load).  The database runs one statement or *)
(* one transaction at a time; a reload is five statements, not one          *)
(* transaction, and is installed under the cache's lock when it is over.    *)
(*                                                                         *)
(* One credential stands for all of them: no handler relates two.  Node     *)
(* rows are reduced to the two columns that admit them to the cache.  The   *)
(* writes of a subscription refresh (SubscriptionRefresh) enable nodes and  *)
(* retire them: the cache cannot tell them from SetEnabled and health       *)
(* results.                                                                 *)
(***************************************************************************)
EXTENDS CredentialScope

CONSTANTS
    Workers,        \* goroutines: admin handlers and the scheduler
    Scheduler,      \* the one that sweeps periodically, if it is among them
    Updates,        \* bodies of PUT /api/credentials/{id}: a subset of the fields
                    \* enabled, mode, policy and bindings
    Handlers,       \* the kinds of request the admin makes
    NoNode          \* no sticky node

HandlerKinds == {"credential", "node", "check", "group", "switch"}

ASSUME HandlersAssumption == Handlers \subseteq HandlerKinds

ASSUME UpdatesAssumption ==
    \A u \in Updates :
        /\ DOMAIN u \subseteq {"enabled", "mode", "policy", "bindings"}
        /\ "enabled" \in DOMAIN u => u.enabled \in BOOLEAN
        /\ "bindings" \in DOMAIN u => u.bindings \subseteq Targets

VARIABLES
    account,    \* the row in credentials; NoAccount once it is deleted
    bindings,   \* its rows in credential_bindings
    rows,       \* proxy_nodes
    groupIds,   \* proxy_groups
    members,    \* proxy_node_groups
    stickyRow,  \* credential_sticky_states
    cache,      \* what Load installed, and SwitchStickyNode changed
    job,        \* per worker: where it is and what it has read
    quiet       \* history: nothing was written since this worker's reload began

database == <<account, bindings, rows, groupIds, members, stickyRow>>
vars == <<database, cache, job, quiet>>

NoAccount == [enabled |-> FALSE, mode |-> "none", policy |-> "none"]

Empty == [account |-> NoAccount, bindings |-> {}, nodes |-> {},
          members |-> [g \in Groups |-> {}], sticky |-> NoNode]

(* seen: the reload so far.  input, scope: an update.  todo: nodes to check. *)
(* to: where a sticky switch went.                                          *)
Idle == [at |-> "idle", seen |-> Empty, input |-> <<>>, enabled |-> FALSE,
         scope |-> NoAccount, todo |-> {}, to |-> NoNode]

Loadable(n) == rows[n].enabled /\ ~rows[n].dead

(* What the five statements of a reload return, run one after the other     *)
(* with nothing in between.                                                 *)
View == [account  |-> IF account.enabled THEN account ELSE NoAccount,
         bindings |-> IF account.enabled THEN bindings ELSE {},
         nodes    |-> {n \in Nodes : Loadable(n)},
         members  |-> [g \in Groups |-> {n \in members[g] : Loadable(n)}],
         sticky   |-> stickyRow]

Init ==
    /\ account = [enabled |-> TRUE, mode |-> "all", policy |-> "sticky"]
    /\ bindings = {}
    /\ rows = [n \in Nodes |-> [enabled |-> TRUE, dead |-> FALSE]]
    /\ groupIds = Groups
    /\ members = [g \in Groups |-> Nodes]
    /\ stickyRow = NoNode
    /\ cache = View
    /\ job = [w \in Workers |-> Idle]
    /\ quiet = [w \in Workers |-> FALSE]

-------------------------------------------------------------------------------
Handling(w, kind) == w # Scheduler /\ job[w].at = "idle" /\ kind \in Handlers

(* Whatever came of the request, the handler reloads the cache.             *)
ThenReload(w) == job' = [job EXCEPT ![w] = [Idle EXCEPT !.at = "credentials"]]

Written == quiet' = [w \in Workers |-> FALSE]

NothingWritten == UNCHANGED <<database, quiet>>

-------------------------------------------------------------------------------
(* Load.                                                                    *)
Reads(w, from, to, seen) ==
    /\ job[w].at = from
    /\ job' = [job EXCEPT ![w].at = to, ![w].seen = seen]
    /\ UNCHANGED <<database, cache>>

ReadCredentials(w) ==
    /\ Reads(w, "credentials", "bindings",
             [job[w].seen EXCEPT !.account = IF account.enabled THEN account ELSE NoAccount])
    /\ quiet' = [quiet EXCEPT ![w] = TRUE]

(* Bindings of a credential that was not loaded are skipped.                *)
ReadBindings(w) ==
    /\ Reads(w, "bindings", "nodes",
             [job[w].seen EXCEPT !.bindings =
                IF job[w].seen.account = NoAccount THEN {} ELSE bindings])
    /\ UNCHANGED quiet

(* Mutant: disabled nodes are loaded.                                       *)
MutantReadNodes(w) ==
    /\ Reads(w, "nodes", "groups",
             [job[w].seen EXCEPT !.nodes = {n \in Nodes : ~rows[n].dead}])
    /\ UNCHANGED quiet

ReadNodes(w) ==
    /\ Reads(w, "nodes", "groups",
             [job[w].seen EXCEPT !.nodes = {n \in Nodes : Loadable(n)}])
    /\ UNCHANGED quiet

(* Mutant: memberships of nodes that were not loaded are kept.              *)
MutantReadGroups(w) ==
    /\ Reads(w, "groups", "sticky", [job[w].seen EXCEPT !.members = members])
    /\ UNCHANGED quiet

ReadGroups(w) ==
    /\ Reads(w, "groups", "sticky",
             [job[w].seen EXCEPT !.members =
                [g \in Groups |-> members[g] \cap job[w].seen.nodes]])
    /\ UNCHANGED quiet

ReadSticky(w) ==
    /\ Reads(w, "sticky", "install", [job[w].seen EXCEPT !.sticky = stickyRow])
    /\ UNCHANGED quiet

Install(w) ==
    /\ job[w].at = "install"
    /\ cache' = job[w].seen
    /\ job' = [job EXCEPT ![w] = Idle]
    /\ UNCHANGED <<database, quiet>>

Loading == {"credentials", "bindings", "nodes", "groups", "sticky"}

(* A database error, or the end of the request's context, which the client  *)
(* may bring about: the cache stays as it is and the error is dropped.      *)
LoadFails(w) ==
    /\ job[w].at \in Loading
    /\ job' = [job EXCEPT ![w] = Idle]
    /\ NothingWritten /\ UNCHANGED cache

Load(w) ==
    \/ ReadCredentials(w)
    \/ ReadBindings(w)
    \/ ReadNodes(w)
    \/ ReadGroups(w)
    \/ ReadSticky(w)
    \/ Install(w)

-------------------------------------------------------------------------------
(* UpdateCredential reads the row, reads the bindings, lays the request's   *)
(* fields over them, normalises the result, reads the row again for the     *)
(* fields that are not part of the scope, and writes all of it.             *)

Given(input, field, current) == IF field \in DOMAIN input THEN input[field] ELSE current

StartUpdate(w) ==
    /\ Handling(w, "credential")
    /\ \E u \in Updates :
        IF account = NoAccount
        THEN ThenReload(w)
        ELSE job' = [job EXCEPT ![w] =
                [Idle EXCEPT !.at = "merging", !.input = u, !.scope = account]]
    /\ NothingWritten /\ UNCHANGED cache

MergeUpdate(w) ==
    /\ job[w].at = "merging"
    /\ LET input  == job[w].input
           scopes == Normalized(Given(input, "mode", job[w].scope.mode),
                                Given(input, "policy", job[w].scope.policy),
                                Given(input, "bindings", bindings))
       IN  \/ scopes = {} /\ ThenReload(w)
           \/ \E s \in scopes :
                job' = [job EXCEPT ![w].at = "rereading", ![w].scope = s]
    /\ NothingWritten /\ UNCHANGED cache

RereadAccount(w) ==
    /\ job[w].at = "rereading"
    /\ IF account = NoAccount
       THEN ThenReload(w)
       ELSE job' = [job EXCEPT ![w].at = "updating", ![w].input = <<>>,
                       ![w].enabled = Given(job[w].input, "enabled", account.enabled)]
    /\ NothingWritten /\ UNCHANGED cache

(* Mutant: the row is written back as it was read.                          *)
MutantCommitUpdate(w) ==
    /\ job[w].at = "updating"
    /\ LET scope == job[w].scope
       IN  /\ account' = [enabled |-> job[w].enabled,
                          mode |-> scope.mode, policy |-> scope.policy]
           /\ bindings' = scope.bindings
    /\ Written
    /\ ThenReload(w)
    /\ UNCHANGED <<rows, groupIds, members, stickyRow, cache>>

(* Deleted meanwhile: there is no row to update, and the foreign key keeps  *)
(* the bindings out.                                                        *)
CommitUpdate(w) ==
    /\ job[w].at = "updating"
    /\ LET scope == job[w].scope
       IN  IF account = NoAccount
           THEN NothingWritten
           ELSE /\ account' = [enabled |-> job[w].enabled,
                               mode |-> scope.mode, policy |-> scope.policy]
                /\ bindings' = scope.bindings
                /\ Written
                /\ UNCHANGED <<rows, groupIds, members, stickyRow>>
    /\ ThenReload(w)
    /\ UNCHANGED cache

DeleteCredential(w) ==
    /\ Handling(w, "credential")
    /\ account' = NoAccount
    /\ bindings' = {} /\ stickyRow' = NoNode
    /\ Written
    /\ ThenReload(w)
    /\ UNCHANGED <<rows, groupIds, members, cache>>

-------------------------------------------------------------------------------
SetNodeEnabled(w) ==
    /\ Handling(w, "node")
    /\ \E n \in Nodes, enabled \in BOOLEAN : rows' = [rows EXCEPT ![n].enabled = enabled]
    /\ Written
    /\ ThenReload(w)
    /\ UNCHANGED <<account, bindings, groupIds, members, stickyRow, cache>>

(* RunHealthChecks, checkAllNodes: list the checkable nodes, then dial and  *)
(* record them one by one.  The scheduler reloads if there were any.        *)
StartSweep(w) ==
    /\ w = Scheduler \/ "check" \in Handlers
    /\ job[w].at = "idle"
    /\ LET checkable == {n \in Nodes : rows[n].enabled}
       IN  IF checkable # {} THEN job' = [job EXCEPT ![w] =
                                    [Idle EXCEPT !.at = "checking", !.todo = checkable]]
           ELSE w # Scheduler /\ ThenReload(w)
    /\ NothingWritten /\ UNCHANGED cache

(* Mutant: the sweep reloads only after the death of a node.                *)
MutantCheckNode(w) ==
    /\ job[w].at = "checking"
    /\ \E n \in job[w].todo, dead \in BOOLEAN :
        /\ rows' = [rows EXCEPT ![n].dead = dead]
        /\ IF job[w].todo = {n}
           THEN \/ dead /\ ThenReload(w)
                \/ ~dead /\ job' = [job EXCEPT ![w] = Idle]
           ELSE job' = [job EXCEPT ![w].todo = @ \ {n}]
    /\ Written
    /\ UNCHANGED <<account, bindings, groupIds, members, stickyRow, cache>>

CheckNode(w) ==
    /\ job[w].at = "checking"
    /\ \E n \in job[w].todo, dead \in BOOLEAN :
        /\ rows' = [rows EXCEPT ![n].dead = dead]
        /\ IF job[w].todo = {n} THEN ThenReload(w)
           ELSE job' = [job EXCEPT ![w].todo = @ \ {n}]
    /\ Written
    /\ UNCHANGED <<account, bindings, groupIds, members, stickyRow, cache>>

(* The result cannot be recorded: the scheduler goes on to the next node,   *)
(* a handler gives up.                                                      *)
RecordFails(w) ==
    /\ job[w].at = "checking"
    /\ \E n \in job[w].todo :
        IF w # Scheduler \/ job[w].todo = {n} THEN ThenReload(w)
        ELSE job' = [job EXCEPT ![w].todo = @ \ {n}]
    /\ NothingWritten /\ UNCHANGED cache

(* AddNodesToGroup, RemoveNodesFromGroup, DeleteGroup.                      *)
ChangeMembers(w) ==
    /\ Handling(w, "group")
    /\ \E g \in groupIds, n \in Nodes :
        members' = [members EXCEPT ![g] = IF n \in @ THEN @ \ {n} ELSE @ \cup {n}]
    /\ Written
    /\ ThenReload(w)
    /\ UNCHANGED <<account, bindings, rows, groupIds, stickyRow, cache>>

(* The memberships go with the group; bindings to it stay.                  *)
DeleteGroup(w) ==
    /\ Handling(w, "group")
    /\ \E g \in groupIds :
        /\ groupIds' = groupIds \ {g}
        /\ members' = [members EXCEPT ![g] = {}]
    /\ Written
    /\ ThenReload(w)
    /\ UNCHANGED <<account, bindings, rows, stickyRow, cache>>

-------------------------------------------------------------------------------
(* The nodes a credential may use, in the cache or in the database.         *)
Candidates(c) ==
    CASE c.account.mode = "all"   -> c.nodes
      [] c.account.mode = "group" -> UNION {c.members[g] : g \in c.bindings \cap Groups}
      [] c.account.mode = "node"  -> c.bindings \cap c.nodes
      [] OTHER                    -> {}

(* handleCredentialStickySwitch: authenticate against the database, move    *)
(* the cached choice to another candidate with a closed circuit if there is *)
(* one - it may be any, or the same, by the circuits of RuntimeCache - then *)
(* store it.                                                                *)
SwitchCached(w) ==
    /\ Handling(w, "switch")
    /\ account.enabled /\ account.policy = "sticky"
    /\ cache.account.policy = "sticky"
    /\ \E n \in Candidates(cache) :
        /\ cache' = [cache EXCEPT !.sticky = n]
        /\ job' = [job EXCEPT ![w] = [Idle EXCEPT !.at = "storing", !.to = n]]
    /\ NothingWritten

SwitchStored(w) ==
    /\ job[w].at = "storing"
    /\ account # NoAccount
    /\ stickyRow' = job[w].to
    /\ Written
    /\ job' = [job EXCEPT ![w] = Idle]
    /\ UNCHANGED <<account, bindings, rows, groupIds, members, cache>>

SwitchFails(w) ==
    /\ job[w].at = "storing"
    /\ job' = [job EXCEPT ![w] = Idle]
    /\ NothingWritten /\ UNCHANGED cache

-------------------------------------------------------------------------------
Handle(w) ==
    \/ StartUpdate(w)
    \/ MergeUpdate(w)
    \/ RereadAccount(w)
    \/ CommitUpdate(w)
    \/ DeleteCredential(w)
    \/ SetNodeEnabled(w)
    \/ StartSweep(w)
    \/ CheckNode(w)
    \/ ChangeMembers(w)
    \/ DeleteGroup(w)
    \/ SwitchCached(w)
    \/ SwitchStored(w)

Next == \E w \in Workers :
    Handle(w) \/ Load(w) \/ LoadFails(w) \/ RecordFails(w) \/ SwitchFails(w)

Spec == Init /\ [][Next]_vars

(* The scheduler's loop goes on, and the database does not fail every one   *)
(* of its reloads.  Nothing is assumed of the admin or of other handlers.   *)
FairSpec ==
    /\ Spec
    /\ WF_vars(StartSweep(Scheduler)) /\ WF_vars(CheckNode(Scheduler))
    /\ SF_vars(ReadCredentials(Scheduler)) /\ SF_vars(ReadBindings(Scheduler))
    /\ SF_vars(ReadNodes(Scheduler)) /\ SF_vars(ReadGroups(Scheduler))
    /\ SF_vars(ReadSticky(Scheduler)) /\ SF_vars(Install(Scheduler))

(* No reload fails.                                                         *)
UnfailingSpec == Init /\ [][\E w \in Workers : Handle(w) \/ Load(w)]_vars

-------------------------------------------------------------------------------
Account == [enabled : BOOLEAN, mode : Modes, policy : {"random", "sticky", "fixed"}]
           \cup {NoAccount}

Snapshots == [account : Account, bindings : SUBSET Targets, nodes : SUBSET Nodes,
              members : [Groups -> SUBSET Nodes], sticky : Nodes \cup {NoNode}]

Stages == {"idle", "merging", "rereading", "updating", "checking", "storing"}
          \cup Loading \cup {"install"}

Jobs == [at : Stages, seen : Snapshots, input : Updates \cup {<<>>}, enabled : BOOLEAN,
         scope : Account \cup Scopes, todo : SUBSET Nodes, to : Nodes \cup {NoNode}]

TypeOK ==
    /\ account \in Account /\ bindings \subseteq Targets
    /\ rows \in [Nodes -> [enabled : BOOLEAN, dead : BOOLEAN]]
    /\ groupIds \subseteq Groups
    /\ members \in [Groups -> SUBSET Nodes]
    /\ \A g \in Groups \ groupIds : members[g] = {}
    /\ stickyRow \in Nodes \cup {NoNode}
    /\ cache \in Snapshots
    /\ job \in [Workers -> Jobs]
    /\ quiet \in [Workers -> BOOLEAN]

(* However updates of a credential overlap, with each other and with its    *)
(* deletion, what is stored is a scope the service accepts - of one mode,   *)
(* with targets of that mode, one for a fixed node - and nothing of a       *)
(* credential outlives it.                                                  *)
StoredScopeOK ==
    /\ account.mode = "none"  <=> account = NoAccount
    /\ account.mode \in {"none", "all"} => bindings = {}
    /\ account.mode = "group" => bindings # {} /\ bindings \subseteq Groups
    /\ account.mode = "node"  => Cardinality(bindings) = 1 /\ bindings \subseteq Nodes
    /\ account.policy = "fixed" <=> account.mode = "node"

(* Updating a credential never brings back one that has been deleted.       *)
DeletedForGood == [][account = NoAccount => account' = NoAccount]_vars

(* Whatever a reload is torn by, the groups it installs contain installed   *)
(* nodes only: what RuntimeCache assumes of a snapshot.                     *)
GroupsWithinNodes == \A g \in Groups : cache.members[g] \subseteq cache.nodes

(* A reload during which nothing is written reads the database as it is:    *)
(* the only stale or torn snapshots are those of reloads raced by a write.  *)
ReloadIsExact == \A w \in Workers : quiet[w] /\ job[w].at = "install" => job[w].seen = View

(* Once the database stays as it is and there is a node to check, the cache *)
(* has the right nodes for good, whatever reloads were lost or overtaken,   *)
(* and agrees with the database again and again, sticky switches that were  *)
(* not stored notwithstanding: the scheduler's sweeps see to it.            *)
QuietBecomesFresh ==
    <>[][UNCHANGED database]_vars /\ <>[](\E n \in Nodes : rows[n].enabled)
    => <>[](cache.nodes = View.nodes) /\ []<>(cache = View)

-------------------------------------------------------------------------------
AtRest == \A w \in Workers : job[w].at = "idle"

(* README.md:30 - a dead node is not in the runtime proxy pool.             *)
DeadNodesStayOut == AtRest => \A n \in cache.nodes : ~rows[n].dead

===============================================================================
