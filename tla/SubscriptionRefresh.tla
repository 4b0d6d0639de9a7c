-------------------------- MODULE SubscriptionRefresh --------------------------
(***************************************************************************)
(* Refreshing one subscription: fetch the provider's node list, adopt the   *)
(* rows that are the same nodes, upsert, retire what is missing, invalidate *)
(* the engines of changed nodes, record the outcome                         *)
(* (src/internal/subscription/manager.go, Refresh;                          *)
(* src/internal/repository/subscription.go).  The scheduler and any number  *)
(* of admin requests may refresh the same subscription at once: nothing     *)
(* but the database, one transaction at a time, stands between them.        *)
(*                                                                         *)
(* A node's identity is its stable key: subscription, protocol, server,     *)
(* port and the raw configuration without the fields that only name it.     *)
(* A row is named by the key stored in it; rows written by older versions   *)
(* are stored under other keys (LegacyKeys).  Keys are numbered so that a   *)
(* smaller legacy key is a smaller row id.  The rest of a node - its name   *)
(* and what the sing-box builder made of it - is its configuration.         *)
(***************************************************************************)
EXTENDS Integers, FiniteSets

CONSTANTS
    StableKeys,     \* the stable keys of the nodes there are
    LegacyKeys,     \* keys of rows written by older versions
    StableOf,       \* the stable key of the node in each row
    Configs,        \* node configurations
    Hinting,        \* those whose name says "unsupported" or the like
    Loopback,       \* stable keys of nodes on the provider's own "localhost"
    Feeds,          \* what the provider may answer: stable key -> configuration
    Unstorable,     \* answers with a node that cannot be written as JSON
    Refreshers,     \* goroutines that call Refresh
    Scheduler,      \* the one that only refreshes when it is due
    DefaultAgent,   \* the subscription's User-Agent is the default one
    Unreachable,    \* transport error, or an answer other than 2xx
    Unparsable      \* an answer without a single valid node

RowKeys == StableKeys \cup LegacyKeys

ASSUME KeysAssumption ==
    /\ RowKeys \subseteq Nat /\ StableKeys \cap LegacyKeys = {}
    /\ StableOf \in [RowKeys -> StableKeys]
    /\ \A s \in StableKeys : StableOf[s] = s

(* ParseNodes returns at least one node or an error.                        *)
ASSUME FeedsAssumption ==
    /\ Hinting \subseteq Configs /\ Loopback \subseteq StableKeys
    /\ Unstorable \subseteq Feeds /\ DefaultAgent \in BOOLEAN
    /\ \A feed \in Feeds :
        /\ DOMAIN feed \subseteq StableKeys /\ DOMAIN feed # {}
        /\ \A s \in DOMAIN feed : feed[s] \in Configs

VARIABLES
    subscription,   \* its row: enabled, disabled or deleted
    due,        \* next_refresh_at has passed
    rows,       \* proxy_nodes of the subscription: stored key -> node
    refresh,    \* per goroutine: where its Refresh is, the nodes it parsed until
                \* it has listed the rows, from then on what it will write
    view,       \* history: the rows a refresh listed and the nodes it had parsed,
                \* as long as nobody else has changed the rows since
    clean       \* history: no refresh aborted half-way, no enabling by the admin
                \* since a refresh last retired the missing nodes

vars == <<subscription, due, rows, refresh, view, clean>>

exists == subscription # "deleted"

Idle == [stage |-> "idle", parsed |-> <<>>, wanted |-> <<>>, invalid |-> {}]

NoView == [solo |-> FALSE, rows |-> <<>>, parsed |-> <<>>]

Stages == {"idle", "fetching", "listing", "upserting", "marking", "invalidating",
           "succeeded", "failed"}

Writing == {"upserting", "marking", "invalidating", "succeeded"}

GoTo(p, stage) == refresh' = [refresh EXCEPT ![p].stage = stage]

Answers == Feeds \cup {Unreachable, Unparsable}

-------------------------------------------------------------------------------
(* A node tells the client to use other software, and none leads anywhere.  *)
LooksUnsupported(feed) ==
    /\ \E s \in DOMAIN feed : feed[s] \in Hinting
    /\ DOMAIN feed \subseteq Loopback

Usable(answer) == answer \in Feeds /\ ~LooksUnsupported(answer)

(* Mutant: a list of placeholders is a list of nodes.                       *)
MutantAccepted(answer, second) ==
    IF answer \in Feeds THEN {answer}
    ELSE IF answer # Unreachable /\ ~DefaultAgent /\ Usable(second) THEN {second}
    ELSE {}

(* An answer that cannot be used is asked for again with the default        *)
(* User-Agent, unless the server was not reached or that one was used.      *)
Accepted(answer, second) ==
    IF Usable(answer) THEN {answer}
    ELSE IF answer # Unreachable /\ ~DefaultAgent /\ Usable(second) THEN {second}
    ELSE {}

-------------------------------------------------------------------------------
(* The row a parsed node goes to: its own, else one with the same stable    *)
(* key - an enabled one if there is any, the oldest - else a new row.       *)
Adoptable(table, s) ==
    LET same    == {k \in DOMAIN table : StableOf[k] = s}
        enabled == {k \in same : table[k].enabled}
    IN  IF enabled # {} THEN enabled ELSE same

RowFor(table, s) ==
    LET same == Adoptable(table, s)
    IN  IF s \in DOMAIN table \/ same = {} THEN s
        ELSE CHOOSE k \in same : \A j \in same : k <= j

Wanted(table, feed) ==
    LET keys == {RowFor(table, s) : s \in DOMAIN feed}
    IN  [k \in keys |-> feed[StableOf[k]]]

(* Mutant: only the nodes still offered are compared.                       *)
MutantInvalid(table, wanted) ==
    {k \in DOMAIN table \cap DOMAIN wanted : table[k].config # wanted[k]}

(* The rows whose engines must go: nodes that change, and nodes that leave. *)
Invalid(table, wanted) ==
    {k \in DOMAIN table :
        IF k \in DOMAIN wanted THEN table[k].config # wanted[k] ELSE table[k].enabled}

-------------------------------------------------------------------------------
Init ==
    /\ subscription \in {"enabled", "disabled"}
    /\ due = TRUE
    /\ \E old \in SUBSET LegacyKeys :
        rows \in [old -> [config : Configs, enabled : BOOLEAN, alive : {"unknown"}]]
    /\ refresh = [p \in Refreshers |-> Idle]
    /\ view = [p \in Refreshers |-> NoView]
    /\ clean = FALSE

(* The scheduler takes the subscriptions of ListDue, the admin any.         *)
Start(p) ==
    /\ refresh[p].stage = "idle"
    /\ exists
    /\ p = Scheduler => due /\ subscription = "enabled"
    /\ GoTo(p, "fetching")
    /\ UNCHANGED <<subscription, due, rows, view, clean>>

(* Mutant: only a refresh that succeeds is recorded.                        *)
MutantFetch(p) ==
    /\ refresh[p].stage = "fetching"
    /\ \E answer, second \in Answers :
        LET accepted == Accepted(answer, second)
        IN  \/ accepted = {} /\ GoTo(p, "idle")
            \/ \E feed \in accepted :
                refresh' = [refresh EXCEPT ![p].stage = "listing", ![p].parsed = feed]
    /\ UNCHANGED <<subscription, due, rows, view, clean>>

Fetch(p) ==
    /\ refresh[p].stage = "fetching"
    /\ \E answer, second \in Answers :
        LET accepted == Accepted(answer, second)
        IN  \/ accepted = {} /\ GoTo(p, "failed")
            \/ \E feed \in accepted :
                refresh' = [refresh EXCEPT ![p].stage = "listing", ![p].parsed = feed]
    /\ UNCHANGED <<subscription, due, rows, view, clean>>

(* Read the rows and work out what to do with them.  A node that cannot be  *)
(* written as JSON ends the refresh: it can only abort.                     *)
List(p) ==
    /\ refresh[p].stage = "listing"
    /\ refresh[p].parsed \notin Unstorable
    /\ LET wanted == Wanted(rows, refresh[p].parsed)
       IN  refresh' = [refresh EXCEPT ![p] =
                [stage |-> "upserting", parsed |-> <<>>,
                 wanted |-> wanted, invalid |-> Invalid(rows, wanted)]]
    /\ view' = [view EXCEPT ![p] = [solo |-> TRUE, rows |-> rows, parsed |-> refresh[p].parsed]]
    /\ UNCHANGED <<subscription, due, rows, clean>>

(* The others no longer know what is in the table.                          *)
ChangedBy(p) == view' = [q \in Refreshers |-> IF q = p THEN view[q] ELSE NoView]

(* Mutant: an existing row keeps its enabled flag.                          *)
MutantUpserted(wanted, k) ==
    [config  |-> wanted[k],
     enabled |-> k \in DOMAIN rows => rows[k].enabled,
     alive   |-> IF k \in DOMAIN rows /\ rows[k].alive # "dead" THEN rows[k].alive ELSE "unknown"]

Upserted(wanted, k) ==
    [config  |-> wanted[k],
     enabled |-> TRUE,
     alive   |-> IF k \in DOMAIN rows /\ rows[k].alive # "dead" THEN rows[k].alive ELSE "unknown"]

(* Mutant: the foreign key is not enforced on this connection.              *)
MutantUpsertNodes(p) ==
    /\ refresh[p].stage = "upserting"
    /\ LET wanted == refresh[p].wanted
       IN  rows' = [k \in DOMAIN rows \cup DOMAIN wanted |->
                        IF k \in DOMAIN wanted THEN Upserted(wanted, k) ELSE rows[k]]
    /\ GoTo(p, "marking")
    /\ ChangedBy(p)
    /\ UNCHANGED <<subscription, due, clean>>

(* One transaction; the foreign key refuses it once the subscription is     *)
(* gone.                                                                    *)
UpsertNodes(p) ==
    /\ refresh[p].stage = "upserting"
    /\ exists
    /\ LET wanted == refresh[p].wanted
       IN  rows' = [k \in DOMAIN rows \cup DOMAIN wanted |->
                        IF k \in DOMAIN wanted THEN Upserted(wanted, k) ELSE rows[k]]
    /\ GoTo(p, "marking")
    /\ ChangedBy(p)
    /\ UNCHANGED <<subscription, due, clean>>

(* Mutant: a row stays as long as its node is offered.                      *)
MutantMarkMissingNodes(p) ==
    /\ refresh[p].stage = "marking"
    /\ LET wanted == refresh[p].wanted
       IN  rows' = [k \in DOMAIN rows |->
                        IF StableOf[k] \in {StableOf[j] : j \in DOMAIN wanted} THEN rows[k]
                        ELSE [rows[k] EXCEPT !.enabled = FALSE, !.alive = "dead"]]
    /\ GoTo(p, "invalidating")
    /\ ChangedBy(p)
    /\ clean' = TRUE
    /\ UNCHANGED <<subscription, due>>

(* Every row of the subscription whose key was not seen is retired.         *)
MarkMissingNodes(p) ==
    /\ refresh[p].stage = "marking"
    /\ LET wanted == refresh[p].wanted
       IN  rows' = [k \in DOMAIN rows |->
                        IF k \in DOMAIN wanted THEN rows[k]
                        ELSE [rows[k] EXCEPT !.enabled = FALSE, !.alive = "dead"]]
    /\ GoTo(p, "invalidating")
    /\ ChangedBy(p)
    /\ clean' = TRUE
    /\ UNCHANGED <<subscription, due>>

(* The callback closes the engine of each invalid node.                     *)
InvalidateNodes(p) ==
    /\ refresh[p].stage = "invalidating"
    /\ refresh' = [refresh EXCEPT ![p].stage = "succeeded", ![p].invalid = {}]
    /\ UNCHANGED <<subscription, due, rows, view, clean>>

(* RecordRefreshResult writes the outcome and the next refresh time, in one *)
(* transaction with the refresh log.                                        *)
RecordResult(p) ==
    /\ refresh[p].stage \in {"succeeded", "failed"}
    /\ exists
    /\ due' = FALSE
    /\ refresh' = [refresh EXCEPT ![p] = Idle]
    /\ view' = [view EXCEPT ![p] = NoView]
    /\ UNCHANGED <<subscription, rows, clean>>

(* A database error, or the end of the caller's context: Refresh returns    *)
(* with what it has done so far, and records nothing.                       *)
Abort(p) ==
    /\ refresh[p].stage \notin {"idle", "invalidating"}
    /\ refresh' = [refresh EXCEPT ![p] = Idle]
    /\ clean' = (clean /\ refresh[p].stage # "marking")
    /\ view' = [view EXCEPT ![p] = NoView]
    /\ UNCHANGED <<subscription, due, rows>>

-------------------------------------------------------------------------------
(* The rest of the system.                                                  *)
SetEnabled(k, enabled) ==
    /\ k \in DOMAIN rows
    /\ rows' = [rows EXCEPT ![k].enabled = enabled]
    /\ view' = [p \in Refreshers |-> NoView]
    /\ clean' = (clean /\ ~enabled)
    /\ UNCHANGED <<subscription, due, refresh>>

(* An edit of the subscription.  Only its enabled flag matters here; an     *)
(* edit that leaves it alone writes back the flag it has read before.       *)
Update(enabled) ==
    /\ exists
    /\ subscription' = IF enabled THEN "enabled" ELSE "disabled"
    /\ UNCHANGED <<due, rows, refresh, view, clean>>

(* Deleting a subscription cascades to its nodes.                           *)
Delete ==
    /\ exists
    /\ subscription' = "deleted"
    /\ rows' = <<>>
    /\ view' = [p \in Refreshers |-> NoView]
    /\ UNCHANGED <<due, refresh, clean>>

BecomesDue ==
    /\ ~due
    /\ due' = TRUE
    /\ UNCHANGED <<subscription, rows, refresh, view, clean>>

(* What Refresh does when nothing fails.                                    *)
Proceed(p) ==
    \/ Start(p)
    \/ Fetch(p)
    \/ List(p)
    \/ UpsertNodes(p)
    \/ MarkMissingNodes(p)
    \/ InvalidateNodes(p)
    \/ RecordResult(p)

Next ==
    \/ \E p \in Refreshers : Proceed(p) \/ Abort(p)
    \/ \E k \in RowKeys, enabled \in BOOLEAN : SetEnabled(k, enabled)
    \/ \E enabled \in BOOLEAN : Update(enabled)
    \/ Delete
    \/ BecomesDue

Spec == Init /\ [][Next]_vars

(* The scheduler's loop keeps coming back to a subscription that is due,    *)
(* and the database does not fail its every attempt at the same step.  What *)
(* fails again and again for the list the provider sends - a node that      *)
(* cannot be stored - is not taken for transient: List is not enabled then. *)
Fairness ==
    /\ WF_vars(Start(Scheduler))
    /\ WF_vars(InvalidateNodes(Scheduler))
    /\ SF_vars(Fetch(Scheduler))
    /\ SF_vars(List(Scheduler))
    /\ SF_vars(UpsertNodes(Scheduler))
    /\ SF_vars(MarkMissingNodes(Scheduler))
    /\ SF_vars(RecordResult(Scheduler))

FairSpec == Spec /\ Fairness

-------------------------------------------------------------------------------
Node == [config : Configs, enabled : BOOLEAN, alive : {"unknown", "alive", "dead"}]

Tables(S) == UNION {[keys -> S] : keys \in SUBSET RowKeys}

Refreshes == [stage : Stages, parsed : Feeds \cup {<<>>},
              wanted : Tables(Configs), invalid : SUBSET RowKeys]

Views == [solo : BOOLEAN, rows : Tables(Node), parsed : Feeds \cup {<<>>}]

TypeOK ==
    /\ subscription \in {"enabled", "disabled", "deleted"}
    /\ due \in BOOLEAN /\ clean \in BOOLEAN
    /\ rows \in Tables(Node)
    /\ refresh \in [Refreshers -> Refreshes]
    /\ view \in [Refreshers -> Views]
    /\ \A p \in Refreshers :
        (DOMAIN refresh[p].wanted = {}) = (refresh[p].stage \notin Writing)

Enabled(table, s) == {k \in DOMAIN table : StableOf[k] = s /\ table[k].enabled}

(* A refresh that nobody interfered with leaves exactly the nodes of the    *)
(* provider's list in the pool, one row each, with the new configuration    *)
(* and not written off as dead; a node that was in the pool before keeps    *)
(* its row, and with it its groups, bindings and statistics.                *)
RefreshIsExact ==
    \A p \in Refreshers : view[p].solo /\ refresh[p].stage = "succeeded" =>
        \A s \in StableKeys :
            IF s \in DOMAIN view[p].parsed
            THEN \E k \in RowKeys :
                    /\ Enabled(rows, s) = {k}
                    /\ rows[k].config = view[p].parsed[s] /\ rows[k].alive # "dead"
                    /\ Enabled(view[p].rows, s) # {} => k \in Enabled(view[p].rows, s)
            ELSE Enabled(rows, s) = {}

(* Such a refresh has the engines closed of just the nodes that were in     *)
(* the pool and left it, and of those whose configuration is another now.   *)
EnginesOfChangedNodesClose ==
    \A p \in Refreshers : view[p].solo /\ refresh[p].stage = "invalidating" =>
        LET before == view[p].rows
        IN  refresh[p].invalid =
                {k \in DOMAIN before :
                    \/ before[k].enabled /\ ~rows[k].enabled
                    \/ before[k].config # rows[k].config}

(* Whatever refreshes overlap and whatever the admin disables meanwhile,    *)
(* once one has retired the missing nodes and none is about to, no node is  *)
(* in the pool twice.                                                       *)
NoDuplicateNodes ==
    clean /\ (\A p \in Refreshers : refresh[p].stage # "marking") =>
        \A s \in StableKeys : Cardinality(Enabled(rows, s)) <= 1

(* A refresh in flight does not bring back the nodes of a subscription that *)
(* has been deleted.                                                        *)
NoOrphanNodes == ~exists => DOMAIN rows = {}

(* A provider that answers an unknown client with a hint and placeholders   *)
(* for nodes does not get those into the table: if what is written holds a  *)
(* hint, it holds a node that leads somewhere too.                          *)
PlaceholderListsAreRefused ==
    \A p \in Refreshers : refresh[p].stage \in Writing =>
        LET wanted == refresh[p].wanted
        IN  (\E k \in DOMAIN wanted : wanted[k] \in Hinting) =>
                \E k \in DOMAIN wanted : StableOf[k] \notin Loopback

(* The provider's list holds a node that cannot be stored.                  *)
CannotBeStored ==
    refresh[Scheduler].stage = "listing" /\ refresh[Scheduler].parsed \in Unstorable

(* A subscription that is enabled and due is refreshed in the end, with     *)
(* success or failure, in spite of aborted attempts: those leave it due.    *)
(* Unless the admin disables or deletes it first, or the provider sends a   *)
(* list that cannot be stored - as it may do over and over.                 *)
DueGetsRefreshed ==
    due /\ subscription = "enabled" ~> ~due \/ subscription # "enabled" \/ CannotBeStored

-------------------------------------------------------------------------------
(* The refreshes alone: nothing fails, the admin touches no node and leaves *)
(* the subscription alone.                                                  *)
UnhinderedSpec == Init /\ [][BecomesDue \/ \E p \in Refreshers : Proceed(p)]_vars

(* README.md:187 - refreshing a subscription puts the parsed nodes into the *)
(* node pool: when refreshes have succeeded, each with at least one node,   *)
(* and none is at work, some node is in the pool.                           *)
ParsedNodesArePooled ==
    /\ \E p \in Refreshers : refresh[p].stage = "succeeded"
    /\ \A p \in Refreshers : refresh[p].stage \in {"idle", "failed", "succeeded"}
    => \E k \in DOMAIN rows : rows[k].enabled

===============================================================================
