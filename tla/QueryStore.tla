------------------------------- MODULE QueryStore -------------------------------
(***************************************************************************)
(* The cache of server data (app/providers.tsx) that the pages share.  A     *)
(* page observes queries while it is mounted, and after a change invalidates  *)
(* those it knows to be affected.  Queries do not affect each other, so the  *)
(* module follows one of them through every page; and the data of a query is *)
(* reduced to how many of the admin's own changes it contains.               *)
(*                                                                         *)
(* The cache is the library's (@tanstack/react-query 5).  Invalidating marks *)
(* a query and, if a page observes it, fetches it again: a fetch in flight is *)
(* given up for a new one, unless it is the first.  A fetch outlives the page *)
(* that asked for it, and whatever answer arrives clears the mark.           *)
(***************************************************************************)
EXTENDS Console, Sequences

CONSTANTS
    Watched,    \* the queries followed, by key
    MaxWrites   \* BOUND on the changes made to what the query reads

ASSUME MaxWritesAssumption == MaxWrites \in Nat

-------------------------------------------------------------------------------
(* The queries of each page.  Those of the drawer of groups are enabled while *)
(* it is open.                                                                *)
AppShellQueries == {<<"system", "health">>, <<"system", "sing-box">>}

DashboardQueries == {<<"system", "health">>, <<"system", "sing-box">>, <<"stats", "overview">>,
                     <<"subscriptions">>, <<"nodes", "summary">>}

SubscriptionsQueries == {<<"subscriptions">>}

SubscriptionQueries == {<<"subscription">>, <<"subscription", "logs">>, <<"subscription", "nodes">>}

NodesQueries == {<<"nodes", "page">>, <<"runtime", "nodes">>, <<"subscriptions">>, <<"groups">>}

GroupsQueries == {<<"groups">>}

DrawerQueries == {<<"nodes", "group">>, <<"nodes", "all-options">>}

KeywordGroupsQueries == {<<"keyword-rules">>}

CredentialsQueries == {<<"credentials">>, <<"system", "proxy">>, <<"groups">>, <<"nodes">>}

StatsQueries == {<<"stats", "overview">>}

SystemQueries == {<<"system", "health">>, <<"system", "sing-box">>}

SettingsQueries == {<<"system", "proxy">>}

Queries ==
    [page \in AllPages |->
        CASE page = "dashboard"      -> DashboardQueries
          [] page = "subscriptions"  -> SubscriptionsQueries
          [] page = "subscription"   -> SubscriptionQueries
          [] page = "nodes"          -> NodesQueries
          [] page = "groups"         -> GroupsQueries
          [] page = "keyword-groups" -> KeywordGroupsQueries
          [] page = "credentials"    -> CredentialsQueries
          [] page = "stats"          -> StatsQueries
          [] page = "system"         -> SystemQueries
          [] page = "settings"       -> SettingsQueries
          [] OTHER                   -> {<<page>>}]     \* the two pages of logs

(* Queries a page asks for again by itself.                                  *)
Polled == AppShellQueries \cup {<<"runtime", "nodes">>, <<"proxy-request-logs">>}

AllQueries == AppShellQueries \cup DrawerQueries \cup UNION {Queries[page] : page \in AllPages}

ASSUME WatchedAssumption == Watched \subseteq AllQueries

(* The data a query shows.                                                   *)
Reads(query) ==
    CASE query[1] = "subscription" -> IF query = <<"subscription", "nodes">> THEN {"nodes"}
                                      ELSE {"subscriptions"}
      [] query[1] = "nodes"        -> {"nodes", "memberships"}
      [] OTHER                     -> {query[1]}

-------------------------------------------------------------------------------
(* The mutations of each page: what the request changes, and which queries -  *)
(* by the start of their key - are invalidated when it has succeeded.         *)
Change(writes, invalidates) == [writes |-> writes, invalidates |-> invalidates]

(* create, update; refresh, delete.                                          *)
SubscriptionsChanges ==
    {Change({"subscriptions"}, {<<"subscriptions">>}),
     Change({"subscriptions", "nodes", "memberships"}, {<<"subscriptions">>})}

SubscriptionChanges ==
    {Change({"subscriptions", "nodes", "memberships"},
            {<<"subscription">>, <<"subscription", "logs">>, <<"subscription", "nodes">>,
             <<"subscriptions">>})}

(* Enable, check, check all or selected, rebuild; a batch may change groups.  *)
NodesChanges ==
    {Change({"nodes"}, {<<"nodes">>}), Change({"nodes", "memberships"}, {<<"nodes">>})}

DeleteGroup == Change({"groups", "memberships", "credentials"}, {<<"nodes">>, <<"groups">>})

(* create, update; delete; add or remove a node.                             *)
GroupsChanges ==
    {Change({"groups"}, {<<"groups">>}), DeleteGroup,
     Change({"memberships"}, {<<"nodes">>, <<"groups">>})}

(* create, update, delete; apply.                                            *)
KeywordGroupsChanges ==
    {Change({"keyword-rules"}, {<<"keyword-rules">>}), Change({"groups", "memberships"}, {})}

CredentialsChanges == {Change({"credentials"}, {<<"credentials">>})}

Changes ==
    [page \in AllPages |->
        CASE page = "subscriptions"  -> SubscriptionsChanges
          [] page = "subscription"   -> SubscriptionChanges
          [] page = "nodes"          -> NodesChanges
          [] page = "groups"         -> GroupsChanges
          [] page = "keyword-groups" -> KeywordGroupsChanges
          [] page = "credentials"    -> CredentialsChanges
          [] OTHER                   -> {}]

Matches(query, key) == Len(key) <= Len(query) /\ SubSeq(query, 1, Len(key)) = key

-------------------------------------------------------------------------------
(* data: the changes it contains, or Nothing.  invalid: marked.  flight: the  *)
(* fetch, and what the server put into its answer.  retried: it has failed    *)
(* once.  changes: those made to what the query reads.  call: the admin's     *)
(* request, whether the page it was made on is still there, and the change it *)
(* has made: the server has not done it while that is Nothing.  History:      *)
(* known, the last change the admin has been told of on the page it was made  *)
(* on, with the query in view; missed, the last of those they were told of    *)
(* while the first answer of the query, read before, was on its way.          *)
Nothing == -1
Asked == -2
NoFlight == -3

NoChange == Change({}, {})

NoCall == [change |-> NoChange, mine |-> FALSE, made |-> Nothing]

NewQuery(query) ==
    [query |-> query, drawer |-> FALSE, data |-> Nothing, invalid |-> FALSE, flight |-> NoFlight,
     retried |-> FALSE, changes |-> 0, call |-> NoCall, known |-> 0,
     missed |-> 0]

Observed(page, drawer) ==
    AppShellQueries \cup Queries[page] \cup IF drawer THEN DrawerQueries ELSE {}

Active == store.query \in Observed(route.page, store.drawer)

Fetching(s) == [s EXCEPT !.flight = Asked, !.retried = FALSE]

(* A page that begins to observe the query fetches it if there is no data, or *)
(* it is marked or more than 20 seconds old - unless it is being fetched.     *)
Mounting(s) ==
    IF s.flight # NoFlight THEN {s}
    ELSE IF s.data = Nothing \/ s.invalid THEN {Fetching(s)}
    ELSE {s, Fetching(s)}

StoreVisits(page) ==
    IF page = route.page THEN UNCHANGED store
    ELSE LET left == [store EXCEPT !.drawer = FALSE, !.call.mine = FALSE]
         IN  store' \in IF store.query \in Queries[page] THEN Mounting(left) ELSE {left}

StoreOnly == UNCHANGED <<route, search, list, dialog, credentials>>

-------------------------------------------------------------------------------
OpenDrawer ==
    /\ route.page = "groups" /\ ~store.drawer
    /\ LET open == [store EXCEPT !.drawer = TRUE]
       IN  store' \in IF store.query \in DrawerQueries THEN Mounting(open) ELSE {open}
    /\ StoreOnly

CloseDrawer ==
    /\ store.drawer
    /\ store' = [store EXCEPT !.drawer = FALSE]
    /\ StoreOnly

(* The server reads the data for the answer.                                 *)
Read ==
    /\ store.flight = Asked
    /\ store' = [store EXCEPT !.flight = store.changes,
                              !.missed = IF store.data = Nothing THEN 0 ELSE @]
    /\ StoreOnly

AnswerArrives ==
    /\ store.flight \in Nat
    /\ store' = [store EXCEPT !.data = store.flight, !.invalid = FALSE, !.flight = NoFlight]
    /\ StoreOnly

(* Asked once more before it is given up; the mark stays.                    *)
QueryFails ==
    /\ store.flight # NoFlight
    /\ store' = IF store.retried THEN [store EXCEPT !.flight = NoFlight]
                ELSE [store EXCEPT !.flight = Asked, !.retried = TRUE]
    /\ StoreOnly

Poll ==
    /\ Active /\ store.query \in Polled /\ store.flight = NoFlight
    /\ store' = Fetching(store)
    /\ StoreOnly

-------------------------------------------------------------------------------
(* BOUND: one request of the admin at a time.                                *)
Request ==
    /\ store.call = NoCall
    /\ \E change \in Changes[route.page] :
        store' = [store EXCEPT !.call = [change |-> change, mine |-> TRUE, made |-> Nothing]]
    /\ StoreOnly

Affected(change) == change.writes \cap Reads(store.query) # {}

Carry ==
    /\ store.call # NoCall /\ store.call.made = Nothing
    /\ IF Affected(store.call.change)
       THEN /\ store.changes < MaxWrites
            /\ store' = [store EXCEPT !.changes = @ + 1, !.call.made = store.changes + 1]
       ELSE store' = [store EXCEPT !.call.made = 0]
    /\ StoreOnly

(* Mutant: a fetch in flight is kept.                                        *)
MutantInvalidate(s, active) ==
    IF active /\ s.flight = NoFlight THEN [Fetching(s) EXCEPT !.invalid = TRUE]
    ELSE [s EXCEPT !.invalid = TRUE]

Invalidate(s, active) ==
    IF active /\ (s.data # Nothing \/ s.flight = NoFlight)
    THEN [Fetching(s) EXCEPT !.invalid = TRUE]
    ELSE [s EXCEPT !.invalid = TRUE]

FirstIsOnItsWay == store.data = Nothing /\ store.flight \in Nat

(* onSuccess, whichever page is mounted by then.                             *)
Acknowledge ==
    /\ store.call.made # Nothing
    /\ LET call == store.call
           seen == call.mine /\ Active /\ call.made > store.known
           told == [store EXCEPT
               !.call = NoCall,
               !.drawer = @ /\ ~(call.mine /\ call.change = DeleteGroup),
               !.known = IF seen THEN call.made ELSE @,
               !.missed = IF seen /\ FirstIsOnItsWay THEN call.made ELSE @]
       IN  store' = IF \E key \in call.change.invalidates : Matches(store.query, key)
                    THEN Invalidate(told, Active) ELSE told
    /\ StoreOnly

(* Refused, or done and the answer lost: nothing is invalidated.             *)
CallFails ==
    /\ store.call # NoCall
    /\ store' = [store EXCEPT !.call = NoCall]
    /\ StoreOnly

StoreNext ==
    \/ OpenDrawer
    \/ CloseDrawer
    \/ Read
    \/ AnswerArrives
    \/ QueryFails
    \/ Poll
    \/ Request
    \/ Carry
    \/ Acknowledge
    \/ CallFails

-------------------------------------------------------------------------------
Calls ==
    [change : {NoChange} \cup UNION {Changes[page] : page \in AllPages},
     mine : BOOLEAN, made : Nothing..MaxWrites]

Stores ==
    [query : Watched, drawer : BOOLEAN, data : Nothing..MaxWrites, invalid : BOOLEAN,
     flight : NoFlight..MaxWrites, retried : BOOLEAN, changes : 0..MaxWrites, call : Calls,
     known : 0..MaxWrites, missed : 0..MaxWrites]

StoreTypeOK == store \in Stores /\ store.known <= store.changes

(* An admin who is told that a change was made, on the page they made it on,  *)
(* sees the change in whatever list of that page it affects as soon as the     *)
(* list is not being fetched and is not marked as out of date: an answer that  *)
(* was read before the change does not stay.  In one case it does: the change  *)
(* was acknowledged while the very first answer of the query, read before it,  *)
(* was on its way.  The library keeps a first fetch, and its answer clears the *)
(* mark.                                                                       *)
OwnChangesAreSeen ==
    store.flight = NoFlight /\ ~store.invalid =>
        \/ store.data = Nothing
        \/ store.data >= store.known
        \/ store.known = store.missed

===============================================================================
