-------------------------- MODULE ConfigReloadProofs ---------------------------
(* Invariants of the configuration and its reloads, for any nodes, groups,      *)
(* handlers, workers and requests.                                              *)
EXTENDS ConfigReload, TLAPS

-------------------------------------------------------------------------------
(* The inductive invariant: of the database, of the cache, and of what each     *)
(* worker holds.                                                                *)
DatabaseInv ==
    /\ account \in Account /\ bindings \subseteq Targets
    /\ rows \in [Nodes -> [enabled : BOOLEAN, dead : BOOLEAN]]
    /\ groupIds \subseteq Groups
    /\ members \in [Groups -> SUBSET Nodes]
    /\ \A g \in Groups \ groupIds : members[g] = {}
    /\ stickyRow \in Nodes \cup {NoNode}
    /\ StoredScopeOK

CacheInv == cache \in Snapshots /\ GroupsWithinNodes

(* A scope the service accepts.                                               *)
Accepted(s) ==
    \/ s.mode = "all"   /\ s.policy # "fixed" /\ s.bindings = {}
    \/ s.mode = "group" /\ s.policy # "fixed" /\ s.bindings # {} /\ s.bindings \subseteq Groups
    \/ s.mode = "node"  /\ s.policy = "fixed" /\ Cardinality(s.bindings) = 1
                        /\ s.bindings \subseteq Nodes

(* What a handler holds of an update: the row it was begun from, then the     *)
(* normalised scope.                                                          *)
UpdateIsAccepted(j) ==
    /\ j.at = "merging" => j.scope \in Account \ {NoAccount}
    /\ j.at \in {"merging", "rereading"} => j.input \in Updates
    /\ j.at \in {"rereading", "updating"} => j.scope \in Scopes /\ Accepted(j.scope)

GroupsSeenWithinNodes(j) ==
    j.at \in {"sticky", "install"} => \A g \in Groups : j.seen.members[g] \subseteq j.seen.nodes

(* What a reload has read so far agrees with a view of the database.          *)
SeenIsExact(j, view) ==
    /\ j.at \in {"bindings", "nodes", "groups", "sticky", "install"} =>
            j.seen.account = view.account
    /\ j.at \in {"nodes", "groups", "sticky", "install"} => j.seen.bindings = view.bindings
    /\ j.at \in {"groups", "sticky", "install"} => j.seen.nodes = view.nodes
    /\ j.at \in {"sticky", "install"} => j.seen.members = view.members
    /\ j.at = "install" => j.seen.sticky = view.sticky

JobsInv ==
    /\ job \in [Workers -> Jobs] /\ quiet \in [Workers -> BOOLEAN]
    /\ \A w \in Workers :
        /\ UpdateIsAccepted(job[w])
        /\ GroupsSeenWithinNodes(job[w])
        /\ quiet[w] => SeenIsExact(job[w], View)

ConfigInv == DatabaseInv /\ CacheInv /\ JobsInv

(* The invariant contains the claims.                                         *)
LEMMA InvImplies == ConfigInv => TypeOK /\ StoredScopeOK /\ GroupsWithinNodes
BY DEF ConfigInv, DatabaseInv, CacheInv, JobsInv, TypeOK

-------------------------------------------------------------------------------
(* Lemmas about the operators.                                                *)

(* Whatever a body asks for, normalising it gives an acceptable scope or none *)
(* (normalizeCredentialScope).                                                *)
LEMMA NormalizedIsAccepted ==
    ASSUME NEW mode, NEW policy, NEW wanted, NEW s \in Normalized(mode, policy, wanted)
    PROVE  s \in Scopes /\ Accepted(s)
<1> DEFINE range == IF policy = "sticky" THEN "sticky" ELSE "random"
<1>1. range \in {"sticky", "random"}
    OBVIOUS
<1> HIDE DEF range
<1>2. /\ s \in {[mode |-> "all",   policy |-> range,   bindings |-> {}],
                [mode |-> "group", policy |-> range,   bindings |-> wanted \cap Groups],
                [mode |-> "node",  policy |-> "fixed", bindings |-> wanted \cap Nodes]}
      /\ s.mode = mode
      /\ mode = "group" => s.bindings # {}
      /\ mode = "node" => Cardinality(s.bindings) = 1
    BY DEF Normalized, range
<1>3. CASE s = [mode |-> "all", policy |-> range, bindings |-> {}]
    BY <1>1, <1>2, <1>3 DEF Scopes, Modes, Policies, Accepted
<1>4. CASE s = [mode |-> "group", policy |-> range, bindings |-> wanted \cap Groups]
    BY <1>1, <1>2, <1>4 DEF Scopes, Modes, Policies, Accepted, Targets
<1>5. CASE s = [mode |-> "node", policy |-> "fixed", bindings |-> wanted \cap Nodes]
    BY <1>1, <1>2, <1>5 DEF Scopes, Modes, Policies, Accepted, Targets
<1>6. QED BY <1>2, <1>3, <1>4, <1>5

(* A reload begins with an empty snapshot.                                    *)
LEMMA EmptyIsSnapshot == Empty \in Snapshots
BY DEF Empty, Snapshots, Account

(* What a reload that nothing comes into reads is a snapshot.                 *)
LEMMA ViewIsSnapshot == DatabaseInv => View \in Snapshots
BY DEF DatabaseInv, View, Snapshots, Account

(* The states in which a handler holds nothing that could be out of date.     *)
Plain == {"idle", "credentials", "checking", "storing"}

(* A worker at rest, and one that begins to reload.                           *)
LEMMA IdleJobs ==
    /\ Idle \in Jobs /\ Idle.at = "idle"
    /\ [Idle EXCEPT !.at = "credentials"] \in Jobs
    /\ [Idle EXCEPT !.at = "credentials"].at = "credentials"
BY EmptyIsSnapshot DEF Idle, Jobs, Stages, Loading, Account

(* Writing one field of a job.                                                *)
LEMMA JobWith ==
    ASSUME NEW r \in Jobs
    PROVE
      /\ \A x \in Stages : LET q == [r EXCEPT !.at = x] IN
            q \in Jobs /\ q.at = x /\ q.input = r.input /\ q.scope = r.scope
      /\ \A x \in Snapshots : LET q == [r EXCEPT !.seen = x] IN
            q \in Jobs /\ q.seen = x /\ q.at = r.at /\ q.input = r.input /\ q.scope = r.scope
      /\ \A x \in Updates \cup {<<>>} : LET q == [r EXCEPT !.input = x] IN
            q \in Jobs /\ q.input = x /\ q.at = r.at /\ q.scope = r.scope
      /\ \A x \in BOOLEAN : LET q == [r EXCEPT !.enabled = x] IN
            q \in Jobs /\ q.enabled = x /\ q.at = r.at /\ q.input = r.input /\ q.scope = r.scope
      /\ \A x \in Account \cup Scopes : LET q == [r EXCEPT !.scope = x] IN
            q \in Jobs /\ q.scope = x /\ q.at = r.at /\ q.input = r.input
      /\ \A x \in SUBSET Nodes : LET q == [r EXCEPT !.todo = x] IN
            q \in Jobs /\ q.todo = x /\ q.at = r.at /\ q.input = r.input /\ q.scope = r.scope
      /\ \A x \in Nodes \cup {NoNode} : LET q == [r EXCEPT !.to = x] IN
            q \in Jobs /\ q.to = x /\ q.at = r.at /\ q.input = r.input /\ q.scope = r.scope
BY DEF Jobs

(* A step of one worker: what it did to the others is covered by their        *)
(* history variable.                                                          *)
LEMMA WorkerStep ==
    ASSUME JobsInv, NEW w \in Workers, NEW j \in Jobs, job' = [job EXCEPT ![w] = j],
           UpdateIsAccepted(j), GroupsSeenWithinNodes(j), quiet'[w] => SeenIsExact(j, View'),
           \/ NothingWritten
           \/ Written
           \/ UNCHANGED database /\ quiet' = [quiet EXCEPT ![w] = TRUE]
    PROVE  JobsInv'
<1>1. /\ job' \in [Workers -> Jobs]
      /\ job'[w] = j
      /\ \A v \in Workers \ {w} : job'[v] = job[v]
    BY DEF JobsInv
<1>2. quiet' \in [Workers -> BOOLEAN]
    BY DEF JobsInv, NothingWritten, Written
<1>3. ASSUME NEW v \in Workers, v # w, quiet'[v]
      PROVE  View' = View /\ quiet[v]
    BY <1>3 DEF JobsInv, NothingWritten, Written, database, View, Loadable
<1>4. QED BY <1>1, <1>2, <1>3 DEF JobsInv

(* A step that leaves a worker in a stage where it holds nothing of the tables. *)
LEMMA PlainStep ==
    ASSUME JobsInv, NEW w \in Workers, NEW j \in Jobs, job' = [job EXCEPT ![w] = j],
           j.at \in Plain, NothingWritten \/ Written
    PROVE  JobsInv'
<1>1. /\ UpdateIsAccepted(j) /\ GroupsSeenWithinNodes(j) /\ SeenIsExact(j, View')
    BY DEF Plain, UpdateIsAccepted, GroupsSeenWithinNodes, SeenIsExact
<1>2. QED BY <1>1, WorkerStep

(* A handler that goes on to its reload holds nothing of the tables yet.      *)
LEMMA ThenReloadStep ==
    ASSUME JobsInv, NEW w \in Workers, ThenReload(w), NothingWritten \/ Written
    PROVE  JobsInv'
BY PlainStep, IdleJobs DEF ThenReload, Plain

(* A handler that is done holds nothing.                                      *)
LEMMA ThenIdleStep ==
    ASSUME JobsInv, NEW w \in Workers, job' = [job EXCEPT ![w] = Idle], NothingWritten
    PROVE  JobsInv'
BY PlainStep, IdleJobs DEF Plain

(* A step that writes no table keeps what is known of them.                   *)
LEMMA DatabaseKept ==
    ASSUME DatabaseInv, UNCHANGED database
    PROVE  DatabaseInv'
BY DEF DatabaseInv, database, StoredScopeOK

(* A step that installs nothing keeps what is known of the cache.             *)
LEMMA CacheKept ==
    ASSUME CacheInv, UNCHANGED cache
    PROVE  CacheInv'
BY DEF CacheInv, GroupsWithinNodes

(* At the start the cache is loaded and nobody holds anything.                *)
LEMMA InitInv == Init => ConfigInv
<1> SUFFICES ASSUME Init PROVE ConfigInv
    OBVIOUS
<1>1. DatabaseInv
    BY DEF Init, DatabaseInv, StoredScopeOK, Account, Modes, NoAccount
<1>2. CacheInv
    <2>1. cache \in Snapshots
        BY <1>1, ViewIsSnapshot DEF Init
    <2>2. \A g \in Groups : View.members[g] \subseteq View.nodes
        BY DEF Init, View, Loadable
    <2>3. QED BY <2>1, <2>2 DEF Init, CacheInv, GroupsWithinNodes
<1>3. JobsInv
    BY IdleJobs DEF Init, JobsInv, UpdateIsAccepted, GroupsSeenWithinNodes
<1>4. QED BY <1>1, <1>2, <1>3 DEF ConfigInv

-------------------------------------------------------------------------------
(* Load.                                                                      *)
LEMMA ReadsJob ==
    ASSUME JobsInv, NEW w \in Workers, NEW from, NEW to \in Stages, NEW seen \in Snapshots,
           Reads(w, from, to, seen)
    PROVE  \E j \in Jobs : j.at = to /\ j.seen = seen /\ job' = [job EXCEPT ![w] = j]
<1> DEFINE r == [job[w] EXCEPT !.at = to]
           j == [r EXCEPT !.seen = seen]
<1>1. r \in Jobs /\ r.at = to
    BY JobWith DEF JobsInv
<1>2. job' = [job EXCEPT ![w] = j]
    BY DEF Reads, JobsInv
<1> HIDE DEF r
<1>3. j \in Jobs /\ j.at = to /\ j.seen = seen
    BY <1>1, JobWith
<1>4. QED BY <1>2, <1>3

(* A reload goes on by one statement.                                         *)
LEMMA ReadsStep ==
    ASSUME JobsInv, NEW w \in Workers, NEW from, NEW to \in Stages, NEW seen \in Snapshots,
           Reads(w, from, to, seen), UNCHANGED quiet,
           to \notin {"merging", "rereading", "updating"},
           to \in {"sticky", "install"} => \A g \in Groups : seen.members[g] \subseteq seen.nodes,
           quiet[w] => \A j : j.at = to /\ j.seen = seen => SeenIsExact(j, View)
    PROVE  JobsInv'
<1>1. PICK j \in Jobs : j.at = to /\ j.seen = seen /\ job' = [job EXCEPT ![w] = j]
    BY ReadsJob
<1>2. UpdateIsAccepted(j) /\ GroupsSeenWithinNodes(j)
    BY <1>1 DEF UpdateIsAccepted, GroupsSeenWithinNodes
<1>3. View' = View
    BY DEF Reads, database, View, Loadable
<1>4. quiet'[w] => SeenIsExact(j, View')
    BY <1>1, <1>3
<1>5. NothingWritten
    BY DEF Reads, NothingWritten
<1>6. QED BY <1>1, <1>2, <1>4, <1>5, WorkerStep

(* The first statement of Load: the credential, if it is enabled.             *)
LEMMA ReadCredentialsKeeps ==
    ASSUME ConfigInv, NEW w \in Workers, ReadCredentials(w)
    PROVE  JobsInv'
<1> DEFINE read == IF account.enabled THEN account ELSE NoAccount
           seen == [job[w].seen EXCEPT !.account = read]
<1>1. job[w].seen \in Snapshots /\ read \in Account
    BY DEF ConfigInv, JobsInv, DatabaseInv, Jobs, Account
<1>2. read = View.account /\ View' = View
    BY DEF View, ReadCredentials, Reads, database, Loadable
<1> HIDE DEF read
<1>3. seen \in Snapshots /\ seen.account = read
    BY <1>1 DEF Snapshots
<1> HIDE DEF seen
<1>4. Reads(w, "credentials", "bindings", seen) /\ quiet' = [quiet EXCEPT ![w] = TRUE]
    BY DEF ReadCredentials, seen, read
<1>5. PICK j \in Jobs : j.at = "bindings" /\ j.seen = seen /\ job' = [job EXCEPT ![w] = j]
    BY <1>3, <1>4, ReadsJob DEF ConfigInv, Stages, Loading
<1>6. UpdateIsAccepted(j) /\ GroupsSeenWithinNodes(j) /\ SeenIsExact(j, View')
    BY <1>2, <1>3, <1>5 DEF UpdateIsAccepted, GroupsSeenWithinNodes, SeenIsExact
<1>7. UNCHANGED database
    BY <1>4 DEF Reads
<1>8. QED BY <1>4, <1>5, <1>6, <1>7, WorkerStep DEF ConfigInv

(* The bindings are those of the credential that was read.                    *)
LEMMA ReadBindingsKeeps ==
    ASSUME ConfigInv, NEW w \in Workers, ReadBindings(w)
    PROVE  JobsInv'
<1> DEFINE read == IF job[w].seen.account = NoAccount THEN {} ELSE bindings
           seen == [job[w].seen EXCEPT !.bindings = read]
<1>1. job[w].seen \in Snapshots /\ read \subseteq Targets /\ job[w].at = "bindings"
    BY DEF ConfigInv, JobsInv, DatabaseInv, Jobs, ReadBindings, Reads
<1>2. quiet[w] => job[w].seen.account = View.account /\ read = View.bindings
    <2>1. quiet[w] => job[w].seen.account = View.account
        BY <1>1 DEF ConfigInv, JobsInv, SeenIsExact
    <2>2. View.account = NoAccount <=> ~account.enabled
        <3>1. View.account = IF account.enabled THEN account ELSE NoAccount
            BY DEF View
        <3>2. account.enabled => account # NoAccount
            BY DEF NoAccount
        <3>3. QED BY <3>1, <3>2
    <2>3. View.bindings = IF account.enabled THEN bindings ELSE {}
        BY DEF View
    <2>4. QED BY <2>1, <2>2, <2>3
<1> HIDE DEF read
<1>3. /\ seen \in Snapshots /\ seen.bindings = read
      /\ seen.account = job[w].seen.account
    BY <1>1 DEF Snapshots
<1> HIDE DEF seen
<1>4. Reads(w, "bindings", "nodes", seen) /\ UNCHANGED quiet
    BY DEF ReadBindings, seen, read
<1>5. quiet[w] => \A j : j.at = "nodes" /\ j.seen = seen => SeenIsExact(j, View)
    BY <1>2, <1>3 DEF SeenIsExact
<1>6. QED BY <1>3, <1>4, <1>5, ReadsStep DEF ConfigInv, Stages, Loading

(* The third: the nodes that are enabled and not dead.                        *)
LEMMA ReadNodesKeeps ==
    ASSUME ConfigInv, NEW w \in Workers, ReadNodes(w)
    PROVE  JobsInv'
<1> DEFINE read == {n \in Nodes : Loadable(n)}
           seen == [job[w].seen EXCEPT !.nodes = read]
<1>1. job[w].seen \in Snapshots /\ read \subseteq Nodes /\ job[w].at = "nodes"
    BY DEF ConfigInv, JobsInv, Jobs, ReadNodes, Reads
<1>2. /\ read = View.nodes
      /\ quiet[w] => /\ job[w].seen.account = View.account
                     /\ job[w].seen.bindings = View.bindings
    BY <1>1 DEF ConfigInv, JobsInv, SeenIsExact, View
<1> HIDE DEF read
<1>3. /\ seen \in Snapshots /\ seen.nodes = read
      /\ seen.account = job[w].seen.account /\ seen.bindings = job[w].seen.bindings
    BY <1>1 DEF Snapshots
<1> HIDE DEF seen
<1>4. Reads(w, "nodes", "groups", seen) /\ UNCHANGED quiet
    BY DEF ReadNodes, seen, read
<1>5. quiet[w] => \A j : j.at = "groups" /\ j.seen = seen => SeenIsExact(j, View)
    BY <1>2, <1>3 DEF SeenIsExact
<1>6. QED BY <1>3, <1>4, <1>5, ReadsStep DEF ConfigInv, Stages, Loading

(* Members that are not among the nodes read before are dropped.              *)
LEMMA ReadGroupsKeeps ==
    ASSUME ConfigInv, NEW w \in Workers, ReadGroups(w)
    PROVE  JobsInv'
<1> DEFINE read == [g \in Groups |-> members[g] \cap job[w].seen.nodes]
           seen == [job[w].seen EXCEPT !.members = read]
<1>1. job[w].seen \in Snapshots /\ job[w].at = "groups"
    BY DEF ConfigInv, JobsInv, Jobs, ReadGroups, Reads
<1>2. read \in [Groups -> SUBSET Nodes]
    BY DEF ConfigInv, DatabaseInv
<1>3. quiet[w] => /\ job[w].seen.account = View.account
                  /\ job[w].seen.bindings = View.bindings
                  /\ job[w].seen.nodes = View.nodes
    BY <1>1 DEF ConfigInv, JobsInv, SeenIsExact
<1>4. quiet[w] => read = View.members
    <2>1. \A g \in Groups : members[g] \cap {n \in Nodes : Loadable(n)}
                              = {n \in members[g] : Loadable(n)}
        BY DEF ConfigInv, DatabaseInv
    <2>2. View.nodes = {n \in Nodes : Loadable(n)}
        BY DEF View
    <2>3. View.members = [g \in Groups |-> {n \in members[g] : Loadable(n)}]
        BY DEF View
    <2>4. QED BY <1>3, <2>1, <2>2, <2>3
<1>5. \A g \in Groups : read[g] \subseteq job[w].seen.nodes
    OBVIOUS
<1> HIDE DEF read
<1>6. /\ seen \in Snapshots /\ seen.members = read
      /\ seen.account = job[w].seen.account /\ seen.bindings = job[w].seen.bindings
      /\ seen.nodes = job[w].seen.nodes
    BY <1>1, <1>2 DEF Snapshots
<1> HIDE DEF seen
<1>7. Reads(w, "groups", "sticky", seen) /\ UNCHANGED quiet
    BY DEF ReadGroups, seen, read
<1>8. quiet[w] => \A j : j.at = "sticky" /\ j.seen = seen => SeenIsExact(j, View)
    BY <1>3, <1>4, <1>6 DEF SeenIsExact
<1>9. QED BY <1>5, <1>6, <1>7, <1>8, ReadsStep DEF ConfigInv, Stages, Loading

(* The last: the stored sticky choice.                                        *)
LEMMA ReadStickyKeeps ==
    ASSUME ConfigInv, NEW w \in Workers, ReadSticky(w)
    PROVE  JobsInv'
<1> DEFINE seen == [job[w].seen EXCEPT !.sticky = stickyRow]
<1>1. job[w].seen \in Snapshots /\ stickyRow \in Nodes \cup {NoNode} /\ job[w].at = "sticky"
    BY DEF ConfigInv, JobsInv, DatabaseInv, Jobs, ReadSticky, Reads
<1>2. /\ \A g \in Groups : job[w].seen.members[g] \subseteq job[w].seen.nodes
      /\ quiet[w] => /\ job[w].seen.account = View.account
                     /\ job[w].seen.bindings = View.bindings
                     /\ job[w].seen.nodes = View.nodes
                     /\ job[w].seen.members = View.members
    BY <1>1 DEF ConfigInv, JobsInv, SeenIsExact, GroupsSeenWithinNodes
<1>3. /\ seen \in Snapshots /\ seen.sticky = stickyRow
      /\ seen.account = job[w].seen.account /\ seen.bindings = job[w].seen.bindings
      /\ seen.nodes = job[w].seen.nodes /\ seen.members = job[w].seen.members
    BY <1>1 DEF Snapshots
<1> HIDE DEF seen
<1>4. Reads(w, "sticky", "install", seen) /\ UNCHANGED quiet
    BY DEF ReadSticky, seen
<1>5. quiet[w] => \A j : j.at = "install" /\ j.seen = seen => SeenIsExact(j, View)
    <2>1. View.sticky = stickyRow
        BY DEF View
    <2>2. QED BY <1>2, <1>3, <2>1 DEF SeenIsExact
<1>6. QED BY <1>2, <1>3, <1>4, <1>5, ReadsStep DEF ConfigInv, Stages, Loading

(* Installing what was read, or failing to read it.                           *)
LEMMA LoadKeeps ==
    ASSUME ConfigInv, NEW w \in Workers, Load(w) \/ LoadFails(w)
    PROVE  ConfigInv'
<1>1. DatabaseInv'
    BY DatabaseKept DEF ConfigInv, Load, LoadFails, ReadCredentials, ReadBindings, ReadNodes,
        ReadGroups, ReadSticky, Reads, Install, NothingWritten
<1>2. CASE Install(w)
    <2>1. job[w].seen \in Snapshots
        BY DEF ConfigInv, JobsInv, Jobs
    <2>2. \A g \in Groups : job[w].seen.members[g] \subseteq job[w].seen.nodes
        BY <1>2 DEF ConfigInv, JobsInv, GroupsSeenWithinNodes, Install
    <2>3. CacheInv'
        BY <1>2, <2>1, <2>2 DEF CacheInv, GroupsWithinNodes, Install
    <2>4. JobsInv'
        BY <1>2, ThenIdleStep DEF ConfigInv, Install, NothingWritten
    <2>5. QED BY <1>1, <2>3, <2>4 DEF ConfigInv
<1>3. CASE LoadFails(w)
    BY <1>1, <1>3, CacheKept, ThenIdleStep DEF ConfigInv, LoadFails
<1>4. CASE Load(w) /\ ~Install(w)
    <2>1. CacheInv'
        BY <1>4, CacheKept DEF ConfigInv, Load, ReadCredentials, ReadBindings, ReadNodes,
            ReadGroups, ReadSticky, Reads
    <2>2. JobsInv'
        BY <1>4, ReadCredentialsKeeps, ReadBindingsKeeps, ReadNodesKeeps, ReadGroupsKeeps,
            ReadStickyKeeps DEF Load
    <2>3. QED BY <1>1, <2>1, <2>2 DEF ConfigInv
<1>5. QED BY <1>2, <1>3, <1>4

-------------------------------------------------------------------------------
(* Updating and deleting the credential.                                      *)
LEMMA StartUpdateKeeps ==
    ASSUME ConfigInv, NEW w \in Workers, StartUpdate(w)
    PROVE  ConfigInv'
<1>1. DatabaseInv' /\ CacheInv'
    BY DatabaseKept, CacheKept DEF ConfigInv, StartUpdate, NothingWritten
<1>2. PICK u \in Updates :
        IF account = NoAccount THEN ThenReload(w)
        ELSE job' = [job EXCEPT ![w] =
                [Idle EXCEPT !.at = "merging", !.input = u, !.scope = account]]
    BY DEF StartUpdate
<1>3. CASE account = NoAccount
    BY <1>1, <1>2, <1>3, ThenReloadStep DEF ConfigInv, StartUpdate
<1>4. CASE account # NoAccount
    <2> DEFINE r == [Idle EXCEPT !.at = "merging"]
               q == [r EXCEPT !.input = u]
               j == [q EXCEPT !.scope = account]
    <2>1. account \in Account \ {NoAccount}
        BY <1>4 DEF ConfigInv, DatabaseInv
    <2>2. r \in Jobs /\ r.at = "merging"
        BY IdleJobs, JobWith DEF Stages
    <2>3. job' = [job EXCEPT ![w] = j]
        BY <1>2, <1>4
    <2> HIDE DEF r
    <2>4. q \in Jobs /\ q.at = "merging" /\ q.input = u
        BY <2>2, JobWith
    <2> HIDE DEF q
    <2>5. j \in Jobs /\ j.at = "merging" /\ j.input = u /\ j.scope = account
        BY <2>1, <2>4, JobWith
    <2> HIDE DEF j
    <2>6. UpdateIsAccepted(j) /\ GroupsSeenWithinNodes(j) /\ SeenIsExact(j, View')
        BY <2>1, <2>5 DEF UpdateIsAccepted, GroupsSeenWithinNodes, SeenIsExact
    <2>7. JobsInv'
        BY <2>3, <2>5, <2>6, WorkerStep DEF ConfigInv, StartUpdate
    <2>8. QED BY <1>1, <2>7 DEF ConfigInv
<1>5. QED BY <1>3, <1>4

(* What normalising returns is what will be written, however old it is then.  *)
LEMMA MergeUpdateKeeps ==
    ASSUME ConfigInv, NEW w \in Workers, MergeUpdate(w)
    PROVE  ConfigInv'
<1>1. DatabaseInv' /\ CacheInv'
    BY DatabaseKept, CacheKept DEF ConfigInv, MergeUpdate, NothingWritten
<1>2. job[w] \in Jobs /\ job[w].at = "merging" /\ job[w].input \in Updates
    BY DEF ConfigInv, JobsInv, MergeUpdate, UpdateIsAccepted
<1>3. CASE ThenReload(w)
    BY <1>1, <1>3, ThenReloadStep DEF ConfigInv, MergeUpdate
<1>4. CASE ~ThenReload(w)
    <2>1. PICK s : /\ s \in Scopes /\ Accepted(s)
                   /\ job' = [job EXCEPT ![w].at = "rereading", ![w].scope = s]
        BY <1>4, NormalizedIsAccepted DEF MergeUpdate
    <2> DEFINE r == [job[w] EXCEPT !.at = "rereading"]
               j == [r EXCEPT !.scope = s]
    <2>2. r \in Jobs /\ r.at = "rereading" /\ r.input = job[w].input
        BY <1>2, JobWith DEF Stages
    <2>3. job' = [job EXCEPT ![w] = j]
        BY <2>1 DEF ConfigInv, JobsInv
    <2> HIDE DEF r
    <2>4. j \in Jobs /\ j.at = "rereading" /\ j.input = job[w].input /\ j.scope = s
        BY <2>1, <2>2, JobWith
    <2> HIDE DEF j
    <2>5. UpdateIsAccepted(j) /\ GroupsSeenWithinNodes(j) /\ SeenIsExact(j, View')
        BY <1>2, <2>1, <2>4 DEF UpdateIsAccepted, GroupsSeenWithinNodes, SeenIsExact
    <2>6. JobsInv'
        BY <2>3, <2>4, <2>5, WorkerStep DEF ConfigInv, MergeUpdate
    <2>7. QED BY <1>1, <2>6 DEF ConfigInv
<1>5. QED BY <1>3, <1>4

(* UpdateCredential: the row is read again before the transaction.            *)
LEMMA RereadAccountKeeps ==
    ASSUME ConfigInv, NEW w \in Workers, RereadAccount(w)
    PROVE  ConfigInv'
<1>1. DatabaseInv' /\ CacheInv'
    BY DatabaseKept, CacheKept DEF ConfigInv, RereadAccount, NothingWritten
<1>2. /\ job[w] \in Jobs /\ job[w].at = "rereading" /\ job[w].input \in Updates
      /\ job[w].scope \in Scopes /\ Accepted(job[w].scope)
    BY DEF ConfigInv, JobsInv, RereadAccount, UpdateIsAccepted
<1>3. CASE account = NoAccount
    BY <1>1, <1>3, ThenReloadStep DEF ConfigInv, RereadAccount
<1>4. CASE account # NoAccount
    <2> DEFINE enabled == Given(job[w].input, "enabled", account.enabled)
               r == [job[w] EXCEPT !.at = "updating"]
               q == [r EXCEPT !.input = <<>>]
               j == [q EXCEPT !.enabled = enabled]
    <2>1. enabled \in BOOLEAN
        <3>1. account.enabled \in BOOLEAN
            BY <1>4 DEF ConfigInv, DatabaseInv, Account
        <3>2. QED BY <1>2, <3>1, UpdatesAssumption DEF Given
    <2>2. job' = [job EXCEPT ![w] = j]
        BY <1>4 DEF RereadAccount, ConfigInv, JobsInv
    <2> HIDE DEF enabled
    <2>3. r \in Jobs /\ r.at = "updating" /\ r.scope = job[w].scope
        <3>1. "updating" \in Stages
            BY DEF Stages
        <3>2. QED BY <1>2, <3>1, JobWith
    <2> HIDE DEF r
    <2>4. q \in Jobs /\ q.at = "updating" /\ q.scope = job[w].scope
        BY <2>3, JobWith
    <2> HIDE DEF q
    <2>5. j \in Jobs /\ j.at = "updating" /\ j.scope = job[w].scope
        BY <2>1, <2>4, JobWith
    <2> HIDE DEF j
    <2>6. UpdateIsAccepted(j) /\ GroupsSeenWithinNodes(j) /\ SeenIsExact(j, View')
        BY <1>2, <2>5 DEF UpdateIsAccepted, GroupsSeenWithinNodes, SeenIsExact
    <2>7. JobsInv'
        BY <2>2, <2>5, <2>6, WorkerStep DEF ConfigInv, RereadAccount
    <2>8. QED BY <1>1, <2>7 DEF ConfigInv
<1>5. QED BY <1>3, <1>4

(* UpdateCredential: the transaction, for a row that may be gone.             *)
LEMMA CommitUpdateKeeps ==
    ASSUME ConfigInv, NEW w \in Workers, CommitUpdate(w)
    PROVE  ConfigInv'
<1>1. CacheInv'
    BY CacheKept DEF ConfigInv, CommitUpdate
<1>2. JobsInv'
    <2>1. NothingWritten \/ Written
        BY DEF CommitUpdate
    <2>2. QED BY <2>1, ThenReloadStep DEF ConfigInv, CommitUpdate
<1>3. CASE account = NoAccount
    BY <1>1, <1>2, <1>3, DatabaseKept DEF ConfigInv, CommitUpdate, NothingWritten
<1>4. CASE account # NoAccount
    <2> DEFINE scope == job[w].scope
    <2>1. scope \in Scopes /\ Accepted(scope) /\ job[w].enabled \in BOOLEAN
        BY DEF ConfigInv, JobsInv, Jobs, CommitUpdate, UpdateIsAccepted
    <2>2. /\ account' = [enabled |-> job[w].enabled, mode |-> scope.mode, policy |-> scope.policy]
          /\ bindings' = scope.bindings
          /\ UNCHANGED <<rows, groupIds, members, stickyRow>>
        BY <1>4 DEF CommitUpdate
    <2> HIDE DEF scope
    <2>3. account' \in Account /\ bindings' \subseteq Targets
        BY <2>1, <2>2 DEF Scopes, Account, Policies
    <2>4. StoredScopeOK'
        BY <2>1, <2>2 DEF StoredScopeOK, Accepted, Scopes, Modes, Policies, NoAccount
    <2>5. DatabaseInv'
        BY <2>2, <2>3, <2>4 DEF ConfigInv, DatabaseInv
    <2>6. QED BY <1>1, <1>2, <2>5 DEF ConfigInv
<1>5. QED BY <1>3, <1>4

(* Deleting the credential takes its bindings with it.                        *)
LEMMA DeleteCredentialKeeps ==
    ASSUME ConfigInv, NEW w \in Workers, DeleteCredential(w)
    PROVE  ConfigInv'
<1>1. CacheInv' /\ JobsInv'
    BY CacheKept, ThenReloadStep DEF ConfigInv, DeleteCredential
<1>2. DatabaseInv'
    BY DEF ConfigInv, DatabaseInv, DeleteCredential, StoredScopeOK, NoAccount, Account
<1>3. QED BY <1>1, <1>2 DEF ConfigInv

-------------------------------------------------------------------------------
(* Nodes, groups and the sticky choice.                                       *)
LEMMA SetNodeEnabledKeeps ==
    ASSUME ConfigInv, NEW w \in Workers, SetNodeEnabled(w)
    PROVE  ConfigInv'
<1>1. CacheInv' /\ JobsInv'
    BY CacheKept, ThenReloadStep DEF ConfigInv, SetNodeEnabled
<1>2. rows' \in [Nodes -> [enabled : BOOLEAN, dead : BOOLEAN]]
    BY DEF ConfigInv, DatabaseInv, SetNodeEnabled
<1>3. DatabaseInv'
    BY <1>2 DEF ConfigInv, DatabaseInv, SetNodeEnabled, StoredScopeOK
<1>4. QED BY <1>1, <1>3 DEF ConfigInv

(* A health check starts, of the scheduler or of a handler.                   *)
LEMMA StartSweepKeeps ==
    ASSUME ConfigInv, NEW w \in Workers, StartSweep(w)
    PROVE  ConfigInv'
<1> DEFINE checkable == {n \in Nodes : rows[n].enabled}
           r == [Idle EXCEPT !.at = "checking"]
           j == [r EXCEPT !.todo = checkable]
<1>1. DatabaseInv' /\ CacheInv'
    BY DatabaseKept, CacheKept DEF ConfigInv, StartSweep, NothingWritten
<1>2. ThenReload(w) \/ job' = [job EXCEPT ![w] = j]
    BY DEF StartSweep
<1>3. r \in Jobs /\ r.at = "checking"
    BY IdleJobs, JobWith DEF Stages
<1> HIDE DEF r
<1>4. j \in Jobs /\ j.at = "checking"
    BY <1>3, JobWith
<1> HIDE DEF j
<1>5. JobsInv'
    BY <1>2, <1>4, ThenReloadStep, PlainStep DEF ConfigInv, StartSweep, Plain
<1>6. QED BY <1>1, <1>5 DEF ConfigInv

(* A check records a node alive or dead.                                      *)
LEMMA CheckNodeKeeps ==
    ASSUME ConfigInv, NEW w \in Workers, CheckNode(w)
    PROVE  ConfigInv'
<1>1. job[w] \in Jobs /\ job[w].at = "checking"
    BY DEF ConfigInv, JobsInv, CheckNode
<1>2. CacheInv'
    BY CacheKept DEF ConfigInv, CheckNode
<1>3. PICK n \in job[w].todo, dead \in BOOLEAN :
        /\ rows' = [rows EXCEPT ![n].dead = dead]
        /\ ThenReload(w) \/ job' = [job EXCEPT ![w].todo = @ \ {n}]
    BY DEF CheckNode
<1>4. rows' \in [Nodes -> [enabled : BOOLEAN, dead : BOOLEAN]]
    BY <1>1, <1>3 DEF ConfigInv, DatabaseInv, Jobs
<1>5. DatabaseInv'
    BY <1>4 DEF ConfigInv, DatabaseInv, CheckNode, StoredScopeOK
<1>6. CASE ThenReload(w)
    BY <1>2, <1>5, <1>6, ThenReloadStep DEF ConfigInv, CheckNode
<1>7. CASE job' = [job EXCEPT ![w].todo = @ \ {n}]
    <2> DEFINE j == [job[w] EXCEPT !.todo = job[w].todo \ {n}]
    <2>1. j \in Jobs /\ j.at = "checking"
        BY <1>1 DEF Jobs
    <2>2. job' = [job EXCEPT ![w] = j]
        BY <1>7 DEF ConfigInv, JobsInv
    <2> HIDE DEF j
    <2>3. JobsInv'
        BY <2>1, <2>2, PlainStep DEF ConfigInv, CheckNode, Plain
    <2>4. QED BY <1>2, <1>5, <2>3 DEF ConfigInv
<1>8. QED BY <1>3, <1>6, <1>7

(* A result that is not recorded changes nothing stored.                      *)
LEMMA RecordFailsKeeps ==
    ASSUME ConfigInv, NEW w \in Workers, RecordFails(w)
    PROVE  ConfigInv'
<1>1. DatabaseInv' /\ CacheInv'
    BY DatabaseKept, CacheKept DEF ConfigInv, RecordFails, NothingWritten
<1>2. PICK n \in job[w].todo :
        ThenReload(w) \/ job' = [job EXCEPT ![w].todo = @ \ {n}]
    BY DEF RecordFails
<1>3. job[w] \in Jobs /\ job[w].at = "checking"
    BY DEF ConfigInv, JobsInv, RecordFails
<1>4. CASE ThenReload(w)
    BY <1>1, <1>4, ThenReloadStep DEF ConfigInv, RecordFails
<1>5. CASE job' = [job EXCEPT ![w].todo = @ \ {n}]
    <2> DEFINE j == [job[w] EXCEPT !.todo = job[w].todo \ {n}]
    <2>1. j \in Jobs /\ j.at = "checking"
        BY <1>3 DEF Jobs
    <2>2. job' = [job EXCEPT ![w] = j]
        BY <1>5 DEF ConfigInv, JobsInv
    <2> HIDE DEF j
    <2>3. JobsInv'
        BY <2>1, <2>2, PlainStep DEF ConfigInv, RecordFails, Plain
    <2>4. QED BY <1>1, <2>3 DEF ConfigInv
<1>6. QED BY <1>2, <1>4, <1>5

(* Members change; a deleted group has none.                                  *)
LEMMA GroupsKeep ==
    ASSUME ConfigInv, NEW w \in Workers, ChangeMembers(w) \/ DeleteGroup(w)
    PROVE  ConfigInv'
<1>1. CacheInv' /\ JobsInv'
    BY CacheKept, ThenReloadStep DEF ConfigInv, ChangeMembers, DeleteGroup
<1>2. /\ groupIds' \subseteq Groups
      /\ members' \in [Groups -> SUBSET Nodes]
      /\ \A g \in Groups \ groupIds' : members'[g] = {}
    BY DEF ConfigInv, DatabaseInv, ChangeMembers, DeleteGroup
<1>3. DatabaseInv'
    BY <1>2 DEF ConfigInv, DatabaseInv, ChangeMembers, DeleteGroup, StoredScopeOK
<1>4. QED BY <1>1, <1>3 DEF ConfigInv

(* A switch moves the cached choice first,                                    *)
LEMMA SwitchCachedKeeps ==
    ASSUME ConfigInv, NEW w \in Workers, SwitchCached(w)
    PROVE  ConfigInv'
<1>1. DatabaseInv'
    BY DatabaseKept DEF ConfigInv, SwitchCached, NothingWritten
<1>2. Candidates(cache) \subseteq Nodes
    BY DEF ConfigInv, CacheInv, Snapshots, Candidates
<1>3. PICK n \in Nodes :
        /\ cache' = [cache EXCEPT !.sticky = n]
        /\ job' = [job EXCEPT ![w] = [Idle EXCEPT !.at = "storing", !.to = n]]
    BY <1>2 DEF SwitchCached
<1>4. CacheInv'
    BY <1>3 DEF ConfigInv, CacheInv, Snapshots, GroupsWithinNodes
<1> DEFINE r == [Idle EXCEPT !.at = "storing"]
           j == [r EXCEPT !.to = n]
<1>5. r \in Jobs /\ r.at = "storing" /\ job' = [job EXCEPT ![w] = j]
    BY <1>3, IdleJobs, JobWith DEF Stages
<1> HIDE DEF r
<1>6. j \in Jobs /\ j.at = "storing"
    BY <1>5, JobWith
<1> HIDE DEF j
<1>7. JobsInv'
    BY <1>5, <1>6, PlainStep DEF ConfigInv, SwitchCached, Plain
<1>8. QED BY <1>1, <1>4, <1>7 DEF ConfigInv

(* ... then the stored one, unless the write fails.                           *)
LEMMA SwitchEndKeeps ==
    ASSUME ConfigInv, NEW w \in Workers, SwitchStored(w) \/ SwitchFails(w)
    PROVE  ConfigInv'
<1>1. CacheInv'
    BY CacheKept DEF ConfigInv, SwitchStored, SwitchFails
<1>2. job' = [job EXCEPT ![w] = Idle] /\ (NothingWritten \/ Written)
    BY DEF SwitchStored, SwitchFails
<1>3. JobsInv'
    BY <1>2, PlainStep, IdleJobs DEF ConfigInv, Plain
<1>4. job[w].to \in Nodes \cup {NoNode}
    BY DEF ConfigInv, JobsInv, Jobs
<1>5. DatabaseInv'
    BY <1>4, DatabaseKept DEF ConfigInv, DatabaseInv, SwitchStored, SwitchFails, NothingWritten,
        StoredScopeOK
<1>6. QED BY <1>1, <1>3, <1>5 DEF ConfigInv

-------------------------------------------------------------------------------
(* Every step of every worker keeps the invariant.                            *)
LEMMA StepInv == ConfigInv /\ [Next]_vars => ConfigInv'
<1> SUFFICES ASSUME ConfigInv, [Next]_vars PROVE ConfigInv'
    OBVIOUS
<1>1. ASSUME NEW w \in Workers, Handle(w)
      PROVE  ConfigInv'
    BY <1>1, StartUpdateKeeps, MergeUpdateKeeps, RereadAccountKeeps, CommitUpdateKeeps,
        DeleteCredentialKeeps, SetNodeEnabledKeeps, StartSweepKeeps, CheckNodeKeeps, GroupsKeep,
        SwitchCachedKeeps, SwitchEndKeeps DEF Handle
<1>2. CASE UNCHANGED vars
    <2>1. UNCHANGED <<database, cache, job, quiet>> /\ View' = View
        BY <1>2 DEF vars, database, View, Loadable
    <2>2. DatabaseInv' /\ CacheInv'
        BY <2>1, DatabaseKept, CacheKept DEF ConfigInv
    <2>3. JobsInv'
        BY <2>1 DEF ConfigInv, JobsInv
    <2>4. QED BY <2>2, <2>3 DEF ConfigInv
<1>3. QED BY <1>1, <1>2, LoadKeeps, RecordFailsKeeps, SwitchEndKeeps DEF Next

(* The invariant behind the theorems of this module.                          *)
THEOREM ConfigInvariant == Spec => []ConfigInv
<1>1. QED BY InitInv, StepInv, PTL DEF Spec

(* The tables, the cache and what the workers hold keep their types.          *)
THEOREM TypeCorrect == Spec => []TypeOK
<1>1. QED BY InvImplies, ConfigInvariant, PTL

(* However updates overlap, with each other and with the deletion of the      *)
(* credential, the rows are a scope that the service accepts (UpdateCredential,*)
(* normalizeCredentialScope, DeleteCredential).                               *)
THEOREM StoredScopesAreAccepted == Spec => []StoredScopeOK
<1>1. QED BY InvImplies, ConfigInvariant, PTL

(* However a reload is torn, the cached groups contain cached nodes only      *)
(* (Load).                                                                    *)
THEOREM CachedGroupsAreLoaded == Spec => []GroupsWithinNodes
<1>1. QED BY InvImplies, ConfigInvariant, PTL

(* A reload that no write came into installs the database as it is (Load).    *)
THEOREM QuietReloadsAreExact == Spec => []ReloadIsExact
<1>1. ASSUME ConfigInv, NEW w \in Workers, quiet[w], job[w].at = "install"
      PROVE  job[w].seen = View
    <2>1. SeenIsExact(job[w], View)
        BY <1>1 DEF ConfigInv, JobsInv
    <2>2. job[w].seen \in Snapshots /\ View \in Snapshots
        BY <1>1, ViewIsSnapshot DEF ConfigInv, JobsInv, Jobs
    <2>3. QED BY <1>1, <2>1, <2>2 DEF SeenIsExact, Snapshots
<1>2. ConfigInv => ReloadIsExact
    BY <1>1 DEF ReloadIsExact
<1>3. QED BY <1>2, ConfigInvariant, PTL

(* No update, however late, brings back a credential that was deleted         *)
(* (UpdateCredential).                                                        *)
THEOREM DeletedStaysDeleted == Spec => DeletedForGood
<1>1. ASSUME [Next]_vars, account = NoAccount
      PROVE  account' = NoAccount
    <2>1. CASE UNCHANGED vars
        BY <1>1, <2>1 DEF vars, database
    <2>2. ASSUME NEW w \in Workers, Handle(w)
          PROVE  account' = NoAccount
        BY <1>1, <2>2 DEF Handle, StartUpdate, MergeUpdate, RereadAccount, CommitUpdate,
            DeleteCredential, SetNodeEnabled, StartSweep, CheckNode, ChangeMembers, DeleteGroup,
            SwitchCached, SwitchStored, NothingWritten, database
    <2>3. ASSUME NEW w \in Workers, Load(w) \/ LoadFails(w) \/ RecordFails(w) \/ SwitchFails(w)
          PROVE  account' = NoAccount
        BY <1>1, <2>3 DEF Load, LoadFails, RecordFails, SwitchFails, ReadCredentials,
            ReadBindings, ReadNodes, ReadGroups, ReadSticky, Install, Reads, NothingWritten, database
    <2>4. QED BY <1>1, <2>1, <2>2, <2>3 DEF Next
<1>2. [Next]_vars => [account = NoAccount => account' = NoAccount]_vars
    BY <1>1
<1>3. QED BY <1>2, PTL DEF Spec, DeletedForGood

===============================================================================
