----------------------- MODULE SubscriptionRefreshProofs -----------------------
(* Invariants of the refreshes of a subscription, for any nodes, stored rows,   *)
(* answers of the provider and any number of refreshers.                        *)
EXTENDS SubscriptionRefresh, FiniteSetTheorems, WellFoundedInduction, TLAPS

-------------------------------------------------------------------------------
(* A row stored under a key of an older version stands for its node: no row   *)
(* is stored under the node's own key beside it.                              *)
KeysApart(keys) == \A k \in keys \cap LegacyKeys : StableOf[k] \notin keys

(* The rows a refresh means to write are one per node, and a legacy key among *)
(* them is that of a row there is.                                            *)
OneRowPerNode(wanted) ==
    \A j, k \in DOMAIN wanted : StableOf[j] = StableOf[k] => j = k

FitsInto(wanted, keys) ==
    /\ DOMAIN wanted \cap LegacyKeys \subseteq keys
    /\ KeysApart(keys \cup DOMAIN wanted)

HoldsRealNode(wanted) ==
    (\E k \in DOMAIN wanted : wanted[k] \in Hinting) =>
        \E k \in DOMAIN wanted : StableOf[k] \notin Loopback

RefreshInv(r, table, there) ==
    /\ r.stage = "listing" => r.parsed \in Feeds /\ Usable(r.parsed)
    /\ r.stage \in Writing =>
        /\ OneRowPerNode(r.wanted)
        /\ HoldsRealNode(r.wanted)
        /\ there => FitsInto(r.wanted, DOMAIN table)

-------------------------------------------------------------------------------
(* What a refresh relies on while nobody interferes, with the rows it listed  *)
(* (before), the nodes it parsed (feed) and the rows as they are (table).     *)
Listed(r, before, feed) ==
    /\ KeysApart(DOMAIN before)
    /\ feed \in Feeds
    /\ r.wanted = Wanted(before, feed)
    /\ r.stage # "succeeded" => r.invalid = Invalid(before, r.wanted)

WantedWritten(wanted, before, table) ==
    /\ DOMAIN table = DOMAIN before \cup DOMAIN wanted
    /\ \A k \in DOMAIN wanted :
        table[k].enabled /\ table[k].config = wanted[k] /\ table[k].alive # "dead"

OthersKept(wanted, before, table) ==
    \A k \in DOMAIN table \ DOMAIN wanted : table[k] = before[k]

OthersRetired(wanted, before, table) ==
    \A k \in DOMAIN table \ DOMAIN wanted :
        ~table[k].enabled /\ table[k].config = before[k].config

SoloInv(r, v, table) ==
    v.solo =>
        /\ r.stage \in Writing
        /\ Listed(r, v.rows, v.parsed)
        /\ r.stage = "upserting" => table = v.rows
        /\ r.stage # "upserting" => WantedWritten(r.wanted, v.rows, table)
        /\ r.stage = "marking" => OthersKept(r.wanted, v.rows, table)
        /\ r.stage \in {"invalidating", "succeeded"} => OthersRetired(r.wanted, v.rows, table)

NoneMarks == \A p \in Refreshers : refresh[p].stage # "marking"

NoTwins(table) == \A s \in StableKeys : \A j, k \in Enabled(table, s) : j = k

PoolInv ==
    /\ TypeOK
    /\ NoOrphanNodes
    /\ KeysApart(DOMAIN rows)
    /\ clean /\ NoneMarks => NoTwins(rows)
    /\ \A p \in Refreshers :
        /\ RefreshInv(refresh[p], rows, exists)
        /\ SoloInv(refresh[p], view[p], rows)

USE KeysAssumption, FeedsAssumption DEF exists

-------------------------------------------------------------------------------
(* Lemmas about the operators.                                                *)
LEMMA TablesAre ==
    ASSUME NEW S, NEW f
    PROVE  f \in Tables(S) <=> DOMAIN f \subseteq RowKeys /\ f \in [DOMAIN f -> S]
BY DEF Tables

(* The empty table.                                                           *)
LEMMA NoRows ==
    ASSUME NEW S
    PROVE  <<>> \in Tables(S) /\ DOMAIN <<>> = {}
<1>1. <<>> \in [{} -> S]
    OBVIOUS
<1>2. DOMAIN <<>> = {}
    OBVIOUS
<1>3. QED BY <1>1, <1>2 DEF Tables

(* A legacy row to adopt can always be chosen.                                *)
LEMMA SmallestKey ==
    ASSUME NEW S \in SUBSET Nat, S # {}
    PROVE  \E k \in S : \A j \in S : k <= j
<1>1. PICK k \in S : \A j \in S : ~(<<j, k>> \in OpToRel(<, Nat))
    BY NatLessThanWellFounded, WFMin
<1>2. \A i, j \in Nat : i < j => <<i, j>> \in OpToRel(<, Nat)
    BY DEF OpToRel
<1>3. ASSUME NEW j \in S
      PROVE  k <= j
    <2>1. k \in Nat /\ j \in Nat
        OBVIOUS
    <2>2. ~(j < k)
        BY <1>1, <1>2, <2>1
    <2>3. QED BY <2>1, <2>2
<1>4. QED BY <1>3

(* The row a node goes to is its own in every sense: a row of that node, one  *)
(* in the pool if there is any, and a new one only if there is none.          *)
LEMMA RowForIsOwn ==
    ASSUME NEW table, DOMAIN table \subseteq RowKeys, KeysApart(DOMAIN table),
           NEW s \in StableKeys
    PROVE  LET k == RowFor(table, s) IN
           /\ k \in RowKeys /\ StableOf[k] = s
           /\ k \in DOMAIN table \/ (k = s /\ \A j \in DOMAIN table : StableOf[j] # s)
           /\ Enabled(table, s) # {} => k \in Enabled(table, s)
<1> DEFINE k == RowFor(table, s)
           same == Adoptable(table, s)
<1>1. /\ same \subseteq DOMAIN table
      /\ \A j \in same : StableOf[j] = s
      /\ same = {} => \A j \in DOMAIN table : StableOf[j] # s
      /\ Enabled(table, s) # {} => same = Enabled(table, s)
    BY DEF Adoptable, Enabled
<1> HIDE DEF same
<1>2. s \in RowKeys /\ StableOf[s] = s
    BY DEF RowKeys
<1>3. CASE s \in DOMAIN table
    <2>1. k = s
        BY <1>3 DEF RowFor
    <2>2. \A j \in DOMAIN table : StableOf[j] = s => j = s
        <3>1. \A j \in DOMAIN table \cap LegacyKeys : StableOf[j] # s
            BY <1>3 DEF KeysApart
        <3>2. QED BY <3>1 DEF RowKeys
    <2>3. Enabled(table, s) # {} => s \in Enabled(table, s)
        BY <2>2 DEF Enabled
    <2>4. QED BY <1>2, <1>3, <2>1, <2>3
<1>4. CASE s \notin DOMAIN table /\ same = {}
    <2>1. k = s
        BY <1>4 DEF RowFor, same
    <2>2. QED BY <1>1, <1>2, <1>4, <2>1
<1>5. CASE s \notin DOMAIN table /\ same # {}
    <2>1. k = CHOOSE i \in same : \A j \in same : i <= j
        BY <1>5 DEF RowFor, same
    <2>2. same \in SUBSET Nat
        BY <1>1
    <2>3. \E i \in same : \A j \in same : i <= j
        BY <1>5, <2>2, SmallestKey
    <2>4. k \in same
        BY <2>1, <2>3
    <2>5. QED BY <1>1, <2>4
<1>6. QED BY <1>3, <1>4, <1>5

(* What a refresh means to write: one row for each node of the list, with the *)
(* node's configuration.                                                      *)
LEMMA WantedIsList ==
    ASSUME NEW table, DOMAIN table \subseteq RowKeys, KeysApart(DOMAIN table),
           NEW feed \in Feeds
    PROVE  LET wanted == Wanted(table, feed) IN
           /\ wanted \in Tables(Configs) /\ DOMAIN wanted # {}
           /\ \A k \in DOMAIN wanted :
                StableOf[k] \in DOMAIN feed /\ wanted[k] = feed[StableOf[k]]
           /\ \A s \in DOMAIN feed : RowFor(table, s) \in DOMAIN wanted
           /\ OneRowPerNode(wanted)
           /\ FitsInto(wanted, DOMAIN table)
           /\ Usable(feed) => HoldsRealNode(wanted)
<1> DEFINE wanted == Wanted(table, feed)
           keys == {RowFor(table, s) : s \in DOMAIN feed}
<1>0. DOMAIN feed \subseteq StableKeys /\ DOMAIN feed # {} /\ \A s \in DOMAIN feed : feed[s] \in Configs
    OBVIOUS
<1>1. \A s \in DOMAIN feed :
        /\ RowFor(table, s) \in RowKeys /\ StableOf[RowFor(table, s)] = s
        /\ \/ RowFor(table, s) \in DOMAIN table
           \/ RowFor(table, s) = s /\ \A j \in DOMAIN table : StableOf[j] # s
    BY <1>0, RowForIsOwn
<1>2. \A k \in keys :
        /\ k \in RowKeys /\ StableOf[k] \in DOMAIN feed /\ k = RowFor(table, StableOf[k])
        /\ k \in DOMAIN table \/ (k \in StableKeys /\ \A j \in DOMAIN table : StableOf[j] # k)
    BY <1>0, <1>1
<1>3. \A s \in DOMAIN feed : RowFor(table, s) \in keys
    OBVIOUS
<1>4. wanted = [k \in keys |-> feed[StableOf[k]]]
    BY DEF Wanted
<1> HIDE DEF keys, wanted
<1>5. DOMAIN wanted = keys /\ \A k \in keys : wanted[k] = feed[StableOf[k]]
    BY <1>4
<1>6. wanted \in Tables(Configs)
    <2>1. wanted \in [keys -> Configs]
        BY <1>0, <1>2, <1>4
    <2>2. QED BY <1>2, <1>5, <2>1, TablesAre
<1>7. keys # {}
    BY <1>0, <1>3
<1>8. OneRowPerNode(wanted)
    BY <1>2, <1>5 DEF OneRowPerNode
<1>9. FitsInto(wanted, DOMAIN table)
    <2>1. keys \cap LegacyKeys \subseteq DOMAIN table
        BY <1>2
    <2>2. ASSUME NEW k \in (DOMAIN table \cup keys) \cap LegacyKeys
          PROVE  StableOf[k] \notin DOMAIN table \cup keys
        <3>1. k \in DOMAIN table
            BY <2>1
        <3>2. StableOf[k] \notin DOMAIN table
            BY <3>1 DEF KeysApart
        <3>3. StableOf[k] \in StableKeys
            BY DEF RowKeys
        <3>4. StableOf[k] \notin keys
            BY <1>2, <3>1, <3>2, <3>3
        <3>5. QED BY <3>2, <3>4
    <2>3. QED BY <1>5, <2>1, <2>2 DEF FitsInto, KeysApart
<1>10. ASSUME Usable(feed)
       PROVE  HoldsRealNode(wanted)
    <2>1. CASE \A s \in DOMAIN feed : feed[s] \notin Hinting
        BY <1>2, <1>5, <2>1 DEF HoldsRealNode
    <2>2. CASE \E s \in DOMAIN feed : s \notin Loopback
        BY <1>1, <1>3, <1>5, <2>2 DEF HoldsRealNode
    <2>3. QED BY <1>10, <2>1, <2>2 DEF Usable, LooksUnsupported
<1>11. QED BY <1>2, <1>3, <1>5, <1>6, <1>7, <1>8, <1>9, <1>10 DEF wanted

(* Writing one field of what a refresher holds.                               *)
LEMMA RefreshWith ==
    ASSUME NEW r \in Refreshes
    PROVE
      /\ \A x \in Stages : LET q == [r EXCEPT !.stage = x] IN
            /\ q \in Refreshes /\ q.stage = x
            /\ q.parsed = r.parsed /\ q.wanted = r.wanted /\ q.invalid = r.invalid
      /\ \A x \in Feeds \cup {<<>>} : LET q == [r EXCEPT !.parsed = x] IN
            /\ q \in Refreshes /\ q.parsed = x
            /\ q.stage = r.stage /\ q.wanted = r.wanted /\ q.invalid = r.invalid
      /\ \A x \in SUBSET RowKeys : LET q == [r EXCEPT !.invalid = x] IN
            /\ q \in Refreshes /\ q.invalid = x
            /\ q.stage = r.stage /\ q.parsed = r.parsed /\ q.wanted = r.wanted
BY DEF Refreshes

(* Retiring a node leaves its configuration.                                  *)
LEMMA RetiredNode ==
    ASSUME NEW n \in Node
    PROVE  LET m == [n EXCEPT !.enabled = FALSE, !.alive = "dead"] IN
           m \in Node /\ ~m.enabled /\ m.config = n.config
<1> DEFINE l == [n EXCEPT !.enabled = FALSE]
<1>1. l \in Node /\ ~l.enabled /\ l.config = n.config
    BY DEF Node
<1> HIDE DEF l
<1>2. LET m == [l EXCEPT !.alive = "dead"] IN m \in Node /\ ~m.enabled /\ m.config = n.config
    BY <1>1 DEF Node
<1>3. QED BY <1>2 DEF l

(* A refresher at rest.                                                       *)
LEMMA RestIsTyped ==
    /\ Idle \in Refreshes /\ Idle.stage = "idle" /\ DOMAIN Idle.wanted = {}
    /\ NoView \in Views /\ ~NoView.solo
<1>1. Idle \in Refreshes /\ Idle.stage = "idle" /\ DOMAIN Idle.wanted = {}
    BY NoRows DEF Idle, Refreshes, Stages
<1>2. NoView \in Views /\ ~NoView.solo
    BY NoRows DEF NoView, Views
<1>3. QED BY <1>1, <1>2

(* At the start there are some legacy rows, and nobody refreshes.             *)
LEMMA InitInv == Init => PoolInv
<1> SUFFICES ASSUME Init PROVE PoolInv
    OBVIOUS
<1>1. PICK old \in SUBSET LegacyKeys :
        rows \in [old -> [config : Configs, enabled : BOOLEAN, alive : {"unknown"}]]
    BY DEF Init
<1>2. DOMAIN rows = old /\ rows \in Tables(Node)
    <2>1. DOMAIN rows = old /\ rows \in [old -> Node]
        BY <1>1 DEF Node
    <2>2. QED BY <2>1, TablesAre DEF RowKeys
<1>3. TypeOK
    BY <1>2, RestIsTyped DEF Init, TypeOK, Writing
<1>4. KeysApart(DOMAIN rows)
    BY <1>2 DEF KeysApart, RowKeys
<1>5. NoOrphanNodes /\ ~clean
    BY DEF Init, NoOrphanNodes
<1>6. \A p \in Refreshers : RefreshInv(refresh[p], rows, exists) /\ SoloInv(refresh[p], view[p], rows)
    BY RestIsTyped DEF Init, RefreshInv, SoloInv, Writing
<1>7. QED BY <1>3, <1>4, <1>5, <1>6 DEF PoolInv

-------------------------------------------------------------------------------
(* A step of one refresher that leaves the rows alone.                        *)
LEMMA QuietStep ==
    ASSUME PoolInv, NEW p \in Refreshers, NEW r \in Refreshes, NEW v \in Views,
           refresh' = [refresh EXCEPT ![p] = r], view' = [view EXCEPT ![p] = v],
           UNCHANGED <<subscription, rows>>, due' \in BOOLEAN, clean' \in BOOLEAN,
           clean' => clean /\ (refresh[p].stage = "marking" => r.stage = "marking"),
           (DOMAIN r.wanted = {}) = (r.stage \notin Writing),
           RefreshInv(r, rows, exists), SoloInv(r, v, rows)
    PROVE  PoolInv'
<1>1. /\ refresh' \in [Refreshers -> Refreshes] /\ refresh'[p] = r
      /\ view' \in [Refreshers -> Views] /\ view'[p] = v
      /\ \A q \in Refreshers \ {p} : refresh'[q] = refresh[q] /\ view'[q] = view[q]
    BY DEF PoolInv, TypeOK
<1>2. TypeOK'
    BY <1>1 DEF PoolInv, TypeOK
<1>3. NoOrphanNodes' /\ KeysApart(DOMAIN rows)'
    BY DEF PoolInv, NoOrphanNodes
<1>4. (clean /\ NoneMarks => NoTwins(rows))'
    BY <1>1 DEF PoolInv, NoneMarks
<1>5. \A q \in Refreshers : RefreshInv(refresh'[q], rows', exists') /\ SoloInv(refresh'[q], view'[q], rows')
    BY <1>1 DEF PoolInv
<1>6. QED BY <1>2, <1>3, <1>4, <1>5 DEF PoolInv

(* A refresh that begins holds nothing.                                       *)
LEMMA StartKeeps ==
    ASSUME PoolInv, NEW p \in Refreshers, Start(p)
    PROVE  PoolInv'
<1> DEFINE r == [refresh[p] EXCEPT !.stage = "fetching"]
<1>0. refresh[p] \in Refreshes /\ view[p] \in Views
    BY DEF PoolInv, TypeOK
<1>1. /\ refresh' = [refresh EXCEPT ![p] = r]
      /\ view' = [view EXCEPT ![p] = view[p]]
      /\ UNCHANGED <<subscription, rows, due, clean>>
    BY DEF Start, GoTo, PoolInv, TypeOK
<1>2. r \in Refreshes /\ r.stage = "fetching" /\ r.wanted = refresh[p].wanted
    <2>1. "fetching" \in Stages
        BY DEF Stages
    <2>2. QED BY <1>0, <2>1, RefreshWith
<1> HIDE DEF r
<1>3. DOMAIN r.wanted = {} /\ ~view[p].solo
    BY <1>2 DEF Start, PoolInv, TypeOK, SoloInv, Writing
<1>4. /\ RefreshInv(r, rows, exists) /\ SoloInv(r, view[p], rows)
      /\ (DOMAIN r.wanted = {}) = (r.stage \notin Writing)
    BY <1>2, <1>3 DEF RefreshInv, SoloInv, Writing
<1>5. due \in BOOLEAN /\ clean \in BOOLEAN /\ refresh[p].stage # "marking"
    BY DEF PoolInv, TypeOK, Start
<1>6. QED BY <1>0, <1>1, <1>2, <1>4, <1>5, QuietStep

(* Nothing but a usable list gets past the fetch.                             *)
LEMMA FetchKeeps ==
    ASSUME PoolInv, NEW p \in Refreshers, Fetch(p)
    PROVE  PoolInv'
<1>0. refresh[p] \in Refreshes /\ view[p] \in Views /\ ~view[p].solo
    BY DEF PoolInv, TypeOK, SoloInv, Fetch, Writing
<1>1. /\ view' = [view EXCEPT ![p] = view[p]]
      /\ UNCHANGED <<subscription, rows, due, clean>>
      /\ due \in BOOLEAN /\ clean \in BOOLEAN /\ refresh[p].stage # "marking"
      /\ DOMAIN refresh[p].wanted = {}
    BY DEF Fetch, PoolInv, TypeOK, Writing
<1>2. ASSUME NEW r \in Refreshes, refresh' = [refresh EXCEPT ![p] = r],
             r.wanted = refresh[p].wanted,
             r.stage = "failed" \/ (r.stage = "listing" /\ r.parsed \in Feeds /\ Usable(r.parsed))
      PROVE  PoolInv'
    <2>1. /\ (DOMAIN r.wanted = {}) = (r.stage \notin Writing)
          /\ RefreshInv(r, rows, exists) /\ SoloInv(r, view[p], rows)
        BY <1>0, <1>1, <1>2 DEF RefreshInv, SoloInv, Writing
    <2>2. QED BY <1>0, <1>1, <1>2, <2>1, QuietStep
<1>3. CASE GoTo(p, "failed")
    <2> DEFINE r == [refresh[p] EXCEPT !.stage = "failed"]
    <2>1. refresh' = [refresh EXCEPT ![p] = r]
        BY <1>3 DEF GoTo, PoolInv, TypeOK
    <2>2. r \in Refreshes /\ r.stage = "failed" /\ r.wanted = refresh[p].wanted
        BY <1>0, RefreshWith DEF Stages
    <2> HIDE DEF r
    <2>3. QED BY <1>2, <2>1, <2>2
<1>4. CASE ~GoTo(p, "failed")
    <2>1. PICK answer \in Answers : \E second \in Answers : \E feed \in Accepted(answer, second) :
            refresh' = [refresh EXCEPT ![p].stage = "listing", ![p].parsed = feed]
        BY <1>4 DEF Fetch
    <2>2. PICK second \in Answers : \E feed \in Accepted(answer, second) :
            refresh' = [refresh EXCEPT ![p].stage = "listing", ![p].parsed = feed]
        BY <2>1
    <2>3. PICK feed \in Accepted(answer, second) :
            refresh' = [refresh EXCEPT ![p].stage = "listing", ![p].parsed = feed]
        BY <2>2
    <2>4. feed \in Feeds /\ Usable(feed)
        BY <2>3 DEF Accepted, Usable
    <2> DEFINE q == [refresh[p] EXCEPT !.stage = "listing"]
               r == [q EXCEPT !.parsed = feed]
    <2>5. refresh' = [refresh EXCEPT ![p] = r]
        BY <2>3 DEF PoolInv, TypeOK
    <2>6. q \in Refreshes /\ q.stage = "listing" /\ q.wanted = refresh[p].wanted
        BY <1>0, RefreshWith DEF Stages
    <2> HIDE DEF q
    <2>7. r \in Refreshes /\ r.stage = "listing" /\ r.wanted = refresh[p].wanted /\ r.parsed = feed
        BY <2>4, <2>6, RefreshWith
    <2> HIDE DEF r
    <2>8. QED BY <1>2, <2>4, <2>5, <2>7
<1>5. QED BY <1>3, <1>4

(* Matching what was fetched with the rows there are.                         *)
LEMMA ListKeeps ==
    ASSUME PoolInv, NEW p \in Refreshers, List(p)
    PROVE  PoolInv'
<1> DEFINE feed == refresh[p].parsed
           wanted == Wanted(rows, feed)
           r == [stage |-> "upserting", parsed |-> <<>>, wanted |-> wanted,
                 invalid |-> Invalid(rows, wanted)]
           v == [solo |-> TRUE, rows |-> rows, parsed |-> feed]
<1>1. /\ refresh' = [refresh EXCEPT ![p] = r] /\ view' = [view EXCEPT ![p] = v]
      /\ UNCHANGED <<subscription, due, rows, clean>>
    BY DEF List
<1>2. /\ feed \in Feeds /\ Usable(feed)
      /\ KeysApart(DOMAIN rows) /\ rows \in Tables(Node)
      /\ due \in BOOLEAN /\ clean \in BOOLEAN /\ refresh[p].stage # "marking"
    BY DEF List, PoolInv, TypeOK, RefreshInv
<1>3. DOMAIN rows \subseteq RowKeys
    BY <1>2, TablesAre
<1>4. /\ wanted \in Tables(Configs) /\ DOMAIN wanted # {}
      /\ OneRowPerNode(wanted) /\ FitsInto(wanted, DOMAIN rows) /\ HoldsRealNode(wanted)
    BY <1>2, <1>3, WantedIsList
<1>5. Invalid(rows, wanted) \subseteq RowKeys
    BY <1>3 DEF Invalid
<1> HIDE DEF wanted
<1>6. r \in Refreshes /\ v \in Views
    BY <1>2, <1>4, <1>5 DEF Refreshes, Views, Stages
<1>7. /\ (DOMAIN r.wanted = {}) = (r.stage \notin Writing)
      /\ RefreshInv(r, rows, exists)
    BY <1>4 DEF RefreshInv, Writing
<1>8. SoloInv(r, v, rows)
    BY <1>2 DEF SoloInv, Listed, Writing, wanted
<1> HIDE DEF r, v
<1>9. QED BY <1>1, <1>2, <1>6, <1>7, <1>8, QuietStep

(* The engines of the changed nodes close.                                    *)
LEMMA InvalidateKeeps ==
    ASSUME PoolInv, NEW p \in Refreshers, InvalidateNodes(p)
    PROVE  PoolInv'
<1> DEFINE q == [refresh[p] EXCEPT !.stage = "succeeded"]
           r == [q EXCEPT !.invalid = {}]
<1>0. refresh[p] \in Refreshes /\ view[p] \in Views
    BY DEF PoolInv, TypeOK
<1>1. /\ refresh' = [refresh EXCEPT ![p] = r]
      /\ view' = [view EXCEPT ![p] = view[p]]
      /\ UNCHANGED <<subscription, rows, due, clean>>
      /\ due \in BOOLEAN /\ clean \in BOOLEAN /\ refresh[p].stage = "invalidating"
    BY DEF InvalidateNodes, PoolInv, TypeOK
<1>2. q \in Refreshes /\ q.stage = "succeeded" /\ q.wanted = refresh[p].wanted
    BY <1>0, RefreshWith DEF Stages
<1> HIDE DEF q
<1>3. r \in Refreshes /\ r.stage = "succeeded" /\ r.wanted = refresh[p].wanted
    <2>1. {} \in SUBSET RowKeys
        OBVIOUS
    <2>2. QED BY <1>2, <2>1 DEF Refreshes
<1> HIDE DEF r
<1>4. /\ (DOMAIN r.wanted = {}) = (r.stage \notin Writing)
      /\ RefreshInv(r, rows, exists)
    BY <1>1, <1>3 DEF PoolInv, TypeOK, RefreshInv, Writing
<1>5. SoloInv(r, view[p], rows)
    BY <1>1, <1>3 DEF PoolInv, SoloInv, Listed, Writing
<1>6. QED BY <1>0, <1>1, <1>3, <1>4, <1>5, QuietStep

(* A refresh that ends, recorded or not.                                      *)
LEMMA EndKeeps ==
    ASSUME PoolInv, NEW p \in Refreshers, RecordResult(p) \/ Abort(p)
    PROVE  PoolInv'
<1>1. /\ refresh' = [refresh EXCEPT ![p] = Idle] /\ view' = [view EXCEPT ![p] = NoView]
      /\ UNCHANGED <<subscription, rows>>
    BY DEF RecordResult, Abort
<1>2. /\ due' \in BOOLEAN /\ clean' \in BOOLEAN
      /\ clean' => clean /\ refresh[p].stage # "marking"
    BY DEF RecordResult, Abort, PoolInv, TypeOK
<1>3. /\ (DOMAIN Idle.wanted = {}) = (Idle.stage \notin Writing)
      /\ RefreshInv(Idle, rows, exists) /\ SoloInv(Idle, NoView, rows)
    BY RestIsTyped DEF RefreshInv, SoloInv, Writing
<1>4. QED BY <1>1, <1>2, <1>3, RestIsTyped, QuietStep

-------------------------------------------------------------------------------
(* A step of one refresher that writes the rows: the others know no longer    *)
(* what is in the table, only that what they hold still fits into it.         *)
LEMMA WriteStep ==
    ASSUME PoolInv, NEW p \in Refreshers, NEW stage \in {"marking", "invalidating"},
           refresh[p].stage \in {"upserting", "marking"}, GoTo(p, stage), ChangedBy(p),
           UNCHANGED <<subscription, due>>, clean' \in BOOLEAN, rows' \in Tables(Node),
           NoOrphanNodes', KeysApart(DOMAIN rows'),
           \A q \in Refreshers : refresh[q].stage \in Writing /\ exists =>
                FitsInto(refresh[q].wanted, DOMAIN rows'),
           \A r \in Refreshes :
                r.stage = stage /\ r.wanted = refresh[p].wanted /\ r.invalid = refresh[p].invalid
                => SoloInv(r, view[p], rows'),
           stage = "invalidating" => NoTwins(rows')
    PROVE  PoolInv'
<1> DEFINE r == [refresh[p] EXCEPT !.stage = stage]
<1>0. refresh[p] \in Refreshes /\ refresh[p].stage \in Writing
    BY DEF PoolInv, TypeOK, Writing
<1>1. refresh' = [refresh EXCEPT ![p] = r]
    BY DEF GoTo, PoolInv, TypeOK
<1>2. /\ r \in Refreshes /\ r.stage = stage /\ r.parsed = refresh[p].parsed
      /\ r.wanted = refresh[p].wanted /\ r.invalid = refresh[p].invalid
    <2>1. stage \in Stages
        BY DEF Stages
    <2>2. QED BY <1>0, <2>1 DEF Refreshes
<1> HIDE DEF r
<1>3. /\ refresh' \in [Refreshers -> Refreshes] /\ refresh'[p] = r
      /\ \A q \in Refreshers \ {p} : refresh'[q] = refresh[q]
    BY <1>1, <1>2 DEF PoolInv, TypeOK
<1>4. /\ view' \in [Refreshers -> Views] /\ view'[p] = view[p]
      /\ \A q \in Refreshers \ {p} : ~view'[q].solo
    BY RestIsTyped DEF ChangedBy, PoolInv, TypeOK
<1>5. \A q \in Refreshers : (DOMAIN refresh'[q].wanted = {}) = (refresh'[q].stage \notin Writing)
    BY <1>0, <1>2, <1>3 DEF PoolInv, TypeOK, Writing
<1>6. TypeOK'
    BY <1>3, <1>4, <1>5 DEF PoolInv, TypeOK
<1>7. (clean /\ NoneMarks => NoTwins(rows))'
    BY <1>2, <1>3 DEF NoneMarks
<1>8. \A q \in Refreshers : RefreshInv(refresh'[q], rows', exists')
    <2>1. \A q \in Refreshers \ {p} : RefreshInv(refresh'[q], rows', exists')
        BY <1>3 DEF PoolInv, RefreshInv
    <2>2. RefreshInv(r, rows', exists')
        BY <1>0, <1>2 DEF PoolInv, RefreshInv
    <2>3. QED BY <1>3, <2>1, <2>2
<1>9. \A q \in Refreshers : SoloInv(refresh'[q], view'[q], rows')
    <2>1. \A q \in Refreshers \ {p} : SoloInv(refresh'[q], view'[q], rows')
        BY <1>4 DEF SoloInv
    <2>2. SoloInv(r, view[p], rows')
        BY <1>2
    <2>3. QED BY <1>3, <1>4, <2>1, <2>2
<1>10. QED BY <1>6, <1>7, <1>8, <1>9 DEF PoolInv

(* Rows are added for nodes that had none, so that whatever others hold still *)
(* fits.                                                                      *)
LEMMA UpsertKeeps ==
    ASSUME PoolInv, NEW p \in Refreshers, UpsertNodes(p)
    PROVE  PoolInv'
<1> DEFINE wanted == refresh[p].wanted
<1>0. /\ refresh[p] \in Refreshes /\ view[p] \in Views /\ rows \in Tables(Node)
      /\ wanted \in Tables(Configs) /\ refresh[p].stage = "upserting" /\ exists
      /\ OneRowPerNode(wanted) /\ FitsInto(wanted, DOMAIN rows)
    BY DEF PoolInv, TypeOK, UpsertNodes, RefreshInv, Refreshes, Writing
<1>1. /\ DOMAIN rows \subseteq RowKeys /\ rows \in [DOMAIN rows -> Node]
      /\ DOMAIN wanted \subseteq RowKeys /\ wanted \in [DOMAIN wanted -> Configs]
    BY <1>0, TablesAre
<1>2. rows' = [k \in DOMAIN rows \cup DOMAIN wanted |->
                IF k \in DOMAIN wanted THEN Upserted(wanted, k) ELSE rows[k]]
    BY DEF UpsertNodes
<1>u. \A k \in DOMAIN wanted :
        /\ Upserted(wanted, k) \in Node
        /\ Upserted(wanted, k).enabled /\ Upserted(wanted, k).config = wanted[k]
        /\ Upserted(wanted, k).alive # "dead"
    <2>1. \A k \in DOMAIN rows : rows[k].alive \in {"unknown", "alive", "dead"}
        BY <1>1 DEF Node
    <2>2. QED BY <1>1, <2>1 DEF Upserted, Node
<1> HIDE DEF wanted
<1>3. /\ DOMAIN rows' = DOMAIN rows \cup DOMAIN wanted
      /\ rows' \in [DOMAIN rows \cup DOMAIN wanted -> Node]
      /\ \A k \in DOMAIN wanted :
            rows'[k].enabled /\ rows'[k].config = wanted[k] /\ rows'[k].alive # "dead"
      /\ \A k \in DOMAIN rows \ DOMAIN wanted : rows'[k] = rows[k]
    BY <1>1, <1>2, <1>u
<1>4. rows' \in Tables(Node)
    BY <1>1, <1>3, TablesAre
<1>5. KeysApart(DOMAIN rows') /\ DOMAIN rows' \cap LegacyKeys = DOMAIN rows \cap LegacyKeys
    BY <1>0, <1>3 DEF FitsInto
<1>6. NoOrphanNodes'
    BY <1>0 DEF NoOrphanNodes, UpsertNodes
<1>7. ASSUME NEW q \in Refreshers, refresh[q].stage \in Writing
      PROVE  FitsInto(refresh[q].wanted, DOMAIN rows')
    <2>1. FitsInto(refresh[q].wanted, DOMAIN rows)
        BY <1>0, <1>7 DEF PoolInv, RefreshInv
    <2>2. KeysApart(DOMAIN rows' \cup DOMAIN refresh[q].wanted)
        <3>1. ASSUME NEW k \in (DOMAIN rows' \cup DOMAIN refresh[q].wanted) \cap LegacyKeys
              PROVE  StableOf[k] \notin DOMAIN rows' \cup DOMAIN refresh[q].wanted
            <4>1. k \in DOMAIN rows /\ k \in DOMAIN rows'
                BY <1>5, <2>1, <3>1 DEF FitsInto
            <4>2. StableOf[k] \notin DOMAIN rows'
                BY <1>5, <3>1, <4>1 DEF KeysApart
            <4>3. StableOf[k] \notin DOMAIN refresh[q].wanted
                BY <2>1, <3>1, <4>1 DEF FitsInto, KeysApart
            <4>4. QED BY <4>2, <4>3
        <3>2. QED BY <3>1 DEF KeysApart
    <2>3. QED BY <1>3, <2>1, <2>2 DEF FitsInto
<1>8. ASSUME NEW r \in Refreshes, r.stage = "marking", r.wanted = wanted,
             r.invalid = refresh[p].invalid
      PROVE  SoloInv(r, view[p], rows')
    <2> SUFFICES ASSUME view[p].solo PROVE SoloInv(r, view[p], rows')
        BY DEF SoloInv
    <2>1. rows = view[p].rows /\ Listed(refresh[p], view[p].rows, view[p].parsed)
        BY <1>0 DEF PoolInv, SoloInv
    <2>2. Listed(r, view[p].rows, view[p].parsed)
        BY <1>0, <1>8, <2>1 DEF Listed, wanted
    <2>3. WantedWritten(r.wanted, view[p].rows, rows')
        BY <1>3, <1>8, <2>1 DEF WantedWritten
    <2>4. OthersKept(r.wanted, view[p].rows, rows')
        BY <1>3, <1>8, <2>1 DEF OthersKept
    <2>5. QED BY <1>8, <2>2, <2>3, <2>4 DEF SoloInv, Writing
<1>9. GoTo(p, "marking") /\ ChangedBy(p) /\ UNCHANGED <<subscription, due>> /\ clean' \in BOOLEAN
    BY DEF UpsertNodes, PoolInv, TypeOK
<1>10. QED BY <1>0, <1>4, <1>5, <1>6, <1>7, <1>8, <1>9, WriteStep DEF wanted

(* What is left in the pool is what this refresh wrote: one row per node.     *)
LEMMA MarkKeeps ==
    ASSUME PoolInv, NEW p \in Refreshers, MarkMissingNodes(p)
    PROVE  PoolInv'
<1> DEFINE wanted == refresh[p].wanted
<1>0. /\ refresh[p] \in Refreshes /\ view[p] \in Views /\ rows \in Tables(Node)
      /\ refresh[p].stage = "marking" /\ OneRowPerNode(wanted)
    BY DEF PoolInv, TypeOK, MarkMissingNodes, RefreshInv, Writing
<1>1. DOMAIN rows \subseteq RowKeys /\ rows \in [DOMAIN rows -> Node]
    BY <1>0, TablesAre
<1>2. rows' = [k \in DOMAIN rows |->
                IF k \in DOMAIN wanted THEN rows[k]
                ELSE [rows[k] EXCEPT !.enabled = FALSE, !.alive = "dead"]]
    BY DEF MarkMissingNodes
<1>u. \A k \in DOMAIN rows : LET n == [rows[k] EXCEPT !.enabled = FALSE, !.alive = "dead"] IN
        n \in Node /\ ~n.enabled /\ n.config = rows[k].config
    BY <1>1, RetiredNode
<1> HIDE DEF wanted
<1>3. /\ DOMAIN rows' = DOMAIN rows /\ rows' \in [DOMAIN rows -> Node]
      /\ \A k \in DOMAIN rows \cap DOMAIN wanted : rows'[k] = rows[k]
      /\ \A k \in DOMAIN rows \ DOMAIN wanted :
            ~rows'[k].enabled /\ rows'[k].config = rows[k].config
    BY <1>1, <1>2, <1>u
<1>4. rows' \in Tables(Node) /\ KeysApart(DOMAIN rows')
    BY <1>1, <1>3, TablesAre DEF PoolInv
<1>5. NoOrphanNodes'
    BY <1>3 DEF NoOrphanNodes, MarkMissingNodes, PoolInv
<1>6. \A q \in Refreshers : refresh[q].stage \in Writing /\ exists =>
        FitsInto(refresh[q].wanted, DOMAIN rows')
    BY <1>3 DEF PoolInv, RefreshInv
<1>7. ASSUME NEW r \in Refreshes, r.stage = "invalidating", r.wanted = wanted,
             r.invalid = refresh[p].invalid
      PROVE  SoloInv(r, view[p], rows')
    <2> SUFFICES ASSUME view[p].solo PROVE SoloInv(r, view[p], rows')
        BY DEF SoloInv
    <2>1. /\ Listed(refresh[p], view[p].rows, view[p].parsed)
          /\ WantedWritten(wanted, view[p].rows, rows) /\ OthersKept(wanted, view[p].rows, rows)
        BY <1>0 DEF PoolInv, SoloInv, wanted
    <2>2. Listed(r, view[p].rows, view[p].parsed)
        BY <1>0, <1>7, <2>1 DEF Listed, wanted
    <2>3. WantedWritten(r.wanted, view[p].rows, rows')
        BY <1>3, <1>7, <2>1 DEF WantedWritten
    <2>4. OthersRetired(r.wanted, view[p].rows, rows')
        BY <1>3, <1>7, <2>1 DEF OthersKept, OthersRetired
    <2>5. QED BY <1>7, <2>2, <2>3, <2>4 DEF SoloInv, Writing
<1>8. NoTwins(rows')
    <2>1. \A s \in StableKeys : \A k \in Enabled(rows', s) : k \in DOMAIN wanted /\ StableOf[k] = s
        BY <1>3 DEF Enabled
    <2>2. QED BY <1>0, <2>1 DEF NoTwins, OneRowPerNode
<1>9. GoTo(p, "invalidating") /\ ChangedBy(p) /\ UNCHANGED <<subscription, due>> /\ clean' \in BOOLEAN
    BY DEF MarkMissingNodes
<1>10. QED BY <1>0, <1>4, <1>5, <1>6, <1>7, <1>8, <1>9, WriteStep DEF wanted

-------------------------------------------------------------------------------
(* The admin: nobody knows what is in the table any longer.                   *)
LEMMA AdminStep ==
    ASSUME PoolInv, view' = [p \in Refreshers |-> NoView], UNCHANGED <<refresh, due>>,
           subscription' \in {"enabled", "disabled", "deleted"}, clean' \in BOOLEAN,
           rows' \in Tables(Node),
           NoOrphanNodes', KeysApart(DOMAIN rows'), clean' /\ NoneMarks => NoTwins(rows'),
           exists' => exists /\ DOMAIN rows' = DOMAIN rows
    PROVE  PoolInv'
<1>1. TypeOK'
    BY RestIsTyped DEF PoolInv, TypeOK
<1>2. \A p \in Refreshers : RefreshInv(refresh'[p], rows', exists')
    BY DEF PoolInv, RefreshInv
<1>3. \A p \in Refreshers : SoloInv(refresh'[p], view'[p], rows')
    BY RestIsTyped DEF SoloInv
<1>4. QED BY <1>1, <1>2, <1>3 DEF PoolInv, NoneMarks

(* The admin enables or disables a row.                                       *)
LEMMA SetEnabledKeeps ==
    ASSUME PoolInv, NEW k \in RowKeys, NEW enabled \in BOOLEAN, SetEnabled(k, enabled)
    PROVE  PoolInv'
<1>1. DOMAIN rows \subseteq RowKeys /\ rows \in [DOMAIN rows -> Node] /\ k \in DOMAIN rows
    BY TablesAre DEF PoolInv, TypeOK, SetEnabled
<1>2. [rows[k] EXCEPT !.enabled = enabled] \in Node
      /\ [rows[k] EXCEPT !.enabled = enabled].enabled = enabled
    BY <1>1 DEF Node
<1>3. rows' = [rows EXCEPT ![k] = [rows[k] EXCEPT !.enabled = enabled]]
    BY <1>1 DEF SetEnabled
<1>4. /\ DOMAIN rows' = DOMAIN rows /\ rows' \in [DOMAIN rows -> Node]
      /\ rows'[k].enabled = enabled
      /\ \A j \in DOMAIN rows \ {k} : rows'[j] = rows[j]
    BY <1>1, <1>2, <1>3
<1>5. rows' \in Tables(Node)
    BY <1>1, <1>4, TablesAre
<1>6. NoOrphanNodes'
    BY <1>4 DEF NoOrphanNodes, SetEnabled, PoolInv
<1>7. clean' /\ NoneMarks => NoTwins(rows')
    <2>1. ASSUME ~enabled, NEW s \in StableKeys
          PROVE  Enabled(rows', s) \subseteq Enabled(rows, s)
        BY <1>1, <1>4, <2>1 DEF Enabled
    <2>2. QED BY <2>1 DEF SetEnabled, PoolInv, NoTwins
<1>8. /\ KeysApart(DOMAIN rows') /\ clean' \in BOOLEAN
      /\ subscription' \in {"enabled", "disabled", "deleted"}
      /\ exists' => exists /\ DOMAIN rows' = DOMAIN rows
    BY <1>4 DEF PoolInv, TypeOK, SetEnabled
<1>9. QED BY <1>5, <1>6, <1>7, <1>8, AdminStep DEF SetEnabled

(* The subscription is deleted, with its rows.                                *)
LEMMA DeleteKeeps ==
    ASSUME PoolInv, Delete
    PROVE  PoolInv'
<1>1. rows' \in Tables(Node) /\ DOMAIN rows' = {} /\ ~exists'
    BY NoRows DEF Delete
<1>2. NoOrphanNodes' /\ KeysApart(DOMAIN rows') /\ NoTwins(rows')
    BY <1>1 DEF NoOrphanNodes, KeysApart, NoTwins, Enabled
<1>3. QED BY <1>1, <1>2, AdminStep DEF Delete, PoolInv, TypeOK

(* The admin enables or disables the subscription.                            *)
LEMMA UpdateKeeps ==
    ASSUME PoolInv, NEW enabled \in BOOLEAN, Update(enabled)
    PROVE  PoolInv'
<1>1. /\ UNCHANGED <<due, rows, refresh, view, clean>> /\ exists /\ exists'
      /\ subscription' \in {"enabled", "disabled", "deleted"}
    BY DEF Update
<1>2. TypeOK' /\ NoOrphanNodes'
    BY <1>1 DEF PoolInv, TypeOK, NoOrphanNodes
<1>3. \A p \in Refreshers :
        RefreshInv(refresh'[p], rows', exists') /\ SoloInv(refresh'[p], view'[p], rows')
    BY <1>1 DEF PoolInv
<1>4. QED BY <1>1, <1>2, <1>3 DEF PoolInv, NoneMarks

-------------------------------------------------------------------------------
(* Every step of every refresher, the scheduler and the admin keeps it.       *)
LEMMA StepInv == PoolInv /\ [Next]_vars => PoolInv'
<1> SUFFICES ASSUME PoolInv, [Next]_vars PROVE PoolInv'
    OBVIOUS
<1>1. CASE BecomesDue \/ UNCHANGED vars
    <2>1. UNCHANGED <<subscription, rows, refresh, view, clean>> /\ due' \in BOOLEAN
        BY <1>1 DEF BecomesDue, vars, PoolInv, TypeOK
    <2>2. QED BY <2>1 DEF PoolInv, TypeOK, NoOrphanNodes, NoneMarks
<1>2. ASSUME NEW p \in Refreshers, Proceed(p) \/ Abort(p)
      PROVE  PoolInv'
    BY <1>2, StartKeeps, FetchKeeps, ListKeeps, UpsertKeeps, MarkKeeps, InvalidateKeeps,
        EndKeeps DEF Proceed
<1>3. QED BY <1>1, <1>2, SetEnabledKeeps, UpdateKeeps, DeleteKeeps DEF Next

(* The invariant behind the theorems of this module.                          *)
THEOREM PoolInvariant == Spec => []PoolInv
<1>1. QED BY InitInv, StepInv, PTL DEF Spec

(* The table and what the refreshers hold keep their types.                   *)
THEOREM TypeCorrect == Spec => []TypeOK
<1>1. PoolInv => TypeOK
    BY DEF PoolInv
<1>2. QED BY <1>1, PoolInvariant, PTL

(* A refresh in flight brings back no row of a deleted subscription           *)
(* (UpsertNodes).                                                             *)
THEOREM DeletedStaysEmpty == Spec => []NoOrphanNodes
<1>1. PoolInv => NoOrphanNodes
    BY DEF PoolInv
<1>2. QED BY <1>1, PoolInvariant, PTL

(* No refresh writes a list with a hint in it unless some node of the list    *)
(* leads beyond the loopback interface (Refresh,                              *)
(* looksLikeUnsupportedClientNodes).                                          *)
THEOREM ListsHoldRealNodes == Spec => []PlaceholderListsAreRefused
<1>1. PoolInv => PlaceholderListsAreRefused
    BY DEF PoolInv, RefreshInv, HoldsRealNode, PlaceholderListsAreRefused
<1>2. QED BY <1>1, PoolInvariant, PTL

(* A set whose members are all equal counts one at most.                      *)
LEMMA AtMostOneMember ==
    ASSUME NEW S, \A x, y \in S : x = y
    PROVE  Cardinality(S) <= 1
<1>1. CASE S = {}
    BY <1>1, FS_EmptySet
<1>2. CASE S # {}
    <2>1. PICK x : x \in S
        BY <1>2
    <2>2. S = {x}
        BY <2>1
    <2>3. Cardinality(S) = 1
        BY <2>2, FS_Singleton
    <2>4. QED BY <2>3
<1>3. QED BY <1>1, <1>2

(* Whatever refreshes overlap, none leaves a node in the pool twice once the  *)
(* missing ones are retired (MarkMissingNodes, chooseExistingStableNode).     *)
THEOREM NodesAreSingle == Spec => []NoDuplicateNodes
<1>1. PoolInv => NoDuplicateNodes
    BY AtMostOneMember DEF PoolInv, NoneMarks, NoTwins, NoDuplicateNodes
<1>2. QED BY <1>1, PoolInvariant, PTL

(* A refresh that nobody interferes with leaves just the nodes of the list in *)
(* the pool, in one row each, which is the one that was in the pool before if *)
(* there was one (Refresh).                                                   *)
THEOREM SoloRefreshIsExact == Spec => []RefreshIsExact
<1>1. ASSUME PoolInv, NEW p \in Refreshers, view[p].solo, refresh[p].stage = "succeeded",
             NEW s \in StableKeys
      PROVE  IF s \in DOMAIN view[p].parsed
             THEN \E k \in RowKeys :
                    /\ Enabled(rows, s) = {k}
                    /\ rows[k].config = view[p].parsed[s] /\ rows[k].alive # "dead"
                    /\ Enabled(view[p].rows, s) # {} => k \in Enabled(view[p].rows, s)
             ELSE Enabled(rows, s) = {}
    <2> DEFINE before == view[p].rows
               feed == view[p].parsed
               wanted == refresh[p].wanted
    <2>1. /\ KeysApart(DOMAIN before) /\ feed \in Feeds /\ wanted = Wanted(before, feed)
          /\ WantedWritten(wanted, before, rows) /\ OthersRetired(wanted, before, rows)
        BY <1>1 DEF PoolInv, SoloInv, Listed
    <2>2. DOMAIN before \subseteq RowKeys
        BY <1>1, TablesAre DEF PoolInv, TypeOK, Views
    <2> HIDE DEF before, feed, wanted
    <2>3. /\ \A k \in DOMAIN wanted : StableOf[k] \in DOMAIN feed /\ wanted[k] = feed[StableOf[k]]
          /\ \A t \in DOMAIN feed : RowFor(before, t) \in DOMAIN wanted
          /\ OneRowPerNode(wanted)
        BY <2>1, <2>2, WantedIsList
    <2>4. \A k \in Enabled(rows, s) : k \in DOMAIN wanted /\ StableOf[k] = s
        BY <2>1 DEF Enabled, OthersRetired
    <2>5. CASE s \notin DOMAIN feed
        BY <2>3, <2>4, <2>5 DEF feed
    <2>6. CASE s \in DOMAIN feed
        <3> DEFINE k == RowFor(before, s)
        <3>1. /\ k \in RowKeys /\ StableOf[k] = s
              /\ Enabled(before, s) # {} => k \in Enabled(before, s)
            BY <2>1, <2>2, RowForIsOwn
        <3>2. k \in DOMAIN wanted
            BY <2>3, <2>6
        <3> HIDE DEF k
        <3>3. /\ k \in DOMAIN rows /\ rows[k].enabled
              /\ rows[k].config = feed[s] /\ rows[k].alive # "dead"
            BY <2>1, <2>3, <3>1, <3>2 DEF WantedWritten
        <3>4. Enabled(rows, s) = {k}
            <4>1. k \in Enabled(rows, s)
                BY <3>1, <3>3 DEF Enabled
            <4>2. \A j \in Enabled(rows, s) : j = k
                BY <2>3, <2>4, <3>1, <3>2 DEF OneRowPerNode
            <4>3. QED BY <4>1, <4>2
        <3>5. QED BY <2>6, <3>1, <3>3, <3>4 DEF before, feed
    <2>7. QED BY <2>5, <2>6
<1>2. PoolInv => RefreshIsExact
    BY <1>1 DEF RefreshIsExact
<1>3. QED BY <1>2, PoolInvariant, PTL

(* Such a refresh closes the engines of just the nodes that left the pool or  *)
(* changed (Refresh, nodeConfigChanged, invalidateNodes).                     *)
THEOREM ChangedEnginesClose == Spec => []EnginesOfChangedNodesClose
<1>1. ASSUME PoolInv, NEW p \in Refreshers, view[p].solo, refresh[p].stage = "invalidating"
      PROVE  LET before == view[p].rows IN
             refresh[p].invalid =
                {k \in DOMAIN before :
                    \/ before[k].enabled /\ ~rows[k].enabled
                    \/ before[k].config # rows[k].config}
    <2> DEFINE before == view[p].rows
               wanted == refresh[p].wanted
    <2>1. /\ refresh[p].invalid = Invalid(before, wanted)
          /\ WantedWritten(wanted, before, rows) /\ OthersRetired(wanted, before, rows)
        BY <1>1 DEF PoolInv, SoloInv, Listed
    <2> HIDE DEF before, wanted
    <2>2. \A k \in DOMAIN before :
            k \in DOMAIN wanted => rows[k].enabled /\ rows[k].config = wanted[k]
        BY <2>1 DEF WantedWritten
    <2>3. \A k \in DOMAIN before :
            k \notin DOMAIN wanted => ~rows[k].enabled /\ rows[k].config = before[k].config
        BY <2>1 DEF WantedWritten, OthersRetired
    <2>4. Invalid(before, wanted) =
            {k \in DOMAIN before :
                \/ before[k].enabled /\ ~rows[k].enabled
                \/ before[k].config # rows[k].config}
        BY <2>2, <2>3 DEF Invalid
    <2>5. QED BY <2>1, <2>4 DEF before
<1>2. PoolInv => EnginesOfChangedNodesClose
    BY <1>1 DEF EnginesOfChangedNodesClose
<1>3. QED BY <1>2, PoolInvariant, PTL

===============================================================================
