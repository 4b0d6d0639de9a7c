------------------------- MODULE MCSubscriptionRefresh -------------------------
(* Two nodes and two rows that older versions stored for the first of them,   *)
(* each enabled or not.  The scheduler and requests of the admin refresh, at  *)
(* once if it so happens, and may adopt different rows of the two when the    *)
(* admin enables or disables one in between.  The lists retire the first node *)
(* or change it; one holds a hint beside a node that leads somewhere, one     *)
(* nothing but a hint, and one cannot be stored.                              *)
EXTENDS SubscriptionRefresh, TLC

CONSTANTS scheduler, api, c1, hint

(* Update reaches the disabled subscription, too.                             *)
MCInit ==
    /\ Init
    /\ subscription = "enabled"
    /\ LegacyKeys = DOMAIN rows /\ \A k \in LegacyKeys : rows[k].config = c1

MCSpec == MCInit /\ [][Next]_vars /\ Fairness

(* Bound: the rows that the admin enables and disables.                       *)
ToggledRows == {3}

EditsAreBounded ==
    refresh' = refresh /\ DOMAIN rows' = DOMAIN rows =>
        \A k \in DOMAIN rows \ ToggledRows : rows'[k] = rows[k]

TwoLegacyRows == (1 :> 1 @@ 2 :> 2 @@ 3 :> 1 @@ 4 :> 1)

NoLegacyRow == (1 :> 1 @@ 2 :> 2)

MCFeeds == {1 :> hint @@ 2 :> c1, 2 :> c1, 1 :> hint, 1 :> c1}

NotJson == {1 :> c1}

SmallFeeds == {1 :> c1, 2 :> c1}

===============================================================================
