------------------------------ MODULE BagPromise ------------------------------
(***************************************************************************)
(* The abstract specification of one selection bag: a state machine over    *)
(* FairRounds.  The bag is dropped whenever the runtime cache is reloaded.  *)
(***************************************************************************)
EXTENDS FairRounds, FiniteSets

CONSTANT Nodes      \* the node ids that exist
VARIABLE round

Init == round = EmptyRound

(* The caller hands over at least two candidates: a single candidate is     *)
(* returned without consulting the bag.                                     *)
Select(C, n) ==
    /\ Cardinality(C) > 1
    /\ n \in Eligible(round, C)
    /\ round' = Serve(round, C, n)

Drop == round' = EmptyRound

Next == Drop \/ \E C \in SUBSET Nodes : \E n \in C : Select(C, n)

Spec == Init /\ [][Next]_round

===============================================================================
