---------------------------- MODULE MCSelectionBag ----------------------------
(* Four nodes: rounds of two, three and four candidates, and every change    *)
(* from one candidate set to another.                                        *)
EXTENDS SelectionBag

MCNodes == 1..4

===============================================================================
