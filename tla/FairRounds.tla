------------------------------ MODULE FairRounds ------------------------------
(***************************************************************************)
(* What a credential's selection bag promises to its callers: candidates    *)
(* are served in rounds, each of them once per round, and a round never      *)
(* opens with the node served last.  The order inside a round is left open.  *)
(*                                                                         *)
(* SelectionBag models the code that keeps this promise with a shuffled     *)
(* slice and an index (src/internal/cache/store.go 302-366) and is shown to *)
(* implement it; RuntimeCache, where only the promise matters, uses the     *)
(* operators below.                                                         *)
(***************************************************************************)
EXTENDS Integers

NoNode == 0     \* database ids start at 1; the code uses 0 for "none"

(* A round: the candidates it was opened for, those still to be served, and *)
(* the node served last (which may belong to an earlier round).             *)
EmptyRound == [candidates |-> {}, left |-> {}, lastSelected |-> NoNode]

(* A selection from C goes on with the open round only if it is for the     *)
(* same candidates and not exhausted.                                       *)
Continues(round, C) == round.candidates = C /\ round.left # {}

(* The nodes a selection from C may return.                                 *)
Eligible(round, C) ==
    IF Continues(round, C) THEN round.left
    ELSE IF C = {round.lastSelected} THEN C
    ELSE C \ {round.lastSelected}

(* The round after node n has been served from C.                           *)
Serve(round, C, n) ==
    [candidates   |-> C,
     left         |-> (IF Continues(round, C) THEN round.left ELSE C) \ {n},
     lastSelected |-> n]

===============================================================================
