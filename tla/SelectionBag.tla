----------------------------- MODULE SelectionBag -----------------------------
(***************************************************************************)
(* The selection bag of one credential as the code keeps it: a shuffled     *)
(* order, an index into it and the node selected last                       *)
(* (src/internal/cache/store.go: selectRandomNodeLocked, reset, next,       *)
(* shuffle).  Candidate slices are sorted by id and free of duplicates, so  *)
(* a set stands for the slice and set equality for sameNodeIDs.             *)
(***************************************************************************)
EXTENDS FairRounds, FiniteSets, Sequences, Functions

CONSTANT Nodes      \* the node ids that exist

ASSUME NodesAssumption == IsFiniteSet(Nodes) /\ Nodes \subseteq Nat \ {NoNode}

VARIABLES
    bag,        \* the selectionBag struct
    waited      \* history: selections of other nodes since a candidate was
                \* last served or, if it never was, since the bag was reset

vars == <<bag, waited>>

NewBag == [candidates |-> {}, order |-> <<>>, index |-> 0, lastSelected |-> NoNode]

Orders(C) == Bijection(1..Cardinality(C), C)

(* Mutant: an assignment where the elements should trade places.            *)
MutantSwap(order, i, j) == [order EXCEPT ![i] = order[j]]

Swap(order, i, j) == [order EXCEPT ![i] = order[j], ![j] = order[i]]

(* Mutant: the first element is not compared with the node selected last.   *)
MutantShuffled(C, last) == Orders(C)

(* shuffle: any order may result, but one that opens with the node selected *)
(* last has its first element swapped with a random later one.              *)
Shuffled(C, last) ==
    LET avoidRepeat(order) ==
            IF Len(order) <= 1 \/ last = NoNode \/ order[1] # last
            THEN {order}
            ELSE {Swap(order, 1, k) : k \in 2..Len(order)}
    IN  UNION {avoidRepeat(order) : order \in Orders(C)}

(* reset, and the refill inside next, start a new order of the candidates.  *)
Reshuffled(b, C) ==
    {[b EXCEPT !.candidates = C, !.order = order, !.index = 0] :
        order \in Shuffled(C, b.lastSelected)}

Reset(b, C) == IF b.candidates = C THEN {b} ELSE Reshuffled(b, C)

(* Mutant: the order is refilled one element too early.                     *)
MutantRefill(b) ==
    IF b.index + 1 >= Len(b.order) THEN Reshuffled(b, b.candidates) ELSE {b}

Refill(b) == IF b.index >= Len(b.order) THEN Reshuffled(b, b.candidates) ELSE {b}

(* The rest of next: hand out the element at the index and advance.         *)
Advance(b) ==
    [b EXCEPT !.index = b.index + 1, !.lastSelected = b.order[b.index + 1]]

-------------------------------------------------------------------------------
Init == bag = NewBag /\ waited = [n \in Nodes |-> 0]

(* selectRandomNodeLocked with more than one candidate.                     *)
Select(C) ==
    /\ Cardinality(C) > 1
    /\ \E reset \in Reset(bag, C) : \E refilled \in Refill(reset) :
        bag' = Advance(refilled)
    /\ waited' = [n \in Nodes |->
            IF n \notin C \/ n = bag'.lastSelected THEN 0
            ELSE IF bag.candidates = C THEN waited[n] + 1
            ELSE 1]

(* Load replaces the map of bags; the next selection starts a new one.      *)
Drop == bag' = NewBag /\ waited' = [n \in Nodes |-> 0]

Next == Drop \/ \E C \in SUBSET Nodes : Select(C)

Spec == Init /\ [][Next]_vars

-------------------------------------------------------------------------------
(* The order and index encode a round: what is left of it lies behind the   *)
(* index.                                                                   *)
Round ==
    [candidates   |-> bag.candidates,
     left         |-> {bag.order[i] : i \in bag.index + 1 .. Len(bag.order)},
     lastSelected |-> bag.lastSelected]

Promise == INSTANCE BagPromise WITH round <- Round

(* The bag keeps its promise: every selection serves a node that is still   *)
(* due in the round, and no round opens with the node served last.          *)
ImplementsPromise == Promise!Spec

(* The order is a permutation of the candidates at all times, the index     *)
(* never runs past it, and the node selected last is the one before it.     *)
BagOK ==
    /\ bag.candidates \subseteq Nodes
    /\ bag.order \in Orders(bag.candidates)
    /\ bag.index \in 0..Len(bag.order)
    /\ bag.lastSelected = IF bag.index = 0 THEN NoNode ELSE bag.order[bag.index]
    /\ waited \in [Nodes -> Nat]

(* However the shuffles fall, while the candidates stay the same no         *)
(* candidate waits for more than 2(n-1) selections of the others: first in  *)
(* one round and last in the next is the worst case.                        *)
BoundedWait ==
    \A n \in bag.candidates : waited[n] <= 2 * (Cardinality(bag.candidates) - 1)

(* The argument behind BoundedWait, per candidate: one already served in    *)
(* this round has waited since its place in the order; one still due waited *)
(* at most the rest of the previous round plus what this round served.      *)
WaitInv ==
    \A i \in 1..Len(bag.order) :
        waited[bag.order[i]] <= IF i <= bag.index THEN bag.index - i
                                ELSE bag.index + Len(bag.order) - 1

===============================================================================
