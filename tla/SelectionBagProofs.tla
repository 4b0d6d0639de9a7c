-------------------------- MODULE SelectionBagProofs --------------------------
(* The selection bag keeps its promise, and no candidate waits long, for any    *)
(* finite set of nodes.                                                         *)
EXTENDS SelectionBag, FiniteSetTheorems, SequenceTheorems, TLAPS

Bags == [candidates : SUBSET Nodes, order : Seq(Nodes), index : Nat,
         lastSelected : Nodes \cup {NoNode}]

BagInv ==
    /\ bag \in Bags
    /\ BagOK
    /\ WaitInv

USE NodesAssumption DEF NoNode

-------------------------------------------------------------------------------
(* Candidates are finitely many.                                              *)
LEMMA CandidatesAreCounted ==
    ASSUME NEW C \in SUBSET Nodes
    PROVE  IsFiniteSet(C) /\ Cardinality(C) \in Nat
BY FS_Subset, FS_CardinalityType

(* An order of the candidates lists each of them once.                        *)
LEMMA OrderProperties ==
    ASSUME NEW C \in SUBSET Nodes, NEW o \in Orders(C)
    PROVE  /\ o \in Seq(Nodes)
           /\ Len(o) = Cardinality(C) /\ Len(o) \in Nat
           /\ \A i \in 1..Len(o) : o[i] \in C
           /\ \A i, j \in 1..Len(o) : o[i] = o[j] => i = j
           /\ \A c \in C : \E i \in 1..Len(o) : o[i] = c
<1> DEFINE n == Cardinality(C)
<1>1. n \in Nat
    BY CandidatesAreCounted
<1>2. /\ o \in [1..n -> C]
      /\ \A i, j \in 1..n : o[i] = o[j] => i = j
      /\ \A c \in C : \E i \in 1..n : o[i] = c
    BY DEF Orders, Bijection, Injection, Surjection, IsInjective
<1> HIDE DEF n
<1>3. /\ o = [i \in 1..n |-> o[i]]
      /\ \A i \in 1..n : o[i] \in Nodes
    BY <1>2
<1>4. o \in Seq(Nodes) /\ Len(o) = n
    BY <1>1, <1>3
<1>5. QED BY <1>1, <1>2, <1>4 DEF n

(* What makes a slice an order of the candidates.                             *)
LEMMA IsOrder ==
    ASSUME NEW C \in SUBSET Nodes, NEW o \in Seq(Nodes),
           Len(o) = Cardinality(C),
           \A i \in 1..Len(o) : o[i] \in C,
           \A i, j \in 1..Len(o) : o[i] = o[j] => i = j,
           \A c \in C : \E i \in 1..Len(o) : o[i] = c
    PROVE  o \in Orders(C)
<1>1. o \in [1..Len(o) -> C] /\ DOMAIN o = 1..Len(o)
    BY LenProperties
<1>2. QED BY <1>1 DEF Orders, Bijection, Injection, Surjection, IsInjective

(* Exchanging two elements leaves an order of the same candidates.            *)
LEMMA SwapKeepsOrder ==
    ASSUME NEW C \in SUBSET Nodes, NEW o \in Orders(C),
           NEW i \in 1..Len(o), NEW j \in 1..Len(o)
    PROVE  /\ Swap(o, i, j) \in Orders(C)
           /\ Swap(o, i, j)[i] = o[j]
<1> DEFINE s == Swap(o, i, j)
<1>1. /\ o \in Seq(Nodes) /\ Len(o) = Cardinality(C) /\ Len(o) \in Nat
      /\ \A k \in 1..Len(o) : o[k] \in C
      /\ \A k, l \in 1..Len(o) : o[k] = o[l] => k = l
      /\ \A n \in C : \E k \in 1..Len(o) : o[k] = n
    BY OrderProperties
<1>2. /\ s \in Seq(Nodes) /\ Len(s) = Len(o)
      /\ \A k \in 1..Len(o) : s[k] = IF k = j THEN o[i] ELSE IF k = i THEN o[j] ELSE o[k]
    <2>1. o \in [1..Len(o) -> Nodes] /\ o[i] \in Nodes /\ o[j] \in Nodes
        BY <1>1, LenProperties
    <2>2. s \in [1..Len(o) -> Nodes]
        BY <2>1 DEF Swap
    <2>3. s \in Seq(Nodes) /\ Len(s) = Len(o)
        BY <1>1, <2>2
    <2>4. QED BY <2>1, <2>3 DEF Swap
<1> HIDE DEF s
<1>3. \A k \in 1..Len(s) : s[k] \in C
    BY <1>1, <1>2
<1>4. \A k, l \in 1..Len(s) : s[k] = s[l] => k = l
    BY <1>1, <1>2
<1>5. ASSUME NEW n \in C
      PROVE  \E k \in 1..Len(s) : s[k] = n
    <2>1. PICK l \in 1..Len(o) : o[l] = n
        BY <1>1
    <2>2. CASE l = i
        BY <1>2, <2>1, <2>2
    <2>3. CASE l = j
        BY <1>2, <2>1, <2>3
    <2>4. CASE l # i /\ l # j
        BY <1>2, <2>1, <2>4
    <2>5. QED BY <2>2, <2>3, <2>4
<1>6. s \in Orders(C)
    BY <1>1, <1>2, <1>3, <1>4, <1>5, IsOrder
<1>7. s[i] = o[j]
    BY <1>2
<1>8. QED BY <1>6, <1>7 DEF s

(* A shuffle of several candidates does not open with the node selected last. *)
LEMMA ShuffleAvoidsRepeat ==
    ASSUME NEW C \in SUBSET Nodes, Cardinality(C) > 1,
           NEW last \in Nodes \cup {NoNode}, NEW o \in Shuffled(C, last)
    PROVE  o \in Orders(C) /\ o[1] # last
<1>1. PICK p \in Orders(C) :
        IF Len(p) <= 1 \/ last = NoNode \/ p[1] # last
        THEN o = p
        ELSE \E k \in 2..Len(p) : o = Swap(p, 1, k)
    BY DEF Shuffled
<1>2. /\ Len(p) \in Nat /\ Len(p) > 1
      /\ p[1] \in Nodes
      /\ \A k, l \in 1..Len(p) : p[k] = p[l] => k = l
    BY OrderProperties
<1>3. CASE last = NoNode \/ p[1] # last
    BY <1>1, <1>2, <1>3
<1>4. CASE last # NoNode /\ p[1] = last
    <2>1. PICK k \in 2..Len(p) : o = Swap(p, 1, k)
        BY <1>1, <1>2, <1>4
    <2>2. p[k] # p[1]
        BY <1>2
    <2>3. QED BY <1>2, <1>4, <2>1, <2>2, SwapKeepsOrder
<1>5. QED BY <1>3, <1>4

-------------------------------------------------------------------------------
(* A selection either goes on with the order of the same candidates or opens  *)
(* a new one, and serves the node at the index.                               *)
GoesOn(C) ==
    /\ bag.candidates = C
    /\ bag.index < Len(bag.order)
    /\ bag'.candidates = C
    /\ bag'.order = bag.order
    /\ bag'.index = bag.index + 1
    /\ bag'.lastSelected = bag.order[bag.index + 1]

StartsOver(C) ==
    /\ bag.candidates # C \/ bag.index = Len(bag.order)
    /\ bag'.candidates = C
    /\ bag'.order \in Orders(C)
    /\ bag'.index = 1
    /\ bag'.lastSelected = bag'.order[1]
    /\ bag'.order[1] # bag.lastSelected

(* A shuffle begins anew, and not with the node served last.                  *)
LEMMA OpensNewOrder ==
    ASSUME NEW C \in SUBSET Nodes, Cardinality(C) > 1, bag \in Bags,
           NEW b \in Reshuffled(bag, C)
    PROVE  /\ b \in Bags /\ b.candidates = C /\ b.index = 0 /\ b.index < Len(b.order)
           /\ b.order \in Orders(C) /\ b.order[1] # bag.lastSelected
<1>1. PICK o \in Shuffled(C, bag.lastSelected) :
            b = [bag EXCEPT !.candidates = C, !.order = o, !.index = 0]
    BY DEF Reshuffled
<1>2. o \in Orders(C) /\ o[1] # bag.lastSelected /\ o \in Seq(Nodes) /\ Len(o) > 1
    <2>1. bag.lastSelected \in Nodes \cup {NoNode}
        BY DEF Bags
    <2>2. o \in Orders(C) /\ o[1] # bag.lastSelected
        BY <2>1, ShuffleAvoidsRepeat
    <2>3. o \in Seq(Nodes) /\ Len(o) = Cardinality(C)
        BY <2>2, OrderProperties
    <2>4. QED BY <2>2, <2>3
<1> DEFINE b1 == [bag EXCEPT !.candidates = C]
           b2 == [b1 EXCEPT !.order = o]
<1>a. b = [b2 EXCEPT !.index = 0]
    BY <1>1
<1>b. b1 \in Bags /\ b1.candidates = C
    BY DEF Bags
<1> HIDE DEF b1
<1>c. b2 \in Bags /\ b2.candidates = C /\ b2.order = o
    BY <1>2, <1>b DEF Bags
<1> HIDE DEF b2
<1>3. b \in Bags /\ b.candidates = C /\ b.order = o /\ b.index = 0
    BY <1>a, <1>c DEF Bags
<1>4. QED BY <1>2, <1>3

(* What handing out the next of the order leaves.                             *)
LEMMA AdvanceServes ==
    ASSUME NEW b \in Bags, b.index < Len(b.order)
    PROVE  /\ Advance(b) \in Bags
           /\ Advance(b).candidates = b.candidates
           /\ Advance(b).order = b.order
           /\ Advance(b).index = b.index + 1
           /\ Advance(b).lastSelected = b.order[b.index + 1]
<1> DEFINE i == b.index + 1
           n == b.order[i]
<1>1. i \in Nat /\ n \in Nodes /\ Advance(b) = [b EXCEPT !.index = i, !.lastSelected = n]
    BY DEF Advance, Bags
<1> HIDE DEF i, n
<1>2. /\ [b EXCEPT !.index = i, !.lastSelected = n] \in Bags
      /\ Advance(b).candidates = b.candidates /\ Advance(b).order = b.order
      /\ Advance(b).index = i /\ Advance(b).lastSelected = n
    BY <1>1 DEF Bags
<1>3. QED BY <1>1, <1>2 DEF i, n

(* A selection goes on in the order, or starts over.                          *)
LEMMA SelectionCases ==
    ASSUME BagInv, NEW C \in SUBSET Nodes, Select(C)
    PROVE  bag' \in Bags /\ (GoesOn(C) \/ StartsOver(C))
<1>1. PICK reset \in Reset(bag, C) : \E refilled \in Refill(reset) : bag' = Advance(refilled)
    BY DEF Select
<1>2. PICK refilled \in Refill(reset) : bag' = Advance(refilled)
    BY <1>1
<1>3. /\ Cardinality(C) > 1 /\ bag \in Bags
      /\ bag.index \in 0..Len(bag.order) /\ Len(bag.order) \in Nat
    BY DEF Select, BagInv, BagOK, Bags
<1>4. CASE bag.candidates = C /\ bag.index < Len(bag.order)
    <2>1. refilled = bag
        BY <1>1, <1>2, <1>3, <1>4 DEF Reset, Refill
    <2>2. QED BY <1>2, <1>3, <1>4, <2>1, AdvanceServes DEF GoesOn
<1>5. CASE bag.candidates # C \/ bag.index = Len(bag.order)
    <2>1. refilled \in Reshuffled(bag, C)
        <3>1. CASE bag.candidates # C
            <4>1. reset \in Reshuffled(bag, C)
                BY <1>1, <3>1 DEF Reset
            <4>2. reset \in Bags /\ reset.index = 0 /\ reset.index < Len(reset.order)
                BY <1>3, <4>1, OpensNewOrder
            <4>3. ~(reset.index >= Len(reset.order))
                <5>1. Len(reset.order) \in Nat
                    BY <4>2 DEF Bags
                <5>2. QED BY <4>2, <5>1
            <4>4. refilled = reset
                BY <1>2, <4>3 DEF Refill
            <4>5. QED BY <4>1, <4>4
        <3>2. CASE bag.candidates = C /\ bag.index = Len(bag.order)
            BY <1>1, <1>2, <1>3, <3>2 DEF Reset, Refill
        <3>3. QED BY <1>5, <3>1, <3>2
    <2>2. QED BY <1>2, <1>3, <1>5, <2>1, OpensNewOrder, AdvanceServes DEF StartsOver
<1>6. QED BY <1>3, <1>4, <1>5

-------------------------------------------------------------------------------
(* A bag that was dropped.                                                    *)
LEMMA NewBagIsEmpty == NewBag \in Bags /\ NewBag.order \in Orders({})
<1>1. NewBag.order = <<>> /\ NewBag \in Bags
    BY DEF NewBag, Bags
<1>2. <<>> \in Orders({})
    <2>1. Len(<<>>) = 0 /\ Cardinality({}) = 0 /\ <<>> \in Seq(Nodes) /\ {} \in SUBSET Nodes
        BY FS_EmptySet
    <2>2. \A i \in 1..Len(<<>>) : FALSE
        BY <2>1
    <2>3. QED BY <2>1, <2>2, IsOrder
<1>3. QED BY <1>1, <1>2

(* At the start there is no bag and nobody waits.                             *)
LEMMA InitInv == Init => BagInv
    BY NewBagIsEmpty DEF Init, NewBag, BagInv, BagOK, WaitInv

(* A dropped bag is a new one.                                                *)
LEMMA DropKeeps == BagInv /\ Drop => BagInv'
    BY NewBagIsEmpty DEF Drop, NewBag, BagInv, BagOK, WaitInv

(* What the invariant says of the order.                                      *)
LEMMA OrderOfBag ==
    ASSUME BagInv
    PROVE  /\ bag.candidates \in SUBSET Nodes
           /\ bag.order \in Seq(Nodes) /\ Len(bag.order) = Cardinality(bag.candidates)
           /\ Len(bag.order) \in Nat
           /\ \A i \in 1..Len(bag.order) : bag.order[i] \in bag.candidates
           /\ \A i, j \in 1..Len(bag.order) : bag.order[i] = bag.order[j] => i = j
           /\ \A n \in bag.candidates : \E i \in 1..Len(bag.order) : bag.order[i] = n
<1>1. bag.candidates \in SUBSET Nodes /\ bag.order \in Orders(bag.candidates)
    BY DEF BagInv, BagOK
<1>2. QED BY <1>1, OrderProperties, ZenonT(30)

(* What a selection does to the time a candidate has waited.                  *)
LEMMA SelectionWaits ==
    ASSUME BagInv, NEW C \in SUBSET Nodes, Select(C)
    PROVE  /\ waited' \in [Nodes -> Nat]
           /\ \A n \in Nodes : n = bag'.lastSelected => waited'[n] = 0
           /\ \A n \in C : waited'[n] <= IF bag.candidates = C THEN waited[n] + 1 ELSE 1
BY DEF Select, BagInv, BagOK

(* Going on: who waits is further ahead in the order.                         *)
LEMMA GoingOnKeeps ==
    ASSUME BagInv, NEW C \in SUBSET Nodes, Select(C), GoesOn(C), bag' \in Bags
    PROVE  BagInv'
<1> DEFINE o == bag.order
<1>1. /\ o' = o /\ bag'.candidates = bag.candidates /\ bag.candidates = C
      /\ bag.index \in 0..Len(o) /\ bag.index < Len(o) /\ Len(o) \in Nat
      /\ bag'.index = bag.index + 1 /\ bag'.lastSelected = o[bag.index + 1]
      /\ waited \in [Nodes -> Nat]
    BY OrderOfBag DEF GoesOn, BagInv, BagOK
<1>2. BagOK'
    BY <1>1, SelectionWaits DEF BagInv, BagOK
<1>3. ASSUME NEW i \in 1..Len(o)
      PROVE  waited'[o[i]] <= IF i <= bag.index + 1 THEN bag.index + 1 - i
                              ELSE bag.index + 1 + Len(o) - 1
    <2>1. /\ o[i] \in C /\ o[i] \in Nodes
          /\ waited[o[i]] <= IF i <= bag.index THEN bag.index - i
                             ELSE bag.index + Len(o) - 1
        BY <1>1, OrderOfBag DEF BagInv, WaitInv
    <2>2. /\ waited'[o[i]] \in Nat /\ waited[o[i]] \in Nat
          /\ waited'[o[i]] <= waited[o[i]] + 1
        BY <1>1, <2>1, SelectionWaits
    <2>3. i = bag.index + 1 => waited'[o[i]] = 0
        BY <1>1, <2>1, SelectionWaits
    <2> DEFINE now   == waited'[o[i]]
               then  == waited[o[i]]
               index == bag.index
               n     == Len(o)
    <2>4. /\ now \in Nat /\ then \in Nat /\ index \in Int /\ i \in Int /\ n \in Int
          /\ i <= n /\ index < n
        BY <1>1, <2>2
    <2>5. /\ now <= then + 1
          /\ then <= IF i <= index THEN index - i ELSE index + n - 1
          /\ i = index + 1 => now = 0
        BY <2>1, <2>2, <2>3
    <2>6. SUFFICES now <= IF i <= index + 1 THEN index + 1 - i ELSE index + 1 + n - 1
        OBVIOUS
    <2> HIDE DEF now, then, index, n, o
    <2>7. CASE i <= index
        BY <2>4, <2>5, <2>7
    <2>8. CASE i = index + 1
        BY <2>4, <2>5, <2>8
    <2>9. CASE i > index + 1
        BY <2>4, <2>5, <2>9
    <2>10. i <= index \/ i = index + 1 \/ i > index + 1
        BY <2>4
    <2>11. QED BY <2>7, <2>8, <2>9, <2>10, Zenon
<1>4. WaitInv'
    BY <1>1, <1>3 DEF WaitInv
<1>5. QED BY <1>2, <1>4 DEF BagInv

(* Starting over: everybody had a turn in the order before.                   *)
LEMMA StartingOverKeeps ==
    ASSUME BagInv, NEW C \in SUBSET Nodes, Select(C), StartsOver(C), bag' \in Bags
    PROVE  BagInv'
<1> DEFINE o == bag'.order
           n == Cardinality(C)
<1>1. /\ n \in Nat /\ n > 1 /\ Len(o) = n
      /\ \A i \in 1..n : o[i] \in C
    BY OrderProperties DEF StartsOver, Select
<1>2. BagOK'
    BY <1>1, SelectionWaits DEF StartsOver, BagOK
<1>3. ASSUME NEW c \in C
      PROVE  waited'[c] \in Nat /\ waited'[c] <= n
    <2>1. waited'[c] \in Nat /\ waited[c] \in Nat
        BY SelectionWaits DEF BagInv, BagOK
    <2>2. CASE bag.candidates # C
        BY <1>1, <2>1, <2>2, SelectionWaits
    <2>3. CASE bag.candidates = C
        <3>1. bag.index = n /\ Len(bag.order) = n
            BY <2>3, OrderOfBag DEF StartsOver
        <3>2. PICK i \in 1..n : bag.order[i] = c
            BY <2>3, <3>1, OrderOfBag
        <3>3. waited[c] <= n - i
            BY <1>1, <3>1, <3>2 DEF BagInv, WaitInv
        <3>4. waited'[c] <= waited[c] + 1
            BY <2>3, SelectionWaits
        <3>5. QED BY <1>1, <2>1, <3>2, <3>3, <3>4
    <2>4. QED BY <2>2, <2>3
<1>4. waited'[o[1]] = 0
    <2>1. o[1] \in Nodes /\ o[1] = bag'.lastSelected
        <3>1. 1 \in 1..n
            BY <1>1
        <3>2. o[1] \in C
            BY <1>1, <3>1
        <3>3. QED BY <3>2 DEF StartsOver
    <2>2. QED BY <2>1, SelectionWaits
<1>5. ASSUME NEW i \in 1..n
      PROVE  waited'[o[i]] <= IF i <= 1 THEN 1 - i ELSE 1 + n - 1
    <2>1. waited'[o[i]] \in Nat /\ waited'[o[i]] <= n
        BY <1>1, <1>3
    <2>2. CASE i = 1
        <3>1. waited'[o[i]] = 0
            BY <1>4, <2>2
        <3>2. QED BY <2>2, <3>1
    <2>3. CASE i # 1
        <3>1. i \in Nat /\ i > 1
            BY <1>1, <2>3
        <3>2. waited'[o[i]] <= 1 + n - 1
            BY <1>1, <2>1
        <3> HIDE DEF n, o
        <3>3. ~(i <= 1)
            BY <3>1
        <3>4. QED BY <3>2, <3>3
    <2>4. QED BY <2>2, <2>3
<1>6. WaitInv'
    BY <1>1, <1>5 DEF WaitInv, StartsOver
<1>7. QED BY <1>2, <1>6 DEF BagInv

(* Both keep the invariant, and so does dropping the bag.                     *)
LEMMA NextKeeps == BagInv /\ [Next]_vars => BagInv'
<1> SUFFICES ASSUME BagInv, [Next]_vars PROVE BagInv'
    OBVIOUS
<1>1. CASE UNCHANGED vars
    BY <1>1 DEF vars, BagInv, BagOK, WaitInv
<1>2. CASE Drop
    BY <1>2, DropKeeps
<1>3. ASSUME NEW C \in SUBSET Nodes, Select(C)
      PROVE  BagInv'
    BY <1>3, SelectionCases, GoingOnKeeps, StartingOverKeeps
<1>4. QED BY <1>1, <1>2, <1>3 DEF Next

(* The invariant behind the theorems of this module.                          *)
THEOREM BagInvariant == Spec => []BagInv
<1>1. QED BY InitInv, NextKeeps, PTL DEF Spec

(* The order is a permutation of the candidates at all times, and the index   *)
(* into it never runs past its end, however the shuffles fall.                *)
THEOREM OrderIsPermutation == Spec => []BagOK
<1>1. BagInv => BagOK
    BY DEF BagInv
<1>2. QED BY <1>1, BagInvariant, PTL

(* While the candidates stay the same, none of n candidates waits for more    *)
(* than 2(n-1) selections of the others.                                      *)
THEOREM WaitIsBounded == Spec => []BoundedWait
<1>1. ASSUME BagInv PROVE BoundedWait
    <2> DEFINE n == Cardinality(bag.candidates)
    <2> SUFFICES ASSUME NEW c \in bag.candidates PROVE waited[c] <= 2 * (n - 1)
        BY DEF BoundedWait
    <2>1. PICK i \in 1..Len(bag.order) : bag.order[i] = c
        BY <1>1, OrderOfBag
    <2>2. /\ Len(bag.order) = n /\ n \in Nat /\ n >= 1
          /\ bag.index \in 0..n /\ waited[c] \in Nat
        <3>1. Len(bag.order) = n /\ n \in Nat /\ c \in Nodes
            BY <1>1, OrderOfBag
        <3>2. bag.index \in 0..n /\ waited[c] \in Nat
            BY <1>1, <3>1 DEF BagInv, BagOK
        <3>3. QED BY <2>1, <3>1, <3>2
    <2>3. waited[c] <= IF i <= bag.index THEN bag.index - i ELSE bag.index + n - 1
        BY <1>1, <2>1, <2>2 DEF BagInv, WaitInv
    <2>4. waited[c] <= (n - 1) + (n - 1)
        BY <2>1, <2>2, <2>3
    <2>5. QED BY <2>2, <2>4
<1>2. QED BY <1>1, BagInvariant, PTL

-------------------------------------------------------------------------------
(* What is left of the round behind the index.                                *)
LEMMA LeftOver ==
    ASSUME BagInv
    PROVE  /\ Round.candidates = bag.candidates /\ Round.lastSelected = bag.lastSelected
           /\ \A n : n \in Round.left <=>
                \E i \in bag.index + 1 .. Len(bag.order) : bag.order[i] = n
           /\ (Round.left = {}) <=> (bag.index = Len(bag.order))
<1>1. /\ Round.candidates = bag.candidates /\ Round.lastSelected = bag.lastSelected
      /\ Round.left = {bag.order[i] : i \in bag.index + 1 .. Len(bag.order)}
    BY DEF Round
<1>2. bag.index \in 0..Len(bag.order) /\ Len(bag.order) \in Nat
    BY OrderOfBag DEF BagInv, BagOK
<1>3. bag.index < Len(bag.order) => bag.order[bag.index + 1] \in Round.left
    BY <1>1, <1>2
<1>4. bag.index = Len(bag.order) => Round.left = {}
    <2>1. \A i \in bag.index + 1 .. Len(bag.order) : bag.index < Len(bag.order)
        BY <1>2
    <2>2. QED BY <1>1, <1>2, <2>1
<1>5. (Round.left = {}) <=> (bag.index = Len(bag.order))
    BY <1>2, <1>3, <1>4
<1>6. QED BY <1>1, <1>5

(* The promise counts and serves as the bag does.                              *)
LEMMA SameTerms ==
    /\ Promise!EmptyRound = EmptyRound
    /\ \A C : Promise!Cardinality(C) = Cardinality(C)
    /\ \A r, C : Promise!Eligible(r, C) = Eligible(r, C)
    /\ \A r, C, n : Promise!Serve(r, C, n) = Serve(r, C, n)
<1>1. Promise!EmptyRound = EmptyRound
    BY DEF Promise!EmptyRound, Promise!NoNode, EmptyRound
<1>2. \A C : Promise!Cardinality(C) = Cardinality(C)
    BY DEF Promise!Cardinality, Cardinality
<1>3. \A r, C : Promise!Eligible(r, C) = Eligible(r, C)
    BY DEF Promise!Eligible, Promise!Continues, Eligible, Continues
<1>4. \A r, C, n : Promise!Serve(r, C, n) = Serve(r, C, n)
    BY DEF Promise!Serve, Promise!Continues, Serve, Continues
<1>5. QED BY <1>1, <1>2, <1>3, <1>4

(* A new bag stands for a round not yet opened.                                *)
LEMMA NewBagIsEmptyRound ==
    /\ bag = NewBag => Round = EmptyRound
    /\ bag' = NewBag => Round' = EmptyRound
<1>1. \A i \in 0 + 1 .. Len(<<>>) : FALSE
    OBVIOUS
<1>2. {<<>>[i] : i \in 0 + 1 .. Len(<<>>)} = {}
    BY <1>1
<1>3. /\ NewBag.candidates = {} /\ NewBag.order = <<>>
      /\ NewBag.index = 0 /\ NewBag.lastSelected = NoNode
    BY DEF NewBag
<1> HIDE DEF NewBag
<1>4. bag = NewBag => Round = EmptyRound
    BY <1>2, <1>3 DEF Round, EmptyRound
<1>5. bag' = NewBag => Round' = EmptyRound
    BY <1>2, <1>3 DEF Round, EmptyRound
<1>6. QED BY <1>4, <1>5

(* The step that goes on serves a node still due, and only takes it out of    *)
(* the round.                                                                 *)
LEMMA GoingOnServes ==
    ASSUME BagInv, BagInv', NEW C \in SUBSET Nodes, Select(C), GoesOn(C)
    PROVE  bag'.lastSelected \in C /\ Promise!Select(C, bag'.lastSelected)
<1> DEFINE n == bag'.lastSelected
           o == bag.order
<1>1. /\ bag.index \in 0..Len(o) /\ bag.index < Len(o) /\ Len(o) \in Nat
      /\ n = o[bag.index + 1] /\ bag'.index = bag.index + 1 /\ bag'.order = o
      /\ bag.candidates = C /\ bag'.candidates = C /\ Cardinality(C) > 1
    BY OrderOfBag DEF GoesOn, Select, BagInv, BagOK
<1>2. Round.candidates = C /\ n \in Round.left /\ Continues(Round, C) /\ n \in C
    <2>1. Round.candidates = C /\ n \in Round.left
        BY <1>1, LeftOver
    <2>2. Continues(Round, C)
        BY <2>1 DEF Continues
    <2>3. n \in C
        <3>1. bag.index + 1 \in 1..Len(o)
            BY <1>1
        <3>2. QED BY <1>1, <3>1, OrderOfBag
    <2>4. QED BY <2>1, <2>2, <2>3
<1>3. Round'.left = Round.left \ {n}
    <2>1. \A m : m \in Round'.left <=> \E i \in bag.index + 2 .. Len(o) : o[i] = m
        BY <1>1 DEF Round
    <2>2. ASSUME NEW i \in bag.index + 2 .. Len(o)
          PROVE  o[i] # n
        <3>1. /\ i \in 1..Len(o) /\ bag.index + 1 \in 1..Len(o)
              /\ i # bag.index + 1
            BY <1>1
        <3>2. o[i] # o[bag.index + 1]
            BY <3>1, OrderOfBag
        <3>3. QED BY <1>1, <3>2
    <2>3. \A i \in bag.index + 1 .. Len(o) : o[i] # n => i \in bag.index + 2 .. Len(o)
        BY <1>1
    <2>4. \A m : m \in Round.left <=> \E i \in bag.index + 1 .. Len(o) : o[i] = m
        BY LeftOver
    <2>5. \A i \in bag.index + 2 .. Len(o) : i \in bag.index + 1 .. Len(o)
        BY <1>1
    <2>6. \A m : m \in Round'.left <=> m \in Round.left /\ m # n
        <3> HIDE DEF n, o
        <3>1. QED BY <2>1, <2>2, <2>3, <2>4, <2>5
    <2>7. QED BY <2>6
<1>4. Round' = Serve(Round, C, n)
    BY <1>1, <1>2, <1>3 DEF Round, Serve
<1>5. n \in Eligible(Round, C)
    BY <1>2 DEF Eligible
<1>6. QED BY <1>1, <1>2, <1>4, <1>5, SameTerms DEF Promise!Select

(* The step that starts over finds the round of these candidates exhausted,   *)
(* and does not serve the node served last again.                             *)
LEMMA StartingOverServes ==
    ASSUME BagInv, BagInv', NEW C \in SUBSET Nodes, Select(C), StartsOver(C)
    PROVE  bag'.lastSelected \in C /\ Promise!Select(C, bag'.lastSelected)
<1> DEFINE n == bag'.lastSelected
           o == bag'.order
<1>1. /\ Cardinality(C) > 1 /\ Cardinality(C) = Len(o) /\ Len(o) \in Nat
      /\ n = o[1] /\ n # bag.lastSelected /\ bag'.index = 1
      /\ bag'.candidates = C
      /\ \A i \in 1..Len(o) : o[i] \in C
      /\ \A i, j \in 1..Len(o) : o[i] = o[j] => i = j
      /\ \A m \in C : \E i \in 1..Len(o) : o[i] = m
    BY OrderProperties DEF StartsOver, Select
<1>2. n \in C /\ ~Continues(Round, C)
    BY <1>1, LeftOver DEF Continues, StartsOver
<1>3. Round'.left = C \ {n}
    <2>1. \A m : m \in Round'.left <=> \E i \in 2 .. Len(o) : o[i] = m
        BY <1>1 DEF Round
    <2>2. \A i \in 2 .. Len(o) : o[i] # n
        BY <1>1
    <2>3. \A i \in 1 .. Len(o) : o[i] # n => i \in 2 .. Len(o)
        BY <1>1
    <2>4. ASSUME NEW m
          PROVE  m \in Round'.left <=> m \in C \ {n}
        <3>1. m \in Round'.left => m \in C \ {n}
            BY <1>1, <2>1, <2>2
        <3>2. m \in C \ {n} => m \in Round'.left
            BY <1>1, <2>1, <2>3
        <3>3. QED BY <3>1, <3>2
    <2>5. QED BY <2>4
<1>4. Round' = Serve(Round, C, n)
    BY <1>1, <1>2, <1>3 DEF Round, Serve
<1>5. n \in Eligible(Round, C)
    BY <1>1, <1>2 DEF Eligible, Round
<1>6. QED BY <1>1, <1>2, <1>4, <1>5, SameTerms DEF Promise!Select

(* Every step of the slice is one of the promise, or none.                    *)
LEMMA StepKeepsPromise ==
    ASSUME BagInv, BagInv', [Next]_vars
    PROVE  [Promise!Next]_Round
<1>1. CASE UNCHANGED vars
    BY <1>1 DEF vars, Round
<1>2. CASE Drop
    <2>1. Round' = EmptyRound
        BY <1>2, NewBagIsEmptyRound DEF Drop
    <2>2. QED BY <2>1, SameTerms DEF Promise!Next, Promise!Drop
<1>3. ASSUME NEW C \in SUBSET Nodes, Select(C)
      PROVE  Promise!Next
    BY <1>3, SelectionCases, GoingOnServes, StartingOverServes DEF Promise!Next
<1>4. QED BY <1>1, <1>2, <1>3 DEF Next

(* Every behaviour of the shuffled slice is one of the promise: each selection *)
(* serves a node still due in the round, and no round opens with the node      *)
(* served last.                                                                *)
THEOREM PromiseIsKept == Spec => ImplementsPromise
<1>1. Init => Promise!Init
    BY NewBagIsEmptyRound, SameTerms DEF Init, Promise!Init
<1>2. BagInv /\ BagInv' /\ [Next]_vars => [Promise!Next]_Round
    BY StepKeepsPromise
<1>3. QED BY <1>1, <1>2, BagInvariant, PTL DEF Spec, ImplementsPromise, Promise!Spec

===============================================================================
