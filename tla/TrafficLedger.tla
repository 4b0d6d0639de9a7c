----------------------------- MODULE TrafficLedger ----------------------------
(***************************************************************************)
(* What the traffic statistics promise: every finished attempt is entered   *)
(* once; an entry is put on record at most once and never taken back; an    *)
(* entry that is not on record when the process ends may be lost.           *)
(***************************************************************************)
CONSTANT Events
VARIABLES entered, onRecord, lost

Init == entered = {} /\ onRecord = {} /\ lost = {}

Enter(e) ==
    /\ e \notin entered
    /\ entered' = entered \cup {e}
    /\ UNCHANGED <<onRecord, lost>>

Store(S) ==
    /\ S \subseteq entered \ (onRecord \cup lost)
    /\ onRecord' = onRecord \cup S
    /\ UNCHANGED <<entered, lost>>

Lose ==
    /\ lost' = entered \ onRecord
    /\ UNCHANGED <<entered, onRecord>>

Next ==
    \/ \E e \in Events : Enter(e)
    \/ \E S \in SUBSET Events : Store(S)
    \/ Lose

Spec == Init /\ [][Next]_<<entered, onRecord, lost>>

===============================================================================
