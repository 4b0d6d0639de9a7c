------------------------- MODULE StatsCollectorProofs -------------------------
(* The traffic statistics are neither lost nor counted twice, for any number  *)
(* of events and flushing goroutines.                                         *)
EXTENDS StatsCollector, TLAPS

(* The collector, its flights and the tables hold sets of events, and the     *)
(* process is in one of its phases.                                           *)
THEOREM TypeCorrect == Spec => []TypeOK
<1>1. Init => TypeOK
  BY DEF Init, TypeOK, NoFlight, Phases
<1>2. TypeOK /\ [Next]_vars => TypeOK'
  <2> SUFFICES ASSUME TypeOK, [Next]_vars PROVE TypeOK'
    OBVIOUS
  <2> USE DEF TypeOK, Phases, NoFlight, Goroutines
  <2>1. ASSUME NEW e \in Events, Record(e) PROVE TypeOK'
    BY <2>1 DEF Record
  <2>2. ASSUME NEW f \in Flushers, BeginFlush(f) PROVE TypeOK'
    BY <2>2 DEF BeginFlush, SwapOut
  <2>3. ASSUME NEW f \in Goroutines, Commit(f) PROVE TypeOK'
    BY <2>3 DEF Commit
  <2>4. ASSUME NEW f \in Goroutines, FlushFails(f) PROVE TypeOK'
    BY <2>4 DEF FlushFails
  <2>5. CASE StopAndFlush
    BY <2>5 DEF StopAndFlush, SwapOut
  <2>6. CASE Exit
    BY <2>6 DEF Exit
  <2>7. CASE Restart
    BY <2>7 DEF Restart
  <2>8. CASE UNCHANGED vars
    BY <2>8 DEF vars
  <2> QED
    BY <2>1, <2>2, <2>3, <2>4, <2>5, <2>6, <2>7, <2>8 DEF Next
<1> QED
  BY <1>1, <1>2, PTL DEF Spec

(* The two maps, the two tables and the two halves of every flight sum up the *)
(* same events: Record, the swap, the merge and the transaction always treat  *)
(* them alike.                                                                *)
THEOREM TablesAgree == Spec => []HourlyMatchesDaily
<1>1. Init => HourlyMatchesDaily
  BY DEF Init, HourlyMatchesDaily, NoFlight
<1>2. TypeOK /\ HourlyMatchesDaily /\ [Next]_vars => HourlyMatchesDaily'
  <2> SUFFICES ASSUME TypeOK, HourlyMatchesDaily, [Next]_vars
               PROVE HourlyMatchesDaily'
    OBVIOUS
  <2> USE DEF TypeOK, HourlyMatchesDaily, NoFlight, Goroutines
  <2>1. ASSUME NEW e \in Events, Record(e) PROVE HourlyMatchesDaily'
    BY <2>1 DEF Record
  <2>2. ASSUME NEW f \in Flushers, BeginFlush(f) PROVE HourlyMatchesDaily'
    BY <2>2 DEF BeginFlush, SwapOut
  <2>3. ASSUME NEW f \in Goroutines, Commit(f) PROVE HourlyMatchesDaily'
    BY <2>3 DEF Commit
  <2>4. ASSUME NEW f \in Goroutines, FlushFails(f) PROVE HourlyMatchesDaily'
    BY <2>4 DEF FlushFails
  <2>5. CASE StopAndFlush
    BY <2>5 DEF StopAndFlush, SwapOut
  <2>6. CASE Exit
    BY <2>6 DEF Exit
  <2>7. CASE Restart
    BY <2>7 DEF Restart
  <2>8. CASE UNCHANGED vars
    BY <2>8 DEF vars
  <2> QED
    BY <2>1, <2>2, <2>3, <2>4, <2>5, <2>6, <2>7, <2>8 DEF Next
<1> QED
  BY <1>1, <1>2, TypeCorrect, PTL DEF Spec

(* A swap moves the daily map into a flight that was empty.                   *)
LEMMA SwapKeepsPlaces ==
  ASSUME NEW f \in Goroutines, TypeOK, EachEventInOnePlace, SwapOut(f),
         UNCHANGED <<dailyTable, recorded, lost>>
  PROVE  EachEventInOnePlace'
<1> USE DEF TypeOK, NoFlight
<1>1. /\ flight[f].daily = {}
      /\ flight' = [flight EXCEPT ![f] = [hourly |-> hourly, daily |-> daily]]
      /\ daily' = {}
  BY DEF SwapOut, Flushing
<1>2. flight'[f].daily = daily /\ \A g \in Goroutines \ {f} : flight'[g].daily = flight[g].daily
  BY <1>1
<1>3. UNION {flight'[g].daily : g \in Goroutines} = daily \cup UNION {flight[g].daily : g \in Goroutines}
  BY <1>1, <1>2
<1> QED
  BY <1>1, <1>2, <1>3 DEF EachEventInOnePlace

(* Every recorded event is in exactly one place, so it is summed up at most   *)
(* once in the daily table, and it stays within reach of a later flush until  *)
(* the process ends.                                                          *)
THEOREM CountedOnce == Spec => []EachEventInOnePlace
<1>1. Init => EachEventInOnePlace
  BY DEF Init, EachEventInOnePlace, NoFlight
<1>2. TypeOK /\ EachEventInOnePlace /\ [Next]_vars => EachEventInOnePlace'
  <2> SUFFICES ASSUME TypeOK, EachEventInOnePlace, [Next]_vars
               PROVE EachEventInOnePlace'
    OBVIOUS
  <2> USE DEF TypeOK
  <2>1. ASSUME NEW e \in Events, Record(e) PROVE EachEventInOnePlace'
    BY <2>1 DEF Record, EachEventInOnePlace
  <2>2. ASSUME NEW f \in Flushers, BeginFlush(f) PROVE EachEventInOnePlace'
    BY <2>2, SwapKeepsPlaces DEF BeginFlush, Goroutines
  <2>3. ASSUME NEW f \in Goroutines, Commit(f) PROVE EachEventInOnePlace'
    <3>1. /\ flight'[f].daily = {}
          /\ \A g \in Goroutines \ {f} : flight'[g].daily = flight[g].daily
      BY <2>3 DEF Commit, NoFlight
    <3>2. UNION {flight[g].daily : g \in Goroutines} =
            flight[f].daily \cup UNION {flight'[g].daily : g \in Goroutines}
      BY <3>1
    <3> QED
      BY <2>3, <3>1, <3>2 DEF Commit, EachEventInOnePlace
  <2>4. ASSUME NEW f \in Goroutines, FlushFails(f) PROVE EachEventInOnePlace'
    <3>1. /\ flight'[f].daily = {}
          /\ \A g \in Goroutines \ {f} : flight'[g].daily = flight[g].daily
      BY <2>4 DEF FlushFails, NoFlight
    <3>2. UNION {flight[g].daily : g \in Goroutines} =
            flight[f].daily \cup UNION {flight'[g].daily : g \in Goroutines}
      BY <3>1
    <3> QED
      BY <2>4, <3>1, <3>2 DEF FlushFails, EachEventInOnePlace
  <2>5. CASE StopAndFlush
    BY <2>5, SwapKeepsPlaces DEF StopAndFlush, Goroutines
  <2>6. CASE Exit
    BY <2>6 DEF Exit, EachEventInOnePlace
  <2>7. CASE Restart
    <3>1. \A g \in Goroutines : flight'[g].daily = {}
      BY <2>7 DEF Restart, NoFlight
    <3>2. dailyTable \subseteq recorded
      BY DEF EachEventInOnePlace
    <3> QED
      BY <2>7, <3>1, <3>2 DEF Restart, EachEventInOnePlace
  <2>8. CASE UNCHANGED vars
    BY <2>8 DEF vars, EachEventInOnePlace
  <2> QED
    BY <2>1, <2>2, <2>3, <2>4, <2>5, <2>6, <2>7, <2>8 DEF Next
<1> QED
  BY <1>1, <1>2, TypeCorrect, PTL DEF Spec

(* The collector implements the ledger: an event is entered once, put on      *)
(* record at most once and never taken back.                                  *)
THEOREM LedgerImplemented == Spec => ImplementsLedger
<1> DEFINE ledger == <<recorded, dailyTable, lost>>
<1>1. Init => Ledger!Init
  BY DEF Init, Ledger!Init
<1>2. TypeOK /\ EachEventInOnePlace /\ [Next]_vars => [Ledger!Next]_ledger
  <2> SUFFICES ASSUME TypeOK, EachEventInOnePlace, [Next]_vars
               PROVE [Ledger!Next]_ledger
    OBVIOUS
  <2> USE DEF TypeOK, Ledger!Next
  <2>1. ASSUME NEW e \in Events, Record(e) PROVE Ledger!Enter(e)
    BY <2>1 DEF Record, Ledger!Enter
  <2>2. ASSUME NEW f \in Goroutines, Commit(f) PROVE Ledger!Store(flight[f].daily)
    <3>1. flight[f].daily \subseteq recorded \ (dailyTable \cup lost)
      BY DEF EachEventInOnePlace
    <3> QED
      BY <2>2, <3>1 DEF Commit, Ledger!Store
  <2>3. ASSUME NEW f \in Goroutines, FlushFails(f) PROVE UNCHANGED ledger
    BY <2>3 DEF FlushFails
  <2>4. ASSUME NEW f \in Flushers, BeginFlush(f) PROVE UNCHANGED ledger
    BY <2>4 DEF BeginFlush
  <2>5. ASSUME StopAndFlush \/ Exit PROVE UNCHANGED ledger
    BY <2>5 DEF StopAndFlush, Exit
  <2>6. ASSUME Restart PROVE Ledger!Lose
    BY <2>6 DEF Restart, Ledger!Lose
  <2>7. CASE UNCHANGED vars
    BY <2>7 DEF vars
  <2>8. \A f \in Goroutines : flight[f].daily \in SUBSET Events
    OBVIOUS
  <2> QED
    BY <2>1, <2>2, <2>3, <2>4, <2>5, <2>6, <2>7, <2>8 DEF Next
<1> QED
  BY <1>1, <1>2, TypeCorrect, CountedOnce, PTL DEF Spec, ImplementsLedger, Ledger!Spec

===============================================================================
