---------------------------- MODULE StatsCollector ----------------------------
(***************************************************************************)
(* Traffic statistics (src/internal/stats/collector.go): request goroutines *)
(* record events in memory, several goroutines flush them into the hourly   *)
(* and the daily table - a ticker, the admin API's overview page, and main  *)
(* once more before it exits (src/cmd/jnmproxy/main.go 215-256).            *)
(*                                                                         *)
(* A counter is represented by the set of events it sums up: adding to a    *)
(* counter is adding an element, merging two counters is a union.  An event *)
(* in two places at once would be counted twice, one in none is not counted.*)
(* The bucket, credential, node and group of an event decide in which       *)
(* counter of a map or table it is summed; they play no part in the moves.  *)
(***************************************************************************)
CONSTANTS
    Events,     \* calls of Record
    Flushers,   \* goroutines that call Flush while the process runs
    Main        \* the goroutine of main, which flushes last

ASSUME MainAssumption == Main \notin Flushers

VARIABLES
    hourly, daily,              \* the maps of the collector
    flight,                     \* per goroutine: the maps its Flush swapped out
    hourlyTable, dailyTable,    \* traffic_stats_hourly, traffic_stats_daily
    phase,                      \* of the process
    recorded,                   \* history: the events recorded so far
    lost                        \* history: what a process took with it

vars == <<hourly, daily, flight, hourlyTable, dailyTable, phase, recorded, lost>>

Goroutines == Flushers \cup {Main}

Phases == {"running", "stopping", "finished"}

NoFlight == [hourly |-> {}, daily |-> {}]

(* A Flush that swapped out two empty maps returns at once.                 *)
Flushing(f) == flight[f] # NoFlight

-------------------------------------------------------------------------------
Record(e) ==
    /\ e \notin recorded
    /\ hourly' = hourly \cup {e}
    /\ daily' = daily \cup {e}
    /\ recorded' = recorded \cup {e}
    /\ UNCHANGED <<flight, hourlyTable, dailyTable, phase, lost>>

(* The first half of Flush, under the lock.                                 *)
SwapOut(f) ==
    /\ ~Flushing(f)
    /\ flight' = [flight EXCEPT ![f] = [hourly |-> hourly, daily |-> daily]]
    /\ hourly' = {}
    /\ daily' = {}

BeginFlush(f) ==
    /\ SwapOut(f)
    /\ UNCHANGED <<hourlyTable, dailyTable, phase, recorded, lost>>

(* Mutant: the two tables are written in separate transactions and the      *)
(* second one fails.                                                        *)
MutantHourlyCommit(f) ==
    /\ Flushing(f)
    /\ hourlyTable' = hourlyTable \cup flight[f].hourly
    /\ flight' = [flight EXCEPT ![f] = NoFlight]
    /\ UNCHANGED <<hourly, daily, dailyTable, phase, recorded, lost>>

(* Mutant: what was written is merged back all the same.                    *)
MutantCommit(f) ==
    /\ Flushing(f)
    /\ hourlyTable' = hourlyTable \cup flight[f].hourly
    /\ dailyTable' = dailyTable \cup flight[f].daily
    /\ hourly' = hourly \cup flight[f].hourly
    /\ daily' = daily \cup flight[f].daily
    /\ flight' = [flight EXCEPT ![f] = NoFlight]
    /\ UNCHANGED <<phase, recorded, lost>>

(* Mutant: ON CONFLICT overwrites the row instead of adding to it.          *)
MutantOverwriteCommit(f) ==
    /\ Flushing(f)
    /\ hourlyTable' = flight[f].hourly
    /\ dailyTable' = flight[f].daily
    /\ flight' = [flight EXCEPT ![f] = NoFlight]
    /\ UNCHANGED <<hourly, daily, phase, recorded, lost>>

(* flushCounters: one transaction adds both maps to both tables.            *)
Commit(f) ==
    /\ Flushing(f)
    /\ hourlyTable' = hourlyTable \cup flight[f].hourly
    /\ dailyTable' = dailyTable \cup flight[f].daily
    /\ flight' = [flight EXCEPT ![f] = NoFlight]
    /\ UNCHANGED <<hourly, daily, phase, recorded, lost>>

(* Mutant: a failed flush drops what it swapped out.                        *)
MutantFlushFails(f) ==
    /\ Flushing(f)
    /\ flight' = [flight EXCEPT ![f] = NoFlight]
    /\ UNCHANGED <<hourly, daily, hourlyTable, dailyTable, phase, recorded, lost>>

(* The transaction is rolled back - a database error, or the overview       *)
(* request's context has ended - and the maps are merged back.              *)
FlushFails(f) ==
    /\ Flushing(f)
    /\ hourly' = hourly \cup flight[f].hourly
    /\ daily' = daily \cup flight[f].daily
    /\ flight' = [flight EXCEPT ![f] = NoFlight]
    /\ UNCHANGED <<hourlyTable, dailyTable, phase, recorded, lost>>

(* After a signal, or the failure of a listener, main shuts the servers     *)
(* down and flushes.  It waits for no other goroutine.                      *)
StopAndFlush ==
    /\ phase = "running"
    /\ phase' = "stopping"
    /\ SwapOut(Main)
    /\ UNCHANGED <<hourlyTable, dailyTable, recorded, lost>>

Exit ==
    /\ phase = "stopping"
    /\ ~Flushing(Main)
    /\ phase' = "finished"
    /\ UNCHANGED <<hourly, daily, flight, hourlyTable, dailyTable, recorded, lost>>

(* A new process starts with empty maps, after an exit or a crash.          *)
Restart ==
    /\ hourly' = {} /\ daily' = {}
    /\ flight' = [f \in Goroutines |-> NoFlight]
    /\ phase' = "running"
    /\ lost' = recorded \ dailyTable
    /\ UNCHANGED <<hourlyTable, dailyTable, recorded>>

-------------------------------------------------------------------------------
Init ==
    /\ hourly = {} /\ daily = {}
    /\ flight = [f \in Goroutines |-> NoFlight]
    /\ hourlyTable = {} /\ dailyTable = {}
    /\ phase = "running"
    /\ recorded = {} /\ lost = {}

Next ==
    \/ /\ phase # "finished"
       /\ \/ \E e \in Events : Record(e)
          \/ \E f \in Flushers : BeginFlush(f)
          \/ \E f \in Goroutines : Commit(f) \/ FlushFails(f)
          \/ StopAndFlush
          \/ Exit
    \/ Restart

Spec == Init /\ [][Next]_vars

(* The ticker flushes again and again, and a database that keeps being      *)
(* asked does not fail for ever.                                            *)
FairSpec ==
    /\ Spec
    /\ \A f \in Flushers : WF_vars(BeginFlush(f) /\ phase # "finished")
    /\ \A f \in Goroutines : SF_vars(Commit(f) /\ phase # "finished")

-------------------------------------------------------------------------------
TypeOK ==
    /\ hourly \in SUBSET Events
    /\ daily \in SUBSET Events
    /\ flight \in [Goroutines -> [hourly : SUBSET Events, daily : SUBSET Events]]
    /\ hourlyTable \in SUBSET Events
    /\ dailyTable \in SUBSET Events
    /\ phase \in Phases
    /\ recorded \in SUBSET Events
    /\ lost \in SUBSET Events

(* Whatever flushers interleave, fail and merge back, the two maps and the  *)
(* two tables sum up the same events.                                       *)
HourlyMatchesDaily ==
    /\ hourly = daily
    /\ hourlyTable = dailyTable
    /\ \A f \in Goroutines : flight[f].hourly = flight[f].daily

(* Every recorded event is in exactly one place: still in memory, swapped   *)
(* out by one flusher, in the table, or lost with an earlier process.       *)
EachEventInOnePlace ==
    /\ recorded = daily \cup dailyTable \cup lost \cup UNION {flight[f].daily : f \in Goroutines}
    /\ daily \cap dailyTable = {}
    /\ lost \cap (daily \cup dailyTable) = {}
    /\ \A f \in Goroutines :
        /\ flight[f].daily \cap (daily \cup dailyTable \cup lost) = {}
        /\ \A g \in Goroutines \ {f} : flight[f].daily \cap flight[g].daily = {}

Ledger == INSTANCE TrafficLedger
    WITH entered <- recorded, onRecord <- dailyTable, lost <- lost

(* Record, Flush and the end of a process do to the daily table what the    *)
(* ledger allows.                                                           *)
ImplementsLedger == Ledger!Spec

(* Failing flushes delay what was recorded, they do not keep it from the    *)
(* table: only the end of the process can.                                  *)
RecordedReachesTable ==
    \A e \in Events :
        e \in recorded ~> e \in dailyTable \cup lost \/ phase = "finished"

===============================================================================
