----------------------------- MODULE EngineCache ------------------------------
(***************************************************************************)
(* The pool of embedded sing-box engines, one per node                      *)
(* (src/internal/singbox/adapter.go).  The mutex guards the map of entries  *)
(* only: engines are created, closed and dialed outside of it, and each of  *)
(* those is a step of its own here.  A dialer is a request goroutine; the   *)
(* node and configuration it asks for come from the cache snapshot it holds,*)
(* which may be older than the one another dialer holds.                    *)
(***************************************************************************)
EXTENDS Integers, FiniteSets

CONSTANTS
    Dialers,            \* request goroutines
    NodeIds,            \* node ids
    Configs,            \* outbound configurations (the config hash)
    Engines,            \* identities of the engines that may be created
    MaxActiveEngines,   \* sing_box.max_active_engines
    IdleTicks,          \* sing_box.engine_idle_timeout_seconds, in calls
    MaxCalls,           \* bound: calls of engine() in a behaviour
    NoEngine            \* no entry, no engine

ASSUME PoolAssumption ==
    /\ MaxActiveEngines \in Nat \ {0}
    /\ IdleTicks \in Nat /\ MaxCalls \in Nat
    /\ NoEngine \notin Engines

VARIABLES
    entries,    \* node id -> engine in the map, or NoEngine
    lastUsed,   \* node id -> lastUsed of its entry
    engine,     \* engine -> what it was built from and whether it runs
    dialer,     \* dialer -> where its call is
    retired,    \* engines removed from the map, owned by a goroutine closing them
    clock       \* the time a call last read; one tick per call

vars == <<entries, lastUsed, engine, dialer, retired, clock>>

Idle == [stage |-> "idle", node |-> NoEngine, config |-> NoEngine,
         engine |-> NoEngine, now |-> 0]

Pooled == {n \in NodeIds : entries[n] # NoEngine}

Fresh == {e \in Engines : engine[e].state = "unborn"}

Move(d, stage, e) ==
    dialer' = [dialer EXCEPT ![d].stage = stage, ![d].engine = e]

-------------------------------------------------------------------------------
(* DialContext enters engine(), which reads the time before it locks.       *)
Enter(d, n, config) ==
    /\ dialer[d].stage = "idle"
    /\ clock < MaxCalls
    /\ clock' = clock + 1
    /\ dialer' = [dialer EXCEPT ![d] =
            [stage |-> "lookup", node |-> n, config |-> config,
             engine |-> NoEngine, now |-> clock + 1]]
    /\ UNCHANGED <<entries, lastUsed, engine, retired>>

(* Mutant: any engine of the node will do.                                  *)
MutantMatches(d) == entries[dialer[d].node] # NoEngine

Matches(d) ==
    LET e == entries[dialer[d].node]
    IN  e # NoEngine /\ engine[e].config = dialer[d].config

(* Under the lock: reuse the entry if its configuration is the wanted one.  *)
Hit(d) ==
    /\ dialer[d].stage = "lookup"
    /\ Matches(d)
    /\ lastUsed' = [lastUsed EXCEPT ![dialer[d].node] = dialer[d].now]
    /\ Move(d, "dialing", entries[dialer[d].node])
    /\ UNCHANGED <<entries, engine, retired, clock>>

(* Mutant: the stale entry stays in the map while it is being closed.       *)
MutantMiss(d) ==
    /\ dialer[d].stage = "lookup"
    /\ ~Matches(d)
    /\ Move(d, "replacing", entries[dialer[d].node])
    /\ UNCHANGED <<entries, lastUsed, engine, retired, clock>>

(* Under the lock: take any other entry out, to be closed by this dialer.   *)
Miss(d) ==
    /\ dialer[d].stage = "lookup"
    /\ ~Matches(d)
    /\ entries' = [entries EXCEPT ![dialer[d].node] = NoEngine]
    /\ Move(d, "replacing", entries[dialer[d].node])
    /\ UNCHANGED <<lastUsed, engine, retired, clock>>

CloseOld(d) ==
    /\ dialer[d].stage = "replacing"
    /\ engine' = [e \in Engines |->
            IF e = dialer[d].engine THEN [engine[e] EXCEPT !.state = "closed"] ELSE engine[e]]
    /\ Move(d, "creating", NoEngine)
    /\ UNCHANGED <<entries, lastUsed, retired, clock>>

(* createEngine builds and starts an engine, outside the lock.  It gives    *)
(* the engine the context of the request at hand; what an engine does when  *)
(* that context ends is its own matter and not modelled.                    *)
Create(d, e) ==
    /\ dialer[d].stage = "creating"
    /\ e \in Fresh
    /\ engine' = [engine EXCEPT ![e] =
            [state |-> "open", node |-> dialer[d].node, config |-> dialer[d].config]]
    /\ Move(d, "inserting", e)
    /\ UNCHANGED <<entries, lastUsed, retired, clock>>

(* ... or fails, having closed what it started.                             *)
CreateFails(d) ==
    /\ dialer[d].stage = "creating"
    /\ dialer' = [dialer EXCEPT ![d] = Idle]
    /\ UNCHANGED <<entries, lastUsed, engine, retired, clock>>

(* Mutant: the limit is compared as if the new entry were in the map.       *)
MutantVictims ==
    IF Cardinality(Pooled) <= MaxActiveEngines THEN {}
    ELSE {n \in Pooled : \A m \in Pooled : lastUsed[n] <= lastUsed[m]}

(* evictIfNeededLocked: a full pool gives up its least recently used entry. *)
Victims ==
    IF Cardinality(Pooled) < MaxActiveEngines THEN {}
    ELSE {n \in Pooled : \A m \in Pooled : lastUsed[n] <= lastUsed[m]}

(* Under the lock again: evict if needed, then store the engine.  An entry  *)
(* another dialer stored for the node in the meantime is overwritten.       *)
Insert(d) ==
    /\ dialer[d].stage = "inserting"
    /\ \E evicted \in IF Victims = {} THEN {{}} ELSE {{v} : v \in Victims} :
        /\ entries' = [n \in NodeIds |->
                IF n = dialer[d].node THEN dialer[d].engine
                ELSE IF n \in evicted THEN NoEngine ELSE entries[n]]
        /\ retired' = retired \cup {entries[n] : n \in evicted}
    /\ lastUsed' = [lastUsed EXCEPT ![dialer[d].node] = dialer[d].now]
    /\ Move(d, "dialing", dialer[d].engine)
    /\ UNCHANGED <<engine, clock>>

(* The dial through the engine returns, with a connection or an error.      *)
Return(d) ==
    /\ dialer[d].stage = "dialing"
    /\ dialer' = [dialer EXCEPT ![d] = Idle]
    /\ UNCHANGED <<entries, lastUsed, engine, retired, clock>>

(* Mutant: the engines are closed and their entries kept.                   *)
MutantRemove(S) ==
    /\ retired' = retired \cup {entries[n] : n \in S}
    /\ UNCHANGED <<entries, lastUsed, engine, dialer, clock>>

(* Take the entries of S out of the map; the caller then closes the engines.*)
Remove(S) ==
    /\ entries' = [n \in NodeIds |-> IF n \in S THEN NoEngine ELSE entries[n]]
    /\ retired' = retired \cup {entries[n] : n \in S}
    /\ UNCHANGED <<lastUsed, engine, dialer, clock>>

(* A refresh changed the node's configuration, or the admin rebuilds it.    *)
CloseNode(n) == n \in Pooled /\ Remove({n})

(* Every entry not used within the idle timeout.                            *)
CloseIdle ==
    LET idle == {n \in Pooled : clock - lastUsed[n] > IdleTicks}
    IN  idle # {} /\ Remove(idle)

Close == Pooled # {} /\ Remove(Pooled)

(* Mutant: the engine is let go without being closed.                       *)
MutantCloseInstance(e) ==
    /\ e \in retired
    /\ retired' = retired \ {e}
    /\ UNCHANGED <<entries, lastUsed, engine, dialer, clock>>

CloseInstance(e) ==
    /\ e \in retired
    /\ engine' = [engine EXCEPT ![e].state = "closed"]
    /\ retired' = retired \ {e}
    /\ UNCHANGED <<entries, lastUsed, dialer, clock>>

-------------------------------------------------------------------------------
Init ==
    /\ entries = [n \in NodeIds |-> NoEngine]
    /\ lastUsed = [n \in NodeIds |-> 0]
    /\ engine = [e \in Engines |->
            [state |-> "unborn", node |-> NoEngine, config |-> NoEngine]]
    /\ dialer = [d \in Dialers |-> Idle]
    /\ retired = {}
    /\ clock = 0

EngineCall(d) ==
    \/ Hit(d)
    \/ Miss(d)
    \/ CloseOld(d)
    \/ \E e \in Engines : Create(d, e)
    \/ CreateFails(d)
    \/ Insert(d)
    \/ Return(d)

Next ==
    \/ \E d \in Dialers :
        \/ \E n \in NodeIds, config \in Configs : Enter(d, n, config)
        \/ EngineCall(d)
    \/ \E n \in NodeIds : CloseNode(n)
    \/ CloseIdle
    \/ Close
    \/ \E e \in Engines : CloseInstance(e)

Spec == Init /\ [][Next]_vars

-------------------------------------------------------------------------------
MaybeEngine == Engines \cup {NoEngine}

TypeOK ==
    /\ entries \in [NodeIds -> MaybeEngine]
    /\ lastUsed \in [NodeIds -> Nat]
    /\ engine \in [Engines -> [state : {"unborn", "open", "closed"},
                               node : NodeIds \cup {NoEngine},
                               config : Configs \cup {NoEngine}]]
    /\ dialer \in [Dialers ->
            [stage : {"idle", "lookup", "replacing", "creating", "inserting", "dialing"},
             node : NodeIds \cup {NoEngine}, config : Configs \cup {NoEngine},
             engine : MaybeEngine, now : Nat]]
    /\ retired \in SUBSET Engines
    /\ clock \in Nat

(* However calls for the same and for different nodes interleave between    *)
(* their two critical sections, the map never exceeds its limit.            *)
PoolBounded == Cardinality(Pooled) <= MaxActiveEngines

(* An engine in the map is running and is the engine of that node: no       *)
(* request can be handed one that was already closed when it looked.        *)
PoolHoldsLiveEngines ==
    \A n \in Pooled : engine[entries[n]].state = "open" /\ engine[entries[n]].node = n

(* The goroutines that will close engine e, or may still hand it out.       *)
Owners(e) ==
    {<<"entry", n>> : n \in {m \in NodeIds : entries[m] = e}}
    \cup {<<"closer", e>> : x \in {e} \cap retired}
    \cup {<<"dialer", d>> : d \in {d \in Dialers :
            dialer[d].engine = e /\ dialer[d].stage \in {"replacing", "inserting"}}}

(* Every engine has at most one owner, and a closed one has none: no engine *)
(* is closed twice, nor closed by one goroutine while another still means   *)
(* to put it into the map.                                                  *)
AtMostOneOwner ==
    \A e \in Engines :
        /\ Cardinality(Owners(e)) <= 1
        /\ engine[e].state # "open" => Owners(e) = {}

(* A dial goes through an engine built for the node and from the            *)
(* configuration its request holds, whatever other requests, holding other  *)
(* snapshots of that node, have put into the map since.                     *)
DialUsesOwnConfig ==
    \A d \in Dialers : dialer[d].stage = "dialing" =>
        /\ engine[dialer[d].engine].node = dialer[d].node
        /\ engine[dialer[d].engine].config = dialer[d].config

(* A running engine that somebody has to close stays somebody's until it is *)
(* closed, passed on between critical sections as it may be - except for    *)
(* one: the entry that an insertion finds in its place, stored by another   *)
(* call for the node in the meantime, is overwritten and nobody closes it.  *)
EnginesAreNotForgotten ==
    [][\A e \in Engines :
          /\ engine[e].state = "open" /\ Owners(e) # {}
          /\ engine'[e].state = "open" /\ Owners(e)' = {}
          => \E d \in Dialers : Insert(d) /\ entries[dialer[d].node] = e]_vars

===============================================================================
