--------------------------- MODULE EngineCacheProofs ---------------------------
(* Invariants of the engine pool, for any dialers, nodes, configurations and    *)
(* engines, any limit of the pool and any idle timeout.                         *)
EXTENDS EngineCache, FiniteSetTheorems, WellFoundedInduction, TLAPS

-------------------------------------------------------------------------------
(* The dialer is about to close engine e, or to put it into the map.          *)
Holds(d, e) ==
    dialer[d].engine = e /\ dialer[d].stage \in {"replacing", "inserting"}

(* What a dialer relies on in each stage of engine().                         *)
CallsAreSound ==
    \A d \in Dialers :
        /\ dialer[d].stage # "idle" => dialer[d].node \in NodeIds /\ dialer[d].config \in Configs
        /\ dialer[d].stage \in {"inserting", "dialing"} =>
            /\ dialer[d].engine \in Engines
            /\ engine[dialer[d].engine].state # "unborn"
            /\ engine[dialer[d].engine].node = dialer[d].node
            /\ engine[dialer[d].engine].config = dialer[d].config

(* Whoever owns an engine owns it alone, and it runs.  That no engine is in   *)
(* the map twice is part of PoolHoldsLiveEngines: it is the engine of its node.*)
OwnersAreAlone ==
    /\ \A e \in retired :
        /\ engine[e].state = "open"
        /\ \A n \in NodeIds : entries[n] # e
        /\ \A d \in Dialers : ~Holds(d, e)
    /\ \A d \in Dialers, e \in Engines : Holds(d, e) =>
        /\ engine[e].state = "open"
        /\ \A n \in NodeIds : entries[n] # e
        /\ \A c \in Dialers \ {d} : ~Holds(c, e)

PoolInv ==
    /\ TypeOK
    /\ PoolHoldsLiveEngines
    /\ CallsAreSound
    /\ OwnersAreAlone

USE PoolAssumption

(* An empty pool.                                                             *)
LEMMA InitInv == Init => PoolInv
<1> SUFFICES ASSUME Init PROVE PoolInv
    OBVIOUS
<1>1. TypeOK
    BY DEF Init, TypeOK, Idle, MaybeEngine
<1>2. PoolHoldsLiveEngines /\ CallsAreSound /\ OwnersAreAlone
    BY DEF Init, Idle, Pooled, PoolHoldsLiveEngines, CallsAreSound, OwnersAreAlone, Holds
<1>3. QED BY <1>1, <1>2 DEF PoolInv

(* A call that goes on stays the call it is.                                  *)
Calls ==
    [stage : {"idle", "lookup", "replacing", "creating", "inserting", "dialing"},
     node : NodeIds \cup {NoEngine}, config : Configs \cup {NoEngine},
     engine : MaybeEngine, now : Nat]

(* A call that moves on keeps its node and configuration.                     *)
LEMMA MoveKeepsCall ==
    ASSUME TypeOK, NEW d \in Dialers,
           NEW stage \in {"lookup", "replacing", "creating", "inserting", "dialing"},
           NEW e \in MaybeEngine, Move(d, stage, e)
    PROVE  /\ dialer' \in [Dialers -> Calls]
           /\ dialer'[d].stage = stage /\ dialer'[d].engine = e
           /\ dialer'[d].node = dialer[d].node /\ dialer'[d].config = dialer[d].config
           /\ \A c \in Dialers \ {d} : dialer'[c] = dialer[c]
<1>1. dialer \in [Dialers -> Calls]
    BY DEF TypeOK, Calls
<1>2. dialer' = [dialer EXCEPT ![d] = [dialer[d] EXCEPT !.stage = stage, !.engine = e]]
    BY <1>1 DEF Move
<1>3. [dialer[d] EXCEPT !.stage = stage, !.engine = e]
        = [stage |-> stage, node |-> dialer[d].node, config |-> dialer[d].config,
           engine |-> e, now |-> dialer[d].now]
    <2>1. dialer[d] = [stage |-> dialer[d].stage, node |-> dialer[d].node,
                       config |-> dialer[d].config, engine |-> dialer[d].engine,
                       now |-> dialer[d].now]
        BY <1>1 DEF Calls
    <2> DEFINE r == [dialer[d] EXCEPT !.stage = stage]
    <2>2. r = [stage |-> stage, node |-> dialer[d].node, config |-> dialer[d].config,
               engine |-> dialer[d].engine, now |-> dialer[d].now]
        BY <2>1
    <2> HIDE DEF r
    <2>3. [r EXCEPT !.engine = e]
            = [stage |-> stage, node |-> dialer[d].node, config |-> dialer[d].config,
               engine |-> e, now |-> dialer[d].now]
        BY <2>2
    <2>4. QED BY <2>3 DEF r
<1>4. dialer' = [dialer EXCEPT ![d] =
                    [stage |-> stage, node |-> dialer[d].node, config |-> dialer[d].config,
                     engine |-> e, now |-> dialer[d].now]]
    BY <1>2, <1>3
<1>5. QED BY <1>1, <1>4 DEF Calls

(* A call that begins holds no engine.                                        *)
LEMMA EnterInv ==
    ASSUME PoolInv, NEW d \in Dialers, NEW n \in NodeIds, NEW config \in Configs,
           Enter(d, n, config)
    PROVE  PoolInv'
<1> USE DEF PoolInv, Enter
<1>1. TypeOK'
    BY DEF TypeOK, MaybeEngine
<1>2. PoolHoldsLiveEngines'
    BY DEF PoolHoldsLiveEngines, Pooled
<1>3. CallsAreSound'
    BY DEF CallsAreSound, TypeOK
<1>4. OwnersAreAlone'
    BY DEF OwnersAreAlone, Holds, TypeOK
<1>5. QED BY <1>1, <1>2, <1>3, <1>4

(* The entry of the map is open and of the configuration asked for.           *)
LEMMA HitInv ==
    ASSUME PoolInv, NEW d \in Dialers, Hit(d)
    PROVE  PoolInv'
<1> USE DEF PoolInv, Hit
<1>0. dialer[d].node \in NodeIds /\ dialer[d].config \in Configs
    BY DEF CallsAreSound
<1> DEFINE e == entries[dialer[d].node]
<1>1. /\ e \in Engines
      /\ engine[e].state = "open"
      /\ engine[e].node = dialer[d].node
      /\ engine[e].config = dialer[d].config
    BY <1>0 DEF Matches, PoolHoldsLiveEngines, Pooled, TypeOK, MaybeEngine
<1>2. TypeOK'
    <2>1. dialer' \in [Dialers -> Calls]
        BY <1>1, MoveKeepsCall DEF MaybeEngine
    <2>2. lastUsed' \in [NodeIds -> Nat]
        BY DEF TypeOK
    <2>3. QED BY <2>1, <2>2 DEF TypeOK, Calls
<1>3. PoolHoldsLiveEngines'
    BY DEF PoolHoldsLiveEngines, Pooled
<1>4. CallsAreSound'
    BY <1>0, <1>1, MoveKeepsCall DEF CallsAreSound, MaybeEngine
<1>5. OwnersAreAlone'
    BY <1>1, MoveKeepsCall DEF OwnersAreAlone, Holds, MaybeEngine
<1>6. QED BY <1>2, <1>3, <1>4, <1>5

(* The stale entry passes from the map to the dialer that will close it.      *)
LEMMA MissInv ==
    ASSUME PoolInv, NEW d \in Dialers, Miss(d)
    PROVE  PoolInv'
<1> USE DEF PoolInv, Miss
<1>0. dialer[d].node \in NodeIds /\ dialer[d].config \in Configs
    BY DEF CallsAreSound
<1>m. /\ dialer' \in [Dialers -> Calls]
      /\ dialer'[d].stage = "replacing" /\ dialer'[d].engine = entries[dialer[d].node]
      /\ dialer'[d].node = dialer[d].node /\ dialer'[d].config = dialer[d].config
      /\ \A c \in Dialers \ {d} : dialer'[c] = dialer[c]
    <2>1. entries[dialer[d].node] \in MaybeEngine
        BY <1>0 DEF TypeOK
    <2>2. QED BY <2>1, MoveKeepsCall
<1>1. TypeOK'
    <2>1. entries' \in [NodeIds -> MaybeEngine]
        BY <1>0 DEF TypeOK, MaybeEngine
    <2>2. QED BY <1>m, <2>1 DEF TypeOK, Calls
<1>2. PoolHoldsLiveEngines'
    BY DEF PoolHoldsLiveEngines, Pooled, TypeOK
<1>3. CallsAreSound'
    BY <1>0, <1>m DEF CallsAreSound
<1>4. OwnersAreAlone'
    <2>1. \A e \in retired' :
            /\ engine'[e].state = "open"
            /\ \A n \in NodeIds : entries'[n] # e
            /\ \A c \in Dialers : ~Holds(c, e)'
        <3>1. ASSUME NEW e \in retired
              PROVE  /\ engine[e].state = "open" /\ e # NoEngine
                     /\ \A n \in NodeIds : entries[n] # e
                     /\ \A c \in Dialers : ~Holds(c, e)
            BY DEF OwnersAreAlone, TypeOK
        <3>2. ASSUME NEW e \in retired
              PROVE  /\ \A n \in NodeIds : entries'[n] # e
                     /\ \A c \in Dialers : ~Holds(c, e)'
            BY <1>0, <1>m, <3>1 DEF Holds, TypeOK
        <3>3. QED BY <3>1, <3>2
    <2>2. ASSUME NEW c \in Dialers, NEW e \in Engines, Holds(c, e)'
          PROVE  /\ engine'[e].state = "open"
                 /\ \A n \in NodeIds : entries'[n] # e
                 /\ \A b \in Dialers \ {c} : ~Holds(b, e)'
        <3>1. CASE c = d
            <4>1. entries[dialer[d].node] = e
                BY <1>m, <2>2, <3>1 DEF Holds
            <4>2. engine[e].state = "open" /\ engine[e].node = dialer[d].node
                BY <1>0, <4>1 DEF PoolHoldsLiveEngines, Pooled
            <4>3. \A n \in NodeIds : entries[n] = e => n = dialer[d].node
                BY <4>2 DEF PoolHoldsLiveEngines, Pooled
            <4>4. \A n \in NodeIds : entries'[n] # e
                BY <1>0, <4>1, <4>3 DEF TypeOK
            <4>5. \A b \in Dialers \ {d} : ~Holds(b, e)'
                BY <1>0, <1>m, <4>1, <2>2, <3>1 DEF OwnersAreAlone, Holds
            <4>6. QED BY <3>1, <4>2, <4>4, <4>5
        <3>2. CASE c # d
            <4>1. Holds(c, e)
                BY <1>m, <2>2, <3>2 DEF Holds
            <4>2. ~Holds(d, e)'
                BY <1>0, <1>m, <4>1 DEF OwnersAreAlone, Holds
            <4>3. \A b \in Dialers \ {c} : ~Holds(b, e)'
                BY <1>m, <4>1, <4>2 DEF OwnersAreAlone, Holds
            <4>4. engine[e].state = "open" /\ \A n \in NodeIds : entries[n] # e
                BY <4>1 DEF OwnersAreAlone
            <4>5. \A n \in NodeIds : entries'[n] # e
                BY <1>0, <4>4 DEF TypeOK
            <4>6. QED BY <4>3, <4>4, <4>5
        <3>3. QED BY <3>1, <3>2
    <2>3. QED BY <2>1, <2>2 DEF OwnersAreAlone
<1>5. QED BY <1>1, <1>2, <1>3, <1>4

(* The dialer closes the stale engine it took out of the map.                 *)
LEMMA CloseOldInv ==
    ASSUME PoolInv, NEW d \in Dialers, CloseOld(d)
    PROVE  PoolInv'
<1> USE DEF PoolInv, CloseOld
<1>m. /\ dialer' \in [Dialers -> Calls]
      /\ dialer'[d].stage = "creating"
      /\ dialer'[d].node = dialer[d].node /\ dialer'[d].config = dialer[d].config
      /\ \A c \in Dialers \ {d} : dialer'[c] = dialer[c]
    BY MoveKeepsCall DEF MaybeEngine
<1>1. TypeOK'
    BY <1>m DEF TypeOK, Calls
<1>2. \A x \in Engines :
        /\ engine'[x].node = engine[x].node
        /\ engine'[x].config = engine[x].config
        /\ x # dialer[d].engine => engine'[x] = engine[x]
        /\ engine[x].state # "unborn" => engine'[x].state # "unborn"
    BY DEF TypeOK
<1>3. dialer[d].engine \in Engines => Holds(d, dialer[d].engine)
    BY DEF Holds
<1>4. PoolHoldsLiveEngines'
    BY <1>2, <1>3 DEF PoolHoldsLiveEngines, Pooled, OwnersAreAlone, TypeOK, MaybeEngine
<1>5. CallsAreSound'
    BY <1>2, <1>m DEF CallsAreSound
<1>6. OwnersAreAlone'
    <2>1. \A c \in Dialers, x \in Engines : Holds(c, x)' => Holds(c, x) /\ c # d
        BY <1>m DEF Holds
    <2>2. \A x \in retired : ~Holds(d, x)
        BY DEF OwnersAreAlone
    <2>3. QED BY <1>2, <1>3, <2>1, <2>2 DEF OwnersAreAlone, TypeOK, MaybeEngine
<1>7. QED BY <1>1, <1>4, <1>5, <1>6

(* A fresh engine is in nobody's hands: whatever is, has been started.        *)
LEMMA CreateInv ==
    ASSUME PoolInv, NEW d \in Dialers, NEW e \in Engines, Create(d, e)
    PROVE  PoolInv'
<1> USE DEF PoolInv, Create
<1>0. dialer[d].node \in NodeIds /\ dialer[d].config \in Configs
    BY DEF CallsAreSound
<1>m. /\ dialer' \in [Dialers -> Calls]
      /\ dialer'[d].stage = "inserting" /\ dialer'[d].engine = e
      /\ dialer'[d].node = dialer[d].node /\ dialer'[d].config = dialer[d].config
      /\ \A c \in Dialers \ {d} : dialer'[c] = dialer[c]
    BY MoveKeepsCall DEF MaybeEngine
<1>1. TypeOK'
    BY <1>0, <1>m DEF TypeOK, Calls
<1>2. engine[e].state = "unborn"
    BY DEF Fresh
<1>3. \A x \in Engines \ {e} : engine'[x] = engine[x]
    BY DEF TypeOK
<1>4. /\ e \notin retired
      /\ \A n \in NodeIds : entries[n] # e
      /\ \A c \in Dialers : ~Holds(c, e)
    BY <1>2 DEF OwnersAreAlone, PoolHoldsLiveEngines, Pooled, TypeOK
<1>5. PoolHoldsLiveEngines'
    BY <1>3, <1>4 DEF PoolHoldsLiveEngines, Pooled, TypeOK, MaybeEngine
<1>6. CallsAreSound'
    <2>2. engine'[e] = [state |-> "open", node |-> dialer[d].node, config |-> dialer[d].config]
        BY DEF TypeOK
    <2>3. \A c \in Dialers : dialer[c].stage \in {"inserting", "dialing"} => dialer[c].engine # e
        BY <1>2 DEF CallsAreSound
    <2>4. QED BY <1>0, <1>3, <1>m, <2>2, <2>3 DEF CallsAreSound
<1>7. OwnersAreAlone'
    <2>1. \A c \in Dialers, x \in Engines : x # e => (Holds(c, x)' => Holds(c, x))
        BY <1>m DEF Holds
    <2>2. \A c \in Dialers : Holds(c, e)' => c = d
        BY <1>4, <1>m DEF Holds
    <2>3. engine'[e].state = "open"
        BY DEF TypeOK
    <2>4. QED BY <1>3, <1>4, <2>1, <2>2, <2>3 DEF OwnersAreAlone, TypeOK
<1>8. QED BY <1>1, <1>5, <1>6, <1>7

(* A call that ends, having held nothing.                                     *)
LEMMA EndInv ==
    ASSUME PoolInv, NEW d \in Dialers, CreateFails(d) \/ Return(d)
    PROVE  PoolInv'
<1> USE DEF PoolInv, CreateFails, Return, Idle
<1>1. TypeOK'
    BY DEF TypeOK, MaybeEngine
<1>2. PoolHoldsLiveEngines'
    BY DEF PoolHoldsLiveEngines, Pooled
<1>3. CallsAreSound'
    BY DEF CallsAreSound, TypeOK
<1>4. OwnersAreAlone'
    <2>1. \A c \in Dialers, x \in Engines : Holds(c, x)' => Holds(c, x)
        BY DEF Holds, TypeOK
    <2>2. QED BY <2>1 DEF OwnersAreAlone, TypeOK
<1>5. QED BY <1>1, <1>2, <1>3, <1>4

(* The engines of S pass from the map to the goroutines that close them.      *)
LEMMA RemoveInv ==
    ASSUME PoolInv, NEW S \in SUBSET Pooled, Remove(S)
    PROVE  PoolInv'
<1> USE DEF PoolInv, Remove
<1>1. S \subseteq NodeIds /\ \A n \in S : entries[n] \in Engines
    BY DEF Pooled, TypeOK, MaybeEngine
<1>2. TypeOK'
    BY <1>1 DEF TypeOK, MaybeEngine
<1>3. PoolHoldsLiveEngines'
    BY DEF PoolHoldsLiveEngines, Pooled
<1>4. CallsAreSound'
    BY DEF CallsAreSound
<1>5. OwnersAreAlone'
    <2>1. \A n \in S : /\ engine[entries[n]].state = "open"
                        /\ engine[entries[n]].node = n
        BY DEF PoolHoldsLiveEngines
    <2>2. \A m \in NodeIds : entries[m] # NoEngine => engine[entries[m]].node = m
        BY DEF PoolHoldsLiveEngines, Pooled
    <2>3. \A m \in NodeIds, n \in S : entries'[m] # entries[n]
        BY <1>1, <2>1, <2>2
    <2>4. \A c \in Dialers, x \in Engines : Holds(c, x)' <=> Holds(c, x)
        BY DEF Holds
    <2>5. \A c \in Dialers, n \in S : ~Holds(c, entries[n])
        BY <1>1 DEF OwnersAreAlone
    <2>6. \A e \in retired' :
            /\ engine'[e].state = "open"
            /\ \A n \in NodeIds : entries'[n] # e
            /\ \A c \in Dialers : ~Holds(c, e)'
        BY <1>1, <1>2, <2>1, <2>3, <2>4, <2>5 DEF OwnersAreAlone, TypeOK
    <2>7. QED BY <2>4, <2>6, <1>1 DEF OwnersAreAlone
<1>6. QED BY <1>2, <1>3, <1>4, <1>5

(* An engine that was retired closes.                                         *)
LEMMA CloseInstanceInv ==
    ASSUME PoolInv, NEW e \in Engines, CloseInstance(e)
    PROVE  PoolInv'
<1> USE DEF PoolInv, CloseInstance
<1>1. TypeOK'
    BY DEF TypeOK
<1>2. \A x \in Engines :
        /\ engine'[x].node = engine[x].node
        /\ engine'[x].config = engine[x].config
        /\ x # e => engine'[x] = engine[x]
        /\ engine[x].state # "unborn" => engine'[x].state # "unborn"
    BY DEF TypeOK
<1>3. PoolHoldsLiveEngines'
    BY <1>2 DEF PoolHoldsLiveEngines, Pooled, OwnersAreAlone, TypeOK, MaybeEngine
<1>4. CallsAreSound'
    BY <1>2 DEF CallsAreSound, TypeOK
<1>5. OwnersAreAlone'
    <2>1. \A c \in Dialers, x \in Engines : Holds(c, x)' <=> Holds(c, x)
        BY DEF Holds
    <2>2. \A c \in Dialers : ~Holds(c, e)
        BY DEF OwnersAreAlone
    <2>3. QED BY <1>2, <2>1, <2>2 DEF OwnersAreAlone, TypeOK
<1>6. QED BY <1>1, <1>3, <1>4, <1>5

(* The new engine passes from its dialer to the map, and the one it evicts    *)
(* from the map to the goroutine that closes it.                              *)
LEMMA InsertInv ==
    ASSUME PoolInv, NEW d \in Dialers, Insert(d)
    PROVE  PoolInv'
<1> USE DEF PoolInv
<1> DEFINE node == dialer[d].node
           e == dialer[d].engine
<1>0. /\ dialer[d].stage = "inserting"
      /\ node \in NodeIds /\ dialer[d].config \in Configs
      /\ e \in Engines /\ engine[e].node = node /\ engine[e].config = dialer[d].config
      /\ Holds(d, e)
    BY DEF CallsAreSound, Insert, Holds
<1>1. PICK S \in SUBSET Pooled :
        /\ entries' = [n \in NodeIds |-> IF n = node THEN e
                                         ELSE IF n \in S THEN NoEngine ELSE entries[n]]
        /\ retired' = retired \cup {entries[n] : n \in S}
    <2>1. Victims \subseteq Pooled
        BY DEF Victims
    <2>2. QED BY <2>1 DEF Insert
<1>2. /\ lastUsed' = [lastUsed EXCEPT ![node] = dialer[d].now]
      /\ UNCHANGED <<engine, clock>>
    BY DEF Insert
<1>m. /\ dialer' \in [Dialers -> Calls]
      /\ dialer'[d].stage = "dialing" /\ dialer'[d].engine = e
      /\ dialer'[d].node = node /\ dialer'[d].config = dialer[d].config
      /\ \A c \in Dialers \ {d} : dialer'[c] = dialer[c]
    BY <1>0, MoveKeepsCall DEF Insert, MaybeEngine
<1>3. /\ \A n \in S : entries[n] \in Engines /\ n \in NodeIds
      /\ \A n \in S : engine[entries[n]].state = "open"
      /\ \A n \in NodeIds : entries[n] # NoEngine =>
            engine[entries[n]].state = "open" /\ engine[entries[n]].node = n
    BY <1>1 DEF Pooled, TypeOK, MaybeEngine, PoolHoldsLiveEngines
<1>4. /\ engine[e].state = "open"
      /\ e \notin retired
      /\ \A n \in NodeIds : entries[n] # e
      /\ \A c \in Dialers \ {d} : ~Holds(c, e)
    BY <1>0 DEF OwnersAreAlone
<1>5. TypeOK'
    <2>1. entries' \in [NodeIds -> MaybeEngine] /\ retired' \in SUBSET Engines
        BY <1>0, <1>1, <1>3 DEF TypeOK, MaybeEngine
    <2>2. lastUsed' \in [NodeIds -> Nat]
        BY <1>2 DEF TypeOK
    <2>3. QED BY <1>2, <1>m, <2>1, <2>2 DEF TypeOK, Calls
<1>6. PoolHoldsLiveEngines'
    BY <1>0, <1>1, <1>2, <1>3, <1>4 DEF PoolHoldsLiveEngines, Pooled
<1>7. CallsAreSound'
    BY <1>0, <1>2, <1>4, <1>m DEF CallsAreSound
<1>8. OwnersAreAlone'
    <2>1. \A c \in Dialers, x \in Engines : Holds(c, x)' => Holds(c, x) /\ c # d
        BY <1>m DEF Holds
    <2>2. \A m \in NodeIds, n \in S : entries'[m] # entries[n]
        BY <1>1, <1>3, <1>4
    <2>3. \A c \in Dialers, n \in S : ~Holds(c, entries[n])
        BY <1>3 DEF OwnersAreAlone
    <2>4. \A x \in retired : x \in Engines /\ \A m \in NodeIds : entries'[m] # x
        BY <1>1, <1>4 DEF OwnersAreAlone, TypeOK, MaybeEngine
    <2>5. \A x \in retired' :
            /\ engine'[x].state = "open"
            /\ \A n \in NodeIds : entries'[n] # x
            /\ \A c \in Dialers : ~Holds(c, x)'
        BY <1>1, <1>2, <1>3, <2>1, <2>2, <2>3, <2>4 DEF OwnersAreAlone
    <2>6. ASSUME NEW c \in Dialers, NEW x \in Engines, Holds(c, x)'
          PROVE  /\ engine'[x].state = "open"
                 /\ \A n \in NodeIds : entries'[n] # x
                 /\ \A b \in Dialers \ {c} : ~Holds(b, x)'
        <3>1. Holds(c, x) /\ c # d
            BY <2>1, <2>6
        <3>2. x # e /\ x # NoEngine
            BY <1>4, <3>1
        <3>3. \A n \in NodeIds : entries'[n] # x
            BY <1>1, <3>1, <3>2 DEF OwnersAreAlone
        <3>4. QED BY <1>2, <2>1, <3>1, <3>3 DEF OwnersAreAlone
    <2>7. QED BY <2>5, <2>6 DEF OwnersAreAlone
<1>9. QED BY <1>5, <1>6, <1>7, <1>8

(* However calls, closings and evictions interleave, the invariant is kept.   *)
LEMMA PoolStepInv == PoolInv /\ [Next]_vars => PoolInv'
<1> SUFFICES ASSUME PoolInv, [Next]_vars PROVE PoolInv'
    OBVIOUS
<1>1. CASE Next
    <2>1. ASSUME NEW d \in Dialers, NEW n \in NodeIds, NEW config \in Configs,
                 Enter(d, n, config)
          PROVE  PoolInv'
        BY <2>1, EnterInv
    <2>2. ASSUME NEW d \in Dialers, EngineCall(d)
          PROVE  PoolInv'
        BY <2>2, HitInv, MissInv, CloseOldInv, CreateInv, EndInv, InsertInv DEF EngineCall
    <2>3. ASSUME NEW n \in NodeIds, CloseNode(n)
          PROVE  PoolInv'
        BY <2>3, RemoveInv DEF CloseNode
    <2>4. ASSUME CloseIdle
          PROVE  PoolInv'
        BY <2>4, RemoveInv DEF CloseIdle
    <2>5. ASSUME Close
          PROVE  PoolInv'
        BY <2>5, RemoveInv DEF Close
    <2>6. ASSUME NEW e \in Engines, CloseInstance(e)
          PROVE  PoolInv'
        BY <2>6, CloseInstanceInv
    <2>7. QED BY <1>1, <2>1, <2>2, <2>3, <2>4, <2>5, <2>6 DEF Next
<1>2. CASE UNCHANGED vars
    BY <1>2 DEF vars, PoolInv, TypeOK, PoolHoldsLiveEngines, Pooled, CallsAreSound,
        OwnersAreAlone, Holds
<1>3. QED BY <1>1, <1>2

(* The invariant behind the theorems of this module.                          *)
THEOREM PoolInvariant == Spec => []PoolInv
<1>1. QED BY InitInv, PoolStepInv, PTL DEF Spec

(* Every variable of the pool keeps its type.                                 *)
THEOREM TypeCorrect == Spec => []TypeOK
<1>1. PoolInv => TypeOK
    BY DEF PoolInv
<1>2. QED BY <1>1, PoolInvariant, PTL

(* However lookups, insertions, evictions and closings interleave, what the   *)
(* map holds is running and is the engine of its node (engine, CloseNode,     *)
(* CloseIdle, Close).                                                         *)
THEOREM MapHoldsLiveEngines == Spec => []PoolHoldsLiveEngines
<1>1. PoolInv => PoolHoldsLiveEngines
    BY DEF PoolInv
<1>2. QED BY <1>1, PoolInvariant, PTL

(* A dial goes through an engine built for its node from the configuration of *)
(* its own snapshot, whatever others have put into the map since.             *)
THEOREM DialsUseTheirConfig == Spec => []DialUsesOwnConfig
<1>1. PoolInv => DialUsesOwnConfig
    BY DEF PoolInv, CallsAreSound, DialUsesOwnConfig
<1>2. QED BY <1>1, PoolInvariant, PTL

-------------------------------------------------------------------------------
(* A set whose members are all equal counts one at most.                      *)
LEMMA AtMostOneMember ==
    ASSUME NEW S, \A x, y \in S : x = y
    PROVE  Cardinality(S) <= 1
<1>1. CASE S = {}
    BY <1>1, FS_EmptySet
<1>2. CASE S # {}
    <2>1. PICK x : x \in S
        BY <1>2
    <2>2. S = {x}
        BY <2>1
    <2>3. Cardinality(S) = 1
        BY <2>2, FS_Singleton
    <2>4. QED BY <2>3
<1>3. QED BY <1>1, <1>2

(* No engine is closed by two goroutines, or by one while another still means *)
(* to put it into the map; and one that is closed is in nobody's hands.       *)
THEOREM EnginesHaveOneOwner == Spec => []AtMostOneOwner
<1>1. ASSUME PoolInv, NEW e \in Engines
      PROVE  /\ Cardinality(Owners(e)) <= 1
             /\ engine[e].state # "open" => Owners(e) = {}
    <2> USE <1>1 DEF PoolInv
    <2>1. \A n \in NodeIds : entries[n] = e =>
            engine[e].state = "open" /\ engine[e].node = n
        BY DEF PoolHoldsLiveEngines, Pooled
    <2>2. e \in retired => /\ engine[e].state = "open"
                           /\ \A n \in NodeIds : entries[n] # e
                           /\ \A d \in Dialers : ~Holds(d, e)
        BY DEF OwnersAreAlone
    <2>3. \A d \in Dialers : Holds(d, e) =>
            /\ engine[e].state = "open"
            /\ \A n \in NodeIds : entries[n] # e
            /\ \A c \in Dialers : Holds(c, e) => c = d
        BY DEF OwnersAreAlone
    <2>4. \A x \in Owners(e) :
            \/ \E n \in NodeIds : entries[n] = e /\ x = <<"entry", n>>
            \/ e \in retired /\ x = <<"closer", e>>
            \/ \E d \in Dialers : Holds(d, e) /\ x = <<"dialer", d>>
        BY DEF Owners, Holds
    <2>5. ASSUME NEW x \in Owners(e), NEW y \in Owners(e)
          PROVE  x = y
        BY <2>1, <2>2, <2>3, <2>4
    <2>6. engine[e].state # "open" => Owners(e) = {}
        BY <2>1, <2>2, <2>3, <2>4
    <2>7. QED BY <2>5, <2>6, AtMostOneMember
<1>2. PoolInv => AtMostOneOwner
    BY <1>1 DEF AtMostOneOwner
<1>3. QED BY <1>2, PoolInvariant, PTL

-------------------------------------------------------------------------------
(* Engine e is in the map, about to be closed, or in the hands of a dialer.   *)
Owned(e) ==
    \/ \E n \in NodeIds : entries[n] = e
    \/ e \in retired
    \/ \E d \in Dialers : Holds(d, e)

(* That is, it has an owner.                                                  *)
LEMMA OwnedHasOwner ==
    ASSUME NEW e
    PROVE  Owned(e) <=> Owners(e) # {}
BY DEF Owned, Owners, Holds

(* The steps of a call pass an engine on or close it; an insertion may        *)
(* overwrite one.                                                             *)
LEMMA CallKeepsOwned ==
    ASSUME PoolInv, NEW d \in Dialers, EngineCall(d), NEW e \in Engines,
           Owned(e), engine'[e].state = "open"
    PROVE  Owned(e)' \/ (Insert(d) /\ entries[dialer[d].node] = e)
<1> USE DEF PoolInv
<1>1. ASSUME UNCHANGED <<entries, retired>>, ~Holds(d, e),
             \A c \in Dialers \ {d} : dialer'[c] = dialer[c]
      PROVE  Owned(e)'
    <2>1. \A c \in Dialers : Holds(c, e) => Holds(c, e)'
        BY <1>1 DEF Holds
    <2>2. QED BY <1>1, <2>1 DEF Owned
<1>2. CASE Hit(d) \/ CreateFails(d) \/ Return(d)
    <2>1. UNCHANGED <<entries, retired>> /\ ~Holds(d, e)
        BY <1>2 DEF Hit, CreateFails, Return, Holds
    <2>2. \A c \in Dialers \ {d} : dialer'[c] = dialer[c]
        BY <1>2 DEF Hit, CreateFails, Return, Move, TypeOK
    <2>3. QED BY <1>1, <2>1, <2>2
<1>3. CASE Miss(d)
    <2>1. /\ dialer'[d].stage = "replacing" /\ dialer'[d].engine = entries[dialer[d].node]
          /\ \A c \in Dialers \ {d} : dialer'[c] = dialer[c]
          /\ ~Holds(d, e)
        <3>1. entries[dialer[d].node] \in MaybeEngine
            BY <1>3 DEF Miss, CallsAreSound, TypeOK
        <3>2. QED BY <1>3, <3>1, MoveKeepsCall DEF Miss, Holds
    <2>2. ASSUME NEW n \in NodeIds, entries[n] = e PROVE Owned(e)'
        <3>1. entries'[n] = e \/ n = dialer[d].node
            BY <1>3, <2>2 DEF Miss, TypeOK
        <3>2. QED BY <2>1, <2>2, <3>1 DEF Owned, Holds
    <2>3. QED BY <1>3, <2>1, <2>2 DEF Miss, Owned, Holds
<1>4. CASE CloseOld(d)
    <2>1. ~Holds(d, e)
        BY <1>4 DEF CloseOld, Holds, TypeOK
    <2>2. \A c \in Dialers \ {d} : dialer'[c] = dialer[c]
        BY <1>4 DEF CloseOld, Move, TypeOK
    <2>3. QED BY <1>1, <1>4, <2>1, <2>2 DEF CloseOld
<1>5. ASSUME NEW x \in Engines, Create(d, x) PROVE Owned(e)'
    <2>1. ~Holds(d, e) /\ UNCHANGED <<entries, retired>>
        BY <1>5 DEF Create, Holds
    <2>2. \A c \in Dialers \ {d} : dialer'[c] = dialer[c]
        BY <1>5 DEF Create, Move, TypeOK
    <2>3. QED BY <1>1, <2>1, <2>2
<1>6. CASE Insert(d)
    <2> DEFINE node == dialer[d].node
    <2>1. PICK S \in SUBSET Pooled :
            /\ entries' = [n \in NodeIds |-> IF n = node THEN dialer[d].engine
                                             ELSE IF n \in S THEN NoEngine ELSE entries[n]]
            /\ retired' = retired \cup {entries[n] : n \in S}
        <3>1. Victims \subseteq Pooled
            BY DEF Victims
        <3>2. QED BY <1>6, <3>1 DEF Insert
    <2>2. node \in NodeIds
        BY <1>6 DEF Insert, CallsAreSound
    <2>3. \A c \in Dialers \ {d} : dialer'[c] = dialer[c]
        BY <1>6 DEF Insert, Move, TypeOK
    <2>4. ASSUME NEW n \in NodeIds, entries[n] = e, n # node PROVE Owned(e)'
        BY <2>1, <2>4 DEF Owned
    <2>5. Holds(d, e) => Owned(e)'
        BY <2>1, <2>2 DEF Owned, Holds
    <2>6. ASSUME NEW c \in Dialers \ {d}, Holds(c, e) PROVE Owned(e)'
        <3>1. Holds(c, e)'
            BY <2>3, <2>6 DEF Holds
        <3>2. QED BY <3>1 DEF Owned
    <2>7. e \in retired => Owned(e)'
        BY <2>1 DEF Owned
    <2>8. QED BY <1>6, <2>4, <2>5, <2>6, <2>7 DEF Owned
<1>7. QED BY <1>2, <1>3, <1>4, <1>5, <1>6 DEF EngineCall

(* Taking entries out passes their engines on to whoever closes them.         *)
LEMMA RemoveKeepsOwned ==
    ASSUME NEW S \in SUBSET Pooled, Remove(S), NEW e \in Engines, Owned(e)
    PROVE  Owned(e)'
<1>1. UNCHANGED dialer
    BY DEF Remove
<1>2. ASSUME NEW n \in NodeIds, entries[n] = e PROVE Owned(e)'
    BY <1>2 DEF Remove, Owned
<1>3. QED BY <1>1, <1>2 DEF Remove, Owned, Holds

(* A running engine in somebody's hands stays in somebody's, or is            *)
(* overwritten.                                                               *)
LEMMA StepKeepsOwned ==
    ASSUME PoolInv, Next, NEW e \in Engines, Owned(e), engine'[e].state = "open"
    PROVE  Owned(e)' \/ \E d \in Dialers : Insert(d) /\ entries[dialer[d].node] = e
<1>1. ASSUME NEW d \in Dialers, NEW n \in NodeIds, NEW config \in Configs, Enter(d, n, config)
      PROVE  Owned(e)'
    <2>1. ~Holds(d, e) /\ UNCHANGED <<entries, retired>>
        BY <1>1 DEF Enter, Holds
    <2>2. \A c \in Dialers \ {d} : dialer'[c] = dialer[c]
        BY <1>1 DEF Enter, PoolInv, TypeOK
    <2>3. QED BY <2>1, <2>2 DEF Owned, Holds
<1>2. ASSUME NEW x \in Engines, CloseInstance(x)
      PROVE  Owned(e)'
    <2>1. x # e
        BY <1>2 DEF CloseInstance, PoolInv, TypeOK
    <2>2. QED BY <1>2, <2>1 DEF CloseInstance, Owned, Holds
<1>3. ASSUME (\E n \in NodeIds : CloseNode(n)) \/ CloseIdle \/ Close
      PROVE  Owned(e)'
    BY <1>3, RemoveKeepsOwned DEF CloseNode, CloseIdle, Close
<1>4. QED BY <1>1, <1>2, <1>3, CallKeepsOwned DEF Next

(* No engine is left running with nobody to close it, but for those that an   *)
(* insertion overwrites (engine, CloseNode, CloseIdle, Close).                *)
THEOREM OnlyOverwrittenEnginesAreLost == Spec => EnginesAreNotForgotten
<1>1. ASSUME PoolInv, Next, NEW e \in Engines
      PROVE  /\ engine[e].state = "open" /\ Owners(e) # {}
             /\ engine'[e].state = "open" /\ Owners(e)' = {}
             => \E d \in Dialers : Insert(d) /\ entries[dialer[d].node] = e
    <2>1. (Owners(e) # {}) = Owned(e)
        BY OwnedHasOwner
    <2>2. Owned(e)' => Owners(e)' # {}
        BY DEF Owned, Owners, Holds
    <2>3. QED BY <1>1, <2>1, <2>2, StepKeepsOwned
<1>2. ASSUME PoolInv, [Next]_vars
      PROVE  [\A e \in Engines :
                /\ engine[e].state = "open" /\ Owners(e) # {}
                /\ engine'[e].state = "open" /\ Owners(e)' = {}
                => \E d \in Dialers : Insert(d) /\ entries[dialer[d].node] = e]_vars
    BY <1>1, <1>2
<1>3. QED BY <1>2, PoolInvariant, PTL DEF Spec, EnginesAreNotForgotten

-------------------------------------------------------------------------------
(* The limit.  A full pool has a least recently used entry, so an insertion   *)
(* into it gives one up.                                                      *)
SizeInv == IsFiniteSet(Pooled) /\ PoolBounded

(* A pool that is not empty has an entry used least recently.                 *)
LEMMA SomeVictim ==
    ASSUME TypeOK, Pooled # {}
    PROVE  \E n \in Pooled : \A m \in Pooled : lastUsed[n] <= lastUsed[m]
<1> DEFINE times == {lastUsed[n] : n \in Pooled}
<1>0. \A n \in Pooled : lastUsed[n] \in Nat
    BY DEF TypeOK, Pooled
<1>1. times \subseteq Nat /\ times # {}
    BY <1>0
<1>2. PICK x \in times : \A y \in times : ~(<<y, x>> \in OpToRel(<, Nat))
    BY <1>1, NatLessThanWellFounded, WFMin
<1>3. \A y \in times : x <= y
    <2>1. \A a, b \in Nat : a < b => <<a, b>> \in OpToRel(<, Nat)
        BY DEF OpToRel
    <2>2. ASSUME NEW y \in times
          PROVE  x <= y
        <3>1. x \in Nat /\ y \in Nat
            BY <1>1
        <3>2. ~(y < x)
            BY <1>2, <2>1, <3>1
        <3>3. QED BY <3>1, <3>2
    <2>3. QED BY <2>2
<1>4. QED BY <1>3

(* Taking entries out keeps the limit.                                        *)
LEMMA FewerStaysBounded ==
    ASSUME SizeInv, Pooled' \subseteq Pooled
    PROVE  SizeInv'
<1>1. IsFiniteSet(Pooled') /\ Cardinality(Pooled') <= Cardinality(Pooled)
    BY FS_Subset DEF SizeInv
<1>2. Cardinality(Pooled) \in Nat /\ Cardinality(Pooled') \in Nat
    BY <1>1, FS_CardinalityType DEF SizeInv
<1>3. QED BY <1>1, <1>2 DEF SizeInv, PoolBounded

(* Inserting evicts for every entry too many.                                 *)
LEMMA InsertStaysBounded ==
    ASSUME TypeOK, SizeInv, NEW d \in Dialers, Insert(d)
    PROVE  SizeInv'
<1> DEFINE node == dialer[d].node
<1>1. PICK S \in IF Victims = {} THEN {{}} ELSE {{v} : v \in Victims} :
        entries' = [n \in NodeIds |-> IF n = node THEN dialer[d].engine
                                     ELSE IF n \in S THEN NoEngine ELSE entries[n]]
    BY DEF Insert
<1>2. Pooled' \subseteq (Pooled \ S) \cup {node}
    BY <1>1 DEF Pooled
<1>3. IsFiniteSet(Pooled) /\ Cardinality(Pooled) \in Nat /\ Cardinality(Pooled) <= MaxActiveEngines
    BY FS_CardinalityType DEF SizeInv, PoolBounded
<1>4. /\ IsFiniteSet(Pooled \ S)
      /\ Cardinality(Pooled \ S) \in Nat
      /\ Cardinality(Pooled \ S) + 1 <= MaxActiveEngines
    <2>1. CASE Cardinality(Pooled) < MaxActiveEngines
        <3>1. S = {}
            BY <1>1, <2>1 DEF Victims
        <3>2. Pooled \ S = Pooled
            BY <3>1
        <3>3. Cardinality(Pooled) + 1 <= MaxActiveEngines
            BY <1>3, <2>1
        <3>4. QED BY <1>3, <3>2, <3>3
    <2>2. CASE ~(Cardinality(Pooled) < MaxActiveEngines)
        <3>1. Pooled # {}
            BY <2>2, FS_EmptySet
        <3>2. Victims # {} /\ Victims \subseteq Pooled
            BY <2>2, <3>1, SomeVictim DEF Victims
        <3>3. PICK v \in Pooled : S = {v}
            BY <1>1, <3>2
        <3>4. IsFiniteSet(Pooled \ {v}) /\ Cardinality(Pooled \ {v}) = Cardinality(Pooled) - 1
            BY <1>3, FS_RemoveElement
        <3>5. Cardinality(Pooled \ {v}) \in Nat
            BY <3>4, FS_CardinalityType
        <3>6. QED BY <1>3, <3>3, <3>4, <3>5
    <2>3. QED BY <2>1, <2>2
<1>5. /\ IsFiniteSet((Pooled \ S) \cup {node})
      /\ Cardinality((Pooled \ S) \cup {node}) <= MaxActiveEngines
      /\ Cardinality((Pooled \ S) \cup {node}) \in Nat
    <2>1. /\ IsFiniteSet((Pooled \ S) \cup {node})
          /\ Cardinality((Pooled \ S) \cup {node}) =
                IF node \in Pooled \ S THEN Cardinality(Pooled \ S) ELSE Cardinality(Pooled \ S) + 1
        BY <1>4, FS_AddElement
    <2>2. QED BY <1>4, <2>1
<1>6. /\ IsFiniteSet(Pooled')
      /\ Cardinality(Pooled') <= Cardinality((Pooled \ S) \cup {node})
    BY <1>2, <1>5, FS_Subset
<1>7. Cardinality(Pooled') \in Nat
    BY <1>6, FS_CardinalityType
<1>8. QED BY <1>5, <1>6, <1>7 DEF SizeInv, PoolBounded

(* However many calls have created engines outside of the lock at once, the   *)
(* map keeps its limit (evictIfNeededLocked).                                 *)
THEOREM MapKeepsLimit == Spec => []PoolBounded
<1>1. Init => SizeInv
    <2>1. Init => Pooled = {}
        BY DEF Init, Pooled
    <2>2. QED BY <2>1, FS_EmptySet DEF SizeInv, PoolBounded
<1>2. TypeOK /\ SizeInv /\ [Next]_vars => SizeInv'
    <2> SUFFICES ASSUME TypeOK, SizeInv, [Next]_vars PROVE SizeInv'
        OBVIOUS
    <2>1. ASSUME NEW d \in Dialers, Insert(d)
          PROVE  SizeInv'
        BY <2>1, InsertStaysBounded
    <2>2. ASSUME NEW d \in Dialers, EngineCall(d), ~Insert(d)
          PROVE  Pooled' \subseteq Pooled
        <3>1. \/ UNCHANGED entries
              \/ entries' = [entries EXCEPT ![dialer[d].node] = NoEngine]
            BY <2>2 DEF EngineCall, Hit, Miss, CloseOld, Create, CreateFails, Return
        <3>2. QED BY <3>1 DEF Pooled, TypeOK
    <2>3. ASSUME NEW S \in SUBSET Pooled, Remove(S)
          PROVE  Pooled' \subseteq Pooled
        BY <2>3 DEF Remove, Pooled
    <2>4. CASE Next
        <3>1. ASSUME NEW d \in Dialers, NEW n \in NodeIds, NEW config \in Configs,
                     Enter(d, n, config)
              PROVE  Pooled' \subseteq Pooled
            BY <3>1 DEF Enter, Pooled
        <3>2. ASSUME NEW e \in Engines, CloseInstance(e)
              PROVE  Pooled' \subseteq Pooled
            BY <3>2 DEF CloseInstance, Pooled
        <3>3. ASSUME (\E n \in NodeIds : CloseNode(n)) \/ CloseIdle \/ Close
              PROVE  Pooled' \subseteq Pooled
            BY <3>3, <2>3 DEF CloseNode, CloseIdle, Close
        <3>4. QED BY <2>1, <2>2, <2>4, <3>1, <3>2, <3>3, FewerStaysBounded DEF Next
    <2>5. CASE UNCHANGED vars
        <3>1. Pooled' \subseteq Pooled
            BY <2>5 DEF vars, Pooled
        <3>2. QED BY <3>1, FewerStaysBounded
    <2>6. QED BY <2>4, <2>5
<1>3. SizeInv => PoolBounded
    BY DEF SizeInv
<1>4. QED BY <1>1, <1>2, <1>3, TypeCorrect, PTL DEF Spec

===============================================================================
