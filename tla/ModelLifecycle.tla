--------------------------- MODULE ModelLifecycle ---------------------------
(***************************************************************************)
(* The models WorkloadRouter serves (src/src/kvwarden/router/router.py):   *)
(* start(), load_model(), unload_model(), evict_model(),                   *)
(* ensure_model_loaded() and stop(), with the engine process of each       *)
(* EngineAdapter (src/src/kvwarden/engines/base.py).                       *)
(*                                                                         *)
(* A coroutine gives up the event loop in adapter.start() (which ends with *)
(* a ready engine, an engine that exited, or a timeout after which it is   *)
(* stopped), in adapter.stop(), and while it waits for a model's load      *)
(* lock; an action runs from one such point to the next.  The server       *)
(* listens from the end of start() to the end of stop(), after which       *)
(* runner.cleanup() cancels the handlers that are still running.           *)
(***************************************************************************)
EXTENDS Integers, FiniteSets

CONSTANTS
    Configured,     \* the model ids of config.models
    Extra,          \* models an embedding program loads with load_model()
    Requests,       \* the calls of ensure_model_loaded()
    ModelOf,        \* the model id each of them asks for
    Main,           \* the coroutine that runs start() and stop()
    None            \* Python's None

Models == Configured \cup Extra
\* load_model() creates one adapter: in start() or in the embedding program it
\* is named by its model, under ensure_model_loaded() by the request.
Loaders == Models \cup Requests
Target(l) == IF l \in Requests THEN ModelOf[l] ELSE l
Unloaders == {Main} \cup Requests

ASSUME FiniteAssumption == IsFiniteSet(Configured) /\ IsFiniteSet(Extra) /\ IsFiniteSet(Requests)
ASSUME ModelOfAssumption == ModelOf \in [Requests -> Models]
ASSUME NamesAssumption ==
    /\ Configured \cap Extra = {}
    /\ Requests \cap Models = {}
    /\ Main \notin Loaders
    /\ None \notin Loaders \cup {Main}

VARIABLES
    main,           \* where start() or stop() is
    pending,        \* the models it still has to load, or to unload
    models,         \* _models: the adapter registered for each model
    known,          \* the keys of _model_configs
    process,        \* the engine process of each adapter
    lock,           \* _load_locks: who holds the lock of each model
    pc,             \* where each load is
    state,          \* the adapter ensure_model_loaded() returned
    unloading,      \* the adapter each coroutine is stopping
    modelsLoaded,   \* the gauge models_loaded
    engineUp        \* the models whose engine_up gauge is 1

registry == <<models, known>>
gauges == <<modelsLoaded, engineUp>>
vars == <<main, pending, registry, process, lock, pc, state, unloading, gauges>>

MaxModels == IF Configured = {} THEN 1 ELSE Cardinality(Configured)
Loaded == {m \in Models : models[m] # None}
FullTooEarly == Cardinality(Loaded) + 1 >= MaxModels
Full == Cardinality(Loaded) >= MaxModels

Init ==
    /\ main = "preloading"
    /\ pending = Configured
    /\ models = [m \in Models |-> None]
    /\ known = Configured
    /\ process = [l \in Loaders |-> "none"]
    /\ lock = [m \in Models |-> None]
    /\ pc = [l \in Loaders |-> "new"]
    /\ state = [r \in Requests |-> None]
    /\ unloading = [u \in Unloaders |-> None]
    /\ modelsLoaded = 0
    /\ engineUp = {}

------------------------------------------------------------------------------
(* load_model(): adapter.start() has been called *)

Engine(l, how) == process' = [process EXCEPT ![l] = how]
BeginLoad(l) == Engine(l, "starting") /\ pc' = [pc EXCEPT ![l] = "loading"]

\* adapter.start() returns; ensure_model_loaded() leaves the lock.
FinishLoad(l) ==
    /\ pc[l] = "loading"
    /\ Engine(l, "up")
    /\ models' = [models EXCEPT ![Target(l)] = l]
    /\ known' = known \cup {Target(l)}
    /\ modelsLoaded' = modelsLoaded + 1
    /\ engineUp' = engineUp \cup {Target(l)}
    /\ IF l \in Requests
         THEN /\ lock' = [lock EXCEPT ![Target(l)] = None]
              /\ state' = [state EXCEPT ![l] = l]
              /\ pc' = [pc EXCEPT ![l] = "serving"]
         ELSE pc' = [pc EXCEPT ![l] = "done"] /\ UNCHANGED <<lock, state>>
    /\ UNCHANGED <<main, pending, unloading>>

\* It raises: the process exited, or was stopped after the timeout.
FailLoadKeepsLock(l) ==
    /\ pc[l] = "loading"
    /\ Engine(l, "dead")
    /\ pc' = [pc EXCEPT ![l] = "failed"]
    /\ UNCHANGED <<main, pending, registry, lock, state, unloading, gauges>>
FailLoad(l) ==
    /\ pc[l] = "loading"
    /\ Engine(l, "dead")
    /\ pc' = [pc EXCEPT ![l] = "failed"]
    /\ lock' = IF l \in Requests THEN [lock EXCEPT ![Target(l)] = None] ELSE lock
    /\ UNCHANGED <<main, pending, registry, state, unloading, gauges>>

(* unload_model(): the model is popped first, the rest follows the stop. *)

Pop(u, m) ==
    /\ models' = [models EXCEPT ![m] = None]
    /\ unloading' = [unloading EXCEPT ![u] = models[m]]
    /\ Engine(models[m], "stopping")

Unloaded(u) ==
    /\ unloading' = [unloading EXCEPT ![u] = None]
    /\ modelsLoaded' = modelsLoaded - 1
    /\ engineUp' = engineUp \ {Target(unloading[u])}

------------------------------------------------------------------------------
(* start(), the embedding program, stop() *)

PreloadInProgress == \E m \in Configured : pc[m] = "loading"

Preload(m) ==
    /\ main = "preloading" /\ m \in pending /\ ~PreloadInProgress
    /\ pending' = pending \ {m}
    /\ BeginLoad(m)
    /\ UNCHANGED <<main, registry, lock, state, unloading, gauges>>

Listen ==
    /\ main = "preloading" /\ pending = {} /\ ~PreloadInProgress
    /\ main' = "serving"
    /\ UNCHANGED <<pending, registry, process, lock, pc, state, unloading, gauges>>

LoadExtra(x) ==
    /\ main = "serving" /\ pc[x] = "new"
    /\ BeginLoad(x)
    /\ UNCHANGED <<main, pending, registry, lock, state, unloading, gauges>>

BeginStop ==
    /\ main = "serving"
    /\ main' = "stopping"
    /\ pending' = Loaded
    /\ UNCHANGED <<registry, process, lock, pc, state, unloading, gauges>>

StopNext(m) ==
    /\ main = "stopping" /\ unloading[Main] = None /\ m \in pending
    /\ pending' = pending \ {m}
    /\ IF models[m] # None THEN Pop(Main, m) ELSE UNCHANGED <<models, unloading, process>>
    /\ UNCHANGED <<main, known, lock, pc, state, gauges>>

StopUnloadedForgetsGauge ==
    /\ unloading[Main] # None
    /\ Engine(unloading[Main], "dead")
    /\ unloading' = [unloading EXCEPT ![Main] = None]
    /\ engineUp' = engineUp \ {Target(unloading[Main])}
    /\ UNCHANGED <<main, pending, registry, lock, pc, state, modelsLoaded>>
StopUnloaded ==
    /\ unloading[Main] # None
    /\ Unloaded(Main)
    /\ Engine(unloading[Main], "dead")
    /\ UNCHANGED <<main, pending, registry, lock, pc, state>>

EndStop ==
    /\ main = "stopping" /\ unloading[Main] = None /\ pending = {}
    /\ main' = "stopped"
    /\ UNCHANGED <<pending, registry, process, lock, pc, state, unloading, gauges>>

------------------------------------------------------------------------------
(* ensure_model_loaded() *)

Arrives(r) == main \in {"serving", "stopping"} /\ pc[r] = "new"
Waiting(m) == {r \in Requests : pc[r] = "locking" /\ ModelOf[r] = m}

\* The caller runs with the lock (asyncio's, fair) of its model.
UnderNoLock(r) ==
    /\ ModelOf[r] \in known
    /\ Arrives(r) \/ pc[r] = "locking"
UnderLock(r) ==
    /\ ModelOf[r] \in known
    /\ lock[ModelOf[r]] = None
    /\ (Arrives(r) /\ Waiting(ModelOf[r]) = {}) \/ pc[r] = "locking"

\* The model is loaded, at the call or under the lock.
Hit(r) ==
    /\ Arrives(r) \/ (pc[r] = "locking" /\ lock[ModelOf[r]] = None)
    /\ models[ModelOf[r]] # None
    /\ state' = [state EXCEPT ![r] = models[ModelOf[r]]]
    /\ pc' = [pc EXCEPT ![r] = "serving"]
    /\ UNCHANGED <<main, pending, registry, process, lock, unloading, gauges>>

UnknownModel(r) ==
    /\ Arrives(r)
    /\ ModelOf[r] \notin known
    /\ pc' = [pc EXCEPT ![r] = "failed"]
    /\ UNCHANGED <<main, pending, registry, process, lock, state, unloading, gauges>>

WaitForLock(r) ==
    /\ Arrives(r)
    /\ ModelOf[r] \in known /\ models[ModelOf[r]] = None
    /\ lock[ModelOf[r]] # None \/ Waiting(ModelOf[r]) # {}
    /\ pc' = [pc EXCEPT ![r] = "locking"]
    /\ UNCHANGED <<main, pending, registry, process, lock, state, unloading, gauges>>

TakeLock(r) == lock' = [lock EXCEPT ![ModelOf[r]] = r]

LoadWithoutRecheck(r) ==
    /\ UnderLock(r) /\ ~Full
    /\ TakeLock(r)
    /\ BeginLoad(r)
    /\ UNCHANGED <<main, pending, registry, state, unloading, gauges>>
Load(r) ==
    /\ UnderLock(r) /\ models[ModelOf[r]] = None /\ ~Full
    /\ TakeLock(r)
    /\ BeginLoad(r)
    /\ UNCHANGED <<main, pending, registry, state, unloading, gauges>>

\* Any model may have the lowest score.
Evict(r, victim) ==
    /\ UnderLock(r) /\ models[ModelOf[r]] = None /\ Full
    /\ victim \in Loaded
    /\ TakeLock(r)
    /\ Pop(r, victim)
    /\ pc' = [pc EXCEPT ![r] = "evicting"]
    /\ UNCHANGED <<main, pending, known, state, gauges>>

\* The victim is stopped, and load_model() begins.  Nobody else can have loaded
\* the model meanwhile (SingleEngine).
Evicted(r) ==
    /\ pc[r] = "evicting"
    /\ Unloaded(r)
    /\ process' = [process EXCEPT ![unloading[r]] = "dead", ![r] = "starting"]
    /\ pc' = [pc EXCEPT ![r] = "loading"]
    /\ UNCHANGED <<main, pending, registry, lock, state>>

Finish(r) ==
    /\ pc[r] = "serving"
    /\ pc' = [pc EXCEPT ![r] = "done"]
    /\ state' = [state EXCEPT ![r] = None]
    /\ UNCHANGED <<main, pending, registry, process, lock, unloading, gauges>>

(***************************************************************************)
(* runner.cleanup() cancels the handler.  CancelledError passes through    *)
(* adapter.start(), whose process nobody stops then, and adapter.stop(),   *)
(* before or after it terminated the process.                              *)
(***************************************************************************)
Cancel(r) ==
    /\ main = "stopped"
    /\ pc[r] \in {"locking", "evicting", "loading", "serving"}
    /\ pc' = [pc EXCEPT ![r] = "cancelled"]
    /\ lock' = [m \in Models |-> IF lock[m] = r THEN None ELSE lock[m]]
    /\ unloading' = [unloading EXCEPT ![r] = None]
    /\ IF pc[r] = "evicting"
         THEN \E how \in {"up", "dead"} : Engine(unloading[r], how)
         ELSE UNCHANGED process
    /\ state' = [state EXCEPT ![r] = None]
    /\ UNCHANGED <<main, pending, registry, gauges>>

------------------------------------------------------------------------------
Ended == {"done", "failed", "cancelled"}
Quiescent ==
    /\ main = "stopped"
    /\ \A r \in Requests : pc[r] \in Ended \cup {"new"}
    /\ \A x \in Extra : pc[x] # "loading"
    /\ UNCHANGED vars

Next ==
    \/ \E l \in Loaders : FinishLoad(l) \/ FailLoad(l)
    \/ \E m \in Configured : Preload(m)
    \/ \E x \in Extra : LoadExtra(x)
    \/ Listen \/ BeginStop \/ StopUnloaded \/ EndStop
    \/ \E m \in Models : StopNext(m)
    \/ \E r \in Requests :
          \/ Hit(r) \/ UnknownModel(r) \/ WaitForLock(r) \/ Load(r)
          \/ (\E m \in Models : Evict(r, m)) \/ Evicted(r)
          \/ Finish(r) \/ Cancel(r)
    \/ Quiescent

Spec == Init /\ [][Next]_vars

(***************************************************************************)
(* adapter.start() and adapter.stop() end, by their timeouts if nothing    *)
(* else; the loop wakes a lock's next waiter.  No request has to arrive,   *)
(* no load has to succeed, and nobody has to call stop().                  *)
(***************************************************************************)
Fairness ==
    /\ \A l \in Loaders : WF_vars(FinishLoad(l) \/ FailLoad(l))
    /\ WF_vars(StopUnloaded \/ EndStop \/ \E m \in Models : StopNext(m))
    /\ \A r \in Requests :
          /\ WF_vars(Evicted(r))
          /\ WF_vars(pc[r] = "locking" /\ (Hit(r) \/ Load(r) \/ \E m \in Models : Evict(r, m)))
FairSpec == Spec /\ Fairness

------------------------------------------------------------------------------
(***************************************************************************)
(* Properties                                                              *)
(***************************************************************************)

Alive(l) == process[l] \in {"starting", "up", "stopping"}
BeingUnloaded == {unloading[u] : u \in Unloaders} \ {None}

(* Types of the state. *)
TypeOK ==
    /\ main \in {"preloading", "serving", "stopping", "stopped"}
    /\ pending \subseteq Models
    /\ models \in [Models -> Loaders \cup {None}]
    /\ known \subseteq Models
    /\ process \in [Loaders -> {"none", "starting", "up", "stopping", "dead"}]
    /\ lock \in [Models -> Requests \cup {None}]
    /\ pc \in [Loaders -> {"new", "locking", "evicting", "loading", "serving"} \cup Ended]
    /\ state \in [Requests -> Loaders \cup {None}]
    /\ unloading \in [Unloaders -> Loaders \cup {None}]
    /\ modelsLoaded \in Int
    /\ engineUp \subseteq Models

(* No engine process is lost: until stop() returns, each one is being      *)
(* started by its load, or registered, or being stopped by the one         *)
(* coroutine that popped it -- over concurrent loads, evictions, failures  *)
(* and the unloading of all models.                                        *)
EveryEngineOwned ==
    /\ TypeOK
    /\ main # "stopped" =>
        /\ \A l \in Loaders :
              Alive(l) => \/ pc[l] = "loading" /\ process[l] = "starting"
                          \/ models[Target(l)] = l /\ process[l] = "up"
                          \/ l \in BeingUnloaded /\ process[l] = "stopping"
        /\ \A u, v \in Unloaders :
              u # v /\ unloading[u] # None => unloading[u] # unloading[v]

(* The per-model load lock: however many requests find a model missing, at *)
(* most one engine for it is starting or ready at a time, and none is      *)
(* started while one is registered.                                        *)
SingleEngine ==
    main # "stopped" =>
        \A k, l \in Loaders :
            (/\ process[k] \in {"starting", "up"} /\ process[l] \in {"starting", "up"}
             /\ Target(k) = Target(l))
              => k = l

(* While the server serves its configured models only, no model is ever    *)
(* evicted: a request's engine is the registered one until the request     *)
(* ends or stop() begins.                                                  *)
ServedByRegistered ==
    main \in {"preloading", "serving"} /\ known = Configured =>
        /\ BeingUnloaded = {}
        /\ \A r \in Requests :
              pc[r] = "serving" =>
                  state[r] # None /\ models[ModelOf[r]] = state[r] /\ process[state[r]] = "up"

(* Until stop() returns, models_loaded counts the models registered and    *)
(* those still being stopped, and engine_up is 1 of no other model.        *)
GaugesAccounted ==
    main # "stopped" =>
        /\ modelsLoaded = Cardinality(Loaded) + Cardinality(BeingUnloaded)
        /\ engineUp \subseteq Loaded \cup {Target(l) : l \in BeingUnloaded}

(* Every call that waits for a load lock goes on, and stop() returns.      *)
CallsReturn ==
    /\ \A r \in Requests : pc[r] = "locking" ~> pc[r] # "locking"
    /\ main = "stopping" ~> main = "stopped"

(* router.py:274 "Stop all queue workers and engine subprocesses.": when   *)
(* stop() returns, no engine runs.  The code violates it.                  *)
StopStopsEngines == main = "stopped" => \A l \in Loaders : ~Alive(l)
==============================================================================
