--------------------------- MODULE LifecycleProofs ---------------------------
(***************************************************************************)
(* Theorems about the model lifecycle, for every set of configured and     *)
(* extra models and every number of requests.                              *)
(***************************************************************************)
EXTENDS ModelLifecycle, FiniteSetTheorems, TLAPS

Loading(l) == pc[l] = "loading"
Locking(r) == pc[r] \in {"loading", "evicting"}

\* The process of an adapter follows the coroutine or the table that owns it.
Owners ==
    /\ \A l \in Loaders :
          /\ process[l] = "starting" <=> Loading(l)
          /\ process[l] = "up" <=> models[Target(l)] = l
          /\ process[l] = "stopping" <=> \E u \in Unloaders : unloading[u] = l
          /\ pc[l] \in {"new", "locking", "evicting"} => process[l] = "none"
    /\ \A m \in Models : models[m] # None => Target(models[m]) = m
    /\ \A u, v \in Unloaders : u # v /\ unloading[u] # None => unloading[u] # unloading[v]
    /\ \A r \in Requests : unloading[r] # None <=> pc[r] = "evicting"

\* Who evicts or loads under ensure_model_loaded() has the lock of a model that
\* is known and not loaded.
Locks ==
    /\ \A r \in Requests : Locking(r) <=> lock[ModelOf[r]] = r
    /\ \A r \in Requests : Locking(r) => models[ModelOf[r]] = None
    /\ \A r \in Requests : Locking(r) \/ pc[r] = "locking" => ModelOf[r] \in known

\* A model whose first load is not over is out of the requests' reach: it is
\* preloaded before the server listens, or no request knows it.
Untried ==
    /\ \A m \in Models : pc[m] \in {"new", "loading"} =>
          models[m] = None /\ \A r \in Requests : ModelOf[r] = m => pc[r] \in {"new", "failed"}
    /\ \A m \in Configured : pc[m] \in {"new", "loading"} => main = "preloading"
    /\ \A x \in Extra : pc[x] \in {"new", "loading"} => x \notin known
    /\ main = "preloading" => /\ \A r \in Requests : pc[r] = "new"
                              /\ \A m \in Configured : m \in pending <=> pc[m] = "new"

Running == main # "stopped"
IInv == TypeOK /\ (Running => Owners /\ Locks /\ Untried)

(* The names of loaders, and the model each of them loads. *)
LEMMA Names ==
    /\ \A l \in Loaders : Target(l) \in Models /\ l # None
    /\ \A r \in Requests : r \in Loaders /\ r \in Unloaders /\ Target(r) = ModelOf[r]
    /\ \A m \in Models : m \in Loaders /\ m \notin Requests /\ Target(m) = m
    /\ \A r \in Requests : ModelOf[r] \in Models /\ r # Main /\ r # None
    /\ Main \in Unloaders /\ None \notin Loaders
BY ModelOfAssumption, NamesAssumption DEF Loaders, Unloaders, Target, Models

(* Nothing is loaded when start() is called. *)
LEMMA InitOwners == Init => IInv
<1> SUFFICES ASSUME Init PROVE IInv OBVIOUS
<1> USE DEF Init
<1>1. TypeOK BY Names, NamesAssumption DEF TypeOK, Models, Ended
<1>2. Owners BY Names DEF Owners, Loading
<1>3. Locks BY Names, ModelOfAssumption DEF Locks, Locking
<1>4. Untried BY Names, NamesAssumption DEF Untried, Models
<1>5. QED BY <1>1, <1>2, <1>3, <1>4 DEF IInv

(* Types are kept by the ends of a load. *)
LEMMA LoadTypes ==
    ASSUME TypeOK, NEW l \in Loaders, FinishLoad(l) \/ FailLoad(l)
    PROVE  TypeOK'
<1> USE Names DEF TypeOK, Ended
<1>1. CASE FinishLoad(l) BY <1>1 DEF FinishLoad, Engine
<1>2. CASE FailLoad(l) BY <1>2 DEF FailLoad, Engine, registry, gauges
<1>3. QED BY <1>1, <1>2

(* Types are kept by start(), the embedding program and stop(). *)
LEMMA MainTypes ==
    ASSUME TypeOK,
           \/ \E m \in Configured : Preload(m)
           \/ \E x \in Extra : LoadExtra(x)
           \/ Listen \/ BeginStop \/ StopUnloaded \/ EndStop
           \/ \E m \in Models : StopNext(m)
    PROVE  TypeOK'
<1> USE Names DEF TypeOK, registry, gauges
<1>1. ASSUME NEW m \in Configured, Preload(m) PROVE TypeOK'
  <2>1. m \in Loaders BY DEF Models
  <2>2. QED BY <1>1, <2>1 DEF Preload, BeginLoad, Engine
<1>2. ASSUME NEW x \in Extra, LoadExtra(x) PROVE TypeOK'
  <2>1. x \in Loaders BY DEF Models
  <2>2. QED BY <1>2, <2>1 DEF LoadExtra, BeginLoad, Engine
<1>3. CASE Listen \/ EndStop BY <1>3 DEF Listen, EndStop
<1>4. CASE BeginStop BY <1>4 DEF BeginStop, Loaded
<1>5. CASE StopUnloaded BY <1>5 DEF StopUnloaded, Unloaded, Engine
<1>6. ASSUME NEW m \in Models, StopNext(m) PROVE TypeOK'
  <2>1. CASE models[m] # None BY <1>6, <2>1 DEF StopNext, Pop, Engine
  <2>2. CASE models[m] = None BY <1>6, <2>2 DEF StopNext
  <2>3. QED BY <2>1, <2>2
<1>7. QED BY <1>1, <1>2, <1>3, <1>4, <1>5, <1>6

(* Types are kept by the handlers. *)
LEMMA RequestTypes ==
    ASSUME TypeOK, NEW r \in Requests,
           \/ Hit(r) \/ UnknownModel(r) \/ WaitForLock(r) \/ Load(r)
           \/ (\E m \in Models : Evict(r, m)) \/ Evicted(r) \/ Finish(r) \/ Cancel(r)
    PROVE  TypeOK'
<1> USE Names DEF TypeOK, registry, gauges, Ended
<1>1. CASE Hit(r) BY <1>1 DEF Hit
<1>2. CASE UnknownModel(r) BY <1>2 DEF UnknownModel
<1>3. CASE WaitForLock(r) BY <1>3 DEF WaitForLock
<1>4. CASE Load(r) BY <1>4 DEF Load, TakeLock, BeginLoad, Engine
<1>5. ASSUME NEW m \in Models, Evict(r, m) PROVE TypeOK'
  BY <1>5 DEF Evict, TakeLock, Pop, Engine, Loaded
<1>6. CASE Evicted(r) BY <1>6 DEF Evicted, Unloaded
<1>7. CASE Finish(r) BY <1>7 DEF Finish
<1>8. CASE Cancel(r)
  <2>1. process' \in [Loaders -> {"none", "starting", "up", "stopping", "dead"}]
    BY <1>8 DEF Cancel, Engine
  <2>2. QED BY <1>8, <2>1 DEF Cancel
<1>9. QED BY <1>1, <1>2, <1>3, <1>4, <1>5, <1>6, <1>7, <1>8

(* The state is well typed in every step. *)
LEMMA TypeStep == TypeOK /\ [Next]_vars => TypeOK'
<1> SUFFICES ASSUME TypeOK, [Next]_vars PROVE TypeOK' OBVIOUS
<1>1. CASE Quiescent \/ UNCHANGED vars
  BY <1>1 DEF Quiescent, vars, registry, gauges, TypeOK
<1>2. QED BY <1>1, LoadTypes, MainTypes, RequestTypes DEF Next

(* The model a load is for is not registered, and no other engine for it is *)
(* starting or up.                                                         *)
LEMMA OnlyLoad ==
    ASSUME TypeOK, Owners, Locks, Untried, NEW l \in Loaders, Loading(l)
    PROVE  /\ models[Target(l)] = None
           /\ \A k \in Loaders : k # l /\ Target(k) = Target(l)
                                    => process[k] \notin {"starting", "up"}
<1>1. models[Target(l)] = None
  <2>1. CASE l \in Requests BY <2>1, Names DEF Locks, Locking, Loading
  <2>2. CASE l \in Models BY <2>2, Names DEF Untried, Loading
  <2>3. QED BY <2>1, <2>2 DEF Loaders
<1>2. ASSUME NEW k \in Loaders, k # l, Target(k) = Target(l)
      PROVE  process[k] \notin {"starting", "up"}
  <2>1. process[k] # "up" BY <1>1, <1>2, Names DEF Owners
  <2>2. ~Loading(k)
    <3>1. CASE k \in Requests /\ l \in Requests
      BY <1>2, <3>1, Names DEF Locks, Locking, Loading
    <3>2. CASE k \in Models /\ l \in Requests
      BY <1>2, <3>2, Names DEF Untried, Loading
    <3>3. CASE k \in Requests /\ l \in Models
      BY <1>2, <3>3, Names DEF Untried, Loading
    <3>4. CASE k \in Models /\ l \in Models BY <1>2, <3>4, Names
    <3>5. QED BY <3>1, <3>2, <3>3, <3>4 DEF Loaders
  <2>3. process[k] # "starting" BY <2>2 DEF Owners
  <2>4. QED BY <2>1, <2>3
<1>3. QED BY <1>1, <1>2

(* A load that ends well registers the engine. *)
LEMMA FinishLoadOwners ==
    ASSUME TypeOK, Owners, Locks, Untried, NEW l \in Loaders, FinishLoad(l)
    PROVE  Owners' /\ Locks' /\ Untried'
<1> DEFINE T == Target(l)
<1>1. /\ Loading(l) /\ T \in Models /\ models[T] = None
      /\ \A k \in Loaders : k # l /\ Target(k) = T => process[k] \notin {"starting", "up"}
  BY OnlyLoad, Names DEF FinishLoad, Loading
<1>2. /\ process' = [process EXCEPT ![l] = "up"] /\ models' = [models EXCEPT ![T] = l]
      /\ known' = known \cup {T} /\ UNCHANGED <<main, pending, unloading>>
  BY DEF FinishLoad, Engine
<1>3. /\ \A k \in Loaders : k # l => pc'[k] = pc[k]
      /\ pc'[l] = IF l \in Requests THEN "serving" ELSE "done"
  BY Names DEF FinishLoad, TypeOK
<1>4. \A r \in Requests : lock'[ModelOf[r]] = IF l \in Requests /\ ModelOf[r] = T
                                                THEN None ELSE lock[ModelOf[r]]
  BY Names DEF FinishLoad, TypeOK
<1>5. Owners'
  <2>1. ASSUME NEW k \in Loaders
        PROVE  /\ process'[k] = "starting" <=> Loading(k)'
               /\ process'[k] = "up" <=> models'[Target(k)] = k
               /\ process'[k] = "stopping" <=> \E u \in Unloaders : unloading'[u] = k
               /\ pc'[k] \in {"new", "locking", "evicting"} => process'[k] = "none"
    <3>1. CASE k = l BY <1>1, <1>2, <1>3, <3>1, Names DEF TypeOK, Owners, Loading
    <3>2. CASE k # l
      <4>1. process'[k] = process[k] /\ pc'[k] = pc[k] BY <1>2, <1>3, <3>2 DEF TypeOK
      <4>2. models'[Target(k)] = k <=> models[Target(k)] = k
        BY <1>1, <1>2, <3>2, Names DEF TypeOK
      <4>3. QED BY <1>2, <4>1, <4>2 DEF Owners, Loading
    <3>3. QED BY <3>1, <3>2
  <2>2. \A m \in Models : models'[m] # None => Target(models'[m]) = m
    BY <1>1, <1>2 DEF TypeOK, Owners
  <2>3. \A r \in Requests : unloading'[r] # None <=> pc'[r] = "evicting"
    BY <1>1, <1>2, <1>3, Names DEF Owners, Loading
  <2>4. QED BY <1>2, <2>1, <2>2, <2>3 DEF Owners
<1>6. Locks'
  <2>1. ASSUME NEW r \in Requests
        PROVE  /\ Locking(r)' <=> lock'[ModelOf[r]] = r
               /\ Locking(r)' => models'[ModelOf[r]] = None
               /\ Locking(r)' \/ pc'[r] = "locking" => ModelOf[r] \in known'
    <3>1. CASE r = l BY <1>1, <1>3, <1>4, <3>1, Names DEF Locking
    <3>2. CASE r # l
      <4>1. pc'[r] = pc[r] BY <1>3, <3>2, Names
      <4>2. ModelOf[r] = T => ~Locking(r)
        <5>1. CASE l \in Requests
          BY <1>1, <3>2, <5>1, Names DEF Locks, Locking, Loading
        <5>2. CASE l \in Models
          BY <1>1, <5>2, Names DEF Untried, Locking, Loading
        <5>3. QED BY <5>1, <5>2 DEF Loaders
      <4>3. lock'[ModelOf[r]] = r <=> lock[ModelOf[r]] = r
        BY <1>4, <4>2, Names DEF Locks
      <4>4. ModelOf[r] # T => models'[ModelOf[r]] = models[ModelOf[r]]
        BY <1>2, Names DEF TypeOK
      <4>5. QED BY <1>2, <4>1, <4>2, <4>3, <4>4 DEF Locks, Locking
    <3>3. QED BY <3>1, <3>2
  <2>2. QED BY <2>1 DEF Locks
<1>7. Untried'
  <2>1. ASSUME NEW m \in Models, pc'[m] \in {"new", "loading"}
        PROVE  /\ m # T /\ m # l /\ pc'[m] = pc[m] /\ models'[m] = models[m]
               /\ m \in known' => m \in known
    <3>1. m # l /\ pc'[m] = pc[m] BY <1>3, <2>1, Names
    <3>2. m # T
      <4>1. CASE l \in Requests BY <1>1, <2>1, <3>1, <4>1, Names DEF Untried, Loading
      <4>2. CASE l \in Models BY <3>1, <4>2, Names
      <4>3. QED BY <4>1, <4>2 DEF Loaders
    <3>3. QED BY <1>1, <1>2, <3>1, <3>2 DEF TypeOK
  <2>2. ASSUME NEW m \in Models, pc'[m] \in {"new", "loading"},
               NEW r \in Requests, ModelOf[r] = m
        PROVE  pc'[r] \in {"new", "failed"}
    <3>1. r # l BY <2>1, <2>2, Names
    <3>2. QED BY <1>3, <2>1, <2>2, <3>1, Names DEF Untried
  <2>3. ASSUME main = "preloading" PROVE \A r \in Requests : pc'[r] = "new"
    BY <1>1, <1>3, <2>3, Names DEF Untried, Loading
  <2>4. ASSUME main = "preloading", NEW m \in Configured PROVE m \in pending <=> pc'[m] = "new"
    <3>1. m \in Loaders /\ m \notin Requests BY Names DEF Models
    <3>2. QED BY <1>1, <1>3, <2>4, <3>1 DEF Untried, Loading
  <2>5. Configured \subseteq Models /\ Extra \subseteq Models BY DEF Models
  <2>6. QED BY <1>2, <2>1, <2>2, <2>3, <2>4, <2>5 DEF Untried
<1>8. QED BY <1>5, <1>6, <1>7

(* A load that fails leaves nothing behind. *)
LEMMA FailLoadOwners ==
    ASSUME TypeOK, Owners, Locks, Untried, NEW l \in Loaders, FailLoad(l)
    PROVE  Owners' /\ Locks' /\ Untried'
<1>1. /\ Loading(l) /\ process' = [process EXCEPT ![l] = "dead"]
      /\ pc' = [pc EXCEPT ![l] = "failed"]
      /\ UNCHANGED <<main, pending, models, known, unloading>>
  BY DEF FailLoad, Loading, Engine, registry
<1>2. \A r \in Requests : lock'[ModelOf[r]] = IF l \in Requests /\ ModelOf[r] = Target(l)
                                                THEN None ELSE lock[ModelOf[r]]
  BY Names DEF FailLoad, TypeOK
<1>3. \A k \in Loaders : /\ pc'[k] = IF k = l THEN "failed" ELSE pc[k]
                         /\ process'[k] = IF k = l THEN "dead" ELSE process[k]
  BY <1>1 DEF TypeOK
<1>4. Owners'
  <2>1. process[l] = "starting" BY <1>1 DEF Owners
  <2>2. QED BY <1>1, <1>3, <2>1, Names DEF Owners, Loading
<1>5. Locks'
  <2>1. ASSUME NEW r \in Requests
        PROVE  Locking(r)' <=> lock'[ModelOf[r]] = r
    <3>1. CASE r = l BY <1>2, <1>3, <3>1, Names DEF Locking
    <3>2. CASE r # l BY <1>1, <1>2, <1>3, <3>2, Names DEF Locks, Locking, Loading
    <3>3. QED BY <3>1, <3>2
  <2>2. \A r \in Requests : pc'[r] = pc[r] \/ pc'[r] = "failed" BY <1>3, Names
  <2>3. QED BY <1>1, <2>1, <2>2 DEF Locks, Locking
<1>6. Untried'
  <2>1. \A m \in Models : pc'[m] \in {"new", "loading"} => pc'[m] = pc[m] BY <1>3, Names
  <2>2. \A r \in Requests : pc[r] \in {"new", "failed"} => pc'[r] \in {"new", "failed"}
    BY <1>3, Names
  <2>3. main = "preloading" => l \notin Requests BY <1>1 DEF Untried, Loading
  <2>4. \A m \in Configured : pc'[m] = "new" <=> pc[m] = "new"
    BY <1>1, <1>3, Names DEF Loading, Models
  <2>5. Configured \subseteq Models /\ Extra \subseteq Models BY DEF Models
  <2>6. main = "preloading" => \A r \in Requests : pc'[r] = pc[r] BY <1>3, <2>3, Names
  <2>7. QED BY <1>1, <2>1, <2>2, <2>4, <2>5, <2>6 DEF Untried
<1>7. QED BY <1>4, <1>5, <1>6

(* The first load of a model begins. *)
LEMMA FirstLoadOwners ==
    ASSUME TypeOK, Owners, Locks, Untried, NEW m \in Models,
           pc[m] = "new", BeginLoad(m),
           UNCHANGED <<main, models, known, lock, unloading>>,
           main = "preloading" => pending' = pending \ {m}
    PROVE  Owners' /\ Locks' /\ Untried'
<1>1. \A k \in Loaders : /\ pc'[k] = IF k = m THEN "loading" ELSE pc[k]
                         /\ process'[k] = IF k = m THEN "starting" ELSE process[k]
  BY Names DEF BeginLoad, Engine, TypeOK
<1>2. process[m] = "none" /\ models[m] = None BY Names DEF Owners, Untried
<1>3. Owners' BY <1>1, <1>2, Names DEF Owners, Loading
<1>4. \A r \in Requests : pc'[r] = pc[r] BY <1>1, Names
<1>5. Locks' BY <1>4 DEF Locks, Locking
<1>6. \A k \in Models : pc'[k] = IF k = m THEN "loading" ELSE pc[k] BY <1>1, Names
<1>7. Configured \subseteq Models /\ Extra \subseteq Models BY DEF Models
<1>8. Untried' BY <1>4, <1>6, <1>7 DEF Untried
<1>9. QED BY <1>3, <1>5, <1>8

(* start() has loaded what it could, or stop() begins or ends. *)
LEMMA MainOwners ==
    ASSUME TypeOK, Owners, Locks, Untried, Listen \/ BeginStop
    PROVE  Owners' /\ Locks' /\ Untried'
<1>1. /\ UNCHANGED <<models, known, process, lock, pc, unloading>>
      /\ main' # "preloading"
      /\ main = "preloading" => pending = {} /\ ~PreloadInProgress
  BY DEF Listen, BeginStop, registry
<1>2. Owners' /\ Locks' BY <1>1 DEF Owners, Locks, Locking, Loading
<1>3. \A m \in Configured : pc[m] \notin {"new", "loading"}
  BY <1>1 DEF Untried, PreloadInProgress
<1>4. Untried' BY <1>1, <1>3 DEF Untried
<1>5. QED BY <1>2, <1>4

(* unload_model() takes a registered engine over. *)
LEMMA PopOwners ==
    ASSUME TypeOK, Owners, NEW u \in Unloaders, NEW m \in Models,
           models[m] # None, unloading[u] = None, Pop(u, m)
    PROVE  /\ \A l \in Loaders :
                 /\ process'[l] = "starting" <=> process[l] = "starting"
                 /\ process'[l] = "none" <=> process[l] = "none"
                 /\ process'[l] = "up" <=> models'[Target(l)] = l
                 /\ process'[l] = "stopping" <=> \E v \in Unloaders : unloading'[v] = l
           /\ \A k \in Models : models'[k] = IF k = m THEN None ELSE models[k]
           /\ \A k \in Models : models'[k] # None => Target(models'[k]) = k
           /\ \A v, w \in Unloaders :
                 v # w /\ unloading'[v] # None => unloading'[v] # unloading'[w]
           /\ \A v \in Unloaders : v # u => unloading'[v] = unloading[v]
           /\ unloading'[u] # None
<1> DEFINE a == models[m]
<1>1. /\ a \in Loaders /\ Target(a) = m /\ process[a] = "up" /\ a # None
      /\ \A v \in Unloaders : unloading[v] # a
  BY Names DEF TypeOK, Owners
<1>2. /\ \A k \in Models : models'[k] = IF k = m THEN None ELSE models[k]
      /\ \A v \in Unloaders : unloading'[v] = IF v = u THEN a ELSE unloading[v]
      /\ \A l \in Loaders : process'[l] = IF l = a THEN "stopping" ELSE process[l]
  BY <1>1 DEF Pop, Engine, TypeOK
<1> HIDE DEF a
<1>3. ASSUME NEW l \in Loaders
      PROVE  /\ process'[l] = "up" <=> models'[Target(l)] = l
             /\ process'[l] = "stopping" <=> \E v \in Unloaders : unloading'[v] = l
  <2>1. CASE l = a BY <1>1, <1>2, <2>1, Names
  <2>2. CASE l # a
    <3>1. models[m] # l BY <2>2 DEF a
    <3>2. process'[l] = "up" <=> models'[Target(l)] = l
      BY <1>2, <2>2, <3>1, Names DEF Owners
    <3>3. process'[l] = "stopping" <=> \E v \in Unloaders : unloading'[v] = l
      BY <1>2, <2>2, Names DEF Owners
    <3>4. QED BY <3>2, <3>3
  <2>3. QED BY <2>1, <2>2
<1>4. \A v, w \in Unloaders :
         v # w /\ unloading'[v] # None => unloading'[v] # unloading'[w]
  BY <1>1, <1>2 DEF Owners
<1>5. \A k \in Models : models'[k] # None => Target(models'[k]) = k
  BY <1>2 DEF Owners
<1>6. QED BY <1>1, <1>2, <1>3, <1>4, <1>5

(* stop() takes the next model. *)
LEMMA StopNextOwners ==
    ASSUME TypeOK, Owners, Locks, Untried, NEW m \in Models, StopNext(m)
    PROVE  Owners' /\ Locks' /\ Untried'
<1>1. /\ main = "stopping" /\ UNCHANGED <<main, known, lock, pc>>
      /\ unloading[Main] = None
  BY DEF StopNext
<1>2. CASE models[m] = None
  <2>1. UNCHANGED <<models, unloading, process>> BY <1>2 DEF StopNext
  <2>2. QED BY <1>1, <2>1 DEF Owners, Locks, Untried, Locking, Loading
<1>3. CASE models[m] # None
  <2>1. Pop(Main, m) BY <1>3 DEF StopNext
  <2>2. /\ \A l \in Loaders :
              /\ process'[l] = "starting" <=> process[l] = "starting"
              /\ process'[l] = "none" <=> process[l] = "none"
              /\ process'[l] = "up" <=> models'[Target(l)] = l
              /\ process'[l] = "stopping" <=> \E v \in Unloaders : unloading'[v] = l
        /\ \A k \in Models : models'[k] = IF k = m THEN None ELSE models[k]
        /\ \A k \in Models : models'[k] # None => Target(models'[k]) = k
        /\ \A v, w \in Unloaders :
              v # w /\ unloading'[v] # None => unloading'[v] # unloading'[w]
        /\ \A v \in Unloaders : v # Main => unloading'[v] = unloading[v]
    BY <1>1, <1>3, <2>1, PopOwners, Names
  <2>3. Owners' BY <1>1, <2>2, Names DEF Owners, Loading
  <2>4. Locks' BY <1>1, <2>2, Names DEF Locks, Locking
  <2>5. Untried' BY <1>1, <2>2 DEF Untried
  <2>6. QED BY <2>3, <2>4, <2>5
<1>4. QED BY <1>2, <1>3

(* stop() has stopped an engine. *)
LEMMA StopUnloadedOwners ==
    ASSUME TypeOK, Owners, Locks, Untried, StopUnloaded
    PROVE  Owners' /\ Locks' /\ Untried'
<1> DEFINE a == unloading[Main]
<1>1. /\ a \in Loaders /\ process[a] = "stopping"
      /\ \A v \in Unloaders : v # Main => unloading[v] # a
  BY Names DEF StopUnloaded, TypeOK, Owners
<1>2. /\ UNCHANGED <<main, pending, models, known, lock, pc>>
      /\ \A v \in Unloaders : unloading'[v] = IF v = Main THEN None ELSE unloading[v]
      /\ \A l \in Loaders : process'[l] = IF l = a THEN "dead" ELSE process[l]
  BY <1>1, Names DEF StopUnloaded, Unloaded, Engine, registry, TypeOK
<1>3. \A v \in Unloaders : unloading[v] = a <=> v = Main BY <1>1
<1> HIDE DEF a
<1>4. Owners'
  <2>1. ASSUME NEW l \in Loaders
        PROVE  process'[l] = "stopping" <=> \E u \in Unloaders : unloading'[u] = l
    BY <1>1, <1>2, <1>3, Names DEF Owners
  <2>2. QED BY <1>1, <1>2, <2>1, Names DEF Owners, Loading
<1>5. Locks' /\ Untried' BY <1>2 DEF Locks, Untried, Locking
<1>6. QED BY <1>4, <1>5

(* A known model is beyond its first load once the server listens. *)
LEMMA KnownIsTried ==
    ASSUME Untried, NEW m \in Models, m \in known, main # "preloading"
    PROVE  pc[m] \notin {"new", "loading"}
BY DEF Untried, Models

(* A handler goes on and touches nothing but its own place. *)
LEMMA HandlerOwners ==
    ASSUME TypeOK, Owners, Locks, Untried, NEW r \in Requests,
           Hit(r) \/ UnknownModel(r) \/ WaitForLock(r) \/ Finish(r)
    PROVE  Owners' /\ Locks' /\ Untried'
<1>1. /\ UNCHANGED <<main, pending, models, known, process, lock, unloading>>
      /\ pc[r] \in {"new", "locking", "serving"}
      /\ \E to \in {"locking", "failed", "serving", "done"} : pc' = [pc EXCEPT ![r] = to]
  BY DEF Hit, UnknownModel, WaitForLock, Finish, Arrives, registry
<1>2. \A l \in Loaders : l # r => pc'[l] = pc[l] BY <1>1 DEF TypeOK
<1>3. pc'[r] \in {"locking", "failed", "serving", "done"} BY <1>1, Names DEF TypeOK
<1>4. pc'[r] = "locking" => pc[r] = "new" /\ ModelOf[r] \in known
  BY Names DEF TypeOK, Hit, UnknownModel, WaitForLock, Finish, Arrives
<1>5. main # "preloading" BY <1>1 DEF Untried, Hit, UnknownModel, WaitForLock, Finish, Arrives
<1>6. Owners' BY <1>1, <1>2, <1>3, <1>4, Names DEF Owners, Loading
<1>7. Locks' BY <1>1, <1>2, <1>3, <1>4, Names DEF Locks, Locking
<1>8. Untried'
  <2>1. pc'[r] # "failed" => pc[ModelOf[r]] \notin {"new", "loading"}
    <3>1. CASE Hit(r) BY <3>1, Names DEF Hit, Untried
    <3>2. CASE UnknownModel(r) BY <3>2, Names DEF UnknownModel, TypeOK
    <3>3. CASE WaitForLock(r) BY <3>3, <1>5, KnownIsTried, Names DEF WaitForLock
    <3>4. CASE Finish(r) BY <3>4, Names DEF Finish, Untried
    <3>5. QED BY <3>1, <3>2, <3>3, <3>4
  <2>2. \A m \in Models : pc'[m] = pc[m] BY <1>2, Names
  <2>3. ASSUME NEW m \in Models, pc[m] \in {"new", "loading"}, NEW q \in Requests, ModelOf[q] = m
        PROVE  pc'[q] \in {"new", "failed"}
    <3>1. CASE q = r BY <1>3, <2>1, <2>3, <3>1
    <3>2. CASE q # r BY <1>2, <2>3, <3>2, Names DEF Untried
    <3>3. QED BY <3>1, <3>2
  <2>4. Configured \subseteq Models /\ Extra \subseteq Models BY DEF Models
  <2>5. QED BY <1>1, <1>5, <2>2, <2>3, <2>4 DEF Untried
<1>9. QED BY <1>6, <1>7, <1>8

(* A handler takes the lock of a missing model and loads, or evicts first. *)
LEMMA LockedLocks ==
    ASSUME TypeOK, Owners, Locks, Untried, NEW r \in Requests,
           UnderLock(r), TakeLock(r), models[ModelOf[r]] = None,
           NEW to \in {"loading", "evicting"}, pc' = [pc EXCEPT ![r] = to],
           \A m \in Models : models[m] = None => models'[m] = None,
           UNCHANGED <<main, pending, known>>
    PROVE  /\ Locks' /\ Untried'
           /\ pc[r] \in {"new", "locking"} /\ pc'[r] = to
           /\ \A l \in Loaders : l # r => pc'[l] = pc[l]
<1>1. /\ pc[r] \in {"new", "locking"} /\ ModelOf[r] \in known
      /\ lock[ModelOf[r]] = None /\ main # "preloading"
  BY DEF UnderLock, Arrives, Untried
<1>2. pc'[r] = to /\ \A l \in Loaders : l # r => pc'[l] = pc[l] BY Names DEF TypeOK
<1>3. \A q \in Requests : lock'[ModelOf[q]] = IF ModelOf[q] = ModelOf[r] THEN r
                                                ELSE lock[ModelOf[q]]
  BY Names DEF TakeLock, TypeOK
<1>4. Locks'
  <2>1. \A q \in Requests : ModelOf[q] = ModelOf[r] => ~Locking(q)
    BY <1>1, Names DEF Locks
  <2>2. ASSUME NEW q \in Requests
        PROVE  /\ Locking(q)' <=> lock'[ModelOf[q]] = q
               /\ Locking(q)' => models'[ModelOf[q]] = None
               /\ Locking(q)' \/ pc'[q] = "locking" => ModelOf[q] \in known
    <3>1. CASE q = r BY <1>1, <1>2, <1>3, <3>1, Names DEF Locking
    <3>2. CASE q # r
      <4>1. pc'[q] = pc[q] BY <1>2, <3>2, Names
      <4>2. lock'[ModelOf[q]] = q <=> lock[ModelOf[q]] = q
        BY <1>1, <1>3, <2>1, <3>2, Names
      <4>3. QED BY <4>1, <4>2, Names DEF Locks, Locking
    <3>3. QED BY <3>1, <3>2
  <2>3. QED BY <2>2 DEF Locks
<1>5. Untried'
  <2>1. pc[ModelOf[r]] \notin {"new", "loading"} BY <1>1, KnownIsTried, Names
  <2>2. \A m \in Models : pc'[m] = pc[m] BY <1>2, Names
  <2>3. ASSUME NEW m \in Models, pc[m] \in {"new", "loading"}, NEW q \in Requests, ModelOf[q] = m
        PROVE  pc'[q] \in {"new", "failed"}
    BY <1>2, <2>1, <2>3, Names DEF Untried
  <2>4. Configured \subseteq Models /\ Extra \subseteq Models BY DEF Models
  <2>5. QED BY <1>1, <2>2, <2>3, <2>4 DEF Untried
<1>6. QED BY <1>1, <1>2, <1>4, <1>5

(* A handler begins to load. *)
LEMMA BeginLoadOwners ==
    ASSUME TypeOK, Owners, Locks, Untried, NEW r \in Requests, Load(r)
    PROVE  Owners' /\ Locks' /\ Untried'
<1>1. /\ UnderLock(r) /\ TakeLock(r) /\ models[ModelOf[r]] = None
      /\ pc' = [pc EXCEPT ![r] = "loading"] /\ process' = [process EXCEPT ![r] = "starting"]
      /\ UNCHANGED <<main, pending, models, known, unloading>>
  BY DEF Load, BeginLoad, Engine, registry
<1>2. /\ Locks' /\ Untried' /\ pc[r] \in {"new", "locking"} /\ pc'[r] = "loading"
      /\ \A l \in Loaders : l # r => pc'[l] = pc[l]
  BY <1>1, LockedLocks
<1>3. \A l \in Loaders : process'[l] = IF l = r THEN "starting" ELSE process[l]
  BY <1>1 DEF TypeOK
<1>4. process[r] = "none" BY <1>2, Names DEF Owners
<1>5. Owners' BY <1>1, <1>2, <1>3, <1>4, Names DEF Owners, Loading
<1>6. QED BY <1>2, <1>5

(* A handler evicts a model first. *)
LEMMA EvictOwners ==
    ASSUME TypeOK, Owners, Locks, Untried, NEW r \in Requests, NEW m \in Models, Evict(r, m)
    PROVE  Owners' /\ Locks' /\ Untried'
<1>1. /\ UnderLock(r) /\ TakeLock(r) /\ models[ModelOf[r]] = None
      /\ pc' = [pc EXCEPT ![r] = "evicting"] /\ Pop(r, m) /\ models[m] # None
      /\ UNCHANGED <<main, pending, known>>
  BY DEF Evict, Loaded
<1>2. pc[r] \in {"new", "locking"} /\ unloading[r] = None
  BY <1>1 DEF UnderLock, Arrives, Owners
<1>3. /\ \A l \in Loaders :
            /\ process'[l] = "starting" <=> process[l] = "starting"
            /\ process'[l] = "none" <=> process[l] = "none"
            /\ process'[l] = "up" <=> models'[Target(l)] = l
            /\ process'[l] = "stopping" <=> \E v \in Unloaders : unloading'[v] = l
      /\ \A k \in Models : models'[k] = IF k = m THEN None ELSE models[k]
      /\ \A k \in Models : models'[k] # None => Target(models'[k]) = k
      /\ \A v, w \in Unloaders :
            v # w /\ unloading'[v] # None => unloading'[v] # unloading'[w]
      /\ \A v \in Unloaders : v # r => unloading'[v] = unloading[v]
      /\ unloading'[r] # None
  BY <1>1, <1>2, PopOwners, Names
<1>4. /\ Locks' /\ Untried' /\ pc'[r] = "evicting"
      /\ \A l \in Loaders : l # r => pc'[l] = pc[l]
  <2>1. \A k \in Models : models[k] = None => models'[k] = None BY <1>3
  <2>2. QED BY <1>1, <2>1, LockedLocks
<1>5. Owners' BY <1>2, <1>3, <1>4, Names DEF Owners, Loading
<1>6. QED BY <1>4, <1>5

(* The victim is stopped, and the load begins. *)
LEMMA EvictedOwners ==
    ASSUME TypeOK, Owners, Locks, Untried, NEW r \in Requests, Evicted(r)
    PROVE  Owners' /\ Locks' /\ Untried'
<1> DEFINE a == unloading[r]
<1>1. /\ pc[r] = "evicting" /\ a \in Loaders /\ process[a] = "stopping"
      /\ process[r] = "none"
      /\ \A v \in Unloaders : v # r => unloading[v] # a
  BY Names DEF Evicted, TypeOK, Owners
<1>2. /\ UNCHANGED <<main, pending, models, known, lock>>
      /\ \A v \in Unloaders : unloading'[v] = IF v = r THEN None ELSE unloading[v]
      /\ \A l \in Loaders : process'[l] = IF l = a THEN "dead"
                                          ELSE IF l = r THEN "starting" ELSE process[l]
      /\ \A l \in Loaders : pc'[l] = IF l = r THEN "loading" ELSE pc[l]
  BY <1>1, Names DEF Evicted, Unloaded, registry, TypeOK
<1>3. \A v \in Unloaders : unloading[v] = a <=> v = r BY <1>1
<1> HIDE DEF a
<1>4. Owners'
  <2>1. ASSUME NEW l \in Loaders
        PROVE  process'[l] = "stopping" <=> \E u \in Unloaders : unloading'[u] = l
    BY <1>1, <1>2, <1>3, <2>1, Names DEF Owners
  <2>2. ASSUME NEW l \in Loaders
        PROVE  /\ process'[l] = "starting" <=> Loading(l)'
               /\ process'[l] = "up" <=> models'[Target(l)] = l
               /\ pc'[l] \in {"new", "locking", "evicting"} => process'[l] = "none"
    BY <1>1, <1>2, <2>2, Names DEF Owners, Loading
  <2>3. \A q \in Requests : unloading'[q] # None <=> pc'[q] = "evicting"
    BY <1>1, <1>2, Names DEF Owners
  <2>4. \A u, v \in Unloaders : u # v /\ unloading'[u] # None => unloading'[u] # unloading'[v]
    BY <1>2 DEF Owners
  <2>5. QED BY <1>2, <2>1, <2>2, <2>3, <2>4 DEF Owners
<1>5. Locks' BY <1>1, <1>2, Names DEF Locks, Locking
<1>6. Untried' BY <1>1, <1>2, Names DEF Untried, Models
<1>7. QED BY <1>4, <1>5, <1>6

(* Until stop() has returned, owners, locks and first loads stay in order. *)
LEMMA OwnersStep ==
    ASSUME TypeOK, Owners, Locks, Untried, [Next]_vars, Running'
    PROVE  Owners' /\ Locks' /\ Untried'
<1>1. ASSUME NEW r \in Requests, Cancel(r) PROVE FALSE BY <1>1 DEF Cancel, Running
<1>2. ~EndStop BY DEF EndStop, Running
<1>3. ASSUME NEW m \in Configured, Preload(m) PROVE Owners' /\ Locks' /\ Untried'
  <2>1. m \in Models /\ pc[m] = "new" BY <1>3 DEF Preload, Untried, Models
  <2>2. QED BY <1>3, <2>1, FirstLoadOwners DEF Preload, registry
<1>4. ASSUME NEW x \in Extra, LoadExtra(x) PROVE Owners' /\ Locks' /\ Untried'
  BY <1>4, FirstLoadOwners DEF LoadExtra, registry, Models
<1>5. CASE Quiescent \/ UNCHANGED vars
  BY <1>5 DEF Quiescent, vars, registry, Owners, Locks, Untried, Locking, Loading
<1>6. QED
  BY <1>1, <1>2, <1>3, <1>4, <1>5, FinishLoadOwners, FailLoadOwners, MainOwners,
     StopNextOwners, StopUnloadedOwners, HandlerOwners, BeginLoadOwners, EvictOwners,
     EvictedOwners DEF Next

(* The invariant is inductive. *)
LEMMA Inductive == IInv /\ [Next]_vars => IInv'
<1> SUFFICES ASSUME IInv, [Next]_vars PROVE IInv' OBVIOUS
<1>1. TypeOK' BY TypeStep DEF IInv
<1>2. Running' => Running
  BY DEF Running, Next, vars, FinishLoad, FailLoad, Preload, LoadExtra, Listen, BeginStop,
         StopUnloaded, EndStop, StopNext, Hit, UnknownModel, WaitForLock, Load, Evict,
         Evicted, Finish, Cancel, Quiescent
<1>3. QED BY <1>1, <1>2, OwnersStep DEF IInv

(* No engine process is lost: over concurrent loads, evictions, failures and  *)
(* stop(), each is being started by its load, registered, or being stopped by *)
(* the one coroutine that took it over.                                       *)
THEOREM EnginesOwned == Spec => []EveryEngineOwned
<1>1. IInv => EveryEngineOwned
  <2> SUFFICES ASSUME IInv, main # "stopped"
               PROVE  /\ \A l \in Loaders :
                            Alive(l) => \/ pc[l] = "loading" /\ process[l] = "starting"
                                        \/ models[Target(l)] = l /\ process[l] = "up"
                                        \/ l \in BeingUnloaded /\ process[l] = "stopping"
                      /\ \A u, v \in Unloaders :
                            u # v /\ unloading[u] # None => unloading[u] # unloading[v]
    BY DEF IInv, EveryEngineOwned
  <2>1. Owners BY DEF IInv, Running
  <2>2. QED BY <2>1, Names DEF Owners, Alive, BeingUnloaded, Loading
<1>2. QED BY <1>1, InitOwners, Inductive, PTL DEF Spec

(* The load lock does its work: however many requests find a model missing, *)
(* at most one engine for it is starting or up.                             *)
THEOREM OneEnginePerModel == Spec => []SingleEngine
<1>1. IInv => SingleEngine
  <2> SUFFICES ASSUME IInv, main # "stopped", NEW k \in Loaders, NEW l \in Loaders,
                      process[k] \in {"starting", "up"}, process[l] \in {"starting", "up"},
                      Target(k) = Target(l), k # l
               PROVE  FALSE
    BY DEF SingleEngine
  <2>1. TypeOK /\ Owners /\ Locks /\ Untried BY DEF IInv, Running
  <2>2. ~Loading(k) /\ ~Loading(l) BY <2>1, OnlyLoad
  <2>3. QED BY <2>1, <2>2 DEF Owners
<1>2. QED BY <1>1, InitOwners, Inductive, PTL DEF Spec

------------------------------------------------------------------------------
(* The gauges *)

Gauges ==
    /\ modelsLoaded = Cardinality(Loaded) + Cardinality(BeingUnloaded)
    /\ engineUp \subseteq Loaded \cup {Target(l) : l \in BeingUnloaded}

(* Both counted sets are finite sets of loaders. *)
LEMMA CountedFinite ==
    TypeOK => /\ IsFiniteSet(Loaded) /\ Loaded \subseteq Models
              /\ IsFiniteSet(BeingUnloaded) /\ BeingUnloaded \subseteq Loaders
<1> SUFFICES ASSUME TypeOK
             PROVE  /\ IsFiniteSet(Loaded) /\ Loaded \subseteq Models
                    /\ IsFiniteSet(BeingUnloaded) /\ BeingUnloaded \subseteq Loaders
  OBVIOUS
<1>1. IsFiniteSet(Models) BY FiniteAssumption, FS_Union DEF Models
<1>2. IsFiniteSet(Loaders) BY <1>1, FiniteAssumption, FS_Union DEF Loaders
<1>3. Loaded \subseteq Models BY DEF Loaded
<1>4. BeingUnloaded \subseteq Loaders BY DEF BeingUnloaded, TypeOK
<1>5. QED BY <1>1, <1>2, <1>3, <1>4, FS_Subset

(* A finite set that grows or shrinks by one element. *)
LEMMA CountOfChange ==
    ASSUME NEW S, IsFiniteSet(S), NEW x
    PROVE  /\ Cardinality(S) \in Nat
           /\ x \notin S => Cardinality(S \cup {x}) = Cardinality(S) + 1
           /\ x \in S => Cardinality(S \ {x}) = Cardinality(S) - 1
BY FS_CardinalityType, FS_AddElement, FS_RemoveElement

(* A load that ends well counts a model more. *)
LEMMA FinishLoadGauges ==
    ASSUME TypeOK, Owners, Locks, Untried, Gauges, NEW l \in Loaders, FinishLoad(l)
    PROVE  Gauges'
<1> DEFINE T == Target(l)
<1>1. T \in Models /\ models[T] = None /\ l # None
  BY OnlyLoad, Names DEF FinishLoad, Loading
<1>2. /\ models' = [models EXCEPT ![T] = l] /\ unloading' = unloading
      /\ modelsLoaded' = modelsLoaded + 1 /\ engineUp' = engineUp \cup {T}
  BY DEF FinishLoad
<1>3. T \notin Loaded /\ Loaded' = Loaded \cup {T} /\ BeingUnloaded' = BeingUnloaded
  BY <1>1, <1>2 DEF Loaded, BeingUnloaded, TypeOK
<1>4. /\ Cardinality(Loaded') = Cardinality(Loaded) + 1
      /\ Cardinality(Loaded) \in Nat /\ Cardinality(BeingUnloaded) \in Nat
  BY <1>3, CountedFinite, CountOfChange
<1>5. QED BY <1>2, <1>3, <1>4 DEF Gauges

(* A model taken over to be stopped is counted still. *)
LEMMA PopGauges ==
    ASSUME TypeOK, Owners, Gauges, NEW u \in Unloaders, NEW m \in Models,
           models[m] # None, unloading[u] = None, Pop(u, m), UNCHANGED gauges
    PROVE  Gauges'
<1> DEFINE a == models[m]
<1>1. /\ a \in Loaders /\ Target(a) = m /\ a # None
      /\ \A v \in Unloaders : unloading[v] # a
  BY Names DEF TypeOK, Owners
<1>2. /\ models' = [models EXCEPT ![m] = None]
      /\ unloading' = [unloading EXCEPT ![u] = a]
      /\ modelsLoaded' = modelsLoaded /\ engineUp' = engineUp
  BY DEF Pop, gauges
<1>3. m \in Loaded /\ Loaded' = Loaded \ {m} BY <1>2 DEF Loaded, TypeOK
<1> HIDE DEF a
<1>4. a \notin BeingUnloaded /\ BeingUnloaded' = BeingUnloaded \cup {a}
  BY <1>1, <1>2 DEF BeingUnloaded, TypeOK
<1>5. /\ Cardinality(Loaded') = Cardinality(Loaded) - 1
      /\ Cardinality(BeingUnloaded') = Cardinality(BeingUnloaded) + 1
      /\ Cardinality(Loaded) \in Nat /\ Cardinality(BeingUnloaded) \in Nat
  BY <1>3, <1>4, CountedFinite, CountOfChange
<1>6. engineUp' \subseteq Loaded' \cup {Target(l) : l \in BeingUnloaded'}
  BY <1>1, <1>2, <1>3, <1>4 DEF Gauges
<1>7. QED BY <1>2, <1>5, <1>6 DEF Gauges

(* A model that has been stopped is counted no longer. *)
LEMMA UnloadedGauges ==
    ASSUME TypeOK, Owners, Gauges, NEW u \in Unloaders,
           unloading[u] # None, Unloaded(u), UNCHANGED models
    PROVE  Gauges'
<1> DEFINE a == unloading[u]
<1>1. a \in BeingUnloaded /\ \A v \in Unloaders : unloading[v] = a <=> v = u
  BY DEF BeingUnloaded, Owners
<1>2. /\ unloading' = [unloading EXCEPT ![u] = None]
      /\ modelsLoaded' = modelsLoaded - 1 /\ engineUp' = engineUp \ {Target(a)}
  BY DEF Unloaded
<1> HIDE DEF a
<1>3. Loaded' = Loaded BY DEF Loaded
<1>4. BeingUnloaded' = BeingUnloaded \ {a} BY <1>1, <1>2 DEF BeingUnloaded, TypeOK
<1>5. /\ Cardinality(BeingUnloaded') = Cardinality(BeingUnloaded) - 1
      /\ Cardinality(Loaded) \in Nat /\ Cardinality(BeingUnloaded) \in Nat
  BY <1>1, <1>4, CountedFinite, CountOfChange
<1>6. engineUp' \subseteq Loaded' \cup {Target(l) : l \in BeingUnloaded'}
  BY <1>2, <1>3, <1>4 DEF Gauges
<1>7. QED BY <1>2, <1>3, <1>5, <1>6 DEF Gauges

(* The gauges keep counting until stop() has returned. *)
LEMMA GaugesStep ==
    ASSUME TypeOK, Owners, Locks, Untried, Gauges, [Next]_vars, Running'
    PROVE  Gauges'
<1>1. ASSUME NEW r \in Requests, Cancel(r) PROVE FALSE BY <1>1 DEF Cancel, Running
<1>2. ASSUME UNCHANGED <<models, unloading, gauges>> PROVE Gauges'
  BY <1>2 DEF gauges, Gauges, Loaded, BeingUnloaded
<1>3. ASSUME NEW m \in Models, StopNext(m) PROVE Gauges'
  <2>1. CASE models[m] # None BY <1>3, <2>1, PopGauges, Names DEF StopNext
  <2>2. CASE models[m] = None BY <1>2, <1>3, <2>2 DEF StopNext
  <2>3. QED BY <2>1, <2>2
<1>4. CASE StopUnloaded BY <1>4, UnloadedGauges, Names DEF StopUnloaded, registry
<1>5. ASSUME NEW r \in Requests, NEW m \in Models, Evict(r, m) PROVE Gauges'
  <2>1. unloading[r] = None BY <1>5 DEF Evict, UnderLock, Arrives, Owners
  <2>2. QED BY <1>5, <2>1, PopGauges, Names DEF Evict, Loaded
<1>6. ASSUME NEW r \in Requests, Evicted(r) PROVE Gauges'
  <2>1. unloading[r] # None BY <1>6 DEF Evicted, Owners
  <2>2. QED BY <1>6, <2>1, UnloadedGauges, Names DEF Evicted, registry
<1>7. ASSUME NEW r \in Requests,
             Hit(r) \/ UnknownModel(r) \/ WaitForLock(r) \/ Load(r) \/ Finish(r)
      PROVE  Gauges'
  BY <1>2, <1>7 DEF Hit, UnknownModel, WaitForLock, Load, Finish, registry
<1>8. ASSUME \/ \E m \in Configured : Preload(m)
             \/ \E x \in Extra : LoadExtra(x)
             \/ \E l \in Loaders : FailLoad(l)
             \/ Listen \/ BeginStop \/ EndStop \/ Quiescent \/ UNCHANGED vars
      PROVE  Gauges'
  BY <1>2, <1>8 DEF Preload, LoadExtra, FailLoad, Listen, BeginStop, EndStop, Quiescent,
                    vars, registry
<1>9. QED
  BY <1>1, <1>3, <1>4, <1>5, <1>6, <1>7, <1>8, FinishLoadGauges DEF Next

(* models_loaded counts the models that are registered or being stopped, and *)
(* engine_up is 1 of no other model, until stop() returns.                   *)
THEOREM GaugesCount == Spec => []GaugesAccounted
<1> DEFINE GInv == IInv /\ (Running => Gauges)
<1>1. ASSUME Init PROVE GInv
  <2>1. Loaded = {} /\ BeingUnloaded = {} BY <1>1 DEF Init, Loaded, BeingUnloaded
  <2>2. Gauges BY <1>1, <2>1, FS_EmptySet DEF Init, Gauges
  <2>3. QED BY <1>1, <2>2, InitOwners
<1>2. GInv /\ [Next]_vars => GInv'
  <2> SUFFICES ASSUME GInv, [Next]_vars PROVE GInv' OBVIOUS
  <2>1. IInv' BY Inductive
  <2>2. Running' => Running
    BY DEF Running, Next, vars, FinishLoad, FailLoad, Preload, LoadExtra, Listen, BeginStop,
           StopUnloaded, EndStop, StopNext, Hit, UnknownModel, WaitForLock, Load, Evict,
           Evicted, Finish, Cancel, Quiescent
  <2>3. Running' => Gauges' BY <2>2, GaugesStep DEF IInv
  <2>4. QED BY <2>1, <2>3
<1>3. GInv => GaugesAccounted BY DEF GaugesAccounted, Gauges, Running
<1>4. QED BY <1>1, <1>2, <1>3, PTL DEF Spec

------------------------------------------------------------------------------
(* The engine of a request *)

OnlyConfigured == main \in {"preloading", "serving"} /\ known = Configured
Known == Configured \subseteq known /\ Loaded \subseteq known
Undisturbed ==
    /\ \A u \in Unloaders : unloading[u] = None
    /\ \A r \in Requests :
          pc[r] = "serving" => state[r] # None /\ models[ModelOf[r]] = state[r]
ServedInv == IInv /\ Known /\ (OnlyConfigured => Undisturbed)

(* A model that is registered is known, and what is known stays known. *)
LEMMA KnownStep == TypeOK /\ Known /\ [Next]_vars => Known' /\ known \subseteq known'
<1> SUFFICES ASSUME TypeOK, Known, [Next]_vars PROVE Known' /\ known \subseteq known' OBVIOUS
<1>1. ASSUME NEW l \in Loaders, FinishLoad(l) PROVE Known' /\ known \subseteq known'
  BY <1>1, Names DEF FinishLoad, Known, Loaded, TypeOK
<1>2. ASSUME UNCHANGED known, \A m \in Models : models'[m] \in {models[m], None}
      PROVE  Known' /\ known \subseteq known'
  BY <1>2 DEF Known, Loaded
<1>3. ASSUME NEW m \in Models, StopNext(m) PROVE Known' /\ known \subseteq known'
  <2>1. \A k \in Models : models'[k] \in {models[k], None}
    BY <1>3 DEF StopNext, Pop, TypeOK
  <2>2. QED BY <1>2, <1>3, <2>1 DEF StopNext
<1>4. ASSUME NEW r \in Requests, NEW m \in Models, Evict(r, m)
      PROVE  Known' /\ known \subseteq known'
  <2>1. \A k \in Models : models'[k] \in {models[k], None}
    BY <1>4 DEF Evict, Pop, TypeOK
  <2>2. QED BY <1>2, <1>4, <2>1 DEF Evict
<1>5. ASSUME UNCHANGED registry PROVE Known' /\ known \subseteq known'
  BY <1>5 DEF registry, Known, Loaded
<1>6. ASSUME NEW r \in Requests,
             \/ Hit(r) \/ UnknownModel(r) \/ WaitForLock(r) \/ Load(r)
             \/ Evicted(r) \/ Finish(r) \/ Cancel(r)
      PROVE  UNCHANGED registry
  BY <1>6 DEF Hit, UnknownModel, WaitForLock, Load, Evicted, Finish, Cancel, registry
<1>7. ASSUME \/ \E m \in Configured : Preload(m)
             \/ \E x \in Extra : LoadExtra(x)
             \/ \E l \in Loaders : FailLoad(l)
             \/ Listen \/ BeginStop \/ StopUnloaded \/ EndStop \/ Quiescent \/ UNCHANGED vars
      PROVE  UNCHANGED registry
  BY <1>7 DEF Preload, LoadExtra, FailLoad, Listen, BeginStop, StopUnloaded, EndStop,
              Quiescent, vars, registry
<1>8. QED BY <1>1, <1>3, <1>4, <1>5, <1>6, <1>7 DEF Next

(* While only configured models are known and one is missing, there is room. *)
LEMMA RoomForConfigured ==
    ASSUME TypeOK, Known, known = Configured, NEW r \in Requests, UnderLock(r),
           models[ModelOf[r]] = None
    PROVE  ~Full
<1>1. ModelOf[r] \in Configured /\ ModelOf[r] \notin Loaded /\ Loaded \subseteq Configured
  BY DEF UnderLock, Known, Loaded
<1>2. /\ IsFiniteSet(Configured) /\ Loaded \subseteq Configured \ {ModelOf[r]}
      /\ Cardinality(Configured \ {ModelOf[r]}) = Cardinality(Configured) - 1
      /\ IsFiniteSet(Configured \ {ModelOf[r]})
  BY <1>1, FiniteAssumption, FS_RemoveElement
<1>3. /\ Cardinality(Loaded) <= Cardinality(Configured \ {ModelOf[r]})
      /\ Cardinality(Loaded) \in Nat /\ Cardinality(Configured) \in Nat
  BY <1>2, FS_Subset, FS_CardinalityType
<1>4. MaxModels = Cardinality(Configured) BY <1>1 DEF MaxModels
<1>5. QED BY <1>2, <1>3, <1>4 DEF Full

(* Every step leaves the engines of the requests alone. *)
LEMMA UndisturbedStep ==
    ASSUME ServedInv, [Next]_vars, OnlyConfigured' PROVE Undisturbed'
<1>1. TypeOK /\ Known /\ Running' BY DEF ServedInv, IInv, OnlyConfigured, Running
<1>2. OnlyConfigured
  <2>1. known = Configured BY <1>1, KnownStep DEF OnlyConfigured, Known
  <2>2. main \in {"preloading", "serving"}
    BY DEF OnlyConfigured, Next, vars, FinishLoad, FailLoad, Preload, LoadExtra, Listen,
           BeginStop, StopUnloaded, EndStop, StopNext, Hit, UnknownModel, WaitForLock, Load,
           Evict, Evicted, Finish, Cancel, Quiescent
  <2>3. QED BY <2>1, <2>2 DEF OnlyConfigured
<1>3. /\ Undisturbed /\ Owners /\ Locks /\ Untried
      /\ main \in {"preloading", "serving"} /\ known = Configured
  BY <1>2 DEF ServedInv, OnlyConfigured, IInv, Running
<1> USE <1>1, <1>3
<1>4. ASSUME NEW l \in Loaders, FinishLoad(l) PROVE Undisturbed'
  <2>1. Loading(l) /\ Target(l) \in Models /\ models[Target(l)] = None
    BY <1>4, OnlyLoad, Names DEF FinishLoad, Loading
  <2>2. models' = [models EXCEPT ![Target(l)] = l] /\ unloading' = unloading
    BY <1>4 DEF FinishLoad
  <2>3. ASSUME NEW r \in Requests, pc'[r] = "serving"
        PROVE  state'[r] # None /\ models'[ModelOf[r]] = state'[r]
    <3>1. CASE r = l
      <4>1. state' = [state EXCEPT ![l] = l] BY <1>4, <3>1 DEF FinishLoad
      <4>2. QED BY <2>1, <2>2, <3>1, <4>1, Names DEF TypeOK
    <3>2. CASE r # l
      <4>1. pc[r] = "serving" /\ state'[r] = state[r]
        BY <1>4, <2>3, <3>2, Names DEF FinishLoad, TypeOK
      <4>2. ModelOf[r] # Target(l) BY <2>1, <4>1 DEF Undisturbed
      <4>3. QED BY <2>2, <4>1, <4>2, Names DEF Undisturbed, TypeOK
    <3>3. QED BY <3>1, <3>2
  <2>4. QED BY <2>2, <2>3 DEF Undisturbed
<1>5. ASSUME NEW r \in Requests, NEW m \in Models, Evict(r, m) PROVE FALSE
  BY <1>5, RoomForConfigured DEF Evict
<1>6. ASSUME NEW r \in Requests, Evicted(r) \/ Cancel(r) PROVE FALSE
  BY <1>6, Names DEF Evicted, Cancel, Owners, Undisturbed
<1>7. ASSUME BeginStop \/ StopUnloaded \/ EndStop \/ \E m \in Models : StopNext(m) PROVE FALSE
  BY <1>7, Names DEF BeginStop, StopUnloaded, EndStop, StopNext, Undisturbed, OnlyConfigured
<1>8. ASSUME NEW r \in Requests, Hit(r) PROVE Undisturbed'
  <2>1. \A q \in Requests : q # r => pc'[q] = pc[q] /\ state'[q] = state[q]
    BY <1>8, Names DEF Hit, TypeOK
  <2>2. state'[r] = models[ModelOf[r]] /\ models[ModelOf[r]] # None
    BY <1>8 DEF Hit, TypeOK
  <2>3. QED BY <1>8, <2>1, <2>2 DEF Hit, registry, Undisturbed
<1>9. ASSUME NEW r \in Requests, Finish(r) PROVE Undisturbed'
  <2>1. /\ \A q \in Requests : q # r => pc'[q] = pc[q] /\ state'[q] = state[q]
        /\ pc'[r] = "done"
    BY <1>9, Names DEF Finish, TypeOK
  <2>2. QED BY <1>9, <2>1 DEF Finish, registry, Undisturbed
<1>10. ASSUME UNCHANGED <<models, unloading, state>>,
              \A r \in Requests : pc'[r] = "serving" => pc[r] = "serving"
       PROVE  Undisturbed'
  BY <1>10 DEF Undisturbed
<1>11. ASSUME NEW r \in Requests, UnknownModel(r) \/ WaitForLock(r) \/ Load(r)
       PROVE  Undisturbed'
  <2>1. \A q \in Requests : pc'[q] = "serving" => pc[q] = "serving"
    BY <1>11, Names DEF UnknownModel, WaitForLock, Load, BeginLoad, TypeOK
  <2>2. QED BY <1>10, <1>11, <2>1 DEF UnknownModel, WaitForLock, Load, registry
<1>12. ASSUME NEW l \in Loaders,
              FailLoad(l) \/ (l \in Configured /\ Preload(l)) \/ (l \in Extra /\ LoadExtra(l))
       PROVE  Undisturbed'
  <2>1. \A q \in Requests : pc'[q] = "serving" => pc[q] = "serving"
    BY <1>12, Names DEF FailLoad, Preload, LoadExtra, BeginLoad, TypeOK
  <2>2. QED BY <1>10, <1>12, <2>1 DEF FailLoad, Preload, LoadExtra, registry
<1>13. CASE Listen \/ Quiescent \/ UNCHANGED vars
  BY <1>13 DEF Listen, Quiescent, vars, registry, Undisturbed
<1>14. Configured \subseteq Loaders /\ Extra \subseteq Loaders BY DEF Loaders, Models
<1>15. QED
  BY <1>4, <1>5, <1>6, <1>7, <1>8, <1>9, <1>11, <1>12, <1>13, <1>14 DEF Next

(* A server whose models are the configured ones never evicts: a request's *)
(* engine is the registered one, and runs, until the request or start() to *)
(* stop() is over.                                                         *)
THEOREM RequestsKeepTheirEngine == Spec => []ServedByRegistered
<1>1. ASSUME Init PROVE ServedInv
  <2>1. Known BY <1>1 DEF Init, Known, Loaded
  <2>2. Undisturbed BY <1>1, Names DEF Init, Undisturbed
  <2>3. QED BY <1>1, <2>1, <2>2, InitOwners DEF ServedInv
<1>2. ServedInv /\ [Next]_vars => ServedInv'
  BY Inductive, KnownStep, UndisturbedStep DEF ServedInv, IInv
<1>3. ASSUME ServedInv PROVE ServedByRegistered
  <2> SUFFICES ASSUME main \in {"preloading", "serving"}, known = Configured
               PROVE  /\ BeingUnloaded = {}
                      /\ \A r \in Requests : pc[r] = "serving" =>
                            /\ state[r] # None /\ models[ModelOf[r]] = state[r]
                            /\ process[state[r]] = "up"
    BY DEF ServedByRegistered
  <2>1. TypeOK /\ Owners /\ Undisturbed
    BY <1>3 DEF ServedInv, IInv, OnlyConfigured, Running
  <2>2. BeingUnloaded = {} BY <2>1 DEF BeingUnloaded, Undisturbed
  <2>3. ASSUME NEW r \in Requests, pc[r] = "serving" PROVE process[state[r]] = "up"
    <3>1. /\ state[r] \in Loaders /\ models[ModelOf[r]] = state[r]
          /\ Target(state[r]) = ModelOf[r]
      BY <2>1, <2>3, Names DEF Undisturbed, TypeOK, Owners
    <3>2. QED BY <2>1, <3>1 DEF Owners
  <2>4. QED BY <2>1, <2>2, <2>3 DEF Undisturbed
<1>4. QED BY <1>1, <1>2, <1>3, PTL DEF Spec
=============================================================================
