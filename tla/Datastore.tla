------------------------------ MODULE Datastore ------------------------------
(***************************************************************************)
(* The endpoint picker's cache of Kubernetes state (pkg/epp/datastore), the *)
(* three reconcilers that write it (pkg/epp/controller), and the goroutines *)
(* that hang off it: one metrics refresher per pod object, and the readers  *)
(* of the pool (refreshers, request streams, collectors).                   *)
(*                                                                          *)
(* The API server's objects are api*; a change of one is followed by an     *)
(* informer event.  The store's pool and objectives are guarded by one      *)
(* sync.RWMutex, its pods live in a sync.Map outside that lock: so a pod's  *)
(* check against the selector and its insertion are separate steps, as are  *)
(* the Load and the Store of an insertion.                                  *)
(***************************************************************************)
EXTENDS Naturals, Sequences, FiniteSets

CONSTANTS Pods,        \* names of pods
          PodStates,   \* what the API may hold for a pod: [ready, label, ip]
          PoolStates,  \* what the API may hold for the pool: [sel, port]
          Objectives,  \* names of InferenceObjectives
          ObjStates,   \* what the API may hold for one: [ours, crit]
          Getters,     \* goroutines that call PoolGet
          ListMayFail, \* whether the pod listing of a resync may fail
          Deletable,   \* whether the pool may be deleted
          MaxChanges,  \* bound on the changes of API objects
          Absent       \* no such object; also no writer

\* nil is neither an object nor a goroutine; conditions are booleans.
ASSUME DatastoreAssumption ==
  /\ Absent \notin PodStates \cup PoolStates \cup ObjStates /\ Absent \notin {"pool", "obj"}
  /\ (\A v \in PodStates : v.ready \in BOOLEAN) /\ (\A v \in ObjStates : v.ours \in BOOLEAN)

VARIABLES apiPool, apiPods, apiObjs,   \* the API server, as the cache reader sees it
          changes,                     \* how many changes it has made
          poolQueue, podQueue, objQueue, \* workqueues of the three controllers
          podEvents,                   \* pod events not yet filtered
          evNew,                       \* the filter has rejected the old labels
          pool, objectives,            \* under poolAndObjectivesMu
          pods,                        \* sync.Map: pod name -> index of its podMetrics, 0 if none
          pms,                         \* every podMetrics object ever created
          writer, held, readers,       \* the RWMutex
          poolPc, poolArg, todo, active, cur, \* the pool reconciler and its resync
          podPc, podKey, podArg,       \* the pod reconciler
          objPc, objKey, objArg,       \* the objective reconciler
          reconfigured                 \* history: a Clear, another selector or a failed listing

apiVars == <<apiPool, apiPods, apiObjs, changes>>
queues == <<poolQueue, podQueue, objQueue, podEvents, evNew>>
storeVars == <<pool, objectives, pods, pms>>
lockVars == <<writer, held, readers>>
poolRec == <<poolPc, poolArg, todo, active, cur>>
podRec == <<podPc, podKey, podArg>>
objRec == <<objPc, objKey, objArg>>
datastoreVars == <<apiVars, queues, storeVars, lockVars, poolRec, podRec, objRec, reconfigured>>

-----------------------------------------------------------------------------
(* The store's operations.                                                  *)

\* An object of the API is selected by the pool in the store.
PoolLabelsMatch(pl, podState) == pl # Absent /\ podState # Absent /\ podState.label = pl.sel

IsPodReady(podState) == podState.ready

\* Several readers or one writer; a reader that comes while a writer waits is
\* held back until that writer has been served, as sync.RWMutex does.
RLockFree == writer = Absent
Lock(w) == /\ writer = Absent
           /\ writer' = w /\ held' = FALSE
           /\ UNCHANGED readers
Acquire(w) == writer = w /\ ~held /\ readers = {}
Unlock == writer' = Absent /\ held' = FALSE /\ UNCHANGED readers
KeepLocked(w) == writer' = w /\ held' = TRUE /\ UNCHANGED readers

\* NewPodMetrics starts its refresher; Store replaces whatever the map holds.
NewPodMetrics(p, podState) ==
  /\ pms' = Append(pms, [pod |-> p, ip |-> podState.ip, done |-> FALSE])
  /\ pods' = [pods EXCEPT ![p] = Len(pms) + 1]

podMetricsUpdatePod(p, podState) ==
  /\ pms' = [pms EXCEPT ![pods[p]].ip = podState.ip]
  /\ UNCHANGED pods

StopRefreshLoops(ids) ==
  pms' = [i \in DOMAIN pms |-> IF i \in ids THEN [pms[i] EXCEPT !.done = TRUE] ELSE pms[i]]

\* Mutant: the deleted object's refresher goes on.
PodDeleteOnly(p) == pods' = [pods EXCEPT ![p] = 0] /\ UNCHANGED pms

\* LoadAndDelete, then stop what was loaded.
PodDelete(p) ==
  /\ StopRefreshLoops({pods[p]})
  /\ pods' = [pods EXCEPT ![p] = 0]

-----------------------------------------------------------------------------
(* The API server and the event filters.                                    *)

\* The pool is created, changed or deleted; its controller has no filter.
ApiPoolChange ==
  \E v \in PoolStates \cup {Absent} :
    /\ v # apiPool /\ changes < MaxChanges
    /\ v = Absent => Deletable
    /\ apiPool' = v
    /\ poolQueue' = TRUE
    /\ changes' = changes + 1
    /\ UNCHANGED <<apiPods, apiObjs, podQueue, objQueue, podEvents, evNew, storeVars, lockVars,
                   poolRec, podRec, objRec, reconfigured>>

ApiPodChange(p) ==
  \E v \in PodStates \cup {Absent} :
    /\ v # apiPods[p] /\ changes < MaxChanges
    /\ apiPods' = [apiPods EXCEPT ![p] = v]
    /\ podEvents' = Append(podEvents, [pod |-> p, old |-> apiPods[p], new |-> v])
    /\ changes' = changes + 1
    /\ UNCHANGED <<apiPool, apiObjs, poolQueue, podQueue, objQueue, evNew, storeVars, lockVars,
                   poolRec, podRec, objRec, reconfigured>>

\* eventPredicate: an objective that refers to our pool, before or after.
eventPredicate(objState) == objState # Absent /\ objState.ours

ApiObjChange(o) ==
  \E v \in ObjStates \cup {Absent} :
    /\ v # apiObjs[o] /\ changes < MaxChanges
    /\ apiObjs' = [apiObjs EXCEPT ![o] = v]
    /\ objQueue' = IF eventPredicate(apiObjs[o]) \/ eventPredicate(v)
                   THEN objQueue \cup {o} ELSE objQueue
    /\ changes' = changes + 1
    /\ UNCHANGED <<apiPool, apiPods, poolQueue, podQueue, podEvents, evNew, storeVars, lockVars,
                   poolRec, podRec, objRec, reconfigured>>

\* Mutant: only the new labels are looked at.
FilterPodEventNew ==
  LET e == Head(podEvents)
  IN /\ podEvents # <<>> /\ RLockFree
     /\ podQueue' = IF PoolLabelsMatch(pool, e.new) THEN podQueue \cup {e.pod} ELSE podQueue
     /\ podEvents' = Tail(podEvents)
     /\ UNCHANGED <<apiVars, poolQueue, objQueue, evNew, storeVars, lockVars, poolRec, podRec, objRec,
                    reconfigured>>

\* The pod controller's event filter asks PoolLabelsMatch about the old labels
\* and, if those do not match, about the new ones, taking the lock anew.
FilterPodEvent ==
  LET e == Head(podEvents)
      hit == PoolLabelsMatch(pool, IF evNew THEN e.new ELSE e.old)
  IN /\ podEvents # <<>> /\ RLockFree
     /\ podQueue' = IF hit THEN podQueue \cup {e.pod} ELSE podQueue
     /\ evNew' = (~hit /\ ~evNew)
     /\ podEvents' = IF hit \/ evNew THEN Tail(podEvents) ELSE podEvents
     /\ UNCHANGED <<apiVars, poolQueue, objQueue, storeVars, lockVars, poolRec, podRec, objRec,
                    reconfigured>>

-----------------------------------------------------------------------------
(* InferencePoolReconciler: Clear or PoolSet with its resync.                *)

PoolReconcile ==
  /\ poolPc = "idle" /\ poolQueue
  /\ poolQueue' = FALSE
  /\ poolArg' = apiPool
  /\ poolPc' = "lock"
  /\ UNCHANGED <<apiVars, podQueue, objQueue, podEvents, evNew, storeVars, lockVars, todo, active, cur,
                 podRec, objRec, reconfigured>>

PoolLock ==
  /\ poolPc = "lock"
  /\ Lock("pool")
  /\ poolPc' = "acquire"
  /\ UNCHANGED <<apiVars, queues, storeVars, poolArg, todo, active, cur, podRec, objRec, reconfigured>>

\* Clear under the lock: pool and objectives go; the pods follow.
Clear ==
  /\ poolPc = "acquire" /\ Acquire("pool") /\ poolArg = Absent
  /\ pool' = Absent
  /\ objectives' = [o \in Objectives |-> Absent]
  /\ KeepLocked("pool")
  /\ poolPc' = "stop"
  /\ reconfigured' = TRUE
  /\ UNCHANGED <<apiVars, queues, pods, pms, poolArg, todo, active, cur, podRec, objRec>>

ClearStop ==
  /\ poolPc = "stop"
  /\ StopRefreshLoops({pods[p] : p \in Pods})
  /\ poolPc' = "clear"
  /\ UNCHANGED <<apiVars, queues, pool, objectives, pods, lockVars, poolArg, todo, active, cur, podRec,
                 objRec, reconfigured>>

ClearPods ==
  /\ poolPc = "clear"
  /\ pods' = [p \in Pods |-> 0]
  /\ Unlock
  /\ poolPc' = "idle"
  /\ UNCHANGED <<apiVars, queues, pool, objectives, pms, poolArg, todo, active, cur, podRec, objRec,
                 reconfigured>>

\* PoolSet: a new selector, or a first pool, asks for a resync.
NeedsResync(old, new) == old = Absent \/ old.sel # new.sel

PoolSet ==
  /\ poolPc = "acquire" /\ Acquire("pool") /\ poolArg # Absent
  /\ pool' = poolArg
  /\ IF NeedsResync(pool, poolArg)
     THEN KeepLocked("pool") /\ poolPc' = "list"
     ELSE Unlock /\ poolPc' = "idle"
  /\ reconfigured' = (reconfigured \/ (pool # Absent /\ NeedsResync(pool, poolArg)))
  /\ UNCHANGED <<apiVars, queues, objectives, pods, pms, poolArg, todo, active, cur, podRec, objRec>>

\* The ready pods the selector lists; activePods of podResyncAll.
ResyncList ==
  LET listed == [p \in Pods |-> IF PoolLabelsMatch(pool, apiPods[p]) /\ IsPodReady(apiPods[p])
                                THEN apiPods[p] ELSE Absent]
  IN /\ poolPc = "list"
     /\ active' = listed
     /\ todo' = {p \in Pods : listed[p] # Absent}
     /\ poolPc' = "add"
     /\ UNCHANGED <<apiVars, queues, storeVars, lockVars, poolArg, cur, podRec, objRec, reconfigured>>

\* A failed listing ends PoolSet with an error: the reconciler is called again.
ResyncListFails ==
  /\ poolPc = "list" /\ ListMayFail
  /\ Unlock
  /\ poolQueue' = TRUE
  /\ poolPc' = "idle"
  /\ reconfigured' = TRUE
  /\ UNCHANGED <<apiVars, podQueue, objQueue, podEvents, evNew, storeVars, poolArg, todo, active, cur,
                 podRec, objRec>>

\* PodUpdateOrAddIfNotExist for a listed pod, up to its Load.
ResyncLoad(p) ==
  /\ poolPc = "add" /\ p \in todo
  /\ IF pods[p] = 0
     THEN poolPc' = "store" /\ cur' = p /\ UNCHANGED <<todo, pods, pms>>
     ELSE podMetricsUpdatePod(p, active[p]) /\ todo' = todo \ {p} /\ UNCHANGED <<poolPc, cur>>
  /\ UNCHANGED <<apiVars, queues, pool, objectives, lockVars, poolArg, active, podRec, objRec, reconfigured>>

ResyncStore ==
  /\ poolPc = "store"
  /\ NewPodMetrics(cur, active[cur])
  /\ todo' = todo \ {cur}
  /\ poolPc' = "add"
  /\ UNCHANGED <<apiVars, queues, pool, objectives, lockVars, poolArg, active, cur, podRec, objRec, reconfigured>>

ResyncRange ==
  /\ poolPc = "add" /\ todo = {}
  /\ todo' = {p \in Pods : pods[p] # 0 /\ active[p] = Absent}
  /\ poolPc' = "prune"
  /\ UNCHANGED <<apiVars, queues, storeVars, lockVars, poolArg, active, cur, podRec, objRec, reconfigured>>

\* Range may or may not visit an entry that came after it began.
ResyncPrune(p) ==
  /\ poolPc = "prune" /\ active[p] = Absent /\ (pods[p] # 0 \/ p \in todo)
  /\ PodDelete(p)
  /\ todo' = todo \ {p}
  /\ UNCHANGED <<apiVars, queues, pool, objectives, lockVars, poolPc, poolArg, active, cur, podRec, objRec,
                 reconfigured>>

ResyncDone ==
  /\ poolPc = "prune" /\ todo = {}
  /\ Unlock
  /\ poolPc' = "idle"
  /\ UNCHANGED <<apiVars, queues, storeVars, poolArg, todo, active, cur, podRec, objRec, reconfigured>>

-----------------------------------------------------------------------------
(* PodReconciler.                                                            *)

PodReconcile(p) ==
  /\ podPc = "idle" /\ p \in podQueue
  /\ podQueue' = podQueue \ {p}
  /\ podKey' = p /\ podPc' = "synced"
  /\ UNCHANGED <<apiVars, poolQueue, objQueue, podEvents, evNew, storeVars, lockVars, poolRec, podArg,
                 objRec, reconfigured>>

PodHasSynced ==
  /\ podPc = "synced" /\ RLockFree
  /\ podPc' = IF pool = Absent THEN "idle" ELSE "get"
  /\ UNCHANGED <<apiVars, queues, storeVars, lockVars, poolRec, podKey, podArg, objRec, reconfigured>>

\* Get from the cache; a pod that is gone or not ready is deleted from the store.
PodGet ==
  LET got == apiPods[podKey]
  IN /\ podPc = "get"
     /\ podArg' = got
     /\ podPc' = IF got # Absent /\ IsPodReady(got) THEN "match" ELSE "delete"
     /\ UNCHANGED <<apiVars, queues, storeVars, lockVars, poolRec, podKey, objRec, reconfigured>>

PodMatch ==
  /\ podPc = "match" /\ RLockFree
  /\ podPc' = IF PoolLabelsMatch(pool, podArg) THEN "load" ELSE "delete"
  /\ UNCHANGED <<apiVars, queues, storeVars, lockVars, poolRec, podKey, podArg, objRec, reconfigured>>

PodDeleteStep ==
  /\ podPc = "delete"
  /\ PodDelete(podKey)
  /\ podPc' = "idle"
  /\ UNCHANGED <<apiVars, queues, pool, objectives, lockVars, poolRec, podKey, podArg, objRec,
                 reconfigured>>

PodLoad ==
  /\ podPc = "load"
  /\ IF pods[podKey] = 0
     THEN podPc' = "store" /\ UNCHANGED <<pods, pms>>
     ELSE podPc' = "idle" /\ podMetricsUpdatePod(podKey, podArg)
  /\ UNCHANGED <<apiVars, queues, pool, objectives, lockVars, poolRec, podKey, podArg, objRec,
                 reconfigured>>

PodStore ==
  /\ podPc = "store"
  /\ NewPodMetrics(podKey, podArg)
  /\ podPc' = "idle"
  /\ UNCHANGED <<apiVars, queues, pool, objectives, lockVars, poolRec, podKey, podArg, objRec,
                 reconfigured>>

-----------------------------------------------------------------------------
(* InferenceObjectiveReconciler, and the readers of the pool.                *)

ObjReconcile(o) ==
  /\ objPc = "idle" /\ o \in objQueue
  /\ objQueue' = objQueue \ {o}
  /\ objKey' = o /\ objArg' = apiObjs[o]
  /\ objPc' = "lock"
  /\ UNCHANGED <<apiVars, poolQueue, podQueue, podEvents, evNew, storeVars, lockVars, poolRec, podRec,
                 reconfigured>>

ObjLock ==
  /\ objPc = "lock"
  /\ Lock("obj")
  /\ objPc' = "acquire"
  /\ UNCHANGED <<apiVars, queues, storeVars, poolRec, podRec, objKey, objArg, reconfigured>>

\* ObjectiveSet, or ObjectiveDelete when it is gone or refers to another pool.
ObjWrite ==
  /\ objPc = "acquire" /\ Acquire("obj")
  /\ objectives' = [objectives EXCEPT ![objKey] = IF eventPredicate(objArg) THEN objArg ELSE Absent]
  /\ Unlock
  /\ objPc' = "idle"
  /\ UNCHANGED <<apiVars, queues, pool, pods, pms, poolRec, podRec, objKey, objArg, reconfigured>>

\* PoolGet takes the read lock and calls PoolHasSynced, which takes it again.
PoolGet(g) ==
  /\ g \notin readers /\ RLockFree
  /\ readers' = readers \cup {g}
  /\ UNCHANGED <<apiVars, queues, storeVars, writer, held, poolRec, podRec, objRec, reconfigured>>

PoolHasSynced(g) ==
  /\ g \in readers /\ RLockFree
  /\ readers' = readers \ {g}
  /\ UNCHANGED <<apiVars, queues, storeVars, writer, held, poolRec, podRec, objRec, reconfigured>>

-----------------------------------------------------------------------------

StoreInit ==
  /\ apiPool = Absent
  /\ apiPods = [p \in Pods |-> Absent]
  /\ apiObjs = [o \in Objectives |-> Absent]
  /\ changes = 0
  /\ poolQueue = FALSE /\ podQueue = {} /\ objQueue = {} /\ podEvents = <<>> /\ evNew = FALSE
  /\ pool = Absent /\ objectives = [o \in Objectives |-> Absent]
  /\ pods = [p \in Pods |-> 0] /\ pms = <<>>
  /\ writer = Absent /\ held = FALSE /\ readers = {}
  /\ poolPc = "idle" /\ poolArg = Absent /\ todo = {} /\ cur = Absent
  /\ active = [p \in Pods |-> Absent]
  /\ podPc = "idle" /\ podKey = Absent /\ podArg = Absent
  /\ objPc = "idle" /\ objKey = Absent /\ objArg = Absent
  /\ reconfigured = FALSE

PoolStep ==
  \/ PoolReconcile \/ PoolLock \/ Clear \/ ClearStop \/ ClearPods \/ PoolSet
  \/ ResyncList \/ ResyncListFails \/ ResyncStore \/ ResyncRange \/ ResyncDone
  \/ \E p \in Pods : ResyncLoad(p) \/ ResyncPrune(p)

PodStep ==
  \/ \E p \in Pods : PodReconcile(p)
  \/ PodHasSynced \/ PodGet \/ PodMatch \/ PodDeleteStep \/ PodLoad \/ PodStore

ObjStep == (\E o \in Objectives : ObjReconcile(o)) \/ ObjLock \/ ObjWrite

StoreNext ==
  \/ ApiPoolChange
  \/ \E p \in Pods : ApiPodChange(p)
  \/ \E o \in Objectives : ApiObjChange(o)
  \/ FilterPodEvent
  \/ PoolStep \/ PodStep \/ ObjStep
  \/ \E g \in Getters : PoolGet(g) \/ PoolHasSynced(g)

\* Goroutines that can run do run; the API owes nobody a change, and a caller
\* of PoolGet need not start but does not stop between the two read locks.
Fairness ==
  /\ WF_datastoreVars(FilterPodEvent) /\ WF_datastoreVars(PoolStep)
  /\ WF_datastoreVars(PodStep) /\ WF_datastoreVars(ObjStep)
  /\ \A g \in Getters : WF_datastoreVars(PoolHasSynced(g))

StoreSpec == StoreInit /\ [][StoreNext]_datastoreVars /\ Fairness

-----------------------------------------------------------------------------
(* What the store promises.                                                  *)

\* Nothing is on its way from the API to the store.
Quiescent ==
  /\ ~poolQueue /\ podQueue = {} /\ objQueue = {} /\ podEvents = <<>>
  /\ poolPc = "idle" /\ podPc = "idle" /\ objPc = "idle"

\* The store shows what the API holds: the pool, its ready pods with their
\* current address, and the objectives that refer to it.
Consistent ==
  /\ pool = apiPool
  /\ \A p \in Pods :
       IF PoolLabelsMatch(apiPool, apiPods[p]) /\ IsPodReady(apiPods[p])
       THEN pods[p] # 0 /\ pms[pods[p]].ip = apiPods[p].ip
       ELSE pods[p] = 0
  /\ \A o \in Objectives :
       objectives[o] = IF eventPredicate(apiObjs[o]) THEN apiObjs[o] ELSE Absent

\* Once every event has been handled the store agrees with the API, if the
\* pool has been set but never given another selector, cleared or half
\* resynced: the filters, the reconcilers and the resync of PoolSet lose no
\* change between them, nor a pod event that races the first PoolSet, before,
\* during or after its listing.
StoreConvergesUnlessReconfigured == ~reconfigured /\ Quiescent => Consistent

\* Refreshers and stored pods belong together.  A pod that requests can be
\* routed to has a live metrics refresher, except while Clear is between
\* stopping the refreshers and emptying the map; and a refresher that has not
\* been stopped belongs to a pod of the store, so that PodDelete and Clear can
\* still reach it.  The Load and Store of an insertion are two steps, which is
\* safe as long as no resync or Clear runs beside the pod reconciler.
RefreshersExact ==
  /\ \A p \in Pods : pods[p] # 0 /\ pms[pods[p]].done => poolPc = "clear"
  /\ ~reconfigured => \A i \in DOMAIN pms : pms[i].done \/ pods[pms[i].pod] = i

\* PoolSet sets the given pool in the datastore: a reconciliation that has
\* begun comes to its end.
PoolSetCompletes == poolPc # "idle" ~> poolPc = "idle"
=============================================================================
