-------------------------- MODULE DatastoreProofs --------------------------
(***************************************************************************)
(* Proofs about the datastore and its reconcilers, for any pods, objectives *)
(* and readers, and any number of changes of the API's objects: stored pods *)
(* and metrics refreshers belong together, and once every event has been    *)
(* handled the store shows what the API holds, unless the pool was given    *)
(* another selector, cleared or half resynced.                              *)
(*                                                                          *)
(* The heart of the invariant is PodKnown: whatever the API holds for a pod *)
(* is shown by the store, or will be once the steps under way are done, or  *)
(* an event or a queued key is still due that makes the reconciler look.    *)
(***************************************************************************)
EXTENDS Datastore, SequenceTheorems, TLAPS

-----------------------------------------------------------------------------
(* Types.                                                                   *)

MaybePod == PodStates \cup {Absent}
MaybePool == PoolStates \cup {Absent}
MaybeObj == ObjStates \cup {Absent}
Addresses == {v.ip : v \in PodStates}
PodEvents == [pod : Pods, old : MaybePod, new : MaybePod]
PodMetricsObjects == [pod : Pods, ip : Addresses, done : BOOLEAN]
\* Program points of the pool reconciler at which it holds the lock.
Holding == {"stop", "clear", "list", "add", "store", "prune"}
PodPcs == {"idle", "synced", "get", "match", "load", "store", "delete"}

ApiTypeOK ==
  /\ apiPool \in MaybePool /\ apiPods \in [Pods -> MaybePod] /\ apiObjs \in [Objectives -> MaybeObj]
  /\ changes \in Nat
QueuesTypeOK ==
  /\ poolQueue \in BOOLEAN /\ podQueue \in SUBSET Pods /\ objQueue \in SUBSET Objectives
  /\ podEvents \in Seq(PodEvents) /\ evNew \in BOOLEAN
StoreTypeOK ==
  /\ pool \in MaybePool /\ objectives \in [Objectives -> MaybeObj]
  /\ pods \in [Pods -> Nat] /\ pms \in Seq(PodMetricsObjects)
PoolRecTypeOK ==
  /\ poolPc \in {"idle", "lock", "acquire"} \cup Holding
  /\ poolArg \in MaybePool /\ todo \in SUBSET Pods /\ active \in [Pods -> MaybePod]
  /\ poolPc \in {"add", "store"} => \A p \in todo : active[p] \in PodStates
  /\ poolPc = "store" => cur \in todo
PodRecTypeOK ==
  /\ podPc \in PodPcs /\ podArg \in MaybePod
  /\ podPc # "idle" => podKey \in Pods
  /\ podPc \in {"match", "load", "store"} => podArg \in PodStates
ObjRecTypeOK ==
  /\ objPc \in {"idle", "lock", "acquire"} /\ objArg \in MaybeObj
  /\ objPc # "idle" => objKey \in Objectives
StoreTypes == /\ ApiTypeOK /\ QueuesTypeOK /\ StoreTypeOK /\ PoolRecTypeOK /\ PodRecTypeOK /\ ObjRecTypeOK
              /\ reconfigured \in BOOLEAN

-----------------------------------------------------------------------------
(* The parts of the invariant.                                              *)

\* The resync and Clear run under the write lock.
Locked == poolPc \in Holding => writer = "pool"

\* An entry of the map is the object made for that pod, whose refresher runs.
Stored == \A p \in Pods : pods[p] # 0 =>
            /\ pods[p] \in DOMAIN pms /\ pms[pods[p]].pod = p
            /\ pms[pods[p]].done => poolPc = "clear"

\* The filter has rejected the old labels of an event.
Filtering == evNew => podEvents # <<>>

\* The pool reconciler has seen the API's pool, or will.
PoolKnown == poolQueue \/ IF poolPc \in {"lock", "acquire"} THEN poolArg = apiPool ELSE pool = apiPool

\* A pod the pool in the store wants.
Wanted(v) == PoolLabelsMatch(pool, v) /\ IsPodReady(v)

\* Until the store is reconfigured: every refresher that runs can be reached;
Reachable == \A i \in DOMAIN pms : pms[i].done \/ pods[pms[i].pod] = i

\* there has been one resync at most, which found the map empty and had the
\* pod reconciler waiting for its lock;
FirstResync ==
  /\ poolPc \notin {"stop", "clear"}
  /\ pool = Absent => podPc \in {"idle", "synced"} /\ poolPc \notin Holding
  /\ poolPc \in Holding => podPc \in {"idle", "synced"}
  /\ pool = Absent \/ poolPc = "list" => \A p \in Pods : pods[p] = 0
  /\ poolPc \in {"add", "store"} => \A p \in todo : pods[p] = 0 /\ Wanted(active[p])
  /\ poolPc \in {"add", "store", "prune"} => \A p \in Pods : pods[p] # 0 => active[p] # Absent
  /\ poolPc = "prune" => todo = {}

\* what the pod reconciler is about to do follows from what it read;
Applying ==
  /\ podPc = "match" => IsPodReady(podArg)
  /\ podPc \in {"load", "store"} => Wanted(podArg)
  /\ podPc = "delete" => ~Wanted(podArg)
  /\ podPc = "store" => pods[podKey] = 0

\* objectives are as the API has them, or the reconciler will see to it;
WantedObj(v) == IF eventPredicate(v) THEN v ELSE Absent
ObjKnown == \A o \in Objectives :
  o \in objQueue \/ IF objPc \in {"lock", "acquire"} /\ objKey = o
                    THEN WantedObj(objArg) = WantedObj(apiObjs[o])
                    ELSE objectives[o] = WantedObj(apiObjs[o])

\* and pods are.  The store makes the same of both states of a pod.
Same(v, w) == (Wanted(v) <=> Wanted(w)) /\ (Wanted(v) => v.ip = w.ip)
Shows(p, v) == IF Wanted(v) THEN pods[p] # 0 /\ pms[pods[p]].ip = v.ip ELSE pods[p] = 0
\* An event that the filter lets through.
Hit(k) == \/ PoolLabelsMatch(pool, podEvents[k].new)
          \/ PoolLabelsMatch(pool, podEvents[k].old) /\ ~(k = 1 /\ evNew)
Announced(p) == \E k \in DOMAIN podEvents : podEvents[k].pod = p /\ Hit(k)
Due(p) == p \in podQueue \/ (podPc \in {"synced", "get"} /\ podKey = p) \/ Announced(p)
Resyncing(p) == poolPc \in {"add", "store"} /\ p \in todo
Reconciling(p) == podPc \in {"match", "load", "store", "delete"} /\ podKey = p
Settled(p) ==
  /\ Resyncing(p) => Same(active[p], apiPods[p])
  /\ Reconciling(p) => Same(podArg, apiPods[p])
  /\ poolPc # "list" /\ ~Resyncing(p) /\ ~Reconciling(p) => Shows(p, apiPods[p])
PodKnown == pool # Absent => \A p \in Pods : Due(p) \/ Settled(p)

FreshInv == Reachable /\ FirstResync /\ Applying /\ ObjKnown /\ PodKnown
StoreInv == StoreTypes /\ Locked /\ Stored /\ Filtering /\ PoolKnown /\ (~reconfigured => FreshInv)

-----------------------------------------------------------------------------
(* Frames.                                                                  *)

\* What a pod is due depends on these variables only.
LEMMA PodKnownFrame ==
  ASSUME PodKnown, pool' = pool, podQueue' = podQueue, podPc' = podPc, podKey' = podKey, podEvents' = podEvents,
         evNew' = evNew, poolPc' = poolPc, todo' = todo, active' = active, apiPods' = apiPods, podArg' = podArg,
         pods' = pods, pms' = pms
  PROVE  PodKnown'
<1>1. \A v : Wanted(v)' <=> Wanted(v)
  BY DEF Wanted
<1>2. \A p \in Pods : Due(p)' <=> Due(p)
  BY DEF Due, Announced, Hit
<1>3. \A p \in Pods : (Resyncing(p)' <=> Resyncing(p)) /\ (Reconciling(p)' <=> Reconciling(p))
  BY DEF Resyncing, Reconciling
<1>4. ASSUME NEW p \in Pods
      PROVE  /\ Same(active[p], apiPods[p])' <=> Same(active[p], apiPods[p])
             /\ Same(podArg, apiPods[p])' <=> Same(podArg, apiPods[p])
             /\ Shows(p, apiPods[p])' <=> Shows(p, apiPods[p])
  BY <1>1 DEF Same, Shows, Wanted
<1> QED BY <1>2, <1>3, <1>4 DEF PodKnown, Settled

\* The pool reconciler moves where no resync is under way for any pod.
LEMMA PodKnownQuiet ==
  ASSUME PodKnown, podQueue' = podQueue, podPc' = podPc, podKey' = podKey, podEvents' = podEvents,
         evNew' = evNew, apiPods' = apiPods, podArg' = podArg, pods' = pods, pms' = pms,
         pool' # Absent => pool # Absent /\ pool'.sel = pool.sel,
         poolPc # "list", poolPc' # "list", \A p \in Pods : ~Resyncing(p) /\ ~Resyncing(p)'
  PROVE  PodKnown'
<1>1. SUFFICES ASSUME NEW p \in Pods, pool' # Absent PROVE Due(p)' \/ Settled(p)'
  BY DEF PodKnown
<1>2. \A v : (PoolLabelsMatch(pool, v)' <=> PoolLabelsMatch(pool, v)) /\ (Wanted(v)' <=> Wanted(v))
  BY <1>1 DEF Wanted, PoolLabelsMatch
<1>3. Due(p)' <=> Due(p)
  <2>1. \A k \in DOMAIN podEvents : Hit(k)' <=> Hit(k)
    BY <1>2, <1>1 DEF Hit, PoolLabelsMatch
  <2> QED BY <2>1 DEF Due, Announced
<1>4. Due(p) \/ Settled(p)
  BY <1>1 DEF PodKnown
<1>5. /\ Same(podArg, apiPods[p])' <=> Same(podArg, apiPods[p])
      /\ Shows(p, apiPods[p])' <=> Shows(p, apiPods[p])
  BY <1>1 DEF Same, Shows, Wanted, PoolLabelsMatch
<1> QED BY <1>3, <1>4, <1>5 DEF Settled, Reconciling

-----------------------------------------------------------------------------
(* Steps that leave the pods alone.                                          *)

\* The pool changes, and its controller is told.
LEMMA ApiPoolChangeStep ==
  ASSUME StoreInv, ApiPoolChange
  PROVE  StoreInv'
<1>1. StoreTypes /\ Locked /\ Stored /\ Filtering /\ PoolKnown /\ (~reconfigured => FreshInv)
  BY DEF StoreInv
<1>2. /\ apiPods' = apiPods /\ apiObjs' = apiObjs /\ podQueue' = podQueue /\ objQueue' = objQueue
      /\ podEvents' = podEvents /\ evNew' = evNew /\ pool' = pool /\ objectives' = objectives /\ pods' = pods
      /\ pms' = pms /\ writer' = writer /\ held' = held /\ readers' = readers /\ poolPc' = poolPc
      /\ poolArg' = poolArg /\ todo' = todo /\ active' = active /\ cur' = cur /\ podPc' = podPc
      /\ podKey' = podKey /\ podArg' = podArg /\ objPc' = objPc /\ objKey' = objKey /\ objArg' = objArg
      /\ reconfigured' = reconfigured
  BY DEF ApiPoolChange, MaybePool, apiVars, queues, storeVars, lockVars, poolRec, podRec, objRec
<1>3. apiPool' \in MaybePool /\ poolQueue' = TRUE /\ changes' = changes + 1
  BY DEF ApiPoolChange, MaybePool
<1>4. StoreTypes'
  <2>1. ApiTypeOK'
    BY <1>1, <1>2, <1>3 DEF StoreTypes, ApiTypeOK
  <2>2. QueuesTypeOK'
    <3>1. poolQueue' \in BOOLEAN
      BY <1>3, Zenon
    <3> QED BY <1>1, <1>2, <3>1 DEF StoreTypes, QueuesTypeOK
  <2>3. StoreTypeOK'
    BY <1>1, <1>2 DEF StoreTypes, StoreTypeOK
  <2>4. PoolRecTypeOK'
    BY <1>1, <1>2 DEF StoreTypes, PoolRecTypeOK
  <2>5. PodRecTypeOK'
    BY <1>1, <1>2 DEF StoreTypes, PodRecTypeOK
  <2>6. ObjRecTypeOK'
    BY <1>1, <1>2 DEF StoreTypes, ObjRecTypeOK
  <2>7. reconfigured' \in BOOLEAN
    BY <1>1, <1>2 DEF StoreTypes
  <2> QED BY <2>1, <2>2, <2>3, <2>4, <2>5, <2>6, <2>7 DEF StoreTypes
<1>5. Locked'
  BY <1>1, <1>2 DEF Locked, Holding
<1>6. Stored'
  BY <1>1, <1>2 DEF Stored
<1>7. Filtering'
  BY <1>1, <1>2 DEF Filtering
<1>8. PoolKnown'
  BY <1>1, <1>2, <1>3, <1>1 DEF PoolKnown
<1>9. ASSUME ~reconfigured'
      PROVE  FreshInv'
  <2>1. ~reconfigured /\ Reachable /\ FirstResync /\ Applying /\ ObjKnown /\ PodKnown
    BY <1>1, <1>2, <1>9 DEF FreshInv
  <2>2. Reachable'
    BY <2>1, <1>2 DEF Reachable
  <2>3. FirstResync'
    BY <2>1, <1>2 DEF FirstResync, Wanted, Holding
  <2>4. Applying'
    BY <2>1, <1>2 DEF Applying, Wanted
  <2>5. ObjKnown'
    BY <2>1, <1>2 DEF ObjKnown, WantedObj
  <2>6. PodKnown'
    BY <2>1, <1>2, PodKnownFrame
  <2> QED BY <2>2, <2>3, <2>4, <2>5, <2>6 DEF FreshInv
<1> QED BY <1>4, <1>5, <1>6, <1>7, <1>8, <1>9 DEF StoreInv

\* An objective changes; events about objectives of other pools are filtered out.
LEMMA ApiObjChangeStep ==
  ASSUME StoreInv, NEW o \in Objectives, ApiObjChange(o)
  PROVE  StoreInv'
<1>1. StoreTypes /\ Locked /\ Stored /\ Filtering /\ PoolKnown /\ (~reconfigured => FreshInv)
  BY DEF StoreInv
<1>2. /\ apiPool' = apiPool /\ apiPods' = apiPods /\ poolQueue' = poolQueue /\ podQueue' = podQueue
      /\ podEvents' = podEvents /\ evNew' = evNew /\ pool' = pool /\ objectives' = objectives /\ pods' = pods
      /\ pms' = pms /\ writer' = writer /\ held' = held /\ readers' = readers /\ poolPc' = poolPc
      /\ poolArg' = poolArg /\ todo' = todo /\ active' = active /\ cur' = cur /\ podPc' = podPc
      /\ podKey' = podKey /\ podArg' = podArg /\ objPc' = objPc /\ objKey' = objKey /\ objArg' = objArg
      /\ reconfigured' = reconfigured
  BY DEF ApiObjChange, MaybeObj, apiVars, queues, storeVars, lockVars, poolRec, podRec, objRec
<1>3. \E v \in MaybeObj :
        /\ apiObjs' = [apiObjs EXCEPT ![o] = v] /\ changes' = changes + 1
        /\ objQueue' = IF eventPredicate(apiObjs[o]) \/ eventPredicate(v) THEN objQueue \cup {o} ELSE objQueue
  BY DEF ApiObjChange, MaybeObj
<1>4. StoreTypes'
  <2>1. ApiTypeOK'
    BY <1>1, <1>2, <1>3 DEF StoreTypes, ApiTypeOK
  <2>2. QueuesTypeOK'
    BY <1>1, <1>2, <1>3 DEF StoreTypes, QueuesTypeOK
  <2>3. StoreTypeOK'
    BY <1>1, <1>2 DEF StoreTypes, StoreTypeOK
  <2>4. PoolRecTypeOK'
    BY <1>1, <1>2 DEF StoreTypes, PoolRecTypeOK
  <2>5. PodRecTypeOK'
    BY <1>1, <1>2 DEF StoreTypes, PodRecTypeOK
  <2>6. ObjRecTypeOK'
    BY <1>1, <1>2 DEF StoreTypes, ObjRecTypeOK
  <2>7. reconfigured' \in BOOLEAN
    BY <1>1, <1>2 DEF StoreTypes
  <2> QED BY <2>1, <2>2, <2>3, <2>4, <2>5, <2>6, <2>7 DEF StoreTypes
<1>5. Locked'
  BY <1>1, <1>2 DEF Locked, Holding
<1>6. Stored'
  BY <1>1, <1>2 DEF Stored
<1>7. Filtering'
  BY <1>1, <1>2 DEF Filtering
<1>8. PoolKnown'
  BY <1>1, <1>2 DEF PoolKnown
<1>9. ASSUME ~reconfigured'
      PROVE  FreshInv'
  <2>1. ~reconfigured /\ Reachable /\ FirstResync /\ Applying /\ ObjKnown /\ PodKnown
    BY <1>1, <1>2, <1>9 DEF FreshInv
  <2>2. Reachable'
    BY <2>1, <1>2 DEF Reachable
  <2>3. FirstResync'
    BY <2>1, <1>2 DEF FirstResync, Wanted, Holding
  <2>4. Applying'
    BY <2>1, <1>2 DEF Applying, Wanted
  <2>5. ObjKnown'
    <3>1. PICK v \in MaybeObj :
            /\ apiObjs' = [apiObjs EXCEPT ![o] = v]
            /\ objQueue' = IF eventPredicate(apiObjs[o]) \/ eventPredicate(v) THEN objQueue \cup {o} ELSE objQueue
      BY <1>3
    <3>2. SUFFICES ASSUME NEW q \in Objectives, q \notin objQueue'
                   PROVE  IF objPc' \in {"lock", "acquire"} /\ objKey' = q
                          THEN WantedObj(objArg') = WantedObj(apiObjs'[q])
                          ELSE objectives'[q] = WantedObj(apiObjs'[q])
      BY DEF ObjKnown, WantedObj
    <3>3. q \notin objQueue
      BY <3>1, <3>2
    <3>4. CASE q # o
      <4>1. apiObjs'[q] = apiObjs[q]
        BY <1>1, <3>1, <3>4 DEF StoreTypes, ApiTypeOK
      <4> QED BY <1>2, <2>1, <3>2, <3>3, <4>1 DEF ObjKnown
    <3>5. CASE q = o
      <4>1. ~eventPredicate(apiObjs[o]) /\ ~eventPredicate(v)
        BY <3>1, <3>2, <3>5
      <4>2. apiObjs'[o] = v
        BY <1>1, <3>1 DEF StoreTypes, ApiTypeOK
      <4>3. WantedObj(apiObjs'[o]) = WantedObj(apiObjs[o])
        BY <4>1, <4>2 DEF WantedObj
      <4> QED BY <1>2, <2>1, <3>2, <3>3, <3>5, <4>3 DEF ObjKnown
    <3> QED BY <3>4, <3>5
  <2>6. PodKnown'
    BY <2>1, <1>2, PodKnownFrame
  <2> QED BY <2>2, <2>3, <2>4, <2>5, <2>6 DEF FreshInv
<1> QED BY <1>4, <1>5, <1>6, <1>7, <1>8, <1>9 DEF StoreInv

\* The pool reconciler reads the pool.
LEMMA PoolReconcileStep ==
  ASSUME StoreInv, PoolReconcile
  PROVE  StoreInv'
<1>1. StoreTypes /\ Locked /\ Stored /\ Filtering /\ PoolKnown /\ (~reconfigured => FreshInv)
  BY DEF StoreInv
<1>2. /\ apiPool' = apiPool /\ apiPods' = apiPods /\ apiObjs' = apiObjs /\ changes' = changes
      /\ podQueue' = podQueue /\ objQueue' = objQueue /\ podEvents' = podEvents /\ evNew' = evNew /\ pool' = pool
      /\ objectives' = objectives /\ pods' = pods /\ pms' = pms /\ writer' = writer /\ held' = held
      /\ readers' = readers /\ todo' = todo /\ active' = active /\ cur' = cur /\ podPc' = podPc
      /\ podKey' = podKey /\ podArg' = podArg /\ objPc' = objPc /\ objKey' = objKey /\ objArg' = objArg
      /\ reconfigured' = reconfigured
  BY DEF PoolReconcile, apiVars, queues, storeVars, lockVars, poolRec, podRec, objRec
<1>3. poolPc = "idle" /\ poolQueue' = FALSE /\ poolArg' = apiPool /\ poolPc' = "lock"
  BY DEF PoolReconcile
<1>4. StoreTypes'
  <2>1. ApiTypeOK'
    BY <1>1, <1>2 DEF StoreTypes, ApiTypeOK
  <2>2. QueuesTypeOK'
    <3>1. poolQueue' \in BOOLEAN
      BY <1>3, Zenon
    <3> QED BY <1>1, <1>2, <3>1 DEF StoreTypes, QueuesTypeOK
  <2>3. StoreTypeOK'
    BY <1>1, <1>2 DEF StoreTypes, StoreTypeOK
  <2>4. PoolRecTypeOK'
    BY <1>1, <1>2, <1>3 DEF StoreTypes, PoolRecTypeOK, ApiTypeOK
  <2>5. PodRecTypeOK'
    BY <1>1, <1>2 DEF StoreTypes, PodRecTypeOK
  <2>6. ObjRecTypeOK'
    BY <1>1, <1>2 DEF StoreTypes, ObjRecTypeOK
  <2>7. reconfigured' \in BOOLEAN
    BY <1>1, <1>2 DEF StoreTypes
  <2> QED BY <2>1, <2>2, <2>3, <2>4, <2>5, <2>6, <2>7 DEF StoreTypes
<1>5. Locked'
  BY <1>1, <1>2, <1>3, <1>1 DEF Locked, Holding
<1>6. Stored'
  BY <1>1, <1>2, <1>3, <1>1 DEF Stored
<1>7. Filtering'
  BY <1>1, <1>2 DEF Filtering
<1>8. PoolKnown'
  BY <1>1, <1>2, <1>3, <1>1 DEF PoolKnown
<1>9. ASSUME ~reconfigured'
      PROVE  FreshInv'
  <2>1. ~reconfigured /\ Reachable /\ FirstResync /\ Applying /\ ObjKnown /\ PodKnown
    BY <1>1, <1>2, <1>9 DEF FreshInv
  <2>2. Reachable'
    BY <2>1, <1>2 DEF Reachable
  <2>3. FirstResync'
    BY <1>1, <1>2, <1>3, <2>1 DEF FirstResync, Wanted, Holding
  <2>4. Applying'
    BY <2>1, <1>2 DEF Applying, Wanted
  <2>5. ObjKnown'
    BY <2>1, <1>2 DEF ObjKnown, WantedObj
  <2>6. PodKnown'
    BY <2>1, <1>2, <1>3, PodKnownQuiet DEF Resyncing
  <2> QED BY <2>2, <2>3, <2>4, <2>5, <2>6 DEF FreshInv
<1> QED BY <1>4, <1>5, <1>6, <1>7, <1>8, <1>9 DEF StoreInv

\* It asks for the lock.
LEMMA PoolLockStep ==
  ASSUME StoreInv, PoolLock
  PROVE  StoreInv'
<1>1. StoreTypes /\ Locked /\ Stored /\ Filtering /\ PoolKnown /\ (~reconfigured => FreshInv)
  BY DEF StoreInv
<1>2. /\ apiPool' = apiPool /\ apiPods' = apiPods /\ apiObjs' = apiObjs /\ changes' = changes
      /\ poolQueue' = poolQueue /\ podQueue' = podQueue /\ objQueue' = objQueue /\ podEvents' = podEvents
      /\ evNew' = evNew /\ pool' = pool /\ objectives' = objectives /\ pods' = pods /\ pms' = pms
      /\ readers' = readers /\ poolArg' = poolArg /\ todo' = todo /\ active' = active /\ cur' = cur
      /\ podPc' = podPc /\ podKey' = podKey /\ podArg' = podArg /\ objPc' = objPc /\ objKey' = objKey
      /\ objArg' = objArg /\ reconfigured' = reconfigured
  BY DEF PoolLock, Lock, apiVars, queues, storeVars, lockVars, poolRec, podRec, objRec
<1>3. poolPc = "lock" /\ writer' = "pool" /\ poolPc' = "acquire"
  BY DEF PoolLock, Lock
<1>4. StoreTypes'
  <2>1. ApiTypeOK'
    BY <1>1, <1>2 DEF StoreTypes, ApiTypeOK
  <2>2. QueuesTypeOK'
    BY <1>1, <1>2 DEF StoreTypes, QueuesTypeOK
  <2>3. StoreTypeOK'
    BY <1>1, <1>2 DEF StoreTypes, StoreTypeOK
  <2>4. PoolRecTypeOK'
    BY <1>1, <1>2, <1>3 DEF StoreTypes, PoolRecTypeOK
  <2>5. PodRecTypeOK'
    BY <1>1, <1>2 DEF StoreTypes, PodRecTypeOK
  <2>6. ObjRecTypeOK'
    BY <1>1, <1>2 DEF StoreTypes, ObjRecTypeOK
  <2>7. reconfigured' \in BOOLEAN
    BY <1>1, <1>2 DEF StoreTypes
  <2> QED BY <2>1, <2>2, <2>3, <2>4, <2>5, <2>6, <2>7 DEF StoreTypes
<1>5. Locked'
  BY <1>1, <1>2, <1>3, <1>1 DEF Locked, Holding
<1>6. Stored'
  BY <1>1, <1>2, <1>3, <1>1 DEF Stored
<1>7. Filtering'
  BY <1>1, <1>2 DEF Filtering
<1>8. PoolKnown'
  BY <1>1, <1>2, <1>3, <1>1 DEF PoolKnown
<1>9. ASSUME ~reconfigured'
      PROVE  FreshInv'
  <2>1. ~reconfigured /\ Reachable /\ FirstResync /\ Applying /\ ObjKnown /\ PodKnown
    BY <1>1, <1>2, <1>9 DEF FreshInv
  <2>2. Reachable'
    BY <2>1, <1>2 DEF Reachable
  <2>3. FirstResync'
    BY <1>1, <1>2, <1>3, <2>1 DEF FirstResync, Wanted, Holding
  <2>4. Applying'
    BY <2>1, <1>2 DEF Applying, Wanted
  <2>5. ObjKnown'
    BY <2>1, <1>2 DEF ObjKnown, WantedObj
  <2>6. PodKnown'
    BY <2>1, <1>2, <1>3, PodKnownQuiet DEF Resyncing
  <2> QED BY <2>2, <2>3, <2>4, <2>5, <2>6 DEF FreshInv
<1> QED BY <1>4, <1>5, <1>6, <1>7, <1>8, <1>9 DEF StoreInv

\* The pool is gone.
LEMMA ClearStep ==
  ASSUME StoreInv, Clear
  PROVE  StoreInv'
<1>1. StoreTypes /\ Locked /\ Stored /\ Filtering /\ PoolKnown /\ (~reconfigured => FreshInv)
  BY DEF StoreInv
<1>2. /\ apiPool' = apiPool /\ apiPods' = apiPods /\ apiObjs' = apiObjs /\ changes' = changes
      /\ poolQueue' = poolQueue /\ podQueue' = podQueue /\ objQueue' = objQueue /\ podEvents' = podEvents
      /\ evNew' = evNew /\ pods' = pods /\ pms' = pms /\ readers' = readers /\ poolArg' = poolArg /\ todo' = todo
      /\ active' = active /\ cur' = cur /\ podPc' = podPc /\ podKey' = podKey /\ podArg' = podArg
      /\ objPc' = objPc /\ objKey' = objKey /\ objArg' = objArg
  BY DEF Clear, KeepLocked, apiVars, queues, storeVars, lockVars, poolRec, podRec, objRec
<1>3. /\ poolPc = "acquire" /\ poolArg = Absent /\ pool' = Absent /\ objectives' = [o \in Objectives |-> Absent]
      /\ writer' = "pool" /\ poolPc' = "stop" /\ reconfigured' = TRUE
  BY DEF Clear, KeepLocked
<1>4. StoreTypes'
  <2>1. ApiTypeOK'
    BY <1>1, <1>2 DEF StoreTypes, ApiTypeOK
  <2>2. QueuesTypeOK'
    BY <1>1, <1>2 DEF StoreTypes, QueuesTypeOK
  <2>3. StoreTypeOK'
    BY <1>1, <1>2, <1>3 DEF StoreTypes, StoreTypeOK, MaybePool, MaybeObj
  <2>4. PoolRecTypeOK'
    BY <1>1, <1>2, <1>3 DEF StoreTypes, PoolRecTypeOK, Holding
  <2>5. PodRecTypeOK'
    BY <1>1, <1>2 DEF StoreTypes, PodRecTypeOK
  <2>6. ObjRecTypeOK'
    BY <1>1, <1>2 DEF StoreTypes, ObjRecTypeOK
  <2>7. reconfigured' \in BOOLEAN
    BY <1>3, Zenon
  <2> QED BY <2>1, <2>2, <2>3, <2>4, <2>5, <2>6, <2>7 DEF StoreTypes
<1>5. Locked'
  BY <1>1, <1>2, <1>3, <1>1 DEF Locked, Holding
<1>6. Stored'
  BY <1>1, <1>2, <1>3, <1>1 DEF Stored
<1>7. Filtering'
  BY <1>1, <1>2 DEF Filtering
<1>8. PoolKnown'
  BY <1>1, <1>2, <1>3, <1>1 DEF PoolKnown
<1>9. ~reconfigured' => FreshInv'
  BY <1>3, Zenon
<1> QED BY <1>4, <1>5, <1>6, <1>7, <1>8, <1>9 DEF StoreInv

\* The refreshers are stopped.
LEMMA ClearStopStep ==
  ASSUME StoreInv, ClearStop
  PROVE  StoreInv'
<1>1. StoreTypes /\ Locked /\ Stored /\ Filtering /\ PoolKnown /\ (~reconfigured => FreshInv)
  BY DEF StoreInv
<1>2. /\ apiPool' = apiPool /\ apiPods' = apiPods /\ apiObjs' = apiObjs /\ changes' = changes
      /\ poolQueue' = poolQueue /\ podQueue' = podQueue /\ objQueue' = objQueue /\ podEvents' = podEvents
      /\ evNew' = evNew /\ pool' = pool /\ objectives' = objectives /\ pods' = pods /\ writer' = writer
      /\ held' = held /\ readers' = readers /\ poolArg' = poolArg /\ todo' = todo /\ active' = active
      /\ cur' = cur /\ podPc' = podPc /\ podKey' = podKey /\ podArg' = podArg /\ objPc' = objPc
      /\ objKey' = objKey /\ objArg' = objArg /\ reconfigured' = reconfigured
  BY DEF ClearStop, StopRefreshLoops, apiVars, queues, storeVars, lockVars, poolRec, podRec, objRec
<1>3. /\ poolPc = "stop" /\ poolPc' = "clear"
      /\ pms' = [i \in DOMAIN pms |-> IF i \in {pods[p] : p \in Pods} THEN [pms[i] EXCEPT !.done = TRUE] ELSE pms[i]]
  BY DEF ClearStop, StopRefreshLoops
<1>4. /\ pms' \in Seq(PodMetricsObjects) /\ DOMAIN pms' = DOMAIN pms
      /\ \A i \in DOMAIN pms : pms'[i].pod = pms[i].pod
  <2>1. pms \in Seq(PodMetricsObjects)
    BY <1>1 DEF StoreTypes, StoreTypeOK
  <2>2. \A i \in DOMAIN pms : pms[i] \in PodMetricsObjects
    BY <2>1
  <2>3. \A i \in DOMAIN pms : pms'[i] \in PodMetricsObjects /\ pms'[i].pod = pms[i].pod
    BY <1>3, <2>2 DEF PodMetricsObjects
  <2>4. DOMAIN pms = 1..Len(pms) /\ Len(pms) \in Nat
    BY <2>1
  <2> QED BY <1>3, <2>3, <2>4
<1>5. StoreTypes'
  <2>1. ApiTypeOK'
    BY <1>1, <1>2 DEF StoreTypes, ApiTypeOK
  <2>2. QueuesTypeOK'
    BY <1>1, <1>2 DEF StoreTypes, QueuesTypeOK
  <2>3. StoreTypeOK'
    BY <1>1, <1>2, <1>4 DEF StoreTypes, StoreTypeOK
  <2>4. PoolRecTypeOK'
    BY <1>1, <1>2, <1>3 DEF StoreTypes, PoolRecTypeOK, Holding
  <2>5. PodRecTypeOK'
    BY <1>1, <1>2 DEF StoreTypes, PodRecTypeOK
  <2>6. ObjRecTypeOK'
    BY <1>1, <1>2 DEF StoreTypes, ObjRecTypeOK
  <2>7. reconfigured' \in BOOLEAN
    BY <1>1, <1>2 DEF StoreTypes
  <2> QED BY <2>1, <2>2, <2>3, <2>4, <2>5, <2>6, <2>7 DEF StoreTypes
<1>6. Locked'
  BY <1>1, <1>2, <1>3, <1>4, <1>1 DEF Locked, Holding
<1>7. Stored'
  BY <1>1, <1>2, <1>3, <1>4 DEF Stored
<1>8. Filtering'
  BY <1>1, <1>2 DEF Filtering
<1>9. PoolKnown'
  BY <1>1, <1>2, <1>3, <1>4, <1>1 DEF PoolKnown
<1>10. ~reconfigured' => FreshInv'
  BY <1>1, <1>2, <1>3 DEF FreshInv, FirstResync
<1> QED BY <1>5, <1>6, <1>7, <1>8, <1>9, <1>10 DEF StoreInv

\* The map is emptied.
LEMMA ClearPodsStep ==
  ASSUME StoreInv, ClearPods
  PROVE  StoreInv'
<1>1. StoreTypes /\ Locked /\ Stored /\ Filtering /\ PoolKnown /\ (~reconfigured => FreshInv)
  BY DEF StoreInv
<1>2. /\ apiPool' = apiPool /\ apiPods' = apiPods /\ apiObjs' = apiObjs /\ changes' = changes
      /\ poolQueue' = poolQueue /\ podQueue' = podQueue /\ objQueue' = objQueue /\ podEvents' = podEvents
      /\ evNew' = evNew /\ pool' = pool /\ objectives' = objectives /\ pms' = pms /\ readers' = readers
      /\ poolArg' = poolArg /\ todo' = todo /\ active' = active /\ cur' = cur /\ podPc' = podPc
      /\ podKey' = podKey /\ podArg' = podArg /\ objPc' = objPc /\ objKey' = objKey /\ objArg' = objArg
      /\ reconfigured' = reconfigured
  BY DEF ClearPods, Unlock, apiVars, queues, storeVars, lockVars, poolRec, podRec, objRec
<1>3. /\ poolPc = "clear" /\ pods' = [p \in Pods |-> 0] /\ poolPc' = "idle"
  BY DEF ClearPods, Unlock
<1>4. StoreTypes'
  <2>1. ApiTypeOK'
    BY <1>1, <1>2 DEF StoreTypes, ApiTypeOK
  <2>2. QueuesTypeOK'
    BY <1>1, <1>2 DEF StoreTypes, QueuesTypeOK
  <2>3. StoreTypeOK'
    BY <1>1, <1>2, <1>3 DEF StoreTypes, StoreTypeOK
  <2>4. PoolRecTypeOK'
    BY <1>1, <1>2, <1>3 DEF StoreTypes, PoolRecTypeOK
  <2>5. PodRecTypeOK'
    BY <1>1, <1>2 DEF StoreTypes, PodRecTypeOK
  <2>6. ObjRecTypeOK'
    BY <1>1, <1>2 DEF StoreTypes, ObjRecTypeOK
  <2>7. reconfigured' \in BOOLEAN
    BY <1>1, <1>2 DEF StoreTypes
  <2> QED BY <2>1, <2>2, <2>3, <2>4, <2>5, <2>6, <2>7 DEF StoreTypes
<1>5. Locked'
  BY <1>1, <1>2, <1>3, <1>1 DEF Locked, Holding
<1>6. Stored'
  BY <1>1, <1>2, <1>3, <1>1 DEF Stored
<1>7. Filtering'
  BY <1>1, <1>2 DEF Filtering
<1>8. PoolKnown'
  BY <1>1, <1>2, <1>3, <1>1 DEF PoolKnown
<1>9. ~reconfigured' => FreshInv'
  BY <1>1, <1>2, <1>3 DEF FreshInv, FirstResync
<1> QED BY <1>4, <1>5, <1>6, <1>7, <1>8, <1>9 DEF StoreInv

\* An objective is read.
LEMMA ObjReconcileStep ==
  ASSUME StoreInv, NEW o \in Objectives, ObjReconcile(o)
  PROVE  StoreInv'
<1>1. StoreTypes /\ Locked /\ Stored /\ Filtering /\ PoolKnown /\ (~reconfigured => FreshInv)
  BY DEF StoreInv
<1>2. /\ apiPool' = apiPool /\ apiPods' = apiPods /\ apiObjs' = apiObjs /\ changes' = changes
      /\ poolQueue' = poolQueue /\ podQueue' = podQueue /\ podEvents' = podEvents /\ evNew' = evNew
      /\ pool' = pool /\ objectives' = objectives /\ pods' = pods /\ pms' = pms /\ writer' = writer
      /\ held' = held /\ readers' = readers /\ poolPc' = poolPc /\ poolArg' = poolArg /\ todo' = todo
      /\ active' = active /\ cur' = cur /\ podPc' = podPc /\ podKey' = podKey /\ podArg' = podArg
      /\ reconfigured' = reconfigured
  BY DEF ObjReconcile, apiVars, queues, storeVars, lockVars, poolRec, podRec, objRec
<1>3. /\ objPc = "idle" /\ objQueue' = objQueue \ {o} /\ objKey' = o /\ objArg' = apiObjs[o] /\ objPc' = "lock"
  BY DEF ObjReconcile
<1>4. StoreTypes'
  <2>1. ApiTypeOK'
    BY <1>1, <1>2 DEF StoreTypes, ApiTypeOK
  <2>2. QueuesTypeOK'
    BY <1>1, <1>2, <1>3 DEF StoreTypes, QueuesTypeOK
  <2>3. StoreTypeOK'
    BY <1>1, <1>2 DEF StoreTypes, StoreTypeOK
  <2>4. PoolRecTypeOK'
    BY <1>1, <1>2 DEF StoreTypes, PoolRecTypeOK
  <2>5. PodRecTypeOK'
    BY <1>1, <1>2 DEF StoreTypes, PodRecTypeOK
  <2>6. ObjRecTypeOK'
    BY <1>1, <1>2, <1>3 DEF StoreTypes, ObjRecTypeOK, ApiTypeOK
  <2>7. reconfigured' \in BOOLEAN
    BY <1>1, <1>2 DEF StoreTypes
  <2> QED BY <2>1, <2>2, <2>3, <2>4, <2>5, <2>6, <2>7 DEF StoreTypes
<1>5. Locked'
  BY <1>1, <1>2 DEF Locked, Holding
<1>6. Stored'
  BY <1>1, <1>2 DEF Stored
<1>7. Filtering'
  BY <1>1, <1>2 DEF Filtering
<1>8. PoolKnown'
  BY <1>1, <1>2 DEF PoolKnown
<1>9. ASSUME ~reconfigured'
      PROVE  FreshInv'
  <2>1. ~reconfigured /\ Reachable /\ FirstResync /\ Applying /\ ObjKnown /\ PodKnown
    BY <1>1, <1>2, <1>9 DEF FreshInv
  <2>2. Reachable'
    BY <2>1, <1>2 DEF Reachable
  <2>3. FirstResync'
    BY <2>1, <1>2 DEF FirstResync, Wanted, Holding
  <2>4. Applying'
    BY <2>1, <1>2 DEF Applying, Wanted
  <2>5. ObjKnown'
    BY <1>1, <1>2, <1>3, <2>1 DEF ObjKnown, WantedObj
  <2>6. PodKnown'
    BY <2>1, <1>2, PodKnownFrame
  <2> QED BY <2>2, <2>3, <2>4, <2>5, <2>6 DEF FreshInv
<1> QED BY <1>4, <1>5, <1>6, <1>7, <1>8, <1>9 DEF StoreInv

\* The objective reconciler asks for the lock.
LEMMA ObjLockStep ==
  ASSUME StoreInv, ObjLock
  PROVE  StoreInv'
<1>1. StoreTypes /\ Locked /\ Stored /\ Filtering /\ PoolKnown /\ (~reconfigured => FreshInv)
  BY DEF StoreInv
<1>2. /\ apiPool' = apiPool /\ apiPods' = apiPods /\ apiObjs' = apiObjs /\ changes' = changes
      /\ poolQueue' = poolQueue /\ podQueue' = podQueue /\ objQueue' = objQueue /\ podEvents' = podEvents
      /\ evNew' = evNew /\ pool' = pool /\ objectives' = objectives /\ pods' = pods /\ pms' = pms
      /\ readers' = readers /\ poolPc' = poolPc /\ poolArg' = poolArg /\ todo' = todo /\ active' = active
      /\ cur' = cur /\ podPc' = podPc /\ podKey' = podKey /\ podArg' = podArg /\ objKey' = objKey
      /\ objArg' = objArg /\ reconfigured' = reconfigured
  BY DEF ObjLock, Lock, apiVars, queues, storeVars, lockVars, poolRec, podRec, objRec
<1>3. /\ objPc = "lock" /\ objPc' = "acquire" /\ writer = Absent
  BY DEF ObjLock, Lock
<1>4. StoreTypes'
  <2>1. ApiTypeOK'
    BY <1>1, <1>2 DEF StoreTypes, ApiTypeOK
  <2>2. QueuesTypeOK'
    BY <1>1, <1>2 DEF StoreTypes, QueuesTypeOK
  <2>3. StoreTypeOK'
    BY <1>1, <1>2 DEF StoreTypes, StoreTypeOK
  <2>4. PoolRecTypeOK'
    BY <1>1, <1>2 DEF StoreTypes, PoolRecTypeOK
  <2>5. PodRecTypeOK'
    BY <1>1, <1>2 DEF StoreTypes, PodRecTypeOK
  <2>6. ObjRecTypeOK'
    BY <1>1, <1>2, <1>3 DEF StoreTypes, ObjRecTypeOK
  <2>7. reconfigured' \in BOOLEAN
    BY <1>1, <1>2 DEF StoreTypes
  <2> QED BY <2>1, <2>2, <2>3, <2>4, <2>5, <2>6, <2>7 DEF StoreTypes
<1>5. Locked'
  BY <1>1, <1>2, <1>3, DatastoreAssumption DEF Locked
<1>6. Stored'
  BY <1>1, <1>2 DEF Stored
<1>7. Filtering'
  BY <1>1, <1>2 DEF Filtering
<1>8. PoolKnown'
  BY <1>1, <1>2 DEF PoolKnown
<1>9. ASSUME ~reconfigured'
      PROVE  FreshInv'
  <2>1. ~reconfigured /\ Reachable /\ FirstResync /\ Applying /\ ObjKnown /\ PodKnown
    BY <1>1, <1>2, <1>9 DEF FreshInv
  <2>2. Reachable'
    BY <2>1, <1>2 DEF Reachable
  <2>3. FirstResync'
    BY <2>1, <1>2 DEF FirstResync, Wanted, Holding
  <2>4. Applying'
    BY <2>1, <1>2 DEF Applying, Wanted
  <2>5. ObjKnown'
    BY <1>1, <1>2, <1>3, <2>1 DEF ObjKnown, WantedObj
  <2>6. PodKnown'
    BY <2>1, <1>2, PodKnownFrame
  <2> QED BY <2>2, <2>3, <2>4, <2>5, <2>6 DEF FreshInv
<1> QED BY <1>4, <1>5, <1>6, <1>7, <1>8, <1>9 DEF StoreInv

\* The objective is written.
LEMMA ObjWriteStep ==
  ASSUME StoreInv, ObjWrite
  PROVE  StoreInv'
<1>1. StoreTypes /\ Locked /\ Stored /\ Filtering /\ PoolKnown /\ (~reconfigured => FreshInv)
  BY DEF StoreInv
<1>2. /\ apiPool' = apiPool /\ apiPods' = apiPods /\ apiObjs' = apiObjs /\ changes' = changes
      /\ poolQueue' = poolQueue /\ podQueue' = podQueue /\ objQueue' = objQueue /\ podEvents' = podEvents
      /\ evNew' = evNew /\ pool' = pool /\ pods' = pods /\ pms' = pms /\ readers' = readers /\ poolPc' = poolPc
      /\ poolArg' = poolArg /\ todo' = todo /\ active' = active /\ cur' = cur /\ podPc' = podPc
      /\ podKey' = podKey /\ podArg' = podArg /\ objKey' = objKey /\ objArg' = objArg
      /\ reconfigured' = reconfigured
  BY DEF ObjWrite, Acquire, Unlock, WantedObj, apiVars, queues, storeVars, lockVars, poolRec, podRec, objRec
<1>3. /\ objPc = "acquire" /\ writer = "obj" /\ objPc' = "idle"
      /\ objectives' = [objectives EXCEPT ![objKey] = WantedObj(objArg)]
  BY DEF ObjWrite, Acquire, Unlock, WantedObj
<1>4. StoreTypes'
  <2>1. ApiTypeOK'
    BY <1>1, <1>2 DEF StoreTypes, ApiTypeOK
  <2>2. QueuesTypeOK'
    BY <1>1, <1>2 DEF StoreTypes, QueuesTypeOK
  <2>3. StoreTypeOK'
    <3>1. WantedObj(objArg) \in MaybeObj
      BY <1>1 DEF StoreTypes, ObjRecTypeOK, WantedObj, MaybeObj
    <3> QED BY <1>1, <1>2, <1>3, <3>1 DEF StoreTypes, StoreTypeOK
  <2>4. PoolRecTypeOK'
    BY <1>1, <1>2 DEF StoreTypes, PoolRecTypeOK
  <2>5. PodRecTypeOK'
    BY <1>1, <1>2 DEF StoreTypes, PodRecTypeOK
  <2>6. ObjRecTypeOK'
    BY <1>1, <1>2, <1>3 DEF StoreTypes, ObjRecTypeOK
  <2>7. reconfigured' \in BOOLEAN
    BY <1>1, <1>2 DEF StoreTypes
  <2> QED BY <2>1, <2>2, <2>3, <2>4, <2>5, <2>6, <2>7 DEF StoreTypes
<1>5. Locked'
  BY <1>1, <1>2, <1>3, <1>1 DEF Locked, Holding
<1>6. Stored'
  BY <1>1, <1>2 DEF Stored
<1>7. Filtering'
  BY <1>1, <1>2 DEF Filtering
<1>8. PoolKnown'
  BY <1>1, <1>2 DEF PoolKnown
<1>9. ASSUME ~reconfigured'
      PROVE  FreshInv'
  <2>1. ~reconfigured /\ Reachable /\ FirstResync /\ Applying /\ ObjKnown /\ PodKnown
    BY <1>1, <1>2, <1>9 DEF FreshInv
  <2>2. Reachable'
    BY <2>1, <1>2 DEF Reachable
  <2>3. FirstResync'
    BY <2>1, <1>2 DEF FirstResync, Wanted, Holding
  <2>4. Applying'
    BY <2>1, <1>2 DEF Applying, Wanted
  <2>5. ObjKnown'
    <3>1. objKey \in Objectives /\ objectives \in [Objectives -> MaybeObj]
      BY <1>1, <1>3 DEF StoreTypes, ObjRecTypeOK, StoreTypeOK
    <3>2. /\ objectives'[objKey] = WantedObj(objArg)
          /\ \A o \in Objectives \ {objKey} : objectives'[o] = objectives[o]
      BY <1>3, <3>1
    <3>3. SUFFICES ASSUME NEW q \in Objectives, q \notin objQueue'
                   PROVE  objectives'[q] = WantedObj(apiObjs'[q])
      BY <1>3 DEF ObjKnown, WantedObj
    <3> QED BY <1>2, <1>3, <2>1, <3>2, <3>3 DEF ObjKnown
  <2>6. PodKnown'
    BY <2>1, <1>2, PodKnownFrame
  <2> QED BY <2>2, <2>3, <2>4, <2>5, <2>6 DEF FreshInv
<1> QED BY <1>4, <1>5, <1>6, <1>7, <1>8, <1>9 DEF StoreInv

\* A reader of the pool takes the read lock.
LEMMA PoolGetStep ==
  ASSUME StoreInv, NEW g \in Getters, PoolGet(g)
  PROVE  StoreInv'
<1>1. StoreTypes /\ Locked /\ Stored /\ Filtering /\ PoolKnown /\ (~reconfigured => FreshInv)
  BY DEF StoreInv
<1>2. /\ apiPool' = apiPool /\ apiPods' = apiPods /\ apiObjs' = apiObjs /\ changes' = changes
      /\ poolQueue' = poolQueue /\ podQueue' = podQueue /\ objQueue' = objQueue /\ podEvents' = podEvents
      /\ evNew' = evNew /\ pool' = pool /\ objectives' = objectives /\ pods' = pods /\ pms' = pms
      /\ writer' = writer /\ held' = held /\ poolPc' = poolPc /\ poolArg' = poolArg /\ todo' = todo
      /\ active' = active /\ cur' = cur /\ podPc' = podPc /\ podKey' = podKey /\ podArg' = podArg
      /\ objPc' = objPc /\ objKey' = objKey /\ objArg' = objArg /\ reconfigured' = reconfigured
  BY DEF PoolGet, apiVars, queues, storeVars, lockVars, poolRec, podRec, objRec
<1>3. StoreTypes'
  <2>1. ApiTypeOK'
    BY <1>1, <1>2 DEF StoreTypes, ApiTypeOK
  <2>2. QueuesTypeOK'
    BY <1>1, <1>2 DEF StoreTypes, QueuesTypeOK
  <2>3. StoreTypeOK'
    BY <1>1, <1>2 DEF StoreTypes, StoreTypeOK
  <2>4. PoolRecTypeOK'
    BY <1>1, <1>2 DEF StoreTypes, PoolRecTypeOK
  <2>5. PodRecTypeOK'
    BY <1>1, <1>2 DEF StoreTypes, PodRecTypeOK
  <2>6. ObjRecTypeOK'
    BY <1>1, <1>2 DEF StoreTypes, ObjRecTypeOK
  <2>7. reconfigured' \in BOOLEAN
    BY <1>1, <1>2 DEF StoreTypes
  <2> QED BY <2>1, <2>2, <2>3, <2>4, <2>5, <2>6, <2>7 DEF StoreTypes
<1>4. Locked'
  BY <1>1, <1>2 DEF Locked, Holding
<1>5. Stored'
  BY <1>1, <1>2 DEF Stored
<1>6. Filtering'
  BY <1>1, <1>2 DEF Filtering
<1>7. PoolKnown'
  BY <1>1, <1>2 DEF PoolKnown
<1>8. ASSUME ~reconfigured'
      PROVE  FreshInv'
  <2>1. ~reconfigured /\ Reachable /\ FirstResync /\ Applying /\ ObjKnown /\ PodKnown
    BY <1>1, <1>2, <1>8 DEF FreshInv
  <2>2. Reachable'
    BY <2>1, <1>2 DEF Reachable
  <2>3. FirstResync'
    BY <2>1, <1>2 DEF FirstResync, Wanted, Holding
  <2>4. Applying'
    BY <2>1, <1>2 DEF Applying, Wanted
  <2>5. ObjKnown'
    BY <2>1, <1>2 DEF ObjKnown, WantedObj
  <2>6. PodKnown'
    BY <2>1, <1>2, PodKnownFrame
  <2> QED BY <2>2, <2>3, <2>4, <2>5, <2>6 DEF FreshInv
<1> QED BY <1>3, <1>4, <1>5, <1>6, <1>7, <1>8 DEF StoreInv

\* It takes it again, and lets both go.
LEMMA PoolHasSyncedStep ==
  ASSUME StoreInv, NEW g \in Getters, PoolHasSynced(g)
  PROVE  StoreInv'
<1>1. StoreTypes /\ Locked /\ Stored /\ Filtering /\ PoolKnown /\ (~reconfigured => FreshInv)
  BY DEF StoreInv
<1>2. /\ apiPool' = apiPool /\ apiPods' = apiPods /\ apiObjs' = apiObjs /\ changes' = changes
      /\ poolQueue' = poolQueue /\ podQueue' = podQueue /\ objQueue' = objQueue /\ podEvents' = podEvents
      /\ evNew' = evNew /\ pool' = pool /\ objectives' = objectives /\ pods' = pods /\ pms' = pms
      /\ writer' = writer /\ held' = held /\ poolPc' = poolPc /\ poolArg' = poolArg /\ todo' = todo
      /\ active' = active /\ cur' = cur /\ podPc' = podPc /\ podKey' = podKey /\ podArg' = podArg
      /\ objPc' = objPc /\ objKey' = objKey /\ objArg' = objArg /\ reconfigured' = reconfigured
  BY DEF PoolHasSynced, apiVars, queues, storeVars, lockVars, poolRec, podRec, objRec
<1>3. StoreTypes'
  <2>1. ApiTypeOK'
    BY <1>1, <1>2 DEF StoreTypes, ApiTypeOK
  <2>2. QueuesTypeOK'
    BY <1>1, <1>2 DEF StoreTypes, QueuesTypeOK
  <2>3. StoreTypeOK'
    BY <1>1, <1>2 DEF StoreTypes, StoreTypeOK
  <2>4. PoolRecTypeOK'
    BY <1>1, <1>2 DEF StoreTypes, PoolRecTypeOK
  <2>5. PodRecTypeOK'
    BY <1>1, <1>2 DEF StoreTypes, PodRecTypeOK
  <2>6. ObjRecTypeOK'
    BY <1>1, <1>2 DEF StoreTypes, ObjRecTypeOK
  <2>7. reconfigured' \in BOOLEAN
    BY <1>1, <1>2 DEF StoreTypes
  <2> QED BY <2>1, <2>2, <2>3, <2>4, <2>5, <2>6, <2>7 DEF StoreTypes
<1>4. Locked'
  BY <1>1, <1>2 DEF Locked, Holding
<1>5. Stored'
  BY <1>1, <1>2 DEF Stored
<1>6. Filtering'
  BY <1>1, <1>2 DEF Filtering
<1>7. PoolKnown'
  BY <1>1, <1>2 DEF PoolKnown
<1>8. ASSUME ~reconfigured'
      PROVE  FreshInv'
  <2>1. ~reconfigured /\ Reachable /\ FirstResync /\ Applying /\ ObjKnown /\ PodKnown
    BY <1>1, <1>2, <1>8 DEF FreshInv
  <2>2. Reachable'
    BY <2>1, <1>2 DEF Reachable
  <2>3. FirstResync'
    BY <2>1, <1>2 DEF FirstResync, Wanted, Holding
  <2>4. Applying'
    BY <2>1, <1>2 DEF Applying, Wanted
  <2>5. ObjKnown'
    BY <2>1, <1>2 DEF ObjKnown, WantedObj
  <2>6. PodKnown'
    BY <2>1, <1>2, PodKnownFrame
  <2> QED BY <2>2, <2>3, <2>4, <2>5, <2>6 DEF FreshInv
<1> QED BY <1>3, <1>4, <1>5, <1>6, <1>7, <1>8 DEF StoreInv

-----------------------------------------------------------------------------
(* What the operations on podMetrics objects do.                             *)

\* A new object is the pod's, and the others are as they were.
LEMMA NewObject ==
  ASSUME StoreTypes, NEW p \in Pods, NEW v \in PodStates, NewPodMetrics(p, v)
  PROVE  /\ pods' \in [Pods -> Nat] /\ pms' \in Seq(PodMetricsObjects)
         /\ pods'[p] \in DOMAIN pms' /\ pods'[p] \notin DOMAIN pms /\ pods'[p] # 0
         /\ \A i \in DOMAIN pms' : i = pods'[p] \/ i \in DOMAIN pms
         /\ pms'[pods'[p]] = [pod |-> p, ip |-> v.ip, done |-> FALSE]
         /\ \A q \in Pods : q # p => pods'[q] = pods[q]
         /\ \A i \in DOMAIN pms : i \in DOMAIN pms' /\ pms'[i] = pms[i]
<1>1. pods \in [Pods -> Nat] /\ pms \in Seq(PodMetricsObjects)
  BY DEF StoreTypes, StoreTypeOK
<1>2. PICK o : o = [pod |-> p, ip |-> v.ip, done |-> FALSE]
  OBVIOUS
<1>3. o \in PodMetricsObjects
  BY <1>2 DEF PodMetricsObjects, Addresses
<1>4. pms' = Append(pms, o) /\ pods' = [pods EXCEPT ![p] = Len(pms) + 1]
  BY <1>2 DEF NewPodMetrics
<1>5. /\ pms' \in Seq(PodMetricsObjects) /\ Len(pms') = Len(pms) + 1 /\ pms'[Len(pms) + 1] = o
      /\ \A i \in 1..Len(pms) : pms'[i] = pms[i]
  BY <1>1, <1>3, <1>4
<1>6. Len(pms) \in Nat /\ DOMAIN pms = 1..Len(pms) /\ DOMAIN pms' = 1..(Len(pms) + 1)
  BY <1>1, <1>5
<1>7. pods' \in [Pods -> Nat] /\ pods'[p] = Len(pms) + 1 /\ \A q \in Pods : q # p => pods'[q] = pods[q]
  BY <1>1, <1>4, <1>6
<1> QED BY <1>2, <1>5, <1>6, <1>7

\* An update changes the address of the pod's object.
LEMMA UpdateObject ==
  ASSUME StoreTypes, Stored, NEW p \in Pods, pods[p] # 0, NEW v \in PodStates, podMetricsUpdatePod(p, v)
  PROVE  /\ pods' = pods /\ pms' \in Seq(PodMetricsObjects) /\ DOMAIN pms' = DOMAIN pms
         /\ pms'[pods[p]].ip = v.ip
         /\ \A i \in DOMAIN pms : /\ pms'[i].pod = pms[i].pod /\ pms'[i].done = pms[i].done
                                  /\ i # pods[p] => pms'[i].ip = pms[i].ip
<1>1. pms \in Seq(PodMetricsObjects) /\ pods[p] \in DOMAIN pms
  BY DEF StoreTypes, StoreTypeOK, Stored
<1>2. PICK x \in Addresses : x = v.ip
  BY DEF Addresses
<1>3. pods' = pods /\ pms' = [pms EXCEPT ![pods[p]].ip = x]
  BY <1>2 DEF podMetricsUpdatePod
<1>4. \A i \in DOMAIN pms : pms[i] \in PodMetricsObjects
  BY <1>1
<1>5. DOMAIN pms = 1..Len(pms) /\ Len(pms) \in Nat
  BY <1>1
<1>6. pms' = [i \in 1..Len(pms) |-> IF i = pods[p] THEN [pms[i] EXCEPT !.ip = x] ELSE pms[i]]
  BY <1>1, <1>3, <1>5
<1>7. \A i \in DOMAIN pms : /\ pms'[i] \in PodMetricsObjects /\ pms'[i].pod = pms[i].pod /\ pms'[i].done = pms[i].done
                            /\ pms'[i].ip = IF i = pods[p] THEN x ELSE pms[i].ip
  BY <1>4, <1>5, <1>6 DEF PodMetricsObjects
<1>8. pms' \in Seq(PodMetricsObjects) /\ DOMAIN pms' = DOMAIN pms
  BY <1>5, <1>6, <1>7
<1> QED BY <1>1, <1>2, <1>3, <1>7, <1>8

\* A deletion empties the pod's entry and stops its object's refresher.
LEMMA DeleteObject ==
  ASSUME StoreTypes, NEW p \in Pods, PodDelete(p)
  PROVE  /\ pods' \in [Pods -> Nat] /\ pods'[p] = 0 /\ \A q \in Pods : q # p => pods'[q] = pods[q]
         /\ pms' \in Seq(PodMetricsObjects) /\ DOMAIN pms' = DOMAIN pms
         /\ \A i \in DOMAIN pms : /\ pms'[i].pod = pms[i].pod /\ pms'[i].ip = pms[i].ip
                                  /\ IF i = pods[p] THEN pms'[i].done ELSE pms'[i].done = pms[i].done
<1>1. pods \in [Pods -> Nat] /\ pms \in Seq(PodMetricsObjects)
  BY DEF StoreTypes, StoreTypeOK
<1>2. /\ pods' = [pods EXCEPT ![p] = 0]
      /\ pms' = [i \in DOMAIN pms |-> IF i = pods[p] THEN [pms[i] EXCEPT !.done = TRUE] ELSE pms[i]]
  BY DEF PodDelete, StopRefreshLoops
<1>3. DOMAIN pms = 1..Len(pms) /\ Len(pms) \in Nat /\ \A i \in DOMAIN pms : pms[i] \in PodMetricsObjects
  BY <1>1
<1>4. \A i \in DOMAIN pms : /\ pms'[i] \in PodMetricsObjects /\ pms'[i].pod = pms[i].pod /\ pms'[i].ip = pms[i].ip
                            /\ IF i = pods[p] THEN pms'[i].done ELSE pms'[i].done = pms[i].done
  BY <1>2, <1>3 DEF PodMetricsObjects
<1>5. pms' \in Seq(PodMetricsObjects) /\ DOMAIN pms' = DOMAIN pms
  BY <1>2, <1>3, <1>4
<1>6. pods' \in [Pods -> Nat] /\ pods'[p] = 0 /\ \A q \in Pods : q # p => pods'[q] = pods[q]
  BY <1>1, <1>2
<1> QED BY <1>4, <1>5, <1>6

\* Events mean the same as long as the pool does.
LEMMA AnnouncedFrame ==
  ASSUME pool' = pool, podEvents' = podEvents, evNew' = evNew, NEW p
  PROVE  Announced(p)' <=> Announced(p)
BY DEF Announced, Hit

\* A pod's entry shows the same as long as its object has the same address.
LEMMA ShowsFrame ==
  ASSUME NEW p \in Pods, pool' = pool, apiPods' = apiPods, pods'[p] = pods[p],
         pods[p] # 0 => pms'[pods[p]].ip = pms[pods[p]].ip
  PROVE  Shows(p, apiPods[p])' <=> Shows(p, apiPods[p])
BY DEF Shows, Wanted

\* What the store makes of two states depends on the pool.
LEMMA SameFrame ==
  ASSUME pool' = pool, apiPods' = apiPods, active' = active, podArg' = podArg, NEW p
  PROVE  /\ Same(active[p], apiPods[p])' <=> Same(active[p], apiPods[p])
         /\ Same(podArg, apiPods[p])' <=> Same(podArg, apiPods[p])
BY DEF Same, Wanted

-----------------------------------------------------------------------------
(* Pod events, and the first PoolSet with its resync.                        *)

\* A pod changes: the event is let through, or the store makes the same of both states.
LEMMA ApiPodChangeStep ==
  ASSUME StoreInv, NEW p \in Pods, ApiPodChange(p)
  PROVE  StoreInv'
<1>1. StoreTypes /\ Locked /\ Stored /\ Filtering /\ PoolKnown /\ (~reconfigured => FreshInv)
  BY DEF StoreInv
<1>2. /\ apiPool' = apiPool /\ apiObjs' = apiObjs /\ poolQueue' = poolQueue /\ podQueue' = podQueue
      /\ objQueue' = objQueue /\ evNew' = evNew /\ pool' = pool /\ objectives' = objectives /\ pods' = pods
      /\ pms' = pms /\ writer' = writer /\ held' = held /\ readers' = readers /\ poolPc' = poolPc
      /\ poolArg' = poolArg /\ todo' = todo /\ active' = active /\ cur' = cur /\ podPc' = podPc
      /\ podKey' = podKey /\ podArg' = podArg /\ objPc' = objPc /\ objKey' = objKey /\ objArg' = objArg
      /\ reconfigured' = reconfigured
  BY DEF ApiPodChange, MaybePod, apiVars, queues, storeVars, lockVars, poolRec, podRec, objRec
<1>3. \E v \in MaybePod :
        /\ apiPods' = [apiPods EXCEPT ![p] = v] /\ changes' = changes + 1
        /\ podEvents' = Append(podEvents, [pod |-> p, old |-> apiPods[p], new |-> v])
  BY DEF ApiPodChange, MaybePod
<1>4. PICK v \in MaybePod :
        /\ apiPods' = [apiPods EXCEPT ![p] = v] /\ changes' = changes + 1
        /\ podEvents' = Append(podEvents, [pod |-> p, old |-> apiPods[p], new |-> v])
  BY <1>3
<1>5. PICK e : podEvents' = Append(podEvents, e) /\ e = [pod |-> p, old |-> apiPods[p], new |-> v]
  BY <1>4
<1>6. /\ e \in PodEvents /\ podEvents \in Seq(PodEvents) /\ podEvents' \in Seq(PodEvents)
      /\ podEvents'[Len(podEvents) + 1] = e
      /\ DOMAIN podEvents' = 1..(Len(podEvents) + 1) /\ DOMAIN podEvents = 1..Len(podEvents) /\ Len(podEvents) \in Nat
      /\ \A k \in DOMAIN podEvents : podEvents'[k] = podEvents[k]
  <2>1. e \in PodEvents /\ podEvents \in Seq(PodEvents)
    BY <1>1, <1>5 DEF StoreTypes, QueuesTypeOK, ApiTypeOK, PodEvents
  <2> QED BY <1>5, <2>1
<1>7. apiPods \in [Pods -> MaybePod] /\ apiPods'[p] = v /\ \A q \in Pods : q # p => apiPods'[q] = apiPods[q]
  BY <1>1, <1>4 DEF StoreTypes, ApiTypeOK
<1>8. StoreTypes'
  <2>1. ApiTypeOK'
    BY <1>1, <1>2, <1>4 DEF StoreTypes, ApiTypeOK
  <2>2. QueuesTypeOK'
    BY <1>1, <1>2, <1>6 DEF StoreTypes, QueuesTypeOK
  <2>3. StoreTypeOK'
    BY <1>1, <1>2 DEF StoreTypes, StoreTypeOK
  <2>4. PoolRecTypeOK'
    BY <1>1, <1>2 DEF StoreTypes, PoolRecTypeOK
  <2>5. PodRecTypeOK'
    BY <1>1, <1>2 DEF StoreTypes, PodRecTypeOK
  <2>6. ObjRecTypeOK'
    BY <1>1, <1>2 DEF StoreTypes, ObjRecTypeOK
  <2>7. reconfigured' \in BOOLEAN
    BY <1>1, <1>2 DEF StoreTypes
  <2> QED BY <2>1, <2>2, <2>3, <2>4, <2>5, <2>6, <2>7 DEF StoreTypes
<1>9. Locked'
  BY <1>1, <1>2 DEF Locked, Holding
<1>10. Stored'
  BY <1>1, <1>2 DEF Stored
<1>11. Filtering'
  BY <1>1, <1>2, <1>6 DEF Filtering
<1>12. PoolKnown'
  BY <1>1, <1>2 DEF PoolKnown
<1>13. ASSUME ~reconfigured'
       PROVE  FreshInv'
  <2>1. ~reconfigured /\ Reachable /\ FirstResync /\ Applying /\ ObjKnown /\ PodKnown
    BY <1>1, <1>2, <1>13 DEF FreshInv
  <2>2. Reachable'
    BY <2>1, <1>2 DEF Reachable
  <2>3. FirstResync'
    BY <2>1, <1>2 DEF FirstResync, Wanted, Holding
  <2>4. Applying'
    BY <2>1, <1>2 DEF Applying, Wanted
  <2>5. ObjKnown'
    BY <2>1, <1>2 DEF ObjKnown, WantedObj
  <2>6. PodKnown'
    <3>1. SUFFICES ASSUME NEW q \in Pods, pool # Absent, ~Due(q)' PROVE Settled(q)'
      BY <1>2 DEF PodKnown
    <3>2. \A k \in DOMAIN podEvents : k \in DOMAIN podEvents' /\ (Hit(k)' <=> Hit(k))
      BY <1>2, <1>6 DEF Hit
    <3>3. ~Due(q)
      BY <1>2, <1>6, <3>1, <3>2 DEF Due, Announced
    <3>4. Settled(q)
      BY <2>1, <3>1, <3>3 DEF PodKnown
    <3>5. CASE q # p
      <4>1. apiPods'[q] = apiPods[q]
        BY <1>7, <3>5
      <4> QED BY <1>2, <3>4, <4>1 DEF Settled, Resyncing, Reconciling, Same, Shows, Wanted
    <3>6. CASE q = p
      <4>a. PICK k \in DOMAIN podEvents' : k = Len(podEvents) + 1
        BY <1>6
      <4>1. podEvents'[k] = e /\ ~Hit(k)'
        BY <1>6, <1>5, <3>1, <3>6, <4>a DEF Due, Announced
      <4>2. evNew => k # 1
        BY <1>1, <1>6, <4>a DEF Filtering
      <4>3. ~PoolLabelsMatch(pool, v) /\ ~PoolLabelsMatch(pool, apiPods[p])
        BY <1>2, <1>6, <1>5, <4>1, <4>2 DEF Hit
      <4>4. ~Wanted(v) /\ ~Wanted(apiPods[p]) /\ \A w : Wanted(w)' <=> Wanted(w)
        BY <1>2, <4>3 DEF Wanted
      <4>5. ~Wanted(apiPods[p])'
        BY <1>2, <1>7, <4>3 DEF Wanted
      <4>6. /\ Same(active[p], apiPods[p]) => ~Wanted(active[p])
            /\ Same(podArg, apiPods[p]) => ~Wanted(podArg)
            /\ Shows(p, apiPods[p]) => pods[p] = 0
        BY <4>4 DEF Same, Shows
      <4>7. (~Wanted(active[p]) => ~Wanted(active[p])') /\ (~Wanted(podArg) => ~Wanted(podArg)')
        BY <1>2 DEF Wanted
      <4>8. /\ ~Wanted(active[p]) => Same(active[p], apiPods[p])'
            /\ ~Wanted(podArg) => Same(podArg, apiPods[p])'
            /\ pods[p] = 0 => Shows(p, apiPods[p])'
        BY <1>2, <4>5, <4>7 DEF Same, Shows
      <4> QED BY <1>2, <3>4, <3>6, <4>6, <4>8 DEF Settled, Resyncing, Reconciling
    <3> QED BY <3>5, <3>6
  <2> QED BY <2>2, <2>3, <2>4, <2>5, <2>6 DEF FreshInv
<1> QED BY <1>8, <1>9, <1>10, <1>11, <1>12, <1>13 DEF StoreInv

\* Nothing about a settled pod depends on the queues.
LEMMA SettledFrame ==
  ASSUME pool' = pool, poolPc' = poolPc, todo' = todo, active' = active, apiPods' = apiPods, podPc' = podPc,
         podKey' = podKey, podArg' = podArg, pods' = pods, pms' = pms, NEW p \in Pods
  PROVE  Settled(p)' <=> Settled(p)
<1>1. Shows(p, apiPods[p])' <=> Shows(p, apiPods[p])
  BY ShowsFrame
<1>2. /\ Same(active[p], apiPods[p])' <=> Same(active[p], apiPods[p])
      /\ Same(podArg, apiPods[p])' <=> Same(podArg, apiPods[p])
  BY SameFrame
<1> QED BY <1>1, <1>2 DEF Settled, Resyncing, Reconciling

\* The filter looks at the old labels of an event and then at the new ones.
LEMMA FilterPodEventStep ==
  ASSUME StoreInv, FilterPodEvent
  PROVE  StoreInv'
<1>1. StoreTypes /\ Locked /\ Stored /\ Filtering /\ PoolKnown /\ (~reconfigured => FreshInv)
  BY DEF StoreInv
<1>2. /\ apiPool' = apiPool /\ apiPods' = apiPods /\ apiObjs' = apiObjs /\ changes' = changes
      /\ poolQueue' = poolQueue /\ objQueue' = objQueue /\ pool' = pool /\ objectives' = objectives
      /\ pods' = pods /\ pms' = pms /\ writer' = writer /\ held' = held /\ readers' = readers /\ poolPc' = poolPc
      /\ poolArg' = poolArg /\ todo' = todo /\ active' = active /\ cur' = cur /\ podPc' = podPc
      /\ podKey' = podKey /\ podArg' = podArg /\ objPc' = objPc /\ objKey' = objKey /\ objArg' = objArg
      /\ reconfigured' = reconfigured
  BY DEF FilterPodEvent, apiVars, queues, storeVars, lockVars, poolRec, podRec, objRec
<1>3. /\ podEvents # <<>>
      /\ \E hit \in BOOLEAN :
           /\ hit <=> PoolLabelsMatch(pool, IF evNew THEN Head(podEvents).new ELSE Head(podEvents).old)
           /\ podQueue' = IF hit THEN podQueue \cup {Head(podEvents).pod} ELSE podQueue
           /\ evNew' = (~hit /\ ~evNew)
           /\ podEvents' = IF hit \/ evNew THEN Tail(podEvents) ELSE podEvents
  BY DEF FilterPodEvent
<1>4. /\ podEvents \in Seq(PodEvents) /\ Tail(podEvents) \in Seq(PodEvents) /\ Head(podEvents) = podEvents[1]
      /\ podEvents[1] \in PodEvents /\ Len(podEvents) \in Nat \ {0} /\ DOMAIN podEvents = 1..Len(podEvents)
      /\ DOMAIN Tail(podEvents) = 1..(Len(podEvents) - 1)
      /\ \A k \in 1..(Len(podEvents) - 1) : Tail(podEvents)[k] = podEvents[k + 1]
  <2>1. podEvents \in Seq(PodEvents) /\ podEvents # <<>>
    BY <1>1, <1>3 DEF StoreTypes, QueuesTypeOK
  <2>2. Len(podEvents) \in Nat \ {0} /\ DOMAIN podEvents = 1..Len(podEvents)
    BY <2>1
  <2> QED BY <2>1, <2>2
<1>5. PICK hit \in BOOLEAN :
        /\ hit <=> PoolLabelsMatch(pool, IF evNew THEN Head(podEvents).new ELSE Head(podEvents).old)
        /\ podQueue' = IF hit THEN podQueue \cup {Head(podEvents).pod} ELSE podQueue
        /\ evNew' = (~hit /\ ~evNew)
        /\ podEvents' = IF hit \/ evNew THEN Tail(podEvents) ELSE podEvents
  BY <1>3
<1>6. evNew' \in BOOLEAN /\ evNew \in BOOLEAN
  BY <1>1, <1>5 DEF StoreTypes, QueuesTypeOK
<1>7. StoreTypes'
  <2>1. ApiTypeOK'
    BY <1>1, <1>2 DEF StoreTypes, ApiTypeOK
  <2>2. QueuesTypeOK'
    <3>1. podQueue' \in SUBSET Pods
      BY <1>1, <1>4, <1>5 DEF StoreTypes, QueuesTypeOK, PodEvents
    <3>2. podEvents' \in Seq(PodEvents)
      BY <1>4, <1>5
    <3> QED BY <1>1, <1>2, <1>6, <3>1, <3>2 DEF StoreTypes, QueuesTypeOK
  <2>3. StoreTypeOK'
    BY <1>1, <1>2 DEF StoreTypes, StoreTypeOK
  <2>4. PoolRecTypeOK'
    BY <1>1, <1>2 DEF StoreTypes, PoolRecTypeOK
  <2>5. PodRecTypeOK'
    BY <1>1, <1>2 DEF StoreTypes, PodRecTypeOK
  <2>6. ObjRecTypeOK'
    BY <1>1, <1>2 DEF StoreTypes, ObjRecTypeOK
  <2>7. reconfigured' \in BOOLEAN
    BY <1>1, <1>2 DEF StoreTypes
  <2> QED BY <2>1, <2>2, <2>3, <2>4, <2>5, <2>6, <2>7 DEF StoreTypes
<1>8. Locked'
  BY <1>1, <1>2 DEF Locked, Holding
<1>9. Stored'
  BY <1>1, <1>2 DEF Stored
<1>10. Filtering'
  BY <1>3, <1>5 DEF Filtering
<1>11. PoolKnown'
  BY <1>1, <1>2 DEF PoolKnown
<1>12. ASSUME ~reconfigured'
       PROVE  FreshInv'
  <2>1. ~reconfigured /\ Reachable /\ FirstResync /\ Applying /\ ObjKnown /\ PodKnown
    BY <1>1, <1>2, <1>12 DEF FreshInv
  <2>2. Reachable'
    BY <2>1, <1>2 DEF Reachable
  <2>3. FirstResync'
    BY <2>1, <1>2 DEF FirstResync, Wanted, Holding
  <2>4. Applying'
    BY <2>1, <1>2 DEF Applying, Wanted
  <2>5. ObjKnown'
    BY <2>1, <1>2 DEF ObjKnown, WantedObj
  <2>6. PodKnown'
    <3>1. SUFFICES ASSUME NEW q \in Pods, pool # Absent, ~Due(q)' PROVE Settled(q)'
      BY <1>2 DEF PodKnown
    <3>2. q \notin podQueue /\ ~(podPc \in {"synced", "get"} /\ podKey = q) /\ ~Announced(q)'
      BY <1>2, <1>5, <3>1 DEF Due
    <3>3. ASSUME NEW k \in DOMAIN podEvents, podEvents[k].pod = q, Hit(k)
          PROVE  FALSE
      <4>1. CASE k = 1
        <5>1. ~hit
          BY <1>5, <1>4, <3>1, <3>3, <4>1 DEF Due
        <5>2. ~evNew
          BY <1>5, <1>4, <3>3, <4>1, <5>1 DEF Hit
        <5>3. podEvents' = podEvents /\ PoolLabelsMatch(pool, podEvents[k].new)
          BY <1>5, <1>4, <3>3, <4>1, <5>1, <5>2 DEF Hit
        <5>4. Hit(k)'
          BY <1>2, <5>3 DEF Hit
        <5> QED BY <3>2, <3>3, <5>3, <5>4 DEF Announced
      <4>2. CASE k # 1 /\ (hit \/ evNew)
        <5>1. podEvents' = Tail(podEvents) /\ ~evNew'
          BY <1>5, <4>2
        <5>2. PICK j \in DOMAIN podEvents' : j = k - 1
          BY <1>4, <4>2, <5>1
        <5>3. podEvents'[j] = podEvents[k]
          BY <1>4, <5>1, <5>2
        <5>4. Hit(j)'
          BY <1>2, <3>3, <5>1, <5>3 DEF Hit
        <5> QED BY <3>2, <3>3, <5>3, <5>4 DEF Announced
      <4>3. CASE k # 1 /\ ~hit /\ ~evNew
        <5>1. podEvents' = podEvents
          BY <1>5, <4>3
        <5>2. Hit(k)'
          BY <1>2, <3>3, <4>3, <5>1 DEF Hit
        <5> QED BY <3>2, <3>3, <5>1, <5>2 DEF Announced
      <4> QED BY <4>1, <4>2, <4>3
    <3>4. Settled(q)
      BY <2>1, <3>1, <3>2, <3>3 DEF PodKnown, Due, Announced
    <3> QED BY <1>2, <3>4, SettledFrame
  <2> QED BY <2>2, <2>3, <2>4, <2>5, <2>6 DEF FreshInv
<1> QED BY <1>7, <1>8, <1>9, <1>10, <1>11, <1>12 DEF StoreInv

\* The pool is set.  Before the store is reconfigured a resync is the first one.
LEMMA PoolSetStep ==
  ASSUME StoreInv, PoolSet
  PROVE  StoreInv'
<1>1. StoreTypes /\ Locked /\ Stored /\ Filtering /\ PoolKnown /\ (~reconfigured => FreshInv)
  BY DEF StoreInv
<1>2. /\ apiPool' = apiPool /\ apiPods' = apiPods /\ apiObjs' = apiObjs /\ changes' = changes
      /\ poolQueue' = poolQueue /\ podQueue' = podQueue /\ objQueue' = objQueue /\ podEvents' = podEvents
      /\ evNew' = evNew /\ objectives' = objectives /\ pods' = pods /\ pms' = pms /\ readers' = readers
      /\ poolArg' = poolArg /\ todo' = todo /\ active' = active /\ cur' = cur /\ podPc' = podPc
      /\ podKey' = podKey /\ podArg' = podArg /\ objPc' = objPc /\ objKey' = objKey /\ objArg' = objArg
  BY DEF PoolSet, KeepLocked, Unlock, apiVars, queues, storeVars, lockVars, poolRec, podRec, objRec
<1>3. /\ poolPc = "acquire" /\ poolArg # Absent /\ pool' = poolArg
      /\ IF NeedsResync(pool, poolArg) THEN writer' = "pool" /\ poolPc' = "list" ELSE poolPc' = "idle"
      /\ reconfigured' = (reconfigured \/ (pool # Absent /\ NeedsResync(pool, poolArg)))
  BY DEF PoolSet, KeepLocked, Unlock
<1>4. StoreTypes'
  <2>1. ApiTypeOK'
    BY <1>1, <1>2 DEF StoreTypes, ApiTypeOK
  <2>2. QueuesTypeOK'
    BY <1>1, <1>2 DEF StoreTypes, QueuesTypeOK
  <2>3. StoreTypeOK'
    BY <1>1, <1>2, <1>3 DEF StoreTypes, StoreTypeOK, PoolRecTypeOK
  <2>4. PoolRecTypeOK'
    BY <1>1, <1>2, <1>3 DEF StoreTypes, PoolRecTypeOK, Holding
  <2>5. PodRecTypeOK'
    BY <1>1, <1>2 DEF StoreTypes, PodRecTypeOK
  <2>6. ObjRecTypeOK'
    BY <1>1, <1>2 DEF StoreTypes, ObjRecTypeOK
  <2>7. reconfigured' \in BOOLEAN
    BY <1>1, <1>3 DEF StoreTypes
  <2> QED BY <2>1, <2>2, <2>3, <2>4, <2>5, <2>6, <2>7 DEF StoreTypes
<1>5. Locked'
  BY <1>1, <1>2, <1>3, <1>1 DEF Locked, Holding
<1>6. Stored'
  BY <1>1, <1>2, <1>3, <1>1 DEF Stored
<1>7. Filtering'
  BY <1>1, <1>2 DEF Filtering
<1>8. PoolKnown'
  BY <1>1, <1>2, <1>3, <1>1 DEF PoolKnown
<1>9. ASSUME ~reconfigured'
      PROVE  FreshInv'
  <2>1. ~reconfigured /\ Reachable /\ FirstResync /\ Applying /\ ObjKnown /\ PodKnown
    BY <1>1, <1>2, <1>3, <1>9 DEF FreshInv
  <2>2. Reachable'
    BY <2>1, <1>2 DEF Reachable
  <2>3. FirstResync'
    <3>1. CASE pool = Absent
      <4>1. poolPc' = "list" /\ pool' # Absent
        BY <1>3, <3>1 DEF NeedsResync
      <4> QED BY <2>1, <1>2, <3>1, <4>1 DEF FirstResync
    <3>2. CASE pool # Absent
      <4>1. poolPc' = "idle" /\ pool' # Absent
        BY <1>3, <1>9, <3>2
      <4> QED BY <2>1, <1>2, <3>2, <4>1 DEF FirstResync, Holding
    <3> QED BY <3>1, <3>2
  <2>4. Applying'
    <3>1. CASE pool = Absent
      BY <2>1, <1>2, <3>1 DEF FirstResync, Applying
    <3>2. CASE pool # Absent
      <4>1. pool'.sel = pool.sel /\ pool' # Absent
        BY <1>3, <1>9, <3>2 DEF NeedsResync
      <4> QED BY <2>1, <1>2, <3>2, <4>1 DEF Applying, Wanted, PoolLabelsMatch
    <3> QED BY <3>1, <3>2
  <2>5. ObjKnown'
    BY <2>1, <1>2 DEF ObjKnown, WantedObj
  <2>6. PodKnown'
    <3>1. CASE pool = Absent
      <4>1. poolPc' = "list" /\ podPc' \in {"idle", "synced"}
        BY <2>1, <1>2, <1>3, <3>1 DEF NeedsResync, FirstResync
      <4> QED BY <4>1 DEF PodKnown, Settled, Resyncing, Reconciling
    <3>2. CASE pool # Absent
      <4>1. pool'.sel = pool.sel /\ pool' # Absent /\ poolPc' = "idle"
        BY <1>3, <1>9, <3>2 DEF NeedsResync
      <4> QED BY <2>1, <1>2, <1>3, <3>2, <4>1, PodKnownQuiet DEF Resyncing
    <3> QED BY <3>1, <3>2
  <2> QED BY <2>2, <2>3, <2>4, <2>5, <2>6 DEF FreshInv
<1> QED BY <1>4, <1>5, <1>6, <1>7, <1>8, <1>9 DEF StoreInv

\* The ready pods the selector lists.
LEMMA ResyncListStep ==
  ASSUME StoreInv, ResyncList
  PROVE  StoreInv'
<1>1. StoreTypes /\ Locked /\ Stored /\ Filtering /\ PoolKnown /\ (~reconfigured => FreshInv)
  BY DEF StoreInv
<1>2. /\ apiPool' = apiPool /\ apiPods' = apiPods /\ apiObjs' = apiObjs /\ changes' = changes
      /\ poolQueue' = poolQueue /\ podQueue' = podQueue /\ objQueue' = objQueue /\ podEvents' = podEvents
      /\ evNew' = evNew /\ pool' = pool /\ objectives' = objectives /\ pods' = pods /\ pms' = pms
      /\ writer' = writer /\ held' = held /\ readers' = readers /\ poolArg' = poolArg /\ cur' = cur
      /\ podPc' = podPc /\ podKey' = podKey /\ podArg' = podArg /\ objPc' = objPc /\ objKey' = objKey
      /\ objArg' = objArg /\ reconfigured' = reconfigured
  BY DEF ResyncList, Wanted, apiVars, queues, storeVars, lockVars, poolRec, podRec, objRec
<1>3. /\ poolPc = "list" /\ poolPc' = "add" /\ todo' = {p \in Pods : active'[p] # Absent}
      /\ active' = [p \in Pods |-> IF Wanted(apiPods[p]) THEN apiPods[p] ELSE Absent]
  BY DEF ResyncList, Wanted
<1>4. /\ active' \in [Pods -> MaybePod] /\ todo' \in SUBSET Pods
      /\ \A p \in Pods : /\ active'[p] = IF Wanted(apiPods[p]) THEN apiPods[p] ELSE Absent
                         /\ Wanted(apiPods[p]) => apiPods[p] # Absent
                         /\ p \in todo' <=> Wanted(apiPods[p])
                         /\ p \in todo' => active'[p] \in PodStates
  <2>1. apiPods \in [Pods -> MaybePod]
    BY <1>1 DEF StoreTypes, ApiTypeOK
  <2>2. \A p \in Pods : Wanted(apiPods[p]) => apiPods[p] # Absent
    BY DEF Wanted, PoolLabelsMatch
  <2>3. \A p \in Pods : active'[p] = IF Wanted(apiPods[p]) THEN apiPods[p] ELSE Absent
    BY <1>3
  <2>4. \A p \in Pods : p \in todo' <=> Wanted(apiPods[p])
    BY <1>3, <2>2, <2>3
  <2>5. \A p \in Pods : active'[p] \in MaybePod /\ (Wanted(apiPods[p]) => active'[p] \in PodStates)
    BY <2>1, <2>2, <2>3 DEF MaybePod
  <2>6. active' \in [Pods -> MaybePod]
    BY <1>3, <2>5
  <2>7. todo' \in SUBSET Pods
    BY <1>3
  <2> QED BY <2>2, <2>3, <2>4, <2>5, <2>6, <2>7
<1>5. StoreTypes'
  <2>1. ApiTypeOK'
    BY <1>1, <1>2 DEF StoreTypes, ApiTypeOK
  <2>2. QueuesTypeOK'
    BY <1>1, <1>2 DEF StoreTypes, QueuesTypeOK
  <2>3. StoreTypeOK'
    BY <1>1, <1>2 DEF StoreTypes, StoreTypeOK
  <2>4. PoolRecTypeOK'
    BY <1>1, <1>2, <1>3, <1>4 DEF StoreTypes, PoolRecTypeOK, Holding
  <2>5. PodRecTypeOK'
    BY <1>1, <1>2 DEF StoreTypes, PodRecTypeOK
  <2>6. ObjRecTypeOK'
    BY <1>1, <1>2 DEF StoreTypes, ObjRecTypeOK
  <2>7. reconfigured' \in BOOLEAN
    BY <1>1, <1>2 DEF StoreTypes
  <2> QED BY <2>1, <2>2, <2>3, <2>4, <2>5, <2>6, <2>7 DEF StoreTypes
<1>6. Locked'
  BY <1>1, <1>2, <1>3, <1>4, <1>1 DEF Locked, Holding
<1>7. Stored'
  BY <1>1, <1>2, <1>3, <1>4, <1>1 DEF Stored
<1>8. Filtering'
  BY <1>1, <1>2 DEF Filtering
<1>9. PoolKnown'
  BY <1>1, <1>2, <1>3, <1>4, <1>1 DEF PoolKnown
<1>10. ASSUME ~reconfigured'
       PROVE  FreshInv'
  <2>1. ~reconfigured /\ Reachable /\ FirstResync /\ Applying /\ ObjKnown /\ PodKnown
    BY <1>1, <1>2, <1>10 DEF FreshInv
  <2>2. Reachable'
    BY <2>1, <1>2 DEF Reachable
  <2>3. FirstResync'
    <3>1. \A p \in todo' : Wanted(active[p])'
      BY <1>2, <1>4 DEF Wanted
    <3>2. pool # Absent /\ podPc \in {"idle", "synced"} /\ \A p \in Pods : pods[p] = 0
      BY <2>1, <1>3 DEF FirstResync, Holding
    <3> QED BY <1>2, <1>3, <1>4, <3>1, <3>2 DEF FirstResync, Holding
  <2>4. Applying'
    BY <2>1, <1>2 DEF Applying, Wanted
  <2>5. ObjKnown'
    BY <2>1, <1>2 DEF ObjKnown, WantedObj
  <2>6. PodKnown'
    <3>1. podPc \in {"idle", "synced"} /\ \A p \in Pods : pods[p] = 0
      BY <2>1, <1>3 DEF FirstResync, Holding
    <3>2. SUFFICES ASSUME NEW p \in Pods PROVE Settled(p)'
      BY DEF PodKnown
    <3>3. ~Reconciling(p)' /\ (Resyncing(p)' <=> Wanted(apiPods[p]))
      BY <1>2, <1>3, <1>4, <3>1 DEF Reconciling, Resyncing
    <3>4. Wanted(apiPods[p]) => Same(active[p], apiPods[p])'
      BY <1>2, <1>4 DEF Same, Wanted
    <3>5. ~Wanted(apiPods[p]) => Shows(p, apiPods[p])'
      BY <1>2, <3>1 DEF Shows, Wanted
    <3> QED BY <3>3, <3>4, <3>5 DEF Settled
  <2> QED BY <2>2, <2>3, <2>4, <2>5, <2>6 DEF FreshInv
<1> QED BY <1>5, <1>6, <1>7, <1>8, <1>9, <1>10 DEF StoreInv

\* The listing fails.
LEMMA ResyncListFailsStep ==
  ASSUME StoreInv, ResyncListFails
  PROVE  StoreInv'
<1>1. StoreTypes /\ Locked /\ Stored /\ Filtering /\ PoolKnown /\ (~reconfigured => FreshInv)
  BY DEF StoreInv
<1>2. /\ apiPool' = apiPool /\ apiPods' = apiPods /\ apiObjs' = apiObjs /\ changes' = changes
      /\ podQueue' = podQueue /\ objQueue' = objQueue /\ podEvents' = podEvents /\ evNew' = evNew /\ pool' = pool
      /\ objectives' = objectives /\ pods' = pods /\ pms' = pms /\ readers' = readers /\ poolArg' = poolArg
      /\ todo' = todo /\ active' = active /\ cur' = cur /\ podPc' = podPc /\ podKey' = podKey /\ podArg' = podArg
      /\ objPc' = objPc /\ objKey' = objKey /\ objArg' = objArg
  BY DEF ResyncListFails, Unlock, apiVars, queues, storeVars, lockVars, poolRec, podRec, objRec
<1>3. poolPc = "list" /\ poolQueue' = TRUE /\ poolPc' = "idle" /\ reconfigured' = TRUE
  BY DEF ResyncListFails, Unlock
<1>4. StoreTypes'
  <2>1. ApiTypeOK'
    BY <1>1, <1>2 DEF StoreTypes, ApiTypeOK
  <2>2. QueuesTypeOK'
    <3>1. poolQueue' \in BOOLEAN
      BY <1>3, Zenon
    <3> QED BY <1>1, <1>2, <3>1 DEF StoreTypes, QueuesTypeOK
  <2>3. StoreTypeOK'
    BY <1>1, <1>2 DEF StoreTypes, StoreTypeOK
  <2>4. PoolRecTypeOK'
    BY <1>1, <1>2, <1>3 DEF StoreTypes, PoolRecTypeOK, Holding
  <2>5. PodRecTypeOK'
    BY <1>1, <1>2 DEF StoreTypes, PodRecTypeOK
  <2>6. ObjRecTypeOK'
    BY <1>1, <1>2 DEF StoreTypes, ObjRecTypeOK
  <2>7. reconfigured' \in BOOLEAN
    BY <1>3, Zenon
  <2> QED BY <2>1, <2>2, <2>3, <2>4, <2>5, <2>6, <2>7 DEF StoreTypes
<1>5. Locked'
  BY <1>3 DEF Locked, Holding
<1>6. Stored'
  BY <1>1, <1>2, <1>3, <1>1 DEF Stored
<1>7. Filtering'
  BY <1>1, <1>2 DEF Filtering
<1>8. PoolKnown'
  BY <1>1, <1>2, <1>3, <1>1 DEF PoolKnown
<1>9. ~reconfigured' => FreshInv'
  BY <1>3, Zenon
<1> QED BY <1>4, <1>5, <1>6, <1>7, <1>8, <1>9 DEF StoreInv

\* A listed pod is looked up.  The first resync finds none in the map.
LEMMA ResyncLoadStep ==
  ASSUME StoreInv, NEW p \in Pods, ResyncLoad(p)
  PROVE  StoreInv'
<1>1. StoreTypes /\ Locked /\ Stored /\ Filtering /\ PoolKnown /\ (~reconfigured => FreshInv)
  BY DEF StoreInv
<1>2. /\ apiPool' = apiPool /\ apiPods' = apiPods /\ apiObjs' = apiObjs /\ changes' = changes
      /\ poolQueue' = poolQueue /\ podQueue' = podQueue /\ objQueue' = objQueue /\ podEvents' = podEvents
      /\ evNew' = evNew /\ pool' = pool /\ objectives' = objectives /\ writer' = writer /\ held' = held
      /\ readers' = readers /\ poolArg' = poolArg /\ active' = active /\ podPc' = podPc /\ podKey' = podKey
      /\ podArg' = podArg /\ objPc' = objPc /\ objKey' = objKey /\ objArg' = objArg
      /\ reconfigured' = reconfigured
  BY DEF ResyncLoad, apiVars, queues, storeVars, lockVars, poolRec, podRec, objRec
<1>3. /\ poolPc = "add" /\ p \in todo
      /\ \/ pods[p] = 0 /\ poolPc' = "store" /\ cur' = p /\ todo' = todo /\ pods' = pods /\ pms' = pms
         \/ pods[p] # 0 /\ podMetricsUpdatePod(p, active[p]) /\ todo' = todo \ {p} /\ poolPc' = poolPc /\ cur' = cur
  BY DEF ResyncLoad
<1>4. active[p] \in PodStates
  BY <1>1, <1>3 DEF StoreTypes, PoolRecTypeOK
<1>5. /\ pods' = pods /\ pms' \in Seq(PodMetricsObjects) /\ DOMAIN pms' = DOMAIN pms
      /\ \A i \in DOMAIN pms : pms'[i].pod = pms[i].pod /\ pms'[i].done = pms[i].done
  <2>1. CASE pods[p] = 0
    BY <1>1, <1>3, <2>1 DEF StoreTypes, StoreTypeOK
  <2>2. CASE pods[p] # 0
    BY <1>1, <1>3, <1>4, <2>2, UpdateObject
  <2> QED BY <2>1, <2>2
<1>6. StoreTypes'
  <2>1. ApiTypeOK'
    BY <1>1, <1>2 DEF StoreTypes, ApiTypeOK
  <2>2. QueuesTypeOK'
    BY <1>1, <1>2 DEF StoreTypes, QueuesTypeOK
  <2>3. StoreTypeOK'
    BY <1>1, <1>2, <1>5 DEF StoreTypes, StoreTypeOK
  <2>4. PoolRecTypeOK'
    BY <1>1, <1>2, <1>3 DEF StoreTypes, PoolRecTypeOK, Holding
  <2>5. PodRecTypeOK'
    BY <1>1, <1>2 DEF StoreTypes, PodRecTypeOK
  <2>6. ObjRecTypeOK'
    BY <1>1, <1>2 DEF StoreTypes, ObjRecTypeOK
  <2>7. reconfigured' \in BOOLEAN
    BY <1>1, <1>2 DEF StoreTypes
  <2> QED BY <2>1, <2>2, <2>3, <2>4, <2>5, <2>6, <2>7 DEF StoreTypes
<1>7. Locked'
  BY <1>1, <1>2, <1>3 DEF Locked, Holding
<1>8. Stored'
  BY <1>1, <1>3, <1>5 DEF Stored
<1>9. Filtering'
  BY <1>1, <1>2 DEF Filtering
<1>10. PoolKnown'
  BY <1>1, <1>2, <1>3 DEF PoolKnown
<1>11. ASSUME ~reconfigured'
       PROVE  FreshInv'
  <2>1. ~reconfigured /\ Reachable /\ FirstResync /\ Applying /\ ObjKnown /\ PodKnown
    BY <1>1, <1>2, <1>11 DEF FreshInv
  <2>2. Reachable'
    <3>1. pods[p] = 0
      BY <2>1, <1>3 DEF FirstResync
    <3> QED BY <2>1, <1>3, <3>1 DEF Reachable
  <2>3. FirstResync'
    <3>1. pods[p] = 0
      BY <2>1, <1>3 DEF FirstResync
    <3>2. \A v : Wanted(v)' <=> Wanted(v)
      BY <1>2 DEF Wanted
    <3> QED BY <2>1, <1>2, <1>3, <3>1, <3>2 DEF FirstResync, Wanted, Holding
  <2>4. Applying'
    BY <2>1, <1>2, <1>5 DEF Applying, Wanted
  <2>5. ObjKnown'
    BY <2>1, <1>2 DEF ObjKnown, WantedObj
  <2>6. PodKnown'
    <3>1. pods[p] = 0
      BY <2>1, <1>3 DEF FirstResync
    <3>2. poolPc' = "store" /\ todo' = todo /\ pods' = pods /\ pms' = pms
      BY <1>3, <3>1
    <3>3. SUFFICES ASSUME NEW q \in Pods, pool # Absent, ~Due(q)' PROVE Settled(q)'
      BY <1>2 DEF PodKnown
    <3>4. Announced(q)' <=> Announced(q)
      BY <1>2, AnnouncedFrame
    <3>5. Settled(q)
      BY <2>1, <1>2, <3>3, <3>4 DEF PodKnown, Due
    <3>6. /\ Same(active[q], apiPods[q])' <=> Same(active[q], apiPods[q])
          /\ Same(podArg, apiPods[q])' <=> Same(podArg, apiPods[q])
      BY <1>2, SameFrame
    <3>7. Shows(q, apiPods[q])' <=> Shows(q, apiPods[q])
      BY <1>2, <3>2, ShowsFrame
    <3> QED BY <1>2, <1>3, <3>2, <3>5, <3>6, <3>7 DEF Settled, Resyncing, Reconciling
  <2> QED BY <2>2, <2>3, <2>4, <2>5, <2>6 DEF FreshInv
<1> QED BY <1>6, <1>7, <1>8, <1>9, <1>10, <1>11 DEF StoreInv

\* It is stored.
LEMMA ResyncStoreStep ==
  ASSUME StoreInv, ResyncStore
  PROVE  StoreInv'
<1>1. StoreTypes /\ Locked /\ Stored /\ Filtering /\ PoolKnown /\ (~reconfigured => FreshInv)
  BY DEF StoreInv
<1>2. /\ apiPool' = apiPool /\ apiPods' = apiPods /\ apiObjs' = apiObjs /\ changes' = changes
      /\ poolQueue' = poolQueue /\ podQueue' = podQueue /\ objQueue' = objQueue /\ podEvents' = podEvents
      /\ evNew' = evNew /\ pool' = pool /\ objectives' = objectives /\ writer' = writer /\ held' = held
      /\ readers' = readers /\ poolArg' = poolArg /\ active' = active /\ cur' = cur /\ podPc' = podPc
      /\ podKey' = podKey /\ podArg' = podArg /\ objPc' = objPc /\ objKey' = objKey /\ objArg' = objArg
      /\ reconfigured' = reconfigured
  BY DEF ResyncStore, apiVars, queues, storeVars, lockVars, poolRec, podRec, objRec
<1>3. poolPc = "store" /\ NewPodMetrics(cur, active[cur]) /\ todo' = todo \ {cur} /\ poolPc' = "add"
  BY DEF ResyncStore
<1>4. cur \in Pods /\ cur \in todo /\ active[cur] \in PodStates
  BY <1>1, <1>3 DEF StoreTypes, PoolRecTypeOK
<1>5. /\ pods' \in [Pods -> Nat] /\ pms' \in Seq(PodMetricsObjects)
      /\ pods'[cur] \in DOMAIN pms' /\ pods'[cur] \notin DOMAIN pms /\ pods'[cur] # 0
      /\ \A i \in DOMAIN pms' : i = pods'[cur] \/ i \in DOMAIN pms
      /\ pms'[pods'[cur]] = [pod |-> cur, ip |-> active[cur].ip, done |-> FALSE]
      /\ \A q \in Pods : q # cur => pods'[q] = pods[q]
      /\ \A i \in DOMAIN pms : i \in DOMAIN pms' /\ pms'[i] = pms[i]
  BY <1>1, <1>3, <1>4, NewObject
<1>6. StoreTypes'
  <2>1. ApiTypeOK'
    BY <1>1, <1>2 DEF StoreTypes, ApiTypeOK
  <2>2. QueuesTypeOK'
    BY <1>1, <1>2 DEF StoreTypes, QueuesTypeOK
  <2>3. StoreTypeOK'
    BY <1>1, <1>2, <1>5 DEF StoreTypes, StoreTypeOK
  <2>4. PoolRecTypeOK'
    BY <1>1, <1>2, <1>3 DEF StoreTypes, PoolRecTypeOK, Holding
  <2>5. PodRecTypeOK'
    BY <1>1, <1>2 DEF StoreTypes, PodRecTypeOK
  <2>6. ObjRecTypeOK'
    BY <1>1, <1>2 DEF StoreTypes, ObjRecTypeOK
  <2>7. reconfigured' \in BOOLEAN
    BY <1>1, <1>2 DEF StoreTypes
  <2> QED BY <2>1, <2>2, <2>3, <2>4, <2>5, <2>6, <2>7 DEF StoreTypes
<1>7. Locked'
  BY <1>1, <1>2, <1>3 DEF Locked, Holding
<1>8. Stored'
  <2>1. SUFFICES ASSUME NEW q \in Pods, pods'[q] # 0
                 PROVE  pods'[q] \in DOMAIN pms' /\ pms'[pods'[q]].pod = q /\ ~pms'[pods'[q]].done
    BY DEF Stored
  <2>2. CASE q = cur
    <3>1. pms'[pods'[cur]].pod = cur /\ pms'[pods'[cur]].done = FALSE
      BY <1>5
    <3> QED BY <1>5, <2>2, <3>1
  <2>3. CASE q # cur
    BY <1>1, <1>3, <1>5, <2>1, <2>3 DEF Stored
  <2> QED BY <2>2, <2>3
<1>9. Filtering'
  BY <1>1, <1>2 DEF Filtering
<1>10. PoolKnown'
  BY <1>1, <1>2, <1>3 DEF PoolKnown
<1>11. ASSUME ~reconfigured'
       PROVE  FreshInv'
  <2>1. ~reconfigured /\ Reachable /\ FirstResync /\ Applying /\ ObjKnown /\ PodKnown
    BY <1>1, <1>2, <1>11 DEF FreshInv
  <2>2. Reachable'
    <3>1. pods[cur] = 0 /\ pms \in Seq(PodMetricsObjects)
      BY <2>1, <1>1, <1>3, <1>4 DEF FirstResync, StoreTypes, StoreTypeOK
    <3>2. \A i \in DOMAIN pms : i # 0 /\ pms[i] \in PodMetricsObjects
      BY <3>1
    <3>3. SUFFICES ASSUME NEW i \in DOMAIN pms', ~pms'[i].done PROVE pods'[pms'[i].pod] = i
      BY DEF Reachable
    <3>4. CASE i = pods'[cur]
      BY <1>5, <3>4
    <3>5. CASE i \in DOMAIN pms
      <4>1. pms'[i] = pms[i] /\ pods[pms[i].pod] = i /\ pms[i].pod \in Pods
        BY <2>1, <1>5, <3>2, <3>3, <3>5 DEF Reachable, PodMetricsObjects
      <4> QED BY <1>5, <3>1, <3>2, <3>5, <4>1
    <3> QED BY <1>5, <3>4, <3>5
  <2>3. FirstResync'
    <3>1. \A v : Wanted(v)' <=> Wanted(v)
      BY <1>2 DEF Wanted
    <3>2. active[cur] # Absent
      BY <1>4, DatastoreAssumption
    <3> QED BY <2>1, <1>1, <1>2, <1>3, <1>4, <1>5, <3>1, <3>2
           DEF FirstResync, Wanted, Holding, StoreTypes, PoolRecTypeOK
  <2>4. Applying'
    <3>1. podPc' \in {"idle", "synced"}
      BY <2>1, <1>2, <1>3 DEF FirstResync, Holding
    <3> QED BY <3>1 DEF Applying
  <2>5. ObjKnown'
    BY <2>1, <1>2 DEF ObjKnown, WantedObj
  <2>6. PodKnown'
    <3>1. podPc \in {"idle", "synced"} /\ Wanted(active[cur])
      BY <2>1, <1>3, <1>4 DEF FirstResync, Holding
    <3>2. SUFFICES ASSUME NEW q \in Pods, pool # Absent, ~Due(q)' PROVE Settled(q)'
      BY <1>2 DEF PodKnown
    <3>3. Announced(q)' <=> Announced(q)
      BY <1>2, AnnouncedFrame
    <3>4. Settled(q)
      BY <2>1, <1>2, <3>2, <3>3 DEF PodKnown, Due
    <3>5. /\ Same(active[q], apiPods[q])' <=> Same(active[q], apiPods[q])
          /\ Same(podArg, apiPods[q])' <=> Same(podArg, apiPods[q])
      BY <1>2, SameFrame
    <3>6. ~Reconciling(q) /\ ~Reconciling(q)'
      BY <1>2, <3>1 DEF Reconciling
    <3>7. CASE q = cur
      <4>1. Same(active[q], apiPods[q]) /\ ~Resyncing(q)'
        BY <1>3, <1>4, <3>4, <3>7 DEF Settled, Resyncing
      <4>2. pms'[pods'[cur]].ip = active[cur].ip
        BY <1>5
      <4>3. Shows(q, apiPods[q])'
        BY <1>2, <1>5, <3>1, <3>7, <4>1, <4>2 DEF Shows, Same, Wanted
      <4> QED BY <3>6, <3>7, <4>1, <4>3 DEF Settled
    <3>8. CASE q # cur
      <4>1. pods[q] # 0 => pms'[pods[q]].ip = pms[pods[q]].ip
        BY <1>1, <1>5 DEF Stored
      <4>2. Shows(q, apiPods[q])' <=> Shows(q, apiPods[q])
        BY <1>2, <1>5, <3>8, <4>1, ShowsFrame
      <4>3. Resyncing(q)' <=> Resyncing(q)
        BY <1>3, <3>8 DEF Resyncing
      <4> QED BY <1>3, <3>4, <3>5, <3>6, <4>2, <4>3 DEF Settled
    <3> QED BY <3>7, <3>8
  <2> QED BY <2>2, <2>3, <2>4, <2>5, <2>6 DEF FreshInv
<1> QED BY <1>6, <1>7, <1>8, <1>9, <1>10, <1>11 DEF StoreInv

\* Every listed pod is in the map; what is in the map beside them is to be pruned.
LEMMA ResyncRangeStep ==
  ASSUME StoreInv, ResyncRange
  PROVE  StoreInv'
<1>1. StoreTypes /\ Locked /\ Stored /\ Filtering /\ PoolKnown /\ (~reconfigured => FreshInv)
  BY DEF StoreInv
<1>2. /\ apiPool' = apiPool /\ apiPods' = apiPods /\ apiObjs' = apiObjs /\ changes' = changes
      /\ poolQueue' = poolQueue /\ podQueue' = podQueue /\ objQueue' = objQueue /\ podEvents' = podEvents
      /\ evNew' = evNew /\ pool' = pool /\ objectives' = objectives /\ pods' = pods /\ pms' = pms
      /\ writer' = writer /\ held' = held /\ readers' = readers /\ poolArg' = poolArg /\ active' = active
      /\ cur' = cur /\ podPc' = podPc /\ podKey' = podKey /\ podArg' = podArg /\ objPc' = objPc
      /\ objKey' = objKey /\ objArg' = objArg /\ reconfigured' = reconfigured
  BY DEF ResyncRange, apiVars, queues, storeVars, lockVars, poolRec, podRec, objRec
<1>3. poolPc = "add" /\ todo = {} /\ todo' = {p \in Pods : pods[p] # 0 /\ active[p] = Absent} /\ poolPc' = "prune"
  BY DEF ResyncRange
<1>4. StoreTypes'
  <2>1. ApiTypeOK'
    BY <1>1, <1>2 DEF StoreTypes, ApiTypeOK
  <2>2. QueuesTypeOK'
    BY <1>1, <1>2 DEF StoreTypes, QueuesTypeOK
  <2>3. StoreTypeOK'
    BY <1>1, <1>2 DEF StoreTypes, StoreTypeOK
  <2>4. PoolRecTypeOK'
    BY <1>1, <1>2, <1>3 DEF StoreTypes, PoolRecTypeOK, Holding
  <2>5. PodRecTypeOK'
    BY <1>1, <1>2 DEF StoreTypes, PodRecTypeOK
  <2>6. ObjRecTypeOK'
    BY <1>1, <1>2 DEF StoreTypes, ObjRecTypeOK
  <2>7. reconfigured' \in BOOLEAN
    BY <1>1, <1>2 DEF StoreTypes
  <2> QED BY <2>1, <2>2, <2>3, <2>4, <2>5, <2>6, <2>7 DEF StoreTypes
<1>5. Locked'
  BY <1>1, <1>2, <1>3 DEF Locked, Holding
<1>6. Stored'
  BY <1>1, <1>2, <1>3, <1>1 DEF Stored
<1>7. Filtering'
  BY <1>1, <1>2 DEF Filtering
<1>8. PoolKnown'
  BY <1>1, <1>2, <1>3, <1>1 DEF PoolKnown
<1>9. ASSUME ~reconfigured'
      PROVE  FreshInv'
  <2>1. ~reconfigured /\ Reachable /\ FirstResync /\ Applying /\ ObjKnown /\ PodKnown
    BY <1>1, <1>2, <1>9 DEF FreshInv
  <2>2. Reachable'
    BY <2>1, <1>2 DEF Reachable
  <2>3. FirstResync'
    BY <1>1, <1>2, <1>3, <2>1 DEF FirstResync, Wanted, Holding
  <2>4. Applying'
    BY <2>1, <1>2 DEF Applying, Wanted
  <2>5. ObjKnown'
    BY <2>1, <1>2 DEF ObjKnown, WantedObj
  <2>6. PodKnown'
    BY <2>1, <1>2, <1>3, PodKnownQuiet DEF Resyncing
  <2> QED BY <2>2, <2>3, <2>4, <2>5, <2>6 DEF FreshInv
<1> QED BY <1>4, <1>5, <1>6, <1>7, <1>8, <1>9 DEF StoreInv

\* A pod is pruned; the first resync prunes none.
LEMMA ResyncPruneStep ==
  ASSUME StoreInv, NEW p \in Pods, ResyncPrune(p)
  PROVE  StoreInv'
<1>1. StoreTypes /\ Locked /\ Stored /\ Filtering /\ PoolKnown /\ (~reconfigured => FreshInv)
  BY DEF StoreInv
<1>2. /\ apiPool' = apiPool /\ apiPods' = apiPods /\ apiObjs' = apiObjs /\ changes' = changes
      /\ poolQueue' = poolQueue /\ podQueue' = podQueue /\ objQueue' = objQueue /\ podEvents' = podEvents
      /\ evNew' = evNew /\ pool' = pool /\ objectives' = objectives /\ writer' = writer /\ held' = held
      /\ readers' = readers /\ poolPc' = poolPc /\ poolArg' = poolArg /\ active' = active /\ cur' = cur
      /\ podPc' = podPc /\ podKey' = podKey /\ podArg' = podArg /\ objPc' = objPc /\ objKey' = objKey
      /\ objArg' = objArg /\ reconfigured' = reconfigured
  BY DEF ResyncPrune, apiVars, queues, storeVars, lockVars, poolRec, podRec, objRec
<1>3. poolPc = "prune" /\ active[p] = Absent /\ (pods[p] # 0 \/ p \in todo) /\ PodDelete(p) /\ todo' = todo \ {p}
  BY DEF ResyncPrune
<1>4. /\ pods' \in [Pods -> Nat] /\ pods'[p] = 0 /\ \A q \in Pods : q # p => pods'[q] = pods[q]
      /\ pms' \in Seq(PodMetricsObjects) /\ DOMAIN pms' = DOMAIN pms
      /\ \A i \in DOMAIN pms : /\ pms'[i].pod = pms[i].pod /\ pms'[i].ip = pms[i].ip
                               /\ IF i = pods[p] THEN pms'[i].done ELSE pms'[i].done = pms[i].done
  BY <1>1, <1>3, DeleteObject
<1>5. StoreTypes'
  <2>1. ApiTypeOK'
    BY <1>1, <1>2 DEF StoreTypes, ApiTypeOK
  <2>2. QueuesTypeOK'
    BY <1>1, <1>2 DEF StoreTypes, QueuesTypeOK
  <2>3. StoreTypeOK'
    BY <1>1, <1>2, <1>4 DEF StoreTypes, StoreTypeOK
  <2>4. PoolRecTypeOK'
    BY <1>1, <1>2, <1>3 DEF StoreTypes, PoolRecTypeOK, Holding
  <2>5. PodRecTypeOK'
    BY <1>1, <1>2 DEF StoreTypes, PodRecTypeOK
  <2>6. ObjRecTypeOK'
    BY <1>1, <1>2 DEF StoreTypes, ObjRecTypeOK
  <2>7. reconfigured' \in BOOLEAN
    BY <1>1, <1>2 DEF StoreTypes
  <2> QED BY <2>1, <2>2, <2>3, <2>4, <2>5, <2>6, <2>7 DEF StoreTypes
<1>6. Locked'
  BY <1>1, <1>2 DEF Locked, Holding
<1>7. Stored'
  <2>1. SUFFICES ASSUME NEW q \in Pods, pods'[q] # 0
                 PROVE  /\ pods'[q] \in DOMAIN pms' /\ pms'[pods'[q]].pod = q
                        /\ pms'[pods'[q]].done => poolPc' = "clear"
    BY DEF Stored
  <2>2. q # p /\ pods'[q] = pods[q] /\ pods[q] # 0
    BY <1>4, <2>1
  <2>3. pods[q] # pods[p]
    BY <1>1, <2>2 DEF Stored
  <2> QED BY <1>1, <1>2, <1>4, <2>2, <2>3 DEF Stored
<1>8. Filtering'
  BY <1>1, <1>2 DEF Filtering
<1>9. PoolKnown'
  BY <1>1, <1>2 DEF PoolKnown
<1>10. ~reconfigured' => FreshInv'
  BY <1>1, <1>2, <1>3 DEF FreshInv, FirstResync
<1> QED BY <1>5, <1>6, <1>7, <1>8, <1>9, <1>10 DEF StoreInv

\* The resync is over.
LEMMA ResyncDoneStep ==
  ASSUME StoreInv, ResyncDone
  PROVE  StoreInv'
<1>1. StoreTypes /\ Locked /\ Stored /\ Filtering /\ PoolKnown /\ (~reconfigured => FreshInv)
  BY DEF StoreInv
<1>2. /\ apiPool' = apiPool /\ apiPods' = apiPods /\ apiObjs' = apiObjs /\ changes' = changes
      /\ poolQueue' = poolQueue /\ podQueue' = podQueue /\ objQueue' = objQueue /\ podEvents' = podEvents
      /\ evNew' = evNew /\ pool' = pool /\ objectives' = objectives /\ pods' = pods /\ pms' = pms
      /\ readers' = readers /\ poolArg' = poolArg /\ todo' = todo /\ active' = active /\ cur' = cur
      /\ podPc' = podPc /\ podKey' = podKey /\ podArg' = podArg /\ objPc' = objPc /\ objKey' = objKey
      /\ objArg' = objArg /\ reconfigured' = reconfigured
  BY DEF ResyncDone, Unlock, apiVars, queues, storeVars, lockVars, poolRec, podRec, objRec
<1>3. poolPc = "prune" /\ poolPc' = "idle"
  BY DEF ResyncDone, Unlock
<1>4. StoreTypes'
  <2>1. ApiTypeOK'
    BY <1>1, <1>2 DEF StoreTypes, ApiTypeOK
  <2>2. QueuesTypeOK'
    BY <1>1, <1>2 DEF StoreTypes, QueuesTypeOK
  <2>3. StoreTypeOK'
    BY <1>1, <1>2 DEF StoreTypes, StoreTypeOK
  <2>4. PoolRecTypeOK'
    BY <1>1, <1>2, <1>3 DEF StoreTypes, PoolRecTypeOK, Holding
  <2>5. PodRecTypeOK'
    BY <1>1, <1>2 DEF StoreTypes, PodRecTypeOK
  <2>6. ObjRecTypeOK'
    BY <1>1, <1>2 DEF StoreTypes, ObjRecTypeOK
  <2>7. reconfigured' \in BOOLEAN
    BY <1>1, <1>2 DEF StoreTypes
  <2> QED BY <2>1, <2>2, <2>3, <2>4, <2>5, <2>6, <2>7 DEF StoreTypes
<1>5. Locked'
  BY <1>1, <1>2, <1>3, <1>1 DEF Locked, Holding
<1>6. Stored'
  BY <1>1, <1>2, <1>3, <1>1 DEF Stored
<1>7. Filtering'
  BY <1>1, <1>2 DEF Filtering
<1>8. PoolKnown'
  BY <1>1, <1>2, <1>3, <1>1 DEF PoolKnown
<1>9. ASSUME ~reconfigured'
      PROVE  FreshInv'
  <2>1. ~reconfigured /\ Reachable /\ FirstResync /\ Applying /\ ObjKnown /\ PodKnown
    BY <1>1, <1>2, <1>9 DEF FreshInv
  <2>2. Reachable'
    BY <2>1, <1>2 DEF Reachable
  <2>3. FirstResync'
    BY <1>1, <1>2, <1>3, <2>1 DEF FirstResync, Wanted, Holding
  <2>4. Applying'
    BY <2>1, <1>2 DEF Applying, Wanted
  <2>5. ObjKnown'
    BY <2>1, <1>2 DEF ObjKnown, WantedObj
  <2>6. PodKnown'
    BY <2>1, <1>2, <1>3, PodKnownQuiet DEF Resyncing
  <2> QED BY <2>2, <2>3, <2>4, <2>5, <2>6 DEF FreshInv
<1> QED BY <1>4, <1>5, <1>6, <1>7, <1>8, <1>9 DEF StoreInv

-----------------------------------------------------------------------------
(* The pod reconciler.                                                       *)

\* A queued pod is taken up.
LEMMA PodReconcileStep ==
  ASSUME StoreInv, NEW p \in Pods, PodReconcile(p)
  PROVE  StoreInv'
<1>1. StoreTypes /\ Locked /\ Stored /\ Filtering /\ PoolKnown /\ (~reconfigured => FreshInv)
  BY DEF StoreInv
<1>2. /\ apiPool' = apiPool /\ apiPods' = apiPods /\ apiObjs' = apiObjs /\ changes' = changes
      /\ poolQueue' = poolQueue /\ objQueue' = objQueue /\ podEvents' = podEvents /\ evNew' = evNew
      /\ pool' = pool /\ objectives' = objectives /\ pods' = pods /\ pms' = pms /\ writer' = writer
      /\ held' = held /\ readers' = readers /\ poolPc' = poolPc /\ poolArg' = poolArg /\ todo' = todo
      /\ active' = active /\ cur' = cur /\ podArg' = podArg /\ objPc' = objPc /\ objKey' = objKey
      /\ objArg' = objArg /\ reconfigured' = reconfigured
  BY DEF PodReconcile, apiVars, queues, storeVars, lockVars, poolRec, podRec, objRec
<1>3. podPc = "idle" /\ podQueue' = podQueue \ {p} /\ podKey' = p /\ podPc' = "synced"
  BY DEF PodReconcile
<1>4. StoreTypes'
  <2>1. ApiTypeOK'
    BY <1>1, <1>2 DEF StoreTypes, ApiTypeOK
  <2>2. QueuesTypeOK'
    BY <1>1, <1>2, <1>3 DEF StoreTypes, QueuesTypeOK
  <2>3. StoreTypeOK'
    BY <1>1, <1>2 DEF StoreTypes, StoreTypeOK
  <2>4. PoolRecTypeOK'
    BY <1>1, <1>2 DEF StoreTypes, PoolRecTypeOK
  <2>5. PodRecTypeOK'
    BY <1>1, <1>2, <1>3 DEF StoreTypes, PodRecTypeOK, PodPcs, ApiTypeOK, QueuesTypeOK, MaybePod
  <2>6. ObjRecTypeOK'
    BY <1>1, <1>2 DEF StoreTypes, ObjRecTypeOK
  <2>7. reconfigured' \in BOOLEAN
    BY <1>1, <1>2 DEF StoreTypes
  <2> QED BY <2>1, <2>2, <2>3, <2>4, <2>5, <2>6, <2>7 DEF StoreTypes
<1>5. Locked'
  BY <1>1, <1>2 DEF Locked, Holding
<1>6. Stored'
  BY <1>1, <1>2 DEF Stored
<1>7. Filtering'
  BY <1>1, <1>2 DEF Filtering
<1>8. PoolKnown'
  BY <1>1, <1>2 DEF PoolKnown
<1>9. ASSUME ~reconfigured'
      PROVE  FreshInv'
  <2>1. ~reconfigured /\ Reachable /\ FirstResync /\ Applying /\ ObjKnown /\ PodKnown
    BY <1>1, <1>2, <1>9 DEF FreshInv
  <2>2. Reachable'
    BY <2>1, <1>2 DEF Reachable
  <2>3. FirstResync'
    BY <1>1, <1>2, <1>3, <2>1 DEF FirstResync, Wanted, Holding
  <2>4. Applying'
    BY <1>1, <1>2, <1>3, <2>1 DEF Applying, Wanted
  <2>5. ObjKnown'
    BY <2>1, <1>2 DEF ObjKnown, WantedObj
  <2>6. PodKnown'
    <3>1. SUFFICES ASSUME NEW q \in Pods, pool # Absent, ~Due(q)' PROVE Settled(q)'
      BY <1>2 DEF PodKnown
    <3>2. Announced(q)' <=> Announced(q)
      BY <1>2, AnnouncedFrame
    <3>3. Settled(q)
      BY <2>1, <1>2, <1>3, <3>1, <3>2 DEF PodKnown, Due
    <3>4. ~Reconciling(q) /\ ~Reconciling(q)' /\ (Resyncing(q)' <=> Resyncing(q))
      BY <1>2, <1>3 DEF Reconciling, Resyncing
    <3>5. /\ Same(active[q], apiPods[q])' <=> Same(active[q], apiPods[q])
          /\ Shows(q, apiPods[q])' <=> Shows(q, apiPods[q])
      BY <1>2, SameFrame, ShowsFrame
    <3> QED BY <1>2, <3>3, <3>4, <3>5 DEF Settled
  <2> QED BY <2>2, <2>3, <2>4, <2>5, <2>6 DEF FreshInv
<1> QED BY <1>4, <1>5, <1>6, <1>7, <1>8, <1>9 DEF StoreInv

\* Without a pool there is nothing to do; with one, no resync is under way.
LEMMA PodHasSyncedStep ==
  ASSUME StoreInv, PodHasSynced
  PROVE  StoreInv'
<1>1. StoreTypes /\ Locked /\ Stored /\ Filtering /\ PoolKnown /\ (~reconfigured => FreshInv)
  BY DEF StoreInv
<1>2. /\ apiPool' = apiPool /\ apiPods' = apiPods /\ apiObjs' = apiObjs /\ changes' = changes
      /\ poolQueue' = poolQueue /\ podQueue' = podQueue /\ objQueue' = objQueue /\ podEvents' = podEvents
      /\ evNew' = evNew /\ pool' = pool /\ objectives' = objectives /\ pods' = pods /\ pms' = pms
      /\ writer' = writer /\ held' = held /\ readers' = readers /\ poolPc' = poolPc /\ poolArg' = poolArg
      /\ todo' = todo /\ active' = active /\ cur' = cur /\ podKey' = podKey /\ podArg' = podArg /\ objPc' = objPc
      /\ objKey' = objKey /\ objArg' = objArg /\ reconfigured' = reconfigured
  BY DEF PodHasSynced, RLockFree, apiVars, queues, storeVars, lockVars, poolRec, podRec, objRec
<1>3. podPc = "synced" /\ writer = Absent /\ podPc' = IF pool = Absent THEN "idle" ELSE "get"
  BY DEF PodHasSynced, RLockFree
<1>4. poolPc \notin Holding
  BY <1>1, <1>3, DatastoreAssumption DEF Locked
<1>5. StoreTypes'
  <2>1. ApiTypeOK'
    BY <1>1, <1>2 DEF StoreTypes, ApiTypeOK
  <2>2. QueuesTypeOK'
    BY <1>1, <1>2 DEF StoreTypes, QueuesTypeOK
  <2>3. StoreTypeOK'
    BY <1>1, <1>2 DEF StoreTypes, StoreTypeOK
  <2>4. PoolRecTypeOK'
    BY <1>1, <1>2 DEF StoreTypes, PoolRecTypeOK
  <2>5. PodRecTypeOK'
    BY <1>1, <1>2, <1>3 DEF StoreTypes, PodRecTypeOK, PodPcs, ApiTypeOK, QueuesTypeOK, MaybePod
  <2>6. ObjRecTypeOK'
    BY <1>1, <1>2 DEF StoreTypes, ObjRecTypeOK
  <2>7. reconfigured' \in BOOLEAN
    BY <1>1, <1>2 DEF StoreTypes
  <2> QED BY <2>1, <2>2, <2>3, <2>4, <2>5, <2>6, <2>7 DEF StoreTypes
<1>6. Locked'
  BY <1>1, <1>2 DEF Locked, Holding
<1>7. Stored'
  BY <1>1, <1>2 DEF Stored
<1>8. Filtering'
  BY <1>1, <1>2 DEF Filtering
<1>9. PoolKnown'
  BY <1>1, <1>2 DEF PoolKnown
<1>10. ASSUME ~reconfigured'
       PROVE  FreshInv'
  <2>1. ~reconfigured /\ Reachable /\ FirstResync /\ Applying /\ ObjKnown /\ PodKnown
    BY <1>1, <1>2, <1>10 DEF FreshInv
  <2>2. Reachable'
    BY <2>1, <1>2 DEF Reachable
  <2>3. FirstResync'
    BY <1>1, <1>2, <1>3, <1>4, <2>1 DEF FirstResync, Wanted, Holding
  <2>4. Applying'
    BY <1>1, <1>2, <1>3, <1>4, <2>1 DEF Applying, Wanted
  <2>5. ObjKnown'
    BY <2>1, <1>2 DEF ObjKnown, WantedObj
  <2>6. PodKnown'
    <3>1. SUFFICES ASSUME NEW q \in Pods, pool # Absent, ~Due(q)' PROVE Settled(q)'
      BY <1>2 DEF PodKnown
    <3>2. Announced(q)' <=> Announced(q)
      BY <1>2, AnnouncedFrame
    <3>3. Settled(q)
      BY <2>1, <1>2, <1>3, <3>1, <3>2 DEF PodKnown, Due
    <3>4. ~Reconciling(q) /\ ~Reconciling(q)' /\ (Resyncing(q)' <=> Resyncing(q))
      BY <1>2, <1>3 DEF Reconciling, Resyncing
    <3>5. /\ Same(active[q], apiPods[q])' <=> Same(active[q], apiPods[q])
          /\ Shows(q, apiPods[q])' <=> Shows(q, apiPods[q])
      BY <1>2, SameFrame, ShowsFrame
    <3> QED BY <1>2, <3>3, <3>4, <3>5 DEF Settled
  <2> QED BY <2>2, <2>3, <2>4, <2>5, <2>6 DEF FreshInv
<1> QED BY <1>5, <1>6, <1>7, <1>8, <1>9, <1>10 DEF StoreInv

\* The pod is read.
LEMMA PodGetStep ==
  ASSUME StoreInv, PodGet
  PROVE  StoreInv'
<1>1. StoreTypes /\ Locked /\ Stored /\ Filtering /\ PoolKnown /\ (~reconfigured => FreshInv)
  BY DEF StoreInv
<1>2. /\ apiPool' = apiPool /\ apiPods' = apiPods /\ apiObjs' = apiObjs /\ changes' = changes
      /\ poolQueue' = poolQueue /\ podQueue' = podQueue /\ objQueue' = objQueue /\ podEvents' = podEvents
      /\ evNew' = evNew /\ pool' = pool /\ objectives' = objectives /\ pods' = pods /\ pms' = pms
      /\ writer' = writer /\ held' = held /\ readers' = readers /\ poolPc' = poolPc /\ poolArg' = poolArg
      /\ todo' = todo /\ active' = active /\ cur' = cur /\ podKey' = podKey /\ objPc' = objPc /\ objKey' = objKey
      /\ objArg' = objArg /\ reconfigured' = reconfigured
  BY DEF PodGet, apiVars, queues, storeVars, lockVars, poolRec, podRec, objRec
<1>3. /\ podPc = "get" /\ podArg' = apiPods[podKey]
      /\ podPc' = IF podArg' # Absent /\ IsPodReady(podArg') THEN "match" ELSE "delete"
  BY DEF PodGet
<1>4. podKey \in Pods /\ podArg' \in MaybePod
  BY <1>1, <1>3 DEF StoreTypes, PodRecTypeOK, ApiTypeOK
<1>5. StoreTypes'
  <2>1. ApiTypeOK'
    BY <1>1, <1>2 DEF StoreTypes, ApiTypeOK
  <2>2. QueuesTypeOK'
    BY <1>1, <1>2 DEF StoreTypes, QueuesTypeOK
  <2>3. StoreTypeOK'
    BY <1>1, <1>2 DEF StoreTypes, StoreTypeOK
  <2>4. PoolRecTypeOK'
    BY <1>1, <1>2 DEF StoreTypes, PoolRecTypeOK
  <2>5. PodRecTypeOK'
    BY <1>1, <1>2, <1>3, <1>4 DEF StoreTypes, PodRecTypeOK, PodPcs, MaybePod
  <2>6. ObjRecTypeOK'
    BY <1>1, <1>2 DEF StoreTypes, ObjRecTypeOK
  <2>7. reconfigured' \in BOOLEAN
    BY <1>1, <1>2 DEF StoreTypes
  <2> QED BY <2>1, <2>2, <2>3, <2>4, <2>5, <2>6, <2>7 DEF StoreTypes
<1>6. Locked'
  BY <1>1, <1>2 DEF Locked, Holding
<1>7. Stored'
  BY <1>1, <1>2 DEF Stored
<1>8. Filtering'
  BY <1>1, <1>2 DEF Filtering
<1>9. PoolKnown'
  BY <1>1, <1>2 DEF PoolKnown
<1>10. ASSUME ~reconfigured'
       PROVE  FreshInv'
  <2>1. ~reconfigured /\ Reachable /\ FirstResync /\ Applying /\ ObjKnown /\ PodKnown
    BY <1>1, <1>2, <1>10 DEF FreshInv
  <2>2. Reachable'
    BY <2>1, <1>2 DEF Reachable
  <2>3. FirstResync'
    BY <1>1, <1>2, <1>3, <1>4, <2>1 DEF FirstResync, Wanted, Holding
  <2>4. Applying'
    BY <1>3 DEF Applying, Wanted, PoolLabelsMatch
  <2>5. ObjKnown'
    BY <2>1, <1>2 DEF ObjKnown, WantedObj
  <2>6. PodKnown'
    <3>1. SUFFICES ASSUME NEW q \in Pods, pool # Absent, ~Due(q)' PROVE Settled(q)'
      BY <1>2 DEF PodKnown
    <3>2. Announced(q)' <=> Announced(q)
      BY <1>2, AnnouncedFrame
    <3>3. poolPc \notin Holding
      BY <2>1, <1>3 DEF FirstResync
    <3>4. CASE q = podKey
      <4>1. ~Resyncing(q)' /\ Reconciling(q)'
        BY <1>2, <1>3, <3>3, <3>4 DEF Resyncing, Reconciling, Holding
      <4>2. Same(podArg, apiPods[q])'
        BY <1>2, <1>3, <3>4 DEF Same, Wanted
      <4> QED BY <4>1, <4>2 DEF Settled
    <3>5. CASE q # podKey
      <4>1. Settled(q)
        BY <2>1, <1>2, <1>3, <3>1, <3>2, <3>5 DEF PodKnown, Due
      <4>2. ~Reconciling(q) /\ ~Reconciling(q)' /\ ~Resyncing(q) /\ ~Resyncing(q)'
        BY <1>2, <1>3, <3>3, <3>5 DEF Reconciling, Resyncing, Holding
      <4>3. Shows(q, apiPods[q])' <=> Shows(q, apiPods[q])
        BY <1>2, ShowsFrame
      <4> QED BY <1>2, <4>1, <4>2, <4>3 DEF Settled
    <3> QED BY <3>4, <3>5
  <2> QED BY <2>2, <2>3, <2>4, <2>5, <2>6 DEF FreshInv
<1> QED BY <1>5, <1>6, <1>7, <1>8, <1>9, <1>10 DEF StoreInv

\* Its labels are held against the pool.
LEMMA PodMatchStep ==
  ASSUME StoreInv, PodMatch
  PROVE  StoreInv'
<1>1. StoreTypes /\ Locked /\ Stored /\ Filtering /\ PoolKnown /\ (~reconfigured => FreshInv)
  BY DEF StoreInv
<1>2. /\ apiPool' = apiPool /\ apiPods' = apiPods /\ apiObjs' = apiObjs /\ changes' = changes
      /\ poolQueue' = poolQueue /\ podQueue' = podQueue /\ objQueue' = objQueue /\ podEvents' = podEvents
      /\ evNew' = evNew /\ pool' = pool /\ objectives' = objectives /\ pods' = pods /\ pms' = pms
      /\ writer' = writer /\ held' = held /\ readers' = readers /\ poolPc' = poolPc /\ poolArg' = poolArg
      /\ todo' = todo /\ active' = active /\ cur' = cur /\ podKey' = podKey /\ podArg' = podArg /\ objPc' = objPc
      /\ objKey' = objKey /\ objArg' = objArg /\ reconfigured' = reconfigured
  BY DEF PodMatch, apiVars, queues, storeVars, lockVars, poolRec, podRec, objRec
<1>3. podPc = "match" /\ podPc' = IF PoolLabelsMatch(pool, podArg) THEN "load" ELSE "delete"
  BY DEF PodMatch
<1>4. StoreTypes'
  <2>1. ApiTypeOK'
    BY <1>1, <1>2 DEF StoreTypes, ApiTypeOK
  <2>2. QueuesTypeOK'
    BY <1>1, <1>2 DEF StoreTypes, QueuesTypeOK
  <2>3. StoreTypeOK'
    BY <1>1, <1>2 DEF StoreTypes, StoreTypeOK
  <2>4. PoolRecTypeOK'
    BY <1>1, <1>2 DEF StoreTypes, PoolRecTypeOK
  <2>5. PodRecTypeOK'
    BY <1>1, <1>2, <1>3 DEF StoreTypes, PodRecTypeOK, PodPcs, ApiTypeOK, QueuesTypeOK, MaybePod
  <2>6. ObjRecTypeOK'
    BY <1>1, <1>2 DEF StoreTypes, ObjRecTypeOK
  <2>7. reconfigured' \in BOOLEAN
    BY <1>1, <1>2 DEF StoreTypes
  <2> QED BY <2>1, <2>2, <2>3, <2>4, <2>5, <2>6, <2>7 DEF StoreTypes
<1>5. Locked'
  BY <1>1, <1>2 DEF Locked, Holding
<1>6. Stored'
  BY <1>1, <1>2 DEF Stored
<1>7. Filtering'
  BY <1>1, <1>2 DEF Filtering
<1>8. PoolKnown'
  BY <1>1, <1>2 DEF PoolKnown
<1>9. ASSUME ~reconfigured'
      PROVE  FreshInv'
  <2>1. ~reconfigured /\ Reachable /\ FirstResync /\ Applying /\ ObjKnown /\ PodKnown
    BY <1>1, <1>2, <1>9 DEF FreshInv
  <2>2. Reachable'
    BY <2>1, <1>2 DEF Reachable
  <2>3. FirstResync'
    BY <1>1, <1>2, <1>3, <2>1 DEF FirstResync, Wanted, Holding
  <2>4. Applying'
    BY <2>1, <1>2, <1>3 DEF Applying, Wanted
  <2>5. ObjKnown'
    BY <2>1, <1>2 DEF ObjKnown, WantedObj
  <2>6. PodKnown'
    <3>1. SUFFICES ASSUME NEW q \in Pods, pool # Absent, ~Due(q)' PROVE Settled(q)'
      BY <1>2 DEF PodKnown
    <3>2. Announced(q)' <=> Announced(q)
      BY <1>2, AnnouncedFrame
    <3>3. Settled(q)
      BY <2>1, <1>2, <1>3, <3>1, <3>2 DEF PodKnown, Due
    <3>4. (Reconciling(q)' <=> Reconciling(q)) /\ (Resyncing(q)' <=> Resyncing(q))
      BY <1>2, <1>3 DEF Reconciling, Resyncing
    <3>5. /\ Same(active[q], apiPods[q])' <=> Same(active[q], apiPods[q])
          /\ Same(podArg, apiPods[q])' <=> Same(podArg, apiPods[q])
          /\ Shows(q, apiPods[q])' <=> Shows(q, apiPods[q])
      BY <1>2, SameFrame, ShowsFrame
    <3> QED BY <1>2, <3>3, <3>4, <3>5 DEF Settled
  <2> QED BY <2>2, <2>3, <2>4, <2>5, <2>6 DEF FreshInv
<1> QED BY <1>4, <1>5, <1>6, <1>7, <1>8, <1>9 DEF StoreInv

\* A pod the pool does not want is deleted.
LEMMA PodDeleteStepStep ==
  ASSUME StoreInv, PodDeleteStep
  PROVE  StoreInv'
<1>1. StoreTypes /\ Locked /\ Stored /\ Filtering /\ PoolKnown /\ (~reconfigured => FreshInv)
  BY DEF StoreInv
<1>2. /\ apiPool' = apiPool /\ apiPods' = apiPods /\ apiObjs' = apiObjs /\ changes' = changes
      /\ poolQueue' = poolQueue /\ podQueue' = podQueue /\ objQueue' = objQueue /\ podEvents' = podEvents
      /\ evNew' = evNew /\ pool' = pool /\ objectives' = objectives /\ writer' = writer /\ held' = held
      /\ readers' = readers /\ poolPc' = poolPc /\ poolArg' = poolArg /\ todo' = todo /\ active' = active
      /\ cur' = cur /\ podKey' = podKey /\ podArg' = podArg /\ objPc' = objPc /\ objKey' = objKey
      /\ objArg' = objArg /\ reconfigured' = reconfigured
  BY DEF PodDeleteStep, apiVars, queues, storeVars, lockVars, poolRec, podRec, objRec
<1>3. podPc = "delete" /\ PodDelete(podKey) /\ podPc' = "idle"
  BY DEF PodDeleteStep
<1>4. podKey \in Pods
  BY <1>1, <1>3 DEF StoreTypes, PodRecTypeOK
<1>5. /\ pods' \in [Pods -> Nat] /\ pods'[podKey] = 0 /\ \A q \in Pods : q # podKey => pods'[q] = pods[q]
      /\ pms' \in Seq(PodMetricsObjects) /\ DOMAIN pms' = DOMAIN pms
      /\ \A i \in DOMAIN pms : /\ pms'[i].pod = pms[i].pod /\ pms'[i].ip = pms[i].ip
                               /\ IF i = pods[podKey] THEN pms'[i].done ELSE pms'[i].done = pms[i].done
  BY <1>1, <1>3, <1>4, DeleteObject
<1>6. StoreTypes'
  <2>1. ApiTypeOK'
    BY <1>1, <1>2 DEF StoreTypes, ApiTypeOK
  <2>2. QueuesTypeOK'
    BY <1>1, <1>2 DEF StoreTypes, QueuesTypeOK
  <2>3. StoreTypeOK'
    BY <1>1, <1>2, <1>5 DEF StoreTypes, StoreTypeOK
  <2>4. PoolRecTypeOK'
    BY <1>1, <1>2 DEF StoreTypes, PoolRecTypeOK
  <2>5. PodRecTypeOK'
    BY <1>1, <1>2, <1>3 DEF StoreTypes, PodRecTypeOK, PodPcs, ApiTypeOK, QueuesTypeOK, MaybePod
  <2>6. ObjRecTypeOK'
    BY <1>1, <1>2 DEF StoreTypes, ObjRecTypeOK
  <2>7. reconfigured' \in BOOLEAN
    BY <1>1, <1>2 DEF StoreTypes
  <2> QED BY <2>1, <2>2, <2>3, <2>4, <2>5, <2>6, <2>7 DEF StoreTypes
<1>7. Locked'
  BY <1>1, <1>2 DEF Locked, Holding
<1>8. Stored'
  <2>1. SUFFICES ASSUME NEW q \in Pods, pods'[q] # 0
                 PROVE  /\ pods'[q] \in DOMAIN pms' /\ pms'[pods'[q]].pod = q
                        /\ pms'[pods'[q]].done => poolPc' = "clear"
    BY DEF Stored
  <2>2. q # podKey /\ pods'[q] = pods[q] /\ pods[q] # 0
    BY <1>5, <2>1
  <2>3. pods[q] # pods[podKey]
    BY <1>1, <1>4, <2>2 DEF Stored
  <2> QED BY <1>1, <1>2, <1>5, <2>2, <2>3 DEF Stored
<1>9. Filtering'
  BY <1>1, <1>2 DEF Filtering
<1>10. PoolKnown'
  BY <1>1, <1>2 DEF PoolKnown
<1>11. ASSUME ~reconfigured'
       PROVE  FreshInv'
  <2>1. ~reconfigured /\ Reachable /\ FirstResync /\ Applying /\ ObjKnown /\ PodKnown
    BY <1>1, <1>2, <1>11 DEF FreshInv
  <2>2. Reachable'
    <3>1. \A i \in DOMAIN pms : pms[i] \in PodMetricsObjects
      BY <1>1 DEF StoreTypes, StoreTypeOK
    <3>2. SUFFICES ASSUME NEW i \in DOMAIN pms, ~pms'[i].done PROVE pods'[pms'[i].pod] = i
      BY <1>5 DEF Reachable
    <3>3. i # pods[podKey] /\ ~pms[i].done
      BY <1>5, <3>2
    <3>4. pods[pms[i].pod] = i /\ pms[i].pod \in Pods
      BY <2>1, <3>1, <3>3 DEF Reachable, PodMetricsObjects
    <3> QED BY <1>5, <3>3, <3>4
  <2>3. FirstResync'
    <3>1. pool # Absent /\ poolPc \notin Holding
      BY <2>1, <1>3 DEF FirstResync
    <3> QED BY <1>2, <1>3, <3>1 DEF FirstResync, Holding
  <2>4. Applying'
    BY <1>3 DEF Applying
  <2>5. ObjKnown'
    BY <2>1, <1>2 DEF ObjKnown, WantedObj
  <2>6. PodKnown'
    <3>1. SUFFICES ASSUME NEW q \in Pods, pool # Absent, ~Due(q)' PROVE Settled(q)'
      BY <1>2 DEF PodKnown
    <3>2. Announced(q)' <=> Announced(q)
      BY <1>2, AnnouncedFrame
    <3>3. Settled(q)
      BY <2>1, <1>2, <1>3, <3>1, <3>2 DEF PodKnown, Due
    <3>q. poolPc \notin Holding
      BY <2>1, <1>3 DEF FirstResync
    <3>4. ~Resyncing(q) /\ ~Resyncing(q)' /\ ~Reconciling(q)'
      BY <1>2, <1>3, <3>q DEF Resyncing, Reconciling, Holding
    <3>5. CASE q = podKey
      <4>1. Same(podArg, apiPods[q])
        BY <1>3, <3>3, <3>5 DEF Settled, Reconciling
      <4>2. Shows(q, apiPods[q])'
        BY <1>2, <1>5, <1>4, <2>1, <1>3, <3>5, <4>1 DEF Shows, Same, Wanted, Applying
      <4> QED BY <3>4, <4>2 DEF Settled
    <3>6. CASE q # podKey
      <4>1. pods[q] # 0 => pms'[pods[q]].ip = pms[pods[q]].ip
        BY <1>1, <1>5, <1>4, <3>6 DEF Stored
      <4>2. Shows(q, apiPods[q])' <=> Shows(q, apiPods[q])
        BY <1>2, <1>5, <1>4, <3>6, <4>1, ShowsFrame
      <4>3. ~Reconciling(q)
        BY <3>6 DEF Reconciling
      <4> QED BY <1>2, <3>3, <3>4, <4>2, <4>3 DEF Settled
    <3> QED BY <3>5, <3>6
  <2> QED BY <2>2, <2>3, <2>4, <2>5, <2>6 DEF FreshInv
<1> QED BY <1>6, <1>7, <1>8, <1>9, <1>10, <1>11 DEF StoreInv

\* A pod the pool wants is looked up, and brought up to date if it is there.
LEMMA PodLoadStep ==
  ASSUME StoreInv, PodLoad
  PROVE  StoreInv'
<1>1. StoreTypes /\ Locked /\ Stored /\ Filtering /\ PoolKnown /\ (~reconfigured => FreshInv)
  BY DEF StoreInv
<1>2. /\ apiPool' = apiPool /\ apiPods' = apiPods /\ apiObjs' = apiObjs /\ changes' = changes
      /\ poolQueue' = poolQueue /\ podQueue' = podQueue /\ objQueue' = objQueue /\ podEvents' = podEvents
      /\ evNew' = evNew /\ pool' = pool /\ objectives' = objectives /\ writer' = writer /\ held' = held
      /\ readers' = readers /\ poolPc' = poolPc /\ poolArg' = poolArg /\ todo' = todo /\ active' = active
      /\ cur' = cur /\ podKey' = podKey /\ podArg' = podArg /\ objPc' = objPc /\ objKey' = objKey
      /\ objArg' = objArg /\ reconfigured' = reconfigured
  BY DEF PodLoad, apiVars, queues, storeVars, lockVars, poolRec, podRec, objRec
<1>3. /\ podPc = "load"
      /\ \/ pods[podKey] = 0 /\ podPc' = "store" /\ pods' = pods /\ pms' = pms
         \/ pods[podKey] # 0 /\ podPc' = "idle" /\ podMetricsUpdatePod(podKey, podArg)
  BY DEF PodLoad
<1>4. podKey \in Pods /\ podArg \in PodStates
  BY <1>1, <1>3 DEF StoreTypes, PodRecTypeOK
<1>5. /\ pods' = pods /\ pms' \in Seq(PodMetricsObjects) /\ DOMAIN pms' = DOMAIN pms
      /\ podPc' = "idle" => pods[podKey] # 0 /\ pms'[pods[podKey]].ip = podArg.ip
      /\ \A i \in DOMAIN pms : /\ pms'[i].pod = pms[i].pod /\ pms'[i].done = pms[i].done
                               /\ i # pods[podKey] => pms'[i].ip = pms[i].ip
  <2>1. CASE pods[podKey] = 0
    BY <1>1, <1>3, <2>1 DEF StoreTypes, StoreTypeOK
  <2>2. CASE pods[podKey] # 0
    BY <1>1, <1>3, <1>4, <2>2, UpdateObject
  <2> QED BY <2>1, <2>2
<1>6. StoreTypes'
  <2>1. ApiTypeOK'
    BY <1>1, <1>2 DEF StoreTypes, ApiTypeOK
  <2>2. QueuesTypeOK'
    BY <1>1, <1>2 DEF StoreTypes, QueuesTypeOK
  <2>3. StoreTypeOK'
    BY <1>1, <1>2, <1>5 DEF StoreTypes, StoreTypeOK
  <2>4. PoolRecTypeOK'
    BY <1>1, <1>2 DEF StoreTypes, PoolRecTypeOK
  <2>5. PodRecTypeOK'
    BY <1>1, <1>2, <1>3 DEF StoreTypes, PodRecTypeOK, PodPcs, ApiTypeOK, QueuesTypeOK, MaybePod
  <2>6. ObjRecTypeOK'
    BY <1>1, <1>2 DEF StoreTypes, ObjRecTypeOK
  <2>7. reconfigured' \in BOOLEAN
    BY <1>1, <1>2 DEF StoreTypes
  <2> QED BY <2>1, <2>2, <2>3, <2>4, <2>5, <2>6, <2>7 DEF StoreTypes
<1>7. Locked'
  BY <1>1, <1>2 DEF Locked, Holding
<1>8. Stored'
  BY <1>1, <1>2, <1>5 DEF Stored
<1>9. Filtering'
  BY <1>1, <1>2 DEF Filtering
<1>10. PoolKnown'
  BY <1>1, <1>2 DEF PoolKnown
<1>11. ASSUME ~reconfigured'
       PROVE  FreshInv'
  <2>1. ~reconfigured /\ Reachable /\ FirstResync /\ Applying /\ ObjKnown /\ PodKnown
    BY <1>1, <1>2, <1>11 DEF FreshInv
  <2>2. Reachable'
    BY <2>1, <1>5 DEF Reachable
  <2>3. FirstResync'
    <3>1. pool # Absent /\ poolPc \notin Holding
      BY <2>1, <1>3 DEF FirstResync
    <3> QED BY <1>2, <1>3, <3>1 DEF FirstResync, Holding
  <2>4. Applying'
    <3>1. Wanted(podArg)'
      BY <2>1, <1>2, <1>3 DEF Applying, Wanted
    <3> QED BY <1>2, <1>3, <3>1 DEF Applying
  <2>5. ObjKnown'
    BY <2>1, <1>2 DEF ObjKnown, WantedObj
  <2>6. PodKnown'
    <3>1. SUFFICES ASSUME NEW q \in Pods, pool # Absent, ~Due(q)' PROVE Settled(q)'
      BY <1>2 DEF PodKnown
    <3>2. Announced(q)' <=> Announced(q)
      BY <1>2, AnnouncedFrame
    <3>3. Settled(q)
      BY <2>1, <1>2, <1>3, <3>1, <3>2 DEF PodKnown, Due
    <3>4. ~Resyncing(q) /\ ~Resyncing(q)'
      BY <2>1, <1>2, <1>3 DEF Resyncing, FirstResync, Holding
    <3>5. (Same(podArg, apiPods[q])' <=> Same(podArg, apiPods[q])) /\ Wanted(podArg)
      BY <1>2, <2>1, <1>3, SameFrame DEF Applying
    <3>6. CASE q = podKey
      <4>1. Same(podArg, apiPods[q])
        BY <1>3, <3>3, <3>6 DEF Settled, Reconciling
      <4>2. CASE podPc' = "store"
        BY <1>2, <3>4, <3>5, <3>6, <4>1, <4>2 DEF Settled, Reconciling
      <4>3. CASE podPc' = "idle"
        <5>1. Shows(q, apiPods[q])'
          BY <1>2, <1>5, <3>5, <3>6, <4>1, <4>3 DEF Shows, Same, Wanted
        <5> QED BY <3>4, <4>3, <5>1 DEF Settled, Reconciling
      <4> QED BY <1>3, <4>2, <4>3
    <3>7. CASE q # podKey
      <4>1. pods[q] # 0 => pms'[pods[q]].ip = pms[pods[q]].ip
        BY <1>1, <1>4, <1>5, <3>7 DEF Stored
      <4>2. Shows(q, apiPods[q])' <=> Shows(q, apiPods[q])
        BY <1>2, <1>5, <3>7, <4>1, ShowsFrame
      <4>3. ~Reconciling(q) /\ ~Reconciling(q)'
        BY <1>2, <3>7 DEF Reconciling
      <4> QED BY <1>2, <3>3, <3>4, <4>2, <4>3 DEF Settled
    <3> QED BY <3>6, <3>7
  <2> QED BY <2>2, <2>3, <2>4, <2>5, <2>6 DEF FreshInv
<1> QED BY <1>6, <1>7, <1>8, <1>9, <1>10, <1>11 DEF StoreInv

\* A new pod is stored.
LEMMA PodStoreStep ==
  ASSUME StoreInv, PodStore
  PROVE  StoreInv'
<1>1. StoreTypes /\ Locked /\ Stored /\ Filtering /\ PoolKnown /\ (~reconfigured => FreshInv)
  BY DEF StoreInv
<1>2. /\ apiPool' = apiPool /\ apiPods' = apiPods /\ apiObjs' = apiObjs /\ changes' = changes
      /\ poolQueue' = poolQueue /\ podQueue' = podQueue /\ objQueue' = objQueue /\ podEvents' = podEvents
      /\ evNew' = evNew /\ pool' = pool /\ objectives' = objectives /\ writer' = writer /\ held' = held
      /\ readers' = readers /\ poolPc' = poolPc /\ poolArg' = poolArg /\ todo' = todo /\ active' = active
      /\ cur' = cur /\ podKey' = podKey /\ podArg' = podArg /\ objPc' = objPc /\ objKey' = objKey
      /\ objArg' = objArg /\ reconfigured' = reconfigured
  BY DEF PodStore, apiVars, queues, storeVars, lockVars, poolRec, podRec, objRec
<1>3. podPc = "store" /\ NewPodMetrics(podKey, podArg) /\ podPc' = "idle"
  BY DEF PodStore
<1>4. podKey \in Pods /\ podArg \in PodStates
  BY <1>1, <1>3 DEF StoreTypes, PodRecTypeOK
<1>5. /\ pods' \in [Pods -> Nat] /\ pms' \in Seq(PodMetricsObjects)
      /\ pods'[podKey] \in DOMAIN pms' /\ pods'[podKey] \notin DOMAIN pms /\ pods'[podKey] # 0
      /\ \A i \in DOMAIN pms' : i = pods'[podKey] \/ i \in DOMAIN pms
      /\ pms'[pods'[podKey]] = [pod |-> podKey, ip |-> podArg.ip, done |-> FALSE]
      /\ \A q \in Pods : q # podKey => pods'[q] = pods[q]
      /\ \A i \in DOMAIN pms : i \in DOMAIN pms' /\ pms'[i] = pms[i]
  BY <1>1, <1>3, <1>4, NewObject
<1>6. StoreTypes'
  <2>1. ApiTypeOK'
    BY <1>1, <1>2 DEF StoreTypes, ApiTypeOK
  <2>2. QueuesTypeOK'
    BY <1>1, <1>2 DEF StoreTypes, QueuesTypeOK
  <2>3. StoreTypeOK'
    BY <1>1, <1>2, <1>5 DEF StoreTypes, StoreTypeOK
  <2>4. PoolRecTypeOK'
    BY <1>1, <1>2 DEF StoreTypes, PoolRecTypeOK
  <2>5. PodRecTypeOK'
    BY <1>1, <1>2, <1>3 DEF StoreTypes, PodRecTypeOK, PodPcs, ApiTypeOK, QueuesTypeOK, MaybePod
  <2>6. ObjRecTypeOK'
    BY <1>1, <1>2 DEF StoreTypes, ObjRecTypeOK
  <2>7. reconfigured' \in BOOLEAN
    BY <1>1, <1>2 DEF StoreTypes
  <2> QED BY <2>1, <2>2, <2>3, <2>4, <2>5, <2>6, <2>7 DEF StoreTypes
<1>7. Locked'
  BY <1>1, <1>2 DEF Locked, Holding
<1>8. Stored'
  <2>1. SUFFICES ASSUME NEW q \in Pods, pods'[q] # 0
                 PROVE  /\ pods'[q] \in DOMAIN pms' /\ pms'[pods'[q]].pod = q
                        /\ pms'[pods'[q]].done => poolPc' = "clear"
    BY DEF Stored
  <2>2. CASE q = podKey
    <3>1. pms'[pods'[podKey]].pod = podKey /\ pms'[pods'[podKey]].done = FALSE
      BY <1>5
    <3> QED BY <1>5, <2>2, <3>1
  <2>3. CASE q # podKey
    BY <1>1, <1>2, <1>5, <2>1, <2>3 DEF Stored
  <2> QED BY <2>2, <2>3
<1>9. Filtering'
  BY <1>1, <1>2 DEF Filtering
<1>10. PoolKnown'
  BY <1>1, <1>2 DEF PoolKnown
<1>11. ASSUME ~reconfigured'
       PROVE  FreshInv'
  <2>1. ~reconfigured /\ Reachable /\ FirstResync /\ Applying /\ ObjKnown /\ PodKnown
    BY <1>1, <1>2, <1>11 DEF FreshInv
  <2>2. Reachable'
    <3>1. pods[podKey] = 0 /\ pms \in Seq(PodMetricsObjects)
      BY <2>1, <1>1, <1>3 DEF Applying, StoreTypes, StoreTypeOK
    <3>2. \A i \in DOMAIN pms : i # 0 /\ pms[i] \in PodMetricsObjects
      BY <3>1
    <3>3. SUFFICES ASSUME NEW i \in DOMAIN pms', ~pms'[i].done PROVE pods'[pms'[i].pod] = i
      BY DEF Reachable
    <3>4. CASE i = pods'[podKey]
      BY <1>5, <3>4
    <3>5. CASE i \in DOMAIN pms
      <4>1. pms'[i] = pms[i] /\ pods[pms[i].pod] = i /\ pms[i].pod \in Pods
        BY <2>1, <1>5, <3>2, <3>3, <3>5 DEF Reachable, PodMetricsObjects
      <4> QED BY <1>5, <3>1, <3>2, <3>5, <4>1
    <3> QED BY <1>5, <3>4, <3>5
  <2>3. FirstResync'
    <3>1. pool # Absent /\ poolPc \notin Holding
      BY <2>1, <1>3 DEF FirstResync
    <3> QED BY <1>2, <1>3, <3>1 DEF FirstResync, Holding
  <2>4. Applying'
    BY <1>3 DEF Applying
  <2>5. ObjKnown'
    BY <2>1, <1>2 DEF ObjKnown, WantedObj
  <2>6. PodKnown'
    <3>1. SUFFICES ASSUME NEW q \in Pods, pool # Absent, ~Due(q)' PROVE Settled(q)'
      BY <1>2 DEF PodKnown
    <3>2. Announced(q)' <=> Announced(q)
      BY <1>2, AnnouncedFrame
    <3>3. Settled(q)
      BY <2>1, <1>2, <1>3, <3>1, <3>2 DEF PodKnown, Due
    <3>n. /\ podKey \in Pods /\ pods'[podKey] # 0 /\ pms'[pods'[podKey]].ip = podArg.ip
          /\ \A p \in Pods : p # podKey => pods'[p] = pods[p]
          /\ \A i \in DOMAIN pms : pms'[i] = pms[i]
      BY <1>4, <1>5
    <3>q. poolPc \notin Holding
      BY <2>1, <1>3 DEF FirstResync
    <3>4. ~Resyncing(q) /\ ~Resyncing(q)' /\ ~Reconciling(q)'
      BY <1>2, <1>3, <3>q DEF Resyncing, Reconciling, Holding
    <3>5. CASE q = podKey
      <4>1. Same(podArg, apiPods[q])
        BY <1>3, <3>3, <3>5 DEF Settled, Reconciling
      <4>2. Shows(q, apiPods[q])'
        BY <1>2, <3>n, <2>1, <1>3, <3>5, <4>1 DEF Shows, Same, Wanted, Applying
      <4> QED BY <3>4, <4>2 DEF Settled
    <3>6. CASE q # podKey
      <4>1. pods[q] # 0 => pms'[pods[q]].ip = pms[pods[q]].ip
        BY <1>1, <3>n, <3>6 DEF Stored
      <4>2. Shows(q, apiPods[q])' <=> Shows(q, apiPods[q])
        BY <1>2, <3>n, <3>6, <4>1, ShowsFrame
      <4>3. ~Reconciling(q)
        BY <3>6 DEF Reconciling
      <4> QED BY <1>2, <3>3, <3>4, <4>2, <4>3 DEF Settled
    <3> QED BY <3>5, <3>6
  <2> QED BY <2>2, <2>3, <2>4, <2>5, <2>6 DEF FreshInv
<1> QED BY <1>6, <1>7, <1>8, <1>9, <1>10, <1>11 DEF StoreInv

-----------------------------------------------------------------------------
(* The theorems.                                                             *)

\* Nothing is stored and nothing is under way.
LEMMA InitStoreInv == StoreInit => StoreInv
<1> SUFFICES ASSUME StoreInit PROVE StoreInv
  OBVIOUS
<1>1. ApiTypeOK
  BY DEF StoreInit, ApiTypeOK, MaybePool, MaybePod, MaybeObj
<1>2. QueuesTypeOK
  <2>1. poolQueue \in BOOLEAN /\ evNew \in BOOLEAN
    BY Zenon DEF StoreInit
  <2> QED BY <2>1 DEF StoreInit, QueuesTypeOK
<1>3. StoreTypeOK
  BY DEF StoreInit, StoreTypeOK, MaybePool, MaybeObj
<1>4. PoolRecTypeOK /\ PodRecTypeOK /\ ObjRecTypeOK
  BY DEF StoreInit, PoolRecTypeOK, PodRecTypeOK, ObjRecTypeOK, PodPcs, MaybePool, MaybePod, MaybeObj
<1>5. reconfigured \in BOOLEAN /\ ~evNew
  BY Zenon DEF StoreInit
<1>6. Locked /\ Stored /\ Filtering /\ PoolKnown
  BY <1>5 DEF StoreInit, Locked, Stored, Filtering, PoolKnown, Holding
<1>7. Reachable /\ FirstResync /\ Applying /\ PodKnown
  BY DEF StoreInit, Reachable, FirstResync, Applying, PodKnown, Holding
<1>8. ObjKnown
  BY DEF StoreInit, ObjKnown, WantedObj, eventPredicate
<1> QED BY <1>1, <1>2, <1>3, <1>4, <1>5, <1>6, <1>7, <1>8 DEF StoreInv, StoreTypes, FreshInv

\* A step in which none of the variables changes.
LEMMA StutterStep ==
  ASSUME StoreInv, UNCHANGED datastoreVars
  PROVE  StoreInv'
<1>1. /\ UNCHANGED <<apiPool, apiPods, apiObjs, changes, poolQueue, podQueue, objQueue, podEvents, evNew>>
      /\ UNCHANGED <<pool, objectives, pods, pms, writer, held, readers, poolPc, poolArg, todo, active, cur>>
      /\ UNCHANGED <<podPc, podKey, podArg, objPc, objKey, objArg, reconfigured>>
  BY DEF datastoreVars, apiVars, queues, storeVars, lockVars, poolRec, podRec, objRec
<1>2. StoreTypes'
  BY <1>1 DEF StoreInv, StoreTypes, ApiTypeOK, QueuesTypeOK, StoreTypeOK, PoolRecTypeOK, PodRecTypeOK, ObjRecTypeOK
<1>3. (Locked /\ Stored /\ Filtering /\ PoolKnown)'
  BY <1>1 DEF StoreInv, Locked, Stored, Filtering, PoolKnown
<1>4. ASSUME ~reconfigured' PROVE FreshInv'
  <2>1. Reachable /\ FirstResync /\ Applying /\ ObjKnown /\ PodKnown
    BY <1>1, <1>4 DEF StoreInv, FreshInv
  <2>2. (Reachable /\ FirstResync /\ Applying)'
    BY <1>1, <2>1 DEF Reachable, FirstResync, Applying, Wanted
  <2>3. ObjKnown'
    BY <1>1, <2>1 DEF ObjKnown, WantedObj
  <2>4. PodKnown'
    BY <1>1, <2>1, PodKnownFrame
  <2> QED BY <2>2, <2>3, <2>4 DEF FreshInv
<1> QED BY <1>2, <1>3, <1>4 DEF StoreInv

\* Every step keeps the invariant.
LEMMA NextStoreInv == StoreInv /\ [StoreNext]_datastoreVars => StoreInv'
<1> SUFFICES ASSUME StoreInv, [StoreNext]_datastoreVars PROVE StoreInv'
  OBVIOUS
<1>1. CASE ApiPoolChange
  BY <1>1, ApiPoolChangeStep
<1>2. CASE FilterPodEvent
  BY <1>2, FilterPodEventStep
<1>3. CASE PoolReconcile
  BY <1>3, PoolReconcileStep
<1>4. CASE PoolLock
  BY <1>4, PoolLockStep
<1>5. CASE Clear
  BY <1>5, ClearStep
<1>6. CASE ClearStop
  BY <1>6, ClearStopStep
<1>7. CASE ClearPods
  BY <1>7, ClearPodsStep
<1>8. CASE PoolSet
  BY <1>8, PoolSetStep
<1>9. CASE ResyncList
  BY <1>9, ResyncListStep
<1>10. CASE ResyncListFails
  BY <1>10, ResyncListFailsStep
<1>11. CASE ResyncStore
  BY <1>11, ResyncStoreStep
<1>12. CASE ResyncRange
  BY <1>12, ResyncRangeStep
<1>13. CASE ResyncDone
  BY <1>13, ResyncDoneStep
<1>14. CASE PodHasSynced
  BY <1>14, PodHasSyncedStep
<1>15. CASE PodGet
  BY <1>15, PodGetStep
<1>16. CASE PodMatch
  BY <1>16, PodMatchStep
<1>17. CASE PodDeleteStep
  BY <1>17, PodDeleteStepStep
<1>18. CASE PodLoad
  BY <1>18, PodLoadStep
<1>19. CASE PodStore
  BY <1>19, PodStoreStep
<1>20. CASE ObjLock
  BY <1>20, ObjLockStep
<1>21. CASE ObjWrite
  BY <1>21, ObjWriteStep
<1>22. ASSUME NEW p \in Pods, ApiPodChange(p) PROVE StoreInv'
  BY <1>22, ApiPodChangeStep
<1>23. ASSUME NEW o \in Objectives, ApiObjChange(o) PROVE StoreInv'
  BY <1>23, ApiObjChangeStep
<1>24. ASSUME NEW p \in Pods, ResyncLoad(p) PROVE StoreInv'
  BY <1>24, ResyncLoadStep
<1>25. ASSUME NEW p \in Pods, ResyncPrune(p) PROVE StoreInv'
  BY <1>25, ResyncPruneStep
<1>26. ASSUME NEW p \in Pods, PodReconcile(p) PROVE StoreInv'
  BY <1>26, PodReconcileStep
<1>27. ASSUME NEW o \in Objectives, ObjReconcile(o) PROVE StoreInv'
  BY <1>27, ObjReconcileStep
<1>28. ASSUME NEW g \in Getters, PoolGet(g) PROVE StoreInv'
  BY <1>28, PoolGetStep
<1>29. ASSUME NEW g \in Getters, PoolHasSynced(g) PROVE StoreInv'
  BY <1>29, PoolHasSyncedStep
<1>30. CASE UNCHANGED datastoreVars
  BY <1>30, StutterStep
<1> QED BY <1>1, <1>2, <1>3, <1>4, <1>5, <1>6, <1>7, <1>8, <1>9, <1>10, <1>11, <1>12, <1>13, <1>14, <1>15,
           <1>16, <1>17, <1>18, <1>19, <1>20, <1>21, <1>22, <1>23, <1>24, <1>25, <1>26, <1>27, <1>28, <1>29, <1>30
        DEF StoreNext, PoolStep, PodStep, ObjStep

\* The datastore's invariant: types, the lock around a resync and a Clear, the
\* map and its objects, and, until the store is reconfigured, that nothing the
\* API says is lost between the event filters, the reconcilers and the resync.
THEOREM StoreInvariance == StoreSpec => []StoreInv
<1>1. StoreInit => StoreInv
  BY InitStoreInv
<1>2. StoreInv /\ [StoreNext]_datastoreVars => StoreInv'
  BY NextStoreInv
<1> QED BY <1>1, <1>2, PTL DEF StoreSpec

\* Refreshers and stored pods belong together (datastore.go, PodDelete and
\* Clear stop what they remove; PodUpdateOrAddIfNotExist starts one per entry).
THEOREM RefreshersBelongToPods == StoreSpec => []RefreshersExact
<1>1. StoreInv => RefreshersExact
  BY DEF StoreInv, Stored, FreshInv, Reachable, RefreshersExact
<1> QED BY <1>1, StoreInvariance, PTL

\* With every event handled the store agrees with the API unless the pool has
\* been reconfigured: the event filters, the three reconcilers and the resync
\* of the first PoolSet lose no change between them.
THEOREM StoreConverges == StoreSpec => []StoreConvergesUnlessReconfigured
<1>1. StoreInv => StoreConvergesUnlessReconfigured
  <2>1. SUFFICES ASSUME StoreInv, ~reconfigured, Quiescent PROVE Consistent
    BY DEF StoreConvergesUnlessReconfigured
  <2>2. StoreTypes /\ Stored /\ PoolKnown /\ Reachable /\ FirstResync /\ ObjKnown /\ PodKnown
    BY <2>1 DEF StoreInv, FreshInv
  <2>3. pool = apiPool
    BY <2>1, <2>2 DEF Quiescent, PoolKnown
  <2>4. ASSUME NEW o \in Objectives
        PROVE  objectives[o] = IF eventPredicate(apiObjs[o]) THEN apiObjs[o] ELSE Absent
    BY <2>1, <2>2 DEF Quiescent, ObjKnown, WantedObj
  <2>5. ASSUME NEW p \in Pods PROVE Shows(p, apiPods[p])
    <3>1. CASE pool = Absent
      BY <2>2, <3>1 DEF FirstResync, Shows, Wanted, PoolLabelsMatch
    <3>2. CASE pool # Absent
      <4>1. ~Due(p)
        BY <2>1 DEF Quiescent, Due, Announced
      <4> QED BY <2>1, <2>2, <3>2, <4>1 DEF Quiescent, PodKnown, Settled, Resyncing, Reconciling
    <3> QED BY <3>1, <3>2
  <2> QED BY <2>3, <2>4, <2>5 DEF Consistent, Shows, Wanted
<1> QED BY <1>1, StoreInvariance, PTL
=============================================================================
