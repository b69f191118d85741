------------------------ MODULE ShardProcessorProofs ------------------------
(***************************************************************************)
(* Theorems about ShardProcessor, for any set of requests, flows, bands,   *)
(* sizes and capacities that satisfy the module's assumptions.             *)
(***************************************************************************)
EXTENDS ShardProcessor, FiniteSetTheorems, WellFoundedInduction,
        SequenceTheorems, TLAPS

-----------------------------------------------------------------------------
(* Minima *)

\* A non-empty set of naturals has a least element: < is well founded.
LEMMA NatMin ==
  ASSUME NEW S \in SUBSET Nat, S # {}
  PROVE  \E m \in S : \A k \in S : m <= k
<1> DEFINE R == OpToRel(<, Nat)
<1>1. IsWellFoundedOn(R, Nat)
  BY NatLessThanWellFounded
<1>2. \A x, y \in Nat : <<x, y>> \in R <=> x < y
  BY DEF OpToRel
<1> HIDE DEF R
<1>3. \E m \in S : \A k \in S : ~ (<<k, m>> \in R)
  BY <1>1, WFMin
<1>4. PICK m \in S : \A k \in S : ~ (<<k, m>> \in R)
  BY <1>3
<1>5. \A k \in S : k \in Nat /\ m \in Nat
  BY <1>4
<1>6. \A k \in S : ~ (k < m)
  BY <1>2, <1>4, <1>5
<1> QED
  BY <1>4, <1>5, <1>6

-----------------------------------------------------------------------------
(* The bytes of a set of requests *)

\* One request: its bytes are finite and there are SizeOf[i] of them.
LEMMA BytesOne ==
  ASSUME NEW i \in Items
  PROVE  /\ IsFiniteSet(ByteSet({i}))
         /\ Bytes({i}) = SizeOf[i]
<1>1. ByteSet({i}) = {i} \X (1 .. SizeOf[i])
  BY DEF ByteSet
<1>2. SizeOf[i] \in Nat
  BY SizesAssumption
<1>3. /\ IsFiniteSet(1 .. SizeOf[i])
      /\ Cardinality(1 .. SizeOf[i]) = SizeOf[i]
  BY <1>2, FS_Interval, SMTT(30)
<1>4. IsFiniteSet({i}) /\ Cardinality({i}) = 1
  BY FS_Singleton
<1>5. /\ IsFiniteSet({i} \X (1 .. SizeOf[i]))
      /\ Cardinality({i} \X (1 .. SizeOf[i])) = 1 * SizeOf[i]
  BY <1>3, <1>4, FS_Product, ZenonT(30)
<1> QED
  BY <1>1, <1>2, <1>5 DEF Bytes, ByteSet

\* Disjoint sets of requests have disjoint sets of bytes.
LEMMA ByteSetDisjoint ==
  ASSUME NEW S, NEW T, S \cap T = {}
  PROVE  /\ ByteSet(S \cup T) = ByteSet(S) \cup ByteSet(T)
         /\ ByteSet(S) \cap ByteSet(T) = {}
<1>1. \A U, p : p \in ByteSet(U) <=> \E i \in U : p \in {i} \X (1 .. SizeOf[i])
  BY DEF ByteSet
<1>2. ByteSet(S \cup T) = ByteSet(S) \cup ByteSet(T)
  BY <1>1
<1>3. \A p \in ByteSet(S) : p \notin ByteSet(T)
  BY <1>1
<1> QED
  BY <1>2, <1>3

\* All requests together have finitely many bytes.
LEMMA ByteSetFinite ==
  ASSUME NEW S \in SUBSET Items
  PROVE  IsFiniteSet(ByteSet(S))
<1>1. IsFiniteSet(S)
  BY ItemsAssumption, FS_Subset
<1> DEFINE parts == {{i} \X (1 .. SizeOf[i]) : i \in S}
<1> DEFINE part == [i \in S |-> {i} \X (1 .. SizeOf[i])]
<1>a. part \in Surjection(S, parts)
  BY DEF Surjection
<1>2. IsFiniteSet(parts)
  BY <1>1, <1>a, FS_Surjection
<1>3. \A x \in parts : IsFiniteSet(x)
  <2> TAKE x \in parts
  <2>1. PICK i \in S : x = {i} \X (1 .. SizeOf[i])
    OBVIOUS
  <2>2. x = ByteSet({i})
    BY <2>1 DEF ByteSet
  <2> QED
    BY <2>2, BytesOne
<1> QED
  BY <1>2, <1>3, FS_UNION DEF ByteSet

\* Bytes is additive over disjoint sets, monotone, and zero on the empty set.
LEMMA BytesUnion ==
  ASSUME NEW S \in SUBSET Items, NEW T \in SUBSET Items, S \cap T = {}
  PROVE  /\ Bytes(S) \in Nat /\ Bytes(T) \in Nat
         /\ Bytes(S \cup T) = Bytes(S) + Bytes(T)
<1>1. IsFiniteSet(ByteSet(S)) /\ IsFiniteSet(ByteSet(T))
  BY ByteSetFinite
<1>2. Cardinality(ByteSet(S) \cup ByteSet(T))
        = Cardinality(ByteSet(S)) + Cardinality(ByteSet(T)) - Cardinality({})
  <2>1. ByteSet(S) \cap ByteSet(T) = {}
    BY ByteSetDisjoint
  <2> QED
    BY <1>1, <2>1, FS_Union
<1>3. /\ Cardinality(ByteSet(S)) \in Nat
      /\ Cardinality(ByteSet(T)) \in Nat
      /\ Cardinality({}) = 0
  BY <1>1, FS_CardinalityType, FS_EmptySet
<1>4. ByteSet(S \cup T) = ByteSet(S) \cup ByteSet(T)
  BY ByteSetDisjoint
<1>5. Cardinality(ByteSet(S) \cup ByteSet(T))
        = Cardinality(ByteSet(S)) + Cardinality(ByteSet(T))
  BY <1>2, <1>3
<1> QED
  BY <1>3, <1>4, <1>5, Zenon DEF Bytes

LEMMA BytesEmpty == Bytes({}) = 0
<1>1. ByteSet({}) = {}
  BY DEF ByteSet
<1> QED
  BY <1>1, FS_EmptySet DEF Bytes

LEMMA BytesSubset ==
  ASSUME NEW T \in SUBSET Items, NEW S \in SUBSET T
  PROVE  /\ Bytes(S) \in Nat /\ Bytes(T) \in Nat /\ Bytes(T \ S) \in Nat
         /\ Bytes(S) <= Bytes(T)
         /\ Bytes(T \ S) = Bytes(T) - Bytes(S)
<1>1. T = S \cup (T \ S) /\ S \cap (T \ S) = {}
  OBVIOUS
<1>2. S \in SUBSET Items /\ T \ S \in SUBSET Items
  OBVIOUS
<1>3. /\ Bytes(S) \in Nat /\ Bytes(T \ S) \in Nat
      /\ Bytes(S \cup (T \ S)) = Bytes(S) + Bytes(T \ S)
  BY <1>1, <1>2, BytesUnion
<1> QED
  BY <1>1, <1>3

\* Adding and dropping one request.
LEMMA BytesAdd ==
  ASSUME NEW S \in SUBSET Items, NEW i \in Items, i \notin S
  PROVE  Bytes(S) \in Nat /\ Bytes(S \cup {i}) = Bytes(S) + SizeOf[i]
<1>1. {i} \in SUBSET Items /\ S \cap {i} = {}
  OBVIOUS
<1>2. Bytes({i}) = SizeOf[i]
  BY BytesOne
<1>3. Bytes(S) \in Nat /\ Bytes(S \cup {i}) = Bytes(S) + Bytes({i})
  BY <1>1, BytesUnion
<1> QED
  BY <1>2, <1>3

LEMMA BytesDrop ==
  ASSUME NEW S \in SUBSET Items, NEW i \in S
  PROVE  Bytes(S) \in Nat /\ Bytes(S \ {i}) = Bytes(S) - SizeOf[i]
BY BytesSubset, BytesOne

-----------------------------------------------------------------------------
(* Type correctness *)

\* The counters of one level stay a pair of integers.
LEMMA AddStatsType ==
  ASSUME NEW s \in Stats, NEW l \in Int, NEW d \in Int
  PROVE  AddStats(s, l, d) \in Stats
BY DEF AddStats, Stats

\* What a worker subtracts is an integer.
LEMMA HoldType ==
  ASSUME TypeOK, NEW p \in Pools, NEW f \in Flows
  PROVE  /\ Cardinality(hold[p][f]) \in Nat
         /\ Bytes(hold[p][f]) \in Nat
<1>1. hold[p][f] \in SUBSET Items
  BY DEF TypeOK, PoolTypes
<1>2. IsFiniteSet(hold[p][f])
  BY <1>1, ItemsAssumption, FS_Subset
<1> QED
  BY <1>1, <1>2, FS_CardinalityType, BytesSubset

\* The outcome an expiry check reports is one of the outcomes.
LEMMA ExpiryType ==
  ASSUME TypeOK, NEW i \in Items, NEW now
  PROVE  CheckItemExpiry(i, now) \in Outcomes
BY DEF TypeOK, OutcomeTypes, CheckItemExpiry, Outcomes, NotYet

\* The level the dispatch loop is at is the least one still to visit.
LEMMA LevelMin ==
  ASSUME TypeOK, todo # {}
  PROVE  Level \in todo /\ \A c \in todo : Level <= c
<1>1. todo \in SUBSET Nat
  BY FlowsAssumption DEF TypeOK, RunTypes
<1>2. \E b \in todo : \A c \in todo : b <= c
  BY <1>1, NatMin
<1> QED
  BY <1>2 DEF Level

\* The head of a non-empty list is an element of it, and none is before it.
LEMMA HeadMin ==
  ASSUME TypeOK, NEW f \in Flows, queue[f] # {}
  PROVE  /\ PeekHead(f) \in queue[f]
         /\ \A j \in queue[f] : position[PeekHead(f)] <= position[j]
<1> DEFINE P == {position[i] : i \in queue[f]}
<1>1. queue[f] \in SUBSET Items /\ \A i \in queue[f] : position[i] \in Nat
  BY DEF TypeOK, ListTypes
<1>2. P \in SUBSET Nat /\ P # {}
  BY <1>1
<1>3. PICK m \in P : \A k \in P : m <= k
  BY <1>2, NatMin
<1>4. PICK i \in queue[f] : position[i] = m
  BY <1>3
<1>5. \E x \in queue[f] : \A j \in queue[f] : position[x] <= position[j]
  BY <1>3, <1>4
<1> QED
  BY <1>5 DEF PeekHead

\* A step of the shard preserves its type invariant.
LEMMA TypeStep == TypeOK /\ [Next]_vars => TypeOK'
<1> SUFFICES ASSUME TypeOK, [Next]_vars PROVE TypeOK'
  OBVIOUS
<1> USE FlowsAssumption, SizesAssumption
    DEF TypeOK, Pools, envVars, itemVars, chanVars, stopVars, runVars, listVars, statVars, poolVars, cleanVars
<1>1. CASE Tick
  <2>1. CallerTypes' /\ OutcomeTypes' /\ RunTypes' /\ ListTypes' /\ StatTypes' /\ PoolTypes'
    BY <1>1 DEF Tick, CallerTypes, OutcomeTypes, RunTypes, ListTypes, StatTypes, PoolTypes
  <2>2. EnvTypes'
    BY <1>1 DEF Tick, EnvTypes
  <2> QED
    BY <2>1, <2>2
<1>2. CASE CancelRun
  <2>1. CallerTypes' /\ OutcomeTypes' /\ RunTypes' /\ ListTypes' /\ StatTypes' /\ PoolTypes'
    BY <1>2 DEF CancelRun, CallerTypes, OutcomeTypes, RunTypes, ListTypes, StatTypes, PoolTypes
  <2>2. EnvTypes'
    BY <1>2 DEF CancelRun, EnvTypes
  <2> QED
    BY <2>1, <2>2
<1>3. ASSUME NEW i \in Items, CancelRequest(i) PROVE TypeOK'
  <2>1. CallerTypes' /\ OutcomeTypes' /\ RunTypes' /\ ListTypes' /\ StatTypes' /\ PoolTypes'
    BY <1>3 DEF CancelRequest, CallerTypes, OutcomeTypes, RunTypes, ListTypes, StatTypes, PoolTypes
  <2>2. EnvTypes'
    BY <1>3 DEF CancelRequest, EnvTypes
  <2> QED
    BY <2>1, <2>2
<1>4. ASSUME NEW i \in Items, Submit(i) PROVE TypeOK'
  <2>1. EnvTypes' /\ RunTypes' /\ ListTypes' /\ StatTypes' /\ PoolTypes'
    BY <1>4 DEF Submit, NewItem, EnvTypes, RunTypes, ListTypes, StatTypes, PoolTypes
  <2>2. CallerTypes'
    BY <1>4 DEF Submit, NewItem, CallerTypes, EnvTypes
  <2>3. OutcomeTypes'
    BY <1>4 DEF Submit, NewItem, OutcomeTypes, Finalize, Outcomes, NotYet
  <2> QED
    BY <2>1, <2>2, <2>3
<1>5. ASSUME NEW i \in Items, Send(i) PROVE TypeOK'
  <2>1. EnvTypes' /\ OutcomeTypes' /\ RunTypes' /\ ListTypes' /\ StatTypes' /\ PoolTypes'
    BY <1>5 DEF Send, EnvTypes, OutcomeTypes, RunTypes, ListTypes, StatTypes, PoolTypes
  <2>2. CallerTypes'
    BY <1>5, AppendProperties DEF Send, CallerTypes
  <2> QED
    BY <2>1, <2>2
<1>6. ASSUME NEW i \in Items, SendPanics(i) PROVE TypeOK'
  <2>1. CallerTypes' /\ OutcomeTypes' /\ RunTypes' /\ ListTypes' /\ StatTypes' /\ PoolTypes'
    BY <1>6 DEF SendPanics, CallerTypes, OutcomeTypes, RunTypes, ListTypes, StatTypes, PoolTypes
  <2>2. EnvTypes'
    BY <1>6 DEF SendPanics, EnvTypes
  <2> QED
    BY <2>1, <2>2
<1>7. CASE Receive
  <2>1. EnvTypes' /\ OutcomeTypes' /\ ListTypes' /\ StatTypes' /\ PoolTypes'
    BY <1>7 DEF Receive, EnvTypes, OutcomeTypes, ListTypes, StatTypes, PoolTypes
  <2>2. CallerTypes'
    BY <1>7, HeadTailProperties DEF Receive, CallerTypes
  <2>3. RunTypes'
    BY <1>7, HeadTailProperties DEF Receive, RunTypes, CallerTypes, RunPCs, UsesItem, UsesFlow, Dispatching
  <2> QED
    BY <2>1, <2>2, <2>3
<1>8. CASE DefaultDispatch
  <2>1. EnvTypes' /\ CallerTypes' /\ OutcomeTypes' /\ ListTypes' /\ StatTypes' /\ PoolTypes'
    BY <1>8 DEF DefaultDispatch, EnvTypes, CallerTypes, OutcomeTypes, ListTypes, StatTypes, PoolTypes
  <2>2. RunTypes'
    BY <1>8 DEF DefaultDispatch, RunTypes, BeginCycle, RunPCs, UsesItem, UsesFlow, Dispatching
  <2> QED
    BY <2>1, <2>2
<1>9. CASE EnqueueLookup
  <2>1. EnvTypes' /\ CallerTypes' /\ ListTypes' /\ StatTypes' /\ PoolTypes'
    BY <1>9 DEF EnqueueLookup, ManagedQueue, EnvTypes, CallerTypes, ListTypes, StatTypes, PoolTypes
  <2>2. OutcomeTypes'
    BY <1>9 DEF EnqueueLookup, ManagedQueue, OutcomeTypes, Reject, Finalize, Outcomes, NotYet
  <2>3. RunTypes'
    BY <1>9 DEF EnqueueLookup, ManagedQueue, RunTypes, Reject, BeginCycle, RunPCs, UsesItem, UsesFlow, Dispatching
  <2> QED
    BY <2>1, <2>2, <2>3
<1>10. CASE CapacityShard
  <2>1. EnvTypes' /\ CallerTypes' /\ ListTypes' /\ StatTypes' /\ PoolTypes'
    BY <1>10 DEF CapacityShard, EnvTypes, CallerTypes, ListTypes, StatTypes, PoolTypes
  <2>2. OutcomeTypes'
    BY <1>10 DEF CapacityShard, OutcomeTypes, Reject, Finalize, Outcomes, NotYet
  <2>3. RunTypes'
    BY <1>10 DEF CapacityShard, RunTypes, Reject, BeginCycle, RunPCs, UsesItem, UsesFlow, Dispatching
  <2> QED
    BY <2>1, <2>2, <2>3
<1>11. CASE CapacityBand
  <2>1. EnvTypes' /\ CallerTypes' /\ ListTypes' /\ StatTypes' /\ PoolTypes'
    BY <1>11 DEF CapacityBand, EnvTypes, CallerTypes, ListTypes, StatTypes, PoolTypes
  <2>2. OutcomeTypes'
    BY <1>11 DEF CapacityBand, OutcomeTypes, Reject, Finalize, Outcomes, NotYet
  <2>3. RunTypes'
    BY <1>11 DEF CapacityBand, RunTypes, Reject, BeginCycle, RunPCs, UsesItem, UsesFlow, Dispatching
  <2> QED
    BY <2>1, <2>2, <2>3
<1>12. CASE EnqueueAdd
  <2>1. EnvTypes' /\ CallerTypes' /\ OutcomeTypes' /\ StatTypes' /\ PoolTypes'
    BY <1>12 DEF EnqueueAdd, PushBack, EnvTypes, CallerTypes, OutcomeTypes, StatTypes, PoolTypes
  <2>2. RunTypes'
    BY <1>12 DEF EnqueueAdd, PushBack, RunTypes, BeginCycle, RunPCs, UsesItem, UsesFlow, Dispatching
  <2>3. ListTypes'
    BY <1>12 DEF EnqueueAdd, PushBack, ListTypes, RunTypes, RunPCs, UsesItem, UsesFlow, Dispatching
  <2> QED
    BY <2>1, <2>2, <2>3
<1>13. CASE RunReconcile
  <2>1. EnvTypes' /\ CallerTypes' /\ OutcomeTypes' /\ ListTypes' /\ PoolTypes'
    BY <1>13 DEF RunReconcile, EnvTypes, CallerTypes, OutcomeTypes, ListTypes, PoolTypes
  <2>2. RunTypes'
    BY <1>13 DEF RunReconcile, RunTypes, BeginCycle, RunPCs, UsesItem, UsesFlow, Dispatching
  <2>3. StatTypes'
    BY <1>13, AddStatsType DEF RunReconcile, StatTypes, RunTypes, ReconcileQueue, ReconcileShard, ReconcileBand, RunPCs, UsesItem, UsesFlow, Dispatching
  <2> QED
    BY <2>1, <2>2, <2>3
<1>14. CASE PauseCycle
  <2>1. EnvTypes' /\ CallerTypes' /\ OutcomeTypes' /\ ListTypes' /\ StatTypes' /\ PoolTypes'
    BY <1>14 DEF PauseCycle, EnvTypes, CallerTypes, OutcomeTypes, ListTypes, StatTypes, PoolTypes
  <2>2. RunTypes'
    BY <1>14 DEF PauseCycle, RunTypes, ReturnToSelect, RunPCs, UsesItem, UsesFlow, Dispatching
  <2> QED
    BY <2>1, <2>2
<1>15. CASE EndCycle
  <2>1. EnvTypes' /\ CallerTypes' /\ OutcomeTypes' /\ ListTypes' /\ StatTypes' /\ PoolTypes'
    BY <1>15 DEF EndCycle, EnvTypes, CallerTypes, OutcomeTypes, ListTypes, StatTypes, PoolTypes
  <2>2. RunTypes'
    BY <1>15 DEF EndCycle, RunTypes, ReturnToSelect, RunPCs, UsesItem, UsesFlow, Dispatching
  <2> QED
    BY <2>1, <2>2
<1>16. CASE SelectQueue
  <2>1. EnvTypes' /\ CallerTypes' /\ OutcomeTypes' /\ ListTypes' /\ StatTypes' /\ PoolTypes'
    BY <1>16 DEF SelectQueue, EnvTypes, CallerTypes, OutcomeTypes, ListTypes, StatTypes, PoolTypes
  <2>2. RunTypes'
    BY <1>16 DEF SelectQueue, RunTypes, NextLevel, FlowsAt, RunPCs, UsesItem, UsesFlow, Dispatching
  <2> QED
    BY <2>1, <2>2
<1>17. CASE SelectItem
  <2>1. EnvTypes' /\ CallerTypes' /\ OutcomeTypes' /\ ListTypes' /\ StatTypes' /\ PoolTypes'
    BY <1>17 DEF SelectItem, EnvTypes, CallerTypes, OutcomeTypes, ListTypes, StatTypes, PoolTypes
  <2>2. RunTypes'
    BY <1>17, HeadMin, LevelMin DEF SelectItem, RunTypes, NextLevel, ListTypes, RunPCs, UsesItem, UsesFlow, Dispatching
  <2> QED
    BY <2>1, <2>2
<1>18. CASE RemoveItem
  <2>1. EnvTypes' /\ CallerTypes' /\ OutcomeTypes' /\ StatTypes' /\ PoolTypes'
    BY <1>18 DEF RemoveItem, Unlink, EnvTypes, CallerTypes, OutcomeTypes, StatTypes, PoolTypes
  <2>2. RunTypes'
    BY <1>18, LevelMin DEF RemoveItem, Unlink, RunTypes, NextLevel, RunPCs, UsesItem, UsesFlow, Dispatching
  <2>3. ListTypes'
    <3>1. queue' = queue \/ queue' = [queue EXCEPT ![flow] = @ \ {cur}]
      BY <1>18 DEF RemoveItem, Unlink
    <3>2. queue' \in [Flows -> SUBSET Items]
      BY <3>1 DEF ListTypes
    <3> QED
      BY <1>18, <3>2 DEF RemoveItem, Unlink, ListTypes
  <2> QED
    BY <2>1, <2>2, <2>3
<1>19. CASE SettleItem
  <2>1. EnvTypes' /\ CallerTypes' /\ ListTypes' /\ StatTypes' /\ PoolTypes'
    BY <1>19 DEF SettleItem, EnvTypes, CallerTypes, ListTypes, StatTypes, PoolTypes
  <2>2. OutcomeTypes'
    BY <1>19, ExpiryType DEF SettleItem, OutcomeTypes, RunTypes, Finalize, Outcomes, NotYet, RunPCs, UsesItem, UsesFlow, Dispatching
  <2>3. RunTypes'
    BY <1>19, LevelMin DEF SettleItem, RunTypes, NextLevel, ReturnToSelect, RunPCs, UsesItem, UsesFlow, Dispatching
  <2> QED
    BY <2>1, <2>2, <2>3
<1>20. CASE BeginShutdown
  <2>1. CallerTypes' /\ OutcomeTypes' /\ ListTypes' /\ StatTypes' /\ PoolTypes'
    BY <1>20 DEF BeginShutdown, CallerTypes, OutcomeTypes, ListTypes, StatTypes, PoolTypes
  <2>2. EnvTypes'
    BY <1>20 DEF BeginShutdown, EnvTypes
  <2>3. RunTypes'
    BY <1>20 DEF BeginShutdown, RunTypes, RunPCs, UsesItem, UsesFlow, Dispatching
  <2> QED
    BY <2>1, <2>2, <2>3
<1>21. CASE DrainChannel
  <2>1. EnvTypes' /\ ListTypes' /\ StatTypes' /\ PoolTypes'
    BY <1>21 DEF DrainChannel, EnvTypes, ListTypes, StatTypes, PoolTypes
  <2>2. CallerTypes'
    <3>1. enqueueChan # <<>> => Tail(enqueueChan) \in Seq(Items)
      BY HeadTailProperties DEF CallerTypes
    <3> QED
      BY <1>21, <3>1 DEF DrainChannel, CallerTypes
  <2>3. OutcomeTypes'
    BY <1>21 DEF DrainChannel, OutcomeTypes, Finalize, Outcomes, NotYet
  <2>4. RunTypes'
    BY <1>21 DEF DrainChannel, RunTypes, RunPCs, UsesItem, UsesFlow, Dispatching
  <2> QED
    BY <2>1, <2>2, <2>3, <2>4
<1>22. CASE CloseChannel
  <2>1. EnvTypes' /\ OutcomeTypes' /\ ListTypes' /\ StatTypes'
    BY <1>22 DEF CloseChannel, EnvTypes, OutcomeTypes, ListTypes, StatTypes
  <2>2. CallerTypes'
    BY <1>22 DEF CloseChannel, CallerTypes
  <2>3. RunTypes'
    BY <1>22 DEF CloseChannel, RunTypes, RunPCs, UsesItem, UsesFlow, Dispatching
  <2>4. PoolTypes'
    BY <1>22 DEF CloseChannel, PoolTypes, Stages
  <2> QED
    BY <2>1, <2>2, <2>3, <2>4
<1>23. CASE FinishShutdown
  <2>1. EnvTypes' /\ CallerTypes' /\ OutcomeTypes' /\ ListTypes' /\ StatTypes' /\ PoolTypes'
    BY <1>23 DEF FinishShutdown, EnvTypes, CallerTypes, OutcomeTypes, ListTypes, StatTypes, PoolTypes
  <2>2. RunTypes'
    BY <1>23 DEF FinishShutdown, RunTypes, RunPCs, UsesItem, UsesFlow, Dispatching
  <2> QED
    BY <2>1, <2>2
<1>24. CASE CleanupTick
  <2>1. EnvTypes' /\ CallerTypes' /\ OutcomeTypes' /\ RunTypes' /\ ListTypes' /\ StatTypes'
    BY <1>24 DEF CleanupTick, EnvTypes, CallerTypes, OutcomeTypes, RunTypes, ListTypes, StatTypes
  <2>2. PoolTypes'
    <3>1. tick' \in Nat
      BY <1>24 DEF CleanupTick, PoolTypes, EnvTypes
    <3> QED
      BY <1>24, <3>1 DEF CleanupTick, PoolTypes, Stages
  <2> QED
    BY <2>1, <2>2
<1>25. CASE CleanupScanned
  <2>1. EnvTypes' /\ CallerTypes' /\ OutcomeTypes' /\ RunTypes' /\ ListTypes' /\ StatTypes'
    BY <1>25 DEF CleanupScanned, EnvTypes, CallerTypes, OutcomeTypes, RunTypes, ListTypes, StatTypes
  <2>2. PoolTypes'
    BY <1>25 DEF CleanupScanned, PoolTypes
  <2> QED
    BY <2>1, <2>2
<1>26. CASE CleanupExit
  <2>1. EnvTypes' /\ CallerTypes' /\ OutcomeTypes' /\ RunTypes' /\ ListTypes' /\ StatTypes'
    BY <1>26 DEF CleanupExit, EnvTypes, CallerTypes, OutcomeTypes, RunTypes, ListTypes, StatTypes
  <2>2. PoolTypes'
    BY <1>26 DEF CleanupExit, PoolTypes
  <2> QED
    BY <2>1, <2>2
<1>27. ASSUME NEW p \in Pools, NEW f \in Flows, WorkerScan(p, f) PROVE TypeOK'
  <2>1. EnvTypes' /\ CallerTypes' /\ OutcomeTypes' /\ RunTypes' /\ StatTypes'
    BY <1>27 DEF WorkerScan, EnvTypes, CallerTypes, OutcomeTypes, RunTypes, StatTypes
  <2>2. ListTypes'
    BY <1>27 DEF WorkerScan, ListTypes
  <2>3. PoolTypes'
    BY <1>27 DEF WorkerScan, PoolTypes, ListTypes, Removable, Stages
  <2> QED
    BY <2>1, <2>2, <2>3
<1>28. ASSUME NEW p \in Pools, NEW f \in Flows, WorkerReconcile(p, f) PROVE TypeOK'
  <2>1. EnvTypes' /\ CallerTypes' /\ OutcomeTypes' /\ RunTypes' /\ ListTypes'
    BY <1>28 DEF WorkerReconcile, EnvTypes, CallerTypes, OutcomeTypes, RunTypes, ListTypes
  <2>2. StatTypes'
    <3> DEFINE l == -Cardinality(hold[p][f])
               d == -Bytes(hold[p][f])
    <3>1. l \in Int /\ d \in Int
      BY <1>28, HoldType
    <3>2. \/ ReconcileQueue(f, l, d) \/ ReconcileShard(l, d) \/ ReconcileBand(f, l, d)
      BY <1>28 DEF WorkerReconcile
    <3> HIDE DEF l, d
    <3> QED
      BY <1>28, <3>1, <3>2, AddStatsType
      DEF StatTypes, ReconcileQueue, ReconcileShard, ReconcileBand
  <2>3. PoolTypes'
    BY <1>28 DEF WorkerReconcile, PoolTypes, Stages
  <2> QED
    BY <2>1, <2>2, <2>3
<1>29. ASSUME NEW p \in Pools, NEW f \in Flows, WorkerFinalize(p, f) PROVE TypeOK'
  <2>1. EnvTypes' /\ CallerTypes' /\ RunTypes' /\ ListTypes' /\ StatTypes'
    BY <1>29 DEF WorkerFinalize, EnvTypes, CallerTypes, RunTypes, ListTypes, StatTypes
  <2>2. OutcomeTypes'
    BY <1>29, ExpiryType DEF WorkerFinalize, OutcomeTypes, PoolOutcome, PoolTypes, Outcomes
  <2>3. PoolTypes'
    BY <1>29 DEF WorkerFinalize, PoolTypes, Stages
  <2> QED
    BY <2>1, <2>2, <2>3
<1>30. CASE UNCHANGED vars
  BY <1>30 DEF vars, EnvTypes, CallerTypes, OutcomeTypes, RunTypes, ListTypes, StatTypes, PoolTypes
<1> QED
  BY <1>1, <1>2, <1>3, <1>4, <1>5, <1>6, <1>7, <1>8, <1>9, <1>10, <1>11,
     <1>12, <1>13, <1>14, <1>15, <1>16, <1>17, <1>18, <1>19, <1>20,
     <1>21, <1>22, <1>23, <1>24, <1>25, <1>26, <1>27, <1>28, <1>29,
     <1>30
  DEF Next, Env, CallerStep, RunStep, CleanupStep, WorkerStep, Terminated

\* The processor starts well typed.
LEMMA TypeInit == Init => TypeOK
<1> SUFFICES ASSUME Init PROVE TypeOK
  OBVIOUS
<1>1. EnvTypes /\ OutcomeTypes
  BY DEF Init, EnvTypes, OutcomeTypes, Outcomes, NotYet
<1>2. CallerTypes
  BY EmptySeq DEF Init, CallerTypes
<1>3. RunTypes
  BY DEF Init, RunTypes, RunPCs, UsesItem, UsesFlow, Dispatching
<1>4. ListTypes /\ PoolTypes
  BY DEF Init, ListTypes, PoolTypes, Pools, Stages
<1>5. StatTypes
  BY DEF Init, StatTypes, ZeroStats, Stats
<1> QED
  BY <1>1, <1>2, <1>3, <1>4, <1>5 DEF TypeOK

\* The shard's state is well typed in every reachable state, for every set of
\* requests, flows, bands, sizes and capacities.
THEOREM TypeCorrect == Spec => []TypeOK
BY TypeInit, TypeStep, PTL DEF Spec

-----------------------------------------------------------------------------
(* Items stay with their flow; workers hold items only while they work *)

\* A step keeps every item in the queue or the hands of its own flow.
LEMMA FlowsStep == TypeOK /\ FlowsKept /\ [Next]_vars => FlowsKept'
<1> SUFFICES ASSUME TypeOK, FlowsKept, [Next]_vars PROVE FlowsKept'
  OBVIOUS
<1> USE DEF FlowsKept, UsesFlow, Dispatching, envVars, itemVars, chanVars, stopVars, runVars, listVars, statVars, poolVars, cleanVars
<1>1. CASE Tick
  BY <1>1 DEF Tick
<1>2. CASE CancelRun
  BY <1>2 DEF CancelRun
<1>3. ASSUME NEW i \in Items, CancelRequest(i) PROVE FlowsKept'
  BY <1>3 DEF CancelRequest
<1>4. ASSUME NEW i \in Items, Submit(i) PROVE FlowsKept'
  BY <1>4 DEF Submit, NewItem
<1>5. ASSUME NEW i \in Items, Send(i) PROVE FlowsKept'
  BY <1>5 DEF Send
<1>6. ASSUME NEW i \in Items, SendPanics(i) PROVE FlowsKept'
  BY <1>6 DEF SendPanics
<1>7. CASE Receive
  BY <1>7 DEF Receive
<1>8. CASE DefaultDispatch
  BY <1>8 DEF DefaultDispatch, BeginCycle
<1>9. CASE EnqueueLookup
  BY <1>9 DEF EnqueueLookup, ManagedQueue, Reject, BeginCycle
<1>10. CASE CapacityShard
  BY <1>10 DEF CapacityShard, Reject, BeginCycle
<1>11. CASE CapacityBand
  BY <1>11 DEF CapacityBand, Reject, BeginCycle
<1>12. CASE EnqueueAdd
  BY <1>12 DEF EnqueueAdd, PushBack, BeginCycle, TypeOK, RunTypes, ListTypes, UsesItem
<1>13. CASE RunReconcile
  BY <1>13 DEF RunReconcile, BeginCycle
<1>14. CASE PauseCycle
  BY <1>14 DEF PauseCycle, ReturnToSelect
<1>15. CASE EndCycle
  BY <1>15 DEF EndCycle, ReturnToSelect
<1>16. CASE SelectQueue
  BY <1>16 DEF SelectQueue, NextLevel
<1>17. CASE SelectItem
  BY <1>17, HeadMin DEF SelectItem, NextLevel, TypeOK, RunTypes
<1>18. CASE RemoveItem
  BY <1>18 DEF RemoveItem, Unlink, NextLevel, TypeOK, ListTypes
<1>19. CASE SettleItem
  BY <1>19 DEF SettleItem, NextLevel, ReturnToSelect
<1>20. CASE BeginShutdown
  BY <1>20 DEF BeginShutdown
<1>21. CASE DrainChannel
  BY <1>21 DEF DrainChannel
<1>22. CASE CloseChannel
  BY <1>22 DEF CloseChannel
<1>23. CASE FinishShutdown
  BY <1>23 DEF FinishShutdown
<1>24. CASE CleanupTick
  BY <1>24 DEF CleanupTick
<1>25. CASE CleanupScanned
  BY <1>25 DEF CleanupScanned
<1>26. CASE CleanupExit
  BY <1>26 DEF CleanupExit
<1>27. ASSUME NEW p \in Pools, NEW f \in Flows, WorkerScan(p, f) PROVE FlowsKept'
  BY <1>27 DEF WorkerScan, TypeOK, ListTypes, PoolTypes, Removable
<1>28. ASSUME NEW p \in Pools, NEW f \in Flows, WorkerReconcile(p, f) PROVE FlowsKept'
  BY <1>28 DEF WorkerReconcile
<1>29. ASSUME NEW p \in Pools, NEW f \in Flows, WorkerFinalize(p, f) PROVE FlowsKept'
  BY <1>29 DEF WorkerFinalize, TypeOK, PoolTypes
<1>30. CASE UNCHANGED vars
  BY <1>30 DEF vars, FlowsKept
<1> QED
  BY <1>1, <1>2, <1>3, <1>4, <1>5, <1>6, <1>7, <1>8, <1>9, <1>10, <1>11,
     <1>12, <1>13, <1>14, <1>15, <1>16, <1>17, <1>18, <1>19, <1>20,
     <1>21, <1>22, <1>23, <1>24, <1>25, <1>26, <1>27, <1>28, <1>29,
     <1>30
  DEF Next, Env, CallerStep, RunStep, CleanupStep, WorkerStep, Terminated

\* A step keeps the pools and the goroutines that wait for them in step.
LEMMA PoolsStep == TypeOK /\ PoolsKept /\ [Next]_vars => PoolsKept'
<1> SUFFICES ASSUME TypeOK, PoolsKept, [Next]_vars PROVE PoolsKept'
  OBVIOUS
<1> USE DEF PoolsKept, Idle, Pools, envVars, itemVars, chanVars, stopVars, runVars, listVars, statVars, poolVars, cleanVars
<1>1. CASE Tick
  BY <1>1 DEF Tick
<1>2. CASE CancelRun
  BY <1>2 DEF CancelRun
<1>3. ASSUME NEW i \in Items, CancelRequest(i) PROVE PoolsKept'
  BY <1>3 DEF CancelRequest
<1>4. ASSUME NEW i \in Items, Submit(i) PROVE PoolsKept'
  BY <1>4 DEF Submit, NewItem
<1>5. ASSUME NEW i \in Items, Send(i) PROVE PoolsKept'
  BY <1>5 DEF Send
<1>6. ASSUME NEW i \in Items, SendPanics(i) PROVE PoolsKept'
  BY <1>6 DEF SendPanics
<1>7. CASE Receive
  BY <1>7 DEF Receive
<1>8. CASE DefaultDispatch
  BY <1>8 DEF DefaultDispatch, BeginCycle
<1>9. CASE EnqueueLookup
  BY <1>9 DEF EnqueueLookup, ManagedQueue, Reject, BeginCycle
<1>10. CASE CapacityShard
  BY <1>10 DEF CapacityShard, Reject, BeginCycle
<1>11. CASE CapacityBand
  BY <1>11 DEF CapacityBand, Reject, BeginCycle
<1>12. CASE EnqueueAdd
  BY <1>12 DEF EnqueueAdd, PushBack, BeginCycle
<1>13. CASE RunReconcile
  BY <1>13 DEF RunReconcile, BeginCycle
<1>14. CASE PauseCycle
  BY <1>14 DEF PauseCycle, ReturnToSelect
<1>15. CASE EndCycle
  BY <1>15 DEF EndCycle, ReturnToSelect
<1>16. CASE SelectQueue
  BY <1>16 DEF SelectQueue, NextLevel
<1>17. CASE SelectItem
  BY <1>17 DEF SelectItem, NextLevel
<1>18. CASE RemoveItem
  BY <1>18 DEF RemoveItem, Unlink, NextLevel
<1>19. CASE SettleItem
  BY <1>19 DEF SettleItem, NextLevel, ReturnToSelect
<1>20. CASE BeginShutdown
  BY <1>20 DEF BeginShutdown
<1>21. CASE DrainChannel
  BY <1>21 DEF DrainChannel
<1>22. CASE CloseChannel
  BY <1>22 DEF CloseChannel, TypeOK, PoolTypes
<1>23. CASE FinishShutdown
  BY <1>23 DEF FinishShutdown
<1>24. CASE CleanupTick
  BY <1>24 DEF CleanupTick, TypeOK, PoolTypes
<1>25. CASE CleanupScanned
  BY <1>25 DEF CleanupScanned
<1>26. CASE CleanupExit
  BY <1>26 DEF CleanupExit
<1>27. ASSUME NEW p \in Pools, NEW f \in Flows, WorkerScan(p, f) PROVE PoolsKept'
  BY <1>27 DEF WorkerScan, TypeOK, PoolTypes
<1>28. ASSUME NEW p \in Pools, NEW f \in Flows, WorkerReconcile(p, f) PROVE PoolsKept'
  BY <1>28 DEF WorkerReconcile, TypeOK, PoolTypes
<1>29. ASSUME NEW p \in Pools, NEW f \in Flows, WorkerFinalize(p, f) PROVE PoolsKept'
  BY <1>29 DEF WorkerFinalize, TypeOK, PoolTypes
<1>30. CASE UNCHANGED vars
  BY <1>30 DEF vars, PoolsKept
<1> QED
  BY <1>1, <1>2, <1>3, <1>4, <1>5, <1>6, <1>7, <1>8, <1>9, <1>10, <1>11,
     <1>12, <1>13, <1>14, <1>15, <1>16, <1>17, <1>18, <1>19, <1>20,
     <1>21, <1>22, <1>23, <1>24, <1>25, <1>26, <1>27, <1>28, <1>29,
     <1>30
  DEF Next, Env, CallerStep, RunStep, CleanupStep, WorkerStep, Terminated

-----------------------------------------------------------------------------
(* Every item is in at most one place *)

\* Sending appends one new element.
LEMMA AppendElements ==
  ASSUME NEW s \in Seq(Items), NEW i \in Items, NoRepeats(s), i \notin Elements(s)
  PROVE  /\ Elements(Append(s, i)) = Elements(s) \cup {i}
         /\ NoRepeats(Append(s, i))
<1> DEFINE t == Append(s, i)
<1>1. /\ DOMAIN s = 1 .. Len(s) /\ Len(s) \in Nat
      /\ DOMAIN t = 1 .. Len(s) + 1
      /\ \A n \in 1 .. Len(s) : t[n] = s[n]
      /\ t[Len(s) + 1] = i
  BY LenProperties, AppendProperties
<1> HIDE DEF t
<1>2. Elements(t) = Elements(s) \cup {i}
  BY <1>1 DEF Elements
<1>3. NoRepeats(t)
  BY <1>1 DEF NoRepeats, Elements
<1> QED
  BY <1>2, <1>3 DEF t

\* Receiving takes the head and leaves the other elements.
LEMMA TailElements ==
  ASSUME NEW s \in Seq(Items), s # <<>>, NoRepeats(s)
  PROVE  /\ Head(s) \in Elements(s)
         /\ Elements(Tail(s)) = Elements(s) \ {Head(s)}
         /\ NoRepeats(Tail(s))
<1> DEFINE t == Tail(s)
<1>1. /\ DOMAIN s = 1 .. Len(s) /\ Len(s) \in Nat \ {0}
      /\ DOMAIN t = 1 .. Len(s) - 1
      /\ \A n \in 1 .. Len(s) - 1 : t[n] = s[n + 1]
      /\ Head(s) = s[1]
  BY LenProperties, HeadTailProperties, EmptySeq
<1> HIDE DEF t
<1>2. Head(s) \in Elements(s)
  BY <1>1 DEF Elements
<1>3. Elements(t) \subseteq Elements(s) \ {Head(s)}
  BY <1>1 DEF Elements, NoRepeats
<1>4. Elements(s) \ {Head(s)} \subseteq Elements(t)
  <2> SUFFICES ASSUME NEW x \in Elements(s), x # s[1] PROVE x \in Elements(t)
    BY <1>1
  <2>1. PICK n \in 1 .. Len(s) : x = s[n] /\ n # 1
    BY <1>1 DEF Elements
  <2>2. n - 1 \in 1 .. Len(s) - 1 /\ t[n - 1] = s[n]
    BY <1>1, <2>1
  <2> QED
    BY <1>1, <2>1, <2>2 DEF Elements
<1>5. NoRepeats(t)
  BY <1>1 DEF NoRepeats
<1> QED
  BY <1>2, <1>3, <1>4, <1>5 DEF t

\* A step keeps every item in at most one place, and only unfinalized items
\* that were handed over.
LEMMA ApartStep ==
  TypeOK /\ FlowsKept /\ PoolsKept /\ Apart /\ Pending /\ [Next]_vars
  => Apart' /\ Pending'
<1> SUFFICES ASSUME TypeOK, FlowsKept, PoolsKept, Apart, Pending, [Next]_vars
             PROVE  Apart' /\ Pending'
  OBVIOUS
<1> USE DEF Apart, Pending, ChanItems, HeldItems, RunItem, Queued, RunOwns, Pools,
            envVars, itemVars, chanVars, stopVars, runVars, listVars, statVars, poolVars, cleanVars
<1>1. CASE Tick
  BY <1>1 DEF Tick
<1>2. CASE CancelRun
  BY <1>2 DEF CancelRun
<1>3. ASSUME NEW i \in Items, CancelRequest(i) PROVE Apart' /\ Pending'
  BY <1>3 DEF CancelRequest
<1>4. ASSUME NEW i \in Items, Submit(i) PROVE Apart' /\ Pending'
  <2>1. /\ caller[i] = "idle" /\ caller'[i] # "idle"
        /\ outcome'[i] = NotYet \/ caller'[i] = "returned"
        /\ \A x \in Items : x # i => caller'[x] = caller[x] /\ outcome'[x] = outcome[x]
        /\ UNCHANGED <<enqueueChan, pc, cur, queue, hold>>
    BY <1>4 DEF Submit, NewItem, Finalize, TypeOK, CallerTypes, OutcomeTypes
  <2>2. /\ ChanItems' = ChanItems /\ Queued' = Queued /\ HeldItems' = HeldItems
        /\ \A x : RunItem(x)' <=> RunItem(x)
    BY <2>1
  <2> HIDE DEF ChanItems, HeldItems, RunItem, Queued
  <2> QED
    BY <2>1, <2>2
<1>5. ASSUME NEW i \in Items, Send(i) PROVE Apart' /\ Pending'
  <2>1. enqueueChan \in Seq(Items) /\ NoRepeats(enqueueChan) /\ i \notin Elements(enqueueChan)
    BY <1>5 DEF Send, TypeOK, CallerTypes
  <2>2. ChanItems' = ChanItems \cup {i} /\ NoRepeats(enqueueChan')
    BY <1>5, <2>1, AppendElements DEF Send
  <2>3. /\ caller' = [caller EXCEPT ![i] = "returned"] /\ caller[i] = "sending"
        /\ UNCHANGED <<outcome, pc, cur, queue, hold>>
    BY <1>5 DEF Send
  <2>4. ~RunItem(i) /\ i \notin Queued /\ i \notin HeldItems /\ outcome[i] = NotYet
    BY <2>3
  <2>5. /\ \A x \in Items : x # i => caller'[x] = caller[x]
        /\ caller'[i] = "returned"
    BY <2>3 DEF TypeOK, CallerTypes
  <2>6. Queued' = Queued /\ HeldItems' = HeldItems /\ \A x : RunItem(x)' <=> RunItem(x)
    BY <2>3
  <2> HIDE DEF ChanItems, HeldItems, RunItem, Queued
  <2>7. Apart'
    BY <2>2, <2>3, <2>4, <2>6
  <2>8. Pending'
    BY <2>2, <2>3, <2>4, <2>5, <2>6
  <2> QED
    BY <2>7, <2>8
<1>6. ASSUME NEW i \in Items, SendPanics(i) PROVE Apart' /\ Pending'
  BY <1>6 DEF SendPanics
<1>7. CASE Receive
  BY <1>7, TailElements, SMTT(30) DEF Receive, TypeOK, CallerTypes
<1>8. CASE DefaultDispatch
  BY <1>8 DEF DefaultDispatch, BeginCycle
<1>9. CASE EnqueueLookup
  BY <1>9 DEF EnqueueLookup, ManagedQueue, Reject, BeginCycle, Finalize, TypeOK, OutcomeTypes
<1>10. CASE CapacityShard
  BY <1>10 DEF CapacityShard, Reject, BeginCycle, Finalize, TypeOK, OutcomeTypes
<1>11. CASE CapacityBand
  BY <1>11 DEF CapacityBand, Reject, BeginCycle, Finalize, TypeOK, OutcomeTypes
<1>12. CASE EnqueueAdd
  BY <1>12 DEF EnqueueAdd, PushBack, BeginCycle, TypeOK, ListTypes
<1>13. CASE RunReconcile
  BY <1>13 DEF RunReconcile, BeginCycle
<1>14. CASE PauseCycle
  BY <1>14 DEF PauseCycle, ReturnToSelect
<1>15. CASE EndCycle
  BY <1>15 DEF EndCycle, ReturnToSelect
<1>16. CASE SelectQueue
  BY <1>16 DEF SelectQueue, NextLevel
<1>17. CASE SelectItem
  BY <1>17 DEF SelectItem, NextLevel
<1>18. CASE RemoveItem
  <2>1. CASE cur \notin queue[flow]
    BY <1>18, <2>1 DEF RemoveItem, Unlink, NextLevel
  <2>2. CASE cur \in queue[flow]
    <3>a. flow \in Flows /\ queue \in [Flows -> SUBSET Items]
      BY <1>18 DEF RemoveItem, Unlink, TypeOK, RunTypes, UsesFlow, Dispatching, ListTypes
    <3>0. queue' = [queue EXCEPT ![flow] = @ \ {cur}]
      BY <1>18, <2>2 DEF RemoveItem, Unlink
    <3>c. \A g \in Flows : cur \in queue[g] => g = flow
      BY <2>2, <3>a DEF FlowsKept
    <3>b. \A g \in Flows : queue'[g] = queue[g] \ {cur}
      BY <3>0, <3>a, <3>c
    <3>1. cur \in Queued /\ Queued' = Queued \ {cur}
      BY <2>2, <3>a, <3>b
    <3> QED
      BY <1>18, <2>2, <3>1, ZenonT(30) DEF RemoveItem, Unlink
  <2> QED
    BY <2>1, <2>2
<1>19. CASE SettleItem
  BY <1>19 DEF SettleItem, NextLevel, ReturnToSelect, Finalize, TypeOK, OutcomeTypes
<1>20. CASE BeginShutdown
  BY <1>20 DEF BeginShutdown
<1>21. CASE DrainChannel
  <2>1. CASE enqueueChan = <<>>
    BY <1>21, <2>1 DEF DrainChannel
  <2>2. CASE enqueueChan # <<>>
    <3>1. /\ Head(enqueueChan) \in ChanItems
          /\ ChanItems' = ChanItems \ {Head(enqueueChan)}
          /\ NoRepeats(enqueueChan')
      BY <1>21, <2>2, TailElements DEF DrainChannel, TypeOK, CallerTypes
    <3> QED
      BY <1>21, <2>2, <3>1 DEF DrainChannel, Finalize, TypeOK, OutcomeTypes
  <2> QED
    BY <2>1, <2>2
<1>22. CASE CloseChannel
  BY <1>22 DEF CloseChannel
<1>23. CASE FinishShutdown
  BY <1>23 DEF FinishShutdown
<1>24. CASE CleanupTick
  BY <1>24 DEF CleanupTick
<1>25. CASE CleanupScanned
  BY <1>25 DEF CleanupScanned
<1>26. CASE CleanupExit
  BY <1>26 DEF CleanupExit
<1>27. ASSUME NEW p \in Pools, NEW f \in Flows, WorkerScan(p, f) PROVE Apart' /\ Pending'
  BY <1>27 DEF WorkerScan, TypeOK, ListTypes, PoolTypes, Removable, FlowsKept, PoolsKept
<1>28. ASSUME NEW p \in Pools, NEW f \in Flows, WorkerReconcile(p, f) PROVE Apart' /\ Pending'
  BY <1>28 DEF WorkerReconcile
<1>29. ASSUME NEW p \in Pools, NEW f \in Flows, WorkerFinalize(p, f) PROVE Apart' /\ Pending'
  BY <1>29, SMTT(30) DEF WorkerFinalize, TypeOK, PoolTypes, FlowsKept
<1>30. CASE UNCHANGED vars
  BY <1>30 DEF vars, Apart, Pending
<1> QED
  BY <1>1, <1>2, <1>3, <1>4, <1>5, <1>6, <1>7, <1>8, <1>9, <1>10, <1>11,
     <1>12, <1>13, <1>14, <1>15, <1>16, <1>17, <1>18, <1>19, <1>20,
     <1>21, <1>22, <1>23, <1>24, <1>25, <1>26, <1>27, <1>28, <1>29,
     <1>30
  DEF Next, Env, CallerStep, RunStep, CleanupStep, WorkerStep, Terminated

-----------------------------------------------------------------------------
(* The counters are the contents of the queues plus what is in flight *)

\* The number and the bytes of a set of requests are a pair of naturals, below
\* those of all requests.
LEMMA AmountType ==
  ASSUME NEW S \in SUBSET Items
  PROVE  /\ Amount(S).len = Cardinality(S) /\ Amount(S).bytes = Bytes(S)
         /\ Cardinality(S) \in Nat /\ Bytes(S) \in Nat
         /\ Cardinality(S) <= Cardinality(Items) /\ Bytes(S) <= Bytes(Items)
         /\ Cardinality(Items) \in Nat /\ Bytes(Items) \in Nat
<1>1. IsFiniteSet(S) /\ Cardinality(S) <= Cardinality(Items)
  BY ItemsAssumption, FS_Subset
<1>2. Cardinality(S) \in Nat /\ Cardinality(Items) \in Nat
  BY <1>1, ItemsAssumption, FS_CardinalityType
<1>3. Bytes(S) \in Nat /\ Bytes(S) <= Bytes(Items) /\ Bytes(Items) \in Nat
  BY BytesSubset
<1> QED
  BY <1>1, <1>2, <1>3 DEF Amount

\* Taking a part out of a set of requests subtracts that part's amount.
LEMMA AmountSubset ==
  ASSUME NEW T \in SUBSET Items, NEW S \in SUBSET T
  PROVE  Amount(T \ S) = AddStats(Amount(T), -Cardinality(S), -Bytes(S))
<1>1. IsFiniteSet(T) /\ IsFiniteSet(S)
  BY ItemsAssumption, FS_Subset
<1>2. Cardinality(T \ S) = Cardinality(T) - Cardinality(T \cap S) /\ T \cap S = S
  BY <1>1, FS_Difference
<1>3. Cardinality(T \ S) = Cardinality(T) - Cardinality(S)
  BY <1>2
<1>4. Cardinality(T) \in Nat /\ Cardinality(S) \in Nat
  BY <1>1, FS_CardinalityType
<1>5. /\ Bytes(T \ S) = Bytes(T) - Bytes(S)
      /\ Bytes(T) \in Nat /\ Bytes(S) \in Nat
  BY BytesSubset
<1>6. /\ Cardinality(T) + (-Cardinality(S)) = Cardinality(T) - Cardinality(S)
      /\ Bytes(T) + (-Bytes(S)) = Bytes(T) - Bytes(S)
  BY <1>4, <1>5
<1> QED
  BY <1>3, <1>5, <1>6 DEF Amount, AddStats

\* One request.
LEMMA AmountOne ==
  ASSUME NEW S \in SUBSET Items, NEW i \in Items
  PROVE  /\ i \in S => Amount(S \ {i}) = AddStats(Amount(S), -1, -SizeOf[i])
         /\ i \notin S => AddStats(Amount(S \cup {i}), -1, -SizeOf[i]) = Amount(S)
<1>1. Cardinality({i}) = 1 /\ Bytes({i}) = SizeOf[i]
  BY FS_Singleton, BytesOne
<1>2. ASSUME i \in S PROVE Amount(S \ {i}) = AddStats(Amount(S), -1, -SizeOf[i])
  <2>1. Amount(S \ {i}) = AddStats(Amount(S), -Cardinality({i}), -Bytes({i}))
    BY <1>2, AmountSubset
  <2> QED
    BY <1>1, <2>1
<1>3. ASSUME i \notin S PROVE AddStats(Amount(S \cup {i}), -1, -SizeOf[i]) = Amount(S)
  <2>1. S \cup {i} \in SUBSET Items /\ {i} \in SUBSET (S \cup {i}) /\ (S \cup {i}) \ {i} = S
    BY <1>3
  <2>2. Amount(S) = AddStats(Amount(S \cup {i}), -Cardinality({i}), -Bytes({i}))
    BY <2>1, AmountSubset
  <2> QED
    BY <1>1, <2>2
<1> QED
  BY <1>2, <1>3

\* Additions to a pair of counters compose.
LEMMA AddStatsTwice ==
  ASSUME NEW s, NEW l \in Int, NEW d \in Int, NEW m \in Int, NEW e \in Int,
         s.len \in Int, s.bytes \in Int
  PROVE  /\ AddStats(AddStats(s, l, d), m, e) = AddStats(s, l + m, d + e)
         /\ AddStats(AddStats(s, l, d), m, e) = AddStats(AddStats(s, m, e), l, d)
BY DEF AddStats

\* An amount that has been changed and changed back.
LEMMA AddStatsBack ==
  ASSUME NEW S \in SUBSET Items, NEW i \in Items
  PROVE  AddStats(AddStats(Amount(S), -1, -SizeOf[i]), 1, SizeOf[i]) = Amount(S)
<1>1. SizeOf[i] \in Nat
  BY SizesAssumption
<1>2. Cardinality(S) \in Nat /\ Bytes(S) \in Nat
  BY AmountType
<1> QED
  BY <1>1, <1>2 DEF Amount, AddStats

\* The held sets of different workers are disjoint.
LEMMA HoldsApart ==
  ASSUME FlowsKept, Apart, NEW p \in Pools, NEW f \in Flows,
         NEW q \in Pools, NEW g \in Flows, NEW i \in hold[p][f], i \in hold[q][g]
  PROVE  p = q /\ f = g
<1>1. f = g
  BY DEF FlowsKept
<1>2. p = q
  BY <1>1 DEF Apart, Pools
<1> QED
  BY <1>1, <1>2

\* What the counters stand for are requests.
LEMMA CountedItems ==
  ASSUME TypeOK, NEW level, NEW F
  PROVE  Counted(level, F) \in SUBSET Items
BY DEF Counted, Taken, Queued, TypeOK, ListTypes

\* A step that touches no counter and nothing the counters stand for.
SameCount ==
  /\ UNCHANGED statVars
  /\ \A level \in Levels :
       /\ (Queued \cup Taken(level))' = Queued \cup Taken(level)
       /\ Owes(level)' <=> Owes(level)
       /\ Owes(level) => UNCHANGED <<cur, flow>>

LEMMA SameCountKeeps ==
  ASSUME TalliesKept, SameCount
  PROVE  TalliesKept'
<1>1. ASSUME NEW level \in Levels, NEW F
      PROVE  Tally(level, F)' = Tally(level, F)
  <2>1. Counted(level, F)' = Counted(level, F)
    BY DEF SameCount, Counted
  <2> HIDE DEF Counted
  <2> QED
    BY <2>1 DEF SameCount, Tally
<1>2. \A f \in Flows : Tally("queue", {f})' = Tally("queue", {f})
  BY <1>1 DEF Levels
<1>3. Tally("shard", Flows)' = Tally("shard", Flows)
  BY <1>1 DEF Levels
<1>4. \A b \in Bands : Tally("band", FlowsAt(b))' = Tally("band", FlowsAt(b))
  BY <1>1 DEF Levels
<1> HIDE DEF Tally
<1> QED
  BY <1>2, <1>3, <1>4 DEF TalliesKept, SameCount, statVars, FlowsAt

\* Linking an item adds it to what every level stands for, and Run owes it to
\* every level.
LEMMA AddTally ==
  ASSUME TypeOK, Apart, Pending, EnqueueAdd, NEW level \in Levels, NEW F
  PROVE  Tally(level, F)' = Tally(level, F)
<1>0. pc = "add" /\ outcome[cur] = NotYet /\ cur \in Items /\ cur \notin Queued /\ cur \notin HeldItems
  BY DEF EnqueueAdd, PushBack, Pending, Apart, RunItem, RunOwns, TypeOK, RunTypes, UsesItem
<1>1. FlowOf[cur] \in Flows /\ queue \in [Flows -> SUBSET Items]
  BY <1>0 DEF TypeOK, RunTypes, ListTypes
<1>2. /\ queue' = [queue EXCEPT ![FlowOf[cur]] = @ \cup {cur}]
      /\ pc' = "addQueue" /\ flow' = FlowOf[cur] /\ UNCHANGED <<cur, stage, hold>>
  BY <1>0 DEF EnqueueAdd, PushBack, poolVars
<1>3. Queued' = Queued \cup {cur}
  BY <1>1, <1>2 DEF Queued
<1>4. Taken(level)' = Taken(level) /\ cur \notin Taken(level)
  BY <1>0, <1>2 DEF Taken, HeldItems
<1>5. ~Owes(level) /\ Owes(level)'
  BY <1>0, <1>2 DEF Owes
<1>6. Counted(level, F)' = Counted(level, F) \cup {i \in {cur} : FlowOf[i] \in F} /\ cur \notin Counted(level, F)
  BY <1>0, <1>3, <1>4 DEF Counted
<1>7. Counted(level, F) \in SUBSET Items
  BY CountedItems
<1> HIDE DEF Counted
<1>8. CASE FlowOf[cur] \in F
  <2>1. Counted(level, F)' = Counted(level, F) \cup {cur}
    BY <1>6, <1>8
  <2>2. AddStats(Amount(Counted(level, F) \cup {cur}), -1, -SizeOf[cur]) = Amount(Counted(level, F))
    BY <1>0, <1>6, <1>7, AmountOne
  <2> QED
    BY <1>2, <1>5, <1>8, <2>1, <2>2 DEF Tally
<1>9. CASE FlowOf[cur] \notin F
  <2>1. Counted(level, F)' = Counted(level, F)
    BY <1>6, <1>9
  <2> QED
    BY <1>2, <1>5, <1>9, <2>1 DEF Tally
<1> QED
  BY <1>8, <1>9

\* The level Run brings up to date after an Add, and after a Remove.
Adds(level) ==
  \/ pc = "addQueue" /\ level = "queue"
  \/ pc = "addShard" /\ level = "shard"
  \/ pc = "addBand" /\ level = "band"

Removes(level) ==
  \/ pc = "remQueue" /\ level = "queue"
  \/ pc = "remShard" /\ level = "shard"
  \/ pc = "remBand" /\ level = "band"

\* What Run's reconciliation does to what the levels stand for.
LEMMA RunTally ==
  ASSUME TypeOK, FlowsKept, Apart, RunReconcile, NEW level \in Levels, NEW F
  PROVE  /\ Adds(level) /\ flow \in F => Tally(level, F)' = AddStats(Tally(level, F), 1, SizeOf[cur])
         /\ Removes(level) /\ flow \in F => Tally(level, F)' = AddStats(Tally(level, F), -1, -SizeOf[cur])
         /\ ~(Adds(level) \/ Removes(level)) \/ flow \notin F => Tally(level, F)' = Tally(level, F)
<1>0. cur \in Items /\ FlowOf[cur] = flow
  BY DEF RunReconcile, TypeOK, RunTypes, UsesItem, UsesFlow, Dispatching, FlowsKept
<1>1. UNCHANGED <<queue, stage, hold>> /\ Queued' = Queued
  BY DEF RunReconcile, listVars, poolVars, Queued
<1>2. Counted(level, F) \in SUBSET Items
  BY CountedItems
<1>3. CASE pc \in {"addQueue", "addShard", "addBand"}
  <2>1. /\ pc = "addQueue" => pc' = "addShard" /\ UNCHANGED <<cur, flow>>
        /\ pc = "addShard" => pc' = "addBand" /\ UNCHANGED <<cur, flow>>
        /\ pc = "addBand" => pc' = "band"
    BY <1>3 DEF RunReconcile, BeginCycle
  <2>2. Taken(level)' = Taken(level)
    BY <1>1, <1>3, <2>1 DEF Taken
  <2>3. Counted(level, F)' = Counted(level, F)
    BY <1>1, <2>2 DEF Counted
  <2>4. ~Removes(level) /\ (Owes(level)' <=> Owes(level) /\ ~Adds(level)) /\ (Adds(level) => Owes(level))
    BY <1>3, <2>1 DEF Removes, Owes, Adds, Levels
  <2>5. Owes(level)' => UNCHANGED <<cur, flow>>
    BY <1>3, <2>1 DEF Owes
  <2>6. AddStats(AddStats(Amount(Counted(level, F)), -1, -SizeOf[cur]), 1, SizeOf[cur]) = Amount(Counted(level, F))
    BY <1>0, <1>2, AddStatsBack
  <2> HIDE DEF Counted, Owes, Adds, Removes
  <2>7. Adds(level) /\ flow \in F => Tally(level, F)' = AddStats(Tally(level, F), 1, SizeOf[cur])
    BY <2>3, <2>4, <2>6 DEF Tally
  <2>8. ~Adds(level) \/ flow \notin F => Tally(level, F)' = Tally(level, F)
    BY <2>3, <2>4, <2>5 DEF Tally
  <2> QED
    BY <2>4, <2>7, <2>8
<1>4. CASE pc \in {"remQueue", "remShard", "remBand"}
  <2>1. /\ pc = "remQueue" => pc' = "remShard"
        /\ pc = "remShard" => pc' = "remBand"
        /\ pc = "remBand" => pc' = "settle"
        /\ UNCHANGED <<cur, flow>>
    BY <1>4 DEF RunReconcile, BeginCycle
  <2>2. cur \notin Queued /\ cur \notin HeldItems
    BY <1>0, <1>4 DEF Apart, RunItem, RunOwns
  <2>3. ~Owes(level) /\ ~Owes(level)' /\ ~Adds(level)
    BY <1>4, <2>1 DEF Owes, Adds
  <2>4. Removes(level) => cur \in Taken(level) /\ Taken(level)' = Taken(level) \ {cur}
    BY <1>0, <1>1, <1>4, <2>1, <2>2 DEF Removes, Taken, HeldItems, Levels
  <2>5. ~Removes(level) => Taken(level)' = Taken(level)
    BY <1>1, <1>4, <2>1 DEF Removes, Taken, Levels
  <2>6. /\ Removes(level) /\ flow \in F => cur \in Counted(level, F) /\ Counted(level, F)' = Counted(level, F) \ {cur}
        /\ ~Removes(level) \/ flow \notin F => Counted(level, F)' = Counted(level, F)
    BY <1>0, <1>1, <2>2, <2>4, <2>5 DEF Counted
  <2>7. cur \in Counted(level, F) => Amount(Counted(level, F) \ {cur}) = AddStats(Amount(Counted(level, F)), -1, -SizeOf[cur])
    BY <1>0, <1>2, AmountOne
  <2> HIDE DEF Counted, Owes, Adds, Removes
  <2> QED
    BY <2>3, <2>6, <2>7 DEF Tally
<1> QED
  BY <1>3, <1>4 DEF RunReconcile

\* The level a worker brings up to date.
Subtracts(p, f, level) ==
  \/ stage[p][f] = "recQueue" /\ level = "queue"
  \/ stage[p][f] = "recShard" /\ level = "shard"
  \/ stage[p][f] = "recBand" /\ level = "band"

\* What a worker's reconciliation does to what the levels stand for.
LEMMA WorkerTally ==
  ASSUME TypeOK, FlowsKept, Apart, NEW p \in Pools, NEW f \in Flows, WorkerReconcile(p, f),
         NEW level \in Levels, NEW F
  PROVE  Tally(level, F)' =
           IF Subtracts(p, f, level) /\ f \in F
           THEN AddStats(Tally(level, F), -Cardinality(hold[p][f]), -Bytes(hold[p][f]))
           ELSE Tally(level, F)
<1> DEFINE H == hold[p][f]
<1>1. UNCHANGED <<queue, hold, pc, cur, flow>> /\ Queued' = Queued
  BY DEF WorkerReconcile, listVars, runVars, Queued
<1>2. /\ stage \in [Pools -> [Flows -> Stages]] /\ H \in SUBSET Items
      /\ Counted(level, F) \in SUBSET Items
  BY CountedItems DEF TypeOK, PoolTypes
<1>3. /\ \A q \in Pools, g \in Flows : (q # p \/ g # f) => stage'[q][g] = stage[q][g]
      /\ \/ stage[p][f] = "recQueue" /\ stage'[p][f] = "recShard"
         \/ stage[p][f] = "recShard" /\ stage'[p][f] = "recBand"
         \/ stage[p][f] = "recBand" /\ stage'[p][f] = "finalize"
  BY <1>2 DEF WorkerReconcile
<1>4. \A i \in H : i \notin Queued /\ ~(pc \in {"remQueue", "remShard", "remBand"} /\ i = cur)
  BY <1>2 DEF Apart, RunItem, RunOwns, HeldItems
<1>5. \A i \in H : \A q \in Pools, g \in Flows : i \in hold[q][g] => q = p /\ g = f
  BY HoldsApart
<1>6. \A i \in H : FlowOf[i] = f
  BY DEF FlowsKept
<1>7. Subtracts(p, f, level) => H \subseteq Taken(level) /\ Taken(level)' = Taken(level) \ H
  <2> HIDE DEF Pools
  <2> QED
    BY <1>1, <1>2, <1>3, <1>4, <1>5 DEF Subtracts, Taken, Levels
<1>8. ~Subtracts(p, f, level) => Taken(level)' = Taken(level)
  <2>1. ~Subtracts(p, f, level) =>
          \A q \in Pools, g \in Flows :
            (\/ stage'[q][g] = "recQueue"
             \/ stage'[q][g] = "recShard" /\ level # "queue"
             \/ stage'[q][g] = "recBand" /\ level = "band")
            <=>
            (\/ stage[q][g] = "recQueue"
             \/ stage[q][g] = "recShard" /\ level # "queue"
             \/ stage[q][g] = "recBand" /\ level = "band")
    BY <1>3 DEF Subtracts, Levels
  <2> HIDE DEF Pools
  <2> QED
    BY <1>1, <2>1 DEF Taken
<1>9. /\ Subtracts(p, f, level) /\ f \in F =>
           H \in SUBSET Counted(level, F) /\ Counted(level, F)' = Counted(level, F) \ H
      /\ ~(Subtracts(p, f, level) /\ f \in F) => Counted(level, F)' = Counted(level, F)
  BY <1>1, <1>4, <1>6, <1>7, <1>8 DEF Counted
<1>10. Owes(level)' <=> Owes(level)
  BY <1>1 DEF Owes
<1> HIDE DEF Counted, Owes, Subtracts
<1>11. CASE ~(Subtracts(p, f, level) /\ f \in F)
  BY <1>1, <1>9, <1>10, <1>11 DEF Tally
<1>12. CASE Subtracts(p, f, level) /\ f \in F
  <2>1. Amount(Counted(level, F)') = AddStats(Amount(Counted(level, F)), -Cardinality(H), -Bytes(H))
    BY <1>2, <1>9, <1>12, AmountSubset
  <2>2. CASE ~(Owes(level) /\ flow \in F)
    BY <1>1, <1>10, <1>12, <2>1, <2>2 DEF Tally
  <2>3. CASE Owes(level) /\ flow \in F
    <3> DEFINE A == Amount(Counted(level, F))
               l == -Cardinality(H)
               d == -Bytes(H)
               e == -SizeOf[cur]
    <3>1. l \in Int /\ d \in Int
      BY HoldType
    <3>2. e \in Int
      BY <2>3, SizesAssumption DEF Owes, TypeOK, RunTypes, UsesItem, UsesFlow, Dispatching
    <3>3. A.len \in Int /\ A.bytes \in Int
      BY <1>2, AmountType
    <3>4. Tally(level, F)' = AddStats(AddStats(A, l, d), -1, e)
      BY <1>1, <1>10, <2>1, <2>3 DEF Tally
    <3>5. Tally(level, F) = AddStats(A, -1, e)
      BY <2>3 DEF Tally
    <3> HIDE DEF A, l, d, e
    <3>6. AddStats(AddStats(A, l, d), -1, e) = AddStats(AddStats(A, -1, e), l, d)
      BY <3>1, <3>2, <3>3, AddStatsTwice
    <3>7. Tally(level, F)' = AddStats(Tally(level, F), l, d)
      BY <3>4, <3>5, <3>6, Zenon
    <3> QED
      BY <1>12, <3>7 DEF l, d
  <2> QED
    BY <2>2, <2>3
<1> QED
  BY <1>11, <1>12

\* Every step keeps the counters of the queues, of the shard and of the bands
\* equal to what is queued, plus what has been removed and not yet subtracted,
\* minus what Run has linked and not yet added.
LEMMA TalliesStep ==
  TypeOK /\ FlowsKept /\ PoolsKept /\ Apart /\ Pending /\ TalliesKept /\ [Next]_vars
  => TalliesKept'
<1> SUFFICES ASSUME TypeOK, FlowsKept, PoolsKept, Apart, Pending, TalliesKept, [Next]_vars
             PROVE  TalliesKept'
  OBVIOUS
<1>z. SameCount => TalliesKept'
  BY SameCountKeeps
<1> USE DEF Taken, Owes, Queued, Pools,
            envVars, itemVars, chanVars, stopVars, runVars, listVars, statVars, poolVars, cleanVars
<1>1. CASE Tick
  <2>1. SameCount
    BY <1>1 DEF Tick, SameCount
  <2> QED
    BY <1>z, <2>1
<1>2. CASE CancelRun
  <2>1. SameCount
    BY <1>2 DEF CancelRun, SameCount
  <2> QED
    BY <1>z, <2>1
<1>3. ASSUME NEW i \in Items, CancelRequest(i) PROVE TalliesKept'
  <2>1. SameCount
    BY <1>3 DEF CancelRequest, SameCount
  <2> QED
    BY <1>z, <2>1
<1>4. ASSUME NEW i \in Items, Submit(i) PROVE TalliesKept'
  <2>1. SameCount
    BY <1>4 DEF Submit, SameCount, NewItem
  <2> QED
    BY <1>z, <2>1
<1>5. ASSUME NEW i \in Items, Send(i) PROVE TalliesKept'
  <2>1. SameCount
    BY <1>5 DEF Send, SameCount
  <2> QED
    BY <1>z, <2>1
<1>6. ASSUME NEW i \in Items, SendPanics(i) PROVE TalliesKept'
  <2>1. SameCount
    BY <1>6 DEF SendPanics, SameCount
  <2> QED
    BY <1>z, <2>1
<1>7. CASE Receive
  <2>1. SameCount
    BY <1>7 DEF Receive, SameCount
  <2> QED
    BY <1>z, <2>1
<1>8. CASE DefaultDispatch
  <2>1. SameCount
    BY <1>8 DEF DefaultDispatch, SameCount, BeginCycle
  <2> QED
    BY <1>z, <2>1
<1>9. CASE EnqueueLookup
  <2>1. SameCount
    BY <1>9 DEF EnqueueLookup, SameCount, ManagedQueue, Reject, BeginCycle
  <2> QED
    BY <1>z, <2>1
<1>10. CASE CapacityShard
  <2>1. SameCount
    BY <1>10 DEF CapacityShard, SameCount, Reject, BeginCycle
  <2> QED
    BY <1>z, <2>1
<1>11. CASE CapacityBand
  <2>1. SameCount
    BY <1>11 DEF CapacityBand, SameCount, Reject, BeginCycle
  <2> QED
    BY <1>z, <2>1
<1>12. CASE EnqueueAdd
  <2>1. UNCHANGED statVars
    BY <1>12 DEF EnqueueAdd
  <2>2. \A level \in Levels : \A F : Tally(level, F)' = Tally(level, F)
    BY <1>12, AddTally
  <2>3. /\ \A f \in Flows : Tally("queue", {f})' = Tally("queue", {f})
        /\ Tally("shard", Flows)' = Tally("shard", Flows)
        /\ \A b \in Bands : Tally("band", FlowsAt(b))' = Tally("band", FlowsAt(b))
    BY <2>2 DEF Levels
  <2> HIDE DEF Tally
  <2> QED
    BY <2>1, <2>3 DEF TalliesKept, FlowsAt
<1>13. CASE RunReconcile
  <2>0. flow \in Flows /\ PriorityOf[flow] \in Bands
    BY <1>13, FlowsAssumption DEF RunReconcile, TypeOK, RunTypes, UsesItem, UsesFlow, Dispatching
  <2>1. /\ queueStats \in [Flows -> Stats] /\ bandStats \in [Bands -> Stats]
        /\ \A b \in Bands : flow \in FlowsAt(b) <=> b = PriorityOf[flow]
    BY <2>0 DEF TypeOK, StatTypes, FlowsAt
  <2>2. /\ Adds("queue") => ReconcileQueue(flow, 1, SizeOf[cur])
        /\ Removes("queue") => ReconcileQueue(flow, -1, -SizeOf[cur])
        /\ ~(Adds("queue") \/ Removes("queue")) => UNCHANGED queueStats
        /\ Adds("shard") => ReconcileShard(1, SizeOf[cur])
        /\ Removes("shard") => ReconcileShard(-1, -SizeOf[cur])
        /\ ~(Adds("shard") \/ Removes("shard")) => UNCHANGED shardStats
        /\ Adds("band") => ReconcileBand(flow, 1, SizeOf[cur])
        /\ Removes("band") => ReconcileBand(flow, -1, -SizeOf[cur])
        /\ ~(Adds("band") \/ Removes("band")) => UNCHANGED bandStats
    BY <1>13 DEF RunReconcile, Adds, Removes, ReconcileQueue, ReconcileShard, ReconcileBand
  <2>3. \A level \in Levels : \A F :
          /\ Adds(level) /\ flow \in F => Tally(level, F)' = AddStats(Tally(level, F), 1, SizeOf[cur])
          /\ Removes(level) /\ flow \in F => Tally(level, F)' = AddStats(Tally(level, F), -1, -SizeOf[cur])
          /\ ~(Adds(level) \/ Removes(level)) \/ flow \notin F => Tally(level, F)' = Tally(level, F)
    BY <1>13, RunTally
  <2> HIDE DEF Tally, Adds, Removes
  <2>4. ASSUME NEW f \in Flows PROVE queueStats'[f] = Tally("queue", {f})'
    <3>1. queueStats[f] = Tally("queue", {f})
      BY DEF TalliesKept
    <3> QED
      BY <2>0, <2>1, <2>2, <2>3, <3>1 DEF ReconcileQueue, Levels
  <2>5. shardStats' = Tally("shard", Flows)'
    <3>1. shardStats = Tally("shard", Flows)
      BY DEF TalliesKept
    <3> QED
      BY <2>0, <2>2, <2>3, <3>1 DEF ReconcileShard, Levels
  <2>6. ASSUME NEW b \in Bands PROVE bandStats'[b] = Tally("band", FlowsAt(b))'
    <3>1. bandStats[b] = Tally("band", FlowsAt(b))
      BY DEF TalliesKept
    <3> QED
      BY <2>0, <2>1, <2>2, <2>3, <3>1 DEF ReconcileBand, Levels
  <2> QED
    BY <2>4, <2>5, <2>6 DEF TalliesKept, FlowsAt
<1>14. CASE PauseCycle
  <2>1. SameCount
    BY <1>14 DEF PauseCycle, SameCount, ReturnToSelect
  <2> QED
    BY <1>z, <2>1
<1>15. CASE EndCycle
  <2>1. SameCount
    BY <1>15 DEF EndCycle, SameCount, ReturnToSelect
  <2> QED
    BY <1>z, <2>1
<1>16. CASE SelectQueue
  <2>1. SameCount
    BY <1>16 DEF SelectQueue, SameCount, NextLevel
  <2> QED
    BY <1>z, <2>1
<1>17. CASE SelectItem
  <2>1. SameCount
    BY <1>17 DEF SelectItem, SameCount, NextLevel
  <2> QED
    BY <1>z, <2>1
<1>18. CASE RemoveItem
  <2>1. CASE cur \notin queue[flow]
    <3>1. SameCount
      BY <1>18, <2>1 DEF RemoveItem, Unlink, NextLevel, SameCount
    <3> QED
      BY <1>z, <3>1
  <2>2. CASE cur \in queue[flow]
    <3>1. flow \in Flows /\ queue \in [Flows -> SUBSET Items] /\ cur \in Items
      BY <1>18 DEF RemoveItem, Unlink, TypeOK, RunTypes, UsesFlow, UsesItem, Dispatching, ListTypes
    <3>2. /\ queue' = [queue EXCEPT ![flow] = @ \ {cur}] /\ pc = "remove" /\ pc' = "remQueue"
          /\ UNCHANGED <<cur, flow, stage, hold, statVars>>
      BY <1>18, <2>2 DEF RemoveItem, Unlink
    <3>3. Queued' \cup {cur} = Queued
      BY <2>2, <3>1, <3>2
    <3> HIDE DEF Queued
    <3>4. \A level \in Levels : Taken(level)' = Taken(level) \cup {cur}
      BY <3>1, <3>2
    <3>5. SameCount
      BY <3>2, <3>3, <3>4 DEF SameCount
    <3> QED
      BY <1>z, <3>5
  <2> QED
    BY <2>1, <2>2
<1>19. CASE SettleItem
  <2>1. SameCount
    BY <1>19 DEF SettleItem, SameCount, NextLevel, ReturnToSelect
  <2> QED
    BY <1>z, <2>1
<1>20. CASE BeginShutdown
  <2>1. SameCount
    BY <1>20 DEF BeginShutdown, SameCount
  <2> QED
    BY <1>z, <2>1
<1>21. CASE DrainChannel
  <2>1. SameCount
    BY <1>21 DEF DrainChannel, SameCount
  <2> QED
    BY <1>z, <2>1
<1>22. CASE CloseChannel
  <2>1. SameCount
    BY <1>22 DEF CloseChannel, SameCount, PoolsKept, Idle, TypeOK, PoolTypes
  <2> QED
    BY <1>z, <2>1
<1>23. CASE FinishShutdown
  <2>1. SameCount
    BY <1>23 DEF FinishShutdown, SameCount
  <2> QED
    BY <1>z, <2>1
<1>24. CASE CleanupTick
  <2>1. SameCount
    BY <1>24 DEF CleanupTick, SameCount, PoolsKept, Idle, TypeOK, PoolTypes
  <2> QED
    BY <1>z, <2>1
<1>25. CASE CleanupScanned
  <2>1. SameCount
    BY <1>25 DEF CleanupScanned, SameCount
  <2> QED
    BY <1>z, <2>1
<1>26. CASE CleanupExit
  <2>1. SameCount
    BY <1>26 DEF CleanupExit, SameCount
  <2> QED
    BY <1>z, <2>1
<1>27. ASSUME NEW p \in Pools, NEW f \in Flows, WorkerScan(p, f) PROVE TalliesKept'
  <2> DEFINE R == Removable(p, f)
  <2>1. /\ R \subseteq queue[f] /\ hold[p][f] = {} /\ R \subseteq Items
        /\ queue \in [Flows -> SUBSET Items] /\ hold \in [Pools -> [Flows -> SUBSET Items]]
        /\ stage \in [Pools -> [Flows -> Stages]]
    BY <1>27 DEF WorkerScan, Removable, PoolsKept, TypeOK, ListTypes, PoolTypes
  <2>2. /\ hold' = [hold EXCEPT ![p][f] = R]
        /\ queue' = [queue EXCEPT ![f] = @ \ R]
        /\ stage' = [stage EXCEPT ![p][f] = IF R = {} THEN "idle" ELSE "recQueue"]
        /\ UNCHANGED <<pc, cur, flow, statVars>>
    BY <1>27 DEF WorkerScan
  <2> HIDE DEF R
  <2>3. Queued = Queued' \cup R
    BY <2>1, <2>2
  <2>4. /\ \A q \in Pools, g \in Flows : (q # p \/ g # f) =>
             hold'[q][g] = hold[q][g] /\ stage'[q][g] = stage[q][g]
        /\ hold'[p][f] = R
        /\ R # {} => stage'[p][f] = "recQueue"
    BY <2>1, <2>2
  <2> HIDE DEF Queued, Pools
  <2>5. \A level \in Levels : Taken(level)' = Taken(level) \cup R
    BY <2>1, <2>2, <2>4
  <2>6. SameCount
    BY <2>2, <2>3, <2>5 DEF SameCount
  <2> QED
    BY <1>z, <2>6
<1>28. ASSUME NEW p \in Pools, NEW f \in Flows, WorkerReconcile(p, f) PROVE TalliesKept'
  <2>0. PriorityOf[f] \in Bands
    BY FlowsAssumption
  <2>1. /\ queueStats \in [Flows -> Stats] /\ bandStats \in [Bands -> Stats]
        /\ \A b \in Bands : f \in FlowsAt(b) <=> b = PriorityOf[f]
    BY <2>0 DEF TypeOK, StatTypes, FlowsAt
  <2> DEFINE l == -Cardinality(hold[p][f])
             d == -Bytes(hold[p][f])
  <2>2. /\ Subtracts(p, f, "queue") => ReconcileQueue(f, l, d)
        /\ ~Subtracts(p, f, "queue") => UNCHANGED queueStats
        /\ Subtracts(p, f, "shard") => ReconcileShard(l, d)
        /\ ~Subtracts(p, f, "shard") => UNCHANGED shardStats
        /\ Subtracts(p, f, "band") => ReconcileBand(f, l, d)
        /\ ~Subtracts(p, f, "band") => UNCHANGED bandStats
    BY <1>28 DEF WorkerReconcile, Subtracts, ReconcileQueue, ReconcileShard, ReconcileBand
  <2>3. \A level \in Levels : \A F :
          Tally(level, F)' = IF Subtracts(p, f, level) /\ f \in F
                             THEN AddStats(Tally(level, F), l, d) ELSE Tally(level, F)
    BY <1>28, WorkerTally
  <2> HIDE DEF Tally, Subtracts, l, d
  <2>4. ASSUME NEW g \in Flows PROVE queueStats'[g] = Tally("queue", {g})'
    <3>1. queueStats[g] = Tally("queue", {g})
      BY DEF TalliesKept
    <3> QED
      BY <2>1, <2>2, <2>3, <3>1 DEF ReconcileQueue, Levels
  <2>5. shardStats' = Tally("shard", Flows)'
    <3>1. shardStats = Tally("shard", Flows)
      BY DEF TalliesKept
    <3> QED
      BY <2>2, <2>3, <3>1 DEF ReconcileShard, Levels
  <2>6. ASSUME NEW b \in Bands PROVE bandStats'[b] = Tally("band", FlowsAt(b))'
    <3>1. bandStats[b] = Tally("band", FlowsAt(b))
      BY DEF TalliesKept
    <3> QED
      BY <2>0, <2>1, <2>2, <2>3, <3>1 DEF ReconcileBand, Levels
  <2> QED
    BY <2>4, <2>5, <2>6 DEF TalliesKept, FlowsAt
<1>29. ASSUME NEW p \in Pools, NEW f \in Flows, WorkerFinalize(p, f) PROVE TalliesKept'
  <2>1. SameCount
    BY <1>29 DEF WorkerFinalize, SameCount, PoolsKept, TypeOK, PoolTypes
  <2> QED
    BY <1>z, <2>1
<1>30. CASE UNCHANGED vars
  <2>1. SameCount
    BY <1>30 DEF vars, SameCount
  <2> QED
    BY <1>z, <2>1
<1> QED
  BY <1>1, <1>2, <1>3, <1>4, <1>5, <1>6, <1>7, <1>8, <1>9, <1>10, <1>11,
     <1>12, <1>13, <1>14, <1>15, <1>16, <1>17, <1>18, <1>19, <1>20,
     <1>21, <1>22, <1>23, <1>24, <1>25, <1>26, <1>27, <1>28, <1>29,
     <1>30
  DEF Next, Env, CallerStep, RunStep, CleanupStep, WorkerStep, Terminated

-----------------------------------------------------------------------------
(* Capacity *)

\* A number below the modulus is its own remainder.
LEMMA ModSmall ==
  ASSUME NEW m \in Nat, NEW n \in Nat, n < m
  PROVE  n % m = n
OBVIOUS

\* A step that only takes items out of the queues, and at which Run does not
\* pass a capacity check, leaves the room there was.
ShrinkingStep ==
  /\ Queued' \subseteq Queued
  /\ pc' \in {"capBand", "add"} => pc' = pc /\ cur' = cur

LEMMA RoomShrinks ==
  ASSUME TypeOK, ShardRoom, BandRoom, ShrinkingStep
  PROVE  ShardRoom' /\ BandRoom'
<1>1. Queued \in SUBSET Items /\ Queued' \in SUBSET Queued
  BY DEF TypeOK, ListTypes, Queued, ShrinkingStep
<1>2. \A b : QueuedAt(b) \in SUBSET Items /\ QueuedAt(b)' \in SUBSET QueuedAt(b)
  BY <1>1 DEF QueuedAt
<1>3. Bytes(Queued') <= Bytes(Queued) /\ Bytes(Queued') \in Nat /\ Bytes(Queued) \in Nat
  BY <1>1, BytesSubset
<1>4. ASSUME NEW b
      PROVE  /\ Bytes(QueuedAt(b)') <= Bytes(QueuedAt(b))
             /\ Bytes(QueuedAt(b)') \in Nat /\ Bytes(QueuedAt(b)) \in Nat
  <2> HIDE DEF QueuedAt
  <2> QED
    BY <1>2, BytesSubset
<1>5. pc \in {"capBand", "add"} => SizeOf[cur] \in Nat
  BY SizesAssumption DEF TypeOK, RunTypes, UsesItem
<1>6. ShardRoom'
  BY <1>3, <1>5, SizesAssumption DEF ShardRoom, ShrinkingStep
<1>7. BandRoom'
  <2> SUFFICES ASSUME NEW b \in Bands
               PROVE  /\ Bytes(QueuedAt(b)') <= BandMaxBytes[b]
                      /\ (pc' = "add" /\ FlowOf[cur'] \in FlowsAt(b)) =>
                           Bytes(QueuedAt(b)') + SizeOf[cur'] <= BandMaxBytes[b]
    BY DEF BandRoom, FlowsAt
  <2>1. BandMaxBytes[b] \in Nat
    BY SizesAssumption
  <2>2. /\ Bytes(QueuedAt(b)) <= BandMaxBytes[b]
        /\ (pc = "add" /\ FlowOf[cur] \in FlowsAt(b)) => Bytes(QueuedAt(b)) + SizeOf[cur] <= BandMaxBytes[b]
    BY DEF BandRoom
  <2> HIDE DEF QueuedAt
  <2> QED
    BY <1>4, <1>5, <2>1, <2>2 DEF ShrinkingStep
<1> QED
  BY <1>6, <1>7

\* A counter of a level at which Run owes nothing stands for at least what is
\* queued, and for at most all the requests.
LEMMA TallyBound ==
  ASSUME TypeOK, NEW level \in Levels, NEW F, ~Owes(level)
  PROVE  LET S == {i \in Queued : FlowOf[i] \in F}
         IN  /\ Tally(level, F) = Amount(Counted(level, F))
             /\ Counted(level, F) \in SUBSET Items /\ S \in SUBSET Counted(level, F)
             /\ Tally(level, F).len \in Cardinality(S) .. Cardinality(Items)
             /\ Tally(level, F).bytes \in Bytes(S) .. Bytes(Items)
             /\ Cardinality(S) \in Nat /\ Bytes(S) \in Nat
             /\ Cardinality(Items) \in Nat /\ Bytes(Items) \in Nat
<1> DEFINE S == {i \in Queued : FlowOf[i] \in F}
           C == Counted(level, F)
<1>1. Tally(level, F) = Amount(C)
  BY DEF Tally
<1>2. C \in SUBSET Items
  BY CountedItems
<1>3. S \in SUBSET C
  BY DEF Counted
<1> HIDE DEF C, S
<1>4. /\ Amount(C).len = Cardinality(C) /\ Amount(C).bytes = Bytes(C)
      /\ Cardinality(C) \in Nat /\ Bytes(C) \in Nat
      /\ Cardinality(C) <= Cardinality(Items) /\ Bytes(C) <= Bytes(Items)
      /\ Cardinality(Items) \in Nat /\ Bytes(Items) \in Nat
  BY <1>2, AmountType
<1>5. Cardinality(S) \in Nat /\ Bytes(S) \in Nat
  BY <1>2, <1>3, AmountType
<1>6. IsFiniteSet(C)
  BY <1>2, ItemsAssumption, FS_Subset
<1>7. Cardinality(S) <= Cardinality(C) /\ Bytes(S) <= Bytes(C)
  BY <1>2, <1>3, <1>6, FS_Subset, BytesSubset
<1>8. /\ Tally(level, F).len \in Cardinality(S) .. Cardinality(Items)
      /\ Tally(level, F).bytes \in Bytes(S) .. Bytes(Items)
  BY <1>1, <1>4, <1>5, <1>7
<1> QED
  BY <1>1, <1>2, <1>3, <1>4, <1>5, <1>8 DEF S, C

\* The bytes that hasCapacity reads have not wrapped, and adding the item's
\* size to them does not wrap either: Run owns the item, so its bytes are not
\* among those the counter stands for.
LEMMA CapacityRead ==
  ASSUME TypeOK, Apart, pc \in {"capShard", "capBand"}, NEW level \in Levels, NEW F, NEW s,
         s = Tally(level, F), NEW max \in Nat, (Load(s.bytes) + SizeOf[cur]) % Word <= max
  PROVE  Bytes({i \in Queued : FlowOf[i] \in F}) + SizeOf[cur] <= max
<1> DEFINE C == Counted(level, F)
           S == {i \in Queued : FlowOf[i] \in F}
<1>1. cur \in Items /\ SizeOf[cur] \in Nat
  BY SizesAssumption DEF TypeOK, RunTypes, UsesItem
<1>2. cur \notin Queued /\ cur \notin HeldItems
  BY <1>1 DEF Apart, RunItem, RunOwns
<1>3. ~Owes(level) /\ cur \notin C
  BY <1>2 DEF Owes, Counted, Taken, HeldItems
<1>4. /\ s = Amount(C) /\ C \in SUBSET Items
      /\ s.bytes \in Bytes(S) .. Bytes(Items) /\ Bytes(S) \in Nat /\ Bytes(Items) \in Nat
  BY <1>3, TallyBound
<1> HIDE DEF C, S
<1>5. s.bytes = Bytes(C) /\ s.bytes \in Nat
  BY <1>4 DEF Amount
<1>6. Bytes(C \cup {cur}) = s.bytes + SizeOf[cur]
  BY <1>1, <1>3, <1>4, <1>5, BytesAdd
<1>7. Bytes(C \cup {cur}) <= Bytes(Items)
  <2>1. C \cup {cur} \in SUBSET Items
    BY <1>1, <1>4
  <2> QED
    BY <2>1, BytesSubset
<1>8. s.bytes + SizeOf[cur] < Word /\ s.bytes < Word
  BY <1>1, <1>4, <1>5, <1>6, <1>7, WordAssumption
<1>9. Load(s.bytes) = s.bytes
  BY <1>5, <1>8, WordAssumption, ModSmall DEF Load
<1>10. (s.bytes + SizeOf[cur]) % Word = s.bytes + SizeOf[cur]
  BY <1>1, <1>5, <1>8, WordAssumption, ModSmall
<1>11. Bytes(S) + SizeOf[cur] <= max
  BY <1>1, <1>4, <1>5, <1>9, <1>10
<1> QED
  BY <1>11 DEF S

LEMMA ShardRead ==
  ASSUME TypeOK, FlowsKept, Apart, TalliesKept, pc = "capShard", FitsShard(cur), ShardMaxBytes > 0
  PROVE  Bytes(Queued) + SizeOf[cur] <= ShardMaxBytes
<1>1. {i \in Queued : FlowOf[i] \in Flows} = Queued
  BY DEF FlowsKept, Queued
<1>2. shardStats = Tally("shard", Flows) /\ "shard" \in Levels /\ ShardMaxBytes \in Nat
  BY SizesAssumption DEF TalliesKept, Levels
<1>3. (Load(shardStats.bytes) + SizeOf[cur]) % Word <= ShardMaxBytes
  BY <1>2 DEF FitsShard
<1>4. Bytes({i \in Queued : FlowOf[i] \in Flows}) + SizeOf[cur] <= ShardMaxBytes
  BY <1>2, <1>3, CapacityRead
<1> QED
  BY <1>1, <1>4

LEMMA BandRead ==
  ASSUME TypeOK, Apart, TalliesKept, pc = "capBand", FitsBand(cur),
         NEW b \in Bands, FlowOf[cur] \in FlowsAt(b)
  PROVE  Bytes(QueuedAt(b)) + SizeOf[cur] <= BandMaxBytes[b]
<1>1. PriorityOf[FlowOf[cur]] = b /\ BandMaxBytes[b] \in Nat
  BY SizesAssumption DEF FlowsAt
<1>2. bandStats[b] = Tally("band", FlowsAt(b)) /\ "band" \in Levels
  BY DEF TalliesKept, Levels
<1>3. (Load(bandStats[b].bytes) + SizeOf[cur]) % Word <= BandMaxBytes[b]
  BY <1>1 DEF FitsBand
<1> QED
  BY <1>1, <1>2, <1>3, CapacityRead DEF QueuedAt

\* Every step keeps the queues within the capacities, and the room the
\* capacity checks found until the item is in its queue.
LEMMA RoomStep ==
  TypeOK /\ FlowsKept /\ Apart /\ Pending /\ TalliesKept
  /\ ShardRoom /\ BandRoom /\ [Next]_vars
  => ShardRoom' /\ BandRoom'
<1> SUFFICES ASSUME TypeOK, FlowsKept, Apart, Pending, TalliesKept,
                    ShardRoom, BandRoom, [Next]_vars
             PROVE  ShardRoom' /\ BandRoom'
  OBVIOUS
<1>z. ShrinkingStep => ShardRoom' /\ BandRoom'
  BY RoomShrinks
<1> USE DEF Pools,
            envVars, itemVars, chanVars, stopVars, runVars, listVars, statVars, poolVars, cleanVars
<1>1. CASE Tick
  <2>1. ShrinkingStep
    BY <1>1 DEF Tick, ShrinkingStep, Queued
  <2> QED
    BY <1>z, <2>1
<1>2. CASE CancelRun
  <2>1. ShrinkingStep
    BY <1>2 DEF CancelRun, ShrinkingStep, Queued
  <2> QED
    BY <1>z, <2>1
<1>3. ASSUME NEW i \in Items, CancelRequest(i) PROVE ShardRoom' /\ BandRoom'
  <2>1. ShrinkingStep
    BY <1>3 DEF CancelRequest, ShrinkingStep, Queued
  <2> QED
    BY <1>z, <2>1
<1>4. ASSUME NEW i \in Items, Submit(i) PROVE ShardRoom' /\ BandRoom'
  <2>1. ShrinkingStep
    BY <1>4 DEF Submit, NewItem, ShrinkingStep, Queued
  <2> QED
    BY <1>z, <2>1
<1>5. ASSUME NEW i \in Items, Send(i) PROVE ShardRoom' /\ BandRoom'
  <2>1. ShrinkingStep
    BY <1>5 DEF Send, ShrinkingStep, Queued
  <2> QED
    BY <1>z, <2>1
<1>6. ASSUME NEW i \in Items, SendPanics(i) PROVE ShardRoom' /\ BandRoom'
  <2>1. ShrinkingStep
    BY <1>6 DEF SendPanics, ShrinkingStep, Queued
  <2> QED
    BY <1>z, <2>1
<1>7. CASE Receive
  <2>1. ShrinkingStep
    BY <1>7 DEF Receive, ShrinkingStep, Queued
  <2> QED
    BY <1>z, <2>1
<1>8. CASE DefaultDispatch
  <2>1. ShrinkingStep
    BY <1>8 DEF DefaultDispatch, ShrinkingStep, Queued, BeginCycle
  <2> QED
    BY <1>z, <2>1
<1>9. CASE EnqueueLookup
  <2>0. /\ cur \in Items /\ SizeOf[cur] \in Nat /\ Queued \in SUBSET Items
        /\ Bytes(Queued) \in Nat /\ \A b \in Bands : Bytes(QueuedAt(b)) \in Nat
    <3>1. cur \in Items /\ SizeOf[cur] \in Nat /\ Queued \in SUBSET Items
      BY <1>9, SizesAssumption DEF EnqueueLookup, ManagedQueue, TypeOK, RunTypes, ListTypes, UsesItem, Queued
    <3>2. Bytes(Queued) \in Nat
      BY <3>1, BytesSubset
    <3>3. \A b \in Bands : Bytes(QueuedAt(b)) \in Nat
      BY <3>1, BytesSubset DEF QueuedAt
    <3> QED
      BY <3>1, <3>2, <3>3
  <2>1. Queued' = Queued /\ \A b \in Bands : QueuedAt(b)' = QueuedAt(b)
    BY <1>9 DEF EnqueueLookup, ManagedQueue, Queued, QueuedAt, FlowsAt
  <2>2. CASE FlowOf[cur] \notin Flows \/ SizeOf[cur] # 0
    <3>1. ShrinkingStep
      BY <1>9, <2>1, <2>2 DEF EnqueueLookup, ManagedQueue, Reject, BeginCycle, ShrinkingStep
    <3> QED
      BY <1>z, <3>1
  <2>3. CASE FlowOf[cur] \in Flows /\ SizeOf[cur] = 0
    <3>1. pc = "lookup" /\ pc' = "add" /\ cur' = cur
      BY <1>9, <2>3 DEF EnqueueLookup, ManagedQueue
    <3>2. ShardRoom'
      BY <2>0, <2>1, <2>3, <3>1 DEF ShardRoom
    <3>3. BandRoom'
      BY <2>0, <2>1, <2>3, <3>1 DEF BandRoom, FlowsAt
    <3> QED
      BY <3>2, <3>3
  <2> QED
    BY <2>2, <2>3
<1>10. CASE CapacityShard
  <2>0. /\ cur \in Items /\ SizeOf[cur] \in Nat /\ Queued \in SUBSET Items
        /\ Bytes(Queued) \in Nat /\ \A b \in Bands : Bytes(QueuedAt(b)) \in Nat
    <3>1. cur \in Items /\ SizeOf[cur] \in Nat /\ Queued \in SUBSET Items
      BY <1>10, SizesAssumption DEF CapacityShard, TypeOK, RunTypes, ListTypes, UsesItem, Queued
    <3>2. Bytes(Queued) \in Nat
      BY <3>1, BytesSubset
    <3>3. \A b \in Bands : Bytes(QueuedAt(b)) \in Nat
      BY <3>1, BytesSubset DEF QueuedAt
    <3> QED
      BY <3>1, <3>2, <3>3
  <2>1. Queued' = Queued /\ \A b \in Bands : QueuedAt(b)' = QueuedAt(b)
    BY <1>10 DEF CapacityShard, Queued, QueuedAt, FlowsAt
  <2>2. CASE ~FitsShard(cur)
    <3>1. ShrinkingStep
      BY <1>10, <2>1, <2>2 DEF CapacityShard, Reject, BeginCycle, ShrinkingStep
    <3> QED
      BY <1>z, <3>1
  <2>3. CASE FitsShard(cur)
    <3>1. pc = "capShard" /\ pc' = "capBand" /\ cur' = cur
      BY <1>10, <2>3 DEF CapacityShard
    <3>2. ShardRoom'
      BY <2>1, <2>3, <3>1, ShardRead DEF ShardRoom
    <3>3. BandRoom'
      BY <2>1, <3>1 DEF BandRoom
    <3> QED
      BY <3>2, <3>3
  <2> QED
    BY <2>2, <2>3
<1>11. CASE CapacityBand
  <2>0. /\ cur \in Items /\ SizeOf[cur] \in Nat /\ Queued \in SUBSET Items
        /\ Bytes(Queued) \in Nat /\ \A b \in Bands : Bytes(QueuedAt(b)) \in Nat
    <3>1. cur \in Items /\ SizeOf[cur] \in Nat /\ Queued \in SUBSET Items
      BY <1>11, SizesAssumption DEF CapacityBand, TypeOK, RunTypes, ListTypes, UsesItem, Queued
    <3>2. Bytes(Queued) \in Nat
      BY <3>1, BytesSubset
    <3>3. \A b \in Bands : Bytes(QueuedAt(b)) \in Nat
      BY <3>1, BytesSubset DEF QueuedAt
    <3> QED
      BY <3>1, <3>2, <3>3
  <2>1. Queued' = Queued /\ \A b \in Bands : QueuedAt(b)' = QueuedAt(b)
    BY <1>11 DEF CapacityBand, Queued, QueuedAt, FlowsAt
  <2>2. CASE ~FitsBand(cur)
    <3>1. ShrinkingStep
      BY <1>11, <2>1, <2>2 DEF CapacityBand, Reject, BeginCycle, ShrinkingStep
    <3> QED
      BY <1>z, <3>1
  <2>3. CASE FitsBand(cur)
    <3>1. pc = "capBand" /\ pc' = "add" /\ cur' = cur
      BY <1>11, <2>3 DEF CapacityBand
    <3>2. ShardRoom'
      BY <2>1, <3>1 DEF ShardRoom
    <3>3. \A b \in Bands : FlowOf[cur] \in FlowsAt(b) => Bytes(QueuedAt(b)) + SizeOf[cur] <= BandMaxBytes[b]
      BY <2>3, <3>1, BandRead
    <3>4. BandRoom'
      BY <2>1, <3>1, <3>3 DEF BandRoom, FlowsAt
    <3> QED
      BY <3>2, <3>4
  <2> QED
    BY <2>2, <2>3
<1>12. CASE EnqueueAdd
  <2>0. /\ cur \in Items /\ SizeOf[cur] \in Nat /\ Queued \in SUBSET Items
        /\ Bytes(Queued) \in Nat /\ \A b \in Bands : Bytes(QueuedAt(b)) \in Nat
    <3>1. cur \in Items /\ SizeOf[cur] \in Nat /\ Queued \in SUBSET Items
      BY <1>12, SizesAssumption DEF EnqueueAdd, PushBack, TypeOK, RunTypes, ListTypes, UsesItem, Queued
    <3>2. Bytes(Queued) \in Nat
      BY <3>1, BytesSubset
    <3>3. \A b \in Bands : Bytes(QueuedAt(b)) \in Nat
      BY <3>1, BytesSubset DEF QueuedAt
    <3> QED
      BY <3>1, <3>2, <3>3
  <2>1. pc = "add" /\ outcome[cur] = NotYet /\ cur \notin Queued
    BY <1>12, <2>0 DEF EnqueueAdd, PushBack, Pending, Apart, RunItem, RunOwns
  <2>2. FlowOf[cur] \in Flows /\ queue \in [Flows -> SUBSET Items]
    BY <2>1 DEF TypeOK, RunTypes, ListTypes
  <2>3. queue' = [queue EXCEPT ![FlowOf[cur]] = @ \cup {cur}] /\ pc' = "addQueue"
    BY <1>12, <2>1 DEF EnqueueAdd, PushBack
  <2>4. Queued' = Queued \cup {cur}
    BY <2>2, <2>3 DEF Queued
  <2>5. Bytes(Queued') = Bytes(Queued) + SizeOf[cur]
    BY <2>0, <2>1, <2>4, BytesAdd
  <2>6. ShardRoom'
    BY <2>1, <2>3, <2>5 DEF ShardRoom
  <2>7. ASSUME NEW b \in Bands PROVE Bytes(QueuedAt(b)') <= BandMaxBytes[b]
    <3>1. CASE FlowOf[cur] \in FlowsAt(b)
      <4>1. QueuedAt(b)' = QueuedAt(b) \cup {cur} /\ cur \notin QueuedAt(b) /\ QueuedAt(b) \in SUBSET Items
        BY <2>0, <2>1, <2>4, <3>1 DEF QueuedAt, FlowsAt
      <4>2. Bytes(QueuedAt(b) \cup {cur}) = Bytes(QueuedAt(b)) + SizeOf[cur]
        <5> HIDE DEF QueuedAt
        <5> QED
          BY <2>0, <4>1, BytesAdd
      <4> QED
        BY <2>1, <3>1, <4>1, <4>2 DEF BandRoom
    <3>2. CASE FlowOf[cur] \notin FlowsAt(b)
      <4>1. QueuedAt(b)' = QueuedAt(b)
        BY <2>4, <3>2 DEF QueuedAt, FlowsAt
      <4> QED
        BY <4>1 DEF BandRoom
    <3> QED
      BY <3>1, <3>2
  <2>8. BandRoom'
    BY <2>3, <2>7 DEF BandRoom
  <2> QED
    BY <2>6, <2>8
<1>13. CASE RunReconcile
  <2>1. ShrinkingStep
    BY <1>13 DEF RunReconcile, ShrinkingStep, Queued, BeginCycle
  <2> QED
    BY <1>z, <2>1
<1>14. CASE PauseCycle
  <2>1. ShrinkingStep
    BY <1>14 DEF PauseCycle, ShrinkingStep, Queued, ReturnToSelect
  <2> QED
    BY <1>z, <2>1
<1>15. CASE EndCycle
  <2>1. ShrinkingStep
    BY <1>15 DEF EndCycle, ShrinkingStep, Queued, ReturnToSelect
  <2> QED
    BY <1>z, <2>1
<1>16. CASE SelectQueue
  <2>1. ShrinkingStep
    BY <1>16 DEF SelectQueue, ShrinkingStep, Queued, NextLevel
  <2> QED
    BY <1>z, <2>1
<1>17. CASE SelectItem
  <2>1. ShrinkingStep
    BY <1>17 DEF SelectItem, ShrinkingStep, Queued, NextLevel
  <2> QED
    BY <1>z, <2>1
<1>18. CASE RemoveItem
  <2>1. \A f \in Flows : queue'[f] \subseteq queue[f]
    BY <1>18 DEF RemoveItem, Unlink, TypeOK, ListTypes
  <2>2. ShrinkingStep
    BY <1>18, <2>1 DEF RemoveItem, Unlink, NextLevel, ShrinkingStep, Queued
  <2> QED
    BY <1>z, <2>2
<1>19. CASE SettleItem
  <2>1. ShrinkingStep
    BY <1>19 DEF SettleItem, ShrinkingStep, Queued, NextLevel, ReturnToSelect
  <2> QED
    BY <1>z, <2>1
<1>20. CASE BeginShutdown
  <2>1. ShrinkingStep
    BY <1>20 DEF BeginShutdown, ShrinkingStep, Queued
  <2> QED
    BY <1>z, <2>1
<1>21. CASE DrainChannel
  <2>1. ShrinkingStep
    BY <1>21 DEF DrainChannel, ShrinkingStep, Queued
  <2> QED
    BY <1>z, <2>1
<1>22. CASE CloseChannel
  <2>1. ShrinkingStep
    BY <1>22 DEF CloseChannel, ShrinkingStep, Queued
  <2> QED
    BY <1>z, <2>1
<1>23. CASE FinishShutdown
  <2>1. ShrinkingStep
    BY <1>23 DEF FinishShutdown, ShrinkingStep, Queued
  <2> QED
    BY <1>z, <2>1
<1>24. CASE CleanupTick
  <2>1. ShrinkingStep
    BY <1>24 DEF CleanupTick, ShrinkingStep, Queued
  <2> QED
    BY <1>z, <2>1
<1>25. CASE CleanupScanned
  <2>1. ShrinkingStep
    BY <1>25 DEF CleanupScanned, ShrinkingStep, Queued
  <2> QED
    BY <1>z, <2>1
<1>26. CASE CleanupExit
  <2>1. ShrinkingStep
    BY <1>26 DEF CleanupExit, ShrinkingStep, Queued
  <2> QED
    BY <1>z, <2>1
<1>27. ASSUME NEW p \in Pools, NEW f \in Flows, WorkerScan(p, f) PROVE ShardRoom' /\ BandRoom'
  <2>1. \A g \in Flows : queue'[g] \subseteq queue[g]
    BY <1>27 DEF WorkerScan, TypeOK, ListTypes
  <2>2. ShrinkingStep
    BY <1>27, <2>1 DEF WorkerScan, ShrinkingStep, Queued
  <2> QED
    BY <1>z, <2>2
<1>28. ASSUME NEW p \in Pools, NEW f \in Flows, WorkerReconcile(p, f) PROVE ShardRoom' /\ BandRoom'
  <2>1. ShrinkingStep
    BY <1>28 DEF WorkerReconcile, ShrinkingStep, Queued
  <2> QED
    BY <1>z, <2>1
<1>29. ASSUME NEW p \in Pools, NEW f \in Flows, WorkerFinalize(p, f) PROVE ShardRoom' /\ BandRoom'
  <2>1. ShrinkingStep
    BY <1>29 DEF WorkerFinalize, ShrinkingStep, Queued
  <2> QED
    BY <1>z, <2>1
<1>30. CASE UNCHANGED vars
  <2>1. ShrinkingStep
    BY <1>30 DEF vars, ShrinkingStep, Queued
  <2> QED
    BY <1>z, <2>1
<1> QED
  BY <1>1, <1>2, <1>3, <1>4, <1>5, <1>6, <1>7, <1>8, <1>9, <1>10, <1>11,
     <1>12, <1>13, <1>14, <1>15, <1>16, <1>17, <1>18, <1>19, <1>20,
     <1>21, <1>22, <1>23, <1>24, <1>25, <1>26, <1>27, <1>28, <1>29,
     <1>30
  DEF Next, Env, CallerStep, RunStep, CleanupStep, WorkerStep, Terminated

-----------------------------------------------------------------------------
(* The theorems *)

\* The initial state satisfies the inductive invariant.
LEMMA InvInit == Init => Inv
<1> SUFFICES ASSUME Init PROVE Inv
  OBVIOUS
<1> USE DEF Init, Pools
<1>1. TypeOK
  BY TypeInit
<1>2. FlowsKept /\ PoolsKept
  BY DEF FlowsKept, PoolsKept, Idle, UsesFlow, Dispatching
<1>3. Queued = {} /\ HeldItems = {} /\ ChanItems = {} /\ \A b : QueuedAt(b) = {}
  BY DEF Queued, HeldItems, ChanItems, Elements, QueuedAt
<1>4. ~RunOwns /\ \A level : ~Owes(level) /\ Taken(level) = {}
  BY DEF RunOwns, Owes, Taken
<1>5. Apart /\ Pending
  BY <1>3, <1>4 DEF Apart, Pending, RunItem, NoRepeats
<1>6. \A level, F : Tally(level, F) = ZeroStats
  <2>1. \A level, F : Counted(level, F) = {}
    BY <1>3, <1>4 DEF Counted
  <2>2. Cardinality({}) = 0
    BY FS_EmptySet
  <2>3. Amount({}) = ZeroStats
    BY <2>2, BytesEmpty DEF Amount, ZeroStats
  <2> QED
    BY <1>4, <2>1, <2>3 DEF Tally
<1>7. Bytes(Queued) = 0 /\ \A b : Bytes(QueuedAt(b)) = 0
  BY <1>3, BytesEmpty, Zenon
<1>8. pc = "select"
  OBVIOUS
<1>9. TalliesKept
  BY <1>6 DEF TalliesKept
<1> HIDE DEF Init
<1>10. ShardRoom /\ BandRoom
  BY <1>7, <1>8, SizesAssumption DEF ShardRoom, BandRoom
<1> QED
  BY <1>1, <1>2, <1>5, <1>9, <1>10 DEF Inv

\* Every step of the shard keeps it.
LEMMA InvStep == Inv /\ [Next]_vars => Inv'
BY TypeStep, FlowsStep, PoolsStep, ApartStep, TalliesStep, RoomStep DEF Inv

\* The inductive invariant is an invariant of every behaviour of the shard.
THEOREM Invariance == Spec => []Inv
BY InvInit, InvStep, PTL DEF Spec

\* Claim 1 of the ShardProcessor comment, for any number of requests, flows
\* and bands: although hasCapacity reads counters that the cleanup and
\* eviction workers change concurrently and that Run itself updates after the
\* queue, the bytes in the queues never exceed the shard's or a band's
\* capacity.
THEOREM CapacitySafe == Spec => []CapacitySafety
<1>1. Inv => CapacitySafety
  <2> SUFFICES ASSUME Inv PROVE CapacitySafety
    OBVIOUS
  <2>1. ASSUME NEW b \in Bands
        PROVE  UNION {queue[f] : f \in FlowsAt(b)} = QueuedAt(b)
    BY DEF Inv, FlowsKept, QueuedAt, Queued, FlowsAt
  <2> QED
    BY <2>1 DEF Inv, ShardRoom, BandRoom, CapacitySafety
<1> QED
  BY <1>1, Invariance, PTL

=============================================================================
