------------------------ MODULE ShardDispatchProofs -------------------------
(***************************************************************************)
(* What the shard's counters, its dispatch order and its ownership of the  *)
(* requests come to, from the inductive invariant of ShardProcessorProofs, *)
(* and that the shard implements the queue of AdmissionQueue.              *)
(***************************************************************************)
EXTENDS ShardProcessorProofs

-----------------------------------------------------------------------------
(* The counters *)

\* The requests of one queue, of one band and of the shard.
LEMMA QueuedBy ==
  ASSUME TypeOK, FlowsKept
  PROVE  /\ \A f \in Flows : {i \in Queued : FlowOf[i] \in {f}} = queue[f]
         /\ \A b \in Bands : {i \in Queued : FlowOf[i] \in FlowsAt(b)} = UNION {queue[f] : f \in FlowsAt(b)}
         /\ {i \in Queued : FlowOf[i] \in Flows} = Queued
BY DEF TypeOK, ListTypes, FlowsKept, Queued, FlowsAt

\* What Run reads of the counters before a capacity check and in a dispatch
\* cycle has not wrapped and is at least what the queues hold.
LEMMA CountersRead == Inv => CountersReadable
<1> SUFFICES ASSUME Inv, pc \in {"capShard", "capBand", "band"}
             PROVE  /\ shardStats.bytes \in Bytes(Queued) .. Word - 1
                    /\ \A b \in Bands :
                         bandStats[b].bytes \in Bytes(UNION {queue[f] : f \in FlowsAt(b)}) .. Word - 1
                    /\ \A f \in Flows :
                         queueStats[f].len \in Cardinality(queue[f]) .. Word - 1
  BY DEF CountersReadable
<1>1. TypeOK /\ FlowsKept /\ TalliesKept
  BY DEF Inv
<1>2. \A level \in Levels : ~Owes(level)
  BY DEF Owes
<1>3. /\ Bytes(Items) \in Nat /\ Cardinality(Items) \in Nat /\ Word \in Nat
      /\ Bytes(Items) <= Word - 1 /\ Cardinality(Items) <= Word - 1
  BY AmountType, WordAssumption
<1>4. shardStats.bytes \in Bytes(Queued) .. Word - 1
  <2>1. shardStats = Tally("shard", Flows)
    BY <1>1 DEF TalliesKept
  <2>2. /\ shardStats.bytes \in Bytes({i \in Queued : FlowOf[i] \in Flows}) .. Bytes(Items)
        /\ Bytes({i \in Queued : FlowOf[i] \in Flows}) \in Nat
    BY <1>1, <1>2, <2>1, TallyBound DEF Levels
  <2>3. shardStats.bytes \in Bytes(Queued) .. Bytes(Items) /\ Bytes(Queued) \in Nat
    BY <1>1, <2>2, QueuedBy
  <2> QED
    BY <1>3, <2>3
<1>5. ASSUME NEW b \in Bands
      PROVE  bandStats[b].bytes \in Bytes(UNION {queue[f] : f \in FlowsAt(b)}) .. Word - 1
  <2> DEFINE S == {i \in Queued : FlowOf[i] \in FlowsAt(b)}
  <2>1. bandStats[b] = Tally("band", FlowsAt(b))
    BY <1>1 DEF TalliesKept
  <2>2. bandStats[b].bytes \in Bytes(S) .. Bytes(Items) /\ Bytes(S) \in Nat
    BY <1>1, <1>2, <2>1, TallyBound DEF Levels
  <2>3. S = UNION {queue[f] : f \in FlowsAt(b)}
    BY <1>1, QueuedBy
  <2> HIDE DEF S
  <2>4. bandStats[b].bytes \in Bytes(S) .. Word - 1
    BY <1>3, <2>2
  <2> QED
    BY <2>3, <2>4, Zenon
<1>6. ASSUME NEW f \in Flows
      PROVE  queueStats[f].len \in Cardinality(queue[f]) .. Word - 1
  <2> DEFINE S == {i \in Queued : FlowOf[i] \in {f}}
  <2>1. queueStats[f] = Tally("queue", {f})
    BY <1>1 DEF TalliesKept
  <2>2. queueStats[f].len \in Cardinality(S) .. Cardinality(Items) /\ Cardinality(S) \in Nat
    BY <1>1, <1>2, <2>1, TallyBound DEF Levels
  <2>3. S = queue[f]
    BY <1>1, QueuedBy
  <2> HIDE DEF S
  <2> QED
    BY <1>3, <2>2, <2>3
<1> QED
  BY <1>4, <1>5, <1>6

\* Although the cleanup and eviction workers subtract from the counters while
\* Run's own additions are outstanding, whatever Run is about to read has not
\* wrapped below zero and reports at least the contents of the queues.
THEOREM ReadableCounters == Spec => []CountersReadable
BY CountersRead, Invariance, PTL

\* With no reconciliation under way nothing is owed and nothing is taken.
LEMMA StatsSettled == Inv => StatsExact
<1> SUFFICES ASSUME Inv,
                    pc \notin {"addQueue", "addShard", "addBand", "remQueue", "remShard", "remBand"},
                    \A p \in Pools, f \in Flows : stage[p][f] \in {"idle", "scan", "finalize"}
             PROVE  /\ \A f \in Flows : queueStats[f] = Amount(queue[f])
                    /\ \A b \in Bands : bandStats[b] = Amount(UNION {queue[f] : f \in FlowsAt(b)})
                    /\ shardStats = Amount(Queued)
  BY DEF StatsExact, Amount
<1>1. TypeOK /\ FlowsKept /\ TalliesKept
  BY DEF Inv
<1>2. \A level \in Levels : ~Owes(level) /\ Taken(level) = {}
  BY DEF Owes, Taken
<1>3. \A level \in Levels : \A F : Tally(level, F) = Amount({i \in Queued : FlowOf[i] \in F})
  <2> SUFFICES ASSUME NEW level \in Levels, NEW F
               PROVE  Tally(level, F) = Amount({i \in Queued : FlowOf[i] \in F})
    OBVIOUS
  <2>1. Counted(level, F) = {i \in Queued : FlowOf[i] \in F}
    BY <1>2 DEF Counted
  <2>2. Tally(level, F) = Amount(Counted(level, F))
    BY <1>2 DEF Tally
  <2> QED
    BY <2>1, <2>2
<1>4. ASSUME NEW f \in Flows PROVE queueStats[f] = Amount(queue[f])
  <2>1. queueStats[f] = Amount({i \in Queued : FlowOf[i] \in {f}})
    BY <1>1, <1>3 DEF TalliesKept, Levels
  <2>2. {i \in Queued : FlowOf[i] \in {f}} = queue[f]
    BY <1>1, QueuedBy
  <2> QED
    BY <2>1, <2>2
<1>5. ASSUME NEW b \in Bands PROVE bandStats[b] = Amount(UNION {queue[f] : f \in FlowsAt(b)})
  <2>1. bandStats[b] = Amount({i \in Queued : FlowOf[i] \in FlowsAt(b)})
    BY <1>1, <1>3 DEF TalliesKept, Levels
  <2>2. {i \in Queued : FlowOf[i] \in FlowsAt(b)} = UNION {queue[f] : f \in FlowsAt(b)}
    BY <1>1, QueuedBy
  <2> QED
    BY <2>1, <2>2, Zenon
<1>6. shardStats = Amount(Queued)
  <2>1. shardStats = Amount({i \in Queued : FlowOf[i] \in Flows})
    BY <1>1, <1>3 DEF TalliesKept, Levels
  <2>2. {i \in Queued : FlowOf[i] \in Flows} = Queued
    BY <1>1, QueuedBy
  <2> QED
    BY <2>1, <2>2
<1> QED
  BY <1>4, <1>5, <1>6

\* Statistical integrity for any number of requests, flows and bands: once
\* no reconciliation is under way the six counters are exactly the contents.
THEOREM StatsIntegrity == Spec => []StatsExact
BY StatsSettled, Invariance, PTL

\* A queue whose length a policy reads as zero is empty.
LEMMA EmptyRead ==
  ASSUME Inv, pc = "band", NEW f \in Flows, ~NonEmpty(f)
  PROVE  queue[f] = {}
<1>1. queue[f] \in SUBSET Items
  BY DEF Inv, TypeOK, ListTypes
<1>2. IsFiniteSet(queue[f]) /\ Cardinality(queue[f]) \in Nat
  BY <1>1, ItemsAssumption, FS_Subset, FS_CardinalityType
<1>3. Cardinality(queue[f]) = 0 => queue[f] = {}
  BY <1>2, FS_EmptySet
<1>4. /\ queueStats[f].len \in Cardinality(queue[f]) .. Cardinality(Items)
      /\ Cardinality(Items) \in Nat
  <2>1. ~Owes("queue") /\ "queue" \in Levels /\ TypeOK /\ FlowsKept
    BY DEF Owes, Levels, Inv
  <2>2. queueStats[f] = Tally("queue", {f})
    BY DEF Inv, TalliesKept
  <2>3. {i \in Queued : FlowOf[i] \in {f}} = queue[f]
    BY <2>1, QueuedBy
  <2> DEFINE S == {i \in Queued : FlowOf[i] \in {f}}
  <2>4. queueStats[f].len \in Cardinality(S) .. Cardinality(Items) /\ Cardinality(Items) \in Nat
    BY <2>1, <2>2, TallyBound
  <2> HIDE DEF S
  <2>5. S = queue[f]
    BY <2>3 DEF S
  <2> QED
    BY <2>4, <2>5
<1>5. Word \in Nat \ {0} /\ Cardinality(Items) < Word \div 2 /\ Word \div 2 \in Nat /\ Word \div 2 <= Word
  BY WordAssumption
<1>6. queueStats[f].len \in Nat /\ queueStats[f].len < Word /\ queueStats[f].len <= Word \div 2 - 1
  BY <1>2, <1>4, <1>5
<1>7. Load(queueStats[f].len) = queueStats[f].len
  BY <1>5, <1>6, ModSmall DEF Load
<1>8. ~(queueStats[f].len >= 1)
  BY <1>5, <1>6, <1>7 DEF NonEmpty
<1> QED
  BY <1>2, <1>3, <1>4, <1>6, <1>8

-----------------------------------------------------------------------------
(* The order of dispatch *)

\* Only Run puts items in the queues, gives them positions and moves its own
\* program counter: the other goroutines at most take items out.
LEMMA OtherGoroutines ==
  ASSUME TypeOK, [Next]_vars, ~RunStep
  PROVE  /\ UNCHANGED <<pc, cur, flow, todo, skipped, position, pushed>>
         /\ \A f \in Flows : queue'[f] \subseteq queue[f]
<1> USE DEF envVars, itemVars, chanVars, stopVars, runVars, listVars, statVars, poolVars, cleanVars
<1>1. CASE UNCHANGED vars
  BY <1>1 DEF vars
<1>2. CASE Env
  BY <1>2 DEF Env, Tick, CancelRun, CancelRequest
<1>3. ASSUME NEW i \in Items, CallerStep(i)
      PROVE  UNCHANGED <<pc, cur, flow, todo, skipped, position, pushed, queue>>
  BY <1>3 DEF CallerStep, Submit, Send, SendPanics
<1>4. CASE CleanupStep
  BY <1>4 DEF CleanupStep, CleanupTick, CleanupScanned, CleanupExit
<1>5. ASSUME NEW p \in Pools, NEW f \in Flows, WorkerStep(p, f)
      PROVE  /\ UNCHANGED <<pc, cur, flow, todo, skipped, position, pushed>>
             /\ \A g \in Flows : queue'[g] \subseteq queue[g]
  BY <1>5 DEF WorkerStep, WorkerScan, WorkerReconcile, WorkerFinalize, TypeOK, ListTypes
<1> QED
  BY <1>1, <1>2, <1>3, <1>4, <1>5 DEF Next, Terminated

\* Every step keeps the positions of queued items distinct and below `pushed`.
LEMMA PositionsStep == Inv /\ PositionsKept /\ [Next]_vars => PositionsKept'
<1> SUFFICES ASSUME Inv, PositionsKept, [Next]_vars PROVE PositionsKept'
  OBVIOUS
<1>z. ASSUME UNCHANGED <<position, pushed>>, \A f \in Flows : queue'[f] \subseteq queue[f]
      PROVE  PositionsKept'
  <2>1. Queued' \subseteq Queued
    BY <1>z DEF Queued
  <2> QED
    BY <1>z, <2>1 DEF PositionsKept
<1>t. TypeOK /\ position \in [Items -> Nat] /\ pushed \in Nat /\ queue \in [Flows -> SUBSET Items]
  BY DEF Inv, TypeOK, ListTypes
<1> USE DEF envVars, itemVars, chanVars, stopVars, runVars, listVars, statVars, poolVars, cleanVars
<1>1. CASE Receive
  BY <1>1, <1>z DEF Receive
<1>2. CASE DefaultDispatch
  BY <1>2, <1>z DEF DefaultDispatch
<1>3. CASE EnqueueLookup
  BY <1>3, <1>z DEF EnqueueLookup
<1>4. CASE CapacityShard
  BY <1>4, <1>z DEF CapacityShard
<1>5. CASE CapacityBand
  BY <1>5, <1>z DEF CapacityBand
<1>6. CASE EnqueueAdd
  <2>1. CASE outcome[cur] # NotYet
    BY <1>6, <1>z, <2>1 DEF EnqueueAdd
  <2>2. CASE outcome[cur] = NotYet
    <3>1. /\ position' = [position EXCEPT ![cur] = pushed] /\ pushed' = pushed + 1
          /\ queue' = [queue EXCEPT ![FlowOf[cur]] = @ \cup {cur}]
          /\ pc = "add"
      BY <1>6, <2>2 DEF EnqueueAdd, PushBack
    <3>2. cur \in Items /\ FlowOf[cur] \in Flows /\ cur \notin Queued
      BY <3>1 DEF Inv, TypeOK, RunTypes, UsesItem, Apart, RunItem, RunOwns
    <3>3. Queued' = Queued \cup {cur} /\ Queued \subseteq Items
      BY <1>t, <3>1, <3>2 DEF Queued
    <3>4. position'[cur] = pushed /\ \A j \in Queued : position'[j] = position[j] /\ position[j] \in Nat
      BY <1>t, <3>1, <3>2, <3>3
    <3> QED
      BY <1>t, <3>1, <3>3, <3>4 DEF PositionsKept
  <2> QED
    BY <2>1, <2>2
<1>7. CASE RunReconcile
  BY <1>7, <1>z DEF RunReconcile
<1>8. CASE PauseCycle
  BY <1>8, <1>z DEF PauseCycle
<1>9. CASE EndCycle
  BY <1>9, <1>z DEF EndCycle
<1>10. CASE SelectQueue
  BY <1>10, <1>z DEF SelectQueue
<1>11. CASE SelectItem
  BY <1>11, <1>z DEF SelectItem
<1>12. CASE RemoveItem
  <2>1. \A f \in Flows : queue'[f] \subseteq queue[f]
    BY <1>12, <1>t DEF RemoveItem, Unlink
  <2> QED
    BY <1>12, <1>z, <2>1 DEF RemoveItem
<1>13. CASE SettleItem
  BY <1>13, <1>z DEF SettleItem
<1>14. CASE BeginShutdown
  BY <1>14, <1>z DEF BeginShutdown
<1>15. CASE DrainChannel
  BY <1>15, <1>z DEF DrainChannel
<1>16. CASE CloseChannel
  BY <1>16, <1>z DEF CloseChannel
<1>17. CASE FinishShutdown
  BY <1>17, <1>z DEF FinishShutdown
<1>18. CASE ~RunStep
  BY <1>18, <1>t, <1>z, OtherGoroutines
<1> QED
  BY <1>1, <1>2, <1>3, <1>4, <1>5, <1>6, <1>7, <1>8, <1>9,
     <1>10, <1>11, <1>12, <1>13, <1>14, <1>15, <1>16, <1>17, <1>18
  DEF RunStep

\* Every step keeps the item Run has picked before the others in its list.
LEMMA HeadStep == Inv /\ PositionsKept /\ HeadKept /\ [Next]_vars => HeadKept'
<1> SUFFICES ASSUME Inv, PositionsKept, HeadKept, [Next]_vars PROVE HeadKept'
  OBVIOUS
<1>t. TypeOK /\ position \in [Items -> Nat] /\ queue \in [Flows -> SUBSET Items]
  BY DEF Inv, TypeOK, ListTypes
<1> USE DEF HeadKept, envVars, itemVars, chanVars, stopVars, runVars, listVars, statVars, poolVars, cleanVars
<1>1. CASE Receive
  BY <1>1 DEF Receive
<1>2. CASE DefaultDispatch
  BY <1>2 DEF DefaultDispatch, BeginCycle
<1>3. CASE EnqueueLookup
  BY <1>3 DEF EnqueueLookup, ManagedQueue, Reject, BeginCycle
<1>4. CASE CapacityShard
  BY <1>4 DEF CapacityShard, Reject, BeginCycle
<1>5. CASE CapacityBand
  BY <1>5 DEF CapacityBand, Reject, BeginCycle
<1>6. CASE EnqueueAdd
  BY <1>6 DEF EnqueueAdd, PushBack, BeginCycle
<1>7. CASE RunReconcile
  BY <1>7 DEF RunReconcile, BeginCycle
<1>8. CASE PauseCycle
  BY <1>8 DEF PauseCycle, ReturnToSelect
<1>9. CASE EndCycle
  BY <1>9 DEF EndCycle, ReturnToSelect
<1>10. CASE SelectQueue
  BY <1>10 DEF SelectQueue, NextLevel
<1>11. CASE SelectItem
  <2>1. CASE queue[flow] = {}
    BY <1>11, <2>1 DEF SelectItem, NextLevel
  <2>2. CASE queue[flow] # {}
    <3>1. flow \in Flows
      BY <1>11, <1>t DEF SelectItem, TypeOK, RunTypes, UsesFlow, Dispatching
    <3>2. \A j \in queue[flow] : position[PeekHead(flow)] <= position[j]
      BY <1>t, <2>2, <3>1, HeadMin
    <3>3. pc' = "remove" /\ cur' = PeekHead(flow) /\ UNCHANGED <<flow, queue, position>>
      BY <1>11, <2>2 DEF SelectItem
    <3> HIDE DEF HeadKept
    <3> QED
      BY <3>2, <3>3 DEF HeadKept
  <2> QED
    BY <2>1, <2>2
<1>12. CASE RemoveItem
  <2>1. CASE cur \notin queue[flow]
    BY <1>12, <2>1 DEF RemoveItem, NextLevel
  <2>2. CASE cur \in queue[flow]
    <3>1. flow \in Flows
      BY <1>12, <1>t DEF RemoveItem, TypeOK, RunTypes, UsesFlow, Dispatching
    <3>2. /\ pc = "remove" /\ pc' = "remQueue" /\ UNCHANGED <<cur, flow, position>>
          /\ queue' = [queue EXCEPT ![flow] = @ \ {cur}]
      BY <1>12, <2>2 DEF RemoveItem, Unlink
    <3>3. queue'[flow] = queue[flow] \ {cur} /\ queue[flow] \subseteq Queued
      BY <1>t, <3>1, <3>2 DEF Queued
    <3>4. \A j \in queue[flow] : position[cur] <= position[j] /\ (position[cur] = position[j] => cur = j)
      BY <2>2, <3>2, <3>3 DEF PositionsKept
    <3>5. \A j \in queue[flow] : position[cur] \in Nat /\ position[j] \in Nat
      BY <1>t, <2>2, <3>1
    <3> QED
      BY <3>2, <3>3, <3>4, <3>5
  <2> QED
    BY <2>1, <2>2
<1>13. CASE SettleItem
  BY <1>13 DEF SettleItem, NextLevel, ReturnToSelect
<1>14. CASE BeginShutdown
  BY <1>14 DEF BeginShutdown
<1>15. CASE DrainChannel
  BY <1>15 DEF DrainChannel
<1>16. CASE CloseChannel
  BY <1>16 DEF CloseChannel
<1>17. CASE FinishShutdown
  BY <1>17 DEF FinishShutdown
<1>18. CASE ~RunStep
  <2>1. /\ UNCHANGED <<pc, cur, flow, position>>
        /\ \A f \in Flows : queue'[f] \subseteq queue[f]
    BY <1>18, <1>t, OtherGoroutines
  <2>2. pc \in Dispatching => flow \in Flows
    BY <1>t DEF TypeOK, RunTypes, UsesFlow
  <2> QED
    BY <2>1, <2>2 DEF Dispatching
<1> QED
  BY <1>1, <1>2, <1>3, <1>4, <1>5, <1>6, <1>7, <1>8, <1>9,
     <1>10, <1>11, <1>12, <1>13, <1>14, <1>15, <1>16, <1>17, <1>18
  DEF RunStep

\* Every step keeps the bands above the one dispatchCycle is at empty, or
\* given up in this cycle: only Run itself fills a queue, outside the cycle,
\* and a length read as zero is that of an empty queue.
LEMMA LevelsStep == Inv /\ LevelsKept /\ [Next]_vars => LevelsKept'
<1> SUFFICES ASSUME Inv, LevelsKept, [Next]_vars PROVE LevelsKept'
  OBVIOUS
<1>t. TypeOK /\ queue \in [Flows -> SUBSET Items] /\ \A f \in Flows : PriorityOf[f] \in Bands
  BY FlowsAssumption DEF Inv, TypeOK, ListTypes
<1>n. ASSUME pc \in Dispatching \cup {"band"}, NextLevel(TRUE),
             \A f \in Flows : queue'[f] \subseteq queue[f]
      PROVE  LevelsKept'
  <2>1. todo' = todo \ {Level} /\ skipped' = skipped \cup {Level} /\ pc' = "band"
    BY <1>n DEF NextLevel
  <2> HIDE DEF NextLevel
  <2>2. \A f \in Flows : PriorityOf[f] \notin todo => queue[f] = {} \/ PriorityOf[f] \in skipped
    BY <1>n DEF LevelsKept
  <2>3. ASSUME NEW f \in Flows, PriorityOf[f] \notin todo'
        PROVE  queue'[f] = {} \/ PriorityOf[f] \in skipped'
    BY <1>n, <2>1, <2>2, <2>3
  <2> QED
    BY <2>1, <2>3 DEF LevelsKept, Dispatching
<1> USE DEF Dispatching, envVars, itemVars, chanVars, stopVars, runVars, listVars, statVars, poolVars, cleanVars
<1>1. CASE Receive
  BY <1>1, <1>t DEF Receive, LevelsKept
<1>2. CASE DefaultDispatch
  BY <1>2, <1>t DEF DefaultDispatch, BeginCycle, LevelsKept
<1>3. CASE EnqueueLookup
  BY <1>3, <1>t DEF EnqueueLookup, ManagedQueue, Reject, BeginCycle, LevelsKept
<1>4. CASE CapacityShard
  BY <1>4, <1>t DEF CapacityShard, Reject, BeginCycle, LevelsKept
<1>5. CASE CapacityBand
  BY <1>5, <1>t DEF CapacityBand, Reject, BeginCycle, LevelsKept
<1>6. CASE EnqueueAdd
  BY <1>6, <1>t DEF EnqueueAdd, PushBack, BeginCycle, LevelsKept
<1>7. CASE RunReconcile
  <2>1. CASE pc = "addBand"
    BY <1>7, <1>t, <2>1 DEF RunReconcile, BeginCycle, LevelsKept
  <2>2. CASE pc # "addBand"
    <3>1. UNCHANGED <<queue, flow, todo, skipped>>
      BY <1>7, <2>2 DEF RunReconcile
    <3>2. pc' \in Dispatching \cup {"band"} => pc \in Dispatching
      BY <1>7, <2>2 DEF RunReconcile
    <3> QED
      BY <3>1, <3>2 DEF LevelsKept, Level
  <2> QED
    BY <2>1, <2>2
<1>8. CASE PauseCycle
  BY <1>8, <1>t DEF PauseCycle, ReturnToSelect, LevelsKept
<1>9. CASE EndCycle
  BY <1>9, <1>t DEF EndCycle, ReturnToSelect, LevelsKept
<1>10. CASE SelectQueue
  <2>0. pc = "band" /\ todo # {} /\ UNCHANGED queue
    BY <1>10 DEF SelectQueue
  <2>1. CASE (\A f \in FlowsAt(Level) : ~NonEmpty(f)) /\ NextLevel(FALSE)
    <3>1. todo' = todo \ {Level} /\ skipped' = skipped /\ pc' = "band"
      BY <2>1 DEF NextLevel
    <3>2. ASSUME NEW f \in Flows, PriorityOf[f] \notin todo'
          PROVE  queue[f] = {} \/ PriorityOf[f] \in skipped
      <4>1. CASE PriorityOf[f] = Level
        <5>1. ~NonEmpty(f)
          BY <2>1, <4>1 DEF FlowsAt
        <5> QED
          BY <2>0, <5>1, EmptyRead
      <4>2. CASE PriorityOf[f] # Level
        BY <2>0, <3>1, <3>2, <4>2 DEF LevelsKept
      <4> QED
        BY <4>1, <4>2
    <3> QED
      BY <2>0, <3>1, <3>2 DEF LevelsKept
  <2>2. CASE \E f \in FlowsAt(Level) : flow' = f /\ pc' = "peek" /\ UNCHANGED <<todo, skipped>>
    <3>1. PriorityOf[flow'] = Level /\ UNCHANGED <<todo, skipped>> /\ Level' = Level
      BY <2>2 DEF FlowsAt, Level
    <3> QED
      BY <2>0, <2>2, <3>1 DEF LevelsKept
  <2> QED
    BY <1>10, <2>1, <2>2 DEF SelectQueue
<1>11. CASE SelectItem
  <2>1. CASE NextLevel(TRUE)
    BY <1>11, <1>n, <2>1 DEF SelectItem
  <2>2. CASE pc' = "remove" /\ UNCHANGED <<flow, todo, skipped>>
    BY <1>11, <2>2 DEF SelectItem, LevelsKept, Level
  <2> QED
    BY <1>11, <2>1, <2>2 DEF SelectItem
<1>12. CASE RemoveItem
  <2>0. \A f \in Flows : queue'[f] \subseteq queue[f]
    BY <1>12, <1>t DEF RemoveItem, Unlink
  <2>1. CASE NextLevel(TRUE)
    BY <1>12, <1>n, <2>0, <2>1 DEF RemoveItem
  <2>2. CASE pc' = "remQueue" /\ UNCHANGED <<flow, todo, skipped>>
    BY <1>12, <2>0, <2>2 DEF RemoveItem, LevelsKept, Level
  <2> QED
    BY <1>12, <2>1, <2>2 DEF RemoveItem
<1>13. CASE SettleItem
  <2>1. CASE NextLevel(TRUE)
    BY <1>13, <1>n, <2>1 DEF SettleItem
  <2>2. CASE ReturnToSelect
    BY <2>2 DEF ReturnToSelect, LevelsKept
  <2> QED
    BY <1>13, <2>1, <2>2 DEF SettleItem
<1>14. CASE BeginShutdown
  BY <1>14, <1>t DEF BeginShutdown, LevelsKept
<1>15. CASE DrainChannel
  BY <1>15, <1>t DEF DrainChannel, LevelsKept
<1>16. CASE CloseChannel
  BY <1>16, <1>t DEF CloseChannel, LevelsKept
<1>17. CASE FinishShutdown
  BY <1>17, <1>t DEF FinishShutdown, LevelsKept
<1>18. CASE ~RunStep
  <2>1. /\ UNCHANGED <<pc, flow, todo, skipped>>
        /\ \A f \in Flows : queue'[f] \subseteq queue[f]
    BY <1>18, <1>t, OtherGoroutines
  <2> QED
    BY <2>1 DEF LevelsKept, Level
<1> QED
  BY <1>1, <1>2, <1>3, <1>4, <1>5, <1>6, <1>7, <1>8, <1>9,
     <1>10, <1>11, <1>12, <1>13, <1>14, <1>15, <1>16, <1>17, <1>18
  DEF RunStep

-----------------------------------------------------------------------------
(* Who finalizes a request *)

\* An expired item stays expired while its worker holds it: the tick of the
\* scan is fixed, contexts stay cancelled and outcomes stay set.
LEMMA ExpiredStep == Inv /\ HeldExpired /\ [Next]_vars => HeldExpired'
<1> SUFFICES ASSUME Inv, HeldExpired, [Next]_vars PROVE HeldExpired'
  OBVIOUS
<1>t. /\ hold \in [Pools -> [Flows -> SUBSET Items]] /\ outcome \in [Items -> Outcomes]
      /\ enqueueTime \in [Items -> Nat] /\ caller \in [Items -> {"idle", "sending", "returned"}]
      /\ stage \in [Pools -> [Flows -> Stages]]
  BY DEF Inv, TypeOK, PoolTypes, OutcomeTypes, CallerTypes
\* A step that lets no outcome, cancellation or tick go back and holds nothing new.
<1>z. ASSUME \A f \in Flows : hold'["cleanup"][f] \subseteq hold["cleanup"][f],
             UNCHANGED tick, ctxErr \subseteq ctxErr',
             \A i \in HeldItems : /\ enqueueTime'[i] = enqueueTime[i]
                                  /\ outcome'[i] = outcome[i] \/ outcome'[i] # NotYet
      PROVE  HeldExpired'
  <2> SUFFICES ASSUME NEW f \in Flows, NEW i \in hold'["cleanup"][f]
               PROVE  CheckItemExpiry(i, tick)' # NotYet
    BY DEF HeldExpired
  <2>1. i \in hold["cleanup"][f] /\ i \in HeldItems
    BY <1>t, <1>z DEF HeldItems, Pools
  <2>2. CheckItemExpiry(i, tick) # NotYet
    BY <2>1 DEF HeldExpired
  <2> QED
    BY <1>z, <2>1, <2>2 DEF CheckItemExpiry, NotYet
<1>r. ASSUME UNCHANGED <<hold, tick, ctxErr, enqueueTime>>,
             \A i \in Items : outcome'[i] = outcome[i] \/ outcome'[i] # NotYet
      PROVE  HeldExpired'
  <2>1. HeldItems \subseteq Items
    BY DEF HeldItems
  <2> QED
    BY <1>r, <1>z, <2>1
<1> USE DEF envVars, itemVars, chanVars, stopVars, runVars, listVars, statVars, poolVars, cleanVars
<1>1. CASE Tick
  BY <1>1, <1>r DEF Tick
<1>2. CASE CancelRun
  BY <1>2, <1>r DEF CancelRun
<1>3. ASSUME NEW i \in Items, CancelRequest(i) PROVE HeldExpired'
  BY <1>3, <1>t, <1>z DEF CancelRequest
<1>4. ASSUME NEW i \in Items, Submit(i) PROVE HeldExpired'
  <2>1. caller[i] # "returned"
    BY <1>4 DEF Submit
  <2>2. i \notin HeldItems
    BY <2>1 DEF Inv, Pending
  <2>3. \A j \in HeldItems : j \in Items /\ j # i
    BY <2>2 DEF HeldItems
  <2> QED
    BY <1>4, <1>t, <1>z, <2>3 DEF Submit, NewItem, Finalize
<1>5. ASSUME NEW i \in Items, Send(i) PROVE HeldExpired'
  BY <1>5, <1>r DEF Send
<1>6. ASSUME NEW i \in Items, SendPanics(i) PROVE HeldExpired'
  BY <1>6, <1>r DEF SendPanics
<1>7. CASE Receive
  BY <1>7, <1>r DEF Receive
<1>8. CASE DefaultDispatch
  BY <1>8, <1>r DEF DefaultDispatch
<1>9. CASE EnqueueLookup
  BY <1>9, <1>t, <1>r DEF EnqueueLookup, Reject, Finalize, NotYet
<1>10. CASE CapacityShard
  BY <1>10, <1>t, <1>r DEF CapacityShard, Reject, Finalize, NotYet
<1>11. CASE CapacityBand
  BY <1>11, <1>t, <1>r DEF CapacityBand, Reject, Finalize, NotYet
<1>12. CASE EnqueueAdd
  BY <1>12, <1>r DEF EnqueueAdd
<1>13. CASE RunReconcile
  BY <1>13, <1>r DEF RunReconcile
<1>14. CASE PauseCycle
  BY <1>14, <1>r DEF PauseCycle
<1>15. CASE EndCycle
  BY <1>15, <1>r DEF EndCycle
<1>16. CASE SelectQueue
  BY <1>16, <1>r DEF SelectQueue
<1>17. CASE SelectItem
  BY <1>17, <1>r DEF SelectItem
<1>18. CASE RemoveItem
  BY <1>18, <1>r DEF RemoveItem
<1>19. CASE SettleItem
  <2>1. \A i \in Items : outcome'[i] = outcome[i] \/ outcome'[i] # NotYet
    <3>1. \E o : outcome' = [outcome EXCEPT ![cur] = IF @ = NotYet THEN o ELSE @] /\ o # NotYet
      BY <1>19 DEF SettleItem, Finalize, NotYet
    <3> QED
      BY <1>t, <3>1
  <2> QED
    BY <1>19, <1>r, <2>1 DEF SettleItem
<1>20. CASE BeginShutdown
  BY <1>20, <1>r DEF BeginShutdown
<1>21. CASE DrainChannel
  <2>1. CASE enqueueChan = <<>>
    BY <1>21, <1>r, <2>1 DEF DrainChannel
  <2>2. CASE enqueueChan # <<>>
    BY <1>21, <1>t, <1>r, <2>2 DEF DrainChannel, Finalize, NotYet
  <2> QED
    BY <2>1, <2>2
<1>22. CASE CloseChannel
  BY <1>22, <1>r DEF CloseChannel
<1>23. CASE FinishShutdown
  BY <1>23, <1>r DEF FinishShutdown
<1>24. CASE CleanupTick
  <2>1. \A f \in Flows : hold["cleanup"][f] = {}
    BY <1>24 DEF CleanupTick, Inv, PoolsKept, Idle, Pools
  <2> QED
    BY <1>24, <2>1 DEF CleanupTick, HeldExpired
<1>25. CASE CleanupScanned
  BY <1>25, <1>r DEF CleanupScanned
<1>26. CASE CleanupExit
  BY <1>26, <1>r DEF CleanupExit
<1>27. ASSUME NEW p \in Pools, NEW f \in Flows, WorkerScan(p, f) PROVE HeldExpired'
  <2>1. /\ hold' = [hold EXCEPT ![p][f] = Removable(p, f)]
        /\ UNCHANGED <<outcome, ctxErr, tick, enqueueTime>>
    BY <1>27 DEF WorkerScan
  <2>2. ASSUME NEW g \in Flows, NEW i \in hold'["cleanup"][g]
        PROVE  CheckItemExpiry(i, tick) # NotYet
    <3>1. CASE p = "cleanup" /\ g = f
      BY <1>t, <2>1, <2>2, <3>1 DEF Removable, Pools
    <3>2. CASE ~(p = "cleanup" /\ g = f)
      BY <1>t, <2>1, <2>2, <3>2 DEF HeldExpired, Pools
    <3> QED
      BY <3>1, <3>2
  <2> QED
    BY <2>1, <2>2 DEF HeldExpired, CheckItemExpiry
<1>28. ASSUME NEW p \in Pools, NEW f \in Flows, WorkerReconcile(p, f) PROVE HeldExpired'
  BY <1>28, <1>r DEF WorkerReconcile
<1>29. ASSUME NEW p \in Pools, NEW f \in Flows, WorkerFinalize(p, f) PROVE HeldExpired'
  <2>1. \A g \in Flows : hold'["cleanup"][g] \subseteq hold["cleanup"][g]
    BY <1>29, <1>t DEF WorkerFinalize, Pools
  <2>2. \A i \in hold[p][f] : PoolOutcome(p, i) # NotYet
    BY <1>29 DEF PoolOutcome, HeldExpired, Pools, NotYet
  <2>3. \A i \in HeldItems : outcome'[i] = outcome[i] \/ outcome'[i] # NotYet
    BY <1>29, <2>2 DEF WorkerFinalize, HeldItems
  <2> QED
    BY <1>29, <1>z, <2>1, <2>3 DEF WorkerFinalize
<1>30. CASE UNCHANGED vars
  BY <1>30, <1>r DEF vars
<1> QED
  BY <1>1, <1>2, <1>3, <1>4, <1>5, <1>6, <1>7, <1>8, <1>9, <1>10, <1>11,
     <1>12, <1>13, <1>14, <1>15, <1>16, <1>17, <1>18, <1>19, <1>20,
     <1>21, <1>22, <1>23, <1>24, <1>25, <1>26, <1>27, <1>28, <1>29,
     <1>30
  DEF Next, Env, CallerStep, RunStep, CleanupStep, WorkerStep, Terminated

\* Every step keeps the requests that were handed over and have no outcome in
\* the channel, with Run, in a queue or with a worker.
LEMMA AccountedStep == Inv /\ HeldExpired /\ Accounted /\ [Next]_vars => Accounted'
<1> SUFFICES ASSUME Inv, HeldExpired, Accounted, [Next]_vars PROVE Accounted'
  OBVIOUS
<1>t. /\ hold \in [Pools -> [Flows -> SUBSET Items]] /\ outcome \in [Items -> Outcomes]
      /\ caller \in [Items -> {"idle", "sending", "returned"}] /\ enqueueChan \in Seq(Items)
      /\ queue \in [Flows -> SUBSET Items] /\ NoRepeats(enqueueChan)
  BY DEF Inv, TypeOK, PoolTypes, OutcomeTypes, CallerTypes, ListTypes, Apart
\* A step that moves nothing and resets nothing.
<1>z. ASSUME UNCHANGED <<caller, enqueueChan, queue, hold>>,
             \A i \in Items : outcome'[i] = NotYet => outcome[i] = NotYet /\ (RunItem(i) => RunItem(i)')
      PROVE  Accounted'
  <2>1. UNCHANGED <<ChanItems, Queued, HeldItems>>
    BY <1>z DEF ChanItems, Elements, Queued, HeldItems
  <2> QED
    BY <1>z, <2>1 DEF Accounted
<1> USE DEF envVars, itemVars, chanVars, stopVars, runVars, listVars, statVars, poolVars, cleanVars
<1>1. CASE Tick
  BY <1>1, <1>z DEF Tick, RunItem, RunOwns
<1>2. CASE CancelRun
  BY <1>2, <1>z DEF CancelRun, RunItem, RunOwns
<1>3. ASSUME NEW i \in Items, CancelRequest(i) PROVE Accounted'
  BY <1>3, <1>z DEF CancelRequest, RunItem, RunOwns
<1>4. ASSUME NEW i \in Items, Submit(i) PROVE Accounted'
  <2>1. UNCHANGED <<ChanItems, Queued, HeldItems>> /\ \A j : RunItem(j)' <=> RunItem(j)
    BY <1>4 DEF Submit, ChanItems, Elements, Queued, HeldItems, RunItem, RunOwns
  <2>2. /\ caller'[i] # "returned" \/ outcome'[i] # NotYet
        /\ \A j \in Items : j # i => caller'[j] = caller[j] /\ outcome'[j] = outcome[j]
    BY <1>4, <1>t DEF Submit, Finalize, NotYet
  <2> QED
    BY <2>1, <2>2 DEF Accounted
<1>5. ASSUME NEW i \in Items, Send(i) PROVE Accounted'
  <2>1. caller[i] # "returned" /\ i \notin ChanItems
    BY <1>5 DEF Send, Inv, Pending
  <2>2. ChanItems' = ChanItems \cup {i}
    BY <1>5, <1>t, <2>1, AppendElements DEF Send, ChanItems
  <2>3. UNCHANGED <<Queued, HeldItems, outcome>> /\ \A j : RunItem(j)' <=> RunItem(j)
    BY <1>5 DEF Send, Queued, HeldItems, RunItem, RunOwns
  <2>4. \A j \in Items : j # i => caller'[j] = caller[j]
    BY <1>5, <1>t DEF Send
  <2> QED
    BY <2>2, <2>3, <2>4 DEF Accounted
<1>6. ASSUME NEW i \in Items, SendPanics(i) PROVE Accounted'
  BY <1>6, <1>z DEF SendPanics, RunItem, RunOwns
<1>7. CASE Receive
  <2>1. ChanItems' = ChanItems \ {Head(enqueueChan)} /\ RunOwns' /\ cur' = Head(enqueueChan)
    BY <1>7, <1>t, TailElements DEF Receive, ChanItems, RunOwns
  <2>2. UNCHANGED <<Queued, HeldItems, outcome, caller>> /\ \A j : ~RunItem(j)
    BY <1>7 DEF Receive, Queued, HeldItems, RunItem, RunOwns
  <2> QED
    BY <2>1, <2>2 DEF Accounted, RunItem
<1>8. CASE DefaultDispatch
  BY <1>8, <1>z DEF DefaultDispatch, BeginCycle, RunItem, RunOwns
<1>9. CASE EnqueueLookup
  <2>1. \A i \in Items : outcome'[i] = NotYet => outcome[i] = NotYet /\ (RunItem(i) => RunItem(i)')
    BY <1>9, <1>t DEF EnqueueLookup, Reject, BeginCycle, Finalize, NotYet, RunItem, RunOwns
  <2> QED
    BY <1>9, <1>z, <2>1 DEF EnqueueLookup
<1>10. CASE CapacityShard
  <2>1. \A i \in Items : outcome'[i] = NotYet => outcome[i] = NotYet /\ (RunItem(i) => RunItem(i)')
    BY <1>10, <1>t DEF CapacityShard, Reject, BeginCycle, Finalize, NotYet, RunItem, RunOwns
  <2> QED
    BY <1>10, <1>z, <2>1 DEF CapacityShard
<1>11. CASE CapacityBand
  <2>1. \A i \in Items : outcome'[i] = NotYet => outcome[i] = NotYet /\ (RunItem(i) => RunItem(i)')
    BY <1>11, <1>t DEF CapacityBand, Reject, BeginCycle, Finalize, NotYet, RunItem, RunOwns
  <2> QED
    BY <1>11, <1>z, <2>1 DEF CapacityBand
<1>12. CASE EnqueueAdd
  <2>1. cur \in Items /\ FlowOf[cur] \in Flows /\ outcome[cur] = NotYet
    BY <1>12 DEF EnqueueAdd, Inv, Pending, RunItem, RunOwns, TypeOK, RunTypes, UsesItem
  <2>2. Queued' = Queued \cup {cur}
    BY <1>12, <1>t, <2>1 DEF EnqueueAdd, PushBack, Queued
  <2>3. /\ UNCHANGED <<ChanItems, HeldItems, outcome, caller>>
        /\ \A i : RunItem(i) => i = cur
    BY <1>12 DEF EnqueueAdd, ChanItems, Elements, HeldItems, RunItem
  <2> QED
    BY <2>2, <2>3 DEF Accounted
<1>13. CASE RunReconcile
  BY <1>13, <1>z DEF RunReconcile, BeginCycle, RunItem, RunOwns
<1>14. CASE PauseCycle
  BY <1>14, <1>z DEF PauseCycle, ReturnToSelect, RunItem, RunOwns
<1>15. CASE EndCycle
  BY <1>15, <1>z DEF EndCycle, ReturnToSelect, RunItem, RunOwns
<1>16. CASE SelectQueue
  BY <1>16, <1>z DEF SelectQueue, NextLevel, RunItem, RunOwns
<1>17. CASE SelectItem
  BY <1>17, <1>z DEF SelectItem, NextLevel, RunItem, RunOwns
<1>18. CASE RemoveItem
  <2>1. CASE cur \notin queue[flow]
    BY <1>18, <1>z, <2>1 DEF RemoveItem, NextLevel, RunItem, RunOwns
  <2>2. CASE cur \in queue[flow]
    <3>1. /\ pc = "remove" /\ pc' = "remQueue" /\ cur' = cur
          /\ queue' = [queue EXCEPT ![flow] = @ \ {cur}]
          /\ UNCHANGED <<outcome, caller, enqueueChan, hold>>
      BY <1>18, <2>2 DEF RemoveItem, Unlink
    <3>2. Queued \subseteq Queued' \cup {cur}
      BY <1>t, <3>1 DEF Queued
    <3>3. UNCHANGED <<ChanItems, HeldItems>> /\ RunItem(cur)' /\ \A i : ~RunItem(i)
      BY <3>1 DEF ChanItems, Elements, HeldItems, RunItem, RunOwns
    <3> QED
      BY <3>1, <3>2, <3>3 DEF Accounted
  <2> QED
    BY <2>1, <2>2
<1>19. CASE SettleItem
  <2>1. \E o : outcome' = [outcome EXCEPT ![cur] = IF @ = NotYet THEN o ELSE @] /\ o # NotYet
    BY <1>19 DEF SettleItem, Finalize, NotYet
  <2>2. \A i \in Items : outcome'[i] = NotYet => outcome[i] = NotYet /\ ~RunItem(i)
    BY <1>t, <2>1 DEF RunItem
  <2> QED
    BY <1>19, <1>z, <2>2 DEF SettleItem
<1>20. CASE BeginShutdown
  BY <1>20, <1>z DEF BeginShutdown, RunItem, RunOwns
<1>21. CASE DrainChannel
  <2>1. CASE enqueueChan = <<>>
    BY <1>21, <1>z, <2>1 DEF DrainChannel, RunItem, RunOwns
  <2>2. CASE enqueueChan # <<>>
    <3>1. ChanItems' = ChanItems \ {Head(enqueueChan)} /\ Head(enqueueChan) \in Items
      BY <1>21, <1>t, <2>2, TailElements, HeadTailProperties DEF DrainChannel, ChanItems
    <3>2. /\ outcome'[Head(enqueueChan)] # NotYet
          /\ \A i \in Items : outcome'[i] = NotYet => outcome[i] = NotYet
      BY <1>21, <1>t, <2>2, <3>1 DEF DrainChannel, Finalize, NotYet
    <3>3. UNCHANGED <<Queued, HeldItems, caller>> /\ \A i : ~RunItem(i)
      BY <1>21, <2>2 DEF DrainChannel, Queued, HeldItems, RunItem, RunOwns
    <3> QED
      BY <3>1, <3>2, <3>3 DEF Accounted
  <2> QED
    BY <2>1, <2>2
<1>22. CASE CloseChannel
  BY <1>22, <1>z DEF CloseChannel, RunItem, RunOwns
<1>23. CASE FinishShutdown
  BY <1>23, <1>z DEF FinishShutdown, RunItem, RunOwns
<1>24. CASE CleanupTick
  BY <1>24, <1>z DEF CleanupTick, RunItem, RunOwns
<1>25. CASE CleanupScanned
  BY <1>25, <1>z DEF CleanupScanned, RunItem, RunOwns
<1>26. CASE CleanupExit
  BY <1>26, <1>z DEF CleanupExit, RunItem, RunOwns
<1>27. ASSUME NEW p \in Pools, NEW f \in Flows, WorkerScan(p, f) PROVE Accounted'
  <2>1. /\ hold' = [hold EXCEPT ![p][f] = Removable(p, f)]
        /\ queue' = [queue EXCEPT ![f] = @ \ Removable(p, f)]
        /\ UNCHANGED <<outcome, caller, enqueueChan, pc, cur>>
    BY <1>27 DEF WorkerScan
  <2>2. hold[p][f] = {} /\ Removable(p, f) \subseteq Items
    BY <1>27, <1>t DEF WorkerScan, Inv, PoolsKept, Removable
  <2>3. /\ Queued \subseteq Queued' \cup Removable(p, f)
    BY <1>t, <2>1 DEF Queued
  <2>4. hold'[p][f] = Removable(p, f) /\ \A q \in Pools, g \in Flows : hold[q][g] \subseteq hold'[q][g]
    BY <1>t, <2>1, <2>2
  <2>5. HeldItems \cup Removable(p, f) \subseteq HeldItems'
    BY <2>2, <2>4 DEF HeldItems
  <2>6. UNCHANGED ChanItems /\ \A i : RunItem(i)' <=> RunItem(i)
    BY <2>1 DEF ChanItems, Elements, RunItem, RunOwns
  <2> QED
    BY <2>1, <2>3, <2>5, <2>6 DEF Accounted
<1>28. ASSUME NEW p \in Pools, NEW f \in Flows, WorkerReconcile(p, f) PROVE Accounted'
  BY <1>28, <1>z DEF WorkerReconcile, RunItem, RunOwns
<1>29. ASSUME NEW p \in Pools, NEW f \in Flows, WorkerFinalize(p, f) PROVE Accounted'
  <2>1. \A i \in hold[p][f] : PoolOutcome(p, i) # NotYet
    BY <1>29 DEF PoolOutcome, HeldExpired, Pools, NotYet
  <2>2. \A i \in Items : outcome'[i] = NotYet => outcome[i] = NotYet /\ i \notin hold[p][f]
    BY <1>29, <2>1 DEF WorkerFinalize
  <2>3. \A i \in HeldItems : i \notin hold[p][f] => i \in HeldItems'
    BY <1>29, <1>t DEF WorkerFinalize, HeldItems
  <2>4. UNCHANGED <<ChanItems, Queued, caller>> /\ \A i : RunItem(i)' <=> RunItem(i)
    BY <1>29 DEF WorkerFinalize, ChanItems, Elements, Queued, RunItem, RunOwns
  <2> QED
    BY <2>2, <2>3, <2>4 DEF Accounted
<1>30. CASE UNCHANGED vars
  BY <1>30, <1>z DEF vars, RunItem, RunOwns
<1> QED
  BY <1>1, <1>2, <1>3, <1>4, <1>5, <1>6, <1>7, <1>8, <1>9, <1>10, <1>11,
     <1>12, <1>13, <1>14, <1>15, <1>16, <1>17, <1>18, <1>19, <1>20,
     <1>21, <1>22, <1>23, <1>24, <1>25, <1>26, <1>27, <1>28, <1>29,
     <1>30
  DEF Next, Env, CallerStep, RunStep, CleanupStep, WorkerStep, Terminated

\* Only Run moves in and out of shutdown, and it raises the flag as it enters.
LEMMA StopStep == TypeOK /\ StopKept /\ [Next]_vars => StopKept'
<1> SUFFICES ASSUME TypeOK, StopKept, [Next]_vars PROVE StopKept'
  OBVIOUS
<1> USE DEF StopKept, envVars, itemVars, chanVars, stopVars, runVars, listVars, statVars, poolVars, cleanVars
<1>1. CASE RunStep
  <2>1. CASE Receive \/ DefaultDispatch \/ EnqueueLookup \/ CapacityShard \/ CapacityBand \/ EnqueueAdd
    BY <2>1 DEF Receive, DefaultDispatch, EnqueueLookup, CapacityShard, CapacityBand, EnqueueAdd,
                Reject, BeginCycle
  <2>2. CASE RunReconcile \/ PauseCycle \/ EndCycle \/ SelectQueue \/ SelectItem
    BY <2>2 DEF RunReconcile, PauseCycle, EndCycle, SelectQueue, SelectItem, BeginCycle,
                ReturnToSelect, NextLevel
  <2>3. CASE RemoveItem \/ SettleItem
    BY <2>3 DEF RemoveItem, SettleItem, NextLevel, ReturnToSelect
  <2>4. CASE BeginShutdown \/ DrainChannel \/ CloseChannel \/ FinishShutdown
    BY <2>4 DEF BeginShutdown, DrainChannel, CloseChannel, FinishShutdown
  <2> QED
    BY <1>1, <2>1, <2>2, <2>3, <2>4 DEF RunStep
<1>2. CASE ~RunStep
  <2>1. UNCHANGED pc
    BY <1>2, OtherGoroutines
  <2>2. CASE UNCHANGED vars
    BY <2>2 DEF vars
  <2>3. CASE Env \/ CleanupStep
    BY <2>3 DEF Env, Tick, CancelRun, CancelRequest, CleanupStep, CleanupTick, CleanupScanned, CleanupExit
  <2>4. ASSUME NEW i \in Items, CallerStep(i) PROVE UNCHANGED isShuttingDown
    BY <2>4 DEF CallerStep, Submit, Send, SendPanics
  <2>5. ASSUME NEW p \in Pools, NEW f \in Flows, WorkerStep(p, f) PROVE UNCHANGED isShuttingDown
    BY <2>5 DEF WorkerStep, WorkerScan, WorkerReconcile, WorkerFinalize
  <2> QED
    BY <1>2, <2>1, <2>2, <2>3, <2>4, <2>5 DEF Next, Terminated
<1> QED
  BY <1>1, <1>2

\* The initial state satisfies the second inductive invariant.
LEMMA OrderInit == Init => OrderInv
<1> SUFFICES ASSUME Init PROVE OrderInv
  OBVIOUS
<1>1. HeldExpired /\ Accounted
  BY DEF Init, HeldExpired, Accounted, Pools
<1>2. PositionsKept /\ HeadKept /\ LevelsKept /\ StopKept
  BY DEF Init, PositionsKept, Queued, HeadKept, LevelsKept, Dispatching, StopKept
<1> QED
  BY <1>1, <1>2 DEF OrderInv

\* The second inductive invariant holds throughout, relative to the first.
THEOREM OrderInvariance == Spec => []OrderInv
<1>1. Inv /\ OrderInv /\ [Next]_vars => OrderInv'
  BY ExpiredStep, AccountedStep, PositionsStep, HeadStep, LevelsStep, StopStep DEF OrderInv, Inv
<1> QED
  BY <1>1, OrderInit, Invariance, PTL DEF Spec

\* Within a flow, dispatch takes the items in the order in which Run accepted
\* them, whatever cleanup and eviction remove in between.
THEOREM DispatchFIFO == Spec => []FlowFIFO
<1>1. OrderInv => FlowFIFO
  BY DEF OrderInv, HeadKept, FlowFIFO
<1> QED
  BY <1>1, OrderInvariance, PTL

\* For any number of bands and flows, dispatchCycle settles an item only when
\* every band above is empty or was given up in the same cycle.
THEOREM PriorityRespected == Spec => []StrictPriority
<1>1. Inv /\ OrderInv => StrictPriority
  <2> SUFFICES ASSUME Inv, OrderInv, pc = "settle", NEW f \in Flows,
                      PriorityOf[f] < PriorityOf[flow]
               PROVE  queue[f] = {} \/ PriorityOf[f] \in skipped
    BY DEF StrictPriority
  <2>1. TypeOK /\ todo # {} /\ flow \in Flows /\ pc \in Dispatching
    BY DEF Inv, TypeOK, RunTypes, UsesFlow, Dispatching
  <2>2. PriorityOf[flow] = Level
    BY <2>1 DEF OrderInv, LevelsKept
  <2>3. \A c \in todo : Level <= c
    BY <2>1, LevelMin
  <2>4. PriorityOf[f] \in Nat /\ PriorityOf[flow] \in Nat
    BY <2>1, FlowsAssumption
  <2>5. PriorityOf[f] \notin todo
    BY <2>2, <2>3, <2>4
  <2> QED
    BY <2>1, <2>5 DEF OrderInv, LevelsKept
<1> QED
  BY <1>1, Invariance, OrderInvariance, PTL

\* Where a request is: the five kinds of places, each with at most one entry.
LEMMA PlacesOf ==
  ASSUME Inv, NEW i \in Items
  PROVE  /\ ~(caller[i] = "sending" \/ i \in ChanItems \/ RunItem(i) \/ i \in Queued \/ i \in HeldItems)
              => Places(i) = {}
         /\ (caller[i] = "sending" \/ i \in ChanItems \/ RunItem(i) \/ i \in Queued \/ i \in HeldItems)
              => \E x : Places(i) = {x}
<1> DEFINE A == {<<"caller">> : x \in {y \in {i} : caller[y] = "sending"}}
           B == {<<"channel", n>> : n \in {m \in DOMAIN enqueueChan : enqueueChan[m] = i}}
           C == {<<"run">> : x \in {y \in {i} : RunOwns /\ cur = y}}
           D == {<<"queue", f>> : f \in {g \in Flows : i \in queue[g]}}
           E == {<<p, f>> : p \in {q \in Pools : \E f \in Flows : i \in hold[q][f]},
                            f \in {g \in Flows : \E q \in Pools : i \in hold[q][g]}}
<1>0. Places(i) = A \cup B \cup C \cup D \cup E
  BY DEF Places
<1>1. IF caller[i] = "sending" THEN A = {<<"caller">>} ELSE A = {}
  OBVIOUS
<1>2. IF i \in ChanItems THEN \E x : B = {x} ELSE B = {}
  <2>1. CASE i \notin ChanItems
    BY <2>1 DEF ChanItems, Elements
  <2>2. CASE i \in ChanItems
    <3>1. PICK n \in DOMAIN enqueueChan : enqueueChan[n] = i
      BY <2>2 DEF ChanItems, Elements
    <3>2. \A m \in DOMAIN enqueueChan : enqueueChan[m] = i => m = n
      BY <3>1 DEF Inv, Apart, NoRepeats
    <3>3. B = {<<"channel", n>>}
      BY <3>1, <3>2
    <3> QED
      BY <2>2, <3>3
  <2> QED
    BY <2>1, <2>2
<1>3. IF RunItem(i) THEN C = {<<"run">>} ELSE C = {}
  BY DEF RunItem
<1>4. IF i \in Queued THEN \E x : D = {x} ELSE D = {}
  <2>1. CASE i \notin Queued
    BY <2>1 DEF Queued
  <2>2. CASE i \in Queued
    <3>1. PICK f \in Flows : i \in queue[f]
      BY <2>2 DEF Queued
    <3>2. \A g \in Flows : i \in queue[g] => g = f
      BY <3>1 DEF Inv, FlowsKept
    <3>3. D = {<<"queue", f>>}
      BY <3>1, <3>2
    <3> QED
      BY <2>2, <3>3
  <2> QED
    BY <2>1, <2>2
<1>5. IF i \in HeldItems THEN \E x : E = {x} ELSE E = {}
  <2>1. CASE i \notin HeldItems
    BY <2>1 DEF HeldItems
  <2>2. CASE i \in HeldItems
    <3>1. PICK p \in Pools, f \in Flows : i \in hold[p][f]
      BY <2>2 DEF HeldItems
    <3>2. \A q \in Pools, g \in Flows : i \in hold[q][g] => q = p /\ g = f
      BY <3>1, HoldsApart DEF Inv
    <3>3. E = {<<p, f>>}
      BY <3>1, <3>2
    <3> HIDE DEF E
    <3> QED
      BY <2>2, <3>3
  <2> QED
    BY <2>1, <2>2
<1>6. /\ caller[i] = "sending" => ~(i \in ChanItems \/ RunItem(i) \/ i \in Queued \/ i \in HeldItems)
      /\ i \in ChanItems => ~(RunItem(i) \/ i \in Queued \/ i \in HeldItems)
      /\ RunItem(i) => ~(i \in Queued \/ i \in HeldItems)
      /\ i \in Queued => i \notin HeldItems
  BY DEF Inv, Apart, Pending
<1> HIDE DEF A, B, C, D, E
<1> QED
  BY <1>0, <1>1, <1>2, <1>3, <1>4, <1>5, <1>6

\* A request that was handed in and has no outcome is in exactly one place, so
\* exactly one goroutine will finalize it, for any number of requests and flows.
THEOREM OneOwner == Spec => []SoleOwner
<1>1. Inv /\ OrderInv => SoleOwner
  <2> SUFFICES ASSUME Inv, OrderInv, NEW i \in Items
               PROVE  IF caller[i] = "idle" \/ outcome[i] # NotYet
                      THEN Places(i) = {} ELSE Cardinality(Places(i)) = 1
    BY DEF SoleOwner
  <2> DEFINE somewhere == caller[i] = "sending" \/ i \in ChanItems \/ RunItem(i) \/ i \in Queued \/ i \in HeldItems
  <2>1. caller[i] = "idle" \/ outcome[i] # NotYet => ~somewhere
    BY DEF Inv, Pending
  <2>2. ~(caller[i] = "idle" \/ outcome[i] # NotYet) => somewhere
    BY DEF Inv, TypeOK, CallerTypes, OrderInv, Accounted
  <2>3. (~somewhere => Places(i) = {}) /\ (somewhere => \E x : Places(i) = {x})
    BY PlacesOf
  <2>4. \A x : Cardinality({x}) = 1
    BY FS_Singleton
  <2> HIDE DEF somewhere
  <2> QED
    BY <2>1, <2>2, <2>3, <2>4
<1> QED
  BY <1>1, Invariance, OrderInvariance, PTL

-----------------------------------------------------------------------------
(* The shard as one queue *)

\* What the phase of a request says about where the shard has it.
PhaseFacts ==
  /\ Phase = [i \in Items |-> Phase[i]]
  /\ \A i \in Items :
       /\ outcome[i] # NotYet => Phase[i] = outcome[i]
       /\ outcome[i] = NotYet => Phase[i] \in Promise!Pending
       /\ Phase[i] = "outside" <=> caller[i] # "returned"
       /\ Phase[i] = "queued" <=> i \in Queued
       /\ Phase[i] = "leaving" <=> i \in HeldItems
       /\ Phase[i] = "serving" <=> Served(i)

\* Every request is in one place at most, so its phase tells where.
LEMMA PhaseIs == Inv => PhaseFacts
<1> SUFFICES ASSUME Inv PROVE PhaseFacts
  OBVIOUS
<1>1. Phase = [i \in Items |-> Phase[i]]
  BY DEF Phase
<1>2. ASSUME NEW i \in Items
      PROVE  /\ outcome[i] # NotYet => Phase[i] = outcome[i]
             /\ outcome[i] = NotYet => Phase[i] \in Promise!Pending
             /\ Phase[i] = "outside" <=> caller[i] # "returned"
             /\ Phase[i] = "queued" <=> i \in Queued
             /\ Phase[i] = "leaving" <=> i \in HeldItems
             /\ Phase[i] = "serving" <=> Served(i)
  <2>1. outcome[i] \in Outcomes
    BY DEF Inv, TypeOK, OutcomeTypes
  <2>2. /\ i \in Queued \/ i \in HeldItems \/ Served(i) => caller[i] = "returned" /\ outcome[i] = NotYet
        /\ caller[i] # "returned" => outcome[i] = NotYet
    BY DEF Inv, Pending, Served, RunItem, RunOwns
  <2>3. ~(i \in Queued /\ i \in HeldItems) /\ ~(i \in Queued /\ Served(i)) /\ ~(i \in HeldItems /\ Served(i))
    BY DEF Inv, Apart, Served, RunItem, RunOwns
  <2>4. CASE outcome[i] # NotYet
    <3>1. Phase[i] = outcome[i]
      BY <2>4 DEF Phase
    <3> QED
      BY <2>1, <2>2, <2>4, <3>1 DEF Outcomes, NotYet
  <2>5. CASE outcome[i] = NotYet
    <3>1. Phase[i] = CASE caller[i] # "returned" -> "outside"
                       [] caller[i] = "returned" /\ i \in Queued -> "queued"
                       [] caller[i] = "returned" /\ i \in HeldItems -> "leaving"
                       [] caller[i] = "returned" /\ Served(i) -> "serving"
                       [] OTHER -> "handed"
      BY <2>5 DEF Phase
    <3> QED
      BY <2>2, <2>3, <2>5, <3>1 DEF Promise!Pending
  <2> QED
    BY <2>4, <2>5
<1> QED
  BY <1>1, <1>2 DEF PhaseFacts

\* Nothing a step does concerns the request.
SameLife(i) ==
  /\ outcome'[i] = outcome[i]
  /\ caller'[i] = "returned" <=> caller[i] = "returned"
  /\ i \in Queued' <=> i \in Queued
  /\ i \in HeldItems' <=> i \in HeldItems
  /\ Served(i)' <=> Served(i)

\* Its phase stays as it is.
LEMMA SamePhase ==
  ASSUME NEW i \in Items, SameLife(i)
  PROVE  Phase'[i] = Phase[i]
BY DEF Phase, SameLife, Served
\* The requests of S move on, all the others stay where they are.
LEMMA PhaseMove ==
  ASSUME NEW S \in SUBSET Items, NEW to,
         \A i \in Items \ S : SameLife(i), \A i \in S : Phase'[i] = to
  PROVE  Promise!Move(S, to)
<1>1. \A i \in Items : Phase'[i] = IF i \in S THEN to ELSE Phase[i]
  BY SamePhase
<1>2. Phase' = [i \in Items |-> Phase'[i]]
  BY DEF Phase
<1> QED
  BY <1>1, <1>2 DEF Promise!Move

\* The lists keep their order when nothing enters or leaves them.
LEMMA AheadSame ==
  ASSUME UNCHANGED <<queue, position>>
  PROVE  Ahead' = Ahead
BY DEF Ahead, Queued

\* Items that are taken out, wherever they are in their list, leave the order
\* of the others.
LEMMA AheadDepart ==
  ASSUME NEW S, Queued' = Queued \ S, UNCHANGED position
  PROVE  Promise!Depart(S)
BY DEF Promise!Depart, Ahead

\* A step that leaves every request where it is.
LEMMA QueueStutter ==
  ASSUME UNCHANGED <<queue, position, ctxErr, isShuttingDown>>, \A i \in Items : SameLife(i)
  PROVE  UNCHANGED Promise!aqVars
<1>1. \A i \in Items : Phase'[i] = Phase[i]
  BY SamePhase
<1>2. Phase' = [i \in Items |-> Phase'[i]] /\ Phase = [i \in Items |-> Phase[i]]
  BY DEF Phase
<1>3. Phase' = Phase
  BY <1>1, <1>2
<1> QED
  BY <1>3, AheadSame DEF Promise!aqVars

\* What waits, and what is on its way out, as sets.
LEMMA PhaseSets ==
  ASSUME Inv
  PROVE  /\ Promise!In({"queued"}) = Queued
         /\ Promise!In({"queued", "leaving"}) = Queued \cup HeldItems
         /\ Promise!In({"serving"}) = {i \in Items : Served(i)}
         /\ \A f \in Flows : Promise!InFlow(f, "queued") = queue[f]
<1>1. PhaseFacts /\ Queued \subseteq Items /\ HeldItems \subseteq Items
  BY PhaseIs DEF Inv, TypeOK, ListTypes, Queued, HeldItems
<1>2. \A f \in Flows : {i \in Queued : FlowOf[i] = f} = queue[f]
  BY DEF Inv, FlowsKept, Queued
<1> QED
  BY <1>1, <1>2 DEF PhaseFacts, Promise!In, Promise!InFlow

\* The bytes that hasCapacity reads are at most those of the requests that
\* wait or are on their way out: a rejection means that with them the limit
\* is met.
LEMMA CapacityRefused ==
  ASSUME TypeOK, Apart, pc \in {"capShard", "capBand"}, NEW level \in Levels, NEW F, NEW s,
         s = Tally(level, F), NEW max \in Nat, ~((Load(s.bytes) + SizeOf[cur]) % Word <= max),
         NEW S \in SUBSET Items, {i \in Queued \cup HeldItems : FlowOf[i] \in F} \subseteq S
  PROVE  ~(Bytes(S \cup {cur}) <= max)
<1> DEFINE C == Counted(level, F)
<1>1. cur \in Items /\ SizeOf[cur] \in Nat
  BY SizesAssumption DEF TypeOK, RunTypes, UsesItem
<1>2. cur \notin Queued /\ cur \notin HeldItems
  BY <1>1 DEF Apart, RunItem, RunOwns
<1>3. ~Owes(level) /\ cur \notin C
  BY <1>2 DEF Owes, Counted, Taken, HeldItems
<1>4. s = Amount(C) /\ C \in SUBSET Items /\ Bytes(Items) \in Nat
  BY <1>3, TallyBound
<1>5. C \subseteq S
  BY DEF Counted, Taken, HeldItems
<1> HIDE DEF C
<1>6. s.bytes = Bytes(C) /\ Bytes(C) \in Nat /\ Bytes(C) <= Bytes(Items)
  BY <1>4, AmountType
<1>7. Bytes(C \cup {cur}) = s.bytes + SizeOf[cur]
  BY <1>1, <1>3, <1>4, <1>6, BytesAdd
<1>8. C \cup {cur} \in SUBSET Items /\ C \cup {cur} \in SUBSET (S \cup {cur}) /\ S \cup {cur} \in SUBSET Items
  BY <1>1, <1>4, <1>5
<1>9. Bytes(C \cup {cur}) <= Bytes(Items)
  BY <1>8, BytesSubset
<1>10. Bytes(C \cup {cur}) <= Bytes(S \cup {cur}) /\ Bytes(S \cup {cur}) \in Nat
  BY <1>8, BytesSubset
<1>11. s.bytes + SizeOf[cur] < Word /\ s.bytes < Word
  BY <1>1, <1>4, <1>6, <1>7, <1>9, WordAssumption
<1>12. Load(s.bytes) = s.bytes
  BY <1>6, <1>11, WordAssumption, ModSmall DEF Load
<1>13. (s.bytes + SizeOf[cur]) % Word = s.bytes + SizeOf[cur]
  BY <1>1, <1>6, <1>11, WordAssumption, ModSmall
<1> QED
  BY <1>1, <1>6, <1>7, <1>10, <1>12, <1>13

\* A request whose shard or band check fails does not fit.
LEMMA RefusedForCapacity ==
  ASSUME Inv, \/ pc = "capShard" /\ ~FitsShard(cur)
              \/ pc = "capBand" /\ ~FitsBand(cur)
  PROVE  ~Promise!Fits(Queued \cup HeldItems, cur)
<1> DEFINE S == Queued \cup HeldItems
           b == PriorityOf[FlowOf[cur]]
           T == {j \in S : PriorityOf[FlowOf[j]] = b}
<1>1. TypeOK /\ Apart /\ TalliesKept /\ S \in SUBSET Items /\ T \in SUBSET Items
  BY DEF Inv, TypeOK, ListTypes, Queued, HeldItems
<1>2. FlowOf[cur] \in Flows /\ b \in Bands
  BY <1>1, FlowsAssumption DEF TypeOK, RunTypes
<1>3. CASE pc = "capShard" /\ ~FitsShard(cur)
  <2>1. /\ ShardMaxBytes \in Nat /\ ShardMaxBytes > 0
        /\ ~((Load(shardStats.bytes) + SizeOf[cur]) % Word <= ShardMaxBytes)
    BY <1>3, SizesAssumption DEF FitsShard
  <2>2. shardStats = Tally("shard", Flows) /\ "shard" \in Levels
    BY <1>1 DEF TalliesKept, Levels
  <2>3. {i \in S : FlowOf[i] \in Flows} \subseteq S
    OBVIOUS
  <2> HIDE DEF S
  <2>4. {i \in Queued \cup HeldItems : FlowOf[i] \in Flows} \subseteq S
    BY <2>3 DEF S
  <2>5. ~(Bytes(S \cup {cur}) <= ShardMaxBytes)
    BY <1>1, <1>3, <2>1, <2>2, <2>4, CapacityRefused
  <2> QED
    BY <2>1, <2>5 DEF Promise!Fits, S
<1>4. CASE pc = "capBand" /\ ~FitsBand(cur)
  <2>1. /\ BandMaxBytes[b] \in Nat
        /\ ~((Load(bandStats[b].bytes) + SizeOf[cur]) % Word <= BandMaxBytes[b])
    BY <1>2, <1>4, SizesAssumption DEF FitsBand
  <2>2. bandStats[b] = Tally("band", FlowsAt(b)) /\ "band" \in Levels
    BY <1>1, <1>2 DEF TalliesKept, Levels
  <2>3. {i \in Queued \cup HeldItems : FlowOf[i] \in FlowsAt(b)} \subseteq T
    BY DEF FlowsAt
  <2> HIDE DEF T, b
  <2>4. ~(Bytes(T \cup {cur}) <= BandMaxBytes[b])
    BY <1>1, <1>4, <2>1, <2>2, <2>3, CapacityRefused
  <2> QED
    BY <2>4 DEF Promise!Fits, T, b
<1> QED
  BY <1>3, <1>4

\* The room that the capacity check found is still there when the item is added.
LEMMA AdmittedWithinCapacity ==
  ASSUME Inv, pc = "add"
  PROVE  Promise!Fits(Queued, cur)
<1> DEFINE b == PriorityOf[FlowOf[cur]]
<1>1. TypeOK /\ Apart /\ FlowsKept /\ ShardRoom /\ BandRoom
  BY DEF Inv
<1>2. /\ cur \in Items /\ FlowOf[cur] \in Flows /\ b \in Bands /\ FlowOf[cur] \in FlowsAt(b)
      /\ Queued \in SUBSET Items /\ QueuedAt(b) \in SUBSET Items
  BY <1>1, FlowsAssumption DEF TypeOK, RunTypes, UsesItem, ListTypes, Queued, QueuedAt, FlowsAt
<1>3. cur \notin Queued /\ cur \notin QueuedAt(b)
  BY <1>1, <1>2 DEF Apart, RunItem, RunOwns, QueuedAt
<1>4. QueuedAt(b) = {j \in Queued : PriorityOf[FlowOf[j]] = b}
  BY <1>1 DEF QueuedAt, FlowsAt, Queued, FlowsKept
<1>5. Bytes(Queued \cup {cur}) = Bytes(Queued) + SizeOf[cur]
  BY <1>2, <1>3, BytesAdd
<1>6. Bytes(QueuedAt(b) \cup {cur}) = Bytes(QueuedAt(b)) + SizeOf[cur]
  <2> HIDE DEF b
  <2> QED
    BY <1>2, <1>3, BytesAdd
<1>7. ShardMaxBytes > 0 => Bytes(Queued \cup {cur}) <= ShardMaxBytes
  BY <1>1, <1>5 DEF ShardRoom
<1>8. Bytes(QueuedAt(b) \cup {cur}) <= BandMaxBytes[b]
  BY <1>1, <1>2, <1>6 DEF BandRoom
<1> QED
  BY <1>4, <1>7, <1>8 DEF Promise!Fits
\* An expiry check that fires has found the reason that it reports.
LEMMA ExpiryReason ==
  ASSUME NEW i \in Items, outcome[i] = NotYet, NEW now, CheckItemExpiry(i, now) # NotYet
  PROVE  /\ CheckItemExpiry(i, now) \in Promise!Evictions
         /\ Promise!Evictable(i, CheckItemExpiry(i, now))
BY DEF CheckItemExpiry, Promise!Evictions, Promise!Evictable, NotYet

\* What a goroutine finalizes moves on to the outcome it is given, and nothing
\* else moves.
LEMMA Finalized ==
  ASSUME Inv, PhaseFacts', NEW i \in Items, NEW o, o # NotYet, outcome[i] = NotYet, Finalize(i, o),
         UNCHANGED <<queue, hold, position>>,
         \A j \in Items \ {i} :
           /\ caller'[j] = "returned" <=> caller[j] = "returned"
           /\ Served(j)' <=> Served(j)
  PROVE  Promise!Move({i}, o) /\ Ahead' = Ahead
<1>1. outcome \in [Items -> Outcomes]
  BY DEF Inv, TypeOK, OutcomeTypes
<1>2. outcome'[i] = o /\ \A j \in Items \ {i} : outcome'[j] = outcome[j]
  BY <1>1 DEF Finalize
<1>3. UNCHANGED <<Queued, HeldItems>>
  BY DEF Queued, HeldItems
<1>4. \A j \in Items \ {i} : SameLife(j)
  BY <1>2, <1>3 DEF SameLife
<1>5. Phase'[i] = o
  BY <1>2 DEF PhaseFacts
<1> QED
  BY <1>4, <1>5, PhaseMove, AheadSame

\* A step that touches neither lists nor outcomes and does not take an item
\* for dispatch leaves the queue as it is.
LEMMA PlainStutter ==
  ASSUME UNCHANGED <<outcome, queue, hold, position, ctxErr, isShuttingDown>>,
         \A i \in Items :
           /\ caller'[i] = "returned" <=> caller[i] = "returned"
           /\ Served(i)' <=> Served(i)
  PROVE  UNCHANGED Promise!aqVars
<1>1. UNCHANGED <<Queued, HeldItems>>
  BY DEF Queued, HeldItems
<1> QED
  BY <1>1, QueueStutter DEF SameLife

\* Every step of the shard is a step of the queue, or leaves the queue as it is.
LEMMA QueueStep ==
  Inv /\ OrderInv /\ [Next]_vars /\ Inv' => [Promise!Next]_(Promise!aqVars)
<1> SUFFICES ASSUME Inv, OrderInv, [Next]_vars, Inv' PROVE [Promise!Next]_(Promise!aqVars)
  OBVIOUS
<1>f. PhaseFacts /\ PhaseFacts'
  <2>1. Inv' => PhaseFacts'
    BY PhaseIs, PTL
  <2> QED
    BY <2>1, PhaseIs
<1>t. /\ hold \in [Pools -> [Flows -> SUBSET Items]] /\ outcome \in [Items -> Outcomes]
      /\ caller \in [Items -> {"idle", "sending", "returned"}] /\ enqueueChan \in Seq(Items)
      /\ queue \in [Flows -> SUBSET Items] /\ position \in [Items -> Nat] /\ pushed \in Nat
      /\ Queued \in SUBSET Items /\ HeldItems \in SUBSET Items /\ NoRepeats(enqueueChan)
  BY DEF Inv, TypeOK, PoolTypes, OutcomeTypes, CallerTypes, ListTypes, Apart, Queued, HeldItems
<1>n. NotYet \notin {"RejectedOther", "RejectedCapacity", "Dispatched", "EvictedOther"}
  BY DEF NotYet
<1> USE DEF envVars, itemVars, chanVars, stopVars, runVars, listVars, statVars, poolVars, cleanVars
<1>1. CASE Tick
  BY <1>1, PlainStutter DEF Tick, Served
<1>2. CASE CancelRun
  BY <1>2, PlainStutter DEF CancelRun, Served
<1>3. ASSUME NEW i \in Items, CancelRequest(i) PROVE Promise!Next
  <2>1. UNCHANGED <<outcome, caller, queue, hold, position, isShuttingDown, pc, cur>>
    BY <1>3 DEF CancelRequest
  <2>2. UNCHANGED <<Phase, Ahead>>
    BY <2>1, AheadSame DEF Phase, Queued, HeldItems, Served
  <2>3. Phase[i] \in Promise!Pending
    BY <1>3, <1>f DEF CancelRequest, PhaseFacts
  <2>4. Promise!GiveUp(i)
    BY <1>3, <2>1, <2>2, <2>3 DEF CancelRequest, Promise!GiveUp
  <2> QED
    BY <2>4 DEF Promise!Next
<1>4. ASSUME NEW i \in Items, Submit(i) PROVE [Promise!Next]_(Promise!aqVars)
  <2>1. /\ UNCHANGED <<queue, hold, position, ctxErr, isShuttingDown>> /\ \A j : Served(j)' <=> Served(j)
        /\ \A j \in Items \ {i} : caller'[j] = caller[j]
        /\ caller[i] = "idle" /\ outcome[i] = NotYet /\ Phase[i] = "outside"
    BY <1>4, <1>t, <1>f DEF Submit, Served, Inv, Pending, PhaseFacts
  <2>2. CASE ~isShuttingDown
    <3>1. UNCHANGED outcome /\ \A j \in Items : caller'[j] = "returned" <=> caller[j] = "returned"
      BY <1>4, <1>t, <2>1, <2>2 DEF Submit
    <3> QED
      BY <2>1, <3>1, PlainStutter
  <2>3. CASE isShuttingDown
    <3>1. Finalize(i, "RejectedOther")
      BY <1>4, <2>3 DEF Submit
    <3>2. Promise!Move({i}, "RejectedOther") /\ Ahead' = Ahead
      BY <1>f, <1>n, <2>1, <3>1, Finalized
    <3>3. Promise!RejectOther(i)
      BY <2>1, <2>3, <3>2 DEF Promise!RejectOther
    <3> QED
      BY <3>3 DEF Promise!Next
  <2> QED
    BY <2>2, <2>3
<1>5. ASSUME NEW i \in Items, Send(i) PROVE Promise!Next
  <2>1. /\ UNCHANGED <<outcome, queue, hold, position, ctxErr, isShuttingDown>> /\ \A j : Served(j)' <=> Served(j)
        /\ \A j \in Items \ {i} : caller'[j] = caller[j]
        /\ caller[i] = "sending" /\ caller'[i] = "returned" /\ Phase[i] = "outside"
    BY <1>5, <1>t, <1>f DEF Send, Served, PhaseFacts
  <2>2. UNCHANGED <<Queued, HeldItems>>
    BY <2>1 DEF Queued, HeldItems
  <2>3. \A j \in Items \ {i} : SameLife(j)
    BY <2>1, <2>2 DEF SameLife
  <2>4. outcome'[i] = NotYet /\ i \notin Queued' /\ i \notin HeldItems' /\ ~Served(i)'
    BY <1>f, <2>1, <2>2 DEF PhaseFacts, Inv, Pending
  <2>5. Phase'[i] = "handed"
    BY <1>f, <2>1, <2>4 DEF PhaseFacts, Promise!Pending
  <2>6. Promise!Move({i}, "handed") /\ Ahead' = Ahead
    BY <2>1, <2>3, <2>5, PhaseMove, AheadSame
  <2>7. Promise!HandIn(i)
    BY <2>1, <2>6 DEF Promise!HandIn
  <2> QED
    BY <2>7 DEF Promise!Next
<1>6. ASSUME NEW i \in Items, SendPanics(i) PROVE UNCHANGED Promise!aqVars
  BY <1>6, PlainStutter DEF SendPanics, Served
<1>7. CASE Receive
  BY <1>7, PlainStutter DEF Receive, Served
<1>8. CASE DefaultDispatch
  BY <1>8, PlainStutter DEF DefaultDispatch, BeginCycle, Served
\* The item that Run has received has only been handed in.
<1>h. ASSUME pc \in {"lookup", "capShard", "capBand", "add"}
      PROVE  /\ cur \in Items /\ outcome[cur] = NotYet /\ Phase[cur] = "handed" /\ ~isShuttingDown
             /\ \A j : ~Served(j)
  <2>1. cur \in Items /\ RunItem(cur) /\ \A j : ~Served(j)
    BY <1>h DEF RunItem, RunOwns, Served, Inv, TypeOK, RunTypes, UsesItem
  <2>2. outcome[cur] = NotYet /\ caller[cur] = "returned" /\ cur \notin Queued /\ cur \notin HeldItems
    BY <2>1 DEF Inv, Pending, Apart
  <2>3. Phase[cur] = "handed"
    BY <1>f, <2>1, <2>2 DEF PhaseFacts, Promise!Pending
  <2> QED
    BY <1>h, <2>1, <2>2, <2>3 DEF OrderInv, StopKept
<1>9. CASE EnqueueLookup
  <2>1. CASE ManagedQueue(cur)
    BY <1>9, <2>1, PlainStutter DEF EnqueueLookup, Served
  <2>2. CASE ~ManagedQueue(cur)
    <3>1. /\ pc = "lookup" /\ Finalize(cur, "RejectedOther") /\ \A j : ~Served(j)'
          /\ UNCHANGED <<queue, hold, position, caller, ctxErr, isShuttingDown>>
      BY <1>9, <2>2 DEF EnqueueLookup, Reject, BeginCycle, Served
    <3>2. Promise!Move({cur}, "RejectedOther") /\ Ahead' = Ahead
      BY <1>f, <1>n, <1>h, <3>1, Finalized
    <3>3. Promise!RejectOther(cur)
      BY <1>h, <2>2, <3>1, <3>2 DEF ManagedQueue, Promise!RejectOther
    <3> QED
      BY <1>h, <3>1, <3>3 DEF Promise!Next
  <2> QED
    BY <2>1, <2>2
\* A request that the capacity check turns down.
<1>c. ASSUME \/ pc = "capShard" /\ ~FitsShard(cur)
             \/ pc = "capBand" /\ ~FitsBand(cur),
             Reject("RejectedCapacity"),
             UNCHANGED <<queue, hold, position, caller, ctxErr, isShuttingDown>>
      PROVE  Promise!Next
  <2>1. FlowOf[cur] \in Flows /\ Finalize(cur, "RejectedCapacity") /\ \A j : ~Served(j)'
    BY <1>c DEF Reject, BeginCycle, Served, Inv, TypeOK, RunTypes
  <2>2. Promise!Move({cur}, "RejectedCapacity") /\ Ahead' = Ahead
    BY <1>c, <1>f, <1>n, <1>h, <2>1, Finalized
  <2>3. ~Promise!Fits(Promise!In({"queued", "leaving"}), cur)
    BY <1>c, RefusedForCapacity, PhaseSets
  <2>4. Promise!RejectCapacity(cur)
    BY <1>c, <1>h, <2>1, <2>2, <2>3 DEF Promise!RejectCapacity
  <2> QED
    BY <1>c, <1>h, <2>4 DEF Promise!Next
<1>10. CASE CapacityShard
  <2>1. CASE FitsShard(cur)
    BY <1>10, <2>1, PlainStutter DEF CapacityShard, Served
  <2>2. CASE ~FitsShard(cur)
    BY <1>10, <1>c, <2>2 DEF CapacityShard
  <2> QED
    BY <2>1, <2>2
<1>11. CASE CapacityBand
  <2>1. CASE FitsBand(cur)
    BY <1>11, <2>1, PlainStutter DEF CapacityBand, Served
  <2>2. CASE ~FitsBand(cur)
    BY <1>11, <1>c, <2>2 DEF CapacityBand
  <2> QED
    BY <2>1, <2>2
<1>12. CASE EnqueueAdd
  <2> DEFINE f == FlowOf[cur]
  <2>1. /\ cur \in Items /\ outcome[cur] = NotYet /\ Phase[cur] = "handed" /\ ~isShuttingDown
        /\ pc = "add" /\ f \in Flows /\ cur \notin Queued /\ \A j : ~Served(j)
    BY <1>12, <1>h, <1>f DEF EnqueueAdd, Inv, TypeOK, RunTypes, PhaseFacts
  <2>2. /\ queue' = [queue EXCEPT ![f] = @ \cup {cur}]
        /\ position' = [position EXCEPT ![cur] = pushed]
        /\ UNCHANGED <<outcome, caller, hold, ctxErr, isShuttingDown>> /\ \A j : ~Served(j)'
    BY <1>12, <2>1 DEF EnqueueAdd, PushBack, Served
  <2>3. Queued' = Queued \cup {cur} /\ HeldItems' = HeldItems
    BY <1>t, <2>1, <2>2 DEF Queued, HeldItems
  <2>4. \A j \in Items \ {cur} : SameLife(j)
    BY <2>1, <2>2, <2>3 DEF SameLife
  <2>5. Phase'[cur] = "queued"
    BY <1>f, <2>1, <2>3 DEF PhaseFacts
  <2>6. Promise!Move({cur}, "queued")
    BY <2>1, <2>4, <2>5, PhaseMove
  <2>7. \A j \in Queued : position'[j] = position[j] /\ position[j] < pushed
    BY <1>t, <2>1, <2>2 DEF OrderInv, PositionsKept
  <2>8. position'[cur] = pushed /\ \A j \in Queued : position[j] \in Nat
    BY <1>t, <2>1, <2>2
  <2>9. queue[f] = {j \in Queued : FlowOf[j] = f}
    BY <2>1 DEF Queued, Inv, FlowsKept
  <2>10. Ahead' = Ahead \cup {<<j, cur>> : j \in queue[f]}
    <3> HIDE DEF f
    <3>1. \A j, k \in Queued : position'[j] < position'[k] <=> position[j] < position[k]
      BY <2>7
    <3>2. \A j \in Queued : position'[j] < position'[cur] /\ ~(position'[cur] < position'[j])
      BY <1>t, <2>7, <2>8
    <3>3. ~(position'[cur] < position'[cur])
      BY <1>t, <2>8
    <3>4. \A j, k : <<j, k>> \in Ahead' <=> <<j, k>> \in Ahead \cup {<<l, cur>> : l \in queue[f]}
      BY <2>1, <2>3, <2>9, <3>1, <3>2, <3>3 DEF Ahead, f
    <3>5. /\ \A e \in Ahead' : e = <<e[1], e[2]>>
          /\ \A e \in Ahead \cup {<<l, cur>> : l \in queue[f]} : e = <<e[1], e[2]>>
      BY DEF Ahead
    <3> QED
      BY <3>4, <3>5
  <2>11. Promise!Fits(Promise!In({"queued"}), cur)
    BY <2>1, AdmittedWithinCapacity, PhaseSets
  <2>12. Promise!Admit(cur)
    BY <2>1, <2>2, <2>6, <2>10, <2>11, PhaseSets DEF Promise!Admit
  <2> QED
    BY <2>1, <2>12 DEF Promise!Next
<1>13. CASE RunReconcile
  BY <1>13, PlainStutter DEF RunReconcile, BeginCycle, Served
<1>14. CASE PauseCycle
  BY <1>14, PlainStutter DEF PauseCycle, ReturnToSelect, Served
<1>15. CASE EndCycle
  BY <1>15, PlainStutter DEF EndCycle, ReturnToSelect, Served
<1>16. CASE SelectQueue
  BY <1>16, PlainStutter DEF SelectQueue, NextLevel, Served
<1>17. CASE SelectItem
  BY <1>17, PlainStutter DEF SelectItem, NextLevel, Served
<1>18. CASE RemoveItem
  <2>1. CASE cur \notin queue[flow]
    BY <1>18, <2>1, PlainStutter DEF RemoveItem, NextLevel, Served
  <2>2. CASE cur \in queue[flow]
    <3>1. /\ pc = "remove" /\ pc' = "remQueue" /\ cur' = cur /\ cur \in Items /\ flow \in Flows
          /\ queue' = [queue EXCEPT ![flow] = @ \ {cur}] /\ ~isShuttingDown
          /\ UNCHANGED <<outcome, caller, hold, position, ctxErr, isShuttingDown>>
      BY <1>18, <2>2 DEF RemoveItem, Unlink, Inv, TypeOK, RunTypes, UsesItem, UsesFlow, Dispatching,
                         OrderInv, StopKept
    <3>2. /\ cur \in Queued /\ Phase[cur] = "queued" /\ FlowOf[cur] = flow
          /\ \A g \in Flows : cur \in queue[g] => g = flow
      BY <1>f, <2>2, <3>1 DEF Queued, PhaseFacts, Inv, FlowsKept
    <3>3. Queued' = Queued \ {cur} /\ HeldItems' = HeldItems
      BY <1>t, <3>1, <3>2 DEF Queued, HeldItems
    <3>4. (\A j : ~Served(j)) /\ \A j : Served(j)' <=> j = cur
      BY <3>1 DEF Served
    <3>5. \A j \in Items \ {cur} : SameLife(j)
      BY <3>1, <3>3, <3>4 DEF SameLife
    <3>6. Phase'[cur] = "serving"
      BY <1>f, <3>1, <3>4 DEF PhaseFacts
    <3>7. Promise!Move({cur}, "serving") /\ Promise!Depart({cur})
      BY <3>1, <3>3, <3>5, <3>6, PhaseMove, AheadDepart
    <3>8. Promise!In({"serving"}) = {}
      BY <3>4, PhaseSets
    <3>9. \A j \in Items : <<j, cur>> \notin Ahead
      <4> SUFFICES ASSUME NEW j \in Queued, FlowOf[j] = FlowOf[cur], position[j] < position[cur] PROVE FALSE
        BY DEF Ahead
      <4>1. j \in queue[flow] /\ j \in Items
        BY <1>t, <3>2 DEF Queued, Inv, FlowsKept
      <4>2. position[cur] <= position[j]
        BY <3>1, <4>1 DEF OrderInv, HeadKept
      <4> QED
        BY <1>t, <3>1, <4>1, <4>2
    <3>10. Promise!Serve(cur)
      BY <3>1, <3>2, <3>7, <3>8, <3>9 DEF Promise!Serve
    <3> QED
      BY <3>1, <3>10 DEF Promise!Next
  <2> QED
    BY <2>1, <2>2
<1>19. CASE SettleItem
  <2> DEFINE o == CheckItemExpiry(cur, clock)
  <2>1. cur \in Items /\ Served(cur) /\ \A j : Served(j) => j = cur
    BY <1>19 DEF SettleItem, Served, Inv, TypeOK, RunTypes, UsesItem, UsesFlow, Dispatching
  <2>2. outcome[cur] = NotYet /\ Phase[cur] = "serving"
    BY <1>19, <1>f, <2>1 DEF SettleItem, PhaseFacts, Inv, Pending, RunItem, RunOwns
  <2>3. UNCHANGED <<queue, hold, position, caller, ctxErr, isShuttingDown>> /\ \A j : ~Served(j)'
    BY <1>19 DEF SettleItem, NextLevel, ReturnToSelect, Served
  <2>4. CASE o = NotYet
    <3>1. Finalize(cur, "Dispatched")
      BY <1>19, <2>4 DEF SettleItem
    <3>2. Promise!Move({cur}, "Dispatched") /\ Ahead' = Ahead
      BY <1>f, <1>n, <2>1, <2>2, <2>3, <3>1, Finalized
    <3>3. cur \notin ctxErr
      BY <2>2, <2>4 DEF CheckItemExpiry, NotYet
    <3>4. Promise!Dispatch(cur)
      BY <2>2, <2>3, <3>2, <3>3 DEF Promise!Dispatch
    <3> QED
      BY <2>1, <3>4 DEF Promise!Next
  <2>5. CASE o # NotYet
    <3>1. Finalize(cur, o)
      BY <1>19, <2>5 DEF SettleItem
    <3>2. o \in Promise!Evictions /\ Promise!Evictable(cur, o)
      BY <2>1, <2>2, <2>5, ExpiryReason
    <3> HIDE DEF o
    <3>3. Promise!Move({cur}, o) /\ Ahead' = Ahead
      BY <1>f, <2>1, <2>2, <2>3, <2>5, <3>1, Finalized
    <3>4. Promise!EvictServed(cur)
      BY <2>2, <2>3, <3>2, <3>3 DEF Promise!EvictServed
    <3> QED
      BY <2>1, <3>4 DEF Promise!Next
  <2> QED
    BY <2>4, <2>5
<1>20. CASE BeginShutdown
  <2>1. /\ UNCHANGED <<outcome, caller, queue, hold, position, ctxErr>> /\ \A j : ~Served(j) /\ ~Served(j)'
        /\ ~isShuttingDown /\ isShuttingDown' = TRUE
    BY <1>20 DEF BeginShutdown, Served, OrderInv, StopKept
  <2>2. UNCHANGED <<Phase, Ahead>>
    BY <2>1, AheadSame DEF Phase, Queued, HeldItems
  <2>3. Promise!Stop
    BY <2>1, <2>2 DEF Promise!Stop
  <2> QED
    BY <2>3 DEF Promise!Next
<1>21. CASE DrainChannel
  <2>1. CASE enqueueChan = <<>>
    BY <1>21, <2>1, PlainStutter DEF DrainChannel, Served
  <2>2. CASE enqueueChan # <<>>
    <3> DEFINE i == Head(enqueueChan)
    <3>1. i \in ChanItems /\ i \in Items
      BY <1>t, <2>2, TailElements, HeadTailProperties DEF ChanItems
    <3> HIDE DEF i
    <3>2. /\ Finalize(i, "RejectedOther") /\ pc = "drain" /\ \A j : ~Served(j) /\ ~Served(j)'
          /\ UNCHANGED <<queue, hold, position, caller, ctxErr, isShuttingDown>>
      BY <1>21, <2>2 DEF DrainChannel, Served, i
    <3>3. outcome[i] = NotYet /\ caller[i] = "returned" /\ i \notin Queued /\ i \notin HeldItems
      BY <3>1 DEF Inv, Pending, Apart
    <3>4. Phase[i] = "handed" /\ isShuttingDown
      BY <1>f, <3>1, <3>2, <3>3 DEF PhaseFacts, Promise!Pending, OrderInv, StopKept
    <3>5. Promise!Move({i}, "RejectedOther") /\ Ahead' = Ahead
      BY <1>f, <1>n, <3>1, <3>2, <3>3, Finalized
    <3>6. Promise!RejectOther(i)
      BY <3>2, <3>4, <3>5 DEF Promise!RejectOther
    <3> QED
      BY <3>1, <3>6 DEF Promise!Next
  <2> QED
    BY <2>1, <2>2
<1>22. CASE CloseChannel
  BY <1>22, PlainStutter DEF CloseChannel, Served
<1>23. CASE FinishShutdown
  BY <1>23, PlainStutter DEF FinishShutdown, Served
<1>24. CASE CleanupTick
  BY <1>24, PlainStutter DEF CleanupTick, Served
<1>25. CASE CleanupScanned
  BY <1>25, PlainStutter DEF CleanupScanned, Served
<1>26. CASE CleanupExit
  BY <1>26, PlainStutter DEF CleanupExit, Served
\* The workers of evictAll run only while Run is in shutdown.
<1>e. ASSUME NEW f \in Flows, stage["evict"][f] # "idle" PROVE isShuttingDown
  BY <1>e DEF Inv, PoolsKept, Idle, OrderInv, StopKept
<1>27. ASSUME NEW p \in Pools, NEW f \in Flows, WorkerScan(p, f) PROVE [Promise!Next]_(Promise!aqVars)
  <2> DEFINE R == Removable(p, f)
  <2>1. /\ hold' = [hold EXCEPT ![p][f] = R] /\ queue' = [queue EXCEPT ![f] = @ \ R]
        /\ UNCHANGED <<outcome, caller, position, ctxErr, isShuttingDown>> /\ \A j : Served(j)' <=> Served(j)
    BY <1>27 DEF WorkerScan, Served
  <2>2. hold[p][f] = {} /\ R \in SUBSET queue[f] /\ R \in SUBSET Items /\ R \in SUBSET Queued
    BY <1>27, <1>t DEF WorkerScan, Inv, PoolsKept, Removable, Queued
  <2>3. \A i \in R : \E o \in Promise!Evictions : Promise!Evictable(i, o)
    <3>1. CASE p = "evict"
      BY <1>27, <1>e, <3>1 DEF WorkerScan, Promise!Evictions, Promise!Evictable
    <3>2. CASE p = "cleanup"
      <4> SUFFICES ASSUME NEW i \in R PROVE \E o \in Promise!Evictions : Promise!Evictable(i, o)
        OBVIOUS
      <4>1. i \in Items /\ outcome[i] = NotYet /\ CheckItemExpiry(i, tick) # NotYet
        BY <2>2, <3>2 DEF Removable, Inv, Pending
      <4> QED
        BY <4>1, ExpiryReason
    <3> QED
      BY <3>1, <3>2 DEF Pools
  <2> HIDE DEF R
  <2>4. \A g \in Flows : g # f => queue[g] \cap R = {}
    BY <2>2 DEF Inv, FlowsKept
  <2>5. Queued' = Queued \ R
    BY <1>t, <2>1, <2>2, <2>4 DEF Queued
  <2>6. \A q \in Pools, g \in Flows : hold'[q][g] = IF q = p /\ g = f THEN R ELSE hold[q][g]
    BY <1>t, <2>1
  <2>7. HeldItems' = HeldItems \cup R
    BY <2>2, <2>6 DEF HeldItems
  <2>8. \A i \in Items \ R : SameLife(i)
    BY <2>1, <2>5, <2>7 DEF SameLife
  <2>9. \A i \in R : Phase'[i] = "leaving"
    BY <1>f, <2>2, <2>7 DEF PhaseFacts
  <2>10. Promise!Move(R, "leaving") /\ Promise!Depart(R)
    BY <2>1, <2>2, <2>5, <2>8, <2>9, PhaseMove, AheadDepart
  <2>11. CASE R # {}
    <3>1. Promise!Withdraw(R)
      BY <2>1, <2>3, <2>10, <2>11 DEF Promise!Withdraw
    <3>2. R \in SUBSET Promise!InFlow(f, "queued")
      BY <2>2, PhaseSets
    <3> QED
      BY <3>1, <3>2 DEF Promise!Next
  <2>12. CASE R = {}
    <3>1. queue' = queue
      BY <1>t, <2>1, <2>12
    <3> QED
      BY <2>1, <2>8, <2>12, <3>1, QueueStutter
  <2> QED
    BY <2>11, <2>12
<1>28. ASSUME NEW p \in Pools, NEW f \in Flows, WorkerReconcile(p, f) PROVE UNCHANGED Promise!aqVars
  BY <1>28, PlainStutter DEF WorkerReconcile, Served
<1>29. ASSUME NEW p \in Pools, NEW f \in Flows, WorkerFinalize(p, f) PROVE [Promise!Next]_(Promise!aqVars)
  <2> DEFINE H == hold[p][f]
             o == [i \in H |-> PoolOutcome(p, i)]
  <2>1. /\ outcome' = [i \in Items |-> IF i \in H /\ outcome[i] = NotYet THEN PoolOutcome(p, i) ELSE outcome[i]]
        /\ hold' = [hold EXCEPT ![p][f] = {}]
        /\ UNCHANGED <<queue, caller, position, ctxErr, isShuttingDown>> /\ \A j : Served(j)' <=> Served(j)
    BY <1>29 DEF WorkerFinalize, Served
  <2>2. H \in SUBSET Items /\ H \in SUBSET HeldItems /\ \A i \in H : FlowOf[i] = f
    BY <1>t DEF HeldItems, Inv, FlowsKept
  <2>3. \A i \in H : outcome[i] = NotYet /\ Phase[i] = "leaving"
    BY <1>f, <2>2 DEF PhaseFacts, Inv, Pending
  <2>4. \A i \in H : /\ PoolOutcome(p, i) \in Promise!Evictions
                     /\ Promise!Evictable(i, PoolOutcome(p, i))
    <3>1. CASE p = "evict"
      BY <1>29, <1>e, <3>1 DEF WorkerFinalize, PoolOutcome, Promise!Evictions, Promise!Evictable
    <3>2. CASE p = "cleanup"
      <4> SUFFICES ASSUME NEW i \in H
                   PROVE  /\ PoolOutcome(p, i) \in Promise!Evictions
                          /\ Promise!Evictable(i, PoolOutcome(p, i))
        OBVIOUS
      <4>1. CheckItemExpiry(i, tick) # NotYet /\ PoolOutcome(p, i) = CheckItemExpiry(i, tick)
        BY <3>2 DEF PoolOutcome, OrderInv, HeldExpired
      <4>2. i \in Items /\ outcome[i] = NotYet
        BY <2>2, <2>3
      <4> QED
        BY <4>1, <4>2, ExpiryReason
    <3> QED
      BY <3>1, <3>2 DEF Pools
  <2>5. \A i \in H : outcome'[i] = PoolOutcome(p, i) /\ outcome'[i] # NotYet
    BY <2>1, <2>2, <2>3, <2>4 DEF Promise!Evictions, NotYet
  <2>6. \A i \in Items \ H : outcome'[i] = outcome[i]
    BY <1>t, <2>1
  <2>7. \A q \in Pools, g \in Flows : hold'[q][g] = IF q = p /\ g = f THEN {} ELSE hold[q][g]
    BY <1>t, <2>1
  <2>8. Queued' = Queued /\ \A i \in Items \ H : i \in HeldItems' <=> i \in HeldItems
    BY <2>1, <2>7 DEF Queued, HeldItems
  <2>9. \A i \in Items \ H : SameLife(i)
    BY <2>1, <2>6, <2>8 DEF SameLife
  <2>10. \A i \in H : Phase'[i] = o[i]
    BY <1>f, <2>2, <2>5 DEF PhaseFacts
  <2> HIDE DEF H
  <2>11. o \in [H -> Promise!Evictions] /\ \A i \in H : Promise!Evictable(i, o[i])
    BY <2>4
  <2>12. Ahead' = Ahead
    BY <2>1, AheadSame
  <2> HIDE DEF o
  <2>13. Phase' = [i \in Items |-> IF i \in H THEN o[i] ELSE Phase[i]]
    <3>1. \A i \in Items : Phase'[i] = IF i \in H THEN o[i] ELSE Phase[i]
      BY <2>9, <2>10, SamePhase
    <3>2. Phase' = [i \in Items |-> Phase'[i]]
      BY DEF Phase
    <3> QED
      BY <3>1, <3>2
  <2>14. CASE H # {}
    <3>1. Promise!Evict(H)
      BY <2>1, <2>11, <2>12, <2>13, <2>14 DEF Promise!Evict
    <3>2. H \in SUBSET Promise!InFlow(f, "leaving")
      BY <2>2, <2>3 DEF Promise!InFlow
    <3> QED
      BY <3>1, <3>2 DEF Promise!Next
  <2>15. CASE H = {}
    BY <2>1, <2>9, <2>15, QueueStutter
  <2> QED
    BY <2>14, <2>15
<1>30. CASE UNCHANGED vars
  BY <1>30, PlainStutter DEF vars, Served
<1> QED
  BY <1>1, <1>2, <1>3, <1>4, <1>5, <1>6, <1>7, <1>8, <1>9, <1>10, <1>11,
     <1>12, <1>13, <1>14, <1>15, <1>16, <1>17, <1>18, <1>19, <1>20,
     <1>21, <1>22, <1>23, <1>24, <1>25, <1>26, <1>27, <1>28, <1>29,
     <1>30
  DEF Next, Env, CallerStep, RunStep, CleanupStep, WorkerStep, Terminated

\* For any requests, flows, bands, sizes and capacities, and however Run, the
\* cleanup workers, shutdown and the callers interleave, the shard implements
\* the queue of AdmissionQueue: outcomes mean what outcomes.go says.
THEOREM ShardIsOneQueue == Spec => ImplementsAdmissionQueue
<1>1. Init => Promise!Init
  <2> SUFFICES ASSUME Init PROVE Promise!Init
    OBVIOUS
  <2>1. Queued = {} /\ Ahead = {}
    BY DEF Init, Queued, Ahead
  <2>2. Phase = [i \in Items |-> "outside"]
    BY DEF Init, Phase
  <2> QED
    BY <2>1, <2>2 DEF Init, Promise!Init
<1> QED
  BY <1>1, QueueStep, Invariance, OrderInvariance, PTL DEF Spec, ImplementsAdmissionQueue, Promise!Spec
=============================================================================
