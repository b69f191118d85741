--------------------------- MODULE ShardProcessor ---------------------------
(***************************************************************************)
(* The flow-control shard: callers of ShardProcessor.Enqueue, the channel  *)
(* they share, the Run goroutine (enqueue and dispatchCycle), the expiry   *)
(* cleanup goroutine with its worker pool, shutdown, and the registry's    *)
(* managed queues with their queue / shard / band statistics.              *)
(*                                                                         *)
(* Sources: pkg/epp/flowcontrol/controller/internal/{processor,item,       *)
(* filter}.go and pkg/epp/flowcontrol/registry/{managedqueue,shard}.go,    *)
(* with the FIFO listqueue as the underlying SafeQueue.                    *)
(*                                                                         *)
(* A step of the model is what one goroutine does between two points at    *)
(* which another goroutine can observe or change the shared state: one     *)
(* queue operation (under the queue's mutex), one group of atomic counter  *)
(* additions, one channel operation, one finalize.                         *)
(***************************************************************************)
EXTENDS Integers, Sequences, FiniteSets

CONSTANTS
  Items,          \* the requests (flowItem), each submitted at most once
  Flows,          \* flow keys that have a managed queue on the shard
  Bands,          \* configured priority levels; a smaller number is served first
  FlowOf,         \* the flow key of a request, possibly one without a queue
  PriorityOf,     \* key.Priority of a registered flow
  SizeOf,         \* req.ByteSize()
  TTLOf,          \* effectiveTTL, 0 when the item has none
  ShardMaxBytes,  \* the shard's MaxBytes, 0 when there is no shard limit
  BandMaxBytes,   \* the band's MaxBytes
  ChanCap,        \* enqueueChannelBufferSize
  NoItem, NoFlow, \* values of Run's local variables when they are out of scope
  Word,           \* 2^64, the modulus of the atomic counters
  MaxTime         \* bound on the clock

Pools == {"cleanup", "evict"}

NotYet == "NotYetFinalized"

Outcomes == {NotYet, "Dispatched", "RejectedCapacity", "RejectedOther",
             "EvictedTTL", "EvictedContextCancelled", "EvictedOther"}

(***************************************************************************)
(* The bytes of a set of requests.  It is a sum, written as the size of    *)
(* the set of all their bytes, so that the facts about it are facts about  *)
(* cardinality.                                                            *)
(***************************************************************************)
ByteSet(S) == UNION {{i} \X (1 .. SizeOf[i]) : i \in S}

Bytes(S) == Cardinality(ByteSet(S))

ASSUME ItemsAssumption == IsFiniteSet(Items)

ASSUME FlowsAssumption ==
  /\ Flows # {}
  /\ Bands \subseteq Nat
  /\ PriorityOf \in [Flows -> Bands]
  /\ DOMAIN FlowOf = Items
  /\ NoItem \notin Items /\ NoFlow \notin Flows

ASSUME SizesAssumption ==
  /\ SizeOf \in [Items -> Nat]
  /\ TTLOf \in [Items -> Nat]
  /\ ShardMaxBytes \in Nat
  /\ BandMaxBytes \in [Bands -> Nat]
  /\ ChanCap \in Nat \ {0}
  /\ MaxTime \in Nat

\* All the requests together fit in the 64-bit address space, and a Go int
\* can count them.
ASSUME WordAssumption ==
  /\ Word \in Nat \ {0}
  /\ Bytes(Items) < Word
  /\ Cardinality(Items) < Word \div 2

VARIABLES
  clock,        \* the time, as sp.clock.Now() returns it
  ctxErr,       \* requests whose context has been cancelled
  caller,       \* where the goroutine that called Enqueue(i) is
  enqueueTime,  \* flowItem.enqueueTime
  outcome,      \* flowItem.outcome; NotYet while the done channel is open
  enqueueChan,  \* contents of the buffered channel
  chanClosed,   \* close(sp.enqueueChan) has run
  panicked,     \* a send on the closed channel has killed the process
  runCtxDone,   \* the context given to Run is cancelled
  isShuttingDown,
  pc,           \* where the Run goroutine is
  cur,          \* the item Run works on
  flow,         \* the queue SelectQueue returned
  todo,         \* priority levels dispatchCycle has still to visit
  skipped,      \* history: bands this cycle gave up although they may hold items
  queue,        \* queue[f]: the items linked in f's list
  position,     \* position of an item in its list, given by PushBack
  pushed,       \* number of PushBack calls so far
  queueStats,   \* managedQueue.len and .byteSize, per flow
  shardStats,   \* registryShard.totalLen and .totalByteSize
  bandStats,    \* priorityBand.len and .byteSize, per priority level
  cleanupPC,    \* where the runExpiryCleanup goroutine is
  tick,         \* the `now` of the current cleanup scan
  stage,        \* stage[p][f]: pool p's work on queue f
  hold          \* hold[p][f]: items pool p has taken out of queue f

envVars   == <<clock, ctxErr>>
itemVars  == <<enqueueTime, outcome>>
chanVars  == <<enqueueChan, chanClosed>>
stopVars  == <<runCtxDone, isShuttingDown>>
runVars   == <<pc, cur, flow, todo, skipped>>
listVars  == <<queue, position, pushed>>
statVars  == <<queueStats, shardStats, bandStats>>
poolVars  == <<stage, hold>>
cleanVars == <<cleanupPC, tick>>

vars == <<envVars, itemVars, caller, chanVars, panicked, stopVars, runVars,
          listVars, statVars, poolVars, cleanVars>>

-----------------------------------------------------------------------------
(* Helpers *)

\* atomic.Uint64.Load of a counter.  The variables keep the unreduced value;
\* adding modulo 2^64 and reducing on every read give the same results.
Load(counter) == counter % Word

\* counter.Add(uint64(delta)) on the pair of counters of one level.
AddStats(s, lenDelta, byteDelta) ==
  [len |-> s.len + lenDelta, bytes |-> s.bytes + byteDelta]

ZeroStats == [len |-> 0, bytes |-> 0]

\* The element at the front of f's list.
PeekHead(f) == CHOOSE i \in queue[f] : \A j \in queue[f] : position[i] <= position[j]

FlowsAt(b) == {f \in Flows : PriorityOf[f] = b}

\* flowItem.finalize: sync.Once keeps the first outcome.
Finalize(i, o) ==
  outcome' = [outcome EXCEPT ![i] = IF @ = NotYet THEN o ELSE @]

\* Mutant: the request's context is not looked at.
CheckItemExpiryTTLOnly(i, now) ==
  CASE outcome[i] # NotYet -> outcome[i]
    [] /\ outcome[i] = NotYet
       /\ TTLOf[i] > 0 /\ now - enqueueTime[i] > TTLOf[i] -> "EvictedTTL"
    [] OTHER -> NotYet

\* The outcome checkItemExpiry reports; NotYet when the item is not expired.
CheckItemExpiry(i, now) ==
  CASE outcome[i] # NotYet -> outcome[i]
    [] outcome[i] = NotYet /\ i \in ctxErr -> "EvictedContextCancelled"
    [] /\ outcome[i] = NotYet /\ i \notin ctxErr
       /\ TTLOf[i] > 0 /\ now - enqueueTime[i] > TTLOf[i] -> "EvictedTTL"
    [] OTHER -> NotYet

\* Mutant: a request that fills the shard exactly is turned down.
FitsShardStrict(i) ==
  \/ ShardMaxBytes = 0
  \/ (Load(shardStats.bytes) + SizeOf[i]) % Word < ShardMaxBytes

\* The two comparisons of hasCapacity, in uint64 arithmetic.
FitsShard(i) ==
  \/ ShardMaxBytes = 0
  \/ (Load(shardStats.bytes) + SizeOf[i]) % Word <= ShardMaxBytes

\* Mutant: the size of the new item is left out of the comparison.
FitsBandWithoutItem(i) ==
  LET b == PriorityOf[FlowOf[i]]
  IN  Load(bandStats[b].bytes) <= BandMaxBytes[b]

FitsBand(i) ==
  LET b == PriorityOf[FlowOf[i]]
  IN  (Load(bandStats[b].bytes) + SizeOf[i]) % Word <= BandMaxBytes[b]

\* Mutant: off by one.
NonEmptyOffByOne(f) == Load(queueStats[f].len) \in 2 .. Word \div 2 - 1

\* managedQueue.Len() > 0, as a policy reads it: the counter converted to int.
NonEmpty(f) == Load(queueStats[f].len) \in 1 .. Word \div 2 - 1

-----------------------------------------------------------------------------
(* The environment: time, the requests' contexts, the processor's context *)

Tick ==
  /\ clock < MaxTime
  /\ clock' = clock + 1
  /\ UNCHANGED <<ctxErr, itemVars, caller, chanVars, panicked, stopVars,
                 runVars, listVars, statVars, poolVars, cleanVars>>

\* A client gives up on a request that is still in the shard's hands.
CancelRequest(i) ==
  /\ caller[i] # "idle"
  /\ outcome[i] = NotYet
  /\ i \notin ctxErr
  /\ ctxErr' = ctxErr \cup {i}
  /\ UNCHANGED <<clock, itemVars, caller, chanVars, panicked, stopVars,
                 runVars, listVars, statVars, poolVars, cleanVars>>

CancelRun ==
  /\ ~runCtxDone
  /\ runCtxDone' = TRUE
  /\ UNCHANGED <<envVars, itemVars, caller, chanVars, panicked,
                 isShuttingDown, runVars, listVars, statVars, poolVars,
                 cleanVars>>

-----------------------------------------------------------------------------
(* Callers of Enqueue *)

\* An item keeps the time of its creation; its outcome is not yet set.
NewItem(i) == enqueueTime' = [enqueueTime EXCEPT ![i] = clock]

\* NewItem, then the isShuttingDown check of Enqueue.
Submit(i) ==
  /\ caller[i] = "idle"
  /\ NewItem(i)
  /\ \/ /\ isShuttingDown
        /\ Finalize(i, "RejectedOther")
        /\ caller' = [caller EXCEPT ![i] = "returned"]
     \/ /\ ~isShuttingDown
        /\ caller' = [caller EXCEPT ![i] = "sending"]
        /\ UNCHANGED outcome
  /\ UNCHANGED <<envVars, chanVars, panicked, stopVars, runVars, listVars,
                 statVars, poolVars, cleanVars>>

\* sp.enqueueChan <- item, once there is room in the buffer.
Send(i) ==
  /\ caller[i] = "sending"
  /\ ~chanClosed
  /\ Len(enqueueChan) < ChanCap
  /\ enqueueChan' = Append(enqueueChan, i)
  /\ caller' = [caller EXCEPT ![i] = "returned"]
  /\ UNCHANGED <<envVars, itemVars, chanClosed, panicked, stopVars, runVars,
                 listVars, statVars, poolVars, cleanVars>>

\* A send on a closed channel, blocked before the close or not, panics.
SendPanics(i) ==
  /\ caller[i] = "sending"
  /\ chanClosed
  /\ panicked' = TRUE
  /\ UNCHANGED <<envVars, itemVars, caller, chanVars, stopVars, runVars,
                 listVars, statVars, poolVars, cleanVars>>

-----------------------------------------------------------------------------
(* The Run goroutine: the select loop *)

\* Entering dispatchCycle.
BeginCycle ==
  /\ pc' = "band"
  /\ todo' = Bands
  /\ skipped' = {}
  /\ cur' = NoItem
  /\ flow' = NoFlow

\* Back at the top of the select loop.
ReturnToSelect ==
  /\ pc' = "select"
  /\ todo' = {}
  /\ skipped' = {}
  /\ cur' = NoItem
  /\ flow' = NoFlow

Receive ==
  /\ pc = "select"
  /\ enqueueChan # <<>>
  /\ cur' = Head(enqueueChan)
  /\ enqueueChan' = Tail(enqueueChan)
  /\ pc' = "lookup"
  /\ UNCHANGED <<envVars, itemVars, caller, chanClosed, panicked, stopVars,
                 flow, todo, skipped, listVars, statVars, poolVars, cleanVars>>

\* The default case: neither the context nor the channel is ready.
DefaultDispatch ==
  /\ pc = "select"
  /\ ~runCtxDone
  /\ enqueueChan = <<>>
  /\ BeginCycle
  /\ UNCHANGED <<envVars, itemVars, caller, chanVars, panicked, stopVars,
                 listVars, statVars, poolVars, cleanVars>>

-----------------------------------------------------------------------------
(* The Run goroutine: enqueue *)

\* enqueue rejects the item in hand; Run goes on to dispatchCycle.
Reject(o) ==
  /\ Finalize(cur, o)
  /\ BeginCycle

\* ManagedQueue and PriorityBandAccessor find the item's flow and band.
ManagedQueue(i) == FlowOf[i] \in Flows

\* Mutant: the error of ManagedQueue is ignored.
EnqueueLookupUnchecked ==
  /\ pc = "lookup"
  /\ pc' = IF SizeOf[cur] = 0 THEN "add" ELSE "capShard"
  /\ UNCHANGED <<outcome, cur, flow, todo, skipped>>
  /\ UNCHANGED <<envVars, enqueueTime, caller, chanVars, panicked, stopVars,
                 listVars, statVars, poolVars, cleanVars>>

\* The lookups, and the size-0 return of hasCapacity.
EnqueueLookup ==
  /\ pc = "lookup"
  /\ \/ ~ManagedQueue(cur) /\ Reject("RejectedOther")
     \/ /\ ManagedQueue(cur)
        /\ pc' = IF SizeOf[cur] = 0 THEN "add" ELSE "capShard"
        /\ UNCHANGED <<outcome, cur, flow, todo, skipped>>
  /\ UNCHANGED <<envVars, enqueueTime, caller, chanVars, panicked, stopVars,
                 listVars, statVars, poolVars, cleanVars>>

\* hasCapacity: the shard's total.
CapacityShard ==
  /\ pc = "capShard"
  /\ \/ ~FitsShard(cur) /\ Reject("RejectedCapacity")
     \/ /\ FitsShard(cur)
        /\ pc' = "capBand"
        /\ UNCHANGED <<outcome, cur, flow, todo, skipped>>
  /\ UNCHANGED <<envVars, enqueueTime, caller, chanVars, panicked, stopVars,
                 listVars, statVars, poolVars, cleanVars>>

\* hasCapacity: the band's total, loaded after the shard's.
CapacityBand ==
  /\ pc = "capBand"
  /\ \/ ~FitsBand(cur) /\ Reject("RejectedCapacity")
     \/ /\ FitsBand(cur)
        /\ pc' = "add"
        /\ UNCHANGED <<outcome, cur, flow, todo, skipped>>
  /\ UNCHANGED <<envVars, enqueueTime, caller, chanVars, panicked, stopVars,
                 listVars, statVars, poolVars, cleanVars>>

\* listQueue.Add: at the back.
PushBack(i) ==
  /\ queue' = [queue EXCEPT ![FlowOf[i]] = @ \cup {i}]
  /\ position' = [position EXCEPT ![i] = pushed]
  /\ pushed' = pushed + 1

\* managedQ.Add up to the unlock of the list, unless the item is finalized.
EnqueueAdd ==
  /\ pc = "add"
  /\ IF outcome[cur] # NotYet
     THEN BeginCycle /\ UNCHANGED listVars
     ELSE /\ PushBack(cur)
          /\ flow' = FlowOf[cur]
          /\ pc' = "addQueue"
          /\ UNCHANGED <<cur, todo, skipped>>
  /\ UNCHANGED <<envVars, itemVars, caller, chanVars, panicked, stopVars,
                 statVars, poolVars, cleanVars>>

-----------------------------------------------------------------------------
(* reconcileStats, in the order of the counters: queue, shard, band *)

\* mq.len, mq.byteSize
ReconcileQueue(f, l, d) ==
  /\ queueStats' = [queueStats EXCEPT ![f] = AddStats(@, l, d)]
  /\ UNCHANGED <<shardStats, bandStats>>

\* s.totalLen, s.totalByteSize
ReconcileShard(l, d) ==
  /\ shardStats' = AddStats(shardStats, l, d)
  /\ UNCHANGED <<queueStats, bandStats>>

\* Mutant: the band's counters are forgotten.
ReconcileBandForgotten(f, l, d) == UNCHANGED statVars

\* band.len, band.byteSize
ReconcileBand(f, l, d) ==
  /\ bandStats' = [bandStats EXCEPT ![PriorityOf[f]] = AddStats(@, l, d)]
  /\ UNCHANGED <<queueStats, shardStats>>

\* Run's own reconciliations: +1 after Add, -1 after Remove.
RunReconcile ==
  /\ \/ /\ pc = "addQueue" /\ ReconcileQueue(flow, 1, SizeOf[cur])
        /\ pc' = "addShard" /\ UNCHANGED <<cur, flow, todo, skipped>>
     \/ /\ pc = "addShard" /\ ReconcileShard(1, SizeOf[cur])
        /\ pc' = "addBand" /\ UNCHANGED <<cur, flow, todo, skipped>>
     \/ /\ pc = "addBand" /\ ReconcileBand(flow, 1, SizeOf[cur])
        /\ BeginCycle
     \/ /\ pc = "remQueue" /\ ReconcileQueue(flow, -1, -SizeOf[cur])
        /\ pc' = "remShard" /\ UNCHANGED <<cur, flow, todo, skipped>>
     \/ /\ pc = "remShard" /\ ReconcileShard(-1, -SizeOf[cur])
        /\ pc' = "remBand" /\ UNCHANGED <<cur, flow, todo, skipped>>
     \/ /\ pc = "remBand" /\ ReconcileBand(flow, -1, -SizeOf[cur])
        /\ pc' = "settle" /\ UNCHANGED <<cur, flow, todo, skipped>>
  /\ UNCHANGED <<envVars, itemVars, caller, chanVars, panicked, stopVars,
                 listVars, poolVars, cleanVars>>

-----------------------------------------------------------------------------
(* The Run goroutine: dispatchCycle *)

\* Mutant: the levels in descending order.
LevelDescending == CHOOSE b \in todo : \A c \in todo : b >= c

\* The level the loop over AllOrderedPriorityLevels is at.
Level == CHOOSE b \in todo : \A c \in todo : b <= c

\* `continue` to the next level; gaveUp when the band may still hold items.
NextLevel(gaveUp) ==
  /\ todo' = todo \ {Level}
  /\ skipped' = IF gaveUp THEN skipped \cup {Level} ELSE skipped
  /\ pc' = "band"
  /\ cur' = NoItem
  /\ flow' = NoFlow

\* dispatchFilter: the saturation detector may pause the whole cycle.
PauseCycle ==
  /\ pc = "band"
  /\ todo # {}
  /\ ReturnToSelect
  /\ UNCHANGED <<envVars, itemVars, caller, chanVars, panicked, stopVars,
                 listVars, statVars, poolVars, cleanVars>>

\* All levels visited, nothing dispatched.
EndCycle ==
  /\ pc = "band"
  /\ todo = {}
  /\ ReturnToSelect
  /\ UNCHANGED <<envVars, itemVars, caller, chanVars, panicked, stopVars,
                 listVars, statVars, poolVars, cleanVars>>

\* The saturation detector lets the cycle go on: the inter-flow policy picks a
\* queue whose length it reads as positive, or none when there is none.
SelectQueue ==
  /\ pc = "band"
  /\ todo # {}
  /\ \/ /\ \A f \in FlowsAt(Level) : ~NonEmpty(f)
        /\ NextLevel(FALSE)
     \/ \E f \in FlowsAt(Level) :
          /\ NonEmpty(f)
          /\ flow' = f
          /\ pc' = "peek"
          /\ UNCHANGED <<cur, todo, skipped>>
  /\ UNCHANGED <<envVars, itemVars, caller, chanVars, panicked, stopVars,
                 listVars, statVars, poolVars, cleanVars>>

\* The intra-flow policy peeks the head; the queue may have been emptied since.
SelectItem ==
  /\ pc = "peek"
  /\ \/ queue[flow] = {} /\ NextLevel(TRUE)
     \/ /\ queue[flow] # {}
        /\ cur' = PeekHead(flow)
        /\ pc' = "remove"
        /\ UNCHANGED <<flow, todo, skipped>>
  /\ UNCHANGED <<envVars, itemVars, caller, chanVars, panicked, stopVars,
                 listVars, statVars, poolVars, cleanVars>>

\* listQueue.Remove of a valid handle: the element is unlinked.
Unlink(i, f) == queue' = [queue EXCEPT ![f] = @ \ {i}]

\* Mutant: the error of managedQ.Remove is ignored.
RemoveItemUnchecked ==
  /\ pc = "remove"
  /\ Unlink(cur, flow)
  /\ pc' = "remQueue"
  /\ UNCHANGED <<cur, flow, todo, skipped>>
  /\ UNCHANGED <<envVars, itemVars, caller, chanVars, panicked, stopVars,
                 position, pushed, statVars, poolVars, cleanVars>>

\* managedQ.Remove(handle): fails when the cleanup loop took the item first.
RemoveItem ==
  /\ pc = "remove"
  /\ \/ cur \notin queue[flow] /\ NextLevel(TRUE) /\ UNCHANGED queue
     \/ /\ cur \in queue[flow]
        /\ Unlink(cur, flow)
        /\ pc' = "remQueue"
        /\ UNCHANGED <<cur, flow, todo, skipped>>
  /\ UNCHANGED <<envVars, itemVars, caller, chanVars, panicked, stopVars,
                 position, pushed, statVars, poolVars, cleanVars>>

\* The last expiry check, then finalize.
SettleItem ==
  /\ pc = "settle"
  /\ LET o == CheckItemExpiry(cur, clock)
     IN  \/ o # NotYet /\ Finalize(cur, o) /\ NextLevel(TRUE)
         \/ /\ o = NotYet
            /\ Finalize(cur, "Dispatched")
            /\ ReturnToSelect
  /\ UNCHANGED <<envVars, enqueueTime, caller, chanVars, panicked, stopVars,
                 listVars, statVars, poolVars, cleanVars>>

-----------------------------------------------------------------------------
(* The Run goroutine: shutdown *)

BeginShutdown ==
  /\ pc = "select"
  /\ runCtxDone
  /\ isShuttingDown' = TRUE
  /\ pc' = "drain"
  /\ UNCHANGED <<envVars, itemVars, caller, chanVars, panicked, runCtxDone,
                 cur, flow, todo, skipped, listVars, statVars, poolVars,
                 cleanVars>>

\* One round of DrainLoop: reject what is in the channel, or leave when empty.
DrainChannel ==
  /\ pc = "drain"
  /\ \/ /\ enqueueChan # <<>>
        /\ Finalize(Head(enqueueChan), "RejectedOther")
        /\ enqueueChan' = Tail(enqueueChan)
        /\ UNCHANGED pc
     \/ /\ enqueueChan = <<>>
        /\ pc' = "close"
        /\ UNCHANGED <<outcome, enqueueChan>>
  /\ UNCHANGED <<envVars, enqueueTime, caller, chanClosed, panicked, stopVars,
                 cur, flow, todo, skipped, listVars, statVars, poolVars,
                 cleanVars>>

\* close(sp.enqueueChan), then evictAll hands every queue to its workers.
CloseChannel ==
  /\ pc = "close"
  /\ chanClosed' = TRUE
  /\ pc' = "evictAll"
  /\ stage' = [stage EXCEPT !["evict"] = [f \in Flows |-> "scan"]]
  /\ UNCHANGED <<envVars, itemVars, caller, enqueueChan, panicked, stopVars,
                 cur, flow, todo, skipped, listVars, statVars, hold, cleanVars>>

Idle(p) == \A f \in Flows : stage[p][f] = "idle"

\* evictAll's workers are done; then sp.wg.Wait() on the cleanup goroutine.
FinishShutdown ==
  /\ \/ pc = "evictAll" /\ Idle("evict") /\ pc' = "wgWait"
     \/ pc = "wgWait" /\ cleanupPC = "exited" /\ pc' = "exited"
  /\ UNCHANGED <<envVars, itemVars, caller, chanVars, panicked, stopVars,
                 cur, flow, todo, skipped, listVars, statVars, poolVars,
                 cleanVars>>

-----------------------------------------------------------------------------
(* The expiry cleanup goroutine *)

\* now := <-ticker.C: a later tick than the last one, which may have waited
\* in the ticker's buffer.
CleanupTick ==
  /\ cleanupPC = "select"
  /\ \E t \in tick .. clock : (t > tick \/ t = clock) /\ tick' = t
  /\ cleanupPC' = "scan"
  /\ stage' = [stage EXCEPT !["cleanup"] = [f \in Flows |-> "scan"]]
  /\ UNCHANGED <<envVars, itemVars, caller, chanVars, panicked, stopVars,
                 runVars, listVars, statVars, hold>>

CleanupScanned ==
  /\ cleanupPC = "scan"
  /\ Idle("cleanup")
  /\ cleanupPC' = "select"
  /\ UNCHANGED <<envVars, itemVars, caller, chanVars, panicked, stopVars,
                 runVars, listVars, statVars, poolVars, tick>>

\* Mutant: the cleanup goroutine does not watch the context.
CleanupExitNever == FALSE /\ UNCHANGED vars

CleanupExit ==
  /\ cleanupPC = "select"
  /\ runCtxDone
  /\ cleanupPC' = "exited"
  /\ UNCHANGED <<envVars, itemVars, caller, chanVars, panicked, stopVars,
                 runVars, listVars, statVars, poolVars, tick>>

-----------------------------------------------------------------------------
(* The workers of processAllQueuesConcurrently, for cleanupExpired (pool   *)
(* "cleanup") and evictAll (pool "evict").  A worker handles one queue.    *)

\* Mutant: Drain only takes what has expired.
RemovableExpired(p, f) ==
  {i \in queue[f] : CheckItemExpiry(i, IF p = "evict" THEN clock ELSE tick) # NotYet}

\* What Cleanup(predicate) and Drain() take out of a queue.
Removable(p, f) ==
  IF p = "evict" THEN queue[f]
  ELSE {i \in queue[f] : CheckItemExpiry(i, tick) # NotYet}

\* The outcome the pool gives an item it removed.
PoolOutcome(p, i) ==
  IF p = "evict" THEN "EvictedOther" ELSE CheckItemExpiry(i, tick)

WorkerScan(p, f) ==
  /\ stage[p][f] = "scan"
  /\ LET R == Removable(p, f)
     IN  /\ hold' = [hold EXCEPT ![p][f] = R]
         /\ queue' = [queue EXCEPT ![f] = @ \ R]
         /\ stage' = [stage EXCEPT ![p][f] = IF R = {} THEN "idle" ELSE "recQueue"]
  /\ UNCHANGED <<envVars, itemVars, caller, chanVars, panicked, stopVars,
                 runVars, position, pushed, statVars, cleanVars>>

WorkerReconcile(p, f) ==
  /\ LET l == -Cardinality(hold[p][f])
         d == -Bytes(hold[p][f])
     IN  \/ /\ stage[p][f] = "recQueue" /\ ReconcileQueue(f, l, d)
            /\ stage' = [stage EXCEPT ![p][f] = "recShard"]
         \/ /\ stage[p][f] = "recShard" /\ ReconcileShard(l, d)
            /\ stage' = [stage EXCEPT ![p][f] = "recBand"]
         \/ /\ stage[p][f] = "recBand" /\ ReconcileBand(f, l, d)
            /\ stage' = [stage EXCEPT ![p][f] = "finalize"]
  /\ UNCHANGED <<envVars, itemVars, caller, chanVars, panicked, stopVars,
                 runVars, listVars, hold, cleanVars>>

\* finalizeItems over what the worker removed.
WorkerFinalize(p, f) ==
  /\ stage[p][f] = "finalize"
  /\ outcome' = [i \in Items |->
                   IF i \in hold[p][f] /\ outcome[i] = NotYet
                   THEN PoolOutcome(p, i) ELSE outcome[i]]
  /\ hold' = [hold EXCEPT ![p][f] = {}]
  /\ stage' = [stage EXCEPT ![p][f] = "idle"]
  /\ UNCHANGED <<envVars, enqueueTime, caller, chanVars, panicked, stopVars,
                 runVars, listVars, statVars, cleanVars>>

-----------------------------------------------------------------------------
Init ==
  /\ clock = 0
  /\ ctxErr = {}
  /\ caller = [i \in Items |-> "idle"]
  /\ enqueueTime = [i \in Items |-> 0]
  /\ outcome = [i \in Items |-> NotYet]
  /\ enqueueChan = <<>>
  /\ chanClosed = FALSE
  /\ panicked = FALSE
  /\ runCtxDone = FALSE
  /\ isShuttingDown = FALSE
  /\ pc = "select"
  /\ cur = NoItem
  /\ flow = NoFlow
  /\ todo = {}
  /\ skipped = {}
  /\ queue = [f \in Flows |-> {}]
  /\ position = [i \in Items |-> 0]
  /\ pushed = 0
  /\ queueStats = [f \in Flows |-> ZeroStats]
  /\ shardStats = ZeroStats
  /\ bandStats = [b \in Bands |-> ZeroStats]
  /\ cleanupPC = "select"
  /\ tick = 0
  /\ stage = [p \in Pools |-> [f \in Flows |-> "idle"]]
  /\ hold = [p \in Pools |-> [f \in Flows |-> {}]]

RunStep ==
  \/ Receive \/ DefaultDispatch \/ EnqueueLookup \/ CapacityShard
  \/ CapacityBand \/ EnqueueAdd \/ RunReconcile \/ PauseCycle
  \/ EndCycle \/ SelectQueue \/ SelectItem \/ RemoveItem \/ SettleItem \/ BeginShutdown \/ DrainChannel
  \/ CloseChannel \/ FinishShutdown

CleanupStep == CleanupTick \/ CleanupScanned \/ CleanupExit

WorkerStep(p, f) == WorkerScan(p, f) \/ WorkerReconcile(p, f) \/ WorkerFinalize(p, f)

CallerStep(i) == Submit(i) \/ Send(i) \/ SendPanics(i)

Env == Tick \/ CancelRun \/ \E i \in Items : CancelRequest(i)

\* After Run has returned, or the process has died, nothing need happen.
Terminated ==
  /\ panicked \/ pc = "exited"
  /\ UNCHANGED vars

Next ==
  \/ /\ ~panicked
     /\ \/ Env
        \/ \E i \in Items : CallerStep(i)
        \/ RunStep
        \/ CleanupStep
        \/ \E p \in Pools, f \in Flows : WorkerStep(p, f)
  \/ Terminated

Spec == Init /\ [][Next]_vars

-----------------------------------------------------------------------------
(* Fairness: the Go scheduler runs every goroutine that can run, and a     *)
(* select with several ready cases picks one at random, so a case that is  *)
(* ready again and again is taken.  Clients, the clock and the             *)
(* cancellation of contexts promise nothing.                               *)

Fairness ==
  /\ WF_vars(~panicked /\ RunStep)
  /\ SF_vars(~panicked /\ BeginShutdown)
  /\ WF_vars(~panicked /\ CleanupStep)
  /\ SF_vars(~panicked /\ CleanupExit)
  /\ \A p \in Pools, f \in Flows : WF_vars(~panicked /\ WorkerStep(p, f))
  /\ \A i \in Items : WF_vars(~panicked /\ (Send(i) \/ SendPanics(i)))

FairSpec == Spec /\ Fairness

\* A detector that is not saturated for ever at any level of the cycle.
NotAlwaysSaturated ==
  \A b \in Bands : SF_vars(~panicked /\ todo # {} /\ Level = b /\ SelectQueue)

-----------------------------------------------------------------------------
(* Properties *)

Stats == [len : Int, bytes : Int]

RunPCs == {"select", "lookup", "capShard", "capBand", "add", "addQueue",
           "addShard", "addBand", "band", "peek", "remove", "remQueue",
           "remShard", "remBand", "settle", "drain", "close", "evictAll",
           "wgWait", "exited"}

\* The program points inside a visit of a band, and those where Run has a
\* queue, and a request, in scope.
Dispatching == {"peek", "remove", "remQueue", "remShard", "remBand", "settle"}
UsesFlow == Dispatching \cup {"addQueue", "addShard", "addBand"}
UsesItem == (UsesFlow \ {"peek"}) \cup {"lookup", "capShard", "capBand", "add"}

Stages == {"idle", "scan", "recQueue", "recShard", "recBand", "finalize"}

EnvTypes ==
  /\ clock \in Nat
  /\ ctxErr \in SUBSET Items
  /\ runCtxDone \in BOOLEAN /\ isShuttingDown \in BOOLEAN
  /\ panicked \in BOOLEAN

CallerTypes ==
  /\ caller \in [Items -> {"idle", "sending", "returned"}]
  /\ enqueueTime \in [Items -> Nat]
  /\ enqueueChan \in Seq(Items)
  /\ chanClosed \in BOOLEAN

OutcomeTypes == outcome \in [Items -> Outcomes]

RunTypes ==
  /\ pc \in RunPCs
  /\ cur \in Items \cup {NoItem} /\ flow \in Flows \cup {NoFlow}
  /\ pc \in UsesItem => cur \in Items
  /\ pc \in UsesFlow => flow \in Flows
  /\ pc \in {"capShard", "capBand", "add"} => FlowOf[cur] \in Flows
  /\ pc \in Dispatching => todo # {}
  /\ todo \in SUBSET Bands /\ skipped \in SUBSET Bands

ListTypes ==
  /\ queue \in [Flows -> SUBSET Items]
  /\ position \in [Items -> Nat] /\ pushed \in Nat

StatTypes ==
  /\ queueStats \in [Flows -> Stats]
  /\ shardStats \in Stats
  /\ bandStats \in [Bands -> Stats]

PoolTypes ==
  /\ stage \in [Pools -> [Flows -> Stages]]
  /\ hold \in [Pools -> [Flows -> SUBSET Items]]
  /\ cleanupPC \in {"select", "scan", "exited"}
  /\ tick \in Nat

\* The type invariant of the shard's state, with the program points at which
\* Run has an item, a registered flow and a band in hand.
TypeOK ==
  /\ EnvTypes /\ CallerTypes /\ OutcomeTypes /\ RunTypes
  /\ ListTypes /\ StatTypes /\ PoolTypes

\* Run holds the item in `cur` outside the channel and the queues.
RunOwns == pc \in {"lookup", "capShard", "capBand", "add", "remQueue",
                   "remShard", "remBand", "settle"}

Queued == UNION {queue[f] : f \in Flows}

\* The places where a goroutine that will finalize item i can find it.
Places(i) ==
  {<<"caller">> : x \in {y \in {i} : caller[y] = "sending"}}
  \cup {<<"channel", n>> : n \in {m \in DOMAIN enqueueChan : enqueueChan[m] = i}}
  \cup {<<"run">> : x \in {y \in {i} : RunOwns /\ cur = y}}
  \cup {<<"queue", f>> : f \in {g \in Flows : i \in queue[g]}}
  \cup {<<p, f>> : p \in {q \in Pools : \E f \in Flows : i \in hold[q][f]},
                   f \in {g \in Flows : \E q \in Pools : i \in hold[q][g]}}

\* An item that has been submitted and has no outcome is in exactly one
\* place, so exactly one goroutine is going to finalize it; a finalized item
\* is in none.  The removal from the list, not sync.Once, decides the race
\* between dispatchItem, cleanupExpired and evictAll.
SoleOwner ==
  \A i \in Items :
    IF caller[i] = "idle" \/ outcome[i] # NotYet
    THEN Places(i) = {}
    ELSE Cardinality(Places(i)) = 1

\* Claim 1 of the ShardProcessor comment: the capacity check in enqueue,
\* made against counters that lag behind the queues, never lets the bytes
\* in the queues exceed the shard's or a band's capacity.
CapacitySafety ==
  /\ ShardMaxBytes > 0 => Bytes(Queued) <= ShardMaxBytes
  /\ \A b \in Bands : Bytes(UNION {queue[f] : f \in FlowsAt(b)}) <= BandMaxBytes[b]

\* Whenever Run is about to read a counter, it has not wrapped below zero
\* and reports at least what the queues hold, although the cleanup workers
\* subtract before Run's own addition may have happened.
CountersReadable ==
  /\ pc \in {"capShard", "capBand", "band"} =>
       /\ shardStats.bytes \in Bytes(Queued) .. Word - 1
       /\ \A b \in Bands :
            bandStats[b].bytes \in Bytes(UNION {queue[f] : f \in FlowsAt(b)}) .. Word - 1
       /\ \A f \in Flows :
            queueStats[f].len \in Cardinality(queue[f]) .. Word - 1

\* Statistical integrity: when no reconciliation is under way the counters
\* of the queues, of the bands and of the shard are exactly the contents.
StatsExact ==
  (/\ pc \notin {"addQueue", "addShard", "addBand", "remQueue", "remShard", "remBand"}
   /\ \A p \in Pools, f \in Flows : stage[p][f] \in {"idle", "scan", "finalize"})
  => /\ \A f \in Flows : queueStats[f] = [len |-> Cardinality(queue[f]), bytes |-> Bytes(queue[f])]
     /\ \A b \in Bands :
          LET S == UNION {queue[f] : f \in FlowsAt(b)}
          IN  bandStats[b] = [len |-> Cardinality(S), bytes |-> Bytes(S)]
     /\ shardStats = [len |-> Cardinality(Queued), bytes |-> Bytes(Queued)]

\* Strict priority: when dispatchCycle is about to settle an item, every
\* band above it is empty, or was given up in this same cycle because its
\* selected item was gone or had expired.
StrictPriority ==
  pc = "settle" =>
    \A f \in Flows : PriorityOf[f] < PriorityOf[flow]
                      => queue[f] = {} \/ PriorityOf[f] \in skipped

\* Within a flow, dispatch follows the order in which Run accepted the
\* items: nothing older is left behind in the list.
FlowFIFO ==
  pc \in {"remQueue", "remShard", "remBand", "settle"} =>
    \A j \in queue[flow] : position[cur] < position[j]

\* runExpiryCleanup is "the ultimate guarantor of correctness": a queued
\* request whose context is cancelled or whose TTL is over gets its outcome,
\* even while the saturation detector pauses every dispatch cycle.
DeadEventuallyFinalized ==
  \A i \in Items :
    (/\ i \in Queued
     /\ i \in ctxErr \/ (TTLOf[i] > 0 /\ clock - enqueueTime[i] > TTLOf[i]))
    ~> (outcome[i] # NotYet \/ panicked)

\* The queues dispatchCycle may serve before that of request i: those of the
\* bands above, and the other queues of its own band, among which the
\* inter-flow policy chooses.
Rivals(i) == {f \in Flows \ {FlowOf[i]} : PriorityOf[f] <= PriorityOf[FlowOf[i]]}

\* A queue that may be served first holds requests.
Overtaken(i) == FlowOf[i] \in Flows /\ \E f \in Rivals(i) : queue[f] # {}

\* Strict priority starves a lower band for as long as a higher one is kept
\* busy, and nothing else does: with a detector that opens again and again, a
\* request handed to Enqueue gets an outcome unless a queue that may be served
\* before its own is non-empty again and again, or Run is stopped.
HandedInEventuallyFinalized ==
  NotAlwaysSaturated =>
    \A i \in Items :
      <>[](~Overtaken(i)) =>
        (caller[i] = "returned" ~> (outcome[i] # NotYet \/ runCtxDone))

\* Cancelling Run's context makes it return: the drain, the eviction workers
\* and the wait for the cleanup goroutine all end, unless a sender panics.
ShutdownCompletes == runCtxDone ~> (pc = "exited" \/ panicked)

\* Everything that is in a queue when the context is cancelled is finalized.
QueuedFinalizedAtShutdown ==
  \A i \in Items :
    (i \in Queued /\ runCtxDone) ~> (outcome[i] # NotYet \/ panicked)

-----------------------------------------------------------------------------
(* The parts of the inductive invariant *)

Elements(s) == {s[n] : n \in DOMAIN s}

NoRepeats(s) == \A m, n \in DOMAIN s : s[m] = s[n] => m = n

ChanItems == Elements(enqueueChan)

HeldItems == {i \in Items : \E p \in Pools, f \in Flows : i \in hold[p][f]}

RunItem(i) == RunOwns /\ cur = i

\* Run has taken the item out of its list and not yet settled it.
Served(i) == pc \in {"remQueue", "remShard", "remBand", "settle"} /\ cur = i

\* An item is only ever in the queue, or in the hands of a worker, of its own
\* flow.
FlowsKept ==
  /\ \A f \in Flows : \A i \in queue[f] : FlowOf[i] = f
  /\ \A p \in Pools, f \in Flows : \A i \in hold[p][f] : FlowOf[i] = f
  /\ pc \in UsesFlow \ {"peek"} => FlowOf[cur] = flow

\* A worker holds items only between its scan and its finalizations, and the
\* workers of a pool run only while the goroutine that started them waits.
PoolsKept ==
  /\ \A p \in Pools, f \in Flows : stage[p][f] \in {"idle", "scan"} => hold[p][f] = {}
  /\ cleanupPC # "scan" => Idle("cleanup")
  /\ pc # "evictAll" => Idle("evict")
  /\ chanClosed <=> pc \in {"evictAll", "wgWait", "exited"}

\* No item is in two places.
Apart ==
  /\ NoRepeats(enqueueChan)
  /\ \A f \in Flows : hold["cleanup"][f] \cap hold["evict"][f] = {}
  /\ \A i \in ChanItems : ~RunItem(i) /\ i \notin Queued /\ i \notin HeldItems
  /\ \A i \in Queued : ~RunItem(i) /\ i \notin HeldItems
  /\ \A i \in HeldItems : ~RunItem(i)

\* What is in a place has been handed over and has no outcome yet, and
\* neither has what has not been handed over.
Pending ==
  \A i \in Items :
    /\ (i \in ChanItems \/ RunItem(i) \/ i \in Queued \/ i \in HeldItems)
       => caller[i] = "returned" /\ outcome[i] = NotYet
    /\ caller[i] # "returned" => outcome[i] = NotYet

(***************************************************************************)
(* What the counters stand for.  Run and the workers bring the counters of *)
(* the queue, of the shard and of the band up to date one after the other, *)
(* after they have changed the list, so what a counter owes depends on its *)
(* level.                                                                  *)
(***************************************************************************)
Levels == {"queue", "shard", "band"}

\* Removed from the lists and not yet subtracted at the level.
Taken(level) ==
  {i \in Items :
     \/ \E p \in Pools, f \in Flows :
          /\ i \in hold[p][f]
          /\ \/ stage[p][f] = "recQueue"
             \/ stage[p][f] = "recShard" /\ level # "queue"
             \/ stage[p][f] = "recBand" /\ level = "band"
     \/ /\ i = cur
        /\ \/ pc = "remQueue"
           \/ pc = "remShard" /\ level # "queue"
           \/ pc = "remBand" /\ level = "band"}

\* Run has put `cur` in a list and not yet added it at the level.
Owes(level) ==
  \/ pc = "addQueue"
  \/ pc = "addShard" /\ level # "queue"
  \/ pc = "addBand" /\ level = "band"

\* The requests of the flows F that are queued, or taken and not subtracted.
Counted(level, F) == {i \in Queued \cup Taken(level) : FlowOf[i] \in F}

Amount(S) == [len |-> Cardinality(S), bytes |-> Bytes(S)]

\* The value of the counters of the flows F at the level.
Tally(level, F) ==
  IF Owes(level) /\ flow \in F
  THEN AddStats(Amount(Counted(level, F)), -1, -SizeOf[cur])
  ELSE Amount(Counted(level, F))

TalliesKept ==
  /\ \A f \in Flows : queueStats[f] = Tally("queue", {f})
  /\ shardStats = Tally("shard", Flows)
  /\ \A b \in Bands : bandStats[b] = Tally("band", FlowsAt(b))

\* Queued requests of one band.
QueuedAt(b) == {i \in Queued : FlowOf[i] \in FlowsAt(b)}

\* The capacity check still holds when the item is added.
ShardRoom ==
  ShardMaxBytes > 0 =>
    /\ Bytes(Queued) <= ShardMaxBytes
    /\ pc \in {"capBand", "add"} => Bytes(Queued) + SizeOf[cur] <= ShardMaxBytes

BandRoom ==
  \A b \in Bands :
    /\ Bytes(QueuedAt(b)) <= BandMaxBytes[b]
    /\ (pc = "add" /\ FlowOf[cur] \in FlowsAt(b)) =>
         Bytes(QueuedAt(b)) + SizeOf[cur] <= BandMaxBytes[b]

Inv ==
  /\ TypeOK /\ FlowsKept /\ PoolsKept /\ Apart /\ Pending
  /\ TalliesKept /\ ShardRoom /\ BandRoom

(***************************************************************************)
(* The parts behind SoleOwner, FlowFIFO and StrictPriority.                *)
(***************************************************************************)

\* A request that was handed over and has no outcome is somewhere.
Accounted ==
  \A i \in Items : caller[i] = "returned" /\ outcome[i] = NotYet
    => i \in ChanItems \/ RunItem(i) \/ i \in Queued \/ i \in HeldItems

\* What the cleanup workers have removed is expired until they finalize it,
\* although checkItemExpiry is evaluated again for the outcome.
HeldExpired ==
  \A f \in Flows : \A i \in hold["cleanup"][f] : CheckItemExpiry(i, tick) # NotYet

\* The elements of the lists are in the order in which they were pushed.
PositionsKept ==
  \A i \in Queued :
    /\ position[i] < pushed
    /\ \A j \in Queued : position[i] = position[j] => i = j

\* Nothing in the list Run dispatches from is before the item it has picked.
HeadKept ==
  /\ pc = "remove" => \A j \in queue[flow] : position[cur] <= position[j]
  /\ pc \in {"remQueue", "remShard", "remBand", "settle"} =>
       \A j \in queue[flow] : position[cur] < position[j]

\* A band that dispatchCycle has passed is empty or was given up, and the
\* queue it dispatches from belongs to the band it is at.
LevelsKept ==
  /\ pc \in Dispatching \cup {"band"} =>
       \A f \in Flows : PriorityOf[f] \notin todo
                         => queue[f] = {} \/ PriorityOf[f] \in skipped
  /\ pc \in Dispatching => PriorityOf[flow] = Level

\* The flag that Enqueue reads is up exactly while Run is in shutdown.
StopKept ==
  isShuttingDown <=> pc \in {"drain", "close", "evictAll", "wgWait", "exited"}

OrderInv ==
  HeldExpired /\ Accounted /\ PositionsKept /\ HeadKept /\ LevelsKept /\ StopKept

-----------------------------------------------------------------------------
(* The shard as one queue *)

\* Where a request is in its life, whichever goroutine has it.
Phase ==
  LET waiting == Queued
      taken == HeldItems
      At(i) == CASE caller[i] # "returned" -> "outside"
                 [] caller[i] = "returned" /\ i \in waiting -> "queued"
                 [] caller[i] = "returned" /\ i \in taken -> "leaving"
                 [] caller[i] = "returned" /\ Served(i) -> "serving"
                 [] OTHER -> "handed"
  IN  [i \in Items |-> IF outcome[i] # NotYet THEN outcome[i] ELSE At(i)]

\* The order of the lists, without the positions.
Ahead ==
  {e \in Queued \X Queued : FlowOf[e[1]] = FlowOf[e[2]] /\ position[e[1]] < position[e[2]]}

Promise ==
  INSTANCE AdmissionQueue
    WITH phase <- Phase, ahead <- Ahead, cancelled <- ctxErr, stopping <- isShuttingDown

\* However the goroutines interleave, the shard behaves as one queue, and
\* every outcome is what outcomes.go says it is: a request that is rejected
\* never was in a queue, and for capacity only when the limits are met by what
\* waits and what is on its way out; a request is evicted only from a queue
\* and only for the reason that is given; it is dispatched from the front of
\* its flow, and not if its client has given up before the last check.
ImplementsAdmissionQueue == Promise!Spec

-----------------------------------------------------------------------------
(* What comments in processor.go promise and the code does not keep *)

\* shutdown: "Drain the channel BEFORE closing it. This prevents a panic from
\* any goroutine that is currently blocked trying to send to the channel."
NoSendPanic == ~panicked
=============================================================================
