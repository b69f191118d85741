# A TLA+ model of the inference gateway

The repository builds two Envoy external processors: the *endpoint picker*
(EPP, `cmd/epp`, `pkg/epp`), which decides which model server of an
InferencePool serves a request, and the *body-based router* (BBR, `cmd/bbr`,
`pkg/bbr`), which copies the model name from the body into a header. A Python
sidecar (`tools/dynamic-lora-sidecar`) keeps a model server's LoRA adapters in
line with a file. The modules in this directory model the parts of them that
keep state, and check and prove what makes those parts correct.

## 1. The system

| Part | State | Operations | Interacts with |
|---|---|---|---|
| Flow-control shard processor (`flowcontrol/controller/internal`) | a buffered channel, a shutdown flag, per item an outcome and a `sync.Once` | `Enqueue` (any goroutine), `Run` = `enqueue` + `dispatchCycle`, `runExpiryCleanup` with a worker pool, `shutdown` | queues and counters of the shard, saturation detector, policies |
| Registry shard, managed queues (`flowcontrol/registry`) | a list or heap per flow; atomic length and byte counters of the queue, the shard and the band | `Add`, `Remove`, `Cleanup`, `Drain`, `Stats` | called by the processor's goroutines at the same time |
| Queues (`framework/plugins/queue`) | FIFO list; max-min heap | the same, plus `PeekHead`, `PeekTail` | wrapped by managed queues |
| Policies (`framework/plugins/policies`) | round robin: the last selected flow | `SelectQueue`, `SelectItem` | read the queues' counters without locks |
| Ext-proc stream (`handlers`) | `RequestContext`: state, answers not sent yet; one body buffer | `Process` loop over Envoy's messages | director |
| Director (`requestcontrol`) | none | `HandleRequest`, `HandleResponse`, `GetRandomPod` | datastore, saturation detector, scheduler |
| Saturation detector | thresholds | `IsSaturated` | reads pod metrics pod by pod |
| Scheduler (`scheduling`) | cycle state per request | profiles: filters, scorers, picker | pod snapshots |
| Prefix indexer (`multi/prefix`) | LRU per pod, reverse map from hash to pods | `Add`, `Get`, eviction callback | scorer and `PreRequest` of concurrent requests |
| Datastore (`datastore`) | pool, objectives (under an RWMutex), pods (`sync.Map`) | `PoolSet`, `PoolGet`, `PodUpdateOrAddIfNotExist`, `PodDelete`, `podResyncAll`, `Clear`, `ObjectiveSet`/`Delete` | written by three reconcilers, read per request |
| Reconcilers (`controller`) | work queues | one `Reconcile` per watched kind, event filters | Kubernetes cache, datastore |
| Metrics refresh (`backend/metrics`) | one goroutine and one atomic snapshot per pod; a client shared by all | `startRefreshLoop`, `StopRefreshLoop`, `refreshMetrics`, gauge flush | started and stopped by the datastore; model servers |
| Data layer (`datalayer`) | sources and extractors, an endpoint's pointers and attributes, a collector per endpoint | `Register`, `AddExtractor`, `Start`, `Stop`, `Collect`, `Extract` | meant to replace the metrics refresh |
| Plugin state (`plugins`) | data and access time per request, in two `sync.Map`s | `Read`, `Write`, `Delete`, stale cleanup | plugins of one request |
| Configuration loader (`config/loader`) | the configuration, the plugin handle | `LoadConfig` | start-up |
| Processes (`cmd/epp`, `cmd/bbr`, `internal/runnable`) | flags, set-up step, two gRPC servers with a watcher each | `Run`, `GRPCServer`, health `Check` | manager, signals, kubelet |
| BBR stream (`pkg/bbr/handlers`) | streamed body, answers held back | `Process` loop | Envoy |
| LoRA sidecar | two threads, a status gauge | `reconcile` | configuration file, model server |

The hard behaviours: in flow control one goroutine adds to the queues while a
periodic scan and its workers remove from them, all of them update three levels of
counters *after* the queue operation and without a common lock, and shutdown
closes a channel that callers may be sending on. On the request path the store
changes between any two reads of one request, Envoy may answer by itself or end
the stream at any point, and request and response share a buffer. The datastore
mixes a lock with a lock-free map. Loops that scrape, collect, clean up or
reconcile run beside their users and are stopped from outside. `PROJECT.json`
lists the hazards, each at the line where it bites.

What makes each part correct:

* processor: capacity is never exceeded; a pending item has one owner, who
  finalizes it; strict priority between bands, first come first served within a
  flow; expired items are evicted even when dispatch is paused; shutdown ends;
* registry: counters equal the contents when nothing is in flight, and are never
  read while wrapped below zero;
* queues: the heap's head and tail are extreme elements after any sequence of
  operations; policies: a backlogged flow is served within one round;
* streams: every request gets the answers Envoy waits for, in its order and
  whole; metrics tell each stream's story once; admission and routing hold for
  what was read;
* scheduler: no pod is preferred to a better one; reverse map and LRUs agree;
* datastore: the pod map converges to the ready pods that match the pool's
  selector; every pod in it, and no other, has a refresh loop;
* scraping: metrics follow the servers, or show as stale; readers see whole objects;
* processes: neither live on without their servers nor report success falsely;
* sidecar: adapters and status follow the file.

## 2. Modules

### Flow control

`ShardProcessor` is the core: callers of `Enqueue`, the channel, the `Run`
goroutine, the cleanup goroutine, its workers, and the registry's lists and
counters.

| State | Code |
|---|---|
| `caller[i]`, `enqueueChan`, `chanClosed`, `panicked` | the goroutine in `Enqueue(i)`, the channel, its close, a send on the closed channel |
| `outcome[i]` | `flowItem.outcome`; `Finalize` is `sync.Once`: the first outcome stays |
| `pc`, `cur`, `flow`, `todo` | `Run`'s program point and locals; `todo` holds the priority levels the `for` of `dispatchCycle` has still to visit |
| `queue[f]`, `position`, `pushed` | the list of a flow: its elements, and the order in which `PushBack` put them there |
| `queueStats`, `shardStats`, `bandStats` | the atomic counters; stored unreduced and reduced modulo `Word` (2^64 in the code) on every read, which is the same as wrapping on every addition |
| `cleanupPC`, `tick` | the cleanup goroutine and the `now` of its scan |
| `stage[p][f]`, `hold[p][f]` | for pool p (the periodic cleanup, or `evictAll`) the worker on queue f: what it does, and the items it took out |
| `skipped` | history: bands given up in this cycle although they may hold items |

A step is what a goroutine does between two points at which another one can
see or change shared state: a list operation under its mutex, the counter
additions of one level, a channel operation, a `finalize`. So `managedQueue.Add`
is four steps (`EnqueueAdd`, then `RunReconcile` for queue, shard, band) and
`Cleanup` is `WorkerScan`, three `WorkerReconcile`, `WorkerFinalize`. The length
and byte counter of one level are added in one step; no reader reads both.
`SelectQueue` reads all the lengths of a band in one step: only workers change
them meanwhile, and only downwards, so a loop over them finds what one reading
at its end would.

Left to the environment: time, cancellation of request contexts and of `Run`'s
context, and the saturation detector (`PauseCycle` may stop a cycle at any
band). The inter-flow policy may choose any queue whose length it reads as
positive, which covers round robin and best head.

`AdmissionQueue` is what the outcomes in `types/outcomes.go` promise, with the shard as
one queue that requests enter and leave in single steps: rejected requests never were
in a queue, evicted ones were, and each outcome has its reason. It keeps a phase per
request, the order of the lists, who has given up and whether the shard stops; it has
no channel, no counters, no clock and no goroutines. `ImplementsAdmissionQueue` maps the shard to
it: the phase of a request follows from where it is, the order from the positions.

`MCShardProcessor` gives the constants small values. `ShardProcessorProofs` and
`ShardDispatchProofs` hold the proofs.

`MaxMinHeap` is the heap queue: the array, the index in each handle and the byte
count. Each method holds the queue's mutex from beginning to end and is one
action; the loops `up`, `down` and their variants are recursive operators with
the code's names on the pair of array and indices. `Spec` uses the whole
interface, `DispatchSpec` removes only what `PeekHead` returns, as the dispatch
loop does. `PriorityQueue` is the contract in the comments of
`framework/queue.go`, and `ImplementsSafeQueue` maps the heap to it.
Calls with a nil item or an invalid handle change nothing and are left out.

`RoundRobin` is the selection among the flows of one band. The search reads one
queue length per step while the cleanup's workers remove requests; the sort of
the band's slice of keys, which `FlowKeys` hands out uncopied, is a sequence of
exchanges of neighbours. The set of flows is fixed and not empty. `passed` is
history: how often a flow has been passed since its queue was last empty or its
turn came.

`RegistryConfig` is the start-up of the registry: validation and defaults band by
band, partitioning, `newShard`. The registry that calls them is not in this
commit; the order is the one their comments prescribe.

### The request path

`ExtProcServer` models streams from Envoy's first message to the end of
`Process`, with the director, the saturation detector and the metrics they
record. A stream's goroutine stops wherever it reads shared state or waits: at a
receive, at each read of the store (pool, objective, candidate pods, one pod's
metrics at a time in `CheckPod`), at the scheduler's choice and at the send. Envoy
sends the parts of a request and of its response in its protocol's order, may
answer by itself (a local reply) at any point of the request body, and may end or
break the stream; every send may fail. Bodies are lengths; `buffer` keeps how
many bytes of request and of response it holds, as both use one slice. Between
any two steps `ChangeStore` may change what the director reads.

`Scheduling` models concurrent scheduling cycles over one snapshot of pods: filters,
four scorers with clamping and weights (integers, the constant `One` is 1.0), pickers, and the
prefix plugin's index with the locks the code takes and releases. `hashPrompt`'s
`append` to a sub-slice is modelled by what it does: from the second block on, the
head of a block is overwritten before it is hashed.

`ConfigLoader` is `LoadConfig` from the decoded configuration to the scheduler
configuration; an iteration over a Go map takes any order.

### Cluster state and metrics

`Datastore` models the store, the three reconcilers and the goroutines that hang
off it. The API objects change and cause events; events pass the filters into
work queues; a reconciliation reads the cache and calls the store. `sync.RWMutex`
is modelled with its writer preference (a waiting writer keeps new readers out),
`sync.Map` operations are steps of their own outside the lock. `pms` holds every
`podMetrics` object ever made, so that a refresher nobody can reach any more shows.

`MetricsExtraction` holds what the EPP's scraper and the data layer's extractor
make of a page: which series is the latest, what missing families and labels mean,
how a specification is parsed. `PodMetrics` is the refresh loop around the first,
`DataLayer` the collector around the second, with the first running beside it for
comparison. `Endpoint` is the memory behind an endpoint: objects by address, the
atomic pointers to them, a collector that writes and readers that copy a field
per step. `PluginState` is the per-request plugin data in its two maps.

### Processes and tools

`EppStartup` is both programs from flags and environment to the exit status: the
set-up steps in order, each of which may fail, the two gRPC runnables with their
watchers and the manager's own runnables, graceful stop, first and second signal, the
readiness probe, and the panics that end the process at once: of the plugins' loader, of a
stream's handler, and of the two tickers whose interval is a flag. `BBRStream` is a stream of the
router in both modes. `LoraSidecar` is the sidecar's two threads, with a step per
read of the file and per request to the server.

### How components are put together

`ShardProcessor` replaces a policy by all the choices it may make, and takes
capacities as `RegistryConfig` produces them (a shard limit of 0 is no limit, a band
limit of 0 admits only empty requests). `ExtProcServer` contains the parts a request
passes through; what the reconcilers and scrapers do to the store is
`ChangeStore`, whose two sides are `Datastore` and `PodMetrics`. `DataLayer` and
`PodMetrics` both build on `MetricsExtraction`. `PriorityQueue` is the abstract
specification of the heap, `AdmissionQueue` that of the shard.

Three small modules put independent components side by side under variables of their
own, so that a run and a proof speak of the same definitions: `Scheduler` (the cycles of
`Scheduling`, and the assumptions about their inputs), `Configuration` (`ConfigLoader` and
`RegistryConfig`) and `Services` (`BBRStream`, `EppStartup` and `DataLayer`).

`MCComponents` and `MCServices` check several independent components in one run.
A behaviour chooses a component (`part`) and is a behaviour of that component
alone. In `MCComponents`, which has the invariants, all components are extended or instances over
variables of their own, and those that are not chosen stay in one initial state. In `MCServices`,
which has the temporal properties, `PluginState` is extended and the others are instances over
shared variables `v1`, `v2`, ... of which the unused ones stay 0. As `part` is constant,
the state space is the sum of the components' and not their product, and one fairness
condition on a disjunction of actions of different parts is one condition for each.
`MCServices` restates each component's fairness and its temporal properties with
`part` in every predicate. `MCServiceValues` has the instances both use.

## 3. Runs

Flow control: requests differ in flow, band, size and TTL; the values are chosen so
that each capacity limit, a flow without a queue, a request of size 0, two flows in
a band, two requests in a flow and a full channel (capacity 1) occur. `Word` is 16:
more than all requests together hold, as 2^64 is, and small enough that a counter
that goes below zero reads as a large number. Counters do go below zero in these
runs (a worker subtracts before Run has added), as do rejections, skipped bands and
lost races on `Remove`.

| Run | Question | Instance |
|---|---|---|
| `shard_races` | `CapacitySafety`, `CountersReadable`, `StrictPriority`, `ImplementsAdmissionQueue` | 4 requests, 3 flows, 2 bands; before shutdown, clients of two requests may give up |
| `shard_shutdown` | `TypeOK`, `SoleOwner`, `StatsExact` | 3 requests, one of an unregistered flow, any context cancelled at any time |
| `shard_liveness` | `ShutdownCompletes`, `QueuedFinalizedAtShutdown`, `HandedInEventuallyFinalized` | 2 callers in 2 bands, each with a new request whenever its last is finished, so that a band may be busy for ever; fair |
| `shard_expiry` | `DeadEventuallyFinalized` | 2 requests of one flow, one with a TTL, clock to 2, fair, detector may pause for ever |
| `gateway` | `ReplyOrder`, `ResponseIntact`, `CountersExact`, `AdmissionSound`, `RoutedAsScheduled`, `RequestAnswered` | one stream with one request and one reply for each case of the handlers, or two streams together; 2 pods, one change of the store |
| `components` | invariants, and `ImplementsSafeQueue` | see below |
| `services` | temporal properties, and `FreshDataKept` | see below |
| `shard_panic` | violates `NoSendPanic` | 2 requests |
| `heap_remove` | violates `MinimumIsChildOfRoot` | up to 7 items, of which the two lowest tie, any removed |
| `datastore_lock` | violates `PoolSetCompletes` | one pod, one reader of the pool, two changes, fair |
| `prefix_hash` | violates `MatchIsTruePrefix` | 2 requests of two blocks |
| `config_weights` | violates `AllScorersWeighted` | every configuration of up to two plugins and two profiles |

The parts of `components`:

| Part | Properties | Instance |
|---|---|---|
| round robin | `BoundedBypass` | 4 flows, queues up to 2, every initial order of the keys |
| heap | `HandlesExact`, `ImplementsSafeQueue` | up to 8 items (four levels) of distinct priorities, head removed, any cleaned up |
| registry configuration | `CapacityConserved`, `ShardsUsable` | up to 3 bands out of 15 (right ones, and one for each mistake), global limit to 5, up to 4 shards |
| configuration loader | `LoadedRunnable` | every configuration of up to two plugins and two profiles |
| scheduling | `ReverseMapExact`, `MatchWithinWalk`, `DominatedNeverPreferred` | 3 overlapping cycles (one order of their prompts, as they are interchangeable), 2 pods, prompts that share a prefix, filters, two pickers |
| datastore | `RefreshersExact`, `StoreConvergesUnlessReconfigured` | 2 pods, 1 objective, 1 reader, 4 changes of API objects, listings may fail, the pool may be deleted |
| endpoint memory | `SnapshotsWhole` | 1 reader, up to 4 objects |
| collector | `ExtractorsAgree` | 1 source, 3 specifications, 3 pages |
| process | `ExitHonest` | both programs, each kind of setting right and wrong in turn, both intervals zero, 1 stream |
| router | `StreamedRequestIntact` | every kind of body in up to 4 chunks, both modes |

The parts of `services`:

| Part | Properties | Instance |
|---|---|---|
| scraper | `MetricsConverge`, `StaleDetected` | 1 pod, 2 pages, 2 ports, 3 changes around it |
| collector | `CollectorStops` | 1 source, 2 callers of Start, 3 specifications, 3 pages |
| process | `ServerLossEndsProcess` | both programs, and the metrics logger's interval zero, 1 stream |
| sidecar | `SidecarConverges` | 1 adapter, every file about it, 2 faults |
| plugin state | `FreshDataKept`, `StaleDataCollected` | 1 request, 2 keys, threshold of one tick |
| router | `RouterAnswers` | every kind of body in up to 3 chunks, both modes |

Why the bounds are enough. The races of flow control need two parties and an item;
the instances have at least two of each. Eight items are the fewest with a node on
the fourth level of the heap, so that `upMin`, `upMax` and the grandchild cases of
`down` all occur. `gateway` has one exchange per branch of the handlers, and two
streams because gauge and store are the only things streams share. Three cycles let
two `Add`s overlap a lookup. Four changes let the pool appear, a pod come, the pod
change and the pool change. In the collector's part one change of page is
enough for a stale value to remain. One reader suffices for `SnapshotsWhole`, as
readers do not write; the theorem has any number. `MaxAge` in `PluginState` and the
ages in `PodMetrics` saturate, so time is unbounded.

What the passing runs show. `SoleOwner` shows that the item's removal from its
list decides every race, so that `sync.Once` never has to. `StrictPriority` states
the exact strength of the priority order: a lower band is served only if each
higher band is empty or was given up in the same cycle. `CountersReadable` is what
makes the unlocked `hasCapacity` sound. `ImplementsAdmissionQueue` adds what outcomes mean
to callers: `hasCapacity` may turn down a request that would fit, because the
counters still include what workers have taken out, but never by more than that.
It is checked where requests compete for capacity and queue behind each other, and subsumes
`FlowFIFO` there; the steps of shutdown are covered by its theorem. `BoundedBypass` is tight. `AdmissionSound` is
what can be said of a detector that reads pod by pod: its verdict is about no single
moment, but a request is shed (`pc` is "shed", from the verdict to the answer) only if it
is not critical and no pod was good throughout, and let through as unsaturated only if one was good at some time. `ReverseMapExact` holds although `Add` takes the
lock three times, if no two `Add`s to one pod overlapped; when they do, a reverse
entry can be lost until the hash is added again. `StoreConvergesUnlessReconfigured` covers
the races of pod events with the first `PoolSet`; its premise is needed (see
below). `SidecarConverges` holds although the threads share no lock, because the
main loop comes round again.

What the violations show.

1. `shutdown` drains the channel "to prevent a panic", but a caller that has
   passed the `isShuttingDown` check can send after the close, and panics.
2. The heap's `Remove` moves the last item into the hole and only downwards. If it
   came from another subtree it may belong above, and `PeekTail` then returns an
   item that is not the minimum. Equal priorities lead to the same through `Cleanup`
   alone: `down` may then swap with a child and goes on with the rule of the
   wrong kind of level. That is why the heap of `components` has distinct priorities.
3. `PoolGet` takes the read lock twice; a writer that asks for the lock in between
   waits for the reader and the reader for the writer.
4. `hashPrompt` overwrites the first 8 bytes of the next block before it is
   hashed: prompts that differ only there get the same hashes.
5. Scorers behind the first picker of a profile get no default weight, and loading
   panics; for the default profile this depends on the order of a Go map.

Fairness. Each goroutine that can run does run (weak fairness: the Go scheduler).
Strong fairness is used where Go's `select` or the network chooses again and again:
the `ctx.Done()` case of Run, of the cleanup goroutine and of the collector (`select` picks at
random among ready cases), a scrape of a server that is up (not every one of them
fails), a request of the sidecar to a server that is up. Tickers keep firing
and requests end within their timeouts. Nothing is assumed of clients, of Envoy, of
cancellation, or of streams ending: `ServerLossEndsProcess` holds for streams that never
end because the manager's grace period does. `HandedInEventuallyFinalized` has the
premise (`NotAlwaysSaturated`) that the detector does not pause the cycle at a level
for ever, and for each request that from some time on no queue that may be served before its
own, of a higher band or of another flow of its band, holds requests (`Overtaken`). Without either premise a queued request may wait for ever, by design: strict priority starves
a lower band under sustained traffic in a higher one, as `processor_test.go:1002` expects, and TLC
shows that behaviour when the second premise is dropped.
`CHECK_DEADLOCK FALSE` is set where a behaviour ends: streams that are closed, a process
that has exited, requests and changes that are used up.

### Observations without a run

Met while modelling; each is in the model, and the properties are stated so as to
allow it.

* Flow control. A caller that sends between `DrainLoop`'s last receive and the close
  leaves its item in the buffer for ever (the comment on `evictAll`, `processor.go`
  572-573, excludes it). `select` gives the cancelled context no precedence, although
  the comment in `Run` calls shutting down the highest priority. The first selection
  after flows are registered sorts the slice `IterateQueues` is walking over
  (`roundrobin.go:95`). A band's `MaxBytes` is not defaulted, although the comment in
  `config.go` says so: such a band rejects every request that is not empty. A
  global limit smaller than the number of shards gives some the share 0,
  which is no limit.
* Ext-proc. A request whose body ends with trailers is never answered, as only
  `EndOfStream` of a body or of headers starts the director; a buffered response that ends
  with trailers is lost. A local reply in the middle of the request body finds
  the request's bytes in the buffer the response is assembled in. A usage record of
  another shape than expected panics. The saturation check looks at all pods, whatever the subset.
  The director writes the default criticality into the objective object of the store
  (`director.go:117`).
* Datastore. When the selector changes while pod events are handled, a pod of the old
  selector can be stored after the prune, and stays. A listing that fails is not
  repeated while the selector stays the same. `Clear` removes objectives that no event
  brings back.
* Scheduling. A configuration with two profiles fails in the handler after the prefix
  plugin has recorded its choice.
* Scraping. The client all pods share keeps the first port it was given. The gauges keep
  their last values when no pod is fresh. A page without any of the metrics counts as
  fresh. The fetch timeout (5 s) exceeds the staleness threshold (2 s). A max label that
  does not parse sets 0 in the scraper and nothing in the extractor; the scraper
  skips LoRA series without adapters, so adapters that went idle stay listed. Of a metric that
  is not a gauge the scraper reads 0, while the extractor reads counters too; the scraper keeps
  empty and padded adapter names (`a,, b`), the extractor drops the first and trims the second.
* Data layer. `NewEndpoint` leaves the metrics pointer nil, and `Extract` on it panics. An
  empty LoRA specification is an error on every page. `Attributes.Clone`, called a deep
  copy, shares the values.
* Plugin state. A request that lets its data lapse while it uses it can end with data
  that has no access time, which no cleanup visits.
* Configuration loader. Default plugin names overwrite plugins of the user that have them.
* Processes. The health server can report SERVING before ext-proc listens. A signal
  during set-up ends the EPP only once the manager starts. The comment at `runner.go:197`
  ("Parse() will catch invalid values later") does not hold: `flag.Set` stores zero, and a
  refresh interval of zero panics, as it does when it is given as an argument.
* Router. A streamed request that ends with trailers is not answered; response trailers
  are an error.
* Sidecar. A new source for an adapter id that is loaded is not rolled out. A registry
  answer without the expected keys kills the thread.

## 4. Proofs

Theorems hold for every value of the constants that meets the named assumptions;
where a theorem states a property, a run of section 3 checks the same definition
(`FlowFIFO` as part of `ImplementsAdmissionQueue`).

| Module | Theorems | Property |
|---|---|---|
| `ShardProcessorProofs` | `TypeCorrect`, `CapacitySafe` | `TypeOK`, `CapacitySafety` |
| `ShardDispatchProofs` | `ReadableCounters`, `StatsIntegrity`, `DispatchFIFO`, `PriorityRespected`, `OneOwner`, `ShardIsOneQueue` | `CountersReadable`, `StatsExact`, `FlowFIFO`, `StrictPriority`, `SoleOwner`, `ImplementsAdmissionQueue` |
| `ExtProcServerProofs` | `RepliesInOrder`, `CountersTellOnce`, `AdmissionIsSound`, `RoutingFollowsSchedule` | `ReplyOrder`, `CountersExact`, `AdmissionSound`, `RoutedAsScheduled` |
| `DatastoreProofs` | `RefreshersBelongToPods`, `StoreConverges` | `RefreshersExact`, `StoreConvergesUnlessReconfigured` |
| `RoundRobinProofs` | `FairTurns` | `BoundedBypass` |
| `SchedulerProofs` | `MapMirrorsLRUs`, `MatchedWasCached`, `BetterPodsFirst`, `WholeSnapshots` | `ReverseMapExact`, `MatchWithinWalk`, `DominatedNeverPreferred`, `SnapshotsWhole` |
| `ConfigProofs` | `LoadedCanRun`, `ValidatedUsable`, `CapacityIsConserved` | `LoadedRunnable`, `ShardsUsable`, `CapacityConserved` |
| `ServiceProofs` | `StreamedWhole`, `ExitIsHonest`, `ScrapersAgree`, `FreshKept` | `StreamedRequestIntact`, `ExitHonest`, `ExtractorsAgree`, `FreshDataKept` |

Every inductive invariant was checked by TLC on the instances of the runs before
it was proved.

### The shard processor

Assumptions: the set of requests is finite, sizes and limits are naturals, all
requests together have fewer than `Word` bytes, which is what keeps `hasCapacity`'s
sum from wrapping, and there are fewer than `Word` / 2 of them, as a length is
read as a signed number (`WordAssumption`).

Capacity is not inductive: the check reads a counter, not the queue. `Inv` adds
what relates the two:

* `TalliesKept`: at each level (queue, shard, band) the counters are what is
  queued there, plus what was removed and is not yet subtracted at that level, less
  what Run has pushed and not yet added. It is an equation, so it gives both directions: a
  counter read while Run owes nothing is at least what is queued
  (`CountersReadable`), and with nothing under way it is exactly that (`StatsExact`);
* `Apart`, `Pending`: an item is in at most one of channel, Run's hands, queues,
  workers' hands. So the item being checked is in no counter, and adding its size
  stays below `Word`; and what one worker subtracts is in nobody else's sum;
* `FlowsKept`, `PoolsKept`: items stay with their flow, workers hold items only
  while they work;
* `ShardRoom`, `BandRoom`: between the check and the `Add` the room can only grow.

The bytes of a set of requests are defined as the cardinality of the set of their
bytes, so that their sum needs no recursion and its laws (`BytesUnion`,
`BytesSubset`) follow from the theorems about finite sets.

`ShardDispatchProofs` adds `OrderInv` to `Inv`. `Accounted` is the converse of
`Pending`: a request that was handed over and has no outcome is somewhere; with
`Apart` this is `SoleOwner`. It needs `HeldExpired`: the cleanup worker evaluates
the expiry of what it removed a second time, and would drop it without an outcome if
the answer could change. `PositionsKept` and `HeadKept` carry `FlowFIFO`: between
`PeekHead` and `Remove` workers may take items from the list but nothing gets before the
head. `LevelsKept` carries `StrictPriority`: a band the cycle has passed stays
empty, as only Run adds, or is in `skipped`.

`ShardIsOneQueue` is the refinement. `PhaseIs` reads the phase of a request off `Apart` and `Pending`:
no request is in two places, so the cases of the mapping exclude each other.
`QueueStep` then goes through the actions of the shard; most of them leave the queue as
it is. The others need what the invariants say of the moment: `Admit` the room of `ShardRoom` and
`BandRoom`, `RejectCapacity` the tallies (a counter stands for queued requests and some
that a worker holds, `CapacityRefused`), `Serve` the head kept by `HeadKept`, `Evict`
the expiry kept by `HeldExpired`, and evictions for shutdown `StopKept`, by which the flag is
up exactly while Run is in shutdown.

### The request path

Assumptions: finitely many streams, chunks of at least one byte, bodies that are
sequences of lengths, criticalities that are integers or nil, and `Absent` that is
no error code. `Inv` of `ExtProcServerProofs` has one part per question, for each
stream; only `Admission` and `Gauge` speak of shared state.

* `Located` ties the goroutine's program point, the phase of Envoy's exchange and
  `RequestState` together; `Exchange` says that Envoy's next message exists;
* `Replies`: what was sent is ordered, and its highest rank is at most what the state
  allows (`Top`). That a part is not sent twice rests on the state, since
  `updateStateAndSendIfNeeded` falls through several states in one call, and on the
  parts it clears (`reqBodyResp`, `respBodyResp`) being whole when they are set;
* `Requests`, `Errors`, `Usage`: when each counter is written, relative to what was
  sent. `isRunning` is set with the last chunk of the request, which is what makes
  the deferred decrement and `Gauge` agree on every way out of `Process`;
* `Routing`: the header that is sent is the one `HandleRequest` made from `targets`;
* `Admission`: at any point of the walk over the pods, those good from its
  start are among the ones not yet visited, and these, if good now, are in `ever`; when
  the walk ends without a good one, none is left, which is what "shed" asserts until the
  request is answered, as `always` can only shrink.

### The datastore

Assumptions: `Absent` is no object and no goroutine, and conditions are booleans
(`DatastoreAssumption`). `StoreInv` has a part that always holds (`Stored`: an entry of the map is
the live object made for that pod; `Locked`, `Filtering`, `PoolKnown`) and `FreshInv`, which
holds until the store is reconfigured:

* `PodKnown` is the heart. For each pod an event that the filter lets through, a queued
  key or a reconciliation that has not read the pod yet is still due (`Due`); or what the resync or the
  reconciler holds in its hands comes to the same as what the API has (`Same`); or the
  store shows it (`Shows`). A change of the pod makes an event that is let through
  unless neither its old nor its new labels match, and then the store makes the same of
  both states;
* `FirstResync`: the only resync is that of the first `PoolSet`. It finds the map empty, because
  the pod reconciler does nothing without a pool, and has that reconciler waiting at
  `PoolHasSynced` until it ends. So the gaps between check, load and store are closed;
* `Applying`: what the pod reconciler is about to do follows from what it read;
* `ObjKnown`: the same as `PodKnown` for objectives, which have one filter and no resync;
* `Reachable`: a refresher that runs belongs to the map.

With nothing due and nobody at work, `PodKnown`, `ObjKnown` and `PoolKnown` are `Consistent`.

### Others

`RoundRobinProofs` proves `FairTurns`, `Spec => []BoundedBypass`, for any number of
flows. `BoundedBypass` says nothing of where the search starts; the inductive
`Inv` measures it. `Distance(k)` is the number of rounds before the search that
starts behind `lastSelected` comes to flow k, and `TurnComesCloser` bounds
`passed[k] + Distance(k)` by the number of other flows. A selection in round s moves the start behind it, so
every later flow comes s + 1 rounds closer while it is passed once (`Closer`, by
the arithmetic of remainders). That a backlogged flow is later than s needs
`ScannedEmpty`: queues the search has left behind stay empty, as only the
dispatch goroutine itself adds to them. `KeysSettled` says that keys are moved only
while no flow has been selected, so no exchange disturbs a distance.

`WholeSnapshots`, `EndpointSpec => []SnapshotsWhole`, holds for any readers and any number of
objects. What a reader has copied says nothing about what it will copy next; `MemoryInv` adds who
may write where. `WriterAlone`: the object the collector is writing is reachable neither from the
endpoint's pointers nor by a reader. `ReadersUndisturbed`: what a reader's source holds is what it
held when its pointer was loaded. A step of the collector changes its private clone only, and
storing the clone's pointer ends the writing.

### Scheduling

Assumptions: prompts are sequences of blocks and nil is no LRU (`PromptAssumption`); there are
finitely many pods (`PickerAssumption`); queues have lengths, the weight of the queue scorer is
positive and the others are not negative, and no two queues differ by more than `One`
(`ScoreAssumption`). The last one is about the model: scores are integers, and `One`, which may be any
number, has to be fine enough to tell two queues apart, as the code's floats are.

`CyclesInv` has four parts. `CyclesTyped` has the types and what each program point has prepared
(`Ready`).

`IndexExact` carries `MapMirrorsLRUs`. The reverse map and an LRU differ while an `Add` is under
way, by what it has entered and not yet told the map, and by the hash whose callback has not run. That
alone is not inductive: an eviction could drop a hash the same call has entered, and its callback would
remove a pair that the call puts back at its end. `AddOf` excludes it: what a call has entered is
the end of the LRU, in order, and no call brings more than an LRU holds, so the oldest hash is
always another one. `MovedToEnd` and `AddedAtEnd` say what one entry does to the sequence.

`WalksExact` carries `MatchedWasCached`. The walk counts, for each pod, the hashes it has looked
up and found, which could be any of them; `PrefixClosed` says that while nothing is dropped a
pod that has a hash of a request has all those before it, so the count is a prefix. It is preserved because
a request's hashes enter the map at once and because of `SameHash`: hashes are chains, so two requests that share
a hash share its position and everything before it. (`SameHash` treats hashing as free of collisions;
the chain is that of the code, where the head of a block is overwritten.) `WalkOf` bounds the count
from below by what was cached at the beginning and has been looked up, from above by the position.

`BetterPodsFirst` needs no strengthening, but a fact about scores: `DominatesScoresMore`. The
queue scorer's divisor is the range of the queues, at most `One`, so that a difference of one request is a
difference of at least one unit after the division (`QueueScores`); clamping and the other scorers'
divisions are monotone, and weights are not negative.

### Configuration

Hypotheses: `LoaderTyped` (a configuration is made of strings and integers, and the default picker
is registered as a picker) and `RegistryTyped` (bands are records of strings and numbers).

`LoadedCanRun`: `LoaderInv` follows the phases of loading. From the instantiation on, every
plugin listed is in the handle; from the defaults on, every profile has a picker; from validation on,
every reference is in the handle. The pieces that a Go map's order decides enter as any choice.

`ValidatedUsable`: `RegistryInv` says that validation has made the bands it has
passed `Good`, and that a shard that was built is the partition of a validated configuration
(`ShardsBuilt`). That its priorities are the sorted ones of the bands needs that numbers can be
sorted (`SortingOrder`, by the least counterexample).

`CapacityIsConserved`: the sum over the shards is a fold over sets, for which there is no induction
principle the provers can use. The proof takes the fold's own defining equation (`IsSum`), and a smallest set at
which it differs from `SharesOf`, the sum in closed form, is the contradiction.

### Services

`StreamedWhole`: the chunks of a body are numbered as they are sent. `ChunksInOrder` says that
the buffer holds the first ones and the inbox those that follow; `NoAnswerYet` and
`AnswerPending` say that in streaming mode nothing is sent before the last chunk, and then all of it.

`ExitIsHonest`: what an exit status tells must hold from when a flag is read or a server fails.
`FlagsHonest`: a flag is zero only if the setting that counts is, the argument's or else the
environment's; until the arguments are parsed it may still be the environment's alone, so the proof
needs the order of the set-up steps (`ParseComesFirst`, `ParsedOnce`). `ServersWatched`: a server that
listens has a watcher, and the manager's error has a failed runnable. `StreamsServed`: a
server that was stopped has no streams left. `SignalsCounted`: the context ends for an error or the
first signal.

`ScrapersAgree`: hypothesis `PagesTyped` (the LoRA series of a page are a sequence with numeric values). On an unambiguous page (`Unambiguous`:
gauges, positive creation times, proper adapter names in the newest series) both
scrapers find the same latest series and read the same of it, so equal metrics become equal metrics
(`CollectorInv`). Outside such pages they do differ; section 3 lists how.

`FreshKept`, for any requests and keys and any threshold (`StalenessAssumption`: a natural number).
The cleanup decides on an access time and deletes two map entries later, and the request may have
touched its data in between. `PickedLapsed` carries the proof: a request in use that the cleanup has picked
has lapsed, and lapsed requests stay lapsed; it follows from `StaleLapsed` at the moment of the choice.
`LoadedWhole` says that between the load and the store of a `Write` the loaded map is still what was written.

### Model-checked only

* The liveness properties, as fairness is beyond the prover.
* `HandlesExact` and `ImplementsSafeQueue`: the heap's loops are recursive operators, of which the
  provers cannot use a definition.
* `ResponseIntact`: what a stream has sent is a sum over a filtered sequence of answers, and chunking
  is a sum of its own; both need induction over sequences.

## 5. What could be added

1. The comparison of scores in the best-head policy.
2. `ResponseIntact`, with the sums as functions of a length.
3. The priority order in `AdmissionQueue`, which would need the bands a cycle has given up.

## Not modelled

* API types, deep-copy functions and generated clients (`api`, `apix`, `client-go`):
  declarations and generated code without behaviour of their own.
* The conformance suite, end-to-end tests, simulations and benchmark tools: they drive the
  system from outside.
* Libraries: Envoy, controller-runtime's manager and informers, gRPC, the flag package,
  the LRU, the Prometheus text parser, JSON and YAML decoding. They appear as
  the environment, by what the code may get from them.
* Log lines, traces, and the Prometheus recorders no property is about.
* Leader election and the authentication of the metrics endpoint.
* Registration and removal of flows: no code of this commit does it.
