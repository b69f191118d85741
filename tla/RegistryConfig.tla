--------------------------- MODULE RegistryConfig ---------------------------
(***************************************************************************)
(* The flow registry's configuration at start-up: it is validated band by  *)
(* band and completed with defaults, then partitioned over the shards,     *)
(* and a shard is built from each part.  An empty string is a field that   *)
(* is not set.  Source: registry/config.go, newShard of registry/shard.go. *)
(***************************************************************************)
EXTENDS Integers, Sequences, FiniteSets, Functions, SequencesExt, FiniteSetsExt

CONSTANTS
  BandConfigs,  \* PriorityBandConfigs an operator may write
  MaxBands,     \* bound on the number of bands
  MaxTotal,     \* bound on the global capacity
  MaxShards     \* bound on the number of shards

VARIABLES
  config,       \* the master Config
  totalShards,  \* the number of shards it is partitioned for
  pc,           \* "validate", "partition", "ready" or "failed"
  next,         \* loop variable: the band, then the shard, at hand
  shards        \* the shards built so far

vars == <<config, totalShards, pc, next, shards>>

-----------------------------------------------------------------------------
(* The plugins that register themselves, and what they offer and require. *)

Capabilities == [ListQueue |-> {"FIFO"}, MaxMinHeap |-> {"PriorityConfigurable"}]

RequiredQueueCapabilities == [FCFS |-> {"FIFO"}]

InterFlowPolicies == {"BestHead", "RoundRobin"}

OrDefault(name, default) == IF name = "" THEN default ELSE name

WithDefaults(band) ==
  [band EXCEPT !.IntraFlowDispatchPolicy = OrDefault(@, "FCFS"),
               !.InterFlowDispatchPolicy = OrDefault(@, "BestHead"),
               !.Queue = OrDefault(@, "ListQueue")]

\* validateBandCompatibility: the queue is looked at only if the policy
\* requires something of it.
Compatible(band) ==
  /\ band.IntraFlowDispatchPolicy \in DOMAIN RequiredQueueCapabilities
  /\ LET required == RequiredQueueCapabilities[band.IntraFlowDispatchPolicy]
     IN  \/ required = {}
         \/ /\ band.Queue \in DOMAIN Capabilities
            /\ required \subseteq Capabilities[band.Queue]

\* Mutant: the remainder is given to nobody.
partitionValueDown(total, i) == total \div totalShards

\* The share of shard i of totalShards.
partitionValue(total, i) ==
  total \div totalShards + (IF i < total % totalShards THEN 1 ELSE 0)

partition(i) ==
  [MaxBytes |-> partitionValue(config.MaxBytes, i),
   PriorityBands |-> [b \in DOMAIN config.PriorityBands |->
     [config.PriorityBands[b] EXCEPT !.MaxBytes = partitionValue(@, i)]]]

\* slices.Sort.
Sorted(s) ==
  LET orders == {p \in [DOMAIN s -> DOMAIN s] : \A i, j \in DOMAIN s : p[i] = p[j] => i = j}
      order == CHOOSE p \in orders : \A i, j \in DOMAIN s : i < j => s[p[i]] <= s[p[j]]
  IN  [i \in DOMAIN s |-> s[order[i]]]

\* newShard: the map of bands by priority, in which a later band replaces an
\* earlier one, and the sorted list of priorities.
newShard(cfg) ==
  LET bands == cfg.PriorityBands
      priorities == [b \in DOMAIN bands |-> bands[b].Priority]
      last(p) == Max({b \in DOMAIN bands : bands[b].Priority = p})
  IN  [MaxBytes |-> cfg.MaxBytes,
       priorityBands |-> [p \in Range(priorities) |-> bands[last(p)]],
       orderedPriorityLevels |-> Sorted(priorities)]

-----------------------------------------------------------------------------
Init ==
  /\ config \in [MaxBytes : 0 .. MaxTotal, PriorityBands : BoundedSeq(BandConfigs, MaxBands)]
  /\ totalShards \in 1 .. MaxShards
  /\ pc = "validate"
  /\ next = 1
  /\ shards = <<>>

Band == config.PriorityBands[next]

\* Mutant: the priorities are not remembered.
SeenNone == {}

\* The priorities of the bands before this one.
Seen == {config.PriorityBands[b].Priority : b \in 1 .. next - 1}

\* Without a band, with a priority seen before or without a name, validation
\* fails at once.
Refuse ==
  /\ pc = "validate"
  /\ \/ config.PriorityBands = <<>>
     \/ /\ next <= Len(config.PriorityBands)
        /\ Band.Priority \in Seen \/ Band.PriorityName = ""
  /\ pc' = "failed"
  /\ UNCHANGED <<config, totalShards, next, shards>>

\* Otherwise the band gets its defaults, in place, and is checked.
ValidateBand ==
  /\ pc = "validate"
  /\ next <= Len(config.PriorityBands)
  /\ Band.Priority \notin Seen /\ Band.PriorityName # ""
  /\ config' = [config EXCEPT !.PriorityBands[next] = WithDefaults(@)]
  /\ IF Compatible(WithDefaults(Band)) THEN next' = next + 1 /\ pc' = pc
     ELSE next' = next /\ pc' = "failed"
  /\ UNCHANGED <<totalShards, shards>>

Validated ==
  /\ pc = "validate"
  /\ config.PriorityBands # <<>> /\ next > Len(config.PriorityBands)
  /\ pc' = "partition"
  /\ next' = 0
  /\ UNCHANGED <<config, totalShards, shards>>

\* The next shard is built; that fails for an unknown inter-flow policy.
BuildShard ==
  /\ pc = "partition" /\ next < totalShards
  /\ IF \A b \in Range(config.PriorityBands) : b.InterFlowDispatchPolicy \in InterFlowPolicies
     THEN shards' = Append(shards, newShard(partition(next))) /\ next' = next + 1 /\ pc' = pc
     ELSE pc' = "failed" /\ UNCHANGED <<shards, next>>
  /\ UNCHANGED <<config, totalShards>>

Ready ==
  /\ pc = "partition" /\ next = totalShards
  /\ pc' = "ready"
  /\ UNCHANGED <<config, totalShards, next, shards>>

Next == Refuse \/ ValidateBand \/ Validated \/ BuildShard \/ Ready

Spec == Init /\ [][Next]_vars

-----------------------------------------------------------------------------
(* Properties *)

\* The sum over the shards of what f says of each.
SumOver(f(_)) == MapThenSumSet(LAMBDA s : f(shards[s]), DOMAIN shards)

Even(f(_)) == \A s, t \in DOMAIN shards : f(shards[s]) - f(shards[t]) \in -1 .. 1

\* partition "ensures that the total capacity is distributed as evenly as
\* possible across all shards": the shards' capacities, and those of each
\* configured band, add up to the configured ones, and no two shards differ
\* by more than a byte.
CapacityConserved ==
  pc = "ready" =>
    /\ SumOver(LAMBDA s : s.MaxBytes) = config.MaxBytes
    /\ Even(LAMBDA s : s.MaxBytes)
    /\ \A b \in Range(config.PriorityBands) :
         LET capacity(s) == s.priorityBands[b.Priority].MaxBytes
         IN  SumOver(capacity) = b.MaxBytes /\ Even(capacity)

\* What validation lets through is enough for dispatch: on every shard the
\* levels are in strictly ascending order, each with the band configured for
\* it, whose queue has what its intra-flow policy relies on.
ShardsUsable ==
  \A s \in DOMAIN shards :
    LET levels == shards[s].orderedPriorityLevels
        bands == shards[s].priorityBands
    IN  /\ Len(levels) = Len(config.PriorityBands)
        /\ \A k \in 1 .. Len(levels) - 1 : levels[k] < levels[k + 1]
        /\ \A p \in Range(levels) :
             /\ bands[p].Priority = p
             /\ bands[p].Queue \in DOMAIN Capabilities
             /\ RequiredQueueCapabilities[bands[p].IntraFlowDispatchPolicy]
                  \subseteq Capabilities[bands[p].Queue]
=============================================================================
