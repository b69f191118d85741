------------------------------ MODULE Scheduling ------------------------------
(***************************************************************************)
(* Scheduling cycles of concurrent requests (pkg/epp/scheduling): a profile *)
(* scores a snapshot of the candidate pods with the queue, KV-cache, LoRA   *)
(* and prefix scorers, a picker takes the best, and the prefix plugin notes *)
(* the choice in the index that all requests share.                         *)
(*                                                                          *)
(* Scores are integers, One standing for 1.0.  The index's own lock is held *)
(* for single lookups, for the creation of a pod's LRU, for one eviction    *)
(* callback and for the final update of the reverse map, but not while      *)
(* hashes go into the LRU: those are the steps of a cycle.                  *)
(***************************************************************************)
EXTENDS Integers, Sequences, FiniteSets, SequencesExt, FiniteSetsExt

CONSTANTS Cycles,       \* requests, one scheduling cycle each
          Pods,
          Prompts,      \* what a request may ask: [model, blocks], blocks of [head, rest]
          Snapshots,    \* functions from pods to [queue, kv, active, waiting, max]
          Configs,      \* [profiles, picker, filters]; a filter is the set of pods it keeps
          Weight,       \* [queue, kv, lora, prefix]
          MaxNumOfEndpoints, MaxPrefixBlocks,
          LRUCapacityPerServer, \* as configured; DefaultCapacity if not positive
          One,          \* the score 1.0
          None

VARIABLES asked, snapshot, config,  \* inputs: prompt per cycle, metrics, configuration
          at,          \* program point of a cycle
          i,           \* position in its hashes
          match,       \* PrefixCacheServers
          picked,      \* target pods, best first
          evicted,     \* a hash its LRU has dropped and whose callback has not run, or None
          podToLRU,    \* per pod the hashes, least recently used first; None if there is no LRU
          hashToPods,  \* the reverse map, as a set of pairs
          before,      \* history: longest prefixes cached when the cycle began
          dropped, tangled \* history: some LRU has dropped a hash; two Adds to a pod overlapped

inputs == <<asked, snapshot, config>>
index == <<podToLRU, hashToPods>>
vars == <<inputs, at, i, match, picked, evicted, index, before, dropped, tangled>>

DefaultCapacity == 3

-----------------------------------------------------------------------------
(* hashPrompt.  Appending the previous hash to a block writes it over the    *)
(* head of the next block, which shares the block's array.                   *)

NumBlocks(p) == IF Len(p.blocks) < MaxPrefixBlocks THEN Len(p.blocks) ELSE MaxPrefixBlocks

hashPrompt(p) ==
  LET h[k \in 0..NumBlocks(p)] ==
        IF k = 0 THEN <<p.model>>
        ELSE <<IF k = 1 THEN p.blocks[1].head ELSE h[k - 2], p.blocks[k].rest, h[k - 1]>>
  IN IF p.blocks = <<>> THEN <<>> ELSE [k \in 1..(NumBlocks(p) + 1) |-> h[k - 1]]

Hashes(c) == hashPrompt(asked[c])

-----------------------------------------------------------------------------
(* Scorers and picker.                                                       *)

\* Each filter keeps some of the pods the one before it left.
runFilterPlugins == {p \in Pods : \A k \in DOMAIN config.filters : p \in config.filters[k]}

enforceScoreRange(s) == IF s < 0 THEN 0 ELSE IF s > One THEN One ELSE s

\* Mutant: the longest queue scores highest.
QueueScoreInverted(m, p) == IF m[p].queue = 0 THEN 0 ELSE One

QueueScore(m, p) ==
  LET sizes == {m[q].queue : q \in runFilterPlugins}
  IN IF Max(sizes) = Min(sizes) THEN One
     ELSE ((Max(sizes) - m[p].queue) * One) \div (Max(sizes) - Min(sizes))

KVCacheScore(m, p) == One - m[p].kv

LoraScore(m, p, model) ==
  CASE model \in m[p].active -> One
    [] model \notin m[p].active /\ Cardinality(m[p].active) + Cardinality(m[p].waiting) < m[p].max -> (4 * One) \div 5
    [] model \in m[p].waiting \ m[p].active
         /\ Cardinality(m[p].active) + Cardinality(m[p].waiting) >= m[p].max -> (3 * One) \div 5
    [] OTHER -> 0

PrefixScore(c, p) == IF Hashes(c) = <<>> THEN 0 ELSE (match[c][p] * One) \div Len(Hashes(c))

WeightedScore(c, p) ==
  LET m == snapshot
  IN   enforceScoreRange(QueueScore(m, p)) * Weight.queue
     + enforceScoreRange(KVCacheScore(m, p)) * Weight.kv
     + enforceScoreRange(LoraScore(m, p, asked[c].model)) * Weight.lora
     + enforceScoreRange(PrefixScore(c, p)) * Weight.prefix

\* A configured number that is not positive falls back to 1.
NumEndpoints == IF MaxNumOfEndpoints <= 0 THEN 1 ELSE MaxNumOfEndpoints

FirstFew(pods) == SubSeq(pods, 1, IF NumEndpoints < Len(pods) THEN NumEndpoints ELSE Len(pods))

\* A shuffle: any order.
RandomPick == SetToSeqs(runFilterPlugins)

\* A shuffle and a stable sort: any order with the highest scores first.
MaxScorePick(c) ==
  {order \in SetToSeqs(runFilterPlugins) :
     \A j, k \in DOMAIN order : j < k => WeightedScore(c, order[j]) >= WeightedScore(c, order[k])}

-----------------------------------------------------------------------------
(* A cycle.                                                                  *)

Goto(c, l) == at' = [at EXCEPT ![c] = l]

\* Mutant: the pods whose LRU has the hash.
GetFromLRUs(h) == {p \in Pods : podToLRU[p] # None /\ Contains(podToLRU[p], h)}

\* The pods the reverse map has for a hash.
Get(h) == {p \in Pods : <<h, p>> \in hashToPods}

\* How many of a request's hashes, from the first on, the map has for a pod.
LongestPrefix(c, p) == Max({k \in 0..Len(Hashes(c)) : \A j \in 1..k : <<Hashes(c)[j], p>> \in hashToPods})

\* A profile whose filters leave no pod has no result.
NoPodsAvailable(c) ==
  /\ at[c] = "idle" /\ runFilterPlugins = {}
  /\ Goto(c, "results")
  /\ UNCHANGED <<inputs, i, match, picked, evicted, index, before, dropped, tangled>>

Begin(c) ==
  /\ at[c] = "idle" /\ runFilterPlugins # {}
  /\ match' = [match EXCEPT ![c] = [p \in Pods |-> 0]]
  /\ before' = [before EXCEPT ![c] = [p \in Pods |-> LongestPrefix(c, p)]]
  /\ i' = [i EXCEPT ![c] = 1]
  /\ Goto(c, "match")
  /\ UNCHANGED <<inputs, picked, evicted, index, dropped, tangled>>

\* matchLongestPrefix: one lookup; the walk ends at a hash no pod has.
MatchHash(c) ==
  /\ at[c] = "match" /\ i[c] <= Len(Hashes(c))
  /\ LET servers == Get(Hashes(c)[i[c]])
     IN /\ match' = [match EXCEPT ![c] = [p \in Pods |-> IF p \in servers THEN @[p] + 1 ELSE @[p]]]
        /\ i' = [i EXCEPT ![c] = IF servers = {} THEN Len(Hashes(c)) + 1 ELSE @ + 1]
  /\ UNCHANGED <<inputs, at, picked, evicted, index, before, dropped, tangled>>

\* The scores are added up, the picker chooses, PostCycle begins.
PickPods(c) ==
  /\ at[c] = "match" /\ i[c] > Len(Hashes(c))
  /\ \E order \in IF config.picker = "max-score" THEN MaxScorePick(c) ELSE RandomPick :
       picked' = [picked EXCEPT ![c] = FirstFew(order)]
  /\ i' = [i EXCEPT ![c] = 1]
  /\ Goto(c, "add")
  /\ UNCHANGED <<inputs, match, evicted, index, before, dropped, tangled>>

Target(c) == picked[c][1]
Adding(p) == {c \in Cycles : at[c] \in {"lru", "evict"} /\ Target(c) = p}
\* New: a capacity that is not positive is replaced.
maxLRUSize == IF LRUCapacityPerServer <= 0 THEN DefaultCapacity ELSE LRUCapacityPerServer

\* indexer.Add: the pod's LRU is found or made under the lock.
AddLocate(c) ==
  /\ at[c] = "add"
  /\ podToLRU' = IF podToLRU[Target(c)] = None THEN [podToLRU EXCEPT ![Target(c)] = <<>>] ELSE podToLRU
  /\ tangled' = (tangled \/ Adding(Target(c)) # {} \/ Len(Hashes(c)) > maxLRUSize)
  /\ Goto(c, "lru")
  /\ UNCHANGED <<inputs, i, match, picked, evicted, hashToPods, before, dropped>>

\* One hash enters the LRU, perhaps pushing out the oldest; the callback for
\* that one runs after the LRU's lock is released.
AddToLRU(c) ==
  LET lru == podToLRU[Target(c)]
      h == Hashes(c)[i[c]]
      full == ~Contains(lru, h) /\ Len(lru) = maxLRUSize
  IN /\ at[c] = "lru" /\ i[c] <= Len(Hashes(c))
     /\ podToLRU' = [podToLRU EXCEPT ![Target(c)] =
                       Append(IF full THEN Tail(lru) ELSE RemoveFirst(lru, h), h)]
     /\ evicted' = [evicted EXCEPT ![c] = IF full THEN Head(lru) ELSE None]
     /\ i' = [i EXCEPT ![c] = @ + 1]
     /\ Goto(c, IF full THEN "evict" ELSE "lru")
     /\ dropped' = (dropped \/ full)
     /\ UNCHANGED <<inputs, match, picked, hashToPods, before, tangled>>

\* Mutant: an eviction leaves the reverse map alone.
EvictionIgnored(c) ==
  /\ at[c] = "evict"
  /\ evicted' = [evicted EXCEPT ![c] = None]
  /\ Goto(c, "lru")
  /\ UNCHANGED <<inputs, i, match, picked, index, before, dropped, tangled>>

\* The eviction callback takes the pod off the hash's set.
EvictionFn(c) ==
  /\ at[c] = "evict"
  /\ hashToPods' = hashToPods \ {<<evicted[c], Target(c)>>}
  /\ evicted' = [evicted EXCEPT ![c] = None]
  /\ Goto(c, "lru")
  /\ UNCHANGED <<inputs, i, match, picked, podToLRU, before, dropped, tangled>>

\* All hashes enter the reverse map in one critical section.
AddToReverseMap(c) ==
  /\ at[c] = "lru" /\ i[c] > Len(Hashes(c))
  /\ hashToPods' = hashToPods \cup {<<Hashes(c)[k], Target(c)>> : k \in DOMAIN Hashes(c)}
  /\ Goto(c, "results")
  /\ UNCHANGED <<inputs, i, match, picked, evicted, podToLRU, before, dropped, tangled>>

\* Schedule runs every profile before it asks for the results; the single
\* profile handler refuses the results of several, and a missing one.  (Of
\* several profiles one holds the plugins modelled here; the others have
\* neither the prefix plugin nor any other effect that outlives the cycle.)
ProcessResults(c) ==
  LET ok == Cardinality(config.profiles) = 1 /\ picked[c] # <<>>
  IN /\ at[c] = "results"
     /\ Goto(c, IF ok THEN "scheduled" ELSE "failed")
     /\ picked' = IF ok THEN picked ELSE [picked EXCEPT ![c] = <<>>]
     /\ UNCHANGED <<inputs, i, match, evicted, index, before, dropped, tangled>>

Init ==
  /\ asked \in [Cycles -> Prompts] /\ snapshot \in Snapshots /\ config \in Configs
  /\ at = [c \in Cycles |-> "idle"] /\ i = [c \in Cycles |-> 1]
  /\ match = [c \in Cycles |-> [p \in Pods |-> 0]] /\ before = match
  /\ picked = [c \in Cycles |-> <<>>] /\ evicted = [c \in Cycles |-> None]
  /\ podToLRU = [p \in Pods |-> None] /\ hashToPods = {}
  /\ dropped = FALSE /\ tangled = FALSE

Schedule(c) ==
  \/ NoPodsAvailable(c) \/ Begin(c) \/ MatchHash(c) \/ PickPods(c)
  \/ AddLocate(c) \/ AddToLRU(c) \/ EvictionFn(c) \/ AddToReverseMap(c) \/ ProcessResults(c)

Next == \E c \in Cycles : Schedule(c)

Spec == Init /\ [][Next]_vars

-----------------------------------------------------------------------------
(* Properties.                                                               *)

\* Between two calls of Add the reverse map says exactly what the LRUs hold,
\* evictions included, as long as no two Adds to one pod overlapped and none
\* brought more hashes than an LRU holds.  (The indexer takes its lock three
\* times per Add and the LRU's own lock in between.)
ReverseMapExact ==
  (~tangled /\ \A p \in Pods : Adding(p) = {}) =>
    hashToPods = UNION {{<<h, p>> : h \in ToSet(podToLRU[p])} : p \in {q \in Pods : podToLRU[q] # None}}

\* Although the hashes are looked up one by one while other cycles add to the
\* index: the match length of a pod lies between the longest prefix it had
\* cached when the walk began and the one it has at the end, as long as no LRU
\* has dropped anything.
MatchWithinWalk ==
  \A c \in Cycles : at[c] = "match" /\ i[c] > Len(Hashes(c)) /\ ~dropped =>
    \A p \in Pods : match[c][p] \in before[c][p]..LongestPrefix(c, p)

\* A pod is not preferred to another that is at least as good by every scorer's
\* own measure and has the shorter queue.
DominatedNeverPreferred ==
  \A c \in Cycles : picked[c] # <<>> /\ config.picker = "max-score" =>
    \A p \in ToSet(picked[c]), q \in runFilterPlugins \ ToSet(picked[c]) :
      ~ /\ snapshot[q].queue < snapshot[p].queue /\ snapshot[q].kv <= snapshot[p].kv
        /\ snapshot[q].active = snapshot[p].active /\ snapshot[q].waiting = snapshot[p].waiting
        /\ snapshot[q].max = snapshot[p].max /\ match[c][q] >= match[c][p]

\* "For block i, hash(i) = hash(block i content, hash(i-1))" (hashPrompt): a
\* match of k blocks means that a request with the same model and the same
\* first k blocks was sent to that pod before.
MatchIsTruePrefix ==
  \A c \in Cycles, p \in Pods : at[c] = "add" /\ match[c][p] > 1 /\ ~dropped =>
    \E d \in Cycles \ {c} :
      /\ picked[d] # <<>> /\ Target(d) = p
      /\ asked[d].model = asked[c].model
      /\ Len(asked[d].blocks) >= match[c][p] - 1
      /\ \A j \in 1..(match[c][p] - 1) : asked[d].blocks[j] = asked[c].blocks[j]
=============================================================================
