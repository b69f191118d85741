------------------------------ MODULE Scheduler ------------------------------
(***************************************************************************)
(* The scheduling cycles of Scheduling under names of their own, beside     *)
(* the other components, and what is assumed of their inputs.               *)
(***************************************************************************)
EXTENDS Integers, Sequences, FiniteSets

CONSTANTS Cycles, CandidatePods, Prompts, Snapshots, Profiles, Weight,
          MaxNumOfEndpoints, MaxPrefixBlocks, LRUCapacityPerServer, One, None

VARIABLES asked, snapshot, profile, at, position, match, picked, evicted,
          podToLRU, hashToPods, before, dropped, tangled

schedulerVars == <<asked, snapshot, profile, at, position, match, picked, evicted,
                   podToLRU, hashToPods, before, dropped, tangled>>

Cycle == INSTANCE Scheduling WITH Pods <- CandidatePods, Configs <- Profiles,
           config <- profile, i <- position

\* All there is to be hashed.
AllHashes == UNION {{Cycle!hashPrompt(p)[k] : k \in DOMAIN Cycle!hashPrompt(p)} : p \in Prompts}

\* A prompt is a sequence of blocks; nil is no LRU.
ASSUME PromptAssumption ==
  /\ \A p \in Prompts : Len(p.blocks) \in Nat /\ DOMAIN p.blocks = 1 .. Len(p.blocks)
  /\ MaxPrefixBlocks \in Nat /\ LRUCapacityPerServer \in Int
  /\ None \notin Seq(AllHashes)

ASSUME PickerAssumption == IsFiniteSet(CandidatePods) /\ MaxNumOfEndpoints \in Int

\* Queues have lengths and their scorer counts; the unit of the scores, a
\* float's precision in the code, is fine enough to tell two queues apart.
ASSUME ScoreAssumption ==
  /\ One \in Nat
  /\ Weight.queue \in Nat \ {0} /\ Weight.kv \in Nat /\ Weight.lora \in Nat /\ Weight.prefix \in Nat
  /\ \A m \in Snapshots, p, q \in CandidatePods :
       m[p].queue \in Nat /\ m[p].kv \in Int /\ m[p].queue - m[q].queue <= One

-----------------------------------------------------------------------------
\* The prefix index and its reverse map agree between two calls of Add
\* (pkg/epp/scheduling/framework/plugins/multi/prefix/indexer.go).
ReverseMapExact == Cycle!ReverseMapExact

\* A match was cached for that pod at some time during the lookup
\* (pkg/epp/scheduling/framework/plugins/multi/prefix/plugin.go).
MatchWithinWalk == Cycle!MatchWithinWalk

\* No pod is preferred to one that is better by every scorer
\* (pkg/epp/scheduling/framework/plugins/picker/max_score_picker.go).
DominatedNeverPreferred == Cycle!DominatedNeverPreferred
=============================================================================
