---------------------------- MODULE MCComponents ----------------------------
(***************************************************************************)
(* The components whose properties are invariants, each checked on a small *)
(* instance of its own.  A behaviour picks one component, part, and is a   *)
(* behaviour of that component alone; the others, which keep their own    *)
(* variables, stay in one initial state.                                   *)
(***************************************************************************)
EXTENDS RoundRobin, Endpoint, Datastore, Scheduler, Configuration, Services, MCServiceValues

CONSTANTS NoItem, s1

VARIABLES part, nodes, handles, byteSize

heapVars == <<nodes, handles, byteSize>>

-----------------------------------------------------------------------------
\* The heap with eight items of different priorities; an item is its priority
\* and as large.
Numbers == 1 .. 8
Own == [n \in Numbers |-> n]

Heap == INSTANCE MaxMinHeap WITH Items <- Numbers, PriorityOf <- Own, SizeOf <- Own,
          MaxLen <- 8, items <- nodes, index <- handles

\* Bands that are fine, and one for each thing that can be wrong with a band.
BandOf(priority, name, intra, inter, queue, bytes) ==
  [Priority |-> priority, PriorityName |-> name, IntraFlowDispatchPolicy |-> intra,
   InterFlowDispatchPolicy |-> inter, Queue |-> queue, MaxBytes |-> bytes]
SomeBands ==
  {BandOf(p, "band", "", "", "", m) : p \in 0 .. 2, m \in {0, 1, 7}}
  \cup {BandOf(1, "band", "FCFS", "RoundRobin", "ListQueue", 4),
        BandOf(1, "", "", "", "", 4),
        BandOf(1, "band", "unknown", "", "", 4),
        BandOf(1, "band", "", "unknown", "", 4),
        BandOf(1, "band", "", "", "unknown", 4),
        BandOf(1, "band", "", "", "MaxMinHeap", 4)}

\* Every configuration of up to two plugins and two profiles.
PluginRoles == "prefix" :> {"scorer", "postCycle"} @@ "queue" :> {"scorer"}
               @@ "random" :> {"picker"} @@ "max-score-picker" :> {"picker"}
               @@ "single-profile-handler" :> {"handler"} @@ "filter" :> {"filter"}
UpTo(S, n) == UNION {[1 .. k -> S] : k \in 0 .. n}
PluginSpecs == {[name |-> n, type |-> t] : n \in {"", "x"}, t \in DOMAIN PluginRoles \cup {""}}
PluginRefs == {[ref |-> r, weight |-> w] : r \in {"x", "queue", "random", "y"}, w \in {0, 2}}
ProfileLists == {<<>>}
    \cup {<<[name |-> "p", plugins |-> s]>> : s \in UpTo(PluginRefs, 2)}
    \cup {<<[name |-> "p", plugins |-> s], [name |-> n, plugins |-> <<>>]>> :
            s \in UpTo(PluginRefs, 1), n \in {"p", "q"}}
SomeRawConfigs == [plugins : UpTo(PluginSpecs, 2), profiles : ProfileLists]

\* Three requests, two of which may share a prefix, two pods whose loads
\* differ, and configurations with filters, another picker and two profiles.
Block(h) == [head |-> <<h>>, rest |-> "rest"]
Unprompted == [model |-> "m", blocks |-> <<>>]
SomePrompts == {Unprompted, [model |-> "n", blocks |-> <<Block("x")>>],
                [model |-> "m", blocks |-> <<Block("x"), Block("y")>>]}
LoadOf(q, k) == [queue |-> q, kv |-> k, active |-> {}, waiting |-> {}, max |-> 1]
UnevenLoad == "p1" :> LoadOf(1, 30) @@ "p2" :> LoadOf(0, 30)
SomeLoads == {UnevenLoad,
              "p1" :> [LoadOf(2, 30) EXCEPT !.active = {"m"}]
              @@ "p2" :> [LoadOf(0, 70) EXCEPT !.waiting = {"m"}]}
OneProfile == [profiles |-> {"default"}, picker |-> "max-score", filters |-> <<>>]
SomeProfiles == {OneProfile, [OneProfile EXCEPT !.filters = <<{"p1"}, {"p2"}>>],
                 [OneProfile EXCEPT !.profiles = {"default", "other"}, !.picker = "random",
                                    !.filters = <<{"p2"}>>]}

EvenWeight == [queue |-> 1, kv |-> 1, lora |-> 1, prefix |-> 1]

\* Two pods that may be unready or change label and address, a pool that may
\* change its selector or its port.
SomePodStates == {[ready |-> TRUE, label |-> "a", ip |-> 1], [ready |-> FALSE, label |-> "a", ip |-> 1],
                  [ready |-> TRUE, label |-> "b", ip |-> 2]}
SomePoolStates == {[sel |-> "a", port |-> 1], [sel |-> "b", port |-> 1], [sel |-> "a", port |-> 2]}
SomeObjStates == [ours : BOOLEAN, crit : {1}]

-----------------------------------------------------------------------------
\* The cycles differ in nothing but their prompts: of the assignments that a
\* permutation of the cycles turns into each other, the one in this order.
PromptsInOrder ==
  LET blocks(c) == Len(asked[c].blocks) IN blocks("c1") <= blocks("c2") /\ blocks("c2") <= blocks("c3")

\* A component that is not picked has one initial state.
MCInit ==
  /\ part \in {"roundRobin", "memory", "datastore", "loader", "registry", "heap", "scheduling",
              "collector", "process", "router"}
  /\ part # "loader" => cfg = [plugins |-> <<>>, profiles |-> <<>>]
  /\ part # "registry" => config = [MaxBytes |-> 0, PriorityBands |-> <<>>] /\ totalShards = 1
  /\ part # "roundRobin" => flowKeys = [c \in Cells |-> c + 1]
  /\ part # "router" => streaming = FALSE /\ kind = "model"
  /\ part # "process" => opts = GoodOptions
  /\ part # "collector" => shown = "idle"
  /\ part # "scheduling" => /\ asked = [c \in Cycles |-> Unprompted] /\ profile = OneProfile
                            /\ snapshot = UnevenLoad
  /\ Router!Init /\ Process!Init /\ Collector!Init
  /\ Init /\ EndpointInit /\ StoreInit /\ Cycle!Init /\ PromptsInOrder /\ Heap!Init /\ Registry!Init /\ Loader!Init

store == <<endpointVars, datastoreVars>>
configuration == <<loaderVars, registryVars>>
scheduling == <<schedulerVars, heapVars>>
services == <<routerVars, processVars, collectorVars>>

MCNext ==
  /\ UNCHANGED part
  /\ \/ /\ UNCHANGED <<services, configuration, scheduling>>
        /\ \/ part = "roundRobin" /\ Next /\ UNCHANGED store
           \/ part = "memory" /\ EndpointNext /\ UNCHANGED <<vars, datastoreVars>>
           \/ part = "datastore" /\ StoreNext /\ UNCHANGED <<vars, endpointVars>>
     \/ /\ UNCHANGED <<vars, store, services, scheduling>>
        /\ \/ part = "loader" /\ Loader!Next /\ UNCHANGED registryVars
           \/ part = "registry" /\ Registry!Next /\ UNCHANGED loaderVars
     \/ /\ UNCHANGED <<vars, store, services, configuration>>
        /\ \/ part = "heap" /\ Heap!DispatchNext /\ UNCHANGED schedulerVars
           \/ part = "scheduling" /\ Cycle!Next /\ UNCHANGED heapVars
     \/ /\ UNCHANGED <<vars, store, configuration, scheduling>>
        /\ \/ part = "router" /\ Router!Next /\ UNCHANGED <<processVars, collectorVars>>
           \/ part = "process" /\ Process!Next /\ UNCHANGED <<routerVars, collectorVars>>
           \/ part = "collector" /\ Collector!Next /\ UNCHANGED <<routerVars, processVars>>

MCSpec == MCInit /\ [][MCNext]_<<vars, store, configuration, services, part, scheduling>>

-----------------------------------------------------------------------------
\* The properties of the heap, as stated in its module.

\* The heap's handles lead to their items and its byte count is exact.
HandlesExact == Heap!HandlesExact

\* The heap implements the SafeQueue contract, step by step.
ImplementsSafeQueue ==
  Heap!SafeQueue!Init /\ [][Heap!SafeQueue!Next \/ UNCHANGED Heap!SafeQueue!pqVars]_heapVars
=============================================================================
