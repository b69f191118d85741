-------------------------- MODULE MCShardProcessor --------------------------
(* Small instances of ShardProcessor for TLC. *)
EXTENDS ShardProcessor, TLC

CONSTANTS i1, i2, i3, i4, f1, f2, f3

\* Races: two flows share the urgent band, i1 and i2 share a flow.
RacesPriorityOf == f1 :> 0 @@ f2 :> 0 @@ f3 :> 1
RacesFlowOf == i1 :> f1 @@ i2 :> f1 @@ i3 :> f2 @@ i4 :> f3
RacesSizeOf == i1 :> 1 @@ i2 :> 1 @@ i3 :> 2 @@ i4 :> 2
RacesTTLOf == [i \in Items |-> 0]

\* One flow per band; f2 has no queue.
PairPriorityOf == f1 :> 0 @@ f3 :> 1
PairFlowOf == [i \in Items |-> CASE i = i1 -> f1 [] i = i2 -> f3 [] i = i3 -> f2]
PairSizeOf == [i \in Items |-> IF i = i3 THEN 0 ELSE 1]
PairTTLOf == [i \in Items |-> 0]

\* One flow; i1 has a TTL, i2 has none.
ExpiryPriorityOf == f1 :> 0
ExpiryFlowOf == i1 :> f1 @@ i2 :> f1
ExpirySizeOf == i1 :> 1 @@ i2 :> 1
ExpiryTTLOf == i1 :> 1 @@ i2 :> 0

\* Each band binds below the shard's 3 bytes, and the shard below the bands' 4.
RacesBands == 0 :> 2 @@ 1 :> 2
TwoBands == 0 :> 3 @@ 1 :> 1
OneBand == 0 :> 2

\* The races run looks at the shard before it is shut down, and at clients
\* that give up on requests of the two urgent flows.
BeforeShutdown == ~runCtxDone /\ ctxErr \subseteq {i1, i3}

(***************************************************************************)
(* Traffic that never ends.  A request that has its outcome makes way for  *)
(* a new one of the same flow and size; the items that wait are renumbered *)
(* so that the positions stay bounded.                                     *)
(***************************************************************************)
NextRequest(i) ==
  /\ caller[i] = "returned" /\ outcome[i] # NotYet
  /\ caller' = [caller EXCEPT ![i] = "idle"]
  /\ outcome' = [outcome EXCEPT ![i] = NotYet]
  /\ ctxErr' = ctxErr \ {i}
  /\ pushed' = Cardinality(Queued)
  /\ position' = [j \in Items |->
       IF j \in Queued THEN Cardinality({k \in Queued : position[k] < position[j]})
       ELSE 0]
  /\ UNCHANGED <<clock, enqueueTime, chanVars, panicked, stopVars, runVars, queue,
                 statVars, poolVars, cleanVars>>

SustainedSpec ==
  /\ Init
  /\ [][Next \/ \E i \in Items : ~panicked /\ NextRequest(i)]_vars
  /\ Fairness
=============================================================================
