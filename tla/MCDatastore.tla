----------------------------- MODULE MCDatastore -----------------------------
(* Instances of Datastore: two labels, a pod that may be unready, change its
   label or its address, a pool that may change its selector or its port. *)
EXTENDS Datastore

MCPodStates == {[ready |-> TRUE, label |-> "a", ip |-> 1], [ready |-> FALSE, label |-> "a", ip |-> 1],
                [ready |-> TRUE, label |-> "b", ip |-> 1], [ready |-> TRUE, label |-> "a", ip |-> 2]}
MCPoolStates == {[sel |-> "a", port |-> 1], [sel |-> "b", port |-> 1], [sel |-> "a", port |-> 2]}
MCObjStates == {[ours |-> TRUE, crit |-> 1], [ours |-> FALSE, crit |-> 1]}
=============================================================================
