--------------------------- MODULE AdmissionQueue ---------------------------
(***************************************************************************)
(* What the outcome of a request means.  A shard is seen as one queue that *)
(* requests enter, wait in and leave in single steps: rejections are for   *)
(* requests that never were in a queue, evictions for requests that were,  *)
(* and each kind has its reason.  Source: the contract of QueueOutcome in  *)
(* pkg/epp/flowcontrol/types/outcomes.go.                                  *)
(***************************************************************************)
EXTENDS Integers

CONSTANTS
  Items,          \* the requests
  Flows,          \* flow keys that have a queue
  FlowOf,         \* the flow key of a request
  PriorityOf,     \* the band of a flow
  TTLOf,          \* effective TTL, 0 when the request has none
  ShardMaxBytes,  \* capacity of the shard, 0 when it has none
  BandMaxBytes,   \* capacity of each band
  Bytes(_)        \* the bytes of a set of requests

VARIABLES
  phase,      \* where a request is in its life; an outcome once it is over
  ahead,      \* <<i, j>>: i entered j's queue before j, and both wait in it
  cancelled,  \* requests whose client has given up
  stopping    \* the shard is shutting down

aqVars == <<phase, ahead, cancelled, stopping>>

In(where) == {i \in Items : phase[i] \in where}

InFlow(f, where) == {i \in Items : FlowOf[i] = f /\ phase[i] = where}

Move(S, to) == phase' = [i \in Items |-> IF i \in S THEN to ELSE phase[i]]

\* The queues hold the requests in S: whether i is within the capacity of the
\* shard and of its band.
Fits(S, i) ==
  LET b == PriorityOf[FlowOf[i]]
  IN  /\ ShardMaxBytes > 0 => Bytes(S \cup {i}) <= ShardMaxBytes
      /\ Bytes({j \in S : PriorityOf[FlowOf[j]] = b} \cup {i}) <= BandMaxBytes[b]

\* The requests in S are no longer in their queue.
Depart(S) == ahead' = {e \in ahead : e[1] \notin S /\ e[2] \notin S}

\* The reason an eviction needs.
Evictable(i, o) ==
  \/ o = "EvictedContextCancelled" /\ i \in cancelled
  \/ o = "EvictedTTL" /\ TTLOf[i] > 0
  \/ o = "EvictedOther" /\ stopping

Pending == {"outside", "handed", "queued", "serving", "leaving"}

Evictions == {"EvictedContextCancelled", "EvictedTTL", "EvictedOther"}

-----------------------------------------------------------------------------
Init ==
  /\ phase = [i \in Items |-> "outside"]
  /\ ahead = {}
  /\ cancelled = {}
  /\ stopping = FALSE

GiveUp(i) ==
  /\ i \notin cancelled
  /\ phase[i] \in Pending
  /\ cancelled' = cancelled \cup {i}
  /\ UNCHANGED <<phase, ahead, stopping>>

Stop ==
  /\ ~stopping
  /\ stopping' = TRUE
  /\ UNCHANGED <<phase, ahead, cancelled>>

HandIn(i) ==
  /\ phase[i] = "outside"
  /\ Move({i}, "handed")
  /\ UNCHANGED <<ahead, cancelled, stopping>>

\* An unregistered flow, or shutdown; on handing in only shutdown.
RejectOther(i) ==
  /\ \/ stopping /\ phase[i] \in {"outside", "handed"}
     \/ FlowOf[i] \notin Flows /\ phase[i] = "handed"
  /\ Move({i}, "RejectedOther")
  /\ UNCHANGED <<ahead, cancelled, stopping>>

\* The limits are met, counting at most the requests that are waiting and the
\* ones that are on their way out of the queues.
RejectCapacity(i) ==
  /\ ~stopping /\ FlowOf[i] \in Flows
  /\ phase[i] = "handed"
  /\ ~Fits(In({"queued", "leaving"}), i)
  /\ Move({i}, "RejectedCapacity")
  /\ UNCHANGED <<ahead, cancelled, stopping>>

\* The request enters at the back of its queue, within the capacity.
Admit(i) ==
  /\ ~stopping /\ FlowOf[i] \in Flows
  /\ phase[i] = "handed"
  /\ Fits(In({"queued"}), i)
  /\ Move({i}, "queued")
  /\ ahead' = ahead \cup {<<j, i>> : j \in InFlow(FlowOf[i], "queued")}
  /\ UNCHANGED <<cancelled, stopping>>

\* One request at a time is taken from the front of its queue for dispatch.
Serve(i) ==
  /\ phase[i] = "queued"
  /\ ~stopping
  /\ In({"serving"}) = {}
  /\ \A j \in Items : <<j, i>> \notin ahead
  /\ Move({i}, "serving")
  /\ Depart({i})
  /\ UNCHANGED <<cancelled, stopping>>

\* A request whose client has given up is not dispatched.
Dispatch(i) ==
  /\ phase[i] = "serving"
  /\ i \notin cancelled
  /\ Move({i}, "Dispatched")
  /\ UNCHANGED <<ahead, cancelled, stopping>>

EvictServed(i) ==
  /\ phase[i] = "serving"
  /\ \E o \in Evictions : Evictable(i, o) /\ Move({i}, o)
  /\ UNCHANGED <<ahead, cancelled, stopping>>

\* Some requests of one flow are taken out together, each for a reason.
Withdraw(S) ==
  /\ S # {}
  /\ \A i \in S : \E o \in Evictions : Evictable(i, o)
  /\ Move(S, "leaving")
  /\ Depart(S)
  /\ UNCHANGED <<cancelled, stopping>>

\* What was withdrawn is finalized, with its own reason.
Evict(S) ==
  /\ S # {}
  /\ \E o \in [S -> Evictions] :
       /\ \A i \in S : Evictable(i, o[i])
       /\ phase' = [i \in Items |-> IF i \in S THEN o[i] ELSE phase[i]]
  /\ UNCHANGED <<ahead, cancelled, stopping>>

Next ==
  \/ Stop
  \/ \E i \in Items :
       \/ GiveUp(i) \/ HandIn(i) \/ RejectOther(i) \/ RejectCapacity(i)
       \/ Admit(i) \/ Serve(i) \/ Dispatch(i) \/ EvictServed(i)
  \/ \E f \in Flows :
       \/ \E S \in SUBSET InFlow(f, "queued") : Withdraw(S)
       \/ \E S \in SUBSET InFlow(f, "leaving") : Evict(S)

Spec == Init /\ [][Next]_aqVars

=============================================================================
