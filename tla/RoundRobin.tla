----------------------------- MODULE RoundRobin -----------------------------
(***************************************************************************)
(* Round-robin selection among the flows of one priority band by the       *)
(* dispatch goroutine, while the workers of the cleanup remove expired     *)
(* requests.  selectNextQueue sorts the band's cached slice of keys in     *)
(* place, exchange by exchange, so the state in the middle of a sort is a  *)
(* state of the model.  Source: roundrobin.go.                             *)
(***************************************************************************)
EXTENDS Integers, Sequences, FiniteSets, Functions

CONSTANTS
  Flows,    \* the flows of the band, numbers in the order of FlowKey.Compare
  NoFlow,   \* lastSelected = nil
  MaxLen    \* bound on the length of a queue

ASSUME RoundRobinAssumption ==
  /\ IsFiniteSet(Flows) /\ Flows # {} /\ Flows \subseteq Int
  /\ NoFlow \notin Flows
  /\ MaxLen \in Nat \ {0}

VARIABLES
  flowKeys,      \* band.flowKeys, on 0 .. numFlows - 1
  len,           \* managedQueue.Len of each flow
  lastSelected,  \* iterator.lastSelected
  pc,            \* where the dispatch goroutine is
  scanned,       \* the loop variable i of selectNextQueue
  passed         \* selections of others since a backlogged flow's turn

vars == <<flowKeys, len, lastSelected, pc, scanned, passed>>

-----------------------------------------------------------------------------
numFlows == Cardinality(Flows)

Cells == 0 .. numFlows - 1

\* slices.SortFunc sorts a short slice by insertion: it exchanges the first
\* pair of neighbours that is out of order until there is none.
Inversions == {j \in Cells : j > 0 /\ flowKeys[j] < flowKeys[j - 1]}

FirstInversion == CHOOSE j \in Inversions : \A k \in Inversions : j <= k

IndexOf(k) == CHOOSE c \in Cells : flowKeys[c] = k

\* Mutant: the search begins at the flow served last.
StartAtLast == IF lastSelected = NoFlow THEN 0 ELSE IndexOf(lastSelected)

StartIndex == IF lastSelected = NoFlow THEN 0 ELSE (IndexOf(lastSelected) + 1) % numFlows

CurrentKey == flowKeys[(StartIndex + scanned) % numFlows]

\* The queue of k becomes shorter; an empty queue waits for nothing.
Shrink(k) ==
  /\ len' = [len EXCEPT ![k] = @ - 1]
  /\ passed' = IF len[k] = 1 THEN [passed EXCEPT ![k] = 0] ELSE passed

Init ==
  /\ flowKeys \in Bijection(Cells, Flows)
  /\ len = [k \in Flows |-> 0]
  /\ lastSelected = NoFlow
  /\ pc = "idle"
  /\ scanned = 0
  /\ passed = [k \in Flows |-> 0]

-----------------------------------------------------------------------------
(* The dispatch goroutine *)

\* A request is enqueued.
Enqueue(k) ==
  /\ pc = "idle"
  /\ len[k] < MaxLen
  /\ len' = [len EXCEPT ![k] = @ + 1]
  /\ UNCHANGED <<flowKeys, lastSelected, pc, scanned, passed>>

\* SelectQueue is called.
Call ==
  /\ pc = "idle"
  /\ pc' = "sort"
  /\ UNCHANGED <<flowKeys, len, lastSelected, scanned, passed>>

\* The sort exchanges the first two neighbours that are out of order.
Swap ==
  /\ pc = "sort" /\ Inversions # {}
  /\ LET j == FirstInversion
     IN  flowKeys' = [flowKeys EXCEPT ![j] = flowKeys[j - 1], ![j - 1] = flowKeys[j]]
  /\ UNCHANGED <<len, lastSelected, pc, scanned, passed>>

Sorted ==
  /\ pc = "sort" /\ Inversions = {}
  /\ pc' = "scan"
  /\ scanned' = 0
  /\ UNCHANGED <<flowKeys, len, lastSelected, passed>>

\* One round of the loop over the flows: the queue is not empty and taken.
Take ==
  /\ pc = "scan" /\ scanned < numFlows
  /\ len[CurrentKey] > 0
  /\ lastSelected' = CurrentKey
  /\ pc' = "dispatch"
  /\ passed' = [k \in Flows |-> IF k # CurrentKey /\ len[k] > 0 THEN passed[k] + 1 ELSE 0]
  /\ UNCHANGED <<flowKeys, len, scanned>>

\* The queue is empty: look at the next.
Skip ==
  /\ pc = "scan" /\ scanned < numFlows
  /\ len[CurrentKey] = 0
  /\ scanned' = scanned + 1
  /\ UNCHANGED <<flowKeys, len, lastSelected, pc, passed>>

\* No queue holds anything.
GiveUp ==
  /\ pc = "scan" /\ scanned = numFlows
  /\ lastSelected' = NoFlow
  /\ pc' = "idle"
  /\ UNCHANGED <<flowKeys, len, scanned, passed>>

\* The head of the selected queue is dispatched, unless it is gone by now.
Dispatch ==
  /\ pc = "dispatch"
  /\ IF len[lastSelected] > 0 THEN Shrink(lastSelected) ELSE UNCHANGED <<len, passed>>
  /\ pc' = "idle"
  /\ UNCHANGED <<flowKeys, lastSelected, scanned>>

-----------------------------------------------------------------------------
(* The workers of the cleanup *)

\* A worker removes an expired request from the queue of k.
Expire(k) ==
  /\ len[k] > 0
  /\ Shrink(k)
  /\ UNCHANGED <<flowKeys, lastSelected, pc, scanned>>

-----------------------------------------------------------------------------
Next ==
  \/ \E k \in Flows : Enqueue(k) \/ Expire(k)
  \/ Call \/ Swap \/ Sorted
  \/ Take \/ Skip \/ GiveUp \/ Dispatch

Spec == Init /\ [][Next]_vars

-----------------------------------------------------------------------------
(* Properties *)

\* However flows fill, drain and expire during the search, a flow that stays
\* backlogged is passed over by selectNextQueue at most once for each other
\* flow before its turn comes.
BoundedBypass == \A k \in Flows : passed[k] <= numFlows - 1

\* Why it holds.  The types and the keys, which are moved only while no flow
\* has been selected yet.
TypeOK ==
  /\ flowKeys \in Bijection(Cells, Flows)
  /\ len \in [Flows -> Nat] /\ passed \in [Flows -> Nat]
  /\ lastSelected \in Flows \cup {NoFlow}
  /\ pc \in {"idle", "sort", "scan", "dispatch"}
  /\ pc = "dispatch" => lastSelected \in Flows
  /\ scanned \in 0 .. numFlows

KeysSettled == lastSelected # NoFlow \/ pc \in {"scan", "dispatch"} => Inversions = {}

\* The cell the search looks at in its round i.
CellAt(i) == (StartIndex + i) % numFlows

\* The rounds of the search before that of flow k.
Distance(k) == (IndexOf(k) - StartIndex) % numFlows

\* What the search has left behind is empty: only Run adds to queues.
ScannedEmpty == pc = "scan" => \A i \in 0 .. scanned - 1 : len[flowKeys[CellAt(i)]] = 0

\* An empty queue has not been passed, and each time a flow is passed it comes
\* closer to the start of the search.
TurnComesCloser ==
  /\ \A k \in Flows : len[k] = 0 => passed[k] = 0
  /\ lastSelected = NoFlow => \A k \in Flows : passed[k] = 0
  /\ \A k \in Flows : passed[k] + Distance(k) <= numFlows - 1

Inv == TypeOK /\ KeysSettled /\ ScannedEmpty /\ TurnComesCloser

=============================================================================
