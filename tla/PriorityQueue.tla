---------------------------- MODULE PriorityQueue ----------------------------
(***************************************************************************)
(* What framework.SafeQueue promises of a queue with the capability        *)
(* PriorityConfigurable: a set of items, of which PeekHead returns one of  *)
(* highest priority and PeekTail one of lowest, whatever was added and     *)
(* removed before.  Source: pkg/epp/flowcontrol/framework/queue.go.        *)
(***************************************************************************)
CONSTANTS
  Items,         \* requests
  Before(_, _),  \* the comparator: the first argument has the higher priority
  NoItem         \* what peeking at an empty queue returns

VARIABLES content, head, tail

pqVars == <<content, head, tail>>

\* What PeekHead and PeekTail may return for a queue that holds S.
Peekable(S) ==
  IF S = {} THEN head' = NoItem /\ tail' = NoItem
  ELSE /\ head' \in {i \in S : \A j \in S : ~Before(j, i)}
       /\ tail' \in {i \in S : \A j \in S : ~Before(i, j)}

Init == content = {} /\ head = NoItem /\ tail = NoItem

Add(i) ==
  /\ i \notin content
  /\ content' = content \cup {i}
  /\ Peekable(content')

Remove(i) ==
  /\ i \in content
  /\ content' = content \ {i}
  /\ Peekable(content')

\* Cleanup with the predicate that holds of the items in S; Drain is the case
\* where it holds of all.
Cleanup(S) ==
  /\ S # {} /\ S \subseteq content
  /\ content' = content \ S
  /\ Peekable(content')

Next ==
  \/ \E i \in Items : Add(i) \/ Remove(i)
  \/ \E S \in SUBSET content : Cleanup(S)

Spec == Init /\ [][Next]_pqVars

=============================================================================
