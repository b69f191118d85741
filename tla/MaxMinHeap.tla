----------------------------- MODULE MaxMinHeap -----------------------------
(***************************************************************************)
(* The max-min heap queue.  Every method runs under the queue's mutex, so  *)
(* each is one action; the loops inside are operators on the pair of the   *)
(* array and the index that each item's handle holds.                      *)
(* Source: pkg/epp/flowcontrol/framework/plugins/queue/maxminheap.         *)
(***************************************************************************)
EXTENDS Integers, FiniteSets, FiniteSetsExt, Functions

CONSTANTS
  Items,       \* requests that may be in the queue
  PriorityOf,  \* the score the comparator compares; a higher one goes first
  SizeOf,      \* req.ByteSize()
  NoItem,      \* the result of peeking at an empty queue
  MaxLen       \* bound on the length of the queue

VARIABLES
  items,    \* h.items, a function on 0 .. n-1
  index,    \* heapItem.index of the handles in h.handles, by item
  byteSize  \* h.byteSize

vars == <<items, index, byteSize>>

-----------------------------------------------------------------------------
(* A heap is a record of the array and of the handles' indices. *)

Length(h) == Cardinality(DOMAIN h.items)

\* comparator.Func()(a, b): a goes before b.
Before(a, b) == PriorityOf[a] > PriorityOf[b]

\* The same for the items at two indices of the array.
Above(h, i, j) == Before(h.items[i], h.items[j])

\* int(math.Log2(float64(i+1))) is odd.
isMinLevel(i) == \E k \in 0 .. i : 2 ^ (2 * k + 1) <= i + 1 /\ i + 1 < 2 ^ (2 * k + 2)

Parent(i) == (i - 1) \div 2

\* Mutant: the handles keep their old indices.
swapItemsOnly(h, i, j) ==
  [h EXCEPT !.items = [h.items EXCEPT ![i] = h.items[j], ![j] = h.items[i]]]

swap(h, i, j) ==
  [items |-> [h.items EXCEPT ![i] = h.items[j], ![j] = h.items[i]],
   index |-> [h.index EXCEPT ![h.items[i]] = j, ![h.items[j]] = i]]

\* upMin and upMax: bubble up over the grandparents.
RECURSIVE upMin(_, _), upMax(_, _)

upMin(h, i) ==
  LET g == Parent(Parent(i))
  IN  IF Parent(i) > 0 /\ Above(h, g, i) THEN upMin(swap(h, i, g), g) ELSE h

upMax(h, i) ==
  LET g == Parent(Parent(i))
  IN  IF Parent(i) > 0 /\ Above(h, i, g) THEN upMax(swap(h, i, g), g) ELSE h

up(h, i) ==
  LET p == Parent(i)
  IN  CASE i = 0 -> h
        [] i # 0 /\ isMinLevel(i) ->
             IF Above(h, i, p) THEN upMax(swap(h, i, p), p) ELSE upMin(h, i)
        [] OTHER ->
             IF Above(h, p, i) THEN upMin(swap(h, i, p), p) ELSE upMax(h, i)

\* The children and grandchildren of i.
Family(h, i) == ((2 * i + 1 .. 2 * i + 2) \cup (4 * i + 3 .. 4 * i + 6)) \cap DOMAIN h.items

\* The first of the smallest, and the first of the largest, in index order.
findSmallestChildOrGrandchild(h, i) ==
  CHOOSE m \in Family(h, i) : \A j \in Family(h, i) : Above(h, j, m) \/ (~Above(h, m, j) /\ m <= j)

findLargestChildOrGrandchild(h, i) ==
  CHOOSE m \in Family(h, i) : \A j \in Family(h, i) : Above(h, m, j) \/ (~Above(h, j, m) /\ m <= j)

RECURSIVE downMin(_, _), downMax(_, _)

\* Swap with the smallest descendant m of the next two levels, put right m
\* and its parent when m is a grandchild, and go on from m.
downMin(h, i) ==
  LET m == findSmallestChildOrGrandchild(h, i)
      s == swap(h, i, m)
      t == IF Parent(m) # i /\ Above(s, m, Parent(m)) THEN swap(s, m, Parent(m)) ELSE s
  IN  IF Family(h, i) # {} /\ Above(h, i, m) THEN downMin(t, m) ELSE h

downMax(h, i) ==
  LET m == findLargestChildOrGrandchild(h, i)
      s == swap(h, i, m)
      t == IF Parent(m) # i /\ Above(s, Parent(m), m) THEN swap(s, m, Parent(m)) ELSE s
  IN  IF Family(h, i) # {} /\ Above(h, m, i) THEN downMax(t, m) ELSE h

down(h, i) == IF isMinLevel(i) THEN downMin(h, i) ELSE downMax(h, i)

\* The loop of Cleanup: down from the last node with a child to the root.
RECURSIVE heapify(_, _)

heapify(h, i) == IF i < 0 THEN h ELSE heapify(down(h, i), i - 1)

heap == [items |-> items, index |-> index]

Content == Range(items)

Bytes(S) == MapThenSumSet(LAMBDA i : SizeOf[i], S)

Install(h) == items' = h.items /\ index' = h.index

-----------------------------------------------------------------------------
(* The methods *)

PeekHead == IF items = <<>> THEN NoItem ELSE items[0]

PeekTail ==
  CASE Length(heap) = 0 -> NoItem
    [] Length(heap) = 1 -> items[0]
    [] Length(heap) = 2 -> items[1]
    [] OTHER -> IF Above(heap, 1, 2) THEN items[2] ELSE items[1]

\* Add: push and up.
Add(i) ==
  LET n == Length(heap)
  IN  /\ i \notin Content
      /\ n < MaxLen
      /\ Install(up([items |-> [k \in 0 .. n |-> IF k = n THEN i ELSE items[k]],
                     index |-> [j \in Content \cup {i} |-> IF j = i THEN n ELSE index[j]]], n))
      /\ byteSize' = byteSize + SizeOf[i]

\* Remove, given a valid handle of this queue: swap with the last item, cut
\* it off, and move the item that took its place down.
Remove(i) ==
  LET n == Length(heap) - 1
      k == index[i]
      h == swap(heap, k, n)
      cut == [items |-> Restrict(h.items, 0 .. n - 1), index |-> Restrict(h.index, Content \ {i})]
  IN  /\ i \in Content
      /\ Install(IF k < n THEN down(cut, k) ELSE cut)
      /\ byteSize' = byteSize - SizeOf[i]

\* Mutant: the rest is not made a heap again.
CleanupNoHeapify(S) ==
  LET kept == {k \in DOMAIN items : items[k] \notin S}
      rank == [k \in kept |-> Cardinality({j \in kept : j < k})]
      rest == [r \in 0 .. Cardinality(kept) - 1 |-> items[CHOOSE k \in kept : rank[k] = r]]
  IN  /\ S # {} /\ S \subseteq Content
      /\ items' = rest
      /\ index' = [i \in Content \ S |-> rank[index[i]]]
      /\ byteSize' = byteSize - Bytes(S)

\* Cleanup, where S are the items the predicate holds of: the others keep
\* their order in the array, get their new indices, and are made a heap.
Cleanup(S) ==
  LET kept == {k \in DOMAIN items : items[k] \notin S}
      rank == [k \in kept |-> Cardinality({j \in kept : j < k})]
      rest == [r \in 0 .. Cardinality(kept) - 1 |-> items[CHOOSE k \in kept : rank[k] = r]]
  IN  /\ S # {} /\ S \subseteq Content
      /\ Install(heapify([items |-> rest, index |-> [i \in Content \ S |-> rank[index[i]]]],
                         Cardinality(kept) \div 2 - 1))
      /\ byteSize' = byteSize - Bytes(S)

Drain ==
  /\ Content # {}
  /\ items' = <<>>
  /\ index' = <<>>
  /\ byteSize' = 0

-----------------------------------------------------------------------------
Init == items = <<>> /\ index = <<>> /\ byteSize = 0

Next ==
  \/ \E i \in Items : Add(i) \/ Remove(i)
  \/ \E S \in SUBSET Content : Cleanup(S)
  \/ Drain

\* The queue used through the whole SafeQueue interface.
Spec == Init /\ [][Next]_vars

\* The queue as the dispatch loop uses it: it removes what it peeked.
DispatchNext ==
  \/ \E i \in Items : Add(i)
  \/ Content # {} /\ Remove(PeekHead)
  \/ \E S \in SUBSET Content : Cleanup(S)
  \/ Drain

DispatchSpec == Init /\ [][DispatchNext]_vars

-----------------------------------------------------------------------------
(* Properties *)

SafeQueue ==
  INSTANCE PriorityQueue WITH content <- Content, head <- PeekHead, tail <- PeekTail

\* The heap implements the contract of SafeQueue: after any sequence of Add,
\* Remove of the head, Cleanup and Drain it holds what it should, and
\* PeekHead and PeekTail return items of the highest and lowest priority.
\* It does so when no two items have the same priority and nothing but the
\* head is removed; HeapRemove shows what happens otherwise.
ImplementsSafeQueue == SafeQueue!Spec

\* The handles lead to their items and the byte count is that of the contents,
\* through all the swaps of up, down and Cleanup.
HandlesExact ==
  /\ DOMAIN index = Content
  /\ \A i \in Content : index[i] \in DOMAIN items /\ items[index[i]] = i
  /\ byteSize = Bytes(Content)

\* PeekTail: "the minimum element is guaranteed to be one of the two children
\* of the root".
MinimumIsChildOfRoot == Content # {} => \A i \in Content : ~Before(PeekTail, i)

=============================================================================
