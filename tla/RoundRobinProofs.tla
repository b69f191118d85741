-------------------------- MODULE RoundRobinProofs --------------------------
(***************************************************************************)
(* Theorems about RoundRobin, for any number of flows.                     *)
(***************************************************************************)
EXTENDS RoundRobin, FiniteSetTheorems, WellFoundedInduction, TLAPS

-----------------------------------------------------------------------------
(* Arithmetic *)

\* A non-empty set of naturals has a least element.
LEMMA LeastNatural ==
  ASSUME NEW S \in SUBSET Nat, S # {}
  PROVE  \E m \in S : \A k \in S : m <= k
<1> DEFINE R == OpToRel(<, Nat)
<1>1. IsWellFoundedOn(R, Nat)
  BY NatLessThanWellFounded
<1>2. \A x, y \in Nat : <<x, y>> \in R <=> x < y
  BY DEF OpToRel
<1> HIDE DEF R
<1>3. PICK m \in S : \A k \in S : ~ (<<k, m>> \in R)
  BY <1>1, WFMin
<1>4. \A k \in S : ~ (k < m)
  BY <1>2, <1>3
<1> QED
  BY <1>3, <1>4

\* There is at least one flow, and as many cells.
LEMMA NumFlowsType == numFlows \in Nat \ {0}
  BY RoundRobinAssumption, FS_CardinalityType, FS_EmptySet DEF numFlows

\* The remainder of what is at most one turn away.
LEMMA Turn ==
  ASSUME NEW k \in Nat \ {0}, NEW a \in Int, -k <= a, a < 2 * k
  PROVE  a % k = IF a < 0 THEN a + k ELSE IF a < k THEN a ELSE a - k
<1>1. a % k \in 0 .. k - 1 /\ a = k * (a \div k) + (a % k) /\ a \div k \in Int
  OBVIOUS
<1> DEFINE q == a \div k
           r == a % k
<1>2. r \in 0 .. k - 1 /\ a = k * q + r /\ q \in Int
  BY <1>1
<1> HIDE DEF q, r
<1>3. q >= -1
  <2> SUFFICES ASSUME q <= -2 PROVE FALSE
    BY <1>2
  <2>1. k * q <= k * (-2)
    BY <1>2
  <2> QED
    BY <1>2, <2>1
<1>4. q <= 1
  <2> SUFFICES ASSUME q >= 2 PROVE FALSE
    BY <1>2
  <2>1. k * q >= k * 2
    BY <1>2
  <2> QED
    BY <1>2, <2>1
<1>5. q = -1 \/ q = 0 \/ q = 1
  BY <1>2, <1>3, <1>4
<1>6. r = IF a < 0 THEN a + k ELSE IF a < k THEN a ELSE a - k
  <2>1. CASE q = -1  BY <1>2, <2>1
  <2>2. CASE q = 0  BY <1>2, <2>2
  <2>3. CASE q = 1  BY <1>2, <2>3
  <2> QED  BY <1>5, <2>1, <2>2, <2>3
<1> QED
  BY <1>6 DEF r

\* The same forwards from a cell.
LEMMA Forwards ==
  ASSUME NEW k \in Nat \ {0}, NEW x \in 0 .. k - 1, NEW i \in 0 .. k
  PROVE  /\ (x + i) % k = IF x + i < k THEN x + i ELSE x + i - k
         /\ (x + i) % k \in 0 .. k - 1
<1> DEFINE a == x + i
<1>1. a \in Int /\ -k <= a /\ a < 2 * k /\ ~ (a < 0)
  OBVIOUS
<1> HIDE DEF a
<1>2. a % k = IF a < k THEN a ELSE a - k
  BY <1>1, Turn
<1> QED
  BY <1>2 DEF a

\* And backwards.
LEMMA Backwards ==
  ASSUME NEW k \in Nat \ {0}, NEW x \in 0 .. k - 1, NEW y \in 0 .. k - 1
  PROVE  /\ (x - y) % k = IF x < y THEN x - y + k ELSE x - y
         /\ (x - y) % k \in 0 .. k - 1
<1> DEFINE a == x - y
<1>1. a \in Int /\ -k <= a /\ a < 2 * k /\ a < k
  OBVIOUS
<1> HIDE DEF a
<1>2. a % k = IF a < 0 THEN a + k ELSE a
  BY <1>1, Turn
<1> QED
  BY <1>2 DEF a

\* Starting behind round s brings round d, which is later, s + 1 rounds closer.
LEMMA Closer ==
  ASSUME NEW k \in Nat \ {0}, NEW st \in 0 .. k - 1,
         NEW s \in 0 .. k - 1, NEW d \in 0 .. k - 1, s < d
  PROVE  (((st + d) % k) - ((((st + s) % k) + 1) % k)) % k = d - s - 1
<1> DEFINE x == (st + d) % k
           c == (st + s) % k
           n == (c + 1) % k
<1>0. s \in 0 .. k /\ d \in 0 .. k /\ 1 \in 0 .. k
  OBVIOUS
<1>1. x = (IF st + d < k THEN st + d ELSE st + d - k) /\ x \in 0 .. k - 1
  BY <1>0, Forwards
<1>2. c = (IF st + s < k THEN st + s ELSE st + s - k) /\ c \in 0 .. k - 1
  BY <1>0, Forwards
<1> HIDE DEF x, c
<1>3. n = (IF c + 1 < k THEN c + 1 ELSE c + 1 - k) /\ n \in 0 .. k - 1
  BY <1>0, <1>2, Forwards
<1> HIDE DEF n
<1>4. (x - n) % k = IF x < n THEN x - n + k ELSE x - n
  BY <1>1, <1>3, Backwards, ZenonT(30)
<1>5. (x - n) % k = d - s - 1
  BY <1>1, <1>2, <1>3, <1>4
<1> QED
  BY <1>5 DEF x, c, n

-----------------------------------------------------------------------------
(* The keys and the search *)

\* Every flow is in one cell.
LEMMA KeyCells ==
  ASSUME flowKeys \in Bijection(Cells, Flows)
  PROVE  /\ flowKeys \in [Cells -> Flows]
         /\ \A k \in Flows : IndexOf(k) \in Cells /\ flowKeys[IndexOf(k)] = k
         /\ \A c \in Cells : IndexOf(flowKeys[c]) = c
<1>1. /\ flowKeys \in [Cells -> Flows]
      /\ \A a, b \in Cells : flowKeys[a] = flowKeys[b] => a = b
      /\ \A k \in Flows : \E c \in Cells : flowKeys[c] = k
  BY DEF Bijection, Injection, Surjection, IsInjective
<1>2. \A k \in Flows : IndexOf(k) \in Cells /\ flowKeys[IndexOf(k)] = k
  BY <1>1 DEF IndexOf
<1> QED
  BY <1>1, <1>2

\* The search starts at a cell and visits each flow at its distance.
LEMMA Rounds ==
  ASSUME flowKeys \in Bijection(Cells, Flows), lastSelected \in Flows \cup {NoFlow}
  PROVE  /\ StartIndex \in Cells
         /\ \A i \in Cells : CellAt(i) \in Cells
         /\ \A k \in Flows : Distance(k) \in Cells /\ CellAt(Distance(k)) = IndexOf(k)
<1>1. numFlows \in Nat \ {0} /\ Cells = 0 .. numFlows - 1
  BY NumFlowsType DEF Cells
<1>2. StartIndex \in Cells
  BY <1>1, KeyCells, Forwards DEF StartIndex
<1>3. \A i \in Cells : CellAt(i) \in Cells
  BY <1>1, <1>2, Forwards DEF CellAt
<1>4. ASSUME NEW k \in Flows
      PROVE  Distance(k) \in Cells /\ CellAt(Distance(k)) = IndexOf(k)
  <2> DEFINE x == IndexOf(k)
             d == Distance(k)
             st == StartIndex
  <2>1. x \in Cells /\ st \in Cells
    BY <1>2, KeyCells
  <2>2. d = (x - st) % numFlows
    BY DEF Distance
  <2>3. CellAt(d) = (st + d) % numFlows
    BY DEF CellAt
  <2> HIDE DEF x, d, st
  <2>4. d = (IF x < st THEN x - st + numFlows ELSE x - st) /\ d \in Cells
    BY <1>1, <2>1, <2>2, Backwards
  <2>5. d \in 0 .. numFlows
    BY <1>1, <2>4
  <2>6. (st + d) % numFlows = IF st + d < numFlows THEN st + d ELSE st + d - numFlows
    BY <1>1, <2>1, <2>5, Forwards
  <2>7. (st + d) % numFlows = x
    BY <1>1, <2>1, <2>4, <2>6
  <2> QED
    BY <2>3, <2>4, <2>7 DEF x, d, st
<1> QED
  BY <1>2, <1>3, <1>4

\* The exchange of two neighbours keeps every flow in one cell.
LEMMA SwapKeeps ==
  ASSUME NEW f \in Bijection(Cells, Flows), NEW i \in Cells, NEW j \in Cells
  PROVE  [f EXCEPT ![i] = f[j], ![j] = f[i]] \in Bijection(Cells, Flows)
<1> DEFINE g == [f EXCEPT ![i] = f[j], ![j] = f[i]]
<1>1. /\ f \in [Cells -> Flows]
      /\ \A a, b \in Cells : f[a] = f[b] => a = b
      /\ \A k \in Flows : \E c \in Cells : f[c] = k
  BY DEF Bijection, Injection, Surjection, IsInjective
<1>2. /\ g \in [Cells -> Flows]
      /\ \A c \in Cells : g[c] = IF c = j THEN f[i] ELSE IF c = i THEN f[j] ELSE f[c]
  BY <1>1
<1> HIDE DEF g
<1>3. \A a, b \in Cells : g[a] = g[b] => a = b
  BY <1>1, <1>2
<1>4. ASSUME NEW k \in Flows PROVE \E c \in Cells : g[c] = k
  <2>1. PICK c \in Cells : f[c] = k
    BY <1>1
  <2> QED
    BY <1>2, <2>1
<1>5. g \in Bijection(Cells, Flows)
  BY <1>2, <1>3, <1>4 DEF Bijection, Injection, Surjection, IsInjective
<1> QED
  BY <1>5 DEF g

\* An inversion is a cell with a cell before it.
LEMMA InversionCell ==
  ASSUME Inversions # {}
  PROVE  FirstInversion \in Cells /\ FirstInversion - 1 \in Cells
<1>1. Inversions \in SUBSET Nat /\ \A j \in Inversions : j \in Cells /\ j > 0
  BY DEF Inversions, Cells
<1>2. \E j \in Inversions : \A k \in Inversions : j <= k
  BY <1>1, LeastNatural
<1>3. FirstInversion \in Inversions
  BY <1>2 DEF FirstInversion
<1> QED
  BY <1>1, <1>3, NumFlowsType DEF Cells

\* The search depends on the keys and on the flow selected last only.
LEMMA SameSearch ==
  ASSUME flowKeys' = flowKeys, lastSelected' = lastSelected
  PROVE  /\ Inversions' = Inversions
         /\ \A i \in Cells : CellAt(i)' = CellAt(i)
         /\ \A k \in Flows : Distance(k)' = Distance(k)
  BY DEF Inversions, CellAt, Distance, StartIndex, IndexOf

\* Without a flow selected last the search starts at the first cell.
LEMMA FreshSearch ==
  ASSUME flowKeys' \in Bijection(Cells, Flows), lastSelected' = NoFlow
  PROVE  \A k \in Flows : Distance(k)' \in Cells
<1> SUFFICES ASSUME NEW k \in Flows PROVE Distance(k)' \in Cells
  OBVIOUS
<1>1. numFlows \in Nat \ {0} /\ Cells = 0 .. numFlows - 1
  BY NumFlowsType DEF Cells
<1>2. \E c \in Cells : flowKeys'[c] = k
  BY DEF Bijection, Surjection
<1>3. IndexOf(k)' \in Cells
  BY <1>2 DEF IndexOf
<1>4. Distance(k)' = (IndexOf(k)' - 0) % numFlows
  BY DEF Distance, StartIndex
<1> QED
  BY <1>1, <1>3, <1>4, Backwards

-----------------------------------------------------------------------------
(* The inductive invariant *)

\* It holds at first.
LEMMA InvInit == Init => Inv
<1> SUFFICES ASSUME Init PROVE Inv
  OBVIOUS
<1>1. numFlows \in Nat \ {0} /\ Cells = 0 .. numFlows - 1
  BY NumFlowsType DEF Cells
<1>2. TypeOK
  BY <1>1 DEF Init, TypeOK
<1>3. KeysSettled /\ ScannedEmpty
  BY DEF Init, KeysSettled, ScannedEmpty
<1>4. TurnComesCloser
  <2>1. \A k \in Flows : Distance(k) \in Cells
    BY <1>2, Rounds DEF TypeOK
  <2>2. \A k \in Flows : passed[k] = 0
    BY DEF Init
  <2> QED
    BY <1>1, <2>1, <2>2 DEF TurnComesCloser
<1> QED
  BY <1>2, <1>3, <1>4 DEF Inv

\* A queue becomes shorter, at any time.
LEMMA ShrinkKeeps ==
  ASSUME Inv, NEW k \in Flows, len[k] > 0, Shrink(k),
         flowKeys' = flowKeys, lastSelected' = lastSelected
  PROVE  /\ len' \in [Flows -> Nat] /\ passed' \in [Flows -> Nat]
         /\ \A j \in Flows : len'[j] <= len[j]
         /\ TurnComesCloser'
<1>1. len \in [Flows -> Nat] /\ passed \in [Flows -> Nat]
  BY DEF Inv, TypeOK
<1>2. /\ len' \in [Flows -> Nat] /\ passed' \in [Flows -> Nat]
      /\ \A j \in Flows : len'[j] = IF j = k THEN len[k] - 1 ELSE len[j]
      /\ \A j \in Flows : passed'[j] = IF j = k /\ len[k] = 1 THEN 0 ELSE passed[j]
  BY <1>1 DEF Shrink
<1>3. \A j \in Flows : len'[j] = 0 => passed'[j] = 0
  BY <1>1, <1>2 DEF Inv, TurnComesCloser
<1>4. lastSelected' = NoFlow => \A j \in Flows : passed'[j] = 0
  BY <1>2 DEF Inv, TurnComesCloser
<1>5. ASSUME NEW j \in Flows PROVE passed'[j] + Distance(j)' <= numFlows - 1
  <2>1. Distance(j)' = Distance(j) /\ Distance(j) \in Cells
    BY SameSearch, Rounds DEF Inv, TypeOK
  <2>2. passed[j] + Distance(j) <= numFlows - 1
    BY DEF Inv, TurnComesCloser
  <2>3. passed'[j] <= passed[j] /\ passed[j] \in Nat /\ passed'[j] \in Nat
    BY <1>1, <1>2
  <2> QED
    BY <2>1, <2>2, <2>3, NumFlowsType DEF Cells
<1> QED
  BY <1>1, <1>2, <1>3, <1>4, <1>5 DEF TurnComesCloser

\* The selected flow and the flows passed over: the search that follows starts
\* behind the selected one, so everyone who waits has come closer.
LEMMA TakeKeeps ==
  ASSUME Inv, Take
  PROVE  TypeOK' /\ TurnComesCloser'
<1> DEFINE c == CellAt(scanned)
<1>1. numFlows \in Nat \ {0} /\ Cells = 0 .. numFlows - 1
  BY NumFlowsType DEF Cells
<1>2. /\ flowKeys \in Bijection(Cells, Flows)
      /\ lastSelected \in Flows \cup {NoFlow}
      /\ len \in [Flows -> Nat] /\ passed \in [Flows -> Nat]
      /\ scanned \in Cells
  BY <1>1 DEF Inv, TypeOK, Take
<1>3. c \in Cells /\ CurrentKey = flowKeys[c] /\ CurrentKey \in Flows
  BY <1>2, KeyCells, Rounds DEF CurrentKey, CellAt
<1>4. /\ flowKeys' = flowKeys /\ len' = len /\ scanned' = scanned /\ pc' = "dispatch"
      /\ lastSelected' = CurrentKey
      /\ passed' \in [Flows -> Nat]
      /\ \A k \in Flows : passed'[k] = IF k # CurrentKey /\ len[k] > 0 THEN passed[k] + 1 ELSE 0
  BY <1>2 DEF Take
<1>5. TypeOK'
  BY <1>2, <1>3, <1>4 DEF Inv, TypeOK
<1>6. StartIndex' = (c + 1) % numFlows
  <2>1. CurrentKey # NoFlow
    BY <1>3, RoundRobinAssumption
  <2>2. (CHOOSE d \in Cells : flowKeys'[d] = lastSelected') = IndexOf(CurrentKey)
    BY <1>4 DEF IndexOf
  <2>3. IndexOf(CurrentKey) = c
    BY <1>2, <1>3, KeyCells
  <2>4. StartIndex' = ((CHOOSE d \in Cells : flowKeys'[d] = lastSelected') + 1) % numFlows
    BY <1>4, <2>1 DEF StartIndex, IndexOf
  <2> QED
    BY <2>2, <2>3, <2>4
<1>7. ASSUME NEW k \in Flows
      PROVE  Distance(k)' = (IndexOf(k) - ((c + 1) % numFlows)) % numFlows
  BY <1>4, <1>6 DEF Distance, IndexOf
<1>8. ASSUME NEW k \in Flows PROVE Distance(k)' \in Cells
  <2>1. 1 \in 0 .. numFlows /\ c \in 0 .. numFlows - 1
    BY <1>1, <1>3
  <2> HIDE DEF c
  <2>2. (c + 1) % numFlows \in 0 .. numFlows - 1
    BY <1>1, <2>1, Forwards
  <2>3. IndexOf(k) \in 0 .. numFlows - 1
    BY <1>1, <1>2, KeyCells
  <2> QED
    BY <1>1, <1>7, <2>2, <2>3, Backwards
<1>9. ASSUME NEW k \in Flows, k # CurrentKey, len[k] > 0
      PROVE  Distance(k)' = Distance(k) - scanned - 1
  <2>1. Distance(k) \in Cells /\ CellAt(Distance(k)) = IndexOf(k) /\ StartIndex \in Cells
    BY <1>2, Rounds
  <2>2. flowKeys[CellAt(Distance(k))] = k
    BY <1>2, <2>1, KeyCells
  <2>3. ~ (Distance(k) < scanned)
    <3>1. Distance(k) < scanned => Distance(k) \in 0 .. scanned - 1
      BY <1>1, <1>2, <2>1
    <3>2. \A i \in 0 .. scanned - 1 : len[flowKeys[CellAt(i)]] = 0
      BY DEF Inv, ScannedEmpty, Take
    <3> QED
      BY <1>2, <1>9, <2>2, <3>1, <3>2
  <2>4. Distance(k) # scanned
    BY <1>3, <1>9, <2>2
  <2>5. scanned < Distance(k)
    BY <1>1, <1>2, <2>1, <2>3, <2>4
  <2>6. IndexOf(k) = (StartIndex + Distance(k)) % numFlows /\ c = (StartIndex + scanned) % numFlows
    BY <2>1 DEF CellAt
  <2> HIDE DEF c
  <2>7. (((StartIndex + Distance(k)) % numFlows)
          - ((((StartIndex + scanned) % numFlows) + 1) % numFlows)) % numFlows
        = Distance(k) - scanned - 1
    BY <1>1, <1>2, <2>1, <2>5, Closer
  <2> QED
    BY <1>7, <2>6, <2>7
<1>10. \A k \in Flows : len'[k] = 0 => passed'[k] = 0
  BY <1>2, <1>4
<1>11. lastSelected' # NoFlow
  BY <1>3, <1>4, RoundRobinAssumption
<1>12. ASSUME NEW k \in Flows PROVE passed'[k] + Distance(k)' <= numFlows - 1
  <2>1. CASE k # CurrentKey /\ len[k] > 0
    <3>1. passed'[k] = passed[k] + 1 /\ Distance(k)' = Distance(k) - scanned - 1
      BY <1>4, <1>9, <2>1
    <3>2. passed[k] + Distance(k) <= numFlows - 1 /\ Distance(k) \in Cells
      BY <1>2, Rounds DEF Inv, TurnComesCloser
    <3> QED
      BY <1>1, <1>2, <3>1, <3>2
  <2>2. CASE ~ (k # CurrentKey /\ len[k] > 0)
    BY <1>1, <1>4, <1>8, <2>2
  <2> QED
    BY <2>1, <2>2
<1> QED
  BY <1>5, <1>10, <1>11, <1>12 DEF TurnComesCloser

\* Every step keeps the invariant.
LEMMA InvStep == Inv /\ [Next]_vars => Inv'
<1> SUFFICES ASSUME Inv, [Next]_vars PROVE Inv'
  OBVIOUS
<1>1. numFlows \in Nat \ {0} /\ Cells = 0 .. numFlows - 1
  BY NumFlowsType DEF Cells
<1> USE DEF Inv
<1>2. ASSUME NEW k \in Flows, Enqueue(k) PROVE Inv'
  <2>1. flowKeys' = flowKeys /\ lastSelected' = lastSelected
    BY <1>2 DEF Enqueue
  <2>2. TypeOK'
    BY <1>2 DEF Enqueue, TypeOK
  <2>3. KeysSettled'
    BY <1>2, <2>1, SameSearch DEF Enqueue, KeysSettled
  <2>4. ScannedEmpty'
    BY <1>2 DEF Enqueue, ScannedEmpty
  <2>5. \A j \in Flows : len'[j] = 0 => len[j] = 0
    BY <1>2 DEF Enqueue, TypeOK
  <2>6. TurnComesCloser'
    BY <1>2, <2>1, <2>5, SameSearch DEF Enqueue, TurnComesCloser
  <2> QED
    BY <2>2, <2>3, <2>4, <2>6
<1>3. ASSUME NEW k \in Flows, Expire(k) PROVE Inv'
  <2>1. /\ flowKeys' = flowKeys /\ lastSelected' = lastSelected /\ pc' = pc
        /\ scanned' = scanned /\ len[k] > 0 /\ Shrink(k)
    BY <1>3 DEF Expire
  <2>2. /\ len' \in [Flows -> Nat] /\ passed' \in [Flows -> Nat]
        /\ \A j \in Flows : len'[j] <= len[j]
        /\ TurnComesCloser'
    BY <2>1, ShrinkKeeps
  <2>3. TypeOK'
    BY <2>1, <2>2 DEF TypeOK
  <2>4. KeysSettled'
    BY <2>1, SameSearch DEF KeysSettled
  <2>5. ScannedEmpty'
    <3> SUFFICES ASSUME pc = "scan", NEW i \in 0 .. scanned - 1
                 PROVE  len'[flowKeys'[CellAt(i)']] = 0
      BY <2>1 DEF ScannedEmpty
    <3>1. i \in Cells
      BY <1>1 DEF TypeOK
    <3>2. CellAt(i)' = CellAt(i) /\ flowKeys[CellAt(i)] \in Flows
      BY <2>1, <3>1, SameSearch, Rounds, KeyCells DEF TypeOK
    <3>3. len[flowKeys[CellAt(i)]] = 0
      BY DEF ScannedEmpty
    <3> QED
      BY <2>1, <2>2, <3>2, <3>3 DEF TypeOK
  <2> QED
    BY <2>2, <2>3, <2>4, <2>5
<1>4. CASE Call
  BY <1>4, SameSearch DEF Call, TypeOK, KeysSettled, ScannedEmpty, TurnComesCloser
<1>6. CASE Swap
  <2>1. Inversions # {} /\ lastSelected = NoFlow
    BY <1>6 DEF Swap, KeysSettled
  <2>2. flowKeys' \in Bijection(Cells, Flows)
    BY <1>6, <2>1, InversionCell, SwapKeeps DEF Swap, TypeOK
  <2>3. TypeOK'
    BY <1>6, <2>2 DEF Swap, TypeOK
  <2>4. KeysSettled' /\ ScannedEmpty'
    BY <1>6, <2>1 DEF Swap, KeysSettled, ScannedEmpty
  <2>5. TurnComesCloser'
    <3>1. \A k \in Flows : passed'[k] = 0
      BY <1>6, <2>1 DEF Swap, TurnComesCloser
    <3>2. \A k \in Flows : Distance(k)' \in Cells
      BY <1>6, <2>1, <2>2, FreshSearch DEF Swap
    <3> QED
      BY <1>1, <3>1, <3>2 DEF TurnComesCloser
  <2> QED
    BY <2>3, <2>4, <2>5
<1>7. CASE Sorted
  BY <1>1, <1>7, SameSearch DEF Sorted, TypeOK, KeysSettled, ScannedEmpty, TurnComesCloser
<1>8. CASE Take
  <2>1. TypeOK' /\ TurnComesCloser'
    BY <1>8, TakeKeeps
  <2>2. KeysSettled' /\ ScannedEmpty'
    BY <1>8 DEF Take, KeysSettled, ScannedEmpty, Inversions
  <2> QED
    BY <2>1, <2>2
<1>9. CASE Skip
  <2>1. TypeOK'
    BY <1>1, <1>9 DEF Skip, TypeOK
  <2>2. KeysSettled' /\ TurnComesCloser'
    BY <1>9, SameSearch DEF Skip, KeysSettled, TurnComesCloser
  <2>3. ScannedEmpty'
    <3> SUFFICES ASSUME NEW i \in 0 .. scanned PROVE len[flowKeys[CellAt(i)']] = 0
      BY <1>9 DEF Skip, ScannedEmpty, TypeOK
    <3>1. CellAt(i)' = CellAt(i)
      BY <1>1, <1>9, SameSearch DEF Skip, TypeOK
    <3>2. CASE i = scanned
      BY <1>9, <3>1, <3>2 DEF Skip, CurrentKey, CellAt
    <3>3. CASE i # scanned
      BY <1>9, <3>1, <3>3 DEF Skip, ScannedEmpty, TypeOK
    <3> QED
      BY <3>2, <3>3
  <2> QED
    BY <2>1, <2>2, <2>3
<1>10. CASE GiveUp
  <2>1. TypeOK' /\ KeysSettled' /\ ScannedEmpty'
    BY <1>10 DEF GiveUp, TypeOK, KeysSettled, ScannedEmpty, Inversions
  <2>2. ASSUME NEW k \in Flows PROVE passed[k] = 0
    <3>1. Distance(k) \in 0 .. scanned - 1 /\ flowKeys[CellAt(Distance(k))] = k
      BY <1>1, <1>10, Rounds, KeyCells DEF GiveUp, TypeOK
    <3>2. len[k] = 0
      BY <1>10, <3>1 DEF GiveUp, ScannedEmpty
    <3> QED
      BY <3>2 DEF TurnComesCloser
  <2>3. \A k \in Flows : Distance(k)' \in Cells
    BY <1>10, <2>1, FreshSearch DEF GiveUp, TypeOK
  <2>4. TurnComesCloser'
    BY <1>1, <1>10, <2>2, <2>3 DEF GiveUp, TurnComesCloser
  <2> QED
    BY <2>1, <2>4
<1>11. CASE Dispatch
  <2>1. /\ flowKeys' = flowKeys /\ lastSelected' = lastSelected /\ pc' = "idle"
        /\ scanned' = scanned
    BY <1>11 DEF Dispatch
  <2>2. KeysSettled' /\ ScannedEmpty'
    BY <1>11, <2>1, SameSearch DEF Dispatch, KeysSettled, ScannedEmpty
  <2>3. CASE lastSelected \in Flows /\ len[lastSelected] > 0
    <3>1. Shrink(lastSelected)
      BY <1>11, <2>3 DEF Dispatch
    <3>2. len' \in [Flows -> Nat] /\ passed' \in [Flows -> Nat] /\ TurnComesCloser'
      BY <2>1, <2>3, <3>1, ShrinkKeeps
    <3>3. TypeOK'
      BY <2>1, <3>2 DEF TypeOK
    <3> QED
      BY <2>2, <3>2, <3>3
  <2>4. CASE UNCHANGED <<len, passed>>
    BY <2>1, <2>2, <2>4, SameSearch DEF TypeOK, TurnComesCloser
  <2> QED
    BY <1>11, <2>3, <2>4 DEF Dispatch, TypeOK
<1>12. CASE UNCHANGED vars
  <2>1. UNCHANGED <<flowKeys, len, lastSelected, pc, scanned, passed>>
    BY <1>12 DEF vars
  <2>2. TypeOK' /\ KeysSettled' /\ TurnComesCloser'
    BY <2>1, SameSearch DEF TypeOK, KeysSettled, TurnComesCloser
  <2>3. ScannedEmpty'
    <3> SUFFICES ASSUME pc = "scan", NEW i \in 0 .. scanned - 1
                 PROVE  len[flowKeys[CellAt(i)']] = 0
      BY <2>1 DEF ScannedEmpty
    <3>1. CellAt(i)' = CellAt(i)
      BY <1>1, <2>1, SameSearch DEF TypeOK
    <3> QED
      BY <3>1 DEF ScannedEmpty
  <2> QED
    BY <2>2, <2>3
<1> QED
  BY <1>2, <1>3, <1>4, <1>6, <1>7, <1>8, <1>9, <1>10, <1>11, <1>12 DEF Next

-----------------------------------------------------------------------------
(* Theorems *)

\* Round robin is fair for any number of flows: whatever is enqueued and
\* expires during selectNextQueue's search, a flow that stays backlogged is
\* passed over at most once for each other flow.
THEOREM FairTurns == Spec => []BoundedBypass
<1>1. Inv => BoundedBypass
  <2> SUFFICES ASSUME Inv, NEW k \in Flows PROVE passed[k] <= numFlows - 1
    BY DEF BoundedBypass
  <2>1. passed[k] + Distance(k) <= numFlows - 1 /\ passed[k] \in Nat
    BY DEF Inv, TurnComesCloser, TypeOK
  <2>2. Distance(k) \in Cells
    BY Rounds DEF Inv, TypeOK
  <2> QED
    BY <2>1, <2>2, NumFlowsType DEF Cells
<1> QED
  BY <1>1, InvInit, InvStep, PTL DEF Spec

=============================================================================
