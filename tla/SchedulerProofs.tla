-------------------------- MODULE SchedulerProofs --------------------------
(***************************************************************************)
(* Scheduling, for any number of requests, pods, prompts and profiles: the  *)
(* prefix index, the lookups in it and the picker; and the snapshots that   *)
(* the cycles are scored on.                                                *)
(*                                                                          *)
(* The invariant of the cycles has four parts.  IndexExact says of every    *)
(* pod what its LRU and the reverse map hold at each point of an Add:       *)
(* the hashes it has put in are the LRU's last ones, which is why an        *)
(* eviction never hits them.  WalksExact says that while nothing is dropped *)
(* the reverse map has whole prefixes only, which rests on a fact about     *)
(* hash chains (SameHash: two requests that share a hash share its position *)
(* and the hashes before it), and bounds what a walk has counted so far.    *)
(* CyclesTyped has the types and what each program point has prepared.      *)
(*                                                                          *)
(* The invariant of an endpoint's memory says who may write where: the      *)
(* object the collector is writing is reachable neither from the endpoint   *)
(* nor by a reader, so what a reader saw when it loaded a pointer is still  *)
(* there.                                                                   *)
(***************************************************************************)
EXTENDS Scheduler, Endpoint, FiniteSetTheorems, WellFoundedInduction, TLAPS

-----------------------------------------------------------------------------
(* Numbers.                                                                  *)

LEMMA LeastNumber ==
    ASSUME NEW T, T \subseteq Nat, T # {}
    PROVE  \E x \in T : \A y \in T : x <= y
<1>1. PICK x \in T : \A y \in T : <<y, x>> \notin OpToRel(<, Nat)
  BY NatLessThanWellFounded, WFMin
<1>2. \A y \in T : ~(y < x)
  BY <1>1 DEF OpToRel
<1> QED
  BY <1>2

LEMMA LargestNumber ==
    ASSUME NEW n \in Nat, NEW T, T \subseteq 0 .. n, T # {}
    PROVE  \E x \in T : \A y \in T : x >= y
<1> DEFINE U == {n - y : y \in T}
<1>1. U \subseteq Nat /\ U # {}
  <2>1. \A y \in T : n - y \in Nat
    OBVIOUS
  <2>2. PICK y \in T : TRUE
    OBVIOUS
  <2>3. n - y \in U
    OBVIOUS
  <2> QED
    BY <2>1, <2>3
<1>2. PICK u \in U : \A v \in U : u <= v
  <2> HIDE DEF U
  <2> QED
    BY <1>1, LeastNumber
<1>3. PICK x \in T : u = n - x
  BY <1>2
<1>4. ASSUME NEW y \in T PROVE x >= y
  <2>1. n - y \in U
    OBVIOUS
  <2>2. n - x <= n - y
    BY <1>2, <1>3, <2>1
  <2>3. x \in Int /\ y \in Int
    OBVIOUS
  <2> HIDE DEF U
  <2> QED
    BY <2>2, <2>3
<1> QED
  BY <1>4

\* Max of a bounded set of numbers is its largest.
LEMMA MaxIsLargest ==
    ASSUME NEW n \in Nat, NEW T, T \subseteq 0 .. n, T # {}
    PROVE  Cycle!Max(T) \in T /\ \A y \in T : y <= Cycle!Max(T)
<1>1. \E x \in T : \A y \in T : x >= y
  BY LargestNumber
<1>2. Cycle!Max(T) \in T /\ \A y \in T : Cycle!Max(T) >= y
  BY <1>1 DEF Cycle!Max
<1> QED
  BY <1>2

-----------------------------------------------------------------------------
(* Hashes.  A chain of hashes cannot meet another one except at the same     *)
(* position and behind the same hashes.                                      *)

Chained(h) ==
    /\ Len(h) \in Nat /\ DOMAIN h = 1 .. Len(h)
    /\ \A k \in DOMAIN h : IF k = 1 THEN \E x : h[k] = <<x>>
                                    ELSE \E x, y : h[k] = <<x, y, h[k - 1]>>

LEMMA DifferentTuples == \A x, y, z, w : <<x>> # <<y, z, w>>
<1> TAKE x, y, z, w
<1>1. Len(<<x>>) = 1 /\ Len(<<y, z, w>>) = 3
  OBVIOUS
<1> QED
  BY <1>1

LEMMA EqualTuples == \A x, y, z, u, v, w : <<x, y, z>> = <<u, v, w>> => z = w
  OBVIOUS

LEMMA SameHash ==
    ASSUME NEW g, NEW h, Chained(g), Chained(h),
           NEW k \in DOMAIN g, NEW l \in DOMAIN h, g[k] = h[l]
    PROVE  k = l /\ \A j \in 1 .. k : g[j] = h[j]
<1> DEFINE Alike(a, b) == a = b /\ \A j \in 1 .. a : g[j] = h[j]
           T == {a \in DOMAIN g : \E b \in DOMAIN h : g[a] = h[b] /\ ~Alike(a, b)}
<1>1. CASE T = {}
  BY <1>1
<1>2. CASE T # {}
  <2>1. PICK a \in T : \A y \in T : a <= y
    <3>1. T \subseteq Nat
      BY DEF Chained
    <3> HIDE DEF T
    <3> QED
      BY <1>2, <3>1, LeastNumber
  <2>2. PICK b \in DOMAIN h : g[a] = h[b] /\ ~Alike(a, b)
    BY <2>1
  <2>3. a \in DOMAIN g /\ a \in Nat \ {0} /\ b \in Nat \ {0}
    BY <2>1, <2>2 DEF Chained
  <2>4. CASE a = 1 /\ b = 1
    BY <2>2, <2>4
  <2>5. CASE a = 1 /\ b # 1
    <3>1. PICK x : g[a] = <<x>>
      BY <2>3, <2>5 DEF Chained
    <3>2. PICK y, z : h[b] = <<y, z, h[b - 1]>>
      BY <2>2, <2>5 DEF Chained
    <3> QED
      BY <2>2, <3>1, <3>2, DifferentTuples
  <2>6. CASE a # 1 /\ b = 1
    <3>1. PICK x : h[b] = <<x>>
      BY <2>2, <2>6 DEF Chained
    <3>2. PICK y, z : g[a] = <<y, z, g[a - 1]>>
      BY <2>3, <2>6 DEF Chained
    <3> QED
      BY <2>2, <3>1, <3>2, DifferentTuples
  <2>7. CASE a # 1 /\ b # 1
    <3>1. PICK y, z : g[a] = <<y, z, g[a - 1]>>
      BY <2>3, <2>7 DEF Chained
    <3>2. PICK v, w : h[b] = <<v, w, h[b - 1]>>
      BY <2>2, <2>7 DEF Chained
    <3>3. g[a - 1] = h[b - 1]
      <4>1. <<y, z, g[a - 1]>> = <<v, w, h[b - 1]>>
        BY <2>2, <3>1, <3>2
      <4> QED
        BY <4>1, EqualTuples
    <3>4. a - 1 \in DOMAIN g /\ b - 1 \in DOMAIN h
      BY <2>2, <2>3, <2>7 DEF Chained
    <3>5. a - 1 \notin T
      <4>1. ~(a <= a - 1)
        BY <2>3
      <4> HIDE DEF T
      <4> QED
        BY <2>1, <4>1
    <3>6. Alike(a - 1, b - 1)
      BY <3>3, <3>4, <3>5
    <3>7. a = b /\ \A j \in 1 .. a : j = a \/ j \in 1 .. a - 1
      BY <2>3, <3>6
    <3>8. Alike(a, b)
      BY <2>2, <3>6, <3>7
    <3> QED
      BY <2>2, <3>8
  <2> QED
    BY <2>4, <2>5, <2>6, <2>7
<1> QED
  BY <1>1, <1>2

\* A recursive function in which a value depends on the two before it.
Chain(h, n, m, head, rest) ==
    h = [k \in 0 .. n |-> IF k = 0 THEN m
                          ELSE <<IF k = 1 THEN head ELSE h[k - 2], rest[k], h[k - 1]>>]

LEMMA ChainExists ==
    ASSUME NEW n \in Nat, NEW m, NEW head, NEW rest
    PROVE  \E h : Chain(h, n, m, head, rest)
<1> DEFINE Makes(h, j) == Chain(h, j, m, head, rest)
           T == {j \in Nat : ~\E h : Makes(h, j)}
<1>1. CASE T = {}
  BY <1>1
<1>2. CASE T # {}
  <2>1. PICK j \in T : \A l \in T : j <= l
    <3>1. T \subseteq Nat
      OBVIOUS
    <3> HIDE DEF T
    <3> QED
      BY <1>2, <3>1, LeastNumber
  <2>2. CASE j = 0
    <3>1. PICK h : h = [k \in 0 .. 0 |-> m]
      OBVIOUS
    <3>2. Makes(h, 0)
      BY <3>1 DEF Chain
    <3> QED
      BY <2>1, <2>2, <3>2
  <2>3. CASE j # 0
    <3>1. j \in Nat \ {0} /\ j - 1 \in Nat /\ j - 1 \notin T
      <4>1. j \in Nat \ {0} /\ j - 1 \in Nat /\ ~(j <= j - 1)
        BY <2>1, <2>3
      <4> HIDE DEF T
      <4> QED
        BY <2>1, <4>1
    <3>2. PICK f : Makes(f, j - 1)
      BY <3>1
    <3>f. f = [k \in 0 .. j - 1 |-> IF k = 0 THEN m
                                    ELSE <<IF k = 1 THEN head ELSE f[k - 2], rest[k], f[k - 1]>>]
      BY <3>2 DEF Chain
    <3>0. 0 \in 0 .. j - 1 /\ 0 \in 0 .. j /\ 0 < j
      BY <3>1
    <3>3. PICK g : g = [k \in 0 .. j |-> IF k < j THEN f[k]
                                    ELSE <<IF k = 1 THEN head ELSE f[k - 2], rest[k], f[k - 1]>>]
      OBVIOUS
    <3>4. \A k \in 0 .. j : k < j => g[k] = f[k]
      BY <3>1, <3>3
    <3>5. ASSUME NEW k \in 0 .. j
          PROVE  g[k] = IF k = 0 THEN m ELSE <<IF k = 1 THEN head ELSE g[k - 2], rest[k], g[k - 1]>>
      <4>1. CASE k = 0
        <5>1. g[0] = f[0] /\ f[0] = m
          BY <3>0, <3>f, <3>4
        <5> QED
          BY <4>1, <5>1
      <4>2. CASE k # 0
        <5>1. f[k - 1] = g[k - 1] /\ (k # 1 => f[k - 2] = g[k - 2])
          BY <3>1, <3>4, <4>2
        <5>2. g[k] = <<IF k = 1 THEN head ELSE f[k - 2], rest[k], f[k - 1]>>
          <6>1. CASE k < j
            <7>1. k \in 0 .. (j - 1) /\ g[k] = f[k]
              BY <3>1, <3>4, <6>1
            <7> QED
              BY <3>f, <4>2, <7>1
          <6>2. CASE k = j
            BY <3>3, <6>2
          <6> QED
            BY <3>1, <6>1, <6>2
        <5> QED
          BY <4>2, <5>1, <5>2
      <4> QED
        BY <4>1, <4>2
    <3>6. Makes(g, j)
      BY <3>3, <3>5 DEF Chain
    <3> QED
      BY <2>1, <3>6
  <2> QED
    BY <2>2, <2>3
<1> QED
  BY <1>1, <1>2

LEMMA PromptHashes ==
    ASSUME NEW p \in Prompts
    PROVE  Chained(Cycle!hashPrompt(p)) /\ Cycle!hashPrompt(p) \in Seq(AllHashes)
<1> DEFINE n == Cycle!NumBlocks(p)
           h == CHOOSE f : f = [k \in 0 .. n |-> IF k = 0 THEN <<p.model>>
                  ELSE <<IF k = 1 THEN p.blocks[1].head ELSE f[k - 2], p.blocks[k].rest, f[k - 1]>>]
           s == Cycle!hashPrompt(p)
<1>1. n \in Nat
  BY PromptAssumption DEF Cycle!NumBlocks
<1>2. h = [k \in 0 .. n |-> IF k = 0 THEN <<p.model>>
             ELSE <<IF k = 1 THEN p.blocks[1].head ELSE h[k - 2], p.blocks[k].rest, h[k - 1]>>]
  <2>1. PICK rest : rest = [k \in Nat |-> p.blocks[k].rest]
    OBVIOUS
  <2>2. PICK g : Chain(g, n, <<p.model>>, p.blocks[1].head, rest)
    <3> HIDE DEF n
    <3> QED
      BY <1>1, ChainExists
  <2>3. g = [k \in 0 .. n |-> IF k = 0 THEN <<p.model>>
               ELSE <<IF k = 1 THEN p.blocks[1].head ELSE g[k - 2], p.blocks[k].rest, g[k - 1]>>]
    <3>1. \A k \in 0 .. n : rest[k] = p.blocks[k].rest
      BY <1>1, <2>1
    <3>2. g = [k \in 0 .. n |-> IF k = 0 THEN <<p.model>>
                 ELSE <<IF k = 1 THEN p.blocks[1].head ELSE g[k - 2], rest[k], g[k - 1]>>]
      BY <2>2 DEF Chain
    <3> HIDE DEF n
    <3> QED
      BY <3>1, <3>2
  <2> QED
    BY <2>3
<1>3. s = IF p.blocks = << >> THEN << >> ELSE [k \in 1 .. (n + 1) |-> h[k - 1]]
  BY DEF Cycle!hashPrompt
<1> HIDE DEF n, h, s
<1>4. Chained(s)
  <2>1. CASE p.blocks = << >>
    BY <1>3, <2>1 DEF Chained
  <2>2. CASE p.blocks # << >>
    <3>1. DOMAIN s = 1 .. n + 1 /\ Len(s) = n + 1 /\ \A k \in 1 .. n + 1 : s[k] = h[k - 1]
      BY <1>1, <1>3, <2>2
    <3>2. ASSUME NEW k \in 1 .. n + 1, k = 1 PROVE \E x : s[k] = <<x>>
      BY <1>1, <1>2, <3>1, <3>2
    <3>3. ASSUME NEW k \in 1 .. n + 1, k # 1 PROVE \E x, y : s[k] = <<x, y, s[k - 1]>>
      <4>1. k - 1 \in 0 .. n /\ k - 1 # 0 /\ k - 1 \in 1 .. n + 1
        BY <1>1, <3>3
      <4>2. h[k - 1] = <<IF k - 1 = 1 THEN p.blocks[1].head ELSE h[k - 1 - 2], p.blocks[k - 1].rest, h[k - 1 - 1]>>
        BY <1>2, <4>1
      <4> QED
        BY <3>1, <3>3, <4>1, <4>2
    <3> QED
      BY <1>1, <3>1, <3>2, <3>3 DEF Chained
  <2> QED
    BY <2>1, <2>2
<1>5. s \in Seq(AllHashes)
  <2>1. \A k \in DOMAIN s : s[k] \in AllHashes
    BY DEF AllHashes, s
  <2>2. s = [k \in 1 .. Len(s) |-> s[k]] /\ Len(s) \in Nat
    <3>1. CASE p.blocks = << >>
      BY <1>3, <3>1
    <3>2. CASE p.blocks # << >>
      BY <1>1, <1>3, <3>2
    <3> QED
      BY <3>1, <3>2
  <2> QED
    BY <1>4, <2>1, <2>2 DEF Chained
<1> QED
  BY <1>4, <1>5 DEF s

-----------------------------------------------------------------------------
(* LRUs.  A hash enters at the end; it is taken from where it was, or the    *)
(* first one makes room.                                                     *)

Elements(s) == {s[k] : k \in DOMAIN s}

Distinct(s) == \A j, k \in 1 .. Len(s) : s[j] = s[k] => j = k

\* The last m elements of s are the first m of h.
EndsWith(s, h, m) == m <= Len(s) /\ \A j \in 1 .. m : s[Len(s) - m + j] = h[j]

\* rest is s without its element at q.
Removed(rest, s, q) ==
    /\ q \in 1 .. Len(s) /\ Len(rest) = Len(s) - 1
    /\ \A k \in 1 .. Len(s) - 1 : rest[k] = IF k < q THEN s[k] ELSE s[k + 1]

LEMMA TailRemoves ==
    ASSUME NEW S, NEW s \in Seq(S), s # << >>
    PROVE  Tail(s) \in Seq(S) /\ Removed(Tail(s), s, 1)
<1>1. /\ Tail(s) \in Seq(S) /\ Len(Tail(s)) = Len(s) - 1 /\ Len(s) \in Nat \ {0}
      /\ \A k \in 1 .. Len(s) - 1 : Tail(s)[k] = s[k + 1]
  OBVIOUS
<1> QED
  BY <1>1 DEF Removed

LEMMA Concatenated ==
    ASSUME NEW S, NEW a \in Seq(S), NEW b \in Seq(S)
    PROVE  /\ a \o b \in Seq(S) /\ Len(a \o b) = Len(a) + Len(b)
           /\ \A k \in 1 .. Len(a) + Len(b) : (a \o b)[k] = IF k <= Len(a) THEN a[k] ELSE b[k - Len(a)]
  OBVIOUS

LEMMA RemoveAtRemoves ==
    ASSUME NEW S, NEW s \in Seq(S), NEW q \in 1 .. Len(s)
    PROVE  Cycle!RemoveAt(s, q) \in Seq(S) /\ Removed(Cycle!RemoveAt(s, q), s, q)
<1> DEFINE a == SubSeq(s, 1, q - 1)
           b == SubSeq(s, q + 1, Len(s))
           rest == a \o b
<1>1. a \in Seq(S) /\ Len(a) = q - 1 /\ \A k \in 1 .. q - 1 : a[k] = s[k]
  OBVIOUS
<1>2. b \in Seq(S) /\ Len(b) = Len(s) - q /\ \A k \in 1 .. Len(s) - q : b[k] = s[q + k]
  OBVIOUS
<1> HIDE DEF a, b
<1>3. /\ rest \in Seq(S) /\ Len(rest) = Len(s) - 1
      /\ \A k \in 1 .. Len(s) - 1 : rest[k] = IF k < q THEN a[k] ELSE b[k - (q - 1)]
  <2>1. /\ rest \in Seq(S) /\ Len(rest) = Len(a) + Len(b)
        /\ \A k \in 1 .. Len(a) + Len(b) : rest[k] = IF k <= Len(a) THEN a[k] ELSE b[k - Len(a)]
    BY <1>1, <1>2, Concatenated
  <2>2. Len(a) + Len(b) = Len(s) - 1 /\ Len(s) \in Nat
    BY <1>1, <1>2
  <2> HIDE DEF rest
  <2>3. ASSUME NEW k \in 1 .. Len(s) - 1
        PROVE  rest[k] = IF k < q THEN a[k] ELSE b[k - (q - 1)]
    <3>1. k <= q - 1 <=> k < q
      BY <2>2
    <3> QED
      BY <1>1, <2>1, <2>2, <3>1
  <2> QED
    BY <2>1, <2>2, <2>3
<1> HIDE DEF rest
<1>4. ASSUME NEW k \in 1 .. Len(s) - 1
      PROVE  rest[k] = IF k < q THEN s[k] ELSE s[k + 1]
  <2>1. CASE k < q
    BY <1>1, <1>3, <2>1
  <2>2. CASE ~(k < q)
    <3>1. k - (q - 1) \in 1 .. Len(s) - q /\ q + (k - (q - 1)) = k + 1
      BY <2>2
    <3>2. b[k - (q - 1)] = s[k + 1]
      BY <1>2, <3>1
    <3> QED
      BY <1>3, <2>2, <3>2
  <2> QED
    BY <2>1, <2>2
<1>5. Cycle!RemoveAt(s, q) = rest
  BY DEF Cycle!RemoveAt, rest, a, b
<1> QED
  BY <1>3, <1>4, <1>5 DEF Removed

LEMMA RemoveFirstRemoves ==
    ASSUME NEW S, NEW s \in Seq(S), NEW x
    PROVE  /\ ~Cycle!Contains(s, x) => Cycle!RemoveFirst(s, x) = s
           /\ Cycle!Contains(s, x) =>
                \E q \in 1 .. Len(s) : /\ s[q] = x /\ Cycle!RemoveFirst(s, x) \in Seq(S)
                                       /\ Removed(Cycle!RemoveFirst(s, x), s, q)
<1>1. CASE ~Cycle!Contains(s, x)
  BY <1>1 DEF Cycle!Contains, Cycle!RemoveFirst
<1>2. CASE Cycle!Contains(s, x)
  <2> DEFINE K == {k \in 1 .. Len(s) : s[k] = x}
             q == Cycle!Min(K)
  <2>1. Cycle!RemoveFirst(s, x) = Cycle!RemoveAt(s, q)
    BY <1>2 DEF Cycle!Contains, Cycle!RemoveFirst, Cycle!SelectInSeq
  <2>2. K \subseteq Nat /\ K # {}
    BY <1>2 DEF Cycle!Contains
  <2>3. q \in K
    <3>1. \E k \in K : \A l \in K : k <= l
      <4> HIDE DEF K
      <4> QED
        BY <2>2, LeastNumber
    <3> HIDE DEF K
    <3> QED
      BY <3>1 DEF Cycle!Min
  <2>4. q \in 1 .. Len(s) /\ s[q] = x
    BY <2>3
  <2> HIDE DEF q
  <2> QED
    BY <1>2, <2>1, <2>4, RemoveAtRemoves
<1> QED
  BY <1>1, <1>2

\* Append to what is left.
LEMMA MovedToEnd ==
    ASSUME NEW S, NEW s \in Seq(S), NEW x \in S, Distinct(s),
           NEW q, NEW rest \in Seq(S), Removed(rest, s, q),
           \A k \in 1 .. Len(s) : s[k] = x => k = q,
           NEW h, NEW m \in Nat, EndsWith(s, h, m), q <= Len(s) - m, h[m + 1] = x
    PROVE  LET new == Append(rest, x)
           IN  /\ new \in Seq(S) /\ Len(new) = Len(s) /\ Distinct(new) /\ EndsWith(new, h, m + 1)
               /\ Elements(new) = (Elements(s) \ {s[q]}) \union {x}
<1> DEFINE new == Append(rest, x)
           n == Len(s)
<1>1. n \in Nat \ {0} /\ q \in 1 .. n /\ Len(rest) = n - 1 /\ DOMAIN s = 1 .. n
  BY DEF Removed
<1>2. new \in Seq(S) /\ Len(new) = n /\ DOMAIN new = 1 .. n
      /\ \A k \in 1 .. n : new[k] = IF k = n THEN x ELSE rest[k]
  BY <1>1
<1>3. \A k \in 1 .. n - 1 : rest[k] = IF k < q THEN s[k] ELSE s[k + 1]
  BY DEF Removed
<1> DEFINE from(k) == IF k = n THEN q ELSE IF k < q THEN k ELSE k + 1
<1>4. \A k \in 1 .. n : from(k) \in 1 .. n /\ (k # n => new[k] = s[from(k)] /\ from(k) # q)
  BY <1>1, <1>2, <1>3
<1>5. \A j, k \in 1 .. n : from(j) = from(k) => j = k
  BY <1>1
<1>6. new[n] = x
  BY <1>1, <1>2
<1> HIDE DEF new, n
<1>7. Distinct(new)
  <2> SUFFICES ASSUME NEW j \in 1 .. n, NEW k \in 1 .. n, new[j] = new[k] PROVE j = k
    BY <1>2 DEF Distinct
  <2>1. \A l \in 1 .. n : l # n => new[l] # x
    <3> TAKE l \in 1 .. n
    <3> HAVE l # n
    <3> HIDE DEF from
    <3> QED
      BY <1>4 DEF n
  <2>2. CASE j = n \/ k = n
    BY <1>6, <2>1, <2>2
  <2>3. CASE j # n /\ k # n
    <3>1. from(j) = from(k)
      <4> DEFINE fj == from(j)
                 fk == from(k)
      <4>1. fj \in 1 .. n /\ fk \in 1 .. n /\ s[fj] = s[fk]
        <5> HIDE DEF from
        <5> QED
          BY <1>4, <2>3
      <4> HIDE DEF fj, fk
      <4>2. fj = fk
        BY <4>1 DEF Distinct, n
      <4> QED
        BY <4>2 DEF fj, fk
    <3> HIDE DEF from
    <3> QED
      BY <1>5, <3>1
  <2> QED
    BY <2>2, <2>3
<1>8. EndsWith(new, h, m + 1)
  <2>1. m <= n - 1
    BY <1>1 DEF n
  <2>2. ASSUME NEW j \in 1 .. m + 1 PROVE new[n - (m + 1) + j] = h[j]
    <3>1. CASE j = m + 1
      <4>1. n - (m + 1) + j = n
        BY <1>1, <3>1
      <4> QED
        BY <1>6, <3>1, <4>1
    <3>2. CASE j # m + 1
      <4>1. j \in 1 .. m
        BY <3>2
      <4> DEFINE k == n - (m + 1) + j
      <4>2. k \in 1 .. n /\ k # n /\ ~(k < q) /\ k + 1 = n - m + j
        BY <1>1, <2>1, <4>1 DEF n
      <4>3. new[k] = s[n - m + j]
        <5> HIDE DEF k
        <5>1. k \in 1 .. n - 1
          BY <1>1, <4>2
        <5>2. new[k] = rest[k]
          BY <1>2, <4>2
        <5>3. rest[k] = s[k + 1]
          BY <1>3, <4>2, <5>1
        <5> QED
          BY <4>2, <5>2, <5>3
      <4>4. s[n - m + j] = h[j]
        BY <4>1 DEF EndsWith, n
      <4> QED
        BY <4>3, <4>4
    <3> QED
      BY <3>1, <3>2
  <2> QED
    BY <1>1, <1>2, <2>1, <2>2 DEF EndsWith
<1>9. Elements(new) = (Elements(s) \ {s[q]}) \union {x}
  <2>1. ASSUME NEW y \in Elements(new) PROVE y \in (Elements(s) \ {s[q]}) \union {x}
    <3>1. PICK k \in 1 .. n : y = new[k]
      BY <1>2, <2>1 DEF Elements
    <3>2. CASE k = n
      BY <1>6, <3>1, <3>2
    <3>3. CASE k # n
      <4> DEFINE f == from(k)
      <4>1. f \in 1 .. n /\ y = s[f] /\ f # q
        BY <1>4, <3>1, <3>3
      <4> HIDE DEF f, from
      <4>2. s[f] # s[q]
        BY <1>1, <4>1 DEF Distinct, n
      <4> QED
        BY <1>1, <4>1, <4>2 DEF Elements
    <3> QED
      BY <3>2, <3>3
  <2>2. ASSUME NEW y \in Elements(s), y # s[q] PROVE y \in Elements(new)
    <3>1. PICK k \in 1 .. n : y = s[k]
      BY <1>1, <2>2 DEF Elements
    <3>2. k # q
      BY <2>2, <3>1
    <3> DEFINE l == IF k < q THEN k ELSE k - 1
    <3>3. l \in 1 .. n /\ l # n /\ from(l) = k
      BY <1>1, <3>2
    <3>4. new[l] = y
      <4> HIDE DEF l, from
      <4> QED
        BY <1>4, <3>1, <3>3
    <3> HIDE DEF l, from
    <3> QED
      BY <1>2, <3>3, <3>4 DEF Elements
  <2>3. x \in Elements(new)
    BY <1>1, <1>2, <1>6 DEF Elements
  <2> QED
    BY <2>1, <2>2, <2>3
<1> QED
  BY <1>2, <1>7, <1>8, <1>9 DEF new, n

-----------------------------------------------------------------------------
(* The invariant.                                                            *)

H(c) == Cycle!Hashes(c)
Points == {"idle", "match", "add", "lru", "evict", "results", "scheduled", "failed"}

\* What a cycle has prepared for its next step.
Ready(c) ==
    /\ at[c] \in {"idle", "match"} => picked[c] = << >>
    /\ at[c] = "match" => Cycle!runFilterPlugins # {}
    /\ at[c] \in {"add", "lru", "evict"} => picked[c] # << >>
    /\ at[c] = "add" => position[c] = 1
    /\ at[c] \in {"lru", "evict"} => podToLRU[Cycle!Target(c)] # None

CyclesTyped ==
    /\ asked \in [Cycles -> Prompts] /\ snapshot \in Snapshots
    /\ at \in [Cycles -> Points] /\ position \in [Cycles -> Nat \ {0}]
    /\ match \in [Cycles -> [CandidatePods -> Nat]] /\ before \in [Cycles -> [CandidatePods -> Nat]]
    /\ picked \in [Cycles -> Seq(CandidatePods)] /\ evicted \in [Cycles -> AllHashes \union {None}]
    /\ podToLRU \in [CandidatePods -> Seq(AllHashes) \union {None}]
    /\ hashToPods \subseteq AllHashes \X CandidatePods
    /\ dropped \in BOOLEAN /\ tangled \in BOOLEAN
    /\ \A c \in Cycles : Ready(c)

\* The hashes the reverse map has for a pod, and the ones a call of Add has
\* put into the pod's LRU.
Cached(p) == {h \in AllHashes : <<h, p>> \in hashToPods}
Entered(c) == {H(c)[j] : j \in 1 .. position[c] - 1}

\* A call of Add: what it has put into the LRU is there, at the end, where it
\* will not be dropped; the reverse map does not have it yet.
AddOf(c, p) ==
    /\ Len(H(c)) <= Cycle!maxLRUSize /\ position[c] - 1 <= Len(H(c))
    /\ EndsWith(podToLRU[p], H(c), position[c] - 1)
    /\ at[c] = "lru" => Elements(podToLRU[p]) = Cached(p) \union Entered(c)
    /\ at[c] = "evict" => Elements(podToLRU[p]) = (Cached(p) \ {evicted[c]}) \union Entered(c)

PodExact(p) ==
    /\ \A c, d \in Cycle!Adding(p) : c = d
    /\ podToLRU[p] = None => (Cycle!Adding(p) = {} /\ Cached(p) = {})
    /\ podToLRU[p] # None => Distinct(podToLRU[p]) /\ Len(podToLRU[p]) <= Cycle!maxLRUSize
    /\ podToLRU[p] # None /\ Cycle!Adding(p) = {} => Elements(podToLRU[p]) = Cached(p)
    /\ \A c \in Cycle!Adding(p) : AddOf(c, p)

IndexExact == ~tangled => \A p \in CandidatePods : PodExact(p)

\* While nothing is dropped the reverse map has whole prefixes only.
PrefixClosed ==
    \A c \in Cycles, p \in CandidatePods : \A k \in DOMAIN H(c) :
       <<H(c)[k], p>> \in hashToPods => (\A j \in 1 .. k : <<H(c)[j], p>> \in hashToPods)

\* A lookup: its count is cached, and no less than what has been looked up of
\* what was cached when it began.
WalkOf(c, p) ==
    /\ match[c][p] <= position[c] - 1
    /\ match[c][p] > 0 => <<H(c)[match[c][p]], p>> \in hashToPods
    /\ before[c][p] <= match[c][p] \/ position[c] - 1 <= match[c][p]
    /\ before[c][p] <= Len(H(c))
    /\ before[c][p] > 0 => <<H(c)[before[c][p]], p>> \in hashToPods

WalksExact ==
    /\ \A c \in Cycles : at[c] = "evict" => dropped
    /\ ~dropped => /\ PrefixClosed
                   /\ \A c \in Cycles : at[c] = "match" =>
                        position[c] <= Len(H(c)) + 1 /\ \A p \in CandidatePods : WalkOf(c, p)

CyclesInv == CyclesTyped /\ IndexExact /\ WalksExact /\ DominatedNeverPreferred

-----------------------------------------------------------------------------
(* The picker.                                                               *)

LEMMA CycleCardinality == \A S : Cycle!Cardinality(S) = Cardinality(S)
BY Zenon DEF Cardinality, Cycle!Cardinality, Cycle!IsFiniteSet, IsFiniteSet

LEMMA OrderFacts ==
    ASSUME NEW S, IsFiniteSet(S), S # {}, NEW order \in Cycle!SetToSeqs(S)
    PROVE  /\ order \in Seq(S) /\ Len(order) \in Nat \ {0} /\ DOMAIN order = 1 .. Len(order)
           /\ \A q \in S : \E k \in DOMAIN order : order[k] = q
<1> DEFINE n == Cardinality(S)
<1>1. n \in Nat \ {0}
  BY FS_CardinalityType, FS_EmptySet
<1>2. order \in [1 .. n -> S] /\ \A i, j \in 1 .. n : i # j => order[i] # order[j]
  BY CycleCardinality DEF Cycle!SetToSeqs
<1>3. order \in Injection(1 .. n, S)
  BY <1>2 DEF Injection, IsInjective
<1>4. Cardinality(1 .. n) = Cardinality(S)
  <2>1. n \in Int /\ 1 \in Int
    BY <1>1
  <2>2. Cardinality(1 .. n) = IF 1 > n THEN 0 ELSE n - 1 + 1
    BY <2>1, FS_Interval
  <2> QED
    BY <1>1, <2>2
<1>5. order \in Surjection(1 .. n, S)
  BY <1>3, <1>4, FS_Injection
<1> HIDE DEF n
<1>6. \A q \in S : \E k \in 1 .. n : order[k] = q
  BY <1>5 DEF Surjection
<1>7. order \in Seq(S) /\ Len(order) = n /\ DOMAIN order = 1 .. n
  BY <1>1, <1>2
<1> QED
  BY <1>1, <1>6, <1>7

LEMMA FirstFewFacts ==
    ASSUME NEW S, NEW order \in Seq(S), Len(order) # 0
    PROVE  LET few == Cycle!FirstFew(order)
           IN  /\ few \in Seq(S) /\ few # << >> /\ Len(few) <= Len(order)
               /\ \A k \in 1 .. Len(few) : few[k] = order[k]
<1> DEFINE m == IF Cycle!NumEndpoints < Len(order) THEN Cycle!NumEndpoints ELSE Len(order)
<1>1. Cycle!NumEndpoints \in Nat \ {0}
  BY PickerAssumption DEF Cycle!NumEndpoints
<1>2. m \in 1 .. Len(order)
  BY <1>1
<1>3. Cycle!FirstFew(order) = SubSeq(order, 1, m)
  BY DEF Cycle!FirstFew
<1> HIDE DEF m
<1>4. /\ SubSeq(order, 1, m) \in Seq(S) /\ Len(SubSeq(order, 1, m)) = m
      /\ \A k \in 1 .. m : SubSeq(order, 1, m)[k] = order[k]
  BY <1>2
<1>5. SubSeq(order, 1, m) # << >>
  BY <1>2, <1>4
<1> QED
  BY <1>2, <1>3, <1>4, <1>5

LEMMA FilteredFinite == IsFiniteSet(Cycle!runFilterPlugins) /\ Cycle!runFilterPlugins \subseteq CandidatePods
<1>1. Cycle!runFilterPlugins \subseteq CandidatePods
  BY DEF Cycle!runFilterPlugins
<1> QED
  BY <1>1, PickerAssumption, FS_Subset

\* What a picker picks.
LEMMA PickFacts ==
    ASSUME NEW c, Cycle!runFilterPlugins # {},
           NEW order \in IF profile.picker = "max-score" THEN Cycle!MaxScorePick(c) ELSE Cycle!RandomPick
    PROVE  /\ order \in Cycle!SetToSeqs(Cycle!runFilterPlugins)
           /\ Cycle!FirstFew(order) \in Seq(CandidatePods) /\ Cycle!FirstFew(order) # << >>
<1>1. order \in Cycle!SetToSeqs(Cycle!runFilterPlugins)
  BY DEF Cycle!MaxScorePick, Cycle!RandomPick
<1>2. order \in Seq(Cycle!runFilterPlugins) /\ Len(order) # 0
  BY <1>1, FilteredFinite, OrderFacts
<1>3. order \in Seq(CandidatePods)
  BY <1>2, FilteredFinite
<1> QED
  BY <1>1, <1>2, <1>3, FirstFewFacts

-----------------------------------------------------------------------------
(* Types and frames.                                                         *)

LEMMA HashFacts ==
    ASSUME CyclesTyped, NEW c \in Cycles
    PROVE  /\ Chained(H(c)) /\ H(c) \in Seq(AllHashes)
           /\ Len(H(c)) \in Nat /\ DOMAIN H(c) = 1 .. Len(H(c))
<1>1. Chained(H(c)) /\ H(c) \in Seq(AllHashes)
  BY PromptHashes DEF CyclesTyped, H, Cycle!Hashes
<1> QED
  BY <1>1 DEF Chained

LEMMA TargetFacts ==
    ASSUME CyclesTyped, NEW c \in Cycles, at[c] \in {"add", "lru", "evict"}
    PROVE  Cycle!Target(c) \in CandidatePods
<1>1. picked[c] \in Seq(CandidatePods) /\ picked[c] # << >>
  BY DEF CyclesTyped, Ready
<1> QED
  BY <1>1 DEF Cycle!Target

LEMMA EmptyIsNoNone == << >> # None
<1>1. << >> \in Seq(AllHashes)
  OBVIOUS
<1> QED
  BY <1>1, PromptAssumption

LEMMA CapacityPositive == Cycle!maxLRUSize \in Nat \ {0}
BY PromptAssumption DEF Cycle!maxLRUSize, Cycle!DefaultCapacity

LEMMA HashesSame == ASSUME asked' = asked, NEW c PROVE H(c)' = H(c)
BY DEF H, Cycle!Hashes, Cycle!hashPrompt, Cycle!NumBlocks

\* A cycle leaves the others and the inputs alone.
Alone(c) ==
    /\ asked' = asked /\ snapshot' = snapshot /\ profile' = profile
    /\ \A d \in Cycles \ {c} : /\ at'[d] = at[d] /\ position'[d] = position[d] /\ match'[d] = match[d]
                               /\ picked'[d] = picked[d] /\ evicted'[d] = evicted[d]
                               /\ before'[d] = before[d]

LEMMA InitTyped == Cycle!Init => CyclesTyped
<1> SUFFICES ASSUME Cycle!Init PROVE CyclesTyped
  OBVIOUS
<1>1. << >> \in Seq(CandidatePods)
  OBVIOUS
<1>2. match \in [Cycles -> [CandidatePods -> Nat]] /\ before = match
  BY DEF Cycle!Init
<1>3. /\ asked \in [Cycles -> Prompts] /\ snapshot \in Snapshots
      /\ at = [c \in Cycles |-> "idle"] /\ position = [c \in Cycles |-> 1]
      /\ picked = [c \in Cycles |-> << >>] /\ evicted = [c \in Cycles |-> None]
      /\ podToLRU = [p \in CandidatePods |-> None] /\ hashToPods = {}
      /\ dropped = FALSE /\ tangled = FALSE
  BY DEF Cycle!Init
<1>4. position \in [Cycles -> Nat \ {0}] /\ picked \in [Cycles -> Seq(CandidatePods)]
  BY <1>1, <1>3
<1>5. \A c \in Cycles : at[c] = "idle" /\ picked[c] = << >>
  BY <1>3
<1>6. at \in [Cycles -> Points]
  BY <1>3 DEF Points
<1> QED
  BY <1>2, <1>3, <1>4, <1>5, <1>6 DEF CyclesTyped, Ready

LEMMA PrefixIsNumber ==
    ASSUME CyclesTyped, NEW c \in Cycles, NEW p
    PROVE  LET T == {k \in 0 .. Len(H(c)) : \A j \in 1 .. k : <<H(c)[j], p>> \in hashToPods}
           IN  /\ Cycle!LongestPrefix(c, p) \in T
               /\ \A k \in T : k <= Cycle!LongestPrefix(c, p)
<1> DEFINE T == {k \in 0 .. Len(H(c)) : \A j \in 1 .. k : <<H(c)[j], p>> \in hashToPods}
<1>1. Len(H(c)) \in Nat
  BY HashFacts
<1>2. T \subseteq 0 .. Len(H(c))
  OBVIOUS
<1>3. 0 \in T
  BY <1>1
<1>4. Cycle!LongestPrefix(c, p) = Cycle!Max(T)
  BY DEF Cycle!LongestPrefix, H
<1> HIDE DEF T
<1>5. T # {}
  BY <1>3
<1> QED
  BY <1>1, <1>2, <1>4, <1>5, MaxIsLargest DEF T

LEMMA AloneStep ==
    ASSUME CyclesTyped, NEW c \in Cycles, Cycle!Schedule(c)
    PROVE  Alone(c)
<1>1. CASE Cycle!NoPodsAvailable(c)
  BY <1>1 DEF Cycle!NoPodsAvailable, Cycle!Goto, Cycle!inputs, CyclesTyped, Alone
<1>2. CASE Cycle!Begin(c)
  BY <1>2 DEF Cycle!Begin, Cycle!Goto, Cycle!inputs, CyclesTyped, Alone
<1>3. CASE Cycle!MatchHash(c)
  BY <1>3 DEF Cycle!MatchHash, Cycle!inputs, CyclesTyped, Alone
<1>4. CASE Cycle!PickPods(c)
  BY <1>4 DEF Cycle!PickPods, Cycle!Goto, Cycle!inputs, CyclesTyped, Alone
<1>5. CASE Cycle!AddLocate(c)
  BY <1>5 DEF Cycle!AddLocate, Cycle!Goto, Cycle!inputs, CyclesTyped, Alone
<1>6. CASE Cycle!AddToLRU(c)
  BY <1>6 DEF Cycle!AddToLRU, Cycle!Goto, Cycle!inputs, CyclesTyped, Alone
<1>7. CASE Cycle!EvictionFn(c)
  BY <1>7 DEF Cycle!EvictionFn, Cycle!Goto, Cycle!inputs, CyclesTyped, Alone
<1>8. CASE Cycle!AddToReverseMap(c)
  BY <1>8 DEF Cycle!AddToReverseMap, Cycle!Goto, Cycle!inputs, CyclesTyped, Alone
<1>9. CASE Cycle!ProcessResults(c)
  BY <1>9 DEF Cycle!ProcessResults, Cycle!Goto, Cycle!inputs, CyclesTyped, Alone
<1> QED
  BY <1>1, <1>2, <1>3, <1>4, <1>5, <1>6, <1>7, <1>8, <1>9 DEF Cycle!Schedule

LEMMA ReadyStep ==
    ASSUME CyclesTyped, NEW c \in Cycles, Alone(c), Ready(c)',
           \A p \in CandidatePods : podToLRU[p] # None => podToLRU'[p] # None
    PROVE  \A d \in Cycles : Ready(d)'
<1> SUFFICES ASSUME NEW d \in Cycles, d # c PROVE Ready(d)'
  OBVIOUS
<1>1. Ready(d) /\ at'[d] = at[d] /\ position'[d] = position[d] /\ picked'[d] = picked[d]
  BY DEF CyclesTyped, Alone
<1>2. Cycle!runFilterPlugins' = Cycle!runFilterPlugins
  BY DEF Alone, Cycle!runFilterPlugins
<1>3. Cycle!Target(d)' = Cycle!Target(d)
  BY <1>1 DEF Cycle!Target
<1>4. at[d] \in {"lru", "evict"} => Cycle!Target(d) \in CandidatePods
  BY TargetFacts
<1> QED
  BY <1>1, <1>2, <1>3, <1>4 DEF Ready

LEMMA TypedStep ==
    ASSUME CyclesTyped, NEW c \in Cycles, Cycle!Schedule(c)
    PROVE  CyclesTyped'
<1>0. Alone(c)
  BY AloneStep
<1>1. CASE Cycle!NoPodsAvailable(c)
  <2>1. at' \in [Cycles -> Points] /\ at'[c] = "results"
    BY <1>1 DEF Cycle!NoPodsAvailable, Cycle!Goto, CyclesTyped, Points
  <2>2. UNCHANGED <<asked, snapshot, position, match, picked, evicted, podToLRU, hashToPods, before, dropped, tangled>>
    BY <1>1 DEF Cycle!NoPodsAvailable, Cycle!inputs, Cycle!index
  <2>3. Ready(c)'
    BY <2>1 DEF Ready
  <2> QED
    BY <1>0, <2>1, <2>2, <2>3, ReadyStep DEF CyclesTyped
<1>2. CASE Cycle!Begin(c)
  <2>1. at' \in [Cycles -> Points] /\ at'[c] = "match" /\ position' \in [Cycles -> Nat \ {0}]
    BY <1>2 DEF Cycle!Begin, Cycle!Goto, CyclesTyped, Points
  <2>2. match' \in [Cycles -> [CandidatePods -> Nat]]
    BY <1>2 DEF Cycle!Begin, CyclesTyped
  <2>3. before' \in [Cycles -> [CandidatePods -> Nat]]
    <3>1. \A p \in CandidatePods : Cycle!LongestPrefix(c, p) \in Nat
      BY HashFacts, PrefixIsNumber
    <3> QED
      BY <1>2, <3>1 DEF Cycle!Begin, CyclesTyped
  <2>4. UNCHANGED <<asked, snapshot, picked, evicted, podToLRU, hashToPods, dropped, tangled>>
    BY <1>2 DEF Cycle!Begin, Cycle!inputs, Cycle!index
  <2>5. Ready(c)'
    <3>1. Cycle!runFilterPlugins' # {}
      BY <1>0, <1>2 DEF Alone, Cycle!Begin, Cycle!runFilterPlugins
    <3> QED
      BY <1>2, <2>1, <2>4, <3>1 DEF Ready, Cycle!Begin, CyclesTyped
  <2> QED
    BY <1>0, <2>1, <2>2, <2>3, <2>4, <2>5, ReadyStep DEF CyclesTyped
<1>3. CASE Cycle!MatchHash(c)
  <2>1. position' \in [Cycles -> Nat \ {0}]
    <3>1. Len(H(c)) + 1 \in Nat \ {0} /\ position[c] + 1 \in Nat \ {0}
      BY HashFacts DEF CyclesTyped
    <3> QED
      BY <1>3, <3>1 DEF Cycle!MatchHash, CyclesTyped, H
  <2>2. match' \in [Cycles -> [CandidatePods -> Nat]]
    BY <1>3 DEF Cycle!MatchHash, CyclesTyped
  <2>3. UNCHANGED <<asked, snapshot, at, picked, evicted, podToLRU, hashToPods, before, dropped, tangled>>
    BY <1>3 DEF Cycle!MatchHash, Cycle!inputs, Cycle!index
  <2>4. Ready(c)'
    <3>1. Cycle!runFilterPlugins' = Cycle!runFilterPlugins
      BY <1>0 DEF Alone, Cycle!runFilterPlugins
    <3> QED
      BY <1>3, <2>3, <3>1 DEF Ready, Cycle!MatchHash, CyclesTyped
  <2> QED
    BY <1>0, <2>1, <2>2, <2>3, <2>4, ReadyStep DEF CyclesTyped
<1>4. CASE Cycle!PickPods(c)
  <2>1. at' \in [Cycles -> Points] /\ at'[c] = "add" /\ position' \in [Cycles -> Nat \ {0}] /\ position'[c] = 1
    BY <1>4 DEF Cycle!PickPods, Cycle!Goto, CyclesTyped, Points
  <2>2. picked' \in [Cycles -> Seq(CandidatePods)] /\ picked'[c] # << >>
    <3>1. PICK order \in IF profile.picker = "max-score" THEN Cycle!MaxScorePick(c) ELSE Cycle!RandomPick :
            picked' = [picked EXCEPT ![c] = Cycle!FirstFew(order)]
      BY <1>4 DEF Cycle!PickPods
    <3>2. Cycle!FirstFew(order) \in Seq(CandidatePods) /\ Cycle!FirstFew(order) # << >>
      BY <1>4, PickFacts DEF Cycle!PickPods, CyclesTyped, Ready
    <3> QED
      BY <3>1, <3>2 DEF CyclesTyped
  <2>3. UNCHANGED <<asked, snapshot, match, evicted, podToLRU, hashToPods, before, dropped, tangled>>
    BY <1>4 DEF Cycle!PickPods, Cycle!inputs, Cycle!index
  <2>4. Ready(c)'
    BY <2>1, <2>2 DEF Ready
  <2> QED
    BY <1>0, <2>1, <2>2, <2>3, <2>4, ReadyStep DEF CyclesTyped
<1>5. CASE Cycle!AddLocate(c)
  <2>1. at' \in [Cycles -> Points] /\ at'[c] = "lru"
    BY <1>5 DEF Cycle!AddLocate, Cycle!Goto, CyclesTyped, Points
  <2>2. podToLRU' \in [CandidatePods -> Seq(AllHashes) \union {None}]
    <3>1. << >> \in Seq(AllHashes)
      OBVIOUS
    <3> QED
      BY <1>5, <3>1 DEF Cycle!AddLocate, CyclesTyped
  <2>6. \A p \in CandidatePods : podToLRU'[p] = podToLRU[p] \/ podToLRU'[p] # None
    BY <1>5, EmptyIsNoNone DEF Cycle!AddLocate, CyclesTyped
  <2>3. tangled' \in BOOLEAN
    BY <1>5 DEF Cycle!AddLocate
  <2>4. UNCHANGED <<asked, snapshot, position, match, picked, evicted, hashToPods, before, dropped>>
    BY <1>5 DEF Cycle!AddLocate, Cycle!inputs
  <2>5. Ready(c)'
    <3>1. Cycle!Target(c)' = Cycle!Target(c) /\ Cycle!Target(c) \in CandidatePods
      BY <1>5, <2>4, TargetFacts DEF Cycle!AddLocate, Cycle!Target
    <3>2. podToLRU'[Cycle!Target(c)] # None
      <4>1. << >> # None
        BY EmptyIsNoNone
      <4>2. podToLRU' = IF podToLRU[Cycle!Target(c)] = None
                        THEN [podToLRU EXCEPT ![Cycle!Target(c)] = << >>] ELSE podToLRU
        BY <1>5 DEF Cycle!AddLocate
      <4>3. podToLRU \in [CandidatePods -> Seq(AllHashes) \union {None}]
        BY DEF CyclesTyped
      <4> QED
        BY <3>1, <4>1, <4>2, <4>3
    <3>3. picked[c] # << >>
      BY <1>5 DEF Cycle!AddLocate, CyclesTyped, Ready
    <3> QED
      BY <2>1, <2>4, <3>1, <3>2, <3>3 DEF Ready
  <2> QED
    BY <1>0, <2>1, <2>2, <2>3, <2>4, <2>5, <2>6, ReadyStep DEF CyclesTyped
<1>6. CASE Cycle!AddToLRU(c)
  <2> DEFINE p == Cycle!Target(c)
             lru == podToLRU[p]
             h == H(c)[position[c]]
             full == ~Cycle!Contains(lru, h) /\ Len(lru) = Cycle!maxLRUSize
             new == Append(IF full THEN Tail(lru) ELSE Cycle!RemoveFirst(lru, h), h)
  <2>1. /\ at' = [at EXCEPT ![c] = IF full THEN "evict" ELSE "lru"]
        /\ position' = [position EXCEPT ![c] = @ + 1]
        /\ podToLRU' = [podToLRU EXCEPT ![p] = new]
        /\ evicted' = [evicted EXCEPT ![c] = IF full THEN Head(lru) ELSE None]
        /\ dropped' = (dropped \/ full)
        /\ at[c] = "lru" /\ position[c] <= Len(H(c))
        /\ UNCHANGED <<asked, snapshot, match, picked, hashToPods, before, tangled>>
    BY <1>6 DEF Cycle!AddToLRU, Cycle!Goto, Cycle!inputs, H
  <2>2. p \in CandidatePods
    BY <2>1, TargetFacts
  <2>3. h \in AllHashes
    <3>1. H(c) \in Seq(AllHashes) /\ position[c] \in 1 .. Len(H(c))
      BY <2>1, HashFacts DEF CyclesTyped
    <3> QED
      BY <3>1
  <2>4. lru \in Seq(AllHashes)
    BY <2>1, <2>2 DEF CyclesTyped, Ready
  <2>5. full => lru # << >>
    BY <2>4, CapacityPositive
  <2>6. new \in Seq(AllHashes) /\ new # None
    <3>1. CASE full
      BY <2>3, <2>4, <2>5, <3>1, TailRemoves, PromptAssumption
    <3>2. CASE ~full
      <4>1. Cycle!RemoveFirst(lru, h) \in Seq(AllHashes)
        BY <2>4, RemoveFirstRemoves
      <4> QED
        BY <2>3, <3>2, <4>1, PromptAssumption
    <3> QED
      BY <3>1, <3>2
  <2>7. full => Head(lru) \in AllHashes
    BY <2>4, <2>5
  <2> HIDE DEF p, lru, h, full, new
  <2>8. at' \in [Cycles -> Points] /\ at'[c] \in {"lru", "evict"}
    BY <2>1 DEF CyclesTyped, Points
  <2>9. position' \in [Cycles -> Nat \ {0}] /\ dropped' \in BOOLEAN
    BY <2>1 DEF CyclesTyped
  <2>10. evicted' \in [Cycles -> AllHashes \union {None}]
    BY <2>1, <2>7 DEF CyclesTyped
  <2>11. podToLRU' \in [CandidatePods -> Seq(AllHashes) \union {None}]
    BY <2>1, <2>2, <2>6 DEF CyclesTyped
  <2>12. \A q \in CandidatePods : podToLRU'[q] = podToLRU[q] \/ podToLRU'[q] # None
    BY <2>1, <2>6 DEF CyclesTyped
  <2>13. Ready(c)'
    <3>1. Cycle!Target(c)' = p
      BY <2>1 DEF p, Cycle!Target
    <3>2. podToLRU'[p] # None
      BY <2>1, <2>2, <2>6 DEF CyclesTyped
    <3>3. picked[c] # << >>
      BY <2>1 DEF CyclesTyped, Ready
    <3> QED
      BY <2>1, <2>8, <3>1, <3>2, <3>3 DEF Ready
  <2> QED
    BY <1>0, <2>1, <2>8, <2>9, <2>10, <2>11, <2>12, <2>13, ReadyStep DEF CyclesTyped
<1>7. CASE Cycle!EvictionFn(c)
  <2>1. at' \in [Cycles -> Points] /\ at'[c] = "lru" /\ evicted' \in [Cycles -> AllHashes \union {None}]
    BY <1>7 DEF Cycle!EvictionFn, Cycle!Goto, CyclesTyped, Points
  <2>2. hashToPods' \subseteq AllHashes \X CandidatePods
    BY <1>7 DEF Cycle!EvictionFn, CyclesTyped
  <2>3. UNCHANGED <<asked, snapshot, position, match, picked, podToLRU, before, dropped, tangled>>
    BY <1>7 DEF Cycle!EvictionFn, Cycle!inputs
  <2>4. Ready(c)'
    <3>1. Cycle!Target(c)' = Cycle!Target(c)
      BY <2>3 DEF Cycle!Target
    <3> QED
      BY <1>7, <2>1, <2>3, <3>1 DEF Ready, Cycle!EvictionFn, CyclesTyped
  <2> QED
    BY <1>0, <2>1, <2>2, <2>3, <2>4, ReadyStep DEF CyclesTyped
<1>8. CASE Cycle!AddToReverseMap(c)
  <2>1. at' \in [Cycles -> Points] /\ at'[c] = "results"
    BY <1>8 DEF Cycle!AddToReverseMap, Cycle!Goto, CyclesTyped, Points
  <2>2. hashToPods' \subseteq AllHashes \X CandidatePods
    <3>1. Cycle!Target(c) \in CandidatePods
      BY <1>8, TargetFacts DEF Cycle!AddToReverseMap
    <3>2. \A k \in DOMAIN H(c) : H(c)[k] \in AllHashes
      BY HashFacts
    <3> QED
      BY <1>8, <3>1, <3>2 DEF Cycle!AddToReverseMap, CyclesTyped, H
  <2>3. UNCHANGED <<asked, snapshot, position, match, picked, evicted, podToLRU, before, dropped, tangled>>
    BY <1>8 DEF Cycle!AddToReverseMap, Cycle!inputs
  <2>4. Ready(c)'
    BY <2>1 DEF Ready
  <2> QED
    BY <1>0, <2>1, <2>2, <2>3, <2>4, ReadyStep DEF CyclesTyped
<1>9. CASE Cycle!ProcessResults(c)
  <2>1. at' \in [Cycles -> Points] /\ at'[c] \in {"scheduled", "failed"}
    BY <1>9 DEF Cycle!ProcessResults, Cycle!Goto, CyclesTyped, Points
  <2>2. picked' \in [Cycles -> Seq(CandidatePods)]
    <3>1. << >> \in Seq(CandidatePods)
      OBVIOUS
    <3> QED
      BY <1>9, <3>1 DEF Cycle!ProcessResults, CyclesTyped
  <2>3. UNCHANGED <<asked, snapshot, position, match, evicted, podToLRU, hashToPods, before, dropped, tangled>>
    BY <1>9 DEF Cycle!ProcessResults, Cycle!inputs, Cycle!index
  <2>4. Ready(c)'
    BY <2>1 DEF Ready
  <2> QED
    BY <1>0, <2>1, <2>2, <2>3, <2>4, ReadyStep DEF CyclesTyped
<1> QED
  BY <1>1, <1>2, <1>3, <1>4, <1>5, <1>6, <1>7, <1>8, <1>9 DEF Cycle!Schedule

-----------------------------------------------------------------------------
(* The index.                                                                *)

LEMMA PodFrame ==
    ASSUME NEW p, PodExact(p), asked' = asked, podToLRU'[p] = podToLRU[p], Cached(p)' = Cached(p),
           Cycle!Adding(p)' = Cycle!Adding(p),
           \A d \in Cycle!Adding(p) : at'[d] = at[d] /\ position'[d] = position[d] /\ evicted'[d] = evicted[d]
    PROVE  PodExact(p)'
<1>1. ASSUME NEW d \in Cycle!Adding(p) PROVE AddOf(d, p)'
  <2>1. AddOf(d, p) /\ H(d)' = H(d) /\ at'[d] = at[d] /\ position'[d] = position[d] /\ evicted'[d] = evicted[d]
    BY HashesSame DEF PodExact
  <2>2. Entered(d)' = Entered(d) /\ Cycle!maxLRUSize' = Cycle!maxLRUSize
    BY <2>1 DEF Entered, Cycle!maxLRUSize
  <2> QED
    BY <2>1, <2>2 DEF AddOf
<1>2. Cycle!maxLRUSize' = Cycle!maxLRUSize
  BY DEF Cycle!maxLRUSize
<1> QED
  BY <1>1, <1>2 DEF PodExact

\* A step of a cycle that is not in a call of Add.
LEMMA IndexFrame ==
    ASSUME IndexExact, NEW c \in Cycles, Alone(c), at[c] \notin {"lru", "evict"}, at'[c] \notin {"lru", "evict"},
           UNCHANGED <<podToLRU, hashToPods, tangled>>
    PROVE  IndexExact'
<1> SUFFICES ASSUME ~tangled, NEW p \in CandidatePods PROVE PodExact(p)'
  BY DEF IndexExact
<1>1. PodExact(p) /\ Cached(p)' = Cached(p) /\ asked' = asked
  BY DEF IndexExact, Cached, Alone
<1>2. \A d \in Cycle!Adding(p) : d \in Cycles \ {c}
  BY DEF Cycle!Adding
<1>3. Cycle!Adding(p)' = Cycle!Adding(p)
  <2>1. \A d \in Cycles : d \in Cycle!Adding(p)' <=> d \in Cycle!Adding(p)
    <3> TAKE d \in Cycles
    <3>1. CASE d = c
      BY <3>1 DEF Cycle!Adding
    <3>2. CASE d # c
      BY <3>2 DEF Cycle!Adding, Cycle!Target, Alone
    <3> QED
      BY <3>1, <3>2
  <2> QED
    BY <2>1 DEF Cycle!Adding
<1> QED
  BY <1>1, <1>2, <1>3, PodFrame DEF Alone

\* A step of a call of Add, seen from another pod.
LEMMA OtherPod ==
    ASSUME NEW c \in Cycles, Alone(c), picked'[c] = picked[c],
           NEW p, PodExact(p), p # Cycle!Target(c), podToLRU'[p] = podToLRU[p], Cached(p)' = Cached(p)
    PROVE  PodExact(p)'
<1>1. \A d \in Cycle!Adding(p) : d \in Cycles \ {c}
  BY DEF Cycle!Adding
<1>2. Cycle!Adding(p)' = Cycle!Adding(p)
  <2>1. \A d \in Cycles : d \in Cycle!Adding(p)' <=> d \in Cycle!Adding(p)
    <3> TAKE d \in Cycles
    <3>1. CASE d = c
      BY <3>1 DEF Cycle!Adding, Cycle!Target
    <3>2. CASE d # c
      BY <3>2 DEF Cycle!Adding, Cycle!Target, Alone
    <3> QED
      BY <3>1, <3>2
  <2> QED
    BY <2>1 DEF Cycle!Adding
<1> QED
  BY <1>1, <1>2, PodFrame DEF Alone

LEMMA LocateExact ==
    ASSUME CyclesTyped, IndexExact, NEW c \in Cycles, Alone(c), Cycle!AddLocate(c)
    PROVE  IndexExact'
<1> DEFINE p == Cycle!Target(c)
<1>1. /\ at[c] = "add" /\ at' = [at EXCEPT ![c] = "lru"]
      /\ podToLRU' = IF podToLRU[p] = None THEN [podToLRU EXCEPT ![p] = << >>] ELSE podToLRU
      /\ tangled' = (tangled \/ Cycle!Adding(p) # {} \/ Len(H(c)) > Cycle!maxLRUSize)
      /\ UNCHANGED <<asked, position, picked, evicted, hashToPods>>
  BY DEF Cycle!AddLocate, Cycle!Goto, Cycle!inputs, H
<1>2. p \in CandidatePods /\ position[c] = 1 /\ position'[c] = 1 /\ at'[c] = "lru"
  BY <1>1, TargetFacts DEF CyclesTyped, Ready
<1> SUFFICES ASSUME ~tangled', NEW q \in CandidatePods PROVE PodExact(q)'
  BY DEF IndexExact
<1>3. PodExact(q) /\ PodExact(p) /\ Cycle!Adding(p) = {}
  BY <1>1, <1>2 DEF IndexExact
<1>4. Len(H(c)) <= Cycle!maxLRUSize
  <2>1. Len(H(c)) \in Nat /\ Cycle!maxLRUSize \in Nat /\ ~(Len(H(c)) > Cycle!maxLRUSize)
    BY <1>1, HashFacts, CapacityPositive
  <2> HIDE DEF p
  <2> QED
    BY <2>1
<1>5. CASE q # p
  <2>1. podToLRU'[q] = podToLRU[q] /\ Cached(q)' = Cached(q) /\ picked'[c] = picked[c]
    BY <1>1, <1>5 DEF CyclesTyped, Cached
  <2> QED
    BY <1>3, <1>5, <2>1, OtherPod
<1>6. CASE q = p
  <2>1. Cycle!Adding(p)' = {c}
    <3>1. \A d \in Cycles : d # c => ~(at[d] \in {"lru", "evict"} /\ Cycle!Target(d) = p)
      BY <1>3 DEF Cycle!Adding
    <3>2. \A d \in Cycles : d # c => at'[d] = at[d] /\ Cycle!Target(d)' = Cycle!Target(d)
      BY <1>1 DEF Cycle!Target, CyclesTyped
    <3>3. Cycle!Target(c)' = p /\ p' = p
      BY <1>1 DEF Cycle!Target
    <3> QED
      BY <1>2, <3>1, <3>2, <3>3 DEF Cycle!Adding
  <2>2. /\ podToLRU'[p] # None /\ Distinct(podToLRU'[p]) /\ Len(podToLRU'[p]) <= Cycle!maxLRUSize
        /\ Elements(podToLRU'[p]) = Cached(p) /\ Len(podToLRU'[p]) \in Nat
    <3>1. CASE podToLRU[p] = None
      <4>1. podToLRU'[p] = << >> /\ Cached(p) = {}
        BY <1>1, <1>2, <1>3, <3>1 DEF PodExact, CyclesTyped
      <4> HIDE DEF p
      <4> QED
        BY <4>1, EmptyIsNoNone, CapacityPositive DEF Distinct, Elements
    <3>2. CASE podToLRU[p] # None
      <4>1. podToLRU'[p] = podToLRU[p] /\ podToLRU[p] \in Seq(AllHashes)
        BY <1>1, <1>2, <3>2 DEF CyclesTyped
      <4> QED
        BY <1>3, <3>2, <4>1 DEF PodExact
    <3> QED
      BY <3>1, <3>2
  <2>3. AddOf(c, p)'
    <3>1. H(c)' = H(c) /\ Cached(p)' = Cached(p) /\ Cycle!maxLRUSize' = Cycle!maxLRUSize
      BY <1>1, HashesSame DEF Cached, Cycle!Target, Cycle!maxLRUSize
    <3>2. Entered(c)' = {}
      BY <1>2 DEF Entered
    <3>3. EndsWith(podToLRU'[p], H(c), 0)
      BY <2>2 DEF EndsWith
    <3>4. p' = p
      BY <1>1 DEF Cycle!Target
    <3>5. Len(H(c)) \in Nat /\ position'[c] - 1 = 0
      BY <1>2, HashFacts
    <3> QED
      BY <1>2, <1>4, <2>2, <3>1, <3>2, <3>3, <3>4, <3>5 DEF AddOf
  <2>4. p' = p /\ Cycle!maxLRUSize' = Cycle!maxLRUSize
    BY <1>1 DEF Cycle!Target, Cycle!maxLRUSize
  <2> HIDE DEF p
  <2>5. PodExact(p)'
    BY <2>1, <2>2, <2>3, <2>4 DEF PodExact
  <2> QED
    BY <1>6, <2>4, <2>5
<1> QED
  BY <1>5, <1>6

\* The one call of Add that a pod has.
LEMMA OneAdd ==
    ASSUME CyclesTyped, IndexExact, ~tangled, NEW c \in Cycles, at[c] \in {"lru", "evict"}
    PROVE  /\ Cycle!Target(c) \in CandidatePods /\ Cycle!Adding(Cycle!Target(c)) = {c}
           /\ PodExact(Cycle!Target(c)) /\ AddOf(c, Cycle!Target(c))
           /\ podToLRU[Cycle!Target(c)] # None /\ podToLRU[Cycle!Target(c)] \in Seq(AllHashes)
<1> DEFINE p == Cycle!Target(c)
<1>1. p \in CandidatePods
  BY TargetFacts
<1>2. c \in Cycle!Adding(p)
  BY DEF Cycle!Adding
<1>3. PodExact(p)
  BY <1>1 DEF IndexExact
<1>4. Cycle!Adding(p) = {c}
  BY <1>2, <1>3 DEF PodExact
<1>5. podToLRU[p] # None /\ podToLRU[p] \in Seq(AllHashes)
  BY <1>1 DEF CyclesTyped, Ready
<1> QED
  BY <1>1, <1>2, <1>3, <1>4, <1>5 DEF PodExact

LEMMA EvictionExact ==
    ASSUME CyclesTyped, IndexExact, NEW c \in Cycles, Alone(c), Cycle!EvictionFn(c)
    PROVE  IndexExact'
<1> DEFINE p == Cycle!Target(c)
<1>1. /\ at[c] = "evict" /\ at' = [at EXCEPT ![c] = "lru"]
      /\ hashToPods' = hashToPods \ {<<evicted[c], p>>}
      /\ UNCHANGED <<asked, position, picked, podToLRU, tangled>>
  BY DEF Cycle!EvictionFn, Cycle!Goto, Cycle!inputs
<1> SUFFICES ASSUME ~tangled, NEW q \in CandidatePods PROVE PodExact(q)'
  BY <1>1 DEF IndexExact
<1>2. p \in CandidatePods /\ Cycle!Adding(p) = {c} /\ PodExact(p) /\ AddOf(c, p) /\ podToLRU[p] # None
  BY <1>1, OneAdd
<1>3. p' = p /\ at'[c] = "lru" /\ Cycle!maxLRUSize' = Cycle!maxLRUSize
  BY <1>1 DEF Cycle!Target, CyclesTyped, Cycle!maxLRUSize
<1>4. CASE q # p
  <2>1. Cached(q)' = Cached(q)
    BY <1>1, <1>4 DEF Cached
  <2>2. PodExact(q) /\ podToLRU'[q] = podToLRU[q] /\ picked'[c] = picked[c]
    BY <1>1 DEF IndexExact
  <2> QED
    BY <1>4, <2>1, <2>2, OtherPod
<1>5. CASE q = p
  <2>1. Cycle!Adding(p)' = {c}
    <3>1. \A d \in Cycles : d # c => at'[d] = at[d]
      BY <1>1 DEF CyclesTyped
    <3>2. \A d \in Cycles : Cycle!Target(d)' = Cycle!Target(d)
      BY <1>1 DEF Cycle!Target
    <3>3. \A d \in Cycles : d # c => ~(at[d] \in {"lru", "evict"} /\ Cycle!Target(d) = p)
      BY <1>2 DEF Cycle!Adding
    <3> QED
      BY <1>3, <3>1, <3>2, <3>3 DEF Cycle!Adding
  <2>2. Cached(p)' = Cached(p) \ {evicted[c]}
    BY <1>1, <1>3 DEF Cached
  <2>3. AddOf(c, p)'
    <3>1. H(c)' = H(c) /\ Entered(c)' = Entered(c)
      BY <1>1, HashesSame DEF Entered
    <3>2. Elements(podToLRU[p]) = (Cached(p) \ {evicted[c]}) \union Entered(c)
      BY <1>1, <1>2 DEF AddOf
    <3> QED
      BY <1>1, <1>2, <1>3, <2>2, <3>1, <3>2 DEF AddOf
  <2> HIDE DEF p
  <2>4. PodExact(p)'
    BY <1>1, <1>2, <1>3, <2>1, <2>3 DEF PodExact
  <2> QED
    BY <1>3, <1>5, <2>4
<1> QED
  BY <1>4, <1>5

LEMMA ReverseMapUpdateExact ==
    ASSUME CyclesTyped, IndexExact, NEW c \in Cycles, Alone(c), Cycle!AddToReverseMap(c)
    PROVE  IndexExact'
<1> DEFINE p == Cycle!Target(c)
<1>1. /\ at[c] = "lru" /\ at' = [at EXCEPT ![c] = "results"] /\ position[c] > Len(H(c))
      /\ hashToPods' = hashToPods \union {<<H(c)[k], p>> : k \in DOMAIN H(c)}
      /\ UNCHANGED <<asked, position, picked, podToLRU, tangled>>
  BY DEF Cycle!AddToReverseMap, Cycle!Goto, Cycle!inputs, H
<1> SUFFICES ASSUME ~tangled, NEW q \in CandidatePods PROVE PodExact(q)'
  BY <1>1 DEF IndexExact
<1>2. p \in CandidatePods /\ Cycle!Adding(p) = {c} /\ PodExact(p) /\ AddOf(c, p) /\ podToLRU[p] # None
  BY <1>1, OneAdd
<1>3. p' = p /\ at'[c] = "results" /\ Cycle!maxLRUSize' = Cycle!maxLRUSize
  BY <1>1 DEF Cycle!Target, CyclesTyped, Cycle!maxLRUSize
<1>4. CASE q # p
  <2>1. Cached(q)' = Cached(q)
    BY <1>1, <1>4 DEF Cached
  <2>2. PodExact(q) /\ podToLRU'[q] = podToLRU[q] /\ picked'[c] = picked[c]
    BY <1>1 DEF IndexExact
  <2> QED
    BY <1>4, <2>1, <2>2, OtherPod
<1>5. CASE q = p
  <2>1. Cycle!Adding(p)' = {}
    <3>1. \A d \in Cycles : d # c => at'[d] = at[d]
      BY <1>1 DEF CyclesTyped
    <3>2. \A d \in Cycles : Cycle!Target(d)' = Cycle!Target(d)
      BY <1>1 DEF Cycle!Target
    <3>3. \A d \in Cycles : d # c => ~(at[d] \in {"lru", "evict"} /\ Cycle!Target(d) = p)
      BY <1>2 DEF Cycle!Adding
    <3> QED
      BY <1>3, <3>1, <3>2, <3>3 DEF Cycle!Adding
  <2>2. Elements(podToLRU[p]) = Cached(p)'
    <3>1. position[c] - 1 = Len(H(c)) /\ DOMAIN H(c) = 1 .. Len(H(c)) /\ \A k \in DOMAIN H(c) : H(c)[k] \in AllHashes
      <4>1. position[c] \in Nat /\ Len(H(c)) \in Nat /\ DOMAIN H(c) = 1 .. Len(H(c)) /\ H(c) \in Seq(AllHashes)
        BY HashFacts DEF CyclesTyped
      <4>2. position[c] > Len(H(c)) /\ position[c] - 1 <= Len(H(c))
        BY <1>1, <1>2 DEF AddOf
      <4>3. position[c] - 1 = Len(H(c))
        BY <4>1, <4>2
      <4> QED
        BY <4>1, <4>3
    <3>2. Entered(c) = {H(c)[k] : k \in DOMAIN H(c)}
      BY <3>1 DEF Entered
    <3>3. Cached(p)' = Cached(p) \union {H(c)[k] : k \in DOMAIN H(c)}
      BY <1>1, <1>3, <3>1 DEF Cached
    <3>4. Elements(podToLRU[p]) = Cached(p) \union Entered(c)
      BY <1>1, <1>2 DEF AddOf
    <3> QED
      BY <3>2, <3>3, <3>4
  <2> HIDE DEF p
  <2>4. PodExact(p)'
    BY <1>1, <1>2, <1>3, <2>1, <2>2 DEF PodExact
  <2> QED
    BY <1>3, <1>5, <2>4
<1> QED
  BY <1>4, <1>5

\* A hash that is new to an LRU with room for it.
LEMMA AddedAtEnd ==
    ASSUME NEW S, NEW s \in Seq(S), NEW x \in S, Distinct(s), \A k \in 1 .. Len(s) : s[k] # x,
           NEW h, NEW m \in Nat, EndsWith(s, h, m), h[m + 1] = x
    PROVE  LET new == Append(s, x)
           IN  /\ new \in Seq(S) /\ Len(new) = Len(s) + 1 /\ Distinct(new) /\ EndsWith(new, h, m + 1)
               /\ Elements(new) = Elements(s) \union {x}
<1> DEFINE new == Append(s, x)
           n == Len(s)
<1>1. /\ n \in Nat /\ DOMAIN s = 1 .. n /\ new \in Seq(S) /\ Len(new) = n + 1 /\ DOMAIN new = 1 .. n + 1
      /\ \A k \in 1 .. n : new[k] = s[k]
      /\ new[n + 1] = x
  OBVIOUS
<1> HIDE DEF new
<1>2. Distinct(new)
  BY <1>1 DEF Distinct
<1>3. EndsWith(new, h, m + 1)
  <2>1. m <= n
    BY DEF EndsWith
  <2>2. ASSUME NEW j \in 1 .. m + 1 PROVE new[(n + 1) - (m + 1) + j] = h[j]
    <3>1. CASE j = m + 1
      <4>1. (n + 1) - (m + 1) + j = n + 1
        BY <1>1, <3>1
      <4> QED
        BY <1>1, <3>1, <4>1
    <3>2. CASE j # m + 1
      <4>1. j \in 1 .. m /\ (n + 1) - (m + 1) + j = n - m + j /\ n - m + j \in 1 .. n
        BY <1>1, <2>1, <3>2
      <4>2. s[n - m + j] = h[j]
        BY <4>1 DEF EndsWith
      <4> QED
        BY <1>1, <4>1, <4>2
    <3> QED
      BY <3>1, <3>2
  <2> HIDE DEF n
  <2> QED
    BY <1>1, <2>1, <2>2 DEF EndsWith
<1>4. Elements(new) = Elements(s) \union {x}
  <2>1. \A y : y \in Elements(s) => y \in Elements(new)
    BY <1>1 DEF Elements
  <2>2. x \in Elements(new)
    BY <1>1 DEF Elements
  <2>3. ASSUME NEW y \in Elements(new) PROVE y \in Elements(s) \union {x}
    <3>1. PICK k \in 1 .. n + 1 : y = new[k]
      BY <1>1, <2>3 DEF Elements
    <3>2. CASE k = n + 1
      BY <1>1, <3>1, <3>2
    <3>3. CASE k # n + 1
      <4>1. k \in 1 .. n
        BY <1>1, <3>3
      <4> QED
        BY <1>1, <3>1, <4>1 DEF Elements
    <3> QED
      BY <3>2, <3>3
  <2> QED
    BY <2>1, <2>2, <2>3
<1> QED
  BY <1>1, <1>2, <1>3, <1>4 DEF new

\* A hash enters the LRU of a call of Add.
LEMMA HashEnters ==
    ASSUME CyclesTyped, IndexExact, ~tangled, NEW c \in Cycles, at[c] = "lru", position[c] <= Len(H(c))
    PROVE  LET lru == podToLRU[Cycle!Target(c)]
               h == H(c)[position[c]]
               full == ~Cycle!Contains(lru, h) /\ Len(lru) = Cycle!maxLRUSize
               new == Append(IF full THEN Tail(lru) ELSE Cycle!RemoveFirst(lru, h), h)
           IN  /\ new \in Seq(AllHashes) /\ Len(new) <= Cycle!maxLRUSize /\ Distinct(new)
               /\ EndsWith(new, H(c), position[c])
               /\ full => Elements(new) = (Elements(lru) \ {Head(lru)}) \union {h} /\ Head(lru) \notin Entered(c)
               /\ ~full => Elements(new) = Elements(lru) \union {h}
<1> DEFINE lru == podToLRU[Cycle!Target(c)]
           h == H(c)[position[c]]
           full == ~Cycle!Contains(lru, h) /\ Len(lru) = Cycle!maxLRUSize
           new == Append(IF full THEN Tail(lru) ELSE Cycle!RemoveFirst(lru, h), h)
           m == position[c] - 1
           max == Cycle!maxLRUSize
           hs == H(c)
           last == position[c]
           entered == Entered(c)
<1>1. lru \in Seq(AllHashes) /\ Distinct(lru) /\ Len(lru) <= max /\ EndsWith(lru, hs, m) /\ Len(hs) <= max
  BY OneAdd DEF PodExact, AddOf
<1>2. max \in Nat \ {0} /\ last \in Nat \ {0} /\ last <= Len(hs) /\ m \in Nat /\ m + 1 = last
  BY CapacityPositive DEF CyclesTyped
<1>3. Chained(hs) /\ hs \in Seq(AllHashes) /\ Len(hs) \in Nat /\ DOMAIN hs = 1 .. Len(hs)
  BY HashFacts
<1>4. h \in AllHashes /\ h = hs[m + 1] /\ last \in DOMAIN hs
  BY <1>2, <1>3
<1>5. entered = {hs[j] : j \in 1 .. m}
  BY DEF Entered
<1>h. h = hs[last]
  OBVIOUS
<1> HIDE DEF lru, h, m, max, hs, last, entered
<1>6. \A j \in 1 .. m : hs[j] # h
  <2> TAKE j \in 1 .. m
  <2>1. j \in DOMAIN hs /\ j # last
    BY <1>2, <1>3
  <2> QED
    BY <1>3, <1>4, <1>h, <2>1, SameHash
<1>7. m <= Len(lru) /\ \A j \in 1 .. m : lru[Len(lru) - m + j] = hs[j]
  BY <1>1 DEF EndsWith
<1>8. Len(lru) \in Nat
  BY <1>1
<1>9. CASE full
  <2>1. \A k \in 1 .. Len(lru) : lru[k] # h
    BY <1>9 DEF Cycle!Contains
  <2>2. Len(lru) = max /\ lru # << >>
    BY <1>1, <1>2, <1>9 DEF max
  <2>3. Tail(lru) \in Seq(AllHashes) /\ Removed(Tail(lru), lru, 1)
    BY <1>1, <2>2, TailRemoves
  <2>4. 1 <= Len(lru) - m
    BY <1>1, <1>2, <1>3, <2>2
  <2>5. new = Append(Tail(lru), h)
    BY <1>9
  <2>6. /\ new \in Seq(AllHashes) /\ Len(new) = Len(lru) /\ Distinct(new) /\ EndsWith(new, hs, m + 1)
        /\ Elements(new) = (Elements(lru) \ {lru[1]}) \union {h}
    <3> DEFINE rest == Tail(lru)
    <3>1. rest \in Seq(AllHashes) /\ Removed(rest, lru, 1) /\ new = Append(rest, h)
      BY <2>3, <2>5
    <3>2. \A k \in 1 .. Len(lru) : lru[k] = h => k = 1
      BY <2>1
    <3>3. lru \in Seq(AllHashes) /\ h \in AllHashes /\ Distinct(lru) /\ m \in Nat /\ EndsWith(lru, hs, m)
          /\ hs[m + 1] = h
      BY <1>1, <1>2, <1>4
    <3> HIDE DEF new, full, rest
    <3>4. LET a == Append(rest, h)
          IN  /\ a \in Seq(AllHashes) /\ Len(a) = Len(lru) /\ Distinct(a) /\ EndsWith(a, hs, m + 1)
              /\ Elements(a) = (Elements(lru) \ {lru[1]}) \union {h}
      BY <2>4, <3>1, <3>2, <3>3, MovedToEnd
    <3> QED
      BY <3>1, <3>4
  <2>7. Head(lru) = lru[1]
    BY <1>1, <2>2
  <2>8. lru[1] \notin entered
    <3> SUFFICES ASSUME NEW j \in 1 .. m, lru[1] = hs[j] PROVE FALSE
      BY <1>5
    <3>1. lru[Len(lru) - m + j] = lru[1] /\ Len(lru) - m + j \in 1 .. Len(lru) /\ 1 \in 1 .. Len(lru)
      BY <1>2, <1>7, <1>8, <2>4
    <3>2. Len(lru) - m + j = 1
      BY <1>1, <3>1 DEF Distinct
    <3> QED
      BY <1>2, <1>8, <2>4, <3>2
  <2> HIDE DEF new, full
  <2> QED
    BY <1>2, <1>9, <2>2, <2>6, <2>7, <2>8 DEF new, full, lru, h, m, max, hs, last, entered
<1>10. CASE ~full /\ Cycle!Contains(lru, h)
  <2>1. PICK q \in 1 .. Len(lru) : /\ lru[q] = h /\ Cycle!RemoveFirst(lru, h) \in Seq(AllHashes)
                                   /\ Removed(Cycle!RemoveFirst(lru, h), lru, q)
    BY <1>1, <1>10, RemoveFirstRemoves
  <2>2. \A k \in 1 .. Len(lru) : lru[k] = h => k = q
    BY <1>1, <2>1 DEF Distinct
  <2>3. q <= Len(lru) - m
    <3> SUFFICES ASSUME ~(q <= Len(lru) - m) PROVE FALSE
      OBVIOUS
    <3> DEFINE j == q - (Len(lru) - m)
    <3>1. j \in 1 .. m /\ Len(lru) - m + j = q
      BY <1>2, <1>7, <1>8
    <3>2. hs[j] = h
      <4> HIDE DEF j
      <4> QED
        BY <1>7, <2>1, <3>1
    <3> HIDE DEF j
    <3> QED
      BY <1>6, <3>1, <3>2
  <2>4. new = Append(Cycle!RemoveFirst(lru, h), h)
    BY <1>10
  <2>5. /\ new \in Seq(AllHashes) /\ Len(new) = Len(lru) /\ Distinct(new) /\ EndsWith(new, hs, m + 1)
        /\ Elements(new) = (Elements(lru) \ {lru[q]}) \union {h}
    <3> DEFINE rest == Cycle!RemoveFirst(lru, h)
    <3>1. rest \in Seq(AllHashes) /\ Removed(rest, lru, q) /\ new = Append(rest, h)
      BY <2>1, <2>4
    <3>2. lru \in Seq(AllHashes) /\ h \in AllHashes /\ Distinct(lru) /\ m \in Nat /\ EndsWith(lru, hs, m)
          /\ hs[m + 1] = h
      BY <1>1, <1>2, <1>4
    <3> HIDE DEF new, full, rest
    <3>3. LET a == Append(rest, h)
          IN  /\ a \in Seq(AllHashes) /\ Len(a) = Len(lru) /\ Distinct(a) /\ EndsWith(a, hs, m + 1)
              /\ Elements(a) = (Elements(lru) \ {lru[q]}) \union {h}
      BY <2>2, <2>3, <3>1, <3>2, MovedToEnd
    <3> QED
      BY <3>1, <3>3
  <2>6. Elements(new) = Elements(lru) \union {h}
    <3> HIDE DEF new, full
    <3> QED
      BY <2>1, <2>5
  <2> HIDE DEF new, full
  <2> QED
    BY <1>1, <1>2, <1>10, <2>5, <2>6 DEF new, full, lru, h, m, max, hs, last, entered
<1>11. CASE ~full /\ ~Cycle!Contains(lru, h)
  <2>1. \A k \in 1 .. Len(lru) : lru[k] # h
    BY <1>11 DEF Cycle!Contains
  <2>2. new = Append(lru, h)
    BY <1>1, <1>11, RemoveFirstRemoves
  <2>3. /\ new \in Seq(AllHashes) /\ Len(new) = Len(lru) + 1 /\ Distinct(new) /\ EndsWith(new, hs, m + 1)
        /\ Elements(new) = Elements(lru) \union {h}
    <3> HIDE DEF new, full
    <3> QED
      BY <1>1, <1>2, <1>4, <2>1, <2>2, AddedAtEnd
  <2>4. Len(lru) + 1 <= max
    <3>1. Len(lru) # max
      BY <1>11 DEF max
    <3> QED
      BY <1>1, <1>2, <1>8, <3>1
  <2> HIDE DEF new, full
  <2> QED
    BY <1>2, <1>11, <2>3, <2>4 DEF new, full, lru, h, m, max, hs, last, entered
<1> QED
  BY <1>9, <1>10, <1>11

LEMMA AddToLRUExact ==
    ASSUME CyclesTyped, IndexExact, NEW c \in Cycles, Alone(c), Cycle!AddToLRU(c)
    PROVE  IndexExact'
<1> DEFINE p == Cycle!Target(c)
           lru == podToLRU[p]
           h == H(c)[position[c]]
           full == ~Cycle!Contains(lru, h) /\ Len(lru) = Cycle!maxLRUSize
           new == Append(IF full THEN Tail(lru) ELSE Cycle!RemoveFirst(lru, h), h)
<1>1. /\ at[c] = "lru" /\ position[c] <= Len(H(c))
      /\ at' = [at EXCEPT ![c] = IF full THEN "evict" ELSE "lru"]
      /\ position' = [position EXCEPT ![c] = @ + 1]
      /\ podToLRU' = [podToLRU EXCEPT ![p] = new]
      /\ evicted' = [evicted EXCEPT ![c] = IF full THEN Head(lru) ELSE None]
      /\ UNCHANGED <<asked, picked, hashToPods, tangled>>
  BY DEF Cycle!AddToLRU, Cycle!Goto, Cycle!inputs, H
<1> SUFFICES ASSUME ~tangled, NEW q \in CandidatePods PROVE PodExact(q)'
  BY <1>1 DEF IndexExact
<1>2. p \in CandidatePods /\ Cycle!Adding(p) = {c} /\ PodExact(p) /\ AddOf(c, p)
  BY <1>1, OneAdd
<1>3. /\ new \in Seq(AllHashes) /\ Len(new) <= Cycle!maxLRUSize /\ Distinct(new)
      /\ EndsWith(new, H(c), position[c])
      /\ full => Elements(new) = (Elements(lru) \ {Head(lru)}) \union {h} /\ Head(lru) \notin Entered(c)
      /\ ~full => Elements(new) = Elements(lru) \union {h}
  BY <1>1, HashEnters
<1>4. Elements(lru) = Cached(p) \union Entered(c)
  BY <1>1, <1>2 DEF AddOf
<1>5. full \in BOOLEAN /\ h = H(c)[position[c]]
  OBVIOUS
<1> HIDE DEF lru, h, full, new
<1>6. /\ p' = p /\ podToLRU'[p] = new /\ position'[c] = position[c] + 1 /\ Cycle!maxLRUSize' = Cycle!maxLRUSize
      /\ at'[c] = (IF full THEN "evict" ELSE "lru") /\ evicted'[c] = (IF full THEN Head(lru) ELSE None)
      /\ position[c] \in Nat \ {0} /\ Cached(p)' = Cached(p) /\ Cached(q)' = Cached(q) /\ H(c)' = H(c)
  BY <1>1, <1>2, HashesSame DEF Cycle!Target, CyclesTyped, Cycle!maxLRUSize, Cached
<1>7. CASE q # p
  <2>1. PodExact(q) /\ podToLRU'[q] = podToLRU[q] /\ picked'[c] = picked[c]
    BY <1>1, <1>7 DEF IndexExact, CyclesTyped
  <2> QED
    BY <1>6, <1>7, <2>1, OtherPod
<1>8. CASE q = p
  <2>1. Cycle!Adding(p)' = {c}
    <3>1. \A d \in Cycles : d # c => at'[d] = at[d]
      BY <1>1 DEF CyclesTyped
    <3>2. \A d \in Cycles : Cycle!Target(d)' = Cycle!Target(d)
      BY <1>1 DEF Cycle!Target
    <3>3. \A d \in Cycles : d # c => ~(at[d] \in {"lru", "evict"} /\ Cycle!Target(d) = p)
      BY <1>2 DEF Cycle!Adding
    <3>4. at'[c] \in {"lru", "evict"}
      BY <1>5, <1>6
    <3> QED
      BY <1>6, <3>1, <3>2, <3>3, <3>4 DEF Cycle!Adding
  <2>2. Entered(c)' = Entered(c) \union {h}
    <3>1. position'[c] - 1 = position[c]
      BY <1>6
    <3>2. \A j \in 1 .. position[c] : j \in 1 .. position[c] - 1 \/ j = position[c]
      BY <1>6
    <3>3. 1 .. position[c] - 1 \subseteq 1 .. position[c] /\ position[c] \in 1 .. position[c]
      BY <1>6
    <3>4. Entered(c)' = {H(c)[j] : j \in 1 .. position[c]}
      BY <1>6, <3>1 DEF Entered
    <3> QED
      BY <1>5, <3>2, <3>3, <3>4 DEF Entered
  <2>3. AddOf(c, p)'
    <3>1. position'[c] - 1 = position[c]
      BY <1>6
    <3>2. full => Elements(new) = (Cached(p) \ {Head(lru)}) \union Entered(c)'
      BY <1>3, <1>4, <2>2
    <3>3. ~full => Elements(new) = Cached(p) \union Entered(c)'
      BY <1>3, <1>4, <2>2
    <3> QED
      BY <1>1, <1>2, <1>3, <1>5, <1>6, <3>1, <3>2, <3>3 DEF AddOf
  <2>4. new # None
    BY <1>3, PromptAssumption
  <2> HIDE DEF p
  <2>5. PodExact(p)'
    BY <1>3, <1>6, <2>1, <2>3, <2>4 DEF PodExact
  <2> QED
    BY <1>6, <1>8, <2>5
<1> QED
  BY <1>7, <1>8

LEMMA IndexStep ==
    ASSUME CyclesTyped, IndexExact, NEW c \in Cycles, Cycle!Schedule(c)
    PROVE  IndexExact'
<1>0. Alone(c)
  BY AloneStep
<1>1. CASE Cycle!NoPodsAvailable(c)
  BY <1>0, <1>1, IndexFrame DEF Cycle!NoPodsAvailable, Cycle!Goto, Cycle!index, CyclesTyped
<1>2. CASE Cycle!Begin(c)
  BY <1>0, <1>2, IndexFrame DEF Cycle!Begin, Cycle!Goto, Cycle!index, CyclesTyped
<1>3. CASE Cycle!MatchHash(c)
  BY <1>0, <1>3, IndexFrame DEF Cycle!MatchHash, Cycle!index, CyclesTyped
<1>4. CASE Cycle!PickPods(c)
  BY <1>0, <1>4, IndexFrame DEF Cycle!PickPods, Cycle!Goto, Cycle!index, CyclesTyped
<1>5. CASE Cycle!ProcessResults(c)
  BY <1>0, <1>5, IndexFrame DEF Cycle!ProcessResults, Cycle!Goto, Cycle!index, CyclesTyped
<1> QED
  BY <1>0, <1>1, <1>2, <1>3, <1>4, <1>5, LocateExact, AddToLRUExact, EvictionExact, ReverseMapUpdateExact
  DEF Cycle!Schedule

LEMMA IndexInit == Cycle!Init => IndexExact
<1> SUFFICES ASSUME Cycle!Init, NEW p \in CandidatePods PROVE PodExact(p)
  BY DEF IndexExact
<1>1. Cycle!Adding(p) = {} /\ Cached(p) = {} /\ podToLRU[p] = None
  BY DEF Cycle!Init, Cycle!Adding, Cached
<1> QED
  BY <1>1 DEF PodExact

LEMMA ExactMap == CyclesTyped /\ IndexExact => ReverseMapExact
<1> SUFFICES ASSUME CyclesTyped, IndexExact, ~tangled, \A p \in CandidatePods : Cycle!Adding(p) = {}
             PROVE  hashToPods = UNION {{<<h, p>> : h \in Cycle!ToSet(podToLRU[p])} :
                                          p \in {q \in CandidatePods : podToLRU[q] # None}}
  BY DEF ReverseMapExact, Cycle!ReverseMapExact
<1>1. \A p \in CandidatePods : podToLRU[p] # None => Cycle!ToSet(podToLRU[p]) = Cached(p)
  BY DEF IndexExact, PodExact, Elements, Cycle!ToSet
<1>2. \A p \in CandidatePods : podToLRU[p] = None => Cached(p) = {}
  BY DEF IndexExact, PodExact
<1>3. \A x \in hashToPods : \E h \in AllHashes, p \in CandidatePods : x = <<h, p>>
  BY DEF CyclesTyped
<1> QED
  BY <1>1, <1>2, <1>3 DEF Cached

-----------------------------------------------------------------------------
(* The lookups.                                                              *)

LEMMA WalkFrame ==
    ASSUME NEW d, NEW p, WalkOf(d, p), asked' = asked, position'[d] = position[d],
           match'[d] = match[d], before'[d] = before[d], hashToPods \subseteq hashToPods'
    PROVE  WalkOf(d, p)'
<1>1. H(d)' = H(d)
  BY HashesSame
<1> QED
  BY <1>1 DEF WalkOf

\* A step that drops nothing and leaves the other lookups alone.
LEMMA WalksFrame ==
    ASSUME WalksExact, NEW c \in Cycles, Alone(c), hashToPods \subseteq hashToPods', dropped' = dropped,
           ~dropped => PrefixClosed', at'[c] # "evict",
           at'[c] = "match" /\ ~dropped =>
             position'[c] <= Len(H(c)) + 1 /\ \A p \in CandidatePods : WalkOf(c, p)'
    PROVE  WalksExact'
<1>1. \A d \in Cycles : at'[d] = "evict" => dropped
  BY DEF WalksExact, Alone
<1>2. \A d \in Cycles : H(d)' = H(d)
  BY HashesSame DEF Alone
<1>3. ASSUME ~dropped, NEW d \in Cycles, at'[d] = "match"
      PROVE  position'[d] <= Len(H(d)) + 1 /\ \A p \in CandidatePods : WalkOf(d, p)'
  <2>1. CASE d = c
    BY <1>3, <2>1
  <2>2. CASE d # c
    <3>1. /\ at[d] = "match" /\ asked' = asked /\ position'[d] = position[d]
          /\ match'[d] = match[d] /\ before'[d] = before[d]
      BY <1>3, <2>2 DEF Alone
    <3>2. position[d] <= Len(H(d)) + 1 /\ \A p \in CandidatePods : WalkOf(d, p)
      BY <1>3, <3>1 DEF WalksExact
    <3> QED
      BY <3>1, <3>2, WalkFrame
  <2> QED
    BY <2>1, <2>2
<1> QED
  BY <1>1, <1>2, <1>3 DEF WalksExact

LEMMA ClosedFrame == ASSUME PrefixClosed, asked' = asked, hashToPods' = hashToPods PROVE PrefixClosed'
<1>1. \A c \in Cycles : H(c)' = H(c)
  BY HashesSame
<1> QED
  BY <1>1 DEF PrefixClosed

\* A request's hashes enter the map all at once: another request that shares one
\* of them shares the ones before it.
LEMMA ClosedUpdate ==
    ASSUME CyclesTyped, PrefixClosed, NEW c \in Cycles, Cycle!AddToReverseMap(c)
    PROVE  PrefixClosed'
<1> DEFINE t == Cycle!Target(c)
<1>1. /\ hashToPods' = hashToPods \union {<<H(c)[k], t>> : k \in DOMAIN H(c)}
      /\ asked' = asked
  BY DEF Cycle!AddToReverseMap, Cycle!inputs, H
<1>2. \A d \in Cycles : H(d)' = H(d)
  BY <1>1, HashesSame
<1> HIDE DEF t
<1> SUFFICES ASSUME NEW d \in Cycles, NEW p \in CandidatePods, NEW k \in DOMAIN H(d),
                    <<H(d)[k], p>> \in hashToPods', NEW j \in 1 .. k
             PROVE  <<H(d)[j], p>> \in hashToPods'
  BY <1>2 DEF PrefixClosed
<1>3. CASE <<H(d)[k], p>> \in hashToPods
  BY <1>1, <1>3 DEF PrefixClosed
<1>4. CASE <<H(d)[k], p>> \notin hashToPods
  <2>1. PICK l \in DOMAIN H(c) : <<H(d)[k], p>> = <<H(c)[l], t>>
    BY <1>1, <1>4
  <2>2. H(d)[k] = H(c)[l] /\ p = t
    BY <2>1
  <2>3. Chained(H(c)) /\ Chained(H(d))
    BY HashFacts
  <2>4. k = l /\ \A n \in 1 .. k : H(d)[n] = H(c)[n]
    BY <2>2, <2>3, SameHash
  <2>5. j \in DOMAIN H(c) /\ H(d)[j] = H(c)[j]
    BY <2>4, HashFacts
  <2> QED
    BY <1>1, <2>2, <2>5
<1> QED
  BY <1>3, <1>4

LEMMA WalkBegins ==
    ASSUME CyclesTyped, WalksExact, NEW c \in Cycles, Alone(c), Cycle!Begin(c)
    PROVE  WalksExact'
<1>1. /\ match'[c] = [p \in CandidatePods |-> 0] /\ position'[c] = 1 /\ at'[c] = "match"
      /\ before'[c] = [p \in CandidatePods |-> Cycle!LongestPrefix(c, p)]
      /\ UNCHANGED <<hashToPods, dropped, asked>>
  BY DEF Cycle!Begin, Cycle!Goto, Cycle!index, Cycle!inputs, CyclesTyped
<1>2. ~dropped => PrefixClosed'
  BY <1>1, ClosedFrame DEF WalksExact
<1>3. H(c)' = H(c) /\ Len(H(c)) \in Nat
  BY <1>1, HashesSame, HashFacts
<1>4. ASSUME NEW p \in CandidatePods PROVE WalkOf(c, p)'
  <2>1. match'[c][p] = 0 /\ before'[c][p] = Cycle!LongestPrefix(c, p)
    BY <1>1, <1>4
  <2>2. /\ Cycle!LongestPrefix(c, p) \in 0 .. Len(H(c))
        /\ \A j \in 1 .. Cycle!LongestPrefix(c, p) : <<H(c)[j], p>> \in hashToPods
    BY PrefixIsNumber
  <2> QED
    BY <1>1, <1>3, <2>1, <2>2 DEF WalkOf
<1> QED
  BY <1>1, <1>2, <1>3, <1>4, WalksFrame

\* The lookup of one hash.
LEMMA WalkGoesOn ==
    ASSUME CyclesTyped, WalksExact, NEW c \in Cycles, Alone(c), Cycle!MatchHash(c)
    PROVE  WalksExact'
<1> DEFINE servers == Cycle!Get(H(c)[position[c]])
           old(p) == match[c][p]
<1>1. /\ at[c] = "match" /\ at' = at /\ position[c] <= Len(H(c))
      /\ match'[c] = [p \in CandidatePods |-> IF p \in servers THEN old(p) + 1 ELSE old(p)]
      /\ position'[c] = IF servers = {} THEN Len(H(c)) + 1 ELSE position[c] + 1
      /\ UNCHANGED <<before, hashToPods, dropped, asked>>
  BY DEF Cycle!MatchHash, Cycle!index, Cycle!inputs, CyclesTyped, H
<1>2. ~dropped => PrefixClosed'
  BY <1>1, ClosedFrame DEF WalksExact
<1>3. H(c)' = H(c) /\ Len(H(c)) \in Nat /\ DOMAIN H(c) = 1 .. Len(H(c)) /\ position[c] \in Nat \ {0}
  BY <1>1, HashesSame, HashFacts DEF CyclesTyped
<1>4. \A p \in CandidatePods : p \in servers <=> <<H(c)[position[c]], p>> \in hashToPods
  BY DEF Cycle!Get
<1> HIDE DEF servers
<1>5. ASSUME ~dropped, NEW p \in CandidatePods PROVE WalkOf(c, p)'
  <2>1. old(p) \in Nat /\ before[c][p] \in Nat
    BY <1>5 DEF CyclesTyped
  <2>2. WalkOf(c, p) /\ PrefixClosed
    BY <1>1, <1>5 DEF WalksExact
  <2>3. /\ old(p) <= position[c] - 1
        /\ old(p) > 0 => <<H(c)[old(p)], p>> \in hashToPods
        /\ before[c][p] <= old(p) \/ position[c] - 1 <= old(p)
        /\ before[c][p] <= Len(H(c))
        /\ before[c][p] > 0 => <<H(c)[before[c][p]], p>> \in hashToPods
    BY <2>2 DEF WalkOf
  <2>4. match'[c][p] = IF p \in servers THEN old(p) + 1 ELSE old(p)
    BY <1>1, <1>5
  <2>5. \A k \in DOMAIN H(c) : <<H(c)[k], p>> \in hashToPods =>
            \A j \in 1 .. k : <<H(c)[j], p>> \in hashToPods
    BY <1>5, <2>2 DEF PrefixClosed
  <2> HIDE DEF old
  <2>6. CASE p \in servers
    <3>1. <<H(c)[position[c]], p>> \in hashToPods /\ servers # {}
      BY <1>4, <1>5, <2>6
    <3>2. old(p) + 1 \in 1 .. position[c]
      BY <1>3, <2>1, <2>3
    <3>3. <<H(c)[old(p) + 1], p>> \in hashToPods
      <4>1. position[c] \in DOMAIN H(c)
        BY <1>1, <1>3
      <4> QED
        BY <2>5, <3>1, <3>2, <4>1
    <3>4. match'[c][p] = old(p) + 1 /\ position'[c] = position[c] + 1
      BY <1>1, <2>4, <2>6, <3>1
    <3>5. before[c][p] <= old(p) + 1 \/ position[c] <= old(p) + 1
      BY <1>3, <2>1, <2>3
    <3>6. position'[c] - 1 = position[c]
      BY <1>3, <3>4
    <3> QED
      BY <1>1, <1>3, <2>1, <2>3, <3>2, <3>3, <3>4, <3>5, <3>6 DEF WalkOf
  <2>7. CASE p \notin servers
    <3>1. <<H(c)[position[c]], p>> \notin hashToPods
      BY <1>4, <1>5, <2>7
    <3>2. before[c][p] < position[c]
      <4> SUFFICES ASSUME before[c][p] >= position[c] PROVE FALSE
        BY <1>3, <2>1
      <4>1. before[c][p] \in DOMAIN H(c) /\ position[c] \in 1 .. before[c][p]
        BY <1>3, <2>1, <2>3
      <4>2. <<H(c)[before[c][p]], p>> \in hashToPods
        BY <1>3, <2>1, <2>3
      <4> QED
        BY <2>5, <3>1, <4>1, <4>2
    <3>3. before[c][p] <= old(p)
      BY <1>3, <2>1, <2>3, <3>2
    <3>4. match'[c][p] = old(p)
      BY <2>4, <2>7
    <3>5. old(p) <= position'[c] - 1
      BY <1>1, <1>3, <2>1, <2>3
    <3> QED
      BY <1>1, <1>3, <2>3, <3>3, <3>4, <3>5 DEF WalkOf
  <2> QED
    BY <2>6, <2>7
<1>6. position'[c] <= Len(H(c)) + 1
  BY <1>1, <1>3
<1> QED
  BY <1>1, <1>2, <1>5, <1>6, WalksFrame

LEMMA WalksStep ==
    ASSUME CyclesTyped, WalksExact, NEW c \in Cycles, Cycle!Schedule(c)
    PROVE  WalksExact'
<1>0. Alone(c)
  BY AloneStep
<1>1. CASE Cycle!NoPodsAvailable(c)
  <2>1. UNCHANGED <<hashToPods, dropped, asked>> /\ at'[c] = "results"
    BY <1>1 DEF Cycle!NoPodsAvailable, Cycle!Goto, Cycle!index, Cycle!inputs, CyclesTyped
  <2> QED
    BY <1>0, <2>1, WalksFrame, ClosedFrame DEF WalksExact
<1>2. CASE Cycle!Begin(c)
  BY <1>0, <1>2, WalkBegins
<1>3. CASE Cycle!MatchHash(c)
  BY <1>0, <1>3, WalkGoesOn
<1>4. CASE Cycle!PickPods(c)
  <2>1. UNCHANGED <<hashToPods, dropped, asked>> /\ at'[c] = "add"
    BY <1>4 DEF Cycle!PickPods, Cycle!Goto, Cycle!index, Cycle!inputs, CyclesTyped
  <2> QED
    BY <1>0, <2>1, WalksFrame, ClosedFrame DEF WalksExact
<1>5. CASE Cycle!AddLocate(c)
  <2>1. UNCHANGED <<hashToPods, dropped, asked>> /\ at'[c] = "lru"
    BY <1>5 DEF Cycle!AddLocate, Cycle!Goto, Cycle!inputs, CyclesTyped
  <2> QED
    BY <1>0, <2>1, WalksFrame, ClosedFrame DEF WalksExact
<1>6. CASE Cycle!AddToLRU(c)
  <2>1. UNCHANGED <<hashToPods, asked>> /\ at'[c] \in {"lru", "evict"}
    BY <1>6 DEF Cycle!AddToLRU, Cycle!Goto, Cycle!inputs, CyclesTyped
  <2>2. \/ dropped' = dropped /\ at'[c] = "lru"
        \/ dropped'
    BY <1>6 DEF Cycle!AddToLRU, Cycle!Goto, CyclesTyped
  <2>3. CASE dropped' = dropped /\ at'[c] = "lru"
    BY <1>0, <2>1, <2>3, WalksFrame, ClosedFrame DEF WalksExact
  <2>4. CASE dropped'
    BY <2>4 DEF WalksExact
  <2> QED
    BY <2>2, <2>3, <2>4
<1>7. CASE Cycle!EvictionFn(c)
  <2>1. at[c] = "evict" /\ dropped' = dropped
    BY <1>7 DEF Cycle!EvictionFn
  <2>2. dropped'
    BY <2>1 DEF WalksExact
  <2> QED
    BY <2>2 DEF WalksExact
<1>8. CASE Cycle!AddToReverseMap(c)
  <2>1. UNCHANGED <<dropped, asked>> /\ at'[c] = "results" /\ hashToPods \subseteq hashToPods'
    BY <1>8 DEF Cycle!AddToReverseMap, Cycle!Goto, Cycle!inputs, CyclesTyped
  <2>2. ~dropped => PrefixClosed'
    BY <1>8, ClosedUpdate DEF WalksExact
  <2> QED
    BY <1>0, <2>1, <2>2, WalksFrame
<1>9. CASE Cycle!ProcessResults(c)
  <2>1. UNCHANGED <<hashToPods, dropped, asked>> /\ at'[c] \in {"scheduled", "failed"}
    BY <1>9 DEF Cycle!ProcessResults, Cycle!Goto, Cycle!index, Cycle!inputs, CyclesTyped
  <2> QED
    BY <1>0, <2>1, WalksFrame, ClosedFrame DEF WalksExact
<1> QED
  BY <1>1, <1>2, <1>3, <1>4, <1>5, <1>6, <1>7, <1>8, <1>9 DEF Cycle!Schedule

LEMMA WalksInit == Cycle!Init => WalksExact
BY DEF Cycle!Init, WalksExact, PrefixClosed

LEMMA MatchBounds == CyclesTyped /\ WalksExact => MatchWithinWalk
<1> SUFFICES ASSUME CyclesTyped, WalksExact, NEW c \in Cycles, at[c] = "match",
                    position[c] > Len(H(c)), ~dropped, NEW p \in CandidatePods
             PROVE  match[c][p] \in before[c][p] .. Cycle!LongestPrefix(c, p)
  BY DEF MatchWithinWalk, Cycle!MatchWithinWalk, H
<1> DEFINE m == match[c][p]
           b == before[c][p]
<1>1. m \in Nat /\ b \in Nat /\ position[c] \in Nat
  BY DEF CyclesTyped
<1>2. WalkOf(c, p) /\ PrefixClosed /\ position[c] <= Len(H(c)) + 1
  BY DEF WalksExact
<1>3. Len(H(c)) \in Nat /\ DOMAIN H(c) = 1 .. Len(H(c))
  BY HashFacts
<1>4. b <= m /\ m <= Len(H(c))
  BY <1>1, <1>2, <1>3 DEF WalkOf
<1>5. \A j \in 1 .. m : <<H(c)[j], p>> \in hashToPods
  <2>1. CASE m = 0
    BY <2>1
  <2>2. CASE m > 0
    <3>1. <<H(c)[m], p>> \in hashToPods /\ m \in DOMAIN H(c)
      BY <1>1, <1>2, <1>3, <1>4, <2>2 DEF WalkOf
    <3> QED
      BY <1>2, <3>1 DEF PrefixClosed
  <2> QED
    BY <1>1, <2>1, <2>2
<1> HIDE DEF m, b
<1>6. m <= Cycle!LongestPrefix(c, p) /\ Cycle!LongestPrefix(c, p) \in Nat
  BY <1>1, <1>3, <1>4, <1>5, PrefixIsNumber
<1> QED
  BY <1>1, <1>4, <1>6 DEF m, b

-----------------------------------------------------------------------------
(* The scores.                                                               *)

LEMMA DivMonotone == \A a, b \in Nat, n \in Nat \ {0} : a <= b => a \div n <= b \div n
  OBVIOUS

LEMMA DivStrict == \A a, b \in Nat, n \in Nat \ {0} : a + n <= b => (a \div n) + 1 <= b \div n
  OBVIOUS

LEMMA DivBound == \A a, u \in Nat, n \in Nat \ {0} : a <= n * u => a \div n \in 0 .. u
  OBVIOUS

LEMMA MulMonotone == \A a, b, w \in Nat : a <= b => a * w <= b * w /\ a * w \in Nat /\ b * w \in Nat
  OBVIOUS

LEMMA MulStrict == \A a, b \in Nat, w \in Nat \ {0} : a < b => a * w < b * w /\ a * w \in Nat /\ b * w \in Nat
  OBVIOUS

LEMMA UnitType == One \in Nat
BY ScoreAssumption

LEMMA RangeMonotone ==
    \A s, t \in Int : s <= t => /\ Cycle!enforceScoreRange(s) \in 0 .. One /\ Cycle!enforceScoreRange(t) \in 0 .. One
                                /\ Cycle!enforceScoreRange(s) <= Cycle!enforceScoreRange(t)
BY UnitType DEF Cycle!enforceScoreRange

\* The shorter of two queues scores more.
LEMMA QueueScores ==
    ASSUME snapshot \in Snapshots, NEW p \in Cycle!runFilterPlugins, NEW q \in Cycle!runFilterPlugins,
           snapshot[q].queue < snapshot[p].queue
    PROVE  /\ Cycle!QueueScore(snapshot, p) \in 0 .. One /\ Cycle!QueueScore(snapshot, q) \in 0 .. One
           /\ Cycle!QueueScore(snapshot, p) < Cycle!QueueScore(snapshot, q)
<1> DEFINE sizes == {snapshot[r].queue : r \in Cycle!runFilterPlugins}
           a == snapshot[p].queue
           b == snapshot[q].queue
           lo == Cycle!Min(sizes)
           hi == Cycle!Max(sizes)
<1>1. Cycle!runFilterPlugins \subseteq CandidatePods
  BY FilteredFinite
<1>2. a \in Nat /\ b \in Nat /\ b < a
  BY <1>1, ScoreAssumption
<1>3. sizes \subseteq 0 .. a + One /\ a \in sizes /\ b \in sizes
  <2>1. \A r \in Cycle!runFilterPlugins : snapshot[r].queue \in 0 .. a + One
    <3> TAKE r \in Cycle!runFilterPlugins
    <3>1. snapshot[r].queue \in Nat /\ snapshot[r].queue - a <= One
      BY <1>1, ScoreAssumption
    <3> QED
      BY <1>2, <3>1, UnitType
  <2> QED
    BY <2>1
<1>4. \A x, y \in sizes : x - y <= One
  <2>1. \A r, s \in Cycle!runFilterPlugins : snapshot[r].queue - snapshot[s].queue <= One
    BY <1>1, ScoreAssumption
  <2> QED
    BY <2>1
<1>5. /\ Cycle!QueueScore(snapshot, p) = IF hi = lo THEN One ELSE ((hi - a) * One) \div (hi - lo)
      /\ Cycle!QueueScore(snapshot, q) = IF hi = lo THEN One ELSE ((hi - b) * One) \div (hi - lo)
  BY DEF Cycle!QueueScore
<1> HIDE DEF sizes
<1>6. hi \in sizes /\ \A y \in sizes : y <= hi
  <2>1. a + One \in Nat
    BY <1>2, UnitType
  <2> QED
    BY <1>3, <2>1, MaxIsLargest
<1>7. lo \in sizes /\ \A y \in sizes : lo <= y
  <2>1. \E x \in sizes : \A y \in sizes : x <= y
    <3>1. sizes \subseteq Nat /\ sizes # {}
      BY <1>2, <1>3
    <3> QED
      BY <3>1, LeastNumber
  <2> QED
    BY <2>1 DEF Cycle!Min
<1> HIDE DEF a, b, lo, hi
<1>8. hi \in Nat /\ lo \in Nat /\ lo <= b /\ a <= hi /\ hi - lo \in 1 .. One
  <2>1. hi \in Nat /\ lo \in Nat /\ lo <= b /\ a <= hi
    BY <1>2, <1>3, <1>6, <1>7
  <2>2. hi - lo <= One
    BY <1>4, <1>6, <1>7
  <2> QED
    BY <1>2, <2>1, <2>2
<1> DEFINE n == hi - lo
           x == (hi - a) * One
           y == (hi - b) * One
<1>9. n \in Nat \ {0} /\ x \in Nat /\ y \in Nat /\ x + n <= y /\ x <= n * One /\ y <= n * One
  <2>1. n \in Nat \ {0} /\ n <= One /\ hi - a \in Nat /\ hi - b \in Nat /\ (hi - a) + 1 <= hi - b
        /\ hi - a <= n /\ hi - b <= n /\ (hi - a) + 1 \in Nat
    BY <1>2, <1>8, UnitType
  <2>2. ((hi - a) + 1) * One <= y /\ y \in Nat
    BY <2>1, MulMonotone, UnitType
  <2>3. x <= n * One /\ y <= n * One /\ x \in Nat
    BY <2>1, MulMonotone, UnitType
  <2>4. ((hi - a) + 1) * One = x + One
    BY <2>1, UnitType
  <2> HIDE DEF x, y, n
  <2> QED
    BY <2>1, <2>2, <2>3, <2>4, UnitType
<1>10. Cycle!QueueScore(snapshot, p) = x \div n /\ Cycle!QueueScore(snapshot, q) = y \div n
  BY <1>5, <1>8
<1> HIDE DEF n, x, y
<1>11. x \div n \in 0 .. One /\ y \div n \in 0 .. One
  BY <1>9, DivBound, UnitType
<1>12. (x \div n) + 1 <= y \div n
  BY <1>9, DivStrict
<1> QED
  BY <1>10, <1>11, <1>12

\* What DominatedNeverPreferred calls better.
Dominates(c, q, p) ==
    /\ snapshot[q].queue < snapshot[p].queue /\ snapshot[q].kv <= snapshot[p].kv
    /\ snapshot[q].active = snapshot[p].active /\ snapshot[q].waiting = snapshot[p].waiting
    /\ snapshot[q].max = snapshot[p].max /\ match[c][q] >= match[c][p]

\* A pod that is better scores more.
LEMMA DominatesScoresMore ==
    ASSUME CyclesTyped, NEW c \in Cycles, NEW p \in Cycle!runFilterPlugins, NEW q \in Cycle!runFilterPlugins,
           Dominates(c, q, p)
    PROVE  ~(Cycle!WeightedScore(c, p) >= Cycle!WeightedScore(c, q))
<1> DEFINE R(s) == Cycle!enforceScoreRange(s)
           qs(r) == Cycle!QueueScore(snapshot, r)
           ks(r) == Cycle!KVCacheScore(snapshot, r)
           ls(r) == Cycle!LoraScore(snapshot, r, asked[c].model)
           ps(r) == Cycle!PrefixScore(c, r)
<1>1. p \in CandidatePods /\ q \in CandidatePods
  BY FilteredFinite
<1>2. R(qs(p)) \in Nat /\ R(qs(q)) \in Nat /\ R(qs(p)) < R(qs(q))
  <2>1. qs(p) \in 0 .. One /\ qs(q) \in 0 .. One /\ qs(p) < qs(q)
    BY QueueScores DEF CyclesTyped, Dominates
  <2> QED
    BY <2>1, UnitType DEF Cycle!enforceScoreRange
<1>3. R(ks(p)) \in Nat /\ R(ks(q)) \in Nat /\ R(ks(p)) <= R(ks(q))
  <2>1. snapshot[p].kv \in Int /\ snapshot[q].kv \in Int /\ snapshot[q].kv <= snapshot[p].kv
    BY <1>1, ScoreAssumption DEF CyclesTyped, Dominates
  <2>2. ks(p) \in Int /\ ks(q) \in Int /\ ks(p) <= ks(q)
    BY <2>1, UnitType DEF Cycle!KVCacheScore
  <2> HIDE DEF ks
  <2> QED
    BY <2>2, RangeMonotone
<1>4. R(ls(p)) \in Nat /\ R(ls(q)) \in Nat /\ R(ls(p)) <= R(ls(q))
  <2>1. ls(p) = ls(q)
    BY DEF Cycle!LoraScore, Dominates
  <2>2. ls(p) \in Int
    <3>1. One \in Int /\ (4 * One) \div 5 \in Int /\ (3 * One) \div 5 \in Int
      BY UnitType
    <3> QED
      BY <3>1 DEF Cycle!LoraScore
  <2> HIDE DEF ls
  <2>3. ls(p) <= ls(q) /\ ls(q) \in Int
    BY <2>1, <2>2
  <2> QED
    BY <2>2, <2>3, RangeMonotone
<1>5. R(ps(p)) \in Nat /\ R(ps(q)) \in Nat /\ R(ps(p)) <= R(ps(q))
  <2>1. match[c][p] \in Nat /\ match[c][q] \in Nat /\ match[c][p] <= match[c][q]
    BY <1>1 DEF CyclesTyped, Dominates
  <2>2. ps(p) \in Nat /\ ps(q) \in Nat /\ ps(p) <= ps(q)
    <3>1. CASE H(c) = << >>
      BY <3>1 DEF Cycle!PrefixScore, H
    <3>2. CASE H(c) # << >>
      <4> DEFINE n == Len(H(c))
                 x == match[c][p] * One
                 y == match[c][q] * One
      <4>1. n \in Nat \ {0}
        BY <3>2, HashFacts
      <4>2. ps(p) = x \div n /\ ps(q) = y \div n
        BY <3>2 DEF Cycle!PrefixScore, H
      <4>3. x \in Nat /\ y \in Nat /\ x <= y
        BY <2>1, MulMonotone, UnitType
      <4> HIDE DEF n, x, y, ps
      <4>4. x \div n <= y \div n
        BY <4>1, <4>3, DivMonotone
      <4>5. x \div n \in Nat /\ y \div n \in Nat
        BY <4>1, <4>3
      <4> QED
        BY <4>2, <4>4, <4>5
    <3> QED
      BY <3>1, <3>2
  <2> HIDE DEF ps
  <2>3. ps(p) \in Int /\ ps(q) \in Int
    BY <2>2
  <2> QED
    BY <2>2, <2>3, RangeMonotone
<1>6. /\ Cycle!WeightedScore(c, p) = R(qs(p)) * Weight.queue + R(ks(p)) * Weight.kv
                                     + R(ls(p)) * Weight.lora + R(ps(p)) * Weight.prefix
      /\ Cycle!WeightedScore(c, q) = R(qs(q)) * Weight.queue + R(ks(q)) * Weight.kv
                                     + R(ls(q)) * Weight.lora + R(ps(q)) * Weight.prefix
  BY DEF Cycle!WeightedScore
<1>7. Weight.queue \in Nat \ {0} /\ Weight.kv \in Nat /\ Weight.lora \in Nat /\ Weight.prefix \in Nat
  BY ScoreAssumption
<1> HIDE DEF R, qs, ks, ls, ps
<1>8. /\ R(qs(p)) * Weight.queue \in Nat /\ R(qs(q)) * Weight.queue \in Nat
      /\ R(qs(p)) * Weight.queue < R(qs(q)) * Weight.queue
  BY <1>2, <1>7, MulStrict
<1>9. /\ R(ks(p)) * Weight.kv \in Nat /\ R(ks(q)) * Weight.kv \in Nat
      /\ R(ks(p)) * Weight.kv <= R(ks(q)) * Weight.kv
  BY <1>3, <1>7, MulMonotone
<1>10. /\ R(ls(p)) * Weight.lora \in Nat /\ R(ls(q)) * Weight.lora \in Nat
       /\ R(ls(p)) * Weight.lora <= R(ls(q)) * Weight.lora
  BY <1>4, <1>7, MulMonotone
<1>11. /\ R(ps(p)) * Weight.prefix \in Nat /\ R(ps(q)) * Weight.prefix \in Nat
       /\ R(ps(p)) * Weight.prefix <= R(ps(q)) * Weight.prefix
  BY <1>5, <1>7, MulMonotone
<1>12. \A x, y, z, w, u, v, s, t \in Nat : x < y /\ z <= w /\ u <= v /\ s <= t =>
         ~(x + z + u + s >= y + w + v + t)
  OBVIOUS
<1> QED
  BY <1>6, <1>8, <1>9, <1>10, <1>11, <1>12

\* What a cycle has picked is not dominated by what it has not.
BestPicked(c) ==
    \A p \in Cycle!ToSet(picked[c]), q \in Cycle!runFilterPlugins \ Cycle!ToSet(picked[c]) : ~Dominates(c, q, p)

LEMMA PickBest ==
    ASSUME CyclesTyped, NEW c \in Cycles, Cycle!PickPods(c), profile.picker = "max-score", Alone(c)
    PROVE  BestPicked(c)'
<1>1. PICK order \in Cycle!MaxScorePick(c) : picked' = [picked EXCEPT ![c] = Cycle!FirstFew(order)]
  BY DEF Cycle!PickPods
<1> DEFINE few == Cycle!FirstFew(order)
           left == Cycle!runFilterPlugins
<1>2. picked'[c] = few /\ match' = match /\ snapshot' = snapshot /\ left # {}
  BY <1>1 DEF CyclesTyped, Ready, Cycle!PickPods, Cycle!inputs
<1>3. Cycle!runFilterPlugins' = left
  BY DEF Alone, Cycle!runFilterPlugins
<1>4. /\ order \in Cycle!SetToSeqs(left)
      /\ \A j, k \in DOMAIN order : j < k =>
           Cycle!WeightedScore(c, order[j]) >= Cycle!WeightedScore(c, order[k])
  BY <1>1 DEF Cycle!MaxScorePick
<1>5. /\ order \in Seq(left) /\ Len(order) \in Nat \ {0} /\ DOMAIN order = 1 .. Len(order)
      /\ \A q \in left : \E k \in DOMAIN order : order[k] = q
  BY <1>2, <1>4, FilteredFinite, OrderFacts
<1>6. /\ few \in Seq(left) /\ Len(few) <= Len(order)
      /\ \A k \in 1 .. Len(few) : few[k] = order[k]
  BY <1>5, FirstFewFacts
<1> HIDE DEF few, left
<1>7. SUFFICES ASSUME NEW p \in Cycle!ToSet(few), NEW q \in left \ Cycle!ToSet(few), Dominates(c, q, p)'
               PROVE  FALSE
  BY <1>2, <1>3 DEF BestPicked
<1>8. Dominates(c, q, p)
  BY <1>2, <1>7 DEF Dominates
<1>9. PICK j \in 1 .. Len(few) : p = few[j]
  BY <1>6, <1>7 DEF Cycle!ToSet
<1>10. PICK k \in DOMAIN order : order[k] = q
  BY <1>5, <1>7
<1>11. ~(k <= Len(few))
  <2> SUFFICES ASSUME k <= Len(few) PROVE FALSE
    OBVIOUS
  <2>1. k \in 1 .. Len(few) /\ DOMAIN few = 1 .. Len(few)
    BY <1>5, <1>6, <1>10
  <2>2. few[k] = q
    BY <1>6, <1>10, <2>1
  <2> QED
    BY <1>7, <2>1, <2>2 DEF Cycle!ToSet
<1>12. j \in DOMAIN order /\ j < k /\ order[j] = p
  BY <1>5, <1>6, <1>9, <1>10, <1>11
<1>13. Cycle!WeightedScore(c, p) >= Cycle!WeightedScore(c, q)
  BY <1>4, <1>10, <1>12
<1>14. p \in left /\ q \in left
  BY <1>5, <1>7, <1>12
<1> QED
  BY <1>8, <1>13, <1>14, DominatesScoresMore DEF left

LEMMA BestIsBest ==
    DominatedNeverPreferred <=>
      (\A c \in Cycles : picked[c] # << >> /\ profile.picker = "max-score" => BestPicked(c))
BY DEF DominatedNeverPreferred, Cycle!DominatedNeverPreferred, BestPicked, Dominates

LEMMA BestFrame ==
    ASSUME NEW d, BestPicked(d), picked'[d] = picked[d], match'[d] = match[d],
           snapshot' = snapshot, profile' = profile
    PROVE  BestPicked(d)'
<1>1. Cycle!runFilterPlugins' = Cycle!runFilterPlugins
  BY DEF Cycle!runFilterPlugins
<1>2. Cycle!ToSet(picked[d])' = Cycle!ToSet(picked[d])
  BY DEF Cycle!ToSet
<1>3. \A q, p : Dominates(d, q, p)' <=> Dominates(d, q, p)
  BY DEF Dominates
<1> QED
  BY <1>1, <1>2, <1>3 DEF BestPicked

LEMMA BestStep ==
    ASSUME CyclesTyped, DominatedNeverPreferred, NEW c \in Cycles, Cycle!Schedule(c)
    PROVE  DominatedNeverPreferred'
<1>0. Alone(c)
  BY AloneStep
<1>1. \/ picked'[c] = << >>
      \/ picked'[c] = picked[c] /\ match'[c] = match[c]
      \/ Cycle!PickPods(c)
  <2>1. CASE Cycle!NoPodsAvailable(c)
    BY <2>1 DEF Cycle!NoPodsAvailable
  <2>2. CASE Cycle!Begin(c) \/ Cycle!MatchHash(c)
    BY <2>2 DEF Cycle!Begin, Cycle!MatchHash, CyclesTyped, Ready
  <2>3. CASE Cycle!AddLocate(c) \/ Cycle!AddToLRU(c)
    BY <2>3 DEF Cycle!AddLocate, Cycle!AddToLRU
  <2>4. CASE Cycle!EvictionFn(c) \/ Cycle!AddToReverseMap(c)
    BY <2>4 DEF Cycle!EvictionFn, Cycle!AddToReverseMap
  <2>5. CASE Cycle!ProcessResults(c)
    BY <2>5 DEF Cycle!ProcessResults, CyclesTyped
  <2> QED
    BY <2>1, <2>2, <2>3, <2>4, <2>5 DEF Cycle!Schedule
<1>2. SUFFICES ASSUME NEW d \in Cycles, picked'[d] # << >>, profile.picker = "max-score"
               PROVE  BestPicked(d)'
  <2>1. profile' = profile
    BY <1>0 DEF Alone
  <2>2. DominatedNeverPreferred' <=>
          (\A d \in Cycles : picked'[d] # << >> /\ profile'.picker = "max-score" => BestPicked(d)')
    BY DEF DominatedNeverPreferred, Cycle!DominatedNeverPreferred, BestPicked, Dominates
  <2> QED
    BY <2>1, <2>2
<1>3. CASE d # c
  <2>1. picked'[d] = picked[d] /\ match'[d] = match[d] /\ snapshot' = snapshot /\ profile' = profile
    BY <1>0, <1>3 DEF Alone
  <2>2. BestPicked(d)
    BY <1>2, <2>1, BestIsBest
  <2> QED
    BY <2>1, <2>2, BestFrame
<1>4. CASE d = c /\ ~Cycle!PickPods(c)
  <2>1. picked'[d] = picked[d] /\ match'[d] = match[d] /\ snapshot' = snapshot /\ profile' = profile
    BY <1>0, <1>1, <1>2, <1>4 DEF Alone
  <2>2. BestPicked(d)
    BY <1>2, <2>1, BestIsBest
  <2> QED
    BY <2>1, <2>2, BestFrame
<1>5. CASE d = c /\ Cycle!PickPods(c)
  BY <1>0, <1>2, <1>5, PickBest
<1> QED
  BY <1>3, <1>4, <1>5

-----------------------------------------------------------------------------
(* The cycles.                                                               *)

LEMMA CyclesInvariant == Cycle!Spec => []CyclesInv
<1>1. Cycle!Init => CyclesInv
  <2>1. Cycle!Init => DominatedNeverPreferred
    BY DEF Cycle!Init, DominatedNeverPreferred, Cycle!DominatedNeverPreferred
  <2> QED
    BY <2>1, InitTyped, IndexInit, WalksInit DEF CyclesInv
<1>2. CyclesInv /\ [Cycle!Next]_Cycle!vars => CyclesInv'
  <2> SUFFICES ASSUME CyclesInv, [Cycle!Next]_Cycle!vars PROVE CyclesInv'
    OBVIOUS
  <2>1. ASSUME NEW c \in Cycles, Cycle!Schedule(c) PROVE CyclesInv'
    BY <2>1, TypedStep, IndexStep, WalksStep, BestStep DEF CyclesInv
  <2>2. CASE UNCHANGED Cycle!vars
    <3>1. UNCHANGED <<asked, snapshot, profile, at, position, match, picked, evicted, podToLRU,
                      hashToPods, before, dropped, tangled>>
      BY <2>2 DEF Cycle!vars, Cycle!inputs, Cycle!index
    <3>2. \A c : H(c)' = H(c)
      BY <3>1, HashesSame
    <3>3. Cycle!runFilterPlugins' = Cycle!runFilterPlugins
      BY <3>1 DEF Cycle!runFilterPlugins
    <3>4. \A c \in Cycles : Ready(c)'
      <4>1. \A c \in Cycles : Ready(c) /\ Cycle!Target(c)' = Cycle!Target(c)
        BY <3>1 DEF CyclesInv, CyclesTyped, Cycle!Target
      <4> QED
        BY <3>1, <3>3, <4>1 DEF Ready
    <3>5. CyclesTyped'
      BY <3>1, <3>4 DEF CyclesInv, CyclesTyped
    <3>6. IndexExact'
      <4> SUFFICES ASSUME ~tangled, NEW p \in CandidatePods PROVE PodExact(p)'
        BY <3>1 DEF IndexExact
      <4>1. Cycle!Adding(p)' = Cycle!Adding(p) /\ Cached(p)' = Cached(p)
        BY <3>1 DEF Cycle!Adding, Cycle!Target, Cached
      <4>2. PodExact(p)
        BY DEF CyclesInv, IndexExact
      <4>3. \A d \in Cycle!Adding(p) : at'[d] = at[d] /\ position'[d] = position[d] /\ evicted'[d] = evicted[d]
        BY <3>1
      <4> QED
        BY <3>1, <4>1, <4>2, <4>3, PodFrame
    <3>7. WalksExact'
      BY <3>1, <3>2 DEF CyclesInv, WalksExact, PrefixClosed, WalkOf
    <3>8. DominatedNeverPreferred'
      BY <3>1, <3>3 DEF CyclesInv, DominatedNeverPreferred, Cycle!DominatedNeverPreferred, Cycle!ToSet
    <3> QED
      BY <3>5, <3>6, <3>7, <3>8 DEF CyclesInv
  <2> QED
    BY <2>1, <2>2 DEF Cycle!Next
<1> QED
  BY <1>1, <1>2, PTL DEF Cycle!Spec

\* However the cycles interleave, between two calls of indexer.Add the reverse
\* map has exactly what the pods' LRUs hold, evictions included, as long as no
\* two Adds to one pod have overlapped and none brought more hashes than an LRU
\* holds (indexer.go, Add and makeEvictionFn).
THEOREM MapMirrorsLRUs == Cycle!Spec => []ReverseMapExact
<1>1. CyclesInv => ReverseMapExact
  BY ExactMap DEF CyclesInv
<1> QED
  BY <1>1, CyclesInvariant, PTL

\* Although matchLongestPrefix looks the hashes up one by one while other cycles
\* add theirs, what it counts for a pod lies between the prefix the pod had cached
\* when the walk began and the one it has at the end, as long as no LRU has
\* dropped a hash (plugin.go, matchLongestPrefix).
THEOREM MatchedWasCached == Cycle!Spec => []MatchWithinWalk
<1>1. CyclesInv => MatchWithinWalk
  BY MatchBounds DEF CyclesInv
<1> QED
  BY <1>1, CyclesInvariant, PTL

\* The max-score picker leaves out no pod that is at least as good as a picked one
\* by every scorer and has the shorter queue: the weighted sum, the clamping and
\* the divisions of the scorers keep that order (scheduler_profile.go,
\* runScorerPlugins; max_score_picker.go, Pick).
THEOREM BetterPodsFirst == Cycle!Spec => []DominatedNeverPreferred
<1>1. CyclesInv => DominatedNeverPreferred
  BY DEF CyclesInv
<1> QED
  BY <1>1, CyclesInvariant, PTL

-----------------------------------------------------------------------------
(* The memory of an endpoint.                                                *)

Objects == [Fields -> Int]
Address == DOMAIN heap

MemoryTyped ==
    /\ heap \in Seq(Objects)
    /\ cell \in [Pointers -> Int]
    /\ \A c \in Pointers : cell[c] # Nil => cell[c] \in Address
    /\ extractor \in [at : {"idle", "write"}, clone : Int, todo : SUBSET Fields, updated : BOOLEAN]
    /\ extractor.at = "write" => extractor.clone \in Address
    /\ reader \in [Readers -> [plan : Seq(Pointers), source : Int, saw : Objects,
                               copied : SUBSET Fields, copy : Objects]]
    /\ \A r \in Readers : reader[r].plan # << >> => reader[r].source \in Address

\* The clone is private until it is stored.
WriterAlone ==
    extractor.at = "write" =>
       /\ \A c \in Pointers : cell[c] # extractor.clone
       /\ \A r \in Readers : reader[r].plan # << >> => reader[r].source # extractor.clone

\* What a reader saw is still there, and an idle reader has no copy.
ReadersUndisturbed ==
    \A r \in Readers : /\ reader[r].plan # << >> => reader[r].saw = heap[reader[r].source]
                       /\ reader[r].plan = << >> => reader[r].copied = {}

MemoryInv == MemoryTyped /\ WriterAlone /\ ReadersUndisturbed /\ SnapshotsWhole

LEMMA InitMemory == EndpointInit => MemoryInv
<1>1. ASSUME EndpointInit PROVE MemoryTyped
  <2>1. << >> \in Seq(Objects) /\ << >> \in Seq(Pointers)
    OBVIOUS
  <2>2. Object(Nil) \in Objects
    BY DEF Object, Objects, Nil
  <2> QED
    BY <1>1, <2>1, <2>2 DEF EndpointInit, MemoryTyped, NotReading, Nil, Address
<1>2. EndpointInit => WriterAlone /\ ReadersUndisturbed /\ SnapshotsWhole
  BY DEF EndpointInit, WriterAlone, ReadersUndisturbed, SnapshotsWhole, NotReading
<1> QED
  BY <1>1, <1>2 DEF MemoryInv

\* Allocation leaves the objects there are alone and gives a new address.
LEMMA Allocation ==
    ASSUME MemoryTyped, NEW v \in Objects, Allocate(v)
    PROVE  /\ heap' \in Seq(Objects)
           /\ Stamp \in DOMAIN heap' /\ Stamp \notin Address /\ Stamp \in Int /\ Stamp # Nil
           /\ Address \subseteq DOMAIN heap'
           /\ \A a \in Address : heap'[a] = heap[a]
           /\ heap'[Stamp] = v
BY DEF MemoryTyped, Allocate, Stamp, Address, Nil

\* A writer that stores an object of its own.
LEMMA FreshStore ==
    ASSUME MemoryInv, NEW c \in Pointers, Allocate(Object(Stamp)), Store(c, Stamp),
           UNCHANGED <<extractor, reader, panicked>>
    PROVE  MemoryInv'
<1>1. Object(Stamp) \in Objects
  BY DEF MemoryInv, MemoryTyped, Object, Objects, Stamp
<1>2. /\ heap' \in Seq(Objects)
      /\ Stamp \in DOMAIN heap' /\ Stamp \notin Address /\ Stamp \in Int /\ Stamp # Nil
      /\ Address \subseteq DOMAIN heap'
      /\ \A a \in Address : heap'[a] = heap[a]
  BY <1>1, Allocation DEF MemoryInv
<1>3. MemoryTyped'
  BY <1>2 DEF MemoryInv, MemoryTyped, Store, Address
<1>4. WriterAlone'
  BY <1>2 DEF MemoryInv, MemoryTyped, WriterAlone, Store
<1>5. ReadersUndisturbed' /\ SnapshotsWhole'
  BY <1>2 DEF MemoryInv, MemoryTyped, ReadersUndisturbed, SnapshotsWhole
<1> QED
  BY <1>3, <1>4, <1>5 DEF MemoryInv

LEMMA ExtractBeginStep == MemoryInv /\ ExtractBegin => MemoryInv'
<1> SUFFICES ASSUME MemoryInv, ExtractBegin PROVE MemoryInv'
  OBVIOUS
<1>1. CASE cell["metrics"] = Nil
  BY <1>1 DEF ExtractBegin, MemoryInv, MemoryTyped, WriterAlone, ReadersUndisturbed, SnapshotsWhole, Address
<1>2. CASE cell["metrics"] # Nil
  <2>1. PICK found \in SUBSET Fields :
          /\ Allocate(heap[cell["metrics"]])
          /\ extractor' = [at |-> "write", clone |-> Stamp, todo |-> found, updated |-> found # {}]
    BY <1>2 DEF ExtractBegin
  <2>2. heap[cell["metrics"]] \in Objects
    BY <1>2 DEF MemoryInv, MemoryTyped, Pointers, Address
  <2>3. /\ heap' \in Seq(Objects)
        /\ Stamp \in DOMAIN heap' /\ Stamp \notin Address /\ Stamp \in Int /\ Stamp # Nil
        /\ Address \subseteq DOMAIN heap'
        /\ \A a \in Address : heap'[a] = heap[a]
    BY <2>1, <2>2, Allocation DEF MemoryInv
  <2>4. UNCHANGED <<cell, reader>>
    BY DEF ExtractBegin
  <2>5. MemoryTyped'
    BY <2>1, <2>3, <2>4 DEF MemoryInv, MemoryTyped, Address
  <2>6. WriterAlone'
    BY <2>1, <2>3, <2>4 DEF MemoryInv, MemoryTyped, WriterAlone
  <2>7. ReadersUndisturbed' /\ SnapshotsWhole'
    <3>1. ReadersUndisturbed'
      BY <2>3, <2>4 DEF MemoryInv, MemoryTyped, ReadersUndisturbed
    <3>2. SnapshotsWhole'
      BY <2>4 DEF MemoryInv, SnapshotsWhole
    <3> QED
      BY <3>1, <3>2
  <2> QED
    BY <2>5, <2>6, <2>7 DEF MemoryInv
<1> QED
  BY <1>1, <1>2

LEMMA ExtractFieldStep == ASSUME MemoryInv, NEW f \in Fields, ExtractField(f) PROVE MemoryInv'
<1>1. /\ extractor.at = "write" /\ extractor.clone \in Address
      /\ heap' = [heap EXCEPT ![extractor.clone][f] = @ + 1]
      /\ extractor' = [extractor EXCEPT !.todo = @ \ {f}]
      /\ UNCHANGED <<cell, reader>>
  BY DEF ExtractField, MemoryInv, MemoryTyped
<1>2. heap[extractor.clone] \in Objects
  BY <1>1 DEF MemoryInv, MemoryTyped, Address
<1>3. [heap[extractor.clone] EXCEPT ![f] = @ + 1] \in Objects
  BY <1>2 DEF Objects
<1>4. /\ heap' \in Seq(Objects) /\ DOMAIN heap' = DOMAIN heap
      /\ \A a \in Address : a # extractor.clone => heap'[a] = heap[a]
  BY <1>1, <1>3 DEF MemoryInv, MemoryTyped, Address
<1>5. MemoryTyped'
  BY <1>1, <1>4 DEF MemoryInv, MemoryTyped, Address
<1>6. WriterAlone'
  BY <1>1 DEF MemoryInv, MemoryTyped, WriterAlone
<1>7. ReadersUndisturbed' /\ SnapshotsWhole'
  BY <1>1, <1>4 DEF MemoryInv, MemoryTyped, WriterAlone, ReadersUndisturbed, SnapshotsWhole
<1> QED
  BY <1>5, <1>6, <1>7 DEF MemoryInv

LEMMA ExtractEndStep == MemoryInv /\ ExtractEnd => MemoryInv'
<1> SUFFICES ASSUME MemoryInv, ExtractEnd PROVE MemoryInv'
  OBVIOUS
<1>1. /\ extractor.at = "write" /\ extractor.clone \in Address
      /\ extractor' = [at |-> "idle", clone |-> Nil, todo |-> {}, updated |-> FALSE]
      /\ cell' = [cell EXCEPT !["metrics"] = extractor.clone] \/ cell' = cell
      /\ UNCHANGED <<heap, reader>>
  BY DEF ExtractEnd, Store, MemoryInv, MemoryTyped
<1>2. MemoryTyped'
  BY <1>1 DEF MemoryInv, MemoryTyped, Address, Nil, Pointers
<1>3. WriterAlone'
  BY <1>1 DEF WriterAlone
<1>4. ReadersUndisturbed' /\ SnapshotsWhole'
  BY <1>1 DEF MemoryInv, ReadersUndisturbed, SnapshotsWhole
<1> QED
  BY <1>2, <1>3, <1>4 DEF MemoryInv

\* A reader starts on the first cell of a plan.
LEMMA StartedStep ==
    ASSUME MemoryInv, NEW r \in Readers, NEW p \in Seq(Pointers), p # << >>, Head(p) \in Pointers,
           cell[Head(p)] # Nil, reader' = [reader EXCEPT ![r] = Reading(p)],
           UNCHANGED <<heap, cell, extractor>>
    PROVE  MemoryInv'
<1> DEFINE a == cell[Head(p)]
<1>1. a \in Address /\ a \in Int /\ heap[a] \in Objects
  BY DEF MemoryInv, MemoryTyped, Address
<1>2. Object(Nil) \in Objects
  BY DEF Object, Objects, Nil
<1>3. /\ reader'[r] = [plan |-> p, source |-> a, saw |-> heap[a], copied |-> {}, copy |-> Object(Nil)]
      /\ \A q \in Readers : q # r => reader'[q] = reader[q]
  BY DEF Reading, MemoryInv, MemoryTyped
<1>4. MemoryTyped'
  <2>1. Reading(p) \in [plan : Seq(Pointers), source : Int, saw : Objects, copied : SUBSET Fields,
                        copy : Objects]
    BY <1>1, <1>2 DEF Reading
  <2>2. reader' \in [Readers -> [plan : Seq(Pointers), source : Int, saw : Objects,
                                 copied : SUBSET Fields, copy : Objects]]
    BY <2>1 DEF MemoryInv, MemoryTyped
  <2>3. \A q \in Readers : reader'[q].plan # << >> => reader'[q].source \in Address
    <3> SUFFICES ASSUME NEW q \in Readers, reader'[q].plan # << >>
                 PROVE  reader'[q].source \in Address
      OBVIOUS
    <3>1. CASE q = r
      BY <3>1, <1>1, <1>3
    <3>2. CASE q # r
      BY <3>2, <1>3 DEF MemoryInv, MemoryTyped
    <3> QED
      BY <3>1, <3>2
  <2> QED
    BY <2>2, <2>3 DEF MemoryInv, MemoryTyped, Address
<1>5. WriterAlone'
  BY <1>3 DEF MemoryInv, WriterAlone
<1>6. ReadersUndisturbed' /\ SnapshotsWhole'
  BY <1>3 DEF MemoryInv, ReadersUndisturbed, SnapshotsWhole
<1> QED
  BY <1>4, <1>5, <1>6 DEF MemoryInv

LEMMA PlansTyped == \A p \in Plans : p \in Seq(Pointers) /\ p # << >> /\ Head(p) \in Pointers
<1>1. <<"pod", "metrics">> \in Seq(Pointers) /\ <<"attribute">> \in Seq(Pointers)
  BY DEF Pointers
<1>2. /\ <<"pod", "metrics">> # << >> /\ Head(<<"pod", "metrics">>) = "pod"
      /\ <<"attribute">> # << >> /\ Head(<<"attribute">>) = "attribute"
  OBVIOUS
<1> QED
  BY <1>1, <1>2 DEF Plans, toSchedulerPodMetrics, AttributesGet, ModelServerClone, Pointers

LEMMA CloneFieldStep ==
    ASSUME MemoryInv, NEW r \in Readers, NEW f \in Fields, CloneField(r, f) PROVE MemoryInv'
<1>1. /\ reader[r].plan # << >> /\ reader[r].source \in Address
      /\ reader[r].saw = heap[reader[r].source]
      /\ UNCHANGED <<heap, cell, extractor>>
  BY DEF CloneField, MemoryInv, MemoryTyped, ReadersUndisturbed
<1>2. heap[reader[r].source][f] \in Int /\ reader[r].saw[f] = heap[reader[r].source][f]
  BY <1>1 DEF MemoryInv, MemoryTyped, Objects, Address
<1>3. /\ reader'[r].plan = reader[r].plan /\ reader'[r].source = reader[r].source
      /\ reader'[r].saw = reader[r].saw
      /\ reader'[r].copied = reader[r].copied \union {f}
      /\ reader'[r].copy = [reader[r].copy EXCEPT ![f] = heap[reader[r].source][f]]
      /\ \A q \in Readers : q # r => reader'[q] = reader[q]
  BY DEF CloneField, MemoryInv, MemoryTyped
<1>4. MemoryTyped'
  <2>1. [reader[r].copy EXCEPT ![f] = heap[reader[r].source][f]] \in Objects
    BY <1>2 DEF MemoryInv, MemoryTyped, Objects
  <2>2. reader' \in [Readers -> [plan : Seq(Pointers), source : Int, saw : Objects,
                                 copied : SUBSET Fields, copy : Objects]]
    <3> DEFINE R == [plan : Seq(Pointers), source : Int, saw : Objects,
                     copied : SUBSET Fields, copy : Objects]
    <3>1. reader[r] \in R
      BY DEF MemoryInv, MemoryTyped
    <3>2. [reader[r] EXCEPT !.copied = @ \union {f},
                            !.copy = [reader[r].copy EXCEPT ![f] = heap[reader[r].source][f]]] \in R
      BY <2>1, <3>1
    <3>3. reader' = [reader EXCEPT ![r] =
            [reader[r] EXCEPT !.copied = @ \union {f},
                              !.copy = [reader[r].copy EXCEPT ![f] = heap[reader[r].source][f]]]]
      BY DEF CloneField, MemoryInv, MemoryTyped
    <3> QED
      BY <3>2, <3>3 DEF MemoryInv, MemoryTyped
  <2> QED
    BY <1>1, <1>3, <2>2 DEF MemoryInv, MemoryTyped, Address
<1>5. WriterAlone' /\ ReadersUndisturbed'
  BY <1>1, <1>3 DEF MemoryInv, WriterAlone, ReadersUndisturbed
<1>6. SnapshotsWhole'
  <2> SUFFICES ASSUME NEW q \in Readers, NEW g \in reader'[q].copied
               PROVE  reader'[q].copy[g] = reader'[q].saw[g]
    BY DEF SnapshotsWhole
  <2>1. CASE q # r
    BY <2>1, <1>3 DEF MemoryInv, SnapshotsWhole
  <2>2. CASE q = r
    BY <2>2, <1>2, <1>3 DEF MemoryInv, MemoryTyped, Objects, SnapshotsWhole
  <2> QED
    BY <2>1, <2>2
<1> QED
  BY <1>4, <1>5, <1>6 DEF MemoryInv

LEMMA NextOfPlanStep == ASSUME MemoryInv, NEW r \in Readers, NextOfPlan(r) PROVE MemoryInv'
<1> DEFINE p == Tail(reader[r].plan)
<1>1. UNCHANGED <<heap, cell, extractor>> /\ reader[r].plan # << >> /\ reader[r].plan \in Seq(Pointers)
  BY DEF NextOfPlan, MemoryInv, MemoryTyped, ReadersUndisturbed, Fields
<1>2. p \in Seq(Pointers)
  BY <1>1
<1>3. CASE p = << >> \/ cell[Head(p)] = Nil
  <2>1. reader' = [reader EXCEPT ![r] = NotReading]
    BY <1>3 DEF NextOfPlan
  <2>2. NotReading \in [plan : Seq(Pointers), source : Int, saw : Objects, copied : SUBSET Fields, copy : Objects]
    BY DEF NotReading, Object, Objects, Nil
  <2>3. MemoryTyped'
    BY <2>1, <2>2, <1>1 DEF MemoryInv, MemoryTyped, Address, NotReading
  <2>4. WriterAlone' /\ ReadersUndisturbed' /\ SnapshotsWhole'
    BY <2>1, <1>1 DEF MemoryInv, MemoryTyped, WriterAlone, ReadersUndisturbed, SnapshotsWhole, NotReading
  <2> QED
    BY <2>3, <2>4 DEF MemoryInv
<1>4. CASE p # << >> /\ cell[Head(p)] # Nil
  <2>1. Head(p) \in Pointers
    BY <1>2, <1>4
  <2>2. reader' = [reader EXCEPT ![r] = Reading(p)]
    BY <1>4 DEF NextOfPlan
  <2> QED
    BY <1>1, <1>2, <1>4, <2>1, <2>2, StartedStep
<1> QED
  BY <1>3, <1>4

LEMMA NextMemory == MemoryInv /\ [EndpointNext]_endpointVars => MemoryInv'
<1> SUFFICES ASSUME MemoryInv, [EndpointNext]_endpointVars PROVE MemoryInv'
  OBVIOUS
<1>1. CASE UpdatePod
  BY <1>1, FreshStore DEF UpdatePod, Pointers
<1>2. CASE UpdateMetrics
  BY <1>2, FreshStore DEF UpdateMetrics, Pointers
<1>3. CASE Put
  BY <1>3, FreshStore DEF Put, Pointers
<1>4. CASE ExtractBegin
  BY <1>4, ExtractBeginStep
<1>5. CASE ExtractEnd
  BY <1>5, ExtractEndStep
<1>6. ASSUME NEW f \in Fields, ExtractField(f) PROVE MemoryInv'
  BY <1>6, ExtractFieldStep
<1>7. ASSUME NEW r \in Readers, NEW plan \in Plans, Load(r, plan) PROVE MemoryInv'
  <2>1. /\ reader' = [reader EXCEPT ![r] = Reading(plan)]
        /\ cell[Head(plan)] # Nil /\ UNCHANGED <<heap, cell, extractor>>
    BY <1>7 DEF Load
  <2> QED
    BY <2>1, PlansTyped, StartedStep
<1>8. ASSUME NEW r \in Readers, NEW f \in Fields, CloneField(r, f) PROVE MemoryInv'
  BY <1>8, CloneFieldStep
<1>9. ASSUME NEW r \in Readers, NextOfPlan(r) PROVE MemoryInv'
  BY <1>9, NextOfPlanStep
<1>10. CASE UNCHANGED endpointVars
  BY <1>10 DEF endpointVars, MemoryInv, MemoryTyped, WriterAlone, ReadersUndisturbed, SnapshotsWhole, Address
<1> QED
  BY <1>1, <1>2, <1>3, <1>4, <1>5, <1>6, <1>7, <1>8, <1>9, <1>10 DEF EndpointNext

\* Whatever the number of readers and objects: a reader of an endpoint copies
\* what its pointer led to, and never half of one extraction and half of the
\* next (datalayer Extract and Metrics.Clone, director toSchedulerPodMetrics).
THEOREM WholeSnapshots == EndpointSpec => []SnapshotsWhole
<1>1. MemoryInv => SnapshotsWhole
  BY DEF MemoryInv
<1> QED
  BY InitMemory, NextMemory, <1>1, PTL DEF EndpointSpec
=============================================================================
