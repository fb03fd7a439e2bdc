--------------------------- MODULE NodeQueueProofs --------------------------
(***************************************************************************)
(* The safety of the bundle queue, for every number of slots, buffer and   *)
(* set of bundles, and that it implements the byte-budgeted bag.           *)
(*                                                                         *)
(* First, what the operations of the queue return.  Whatever set S the     *)
(* queued bundles come from, an operation leaves bundles of S in no more   *)
(* slots than there are.  A property that holds of each queued bundle by   *)
(* itself is therefore kept by proving it of the bundle put in.  The load  *)
(* and the number of copies of a bundle follow each append and each        *)
(* swap-remove exactly.  ForwardingProofs uses these lemmas too.           *)
(*                                                                         *)
(* Load is a recursive function, so what is said of it is said by          *)
(* induction on the number of slots.  The library's induction theorems     *)
(* take a predicate as a parameter; the form used here takes a set, and    *)
(* follows from the well-foundedness of < on the natural numbers.          *)
(*                                                                         *)
(* The refinement rests on two facts about the abstraction ToBag: the      *)
(* swap-removes and appends of the slots are the removals and additions of *)
(* the bag, and the bag's bytes are the queue's load, so that the test the *)
(* code makes on its slots is the test the abstract store makes.           *)
(***************************************************************************)
EXTENDS NodeQueue, FiniteSetTheorems, TLAPS

-----------------------------------------------------------------------------
(* Induction on a number of slots *)

\* A set of natural numbers that is not empty has a least element.
LEMMA LeastNumber ==
  ASSUME NEW S \in SUBSET Nat, S # {}
  PROVE  \E m \in S : \A k \in S : m <= k
<1>1. PICK m \in S : \A k \in S : <<k, m>> \notin OpToRel(<, Nat)
  BY WFMin, NatLessThanWellFounded, Zenon
<1>2. \A k \in S : ~(k < m)
  BY <1>1, Zenon DEF OpToRel
<1> QED
  BY <1>2

\* What holds of 0 and passes on to the next number holds of every number.
LEMMA SetInduction ==
  ASSUME NEW S \in SUBSET Nat, 0 \in S, \A n \in Nat : n \in S => n + 1 \in S
  PROVE  \A n \in Nat : n \in S
<1> SUFFICES ASSUME Nat \ S # {}
             PROVE  FALSE
  OBVIOUS
<1>1. PICK m \in Nat \ S : \A k \in Nat \ S : m <= k
  BY LeastNumber
<1>2. m # 0 /\ m - 1 \in Nat /\ m - 1 \in S
  BY <1>1
<1>3. (m - 1) + 1 = m
  BY <1>2
<1> QED
  BY <1>1, <1>2, <1>3

-----------------------------------------------------------------------------
(* The load *)

\* f is the table of the sums over the first slots of s, up to the n-th.
IsLoad(f, s, n) == f = [k \in 0 .. n |-> IF k = 0 THEN 0 ELSE f[k - 1] + s[k].size]

\* What such a table holds, entry by entry.
LEMMA LoadEntries ==
  ASSUME NEW s, NEW f, NEW n \in Nat, IsLoad(f, s, n)
  PROVE  f[0] = 0 /\ \A k \in 1 .. n : f[k] = f[k - 1] + s[k].size
<1>1. \A k \in 0 .. n : f[k] = IF k = 0 THEN 0 ELSE f[k - 1] + s[k].size
  BY DEF IsLoad
<1> QED
  BY <1>1

\* The recursion of Load has a solution.
LEMMA LoadDefined ==
  ASSUME NEW s, Len(s) \in Nat
  PROVE  \E f : IsLoad(f, s, Len(s)) /\ Load(s) = f[Len(s)]
<1> DEFINE S == {n \in Nat : \E f : IsLoad(f, s, n)}
<1>1. 0 \in S
  <2> DEFINE g == [k \in 0 .. 0 |-> 0]
  <2>1. IsLoad(g, s, 0)
    BY DEF IsLoad
  <2> QED
    BY <2>1
<1>2. ASSUME NEW n \in Nat, n \in S
      PROVE  n + 1 \in S
  <2>1. PICK f : IsLoad(f, s, n)
    BY <1>2
  <2> DEFINE g == [k \in 0 .. n + 1 |-> IF k = n + 1 THEN f[n] + s[n + 1].size ELSE f[k]]
  <2>2. \A k \in 0 .. n + 1 : g[k] = IF k = 0 THEN 0 ELSE g[k - 1] + s[k].size
    <3>1. f[0] = 0 /\ \A k \in 1 .. n : f[k] = f[k - 1] + s[k].size
      BY <2>1, LoadEntries
    <3> TAKE k \in 0 .. n + 1
    <3>2. CASE k = n + 1
      BY <3>2
    <3>3. CASE k = 0
      BY <3>3, <3>1
    <3>4. CASE k \in 1 .. n
      <4>1. k - 1 \in 0 .. n /\ k # n + 1 /\ k - 1 # n + 1
        BY <3>4
      <4> QED
        BY <3>4, <3>1, <4>1
    <3> QED
      BY <3>2, <3>3, <3>4
  <2>3. g = [k \in 0 .. n + 1 |-> g[k]]
    OBVIOUS
  <2>4. IsLoad(g, s, n + 1)
    <3> HIDE DEF g
    <3> QED
      BY <2>2, <2>3 DEF IsLoad
  <2> QED
    BY <2>4
<1>3. Len(s) \in S
  <2>1. S \in SUBSET Nat
    OBVIOUS
  <2> HIDE DEF S
  <2> QED
    BY <1>1, <1>2, <2>1, SetInduction
<1> DEFINE c == CHOOSE f : IsLoad(f, s, Len(s))
<1>4. IsLoad(c, s, Len(s))
  BY <1>3
<1>5. Load(s) = c[Len(s)]
  BY DEF Load, IsLoad
<1> QED
  BY <1>4, <1>5

\* The sums are natural numbers if the sizes are.
LEMMA LoadTableType ==
  ASSUME NEW S, \A b \in S : b.size \in Nat, NEW s \in Seq(S),
         NEW f, IsLoad(f, s, Len(s))
  PROVE  \A k \in 0 .. Len(s) : f[k] \in Nat
<1>1. f[0] = 0 /\ \A k \in 1 .. Len(s) : f[k] = f[k - 1] + s[k].size
  BY LoadEntries
<1>2. \A k \in 1 .. Len(s) : s[k].size \in Nat
  OBVIOUS
<1> DEFINE T == {n \in Nat : n <= Len(s) => f[n] \in Nat}
<1>3. 0 \in T
  BY <1>1
<1>4. ASSUME NEW n \in Nat, n \in T
      PROVE  n + 1 \in T
  <2>1. CASE n + 1 <= Len(s)
    <3>1. n + 1 \in 1 .. Len(s) /\ (n + 1) - 1 = n /\ f[n] \in Nat
      BY <1>4, <2>1
    <3>2. f[n + 1] = f[n] + s[n + 1].size
      BY <1>1, <3>1
    <3> QED
      BY <1>2, <3>1, <3>2
  <2> QED
    BY <2>1
<1>5. \A n \in Nat : n \in T
  <2>1. T \in SUBSET Nat
    OBVIOUS
  <2> HIDE DEF T
  <2> QED
    BY <1>3, <1>4, <2>1, SetInduction
<1> QED
  BY <1>5

SameSizes(s, t, m) == \A k \in 1 .. m : s[k].size = t[k].size

\* Two queues that agree in the sizes of their first m slots have the same sums over them.
LEMMA SameTables ==
  ASSUME NEW s, NEW t, NEW f, NEW g, NEW n \in Nat, NEW l \in Nat, NEW m \in Nat,
         m <= n, m <= l, IsLoad(f, s, n), IsLoad(g, t, l), SameSizes(s, t, m)
  PROVE  \A k \in 0 .. m : f[k] = g[k]
<1>1. /\ f[0] = 0 /\ \A k \in 1 .. n : f[k] = f[k - 1] + s[k].size
      /\ g[0] = 0 /\ \A k \in 1 .. l : g[k] = g[k - 1] + t[k].size
  BY LoadEntries
<1> DEFINE T == {k \in Nat : k <= m => f[k] = g[k]}
<1>2. 0 \in T
  BY <1>1
<1>3. ASSUME NEW k \in Nat, k \in T
      PROVE  k + 1 \in T
  <2>1. CASE k + 1 <= m
    <3>1. k + 1 \in 1 .. m /\ k + 1 \in 1 .. n /\ k + 1 \in 1 .. l /\ (k + 1) - 1 = k
      BY <2>1
    <3>2. f[k] = g[k]
      BY <1>3, <2>1
    <3>3. f[k + 1] = f[k] + s[k + 1].size /\ g[k + 1] = g[k] + t[k + 1].size
      BY <1>1, <3>1
    <3> QED
      BY <3>1, <3>2, <3>3 DEF SameSizes
  <2> QED
    BY <2>1
<1>4. \A k \in Nat : k \in T
  <2>1. T \in SUBSET Nat
    OBVIOUS
  <2> HIDE DEF T
  <2> QED
    BY <1>2, <1>3, <2>1, SetInduction
<1> QED
  BY <1>4

LEMMA LoadType ==
  ASSUME NEW S, \A b \in S : b.size \in Nat, NEW s \in Seq(S)
  PROVE  Load(s) \in Nat
<1>1. PICK f : IsLoad(f, s, Len(s)) /\ Load(s) = f[Len(s)]
  BY LoadDefined
<1>2. \A k \in 0 .. Len(s) : f[k] \in Nat
  BY <1>1, LoadTableType
<1> QED
  BY <1>1, <1>2

\* An empty queue has no load.
LEMMA LoadEmpty == Load(<<>>) = 0
<1>1. Len(<<>>) = 0
  OBVIOUS
<1>2. PICK f : IsLoad(f, <<>>, Len(<<>>)) /\ Load(<<>>) = f[Len(<<>>)]
  BY <1>1, LoadDefined
<1> QED
  BY <1>1, <1>2, LoadEntries

\* A bundle put at the end adds its size.
LEMMA LoadAppend ==
  ASSUME NEW S, \A b \in S : b.size \in Nat, NEW s \in Seq(S), NEW b \in S
  PROVE  Load(Append(s, b)) = Load(s) + b.size
<1> DEFINE t == Append(s, b)
           n == Len(s)
<1>1. n \in Nat /\ Len(t) = n + 1 /\ t[n + 1] = b /\ \A k \in 1 .. n : t[k] = s[k]
  OBVIOUS
<1> HIDE DEF t, n
<1>2. PICK f : IsLoad(f, s, n) /\ Load(s) = f[n]
  BY <1>1, LoadDefined DEF n
<1>3. PICK g : IsLoad(g, t, n + 1) /\ Load(t) = g[n + 1]
  BY <1>1, LoadDefined
<1>4. \A k \in 0 .. n : f[k] = g[k]
  <2>1. n \in Nat /\ n + 1 \in Nat /\ n <= n /\ n <= n + 1
    BY <1>1
  <2>2. SameSizes(s, t, n)
    BY <1>1 DEF SameSizes
  <2>3. IsLoad(f, s, n) /\ IsLoad(g, t, n + 1)
    BY <1>2, <1>3
  <2> QED
    BY <2>1, <2>2, <2>3, SameTables
<1>5. g[n + 1] = g[n] + t[n + 1].size
  <2>1. n + 1 \in 1 .. n + 1 /\ (n + 1) - 1 = n
    BY <1>1
  <2> QED
    BY <1>1, <1>3, <2>1, LoadEntries
<1> QED
  BY <1>1, <1>2, <1>3, <1>4, <1>5 DEF t

\* Taking a bundle out of any slot gives its size back.
LEMMA LoadSwapRemove ==
  ASSUME NEW S, \A b \in S : b.size \in Nat, NEW s \in Seq(S), NEW i \in DOMAIN s
  PROVE  Load(SwapRemove(s, i)) = Load(s) - s[i].size
<1> DEFINE t == SwapRemove(s, i)
           n == Len(s)
<1>1. n \in Nat /\ n - 1 \in Nat /\ i \in 1 .. n /\ \A k \in 1 .. n : s[k].size \in Nat
  OBVIOUS
<1>2. /\ Len(t) = n - 1
      /\ \A k \in 1 .. n - 1 : t[k] = IF k = i THEN s[n] ELSE s[k]
  BY <1>1 DEF SwapRemove
<1>3. PICK f : IsLoad(f, s, n) /\ Load(s) = f[n]
  BY <1>1, LoadDefined
<1> HIDE DEF t
<1>4. PICK g : IsLoad(g, t, n - 1) /\ Load(t) = g[n - 1]
  BY <1>1, <1>2, LoadDefined
<1>5. \A k \in 0 .. n : f[k] \in Nat
  BY <1>3, LoadTableType
<1> HIDE DEF n
<1>6. /\ \A k \in 1 .. n : f[k] = f[k - 1] + s[k].size
      /\ \A k \in 1 .. n - 1 : g[k] = g[k - 1] + t[k].size
  BY <1>1, <1>3, <1>4, LoadEntries
<1>7. \A k \in 0 .. i - 1 : f[k] = g[k]
  <2>1. n \in Nat /\ n - 1 \in Nat /\ i - 1 \in Nat /\ i - 1 <= n /\ i - 1 <= n - 1
    BY <1>1
  <2>2. SameSizes(s, t, i - 1)
    BY <1>1, <1>2 DEF SameSizes
  <2>3. IsLoad(f, s, n) /\ IsLoad(g, t, n - 1)
    BY <1>3, <1>4
  <2> QED
    BY <2>1, <2>2, <2>3, SameTables
<1>8. CASE i = n
  BY <1>1, <1>3, <1>4, <1>5, <1>6, <1>7, <1>8 DEF t
<1>9. CASE i < n
  <2> DEFINE T == {k \in Nat : i + k <= n - 1 => g[i + k] = (f[i + k] - s[i].size) + s[n].size}
  <2>1. 0 \in T
    <3>1. i \in 1 .. n /\ i \in 1 .. n - 1 /\ i - 1 \in 0 .. i - 1 /\ i + 0 = i /\ i - 1 \in 0 .. n
      BY <1>1, <1>9
    <3>2. g[i] = g[i - 1] + s[n].size /\ f[i] = f[i - 1] + s[i].size /\ f[i - 1] = g[i - 1]
      BY <1>2, <1>6, <1>7, <3>1
    <3>3. f[i - 1] \in Nat /\ s[i].size \in Nat /\ s[n].size \in Nat
      BY <1>1, <1>5, <3>1
    <3>4. g[i] = (f[i] - s[i].size) + s[n].size
      BY <3>2, <3>3
    <3> QED
      BY <3>1, <3>4
  <2>2. ASSUME NEW k \in Nat, k \in T
        PROVE  k + 1 \in T
    <3>1. CASE i + (k + 1) <= n - 1
      <4> DEFINE j == i + (k + 1)
      <4>1. /\ j \in 1 .. n - 1 /\ j \in 1 .. n /\ j # i /\ j - 1 = i + k
            /\ i + k \in 0 .. n /\ i + k <= n - 1
        BY <1>1, <3>1
      <4>2. g[i + k] = (f[i + k] - s[i].size) + s[n].size
        BY <2>2, <4>1
      <4> HIDE DEF j
      <4>3. g[j] = g[i + k] + s[j].size /\ f[j] = f[i + k] + s[j].size
        BY <1>2, <1>6, <4>1
      <4>4. f[i + k] \in Nat /\ s[i].size \in Nat /\ s[n].size \in Nat /\ s[j].size \in Nat
        BY <1>1, <1>5, <4>1
      <4>5. g[j] = (f[j] - s[i].size) + s[n].size
        BY <4>2, <4>3, <4>4
      <4> QED
        BY <4>5 DEF j
    <3> QED
      BY <3>1
  <2>3. \A k \in Nat : k \in T
    <3>1. T \in SUBSET Nat
      OBVIOUS
    <3> HIDE DEF T
    <3> QED
      BY <2>1, <2>2, <3>1, SetInduction
  <2>4. g[n - 1] = (f[n - 1] - s[i].size) + s[n].size
    <3>1. (n - 1) - i \in Nat /\ i + ((n - 1) - i) = n - 1
      BY <1>1, <1>9
    <3>2. (n - 1) - i \in T
      BY <2>3, <3>1
    <3> QED
      BY <3>1, <3>2, <1>1
  <2>5. n \in 1 .. n /\ n - 1 \in 0 .. n
    BY <1>1, <1>9
  <2>6. f[n] = f[n - 1] + s[n].size /\ f[n - 1] \in Nat /\ s[n].size \in Nat /\ s[i].size \in Nat
    BY <1>1, <1>5, <1>6, <2>5
  <2> QED
    BY <1>3, <1>4, <2>4, <2>6 DEF t
<1> QED
  BY <1>1, <1>8, <1>9

-----------------------------------------------------------------------------
(* The copies of a bundle *)

\* There are finitely many.
LEMMA CopiesType ==
  ASSUME NEW S, NEW s \in Seq(S), NEW b
  PROVE  /\ IsFiniteSet({j \in DOMAIN s : s[j] = b})
         /\ Copies(b, s) \in Nat
         /\ Copies(b, s) > 0 <=> \E j \in DOMAIN s : s[j] = b
<1> DEFINE A == {j \in DOMAIN s : s[j] = b}
<1>1. IsFiniteSet(DOMAIN s)
  BY FS_Interval
<1>2. IsFiniteSet(A) /\ Cardinality(A) \in Nat
  BY <1>1, FS_Subset, FS_CardinalityType
<1>3. Cardinality(A) = 0 <=> A = {}
  BY <1>2, FS_EmptySet
<1> QED
  BY <1>2, <1>3 DEF Copies

\* A bundle put at the end is there once more, every other as often as before.
LEMMA CopiesAppend ==
  ASSUME NEW S, NEW s \in Seq(S), NEW b \in S, NEW c
  PROVE  Copies(c, Append(s, b)) = IF c = b THEN Copies(c, s) + 1 ELSE Copies(c, s)
<1> DEFINE A == {j \in DOMAIN s : s[j] = c}
           B == {j \in DOMAIN Append(s, b) : Append(s, b)[j] = c}
<1>1. IsFiniteSet(A)
  BY CopiesType
<1>2. CASE c = b
  <2>1. B = A \cup {Len(s) + 1} /\ Len(s) + 1 \notin A
    BY <1>2
  <2> HIDE DEF A, B
  <2>2. Cardinality(B) = Cardinality(A) + 1
    BY <1>1, <2>1, FS_AddElement
  <2> QED
    BY <1>2, <2>2 DEF Copies, A, B
<1>3. CASE c # b
  <2>1. B = A
    BY <1>3
  <2> QED
    BY <1>3, <2>1 DEF Copies
<1> QED
  BY <1>2, <1>3

\* Taking a bundle out of slot i takes one copy of it and none of any other,
\* whichever bundle moves into the gap.
LEMMA CopiesSwapRemove ==
  ASSUME NEW S, NEW s \in Seq(S), NEW i \in DOMAIN s, NEW c
  PROVE  Copies(c, SwapRemove(s, i)) = IF c = s[i] THEN Copies(c, s) - 1 ELSE Copies(c, s)
<1> DEFINE t == SwapRemove(s, i)
           n == Len(s)
           A == {j \in DOMAIN s : s[j] = c}
           B == {j \in DOMAIN t : t[j] = c}
           from == [j \in B |-> IF j = i THEN n ELSE j]
<1>1. /\ n \in Nat /\ i \in 1 .. n /\ DOMAIN s = 1 .. n /\ DOMAIN t = 1 .. n - 1
      /\ \A k \in 1 .. n - 1 : t[k] = IF k = i THEN s[n] ELSE s[k]
  BY DEF SwapRemove
<1> HIDE DEF t, n
<1>2. from \in Bijection(B, A \ {i})
  <2>1. from \in [B -> A \ {i}]
    BY <1>1
  <2>2. \A j, k \in B : from[j] = from[k] => j = k
    BY <1>1
  <2>3. \A k \in A \ {i} : \E j \in B : from[j] = k
    <3> TAKE k \in A \ {i}
    <3>1. CASE k = n
      BY <1>1, <3>1
    <3>2. CASE k # n
      BY <1>1, <3>2
    <3> QED
      BY <3>1, <3>2
  <2> QED
    BY <2>1, <2>2, <2>3 DEF Bijection, Injection, Surjection, IsInjective
<1>3. IsFiniteSet(A) /\ IsFiniteSet(A \ {i})
  BY CopiesType, FS_RemoveElement
<1>4. IsFiniteSet(B) /\ Cardinality(B) = Cardinality(A \ {i})
  <2>1. ExistsBijection(B, A \ {i})
    BY <1>2 DEF ExistsBijection
  <2>2. IsFiniteSet(B)
    <3>1. B \subseteq 1 .. n - 1 /\ IsFiniteSet(1 .. n - 1)
      BY <1>1, FS_Interval
    <3> QED
      BY <3>1, FS_Subset
  <2> QED
    BY <2>1, <2>2, FS_Bijection
<1>5. Cardinality(A \ {i}) = IF i \in A THEN Cardinality(A) - 1 ELSE Cardinality(A)
  BY <1>3, FS_RemoveElement
<1>6. i \in A <=> c = s[i]
  BY <1>1
<1> QED
  BY <1>4, <1>5, <1>6 DEF Copies, t

-----------------------------------------------------------------------------
(* The operations *)

\* Taking a bundle out of any slot leaves the other bundles, one slot shorter.
LEMMA SwapRemoveShape ==
  ASSUME NEW S, NEW s \in Seq(S), NEW i \in DOMAIN s
  PROVE  SwapRemove(s, i) \in Seq(S) /\ Len(SwapRemove(s, i)) = Len(s) - 1
<1>1. Len(s) \in Nat \ {0} /\ DOMAIN s = 1 .. Len(s)
  OBVIOUS
<1>2. Len(s) - 1 \in Nat /\ Len(s) \in DOMAIN s
  BY <1>1
<1>3. \A j \in 1 .. Len(s) - 1 : j \in DOMAIN s
  BY <1>1
<1>4. SwapRemove(s, i) \in [1 .. Len(s) - 1 -> S]
  BY <1>1, <1>2, <1>3 DEF SwapRemove
<1> QED
  BY <1>2, <1>4

\* queue_enqueue, also when it displaces a bundle: with or without the new one.
LEMMA EnqueueShape ==
  ASSUME NEW S, NEW s \in Seq(S), Len(s) <= QueueMax, NEW b \in S,
         NEW o \in EnqueueOutcomes(s, b)
  PROVE  o.slots \in Seq(S) /\ Len(o.slots) <= QueueMax
<1>1. QueueMax \in Nat /\ Len(s) \in Nat
  BY QueueMaxAssumption
<1>2. CASE o.slots = s
  BY <1>2
<1>3. CASE o.slots = Append(s, b) /\ Len(s) < QueueMax
  BY <1>1, <1>3
<1>4. CASE \E v \in Victims(s, b) : o = Preempt(s, v, b)
  <2>1. PICK v \in Victims(s, b) : o = Preempt(s, v, b)
    BY <1>4
  <2>2. v \in DOMAIN s
    BY DEF Victims, Lower
  <2>3. SwapRemove(s, v) \in Seq(S) /\ Len(SwapRemove(s, v)) = Len(s) - 1
    BY <2>2, SwapRemoveShape
  <2>4. o.slots = SwapRemove(s, v) \/ o.slots = Append(SwapRemove(s, v), b)
    BY <2>1 DEF Preempt, Outcome
  <2> QED
    BY <1>1, <2>3, <2>4
<1> QED
  <2>1. CASE Full(s)
    BY <1>2, <2>1 DEF EnqueueOutcomes, Outcome
  <2>2. CASE ~Full(s) /\ Fits(s, b)
    <3>1. o = Outcome(Append(s, b), 0)
      BY <2>2 DEF EnqueueOutcomes
    <3> QED
      BY <1>1, <1>3, <2>2, <3>1 DEF Outcome, Full
  <2>3. CASE ~Full(s) /\ ~Fits(s, b) /\ UnderPressure(s) /\ Victims(s, b) # {}
    BY <1>4, <2>3 DEF EnqueueOutcomes
  <2>4. CASE ~Full(s) /\ ~Fits(s, b) /\ ~(UnderPressure(s) /\ Victims(s, b) # {})
    BY <1>2, <2>4 DEF EnqueueOutcomes, Outcome
  <2> QED
    BY <2>1, <2>2, <2>3, <2>4

\* queue_pop_next: one of the queued bundles, and the others.
LEMMA PopShape ==
  ASSUME NEW S, NEW s \in Seq(S), NEW t, NEW o \in PopOutcomes(s, t)
  PROVE  /\ \E i \in DOMAIN s : o.bundle = s[i]
         /\ o.bundle \in S
         /\ o.slots \in Seq(S) /\ Len(o.slots) = Len(s) - 1
<1>1. PICK i \in BestSlots(s, t) : o = [bundle |-> s[i], slots |-> SwapRemove(s, i)]
  BY DEF PopOutcomes
<1>2. i \in DOMAIN s
  BY DEF BestSlots
<1> QED
  BY <1>1, <1>2, SwapRemoveShape

\* What a removal or an append does to the load.
LEMMA LoadsAfter ==
  ASSUME NEW S, \A b \in S : b.size \in Nat, NEW s \in Seq(S)
  PROVE  /\ Load(s) \in Nat
         /\ \A b \in S : Load(Append(s, b)) = Load(s) + b.size
         /\ \A i \in DOMAIN s : /\ SwapRemove(s, i) \in Seq(S)
                                /\ Load(SwapRemove(s, i)) = Load(s) - s[i].size
                                /\ Load(SwapRemove(s, i)) \in Nat
                                /\ Load(SwapRemove(s, i)) <= Load(s)
<1>1. Load(s) \in Nat
  BY LoadType
<1>2. ASSUME NEW b \in S
      PROVE  Load(Append(s, b)) = Load(s) + b.size
  BY LoadAppend
<1>3. ASSUME NEW i \in DOMAIN s
      PROVE  /\ SwapRemove(s, i) \in Seq(S)
             /\ Load(SwapRemove(s, i)) = Load(s) - s[i].size
             /\ Load(SwapRemove(s, i)) \in Nat
             /\ Load(SwapRemove(s, i)) <= Load(s)
  <2>1. SwapRemove(s, i) \in Seq(S)
    BY SwapRemoveShape
  <2>2. Load(SwapRemove(s, i)) = Load(s) - s[i].size /\ s[i].size \in Nat
    BY LoadSwapRemove
  <2>3. Load(SwapRemove(s, i)) \in Nat
    BY <2>1, LoadType
  <2> QED
    BY <1>1, <2>1, <2>2, <2>3
<1> QED
  BY <1>1, <1>2, <1>3

\* queue_enqueue keeps the queued bundles within the buffer, also when it
\* displaces one.
LEMMA EnqueueLoad ==
  ASSUME NEW S, \A x \in S : x.size \in Nat, NEW s \in Seq(S), Load(s) <= BufCap,
         NEW b \in S, NEW o \in EnqueueOutcomes(s, b)
  PROVE  o.ret \in {-1, 0, 1} /\ Load(o.slots) <= BufCap
<1>1. b.size \in Nat /\ BufCap \in Nat
  BY BufCapAssumption
<1>2. CASE o = Outcome(s, -1)
  BY <1>2 DEF Outcome
<1>3. CASE o = Outcome(Append(s, b), 0) /\ Fits(s, b)
  <2>1. Load(o.slots) = Load(s) + b.size /\ Load(s) \in Nat
    BY <1>3, LoadsAfter DEF Outcome
  <2> QED
    BY <1>1, <1>3, <2>1 DEF Fits, Free, Outcome
<1>4. CASE \E v \in Victims(s, b) : o = Preempt(s, v, b)
  <2>1. PICK v \in Victims(s, b) : o = Preempt(s, v, b)
    BY <1>4
  <2> DEFINE left == SwapRemove(s, v)
  <2>2. v \in DOMAIN s
    BY DEF Victims, Lower
  <2>3. /\ left \in Seq(S) /\ Load(left) <= Load(s)
        /\ Load(s) \in Nat /\ Load(left) \in Nat
    BY <2>2, LoadsAfter
  <2>4. Load(Append(left, b)) = Load(left) + b.size
    BY <2>3, LoadAppend
  <2> HIDE DEF left
  <2>5. CASE o.slots = Append(left, b) /\ o.ret = 1 /\ Fits(left, b)
    <3>1. BufCap - Load(left) >= b.size
      BY <2>5 DEF Fits, Free
    <3> QED
      BY <1>1, <2>3, <2>4, <2>5, <3>1
  <2>6. CASE o.slots = left /\ o.ret = -1
    BY <1>1, <2>3, <2>6
  <2> QED
    BY <2>1, <2>5, <2>6 DEF Preempt, Outcome, left
<1> QED
  BY <1>2, <1>3, <1>4 DEF EnqueueOutcomes

\* A bundle just taken out always finds its place again: a slot is free, and the
\* bytes it gave back are the bytes it needs.
LEMMA RequeueSucceeds ==
  ASSUME NEW S, \A x \in S : x.size \in Nat, NEW s \in Seq(S),
         Len(s) <= QueueMax, Load(s) <= BufCap, NEW i \in DOMAIN s
  PROVE  EnqueueOutcomes(SwapRemove(s, i), s[i])
           = {Outcome(Append(SwapRemove(s, i), s[i]), 0)}
<1> DEFINE rest == SwapRemove(s, i)
<1>1. /\ Load(rest) = Load(s) - s[i].size /\ Load(s) \in Nat /\ s[i].size \in Nat
      /\ BufCap \in Nat /\ QueueMax \in Nat /\ Len(s) \in Nat
  BY LoadsAfter, BufCapAssumption, QueueMaxAssumption
<1>2. Len(rest) = Len(s) - 1
  BY SwapRemoveShape
<1> HIDE DEF rest
<1>3. ~Full(rest)
  BY <1>1, <1>2 DEF Full
<1>4. Fits(rest, s[i])
  BY <1>1 DEF Fits, Free
<1> QED
  BY <1>3, <1>4 DEF EnqueueOutcomes, rest

-----------------------------------------------------------------------------
(* The slots as a bag *)

Counts(bag) == \A x \in DOMAIN bag : bag[x] \in Nat \ {0}

\* What adding one bundle to a bag does.
LEMMA BagWith ==
  ASSUME NEW bag, NEW b, Counts(bag)
  PROVE  /\ DOMAIN Store!With(bag, b) = DOMAIN bag \cup {b}
         /\ Store!With(bag, b)[b] = IF b \in DOMAIN bag THEN bag[b] + 1 ELSE 1
         /\ \A x \in DOMAIN bag \ {b} : Store!With(bag, b)[x] = bag[x]
         /\ Store!With(bag, b) = [x \in DOMAIN bag \cup {b} |-> Store!With(bag, b)[x]]
<1> DEFINE B == [x \in DOMAIN bag \cup {b} |->
                   IF x = b THEN IF b \in DOMAIN bag THEN bag[b] + 1 ELSE 1 ELSE bag[x]]
<1>1. Store!With(bag, b) = B
  BY DEF Counts, Store!With, Store!(+), Store!SetToBag
<1> QED
  BY <1>1

\* What removing one bundle from a bag does.
LEMMA BagWithout ==
  ASSUME NEW bag, NEW b \in DOMAIN bag, Counts(bag)
  PROVE  /\ \A x \in DOMAIN Store!Without(bag, b) :
               Store!Without(bag, b)[x] = IF x = b THEN bag[x] - 1 ELSE bag[x]
         /\ DOMAIN Store!Without(bag, b) = IF bag[b] = 1 THEN DOMAIN bag \ {b} ELSE DOMAIN bag
         /\ Store!Without(bag, b)
              = [x \in DOMAIN Store!Without(bag, b) |-> Store!Without(bag, b)[x]]
<1> DEFINE B == [x \in DOMAIN bag |-> IF x = b THEN bag[x] - 1 ELSE bag[x]]
<1>1. Store!Without(bag, b) = [x \in {y \in DOMAIN bag : B[y] > 0} |-> B[x]]
  BY DEF Store!Without, Store!(-), Store!SetToBag
<1>2. {y \in DOMAIN bag : B[y] > 0} = IF bag[b] = 1 THEN DOMAIN bag \ {b} ELSE DOMAIN bag
  BY DEF Counts
<1> HIDE DEF B
<1>3. \A x \in DOMAIN bag : B[x] = IF x = b THEN bag[x] - 1 ELSE bag[x]
  BY DEF B
<1> QED
  BY <1>1, <1>2, <1>3

\* The bag of a queue counts copies.
LEMMA BagCounts ==
  ASSUME NEW S, NEW s \in Seq(S)
  PROVE  /\ ToBag(s) = [x \in Range(s) |-> Copies(x, s)]
         /\ \A x : x \in Range(s) <=> Copies(x, s) > 0
         /\ \A x : Copies(x, s) \in Nat
<1>1. \A x : Copies(x, s) \in Nat /\ (Copies(x, s) > 0 <=> \E j \in DOMAIN s : s[j] = x)
  BY CopiesType
<1> QED
  BY <1>1 DEF ToBag, Copies, Range

\* Appending to the slots is adding to the bag.
LEMMA BagAppend ==
  ASSUME NEW S, NEW s \in Seq(S), NEW b \in S
  PROVE  ToBag(Append(s, b)) = Store!With(ToBag(s), b)
<1> DEFINE t == Append(s, b)
<1>1. t \in Seq(S)
  OBVIOUS
<1>2. \A x : Copies(x, t) = IF x = b THEN Copies(x, s) + 1 ELSE Copies(x, s)
  BY CopiesAppend
<1> HIDE DEF t
<1>3. /\ ToBag(s) = [x \in Range(s) |-> Copies(x, s)]
      /\ \A x : x \in Range(s) <=> Copies(x, s) > 0
      /\ \A x : Copies(x, s) \in Nat
  BY BagCounts
<1>4. /\ ToBag(t) = [x \in Range(t) |-> Copies(x, t)]
      /\ \A x : x \in Range(t) <=> Copies(x, t) > 0
  BY <1>1, BagCounts
<1>5. Range(t) = Range(s) \cup {b}
  BY <1>2, <1>3, <1>4
<1> DEFINE u == Store!With(ToBag(s), b)
<1>6. Counts(ToBag(s))
  BY <1>3 DEF Counts
<1>7. /\ DOMAIN u = DOMAIN ToBag(s) \cup {b}
      /\ u[b] = IF b \in DOMAIN ToBag(s) THEN ToBag(s)[b] + 1 ELSE 1
      /\ \A x \in DOMAIN ToBag(s) \ {b} : u[x] = ToBag(s)[x]
      /\ u = [x \in DOMAIN ToBag(s) \cup {b} |-> u[x]]
  BY <1>6, BagWith
<1> HIDE DEF u
<1>8. DOMAIN u = Range(t)
  BY <1>3, <1>5, <1>7
<1>9. \A x \in Range(t) : u[x] = Copies(x, t)
  <2>1. b \notin Range(s) => Copies(b, s) = 0
    BY <1>3
  <2> QED
    BY <1>2, <1>3, <1>5, <1>7, <2>1
<1> QED
  BY <1>4, <1>7, <1>8, <1>9 DEF u, t

\* A swap-remove is a removal from the bag: the bundle that fills the gap is
\* neither lost nor doubled.
LEMMA BagSwapRemove ==
  ASSUME NEW S, NEW s \in Seq(S), NEW i \in DOMAIN s
  PROVE  ToBag(SwapRemove(s, i)) = Store!Without(ToBag(s), s[i])
<1> DEFINE t == SwapRemove(s, i)
           b == s[i]
<1>1. t \in Seq(S)
  BY SwapRemoveShape
<1>2. \A x : Copies(x, t) = IF x = b THEN Copies(x, s) - 1 ELSE Copies(x, s)
  BY CopiesSwapRemove
<1>3. /\ ToBag(s) = [x \in Range(s) |-> Copies(x, s)]
      /\ \A x : x \in Range(s) <=> Copies(x, s) > 0
      /\ \A x : Copies(x, s) \in Nat
  BY BagCounts
<1>4. b \in Range(s)
  BY DEF Range
<1> HIDE DEF t, b
<1>5. /\ ToBag(t) = [x \in Range(t) |-> Copies(x, t)]
      /\ \A x : x \in Range(t) <=> Copies(x, t) > 0
  BY <1>1, BagCounts
<1> DEFINE u == Store!Without(ToBag(s), b)
<1>6. /\ \A x \in DOMAIN u : u[x] = IF x = b THEN ToBag(s)[x] - 1 ELSE ToBag(s)[x]
      /\ DOMAIN u = IF ToBag(s)[b] = 1 THEN DOMAIN ToBag(s) \ {b} ELSE DOMAIN ToBag(s)
      /\ u = [x \in DOMAIN u |-> u[x]]
  <2>1. b \in DOMAIN ToBag(s) /\ Counts(ToBag(s))
    BY <1>3, <1>4 DEF Counts
  <2> QED
    BY <2>1, BagWithout
<1> HIDE DEF u
<1>7. DOMAIN u = Range(t)
  <2>1. DOMAIN u = IF Copies(b, s) = 1 THEN Range(s) \ {b} ELSE Range(s)
    BY <1>3, <1>4, <1>6
  <2>2. Range(t) = IF Copies(b, s) = 1 THEN Range(s) \ {b} ELSE Range(s)
    BY <1>2, <1>3, <1>4, <1>5
  <2> QED
    BY <2>1, <2>2
<1>8. \A x \in Range(t) : u[x] = Copies(x, t)
  <2> TAKE x \in Range(t)
  <2>1. x \in Range(s) /\ x \in DOMAIN u
    BY <1>3, <1>6, <1>7
  <2> QED
    BY <1>2, <1>3, <1>6, <2>1
<1> QED
  BY <1>5, <1>6, <1>7, <1>8 DEF u, t, b

-----------------------------------------------------------------------------
(* The bytes of the bag *)

\* The library's operators mean in the abstract store what they mean here.
LEMMA SameCardinality ==
  ASSUME NEW S
  PROVE  Store!Cardinality(S) = Cardinality(S)
BY DEF Store!Cardinality, Cardinality

LEMMA SameBags ==
  ASSUME NEW bag, NEW x
  PROVE  /\ Store!BagToSet(bag) = DOMAIN bag
         /\ Store!BagIn(x, bag) <=> x \in DOMAIN bag
BY DEF Store!BagToSet, Store!BagIn

ByteSet(bag) == UNION {Store!BytesOf(b, 1 .. bag[b]) : b \in DOMAIN bag}

LEMMA BytesCount ==
  ASSUME NEW bag
  PROVE  Store!Bytes(bag) = Cardinality(ByteSet(bag))
<1>1. Store!BagToSet(bag) = DOMAIN bag
  BY SameBags
<1>2. Store!Bytes(bag) = Store!Cardinality(ByteSet(bag))
  BY <1>1 DEF Store!Bytes, ByteSet
<1> QED
  BY <1>2, SameCardinality

\* A bundle has as many bytes in a bag as its size says, per copy.
LEMMA BytesOfCopy ==
  ASSUME NEW b, b.size \in Nat, NEW n
  PROVE  /\ IsFiniteSet(Store!BytesOf(b, {n}))
         /\ Cardinality(Store!BytesOf(b, {n})) = b.size
<1> DEFINE S == 1 .. b.size
           T == Store!BytesOf(b, {n})
           f == [k \in S |-> <<b, n, k>>]
<1>1. IsFiniteSet(S) /\ Cardinality(S) = b.size
  BY FS_Interval
<1>2. T = {<<b, n, k>> : k \in S}
  BY DEF Store!BytesOf
<1>3. f \in Bijection(S, T)
  <2>1. f \in [S -> T]
    BY <1>2
  <2>2. \A j, k \in S : f[j] = f[k] => j = k
    OBVIOUS
  <2>3. \A y \in T : \E k \in S : f[k] = y
    BY <1>2
  <2> QED
    BY <2>1, <2>2, <2>3 DEF Bijection, Injection, Surjection, IsInjective
<1> HIDE DEF S, T, f
<1>4. ExistsBijection(S, T)
  BY <1>3 DEF ExistsBijection
<1> QED
  BY <1>1, <1>4, FS_Bijection DEF T

\* Adding a bundle to a bag adds its size to the bytes.
LEMMA BytesAdd ==
  ASSUME NEW bag, Counts(bag), IsFiniteSet(ByteSet(bag)),
         NEW b, b.size \in Nat
  PROVE  /\ IsFiniteSet(ByteSet(Store!With(bag, b)))
         /\ Store!Bytes(Store!With(bag, b)) = Store!Bytes(bag) + b.size
<1> DEFINE n   == IF b \in DOMAIN bag THEN bag[b] + 1 ELSE 1
           new == Store!BytesOf(b, {n})
<1>1. IsFiniteSet(new) /\ Cardinality(new) = b.size
  BY BytesOfCopy
<1>2. n \in Nat \ {0}
  BY DEF Counts
<1>3. /\ DOMAIN Store!With(bag, b) = DOMAIN bag \cup {b}
      /\ Store!With(bag, b)[b] = n
      /\ \A x \in DOMAIN bag \ {b} : Store!With(bag, b)[x] = bag[x]
  BY BagWith
<1>4. ByteSet(Store!With(bag, b)) = ByteSet(bag) \cup new
  <2>1. ASSUME NEW x \in DOMAIN bag \ {b}
        PROVE  Store!BytesOf(x, 1 .. Store!With(bag, b)[x]) = Store!BytesOf(x, 1 .. bag[x])
    BY <1>3
  <2>2. CASE b \in DOMAIN bag
    <3>1. 1 .. n = (1 .. bag[b]) \cup {n}
      BY <2>2 DEF Counts
    <3>2. Store!BytesOf(b, 1 .. n) = Store!BytesOf(b, 1 .. bag[b]) \cup new
      BY <3>1 DEF Store!BytesOf
    <3> QED
      BY <1>3, <2>1, <2>2, <3>2 DEF ByteSet
  <2>3. CASE b \notin DOMAIN bag
    <3>1. 1 .. n = {n}
      BY <2>3
    <3> QED
      <4>1. Store!BytesOf(b, 1 .. Store!With(bag, b)[b]) = new
        BY <1>3, <3>1
      <4>2. \A x \in DOMAIN bag :
              Store!BytesOf(x, 1 .. Store!With(bag, b)[x]) = Store!BytesOf(x, 1 .. bag[x])
        BY <2>1, <2>3
      <4> HIDE DEF new
      <4> QED
        BY <1>3, <4>1, <4>2 DEF ByteSet
  <2> QED
    BY <2>2, <2>3
<1>5. ByteSet(bag) \cap new = {}
  <2> SUFFICES ASSUME NEW y \in ByteSet(bag), y \in new
               PROVE  FALSE
    OBVIOUS
  <2>1. PICK x \in DOMAIN bag : y \in Store!BytesOf(x, 1 .. bag[x])
    BY DEF ByteSet
  <2>2. y[1] = x /\ y[2] \in 1 .. bag[x] /\ y[1] = b /\ y[2] = n
    BY <2>1 DEF Store!BytesOf
  <2> QED
    BY <2>1, <2>2 DEF Counts
<1> HIDE DEF new
<1>6. /\ IsFiniteSet(ByteSet(bag) \cup new)
      /\ Cardinality(ByteSet(bag) \cup new)
           = Cardinality(ByteSet(bag)) + Cardinality(new) - Cardinality(ByteSet(bag) \cap new)
  BY <1>1, FS_Union
<1>7. Cardinality(ByteSet(bag) \cap new) = 0
  BY <1>5, FS_EmptySet
<1>8. Cardinality(ByteSet(bag)) \in Nat
  BY FS_CardinalityType
<1>9. /\ Store!Bytes(bag) = Cardinality(ByteSet(bag))
      /\ Store!Bytes(Store!With(bag, b)) = Cardinality(ByteSet(Store!With(bag, b)))
  BY BytesCount
<1> QED
  BY <1>1, <1>4, <1>6, <1>7, <1>8, <1>9

Sized(S) == \A b \in S : b.size \in Nat

\* The bytes of the bag of a queue are the queue's load.
LEMMA BytesAreLoad ==
  ASSUME NEW S, Sized(S), NEW s \in Seq(S)
  PROVE  Store!Bytes(ToBag(s)) = Load(s)
<1> DEFINE OK(t) == IsFiniteSet(ByteSet(ToBag(t))) /\ Store!Bytes(ToBag(t)) = Load(t)
           T     == {n \in Nat : \A t \in Seq(S) : Len(t) = n => OK(t)}
<1>1. 0 \in T
  <2> SUFFICES ASSUME NEW t \in Seq(S), Len(t) = 0
               PROVE  OK(t)
    OBVIOUS
  <2>1. t = <<>>
    OBVIOUS
  <2>2. DOMAIN ToBag(t) = {}
    BY <2>1 DEF ToBag, Range
  <2>3. ByteSet(ToBag(t)) = {}
    BY <2>2 DEF ByteSet
  <2>4. Store!Bytes(ToBag(t)) = 0
    BY <2>3, FS_EmptySet, BytesCount
  <2> QED
    BY <2>1, <2>3, <2>4, LoadEmpty, FS_EmptySet
<1>2. ASSUME NEW n \in Nat, n \in T
      PROVE  n + 1 \in T
  <2> SUFFICES ASSUME NEW t \in Seq(S), Len(t) = n + 1
               PROVE  OK(t)
    OBVIOUS
  <2> DEFINE u == [k \in 1 .. n |-> t[k]]
             b == t[n + 1]
  <2>1. u \in Seq(S) /\ Len(u) = n /\ b \in S /\ t = Append(u, b)
    OBVIOUS
  <2> HIDE DEF u, b
  <2>2. OK(u)
    BY <1>2, <2>1
  <2>3. b.size \in Nat
    BY <2>1 DEF Sized
  <2>4. Counts(ToBag(u))
    BY <2>1, BagCounts DEF Counts
  <2>5. ToBag(t) = Store!With(ToBag(u), b)
    BY <2>1, BagAppend
  <2>6. Load(t) = Load(u) + b.size
    BY <2>1, LoadAppend DEF Sized
  <2> QED
    BY <2>2, <2>3, <2>4, <2>5, <2>6, BytesAdd
<1>3. \A n \in Nat : n \in T
  <2>1. T \in SUBSET Nat
    OBVIOUS
  <2> HIDE DEF T
  <2> QED
    BY <1>1, <1>2, <2>1, SetInduction
<1> QED
  BY <1>3

-----------------------------------------------------------------------------
(* The queue within its bounds *)

\* The sizes of the bundles the clients handle are numbers.
LEMMA BundlesSized == Sized(Bundles)
BY BundlesAssumption DEF Sized

\* queue_enqueue leaves the slots as they were, or one bundle longer, or without
\* one of the bundles of the lowest class, which is below the new one's.
LEMMA EnqueueCases ==
  ASSUME NEW b, NEW o \in EnqueueOutcomes(slots, b)
  PROVE  \/ o = Outcome(slots, -1)
         \/ o = Outcome(Append(slots, b), 0) /\ Fits(slots, b)
         \/ \E v \in Victims(slots, b) : o = Preempt(slots, v, b)
BY DEF EnqueueOutcomes

IInv == TypeOK /\ LoadWithinCap

\* Every call of the API keeps the queue within its slots and its bytes.
LEMMA Inductive == IInv /\ [Next]_vars => IInv'
<1> SUFFICES ASSUME IInv, [Next]_vars
             PROVE  IInv'
  OBVIOUS
<1>0. /\ slots \in Seq(Bundles) /\ Len(slots) <= QueueMax
      /\ now \in 0 .. MaxTime /\ Load(slots) <= BufCap
  BY DEF IInv, TypeOK, LoadWithinCap
<1>1. ASSUME NEW b \in Bundles, Enqueue(b)
      PROVE  IInv'
  <2>1. PICK o \in EnqueueOutcomes(slots, b) :
            /\ slots' = o.slots
            /\ last' = [op |-> "enqueue", bundle |-> b, ret |-> o.ret]
            /\ now' = now
    BY <1>1 DEF Enqueue
  <2>2. o.slots \in Seq(Bundles) /\ Len(o.slots) <= QueueMax
    BY <1>0, EnqueueShape
  <2>3. o.ret \in {-1, 0, 1} /\ Load(o.slots) <= BufCap
    BY <1>0, BundlesSized, EnqueueLoad DEF Sized
  <2>4. last' \in [op : {"enqueue"}, bundle : Bundles, ret : {-1, 0, 1}]
    BY <2>1, <2>3
  <2> QED
    BY <1>0, <2>1, <2>2, <2>3, <2>4 DEF IInv, TypeOK, LoadWithinCap
<1>2. CASE PopNext
  <2>1. PICK o \in PopOutcomes(slots, now) :
            /\ slots' = o.slots
            /\ last' = [op |-> "pop", bundle |-> o.bundle]
            /\ now' = now
    BY <1>2 DEF PopNext
  <2>2. PICK i \in BestSlots(slots, now) :
            o = [bundle |-> slots[i], slots |-> SwapRemove(slots, i)]
    BY DEF PopOutcomes
  <2>3. i \in DOMAIN slots
    BY DEF BestSlots
  <2>4. o.bundle \in Bundles /\ o.slots \in Seq(Bundles) /\ Len(o.slots) = Len(slots) - 1
    BY <1>0, PopShape
  <2>5. Load(o.slots) <= BufCap
    <3>1. /\ Load(SwapRemove(slots, i)) <= Load(slots)
          /\ Load(slots) \in Nat /\ Load(SwapRemove(slots, i)) \in Nat
      BY <1>0, <2>3, LoadsAfter, BundlesSized DEF Sized
    <3> QED
      BY <1>0, <2>2, <3>1, BufCapAssumption
  <2>6. Len(o.slots) <= QueueMax
    BY <1>0, <2>4, QueueMaxAssumption
  <2>7. last' \in [op : {"pop", "dequeue"}, bundle : Bundles]
    BY <2>1, <2>4
  <2> QED
    BY <1>0, <2>1, <2>4, <2>5, <2>6, <2>7 DEF IInv, TypeOK, LoadWithinCap
<1>3. ASSUME NEW b \in Bundles, Dequeue(b.id)
      PROVE  IInv'
  <2>1. PICK i \in FirstSlotsOf(slots, b.id) :
            /\ slots' = SwapRemove(slots, i)
            /\ last' = [op |-> "dequeue", bundle |-> slots[i]]
            /\ now' = now
    BY <1>3 DEF Dequeue
  <2>2. i \in DOMAIN slots
    BY DEF FirstSlotsOf
  <2>3. /\ slots[i] \in Bundles /\ slots' \in Seq(Bundles) /\ Len(slots') = Len(slots) - 1
        /\ Load(slots') <= Load(slots) /\ Load(slots) \in Nat /\ Load(slots') \in Nat
    BY <1>0, <2>1, <2>2, LoadsAfter, SwapRemoveShape, BundlesSized DEF Sized
  <2>4. Len(slots') <= QueueMax /\ Load(slots') <= BufCap
    BY <1>0, <2>3, QueueMaxAssumption, BufCapAssumption
  <2>5. last' \in [op : {"pop", "dequeue"}, bundle : Bundles]
    BY <2>1, <2>3
  <2> QED
    BY <1>0, <2>1, <2>3, <2>4, <2>5 DEF IInv, TypeOK, LoadWithinCap
<1>4. CASE Elapse
  BY <1>0, <1>4, MaxTimeAssumption DEF Elapse, IInv, TypeOK, LoadWithinCap
<1>5. CASE UNCHANGED vars
  BY <1>5 DEF vars, IInv, TypeOK, LoadWithinCap
<1> QED
  BY <1>1, <1>2, <1>3, <1>4, <1>5 DEF Next

LEMMA Initial == Init => IInv
<1> SUFFICES ASSUME Init
             PROVE  IInv
  OBVIOUS
<1>1. slots = <<>> /\ now = 0 /\ last = NoCall
  BY DEF Init
<1>2. Load(slots) = 0 /\ Len(slots) = 0 /\ slots \in Seq(Bundles)
  BY <1>1, LoadEmpty
<1> QED
  BY <1>1, <1>2, QueueMaxAssumption, BufCapAssumption, MaxTimeAssumption
  DEF IInv, TypeOK, LoadWithinCap

LEMMA Invariant == Spec => []IInv
BY Initial, Inductive, PTL DEF Spec

\* However calls mix, the slots hold bundles of the clients, never more than
\* there is room for.
THEOREM TypeCorrect == Spec => []TypeOK
<1>1. IInv => TypeOK
  BY DEF IInv
<1> QED
  BY <1>1, Invariant, PTL

\* The queued bundles fit the buffer together, whatever was admitted, displaced
\* and removed before.
THEOREM BufferNeverOverrun == Spec => []LoadWithinCap
<1>1. IInv => LoadWithinCap
  BY DEF IInv
<1> QED
  BY <1>1, Invariant, PTL

-----------------------------------------------------------------------------
(* The queue as a byte-budgeted bag *)

\* A bundle fits the slots exactly if it fits the bag.
LEMMA FitsAsBag ==
  ASSUME NEW s \in Seq(Bundles), NEW b \in Bundles
  PROVE  /\ ToBag(Append(s, b)) = Store!With(ToBag(s), b)
         /\ Fits(s, b) <=> Store!Bytes(Store!With(ToBag(s), b)) <= BufCap
<1>1. ToBag(Append(s, b)) = Store!With(ToBag(s), b)
  BY BagAppend
<1>2. Append(s, b) \in Seq(Bundles)
  OBVIOUS
<1>3. Store!Bytes(Store!With(ToBag(s), b)) = Load(Append(s, b))
  BY <1>1, <1>2, BundlesSized, BytesAreLoad
<1>4. Load(Append(s, b)) = Load(s) + b.size /\ Load(s) \in Nat /\ b.size \in Nat
  BY LoadsAfter, BundlesSized DEF Sized
<1> QED
  BY <1>1, <1>3, <1>4, BufCapAssumption DEF Fits, Free

\* A removal from the slots is one from the bag.
LEMMA TakenFromBag ==
  ASSUME NEW s \in Seq(Bundles), NEW i \in DOMAIN s
  PROVE  /\ s[i] \in Bundles
         /\ Store!BagIn(s[i], ToBag(s))
         /\ ToBag(SwapRemove(s, i)) = Store!Without(ToBag(s), s[i])
<1>1. s[i] \in Range(s)
  BY DEF Range
<1> QED
  BY <1>1, BagSwapRemove, SameBags DEF ToBag

\* Every call is a step of the abstract store, or leaves it alone.
LEMMA StepImplements ==
  IInv /\ [Next]_vars => [Store!Next]_(ToBag(slots))
<1> SUFFICES ASSUME IInv, [Next]_vars
             PROVE  Store!Next \/ ToBag(slots') = ToBag(slots)
  BY DEF ToBag, Range
<1>0. slots \in Seq(Bundles)
  BY DEF IInv, TypeOK
<1>1. ASSUME NEW b \in Bundles, Enqueue(b)
      PROVE  Store!Next \/ ToBag(slots') = ToBag(slots)
  <2>1. PICK o \in EnqueueOutcomes(slots, b) : slots' = o.slots
    BY <1>1 DEF Enqueue
  <2>2. CASE o = Outcome(slots, -1)
    BY <2>1, <2>2 DEF Outcome
  <2>3. CASE o = Outcome(Append(slots, b), 0) /\ Fits(slots, b)
    <3>1. Store!Put(b)
      BY <1>0, <2>1, <2>3, FitsAsBag DEF Outcome, Store!Put
    <3> QED
      BY <3>1 DEF Store!Next
  <2>4. CASE \E v \in Victims(slots, b) : o = Preempt(slots, v, b)
    <3>1. PICK i \in Victims(slots, b) : o = Preempt(slots, i, b)
      BY <2>4
    <3> DEFINE left == SwapRemove(slots, i)
               v    == slots[i]
    <3>2. /\ i \in DOMAIN slots /\ v.class < b.class
          /\ \A j \in Lower(slots, b) : v.class <= slots[j].class
      <4>1. i \in Lower(slots, b)
        BY DEF Victims
      <4>2. \A j \in Lower(slots, b) : \/ v.class < slots[j].class
                                       \/ v.class = slots[j].class
        BY DEF Victims
      <4>3. \A j \in DOMAIN slots : slots[j].class \in Int
        BY <1>0, BundlesAssumption DEF Classes, Housekeeping, Command
      <4> QED
        BY <4>1, <4>2, <4>3 DEF Lower
    <3>3. \A u \in DOMAIN ToBag(slots) : v.class <= u.class
      <4> SUFFICES ASSUME NEW j \in DOMAIN slots
                   PROVE  v.class <= slots[j].class
        BY DEF ToBag, Range
      <4>1. b.class \in Int /\ v.class \in Int /\ slots[j].class \in Int
        BY <1>0, <3>2, BundlesAssumption DEF Classes, Housekeeping, Command
      <4>2. CASE slots[j].class < b.class
        BY <3>2, <4>2 DEF Lower
      <4>3. CASE ~(slots[j].class < b.class)
        BY <3>2, <4>1, <4>3
      <4> QED
        BY <4>2, <4>3
    <3>4. /\ v \in Bundles /\ Store!BagIn(v, ToBag(slots))
          /\ left \in Seq(Bundles) /\ ToBag(left) = Store!Without(ToBag(slots), v)
      BY <1>0, <3>2, TakenFromBag, SwapRemoveShape
    <3>5. /\ ToBag(Append(left, b)) = Store!With(ToBag(left), b)
          /\ Fits(left, b) <=> Store!Bytes(Store!With(ToBag(left), b)) <= BufCap
      BY <3>4, FitsAsBag
    <3>6. slots' = IF Fits(left, b) THEN Append(left, b) ELSE left
      BY <2>1, <3>1 DEF Preempt, Outcome
    <3> HIDE DEF left
    <3>7. ToBag(slots') = IF Fits(left, b) THEN ToBag(Append(left, b)) ELSE ToBag(left)
      BY <3>6
    <3>8. Store!Displace(v, b)
      BY <3>2, <3>3, <3>4, <3>5, <3>7, SameBags DEF Store!Displace
    <3> QED
      BY <3>4, <3>8 DEF Store!Next
  <2> QED
    BY <2>2, <2>3, <2>4, EnqueueCases
<1>2. CASE PopNext
  <2>1. PICK i \in BestSlots(slots, now) : slots' = SwapRemove(slots, i)
    BY <1>2 DEF PopNext, PopOutcomes
  <2>2. i \in DOMAIN slots
    BY DEF BestSlots
  <2>3. slots[i] \in Bundles /\ Store!Take(slots[i])
    BY <1>0, <2>1, <2>2, TakenFromBag DEF Store!Take
  <2> QED
    BY <2>3 DEF Store!Next
<1>3. ASSUME NEW b \in Bundles, Dequeue(b.id)
      PROVE  Store!Next \/ ToBag(slots') = ToBag(slots)
  <2>1. PICK i \in FirstSlotsOf(slots, b.id) : slots' = SwapRemove(slots, i)
    BY <1>3 DEF Dequeue
  <2>2. i \in DOMAIN slots
    BY DEF FirstSlotsOf
  <2>3. slots[i] \in Bundles /\ Store!Take(slots[i])
    BY <1>0, <2>1, <2>2, TakenFromBag DEF Store!Take
  <2> QED
    BY <2>3 DEF Store!Next
<1>4. CASE Elapse \/ UNCHANGED vars
  BY <1>4 DEF Elapse, vars
<1> QED
  BY <1>1, <1>2, <1>3, <1>4 DEF Next

\* The queue implements the byte-budgeted bag of BundleStore.
THEOREM QueueIsStore == Spec => StoreImplemented
<1>1. Init => Store!Init
  <2>1. ToBag(<<>>) = [x \in {} |-> 1]
    BY DEF ToBag, Range
  <2> QED
    BY <2>1 DEF Init, Store!Init, Store!EmptyBag, Store!SetToBag
<1> QED
  BY <1>1, StepImplements, Invariant, PTL DEF Spec, StoreImplemented, Store!Spec

-----------------------------------------------------------------------------
(* The order of service *)

\* Neither the weights nor the remaining lifetimes v and w let a bundle of class
\* d pass one of class c: one two classes higher with the same or a better claim
\* to the bonus, or the highest over the lowest.
LEMMA KeyGap ==
  ASSUME NEW c \in 0 .. 3, NEW d \in 0 .. 3, NEW x \in {0, 1}, NEW y \in {0, 1},
         NEW v \in Nat \ {0}, NEW w \in Nat \ {0},
         (d = 0 /\ c = 3) \/ (c >= d + 2 /\ x >= y)
  PROVE  (10 * c * v + 15 + 9 * x * v) * w > (10 * d * w + 15 + 9 * y * w) * v
<1> DEFINE p == v * w
<1>1. p \in Nat /\ p >= v /\ p >= w
  <2>1. v * (w - 1) >= 0 /\ (v - 1) * w >= 0
    OBVIOUS
  <2> QED
    BY <2>1
<1>2. (10 * c * v + 15 + 9 * x * v) * w = 10 * c * p + 15 * w + 9 * x * p
  OBVIOUS
<1>3. (10 * d * w + 15 + 9 * y * w) * v = 10 * d * p + 15 * v + 9 * y * p
  OBVIOUS
<1> HIDE DEF p
<1>4. c \in {0, 1, 2, 3} /\ d \in {0, 1, 2, 3}
  OBVIOUS
<1> QED
  BY <1>1, <1>2, <1>3, <1>4

\* What queue_pop_next returns is not deeply inverted.
LEMMA PopOrder ==
  ASSUME NEW i \in DOMAIN slots, NEW j \in BestSlots(slots, now), IInv
  PROVE  LET b == slots[j]
         IN  /\ ~(b.class = Housekeeping /\ slots[i].class = Command)
             /\ ~(/\ slots[i].class >= b.class + 2
                  /\ CustodyBonus(slots[i]) >= CustodyBonus(b))
<1> DEFINE a == slots[i]
           b == slots[j]
<1>1. ~Outranks(a, b, now) /\ a \in Bundles /\ b \in Bundles
  BY DEF BestSlots, IInv, TypeOK
<1> HIDE DEF a, b
<1>2. /\ a.class \in 0 .. 3 /\ b.class \in 0 .. 3
      /\ CustodyBonus(a) \in {0, 1} /\ CustodyBonus(b) \in {0, 1}
  BY <1>1, BundlesAssumption DEF Classes, Housekeeping, Command, CustodyBonus
<1>3. Weight(a, now) \in Nat \ {0} /\ Weight(b, now) \in Nat \ {0}
  <2>1. now \in Int
    BY DEF IInv, TypeOK
  <2>2. RTTL(a, now) \in Int /\ RTTL(b, now) \in Int
    BY <1>1, <2>1, BundlesAssumption DEF RTTL, Age
  <2> QED
    BY <2>2 DEF Weight
<1>4. ~ \/ b.class = 0 /\ a.class = 3
        \/ a.class >= b.class + 2 /\ CustodyBonus(a) >= CustodyBonus(b)
  <2> SUFFICES ASSUME \/ b.class = 0 /\ a.class = 3
                      \/ a.class >= b.class + 2 /\ CustodyBonus(a) >= CustodyBonus(b)
               PROVE  Outranks(a, b, now)
    BY <1>1
  <2>1. (10 * a.class * Weight(a, now) + 15 + 9 * CustodyBonus(a) * Weight(a, now))
            * Weight(b, now)
          > (10 * b.class * Weight(b, now) + 15 + 9 * CustodyBonus(b) * Weight(b, now))
            * Weight(a, now)
    BY <1>2, <1>3, KeyGap
  <2> QED
    BY <2>1 DEF Outranks, Key
<1> QED
  BY <1>4 DEF Housekeeping, Command, a, b

\* Urgency and custody reorder neighbouring classes only.
THEOREM ServiceOrder == Spec => NoDeepInversion
<1>1. IInv /\ [Next]_vars =>
        [last'.op = "pop" =>
           \A i \in DOMAIN slots :
             LET b == last'.bundle
             IN  /\ ~(b.class = Housekeeping /\ slots[i].class = Command)
                 /\ ~(/\ slots[i].class >= b.class + 2
                      /\ CustodyBonus(slots[i]) >= CustodyBonus(b))]_vars
  <2> SUFFICES ASSUME IInv, Next, last'.op = "pop", NEW i \in DOMAIN slots
               PROVE  LET b == last'.bundle
                      IN  /\ ~(b.class = Housekeeping /\ slots[i].class = Command)
                          /\ ~(/\ slots[i].class >= b.class + 2
                               /\ CustodyBonus(slots[i]) >= CustodyBonus(b))
    OBVIOUS
  <2>1. CASE PopNext
    <3>1. PICK j \in BestSlots(slots, now) : last' = [op |-> "pop", bundle |-> slots[j]]
      BY <2>1 DEF PopNext, PopOutcomes
    <3> QED
      BY <3>1, PopOrder
  <2>2. CASE \E b \in Bundles : Enqueue(b)
    BY <2>2 DEF Enqueue
  <2>3. CASE \E b \in Bundles : Dequeue(b.id)
    BY <2>3 DEF Dequeue
  <2>4. CASE Elapse
    BY <2>4 DEF Elapse, NoCall
  <2> QED
    BY <2>1, <2>2, <2>3, <2>4 DEF Next
<1> QED
  BY <1>1, Invariant, PTL DEF Spec, NoDeepInversion
=============================================================================
