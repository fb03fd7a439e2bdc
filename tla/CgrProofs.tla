------------------------------ MODULE CgrProofs -----------------------------
(***************************************************************************)
(* The route search returns routes that can be travelled, and the cheapest *)
(* of those it met, for every plan, bundle, beam and hop limit; and its    *)
(* prunings lose no route but for one that arrives no later and loses no   *)
(* more.                                                                   *)
(*                                                                         *)
(* A path of BundleMaxHops + 1 contacts is expanded, but a route holds     *)
(* only BundleMaxHops of them: it would be returned without its last hop.  *)
(* No call returns it, for a reason that lies in the other defect of the   *)
(* search: such a path meets more nodes than the frontier table has        *)
(* entries, and at the first node without one the search pushes the same   *)
(* frame for ever.  The invariant below says that every route found is     *)
(* sound or the search is `Stuck` in this way, and that it stays so.       *)
(*                                                                         *)
(* `Coverage`, in the second half, holds as long as the search is not      *)
(* stuck: whatever is reached over a contact the search has passed was met *)
(* as early and with as small a loss.                                      *)
(***************************************************************************)
EXTENDS Cgr, FiniteSetTheorems, WellFoundedInduction, TLAPS

Frames == [contact : DOMAIN plan, t_arrive : Int, visited : SUBSET Nat,
           rest : SUBSET (DOMAIN plan)]

Candidates == [hops : Seq(DOMAIN plan) \ {<<>>}, arrival : Int, cost : Int]

Types ==
  /\ plan \in Seq(ContactType) /\ bundle \in BundleType /\ now \in Int
  /\ max_hops \in 1 .. BundleMaxHops
  /\ pc \in {"seed", "expand", "done", "corrupt"}
  /\ seeds \subseteq FromNode(plan, bundle.curr)
  /\ stack \in Seq(Frames)
  /\ (pc = "expand") <=> (stack # <<>> /\ pc # "corrupt")
  /\ Len(stack) <= max_hops + 1
  /\ \A n \in DOMAIN stack : stack[n].rest \subseteq FromNode(plan, plan[stack[n].contact].to)
  /\ beam \in Seq(found) /\ Len(beam) <= BeamCap
  /\ found \subseteq Candidates
  /\ IsFiniteSet(DOMAIN frontier) /\ Cardinality(DOMAIN frontier) <= FrontierNodes

-----------------------------------------------------------------------------
(* The path on the stack *)

\* a hop of the path: its contact leaves the node the bundle is at, and is crossed in time
Hop(frame, node, arrival) ==
  /\ frame.contact \in FromNode(plan, node)
  /\ HopFits(plan[frame.contact], bundle, arrival)
  /\ frame.t_arrive = HopArrival(plan[frame.contact], bundle, arrival)

PathSound ==
  \A n \in DOMAIN stack :
    IF n = 1 THEN Hop(stack[1], bundle.curr, now)
             ELSE Hop(stack[n], plan[stack[n - 1].contact].to, stack[n - 1].t_arrive)

\* as many nodes visited as contacts, the node of the bundle among them
VisitedSound ==
  \A n \in DOMAIN stack :
    /\ IsFiniteSet(stack[n].visited) /\ Cardinality(stack[n].visited) = n
    /\ bundle.curr \in stack[n].visited

-----------------------------------------------------------------------------
(* The search that does not end *)

Full == Cardinality(DOMAIN frontier) = FrontierNodes

\* Whenever it is on top, the frame pushes the contact it looks at: the node it
\* leads to has no entry in the table and will not get one.
Repeats(frame) ==
  /\ frame.rest # {}
  /\ LET c == plan[Min(frame.rest)]
     IN  /\ c.to \notin frame.visited /\ c.to # bundle.dst /\ c.to \notin DOMAIN frontier
         /\ HopFits(c, bundle, frame.t_arrive)

Stuck == Full /\ \E n \in DOMAIN stack : n <= max_hops /\ Repeats(stack[n])

\* as long as the search is not stuck, the nodes of the path are in the table
NodesTracked ==
  ~Stuck => \A n \in DOMAIN stack : stack[n].visited \ {bundle.curr} \subseteq DOMAIN frontier

-----------------------------------------------------------------------------
(* What was found *)

Sound(r) == /\ IsRoute(plan, r.hops, bundle, now)
            /\ r.arrival = Arrival(plan, r.hops, bundle, now)

FoundSound == \A r \in found : Sound(r) \/ Stuck

\* no route found is cheaper than all that the beam holds
CheapestKept == \A r \in found : \E k \in DOMAIN beam : beam[k].cost <= r.cost

Returned ==
  pc = "done" => /\ seeds = {}
                 /\ result = IF beam = <<>> THEN NoRoute ELSE beam[Best(beam)]

IInv == /\ Types /\ PathSound /\ VisitedSound /\ NodesTracked
        /\ FoundSound /\ CheapestKept /\ Returned
-----------------------------------------------------------------------------
(* Numbers and tables *)

\* A set of natural numbers that is not empty has a least element.
LEMMA LeastNumber ==
  ASSUME NEW S \in SUBSET Nat, S # {}
  PROVE  \E m \in S : \A k \in S : m <= k
<1>1. PICK m \in S : \A k \in S : <<k, m>> \notin OpToRel(<, Nat)
  BY WFMin, NatLessThanWellFounded, Zenon
<1>2. \A k \in S : ~(k < m)
  BY <1>1, Zenon DEF OpToRel
<1> QED
  BY <1>2

\* What holds of 0 and passes on to the next number holds of every number.
LEMMA SetInduction ==
  ASSUME NEW S \in SUBSET Nat, 0 \in S, \A n \in Nat : n \in S => n + 1 \in S
  PROVE  \A n \in Nat : n \in S
<1> SUFFICES ASSUME Nat \ S # {}
             PROVE  FALSE
  OBVIOUS
<1>1. PICK m \in Nat \ S : \A k \in Nat \ S : m <= k
  BY LeastNumber
<1>2. m # 0 /\ m - 1 \in Nat /\ m - 1 \in S
  BY <1>1
<1>3. (m - 1) + 1 = m
  BY <1>2
<1> QED
  BY <1>1, <1>2, <1>3

\* Every table of integers has a first entry that none exceeds.
LEMMA LargestEntry ==
  ASSUME NEW n \in Nat, n > 0, NEW c \in [1 .. n -> Int]
  PROVE  \E i \in 1 .. n : \A j \in 1 .. n : c[j] < c[i] \/ (c[j] = c[i] /\ i <= j)
<1> DEFINE First(i, m) == \A j \in 1 .. m : c[j] < c[i] \/ (c[j] = c[i] /\ i <= j)
           S == {m \in Nat : m \in 1 .. n => \E i \in 1 .. m : First(i, m)}
<1>1. 0 \in S
  OBVIOUS
<1>2. ASSUME NEW m \in Nat, m \in S
      PROVE  m + 1 \in S
  <2>1. CASE m = 0
    <3>1. First(1, 1)
      OBVIOUS
    <3> QED
      BY <2>1, <3>1
  <2>2. CASE m # 0 /\ m + 1 <= n
    <3>1. PICK i \in 1 .. m : First(i, m)
      BY <1>2, <2>2
    <3>2. c[i] \in Int /\ c[m + 1] \in Int /\ \A j \in 1 .. m : c[j] \in Int
      BY <2>2
    <3>3. CASE c[m + 1] > c[i]
      <4>1. First(m + 1, m + 1)
        BY <3>1, <3>2, <3>3
      <4> QED
        BY <4>1
    <3>4. CASE ~(c[m + 1] > c[i])
      <4>1. First(i, m + 1)
        BY <3>1, <3>2, <3>4
      <4> QED
        BY <4>1
    <3> QED
      BY <3>3, <3>4
  <2> QED
    BY <2>1, <2>2
<1>3. n \in S
  <2>1. S \in SUBSET Nat
    OBVIOUS
  <2> HIDE DEF S
  <2> QED
    BY <1>1, <1>2, <2>1, SetInduction
<1> QED
  BY <1>3

\* ... and a first entry that exceeds none.
LEMMA SmallestEntry ==
  ASSUME NEW n \in Nat, n > 0, NEW c \in [1 .. n -> Int]
  PROVE  \E i \in 1 .. n : \A j \in 1 .. n : c[i] < c[j] \/ (c[j] = c[i] /\ i <= j)
<1> DEFINE d == [i \in 1 .. n |-> -c[i]]
<1>1. d \in [1 .. n -> Int]
  OBVIOUS
<1>2. PICK i \in 1 .. n : \A j \in 1 .. n : d[j] < d[i] \/ (d[j] = d[i] /\ i <= j)
  <2> HIDE DEF d
  <2> QED
    BY <1>1, LargestEntry
<1>3. ASSUME NEW j \in 1 .. n
      PROVE  c[i] < c[j] \/ (c[j] = c[i] /\ i <= j)
  <2>1. c[i] \in Int /\ c[j] \in Int /\ d[i] = -c[i] /\ d[j] = -c[j]
    OBVIOUS
  <2> HIDE DEF d
  <2> QED
    BY <1>2, <2>1
<1> QED
  BY <1>3

\* f is the table that starts with t and goes on by the functions in g.
Follows(f, t, g, n) == f[0] = t /\ \A k \in 1 .. n : f[k] = g[k][f[k - 1]]

\* Such a table exists, and has its entries where the functions have theirs.
LEMMA TableDefined ==
  ASSUME NEW V, NEW t \in V, NEW n \in Nat, NEW g \in [1 .. n -> [V -> V]]
  PROVE  \E f \in [0 .. n -> V] : Follows(f, t, g, n)
<1> DEFINE S == {m \in Nat : m <= n => \E f \in [0 .. m -> V] : Follows(f, t, g, m)}
<1>1. 0 \in S
  <2>1. [k \in 0 .. 0 |-> t] \in [0 .. 0 -> V] /\ Follows([k \in 0 .. 0 |-> t], t, g, 0)
    BY DEF Follows
  <2> QED
    BY <2>1
<1>2. ASSUME NEW m \in Nat, m \in S
      PROVE  m + 1 \in S
  <2>1. CASE m + 1 <= n
    <3>1. PICK f \in [0 .. m -> V] : Follows(f, t, g, m)
      BY <1>2, <2>1
    <3> DEFINE h == [k \in 0 .. m + 1 |-> IF k = m + 1 THEN g[m + 1][f[m]] ELSE f[k]]
    <3>2. h \in [0 .. m + 1 -> V]
      <4>1. g[m + 1][f[m]] \in V
        BY <2>1
      <4>2. \A k \in 0 .. m + 1 : k # m + 1 => f[k] \in V
        OBVIOUS
      <4> QED
        BY <4>1, <4>2
    <3>3. h[0] = t
      BY <3>1 DEF Follows
    <3>4. ASSUME NEW k \in 1 .. m + 1
          PROVE  h[k] = g[k][h[k - 1]]
      <4>1. k - 1 \in 0 .. m /\ k - 1 # m + 1 /\ h[k - 1] = f[k - 1]
        OBVIOUS
      <4>2. CASE k = m + 1
        BY <4>1, <4>2
      <4>3. CASE k # m + 1
        <5>1. k \in 1 .. m /\ h[k] = f[k]
          BY <4>3
        <5> QED
          BY <3>1, <4>1, <5>1 DEF Follows
      <4> QED
        BY <4>2, <4>3
    <3>5. Follows(h, t, g, m + 1)
      <4> HIDE DEF h
      <4> QED
        BY <3>3, <3>4 DEF Follows
    <3> HIDE DEF h
    <3> QED
      BY <3>2, <3>5
  <2> QED
    BY <2>1
<1>3. n \in S
  <2>1. S \in SUBSET Nat
    OBVIOUS
  <2> HIDE DEF S
  <2> QED
    BY <1>1, <1>2, <2>1, SetInduction
<1> QED
  BY <1>3

LEMMA EntryBefore ==
  ASSUME NEW V, NEW n \in Nat, NEW f \in [0 .. n -> V]
  PROVE  \A k \in 1 .. n : k - 1 \in 0 .. n /\ f[k - 1] \in V
OBVIOUS

Passes(f, h, n) == f[0] = h[0] /\ \A k \in 1 .. n : f[k - 1] = h[k - 1] => f[k] = h[k]

\* Two tables that start alike and go on alike are alike.
LEMMA TablesAgree ==
  ASSUME NEW n \in Nat, NEW f, NEW h, Passes(f, h, n)
  PROVE  \A k \in 0 .. n : f[k] = h[k]
<1> DEFINE S == {k \in Nat : k <= n => f[k] = h[k]}
<1>1. 0 \in S
  BY DEF Passes
<1>2. ASSUME NEW k \in Nat, k \in S
      PROVE  k + 1 \in S
  <2>1. CASE k + 1 <= n
    <3>1. k + 1 \in 1 .. n /\ (k + 1) - 1 = k /\ f[k] = h[k]
      BY <1>2, <2>1
    <3>2. f[k + 1] = h[k + 1]
      BY <3>1 DEF Passes
    <3> QED
      BY <3>2
  <2> QED
    BY <2>1
<1>3. \A k \in Nat : k \in S
  <2>1. S \in SUBSET Nat
    OBVIOUS
  <2> HIDE DEF S
  <2> QED
    BY <1>1, <1>2, <2>1, SetInduction
<1> QED
  BY <1>3
-----------------------------------------------------------------------------
(* Arrivals and costs *)

\* The timing and the margin of a hop are integers.
LEMMA HopType ==
  ASSUME NEW c \in ContactType, NEW b \in BundleType, NEW t \in Int
  PROVE  HopArrival(c, b, t) \in Int /\ HopMargin(c, b, t) \in Int
<1>1. /\ c.t_start \in Int /\ c.t_end \in Int /\ c.rate \in Nat /\ c.owlt \in Nat
      /\ c.bytes_used \in Nat /\ c.reserved \in Nat /\ b.size \in Nat
  BY DEF ContactType, BundleType
<1>2. EarliestStart(c, t) \in Int
  BY <1>1 DEF EarliestStart
<1>3. TxDuration(c, b.size) \in Int
  <2>1. c.rate > 0 => b.size \div c.rate \in Int
    BY <1>1
  <2> QED
    BY <2>1 DEF TxDuration, Never
<1>4. HopArrival(c, b, t) \in Int
  BY <1>1, <1>2, <1>3 DEF HopArrival, ArrivalAtReceiver
<1>5. ASSUME NEW s \in Int
      PROVE  CapUse(c, s) \in Int
  <2>1. \A left \in Int : c.rate * left \in Int
    BY <1>1
  <2>2. (IF s < c.t_end THEN c.t_end - s ELSE 0) \in Int
    BY <1>1
  <2> QED
    BY <1>1, <2>1, <2>2 DEF CapUse, CapRem
<1> QED
  BY <1>1, <1>2, <1>4, <1>5 DEF HopMargin

\* the table at starts with t and holds the arrivals along the route
ArrivalTable(at, p, route, b, t) ==
  /\ at = [n \in 0 .. Len(route) |-> at[n]]
  /\ at[0] = t
  /\ \A n \in 1 .. Len(route) : at[n] = HopArrival(p[route[n]], b, at[n - 1])

\* There is only one such table.
LEMMA ArrivalsAre ==
  ASSUME NEW p, NEW route, Len(route) \in Nat, NEW b, NEW t,
         NEW at, ArrivalTable(at, p, route, b, t)
  PROVE  Arrivals(p, route, b, t) = at
<1> DEFINE Rec(f) == f = [n \in 0 .. Len(route) |->
                            IF n = 0 THEN t ELSE HopArrival(p[route[n]], b, f[n - 1])]
           c == CHOOSE f : Rec(f)
<1>1. Arrivals(p, route, b, t) = c
  BY DEF Arrivals
<1>2. Rec(at)
  <2>1. \A n \in 0 .. Len(route) :
          at[n] = IF n = 0 THEN t ELSE HopArrival(p[route[n]], b, at[n - 1])
    <3>1. at[0] = t /\ \A n \in 1 .. Len(route) : at[n] = HopArrival(p[route[n]], b, at[n - 1])
      BY DEF ArrivalTable
    <3>2. \A n \in 0 .. Len(route) : n # 0 => n \in 1 .. Len(route)
      OBVIOUS
    <3> QED
      BY <3>1, <3>2
  <2>2. at = [n \in 0 .. Len(route) |-> at[n]]
    BY DEF ArrivalTable
  <2> QED
    BY <2>1, <2>2
<1>3. Rec(c)
  BY <1>2
<1>4. /\ c = [n \in 0 .. Len(route) |-> c[n]] /\ c[0] = t
      /\ \A n \in 1 .. Len(route) : c[n] = HopArrival(p[route[n]], b, c[n - 1])
  <2> HIDE DEF c
  <2>1. \A n \in 0 .. Len(route) :
          c[n] = IF n = 0 THEN t ELSE HopArrival(p[route[n]], b, c[n - 1])
    BY <1>3
  <2>2. c = [n \in 0 .. Len(route) |-> c[n]]
    BY <1>3, <2>1
  <2> QED
    BY <2>1, <2>2
<1>5. Passes(at, c, Len(route))
  <2> HIDE DEF c
  <2> QED
    BY <1>4 DEF Passes, ArrivalTable
<1>6. \A n \in 0 .. Len(route) : at[n] = c[n]
  <2> HIDE DEF c
  <2> QED
    BY <1>5, TablesAgree
<1>7. c = at
  <2> HIDE DEF c
  <2> QED
    BY <1>4, <1>6 DEF ArrivalTable
<1> QED
  BY <1>1, <1>7

LEMMA RouteShape ==
  ASSUME NEW p \in Seq(ContactType), NEW route \in Seq(DOMAIN p)
  PROVE  /\ Len(route) \in Nat /\ DOMAIN route = 1 .. Len(route)
         /\ \A n \in 1 .. Len(route) : route[n] \in DOMAIN p /\ p[route[n]] \in ContactType
<1> DEFINE D == DOMAIN p
<1>1. \A i \in D : p[i] \in ContactType
  OBVIOUS
<1>2. route \in Seq(D)
  OBVIOUS
<1>3. /\ Len(route) \in Nat /\ DOMAIN route = 1 .. Len(route)
      /\ \A n \in 1 .. Len(route) : route[n] \in D
  <2> HIDE DEF D
  <2> QED
    BY <1>2
<1> QED
  BY <1>1, <1>3

\* The arrivals along any sequence of contacts are integers.
LEMMA ArrivalsType ==
  ASSUME NEW p \in Seq(ContactType), NEW route \in Seq(DOMAIN p), NEW b \in BundleType,
         NEW t \in Int
  PROVE  /\ Arrivals(p, route, b, t) \in [0 .. Len(route) -> Int]
         /\ ArrivalTable(Arrivals(p, route, b, t), p, route, b, t)
<1>0. /\ Len(route) \in Nat /\ DOMAIN route = 1 .. Len(route)
      /\ \A n \in 1 .. Len(route) : p[route[n]] \in ContactType
  BY RouteShape
<1> DEFINE g == [n \in 1 .. Len(route) |-> [x \in Int |-> HopArrival(p[route[n]], b, x)]]
<1>1. g \in [1 .. Len(route) -> [Int -> Int]]
  BY <1>0, HopType
<1>2. PICK at \in [0 .. Len(route) -> Int] : Follows(at, t, g, Len(route))
  <2> HIDE DEF g
  <2> QED
    BY <1>0, <1>1, TableDefined
<1>3. ArrivalTable(at, p, route, b, t)
  <2>1. \A n \in 1 .. Len(route) : n - 1 \in 0 .. Len(route) /\ at[n - 1] \in Int
    BY <1>0, EntryBefore
  <2>2. \A n \in 1 .. Len(route) : at[n] = HopArrival(p[route[n]], b, at[n - 1])
    BY <1>2, <2>1 DEF Follows
  <2> QED
    BY <1>2, <2>2 DEF ArrivalTable, Follows
<1>4. Arrivals(p, route, b, t) = at
  BY <1>0, <1>3, ArrivalsAre
<1> QED
  BY <1>3, <1>4

\* the table of the losses up to each contact of the route
LossTable(sums, p, route) ==
  /\ sums \in [0 .. Len(route) -> Int]
  /\ sums[0] = 0
  /\ \A n \in 1 .. Len(route) : sums[n] = sums[n - 1] + p[route[n]].loss

LEMMA LossTableExists ==
  ASSUME NEW p \in Seq(ContactType), NEW route \in Seq(DOMAIN p)
  PROVE  \E sums : LossTable(sums, p, route)
<1>0. /\ Len(route) \in Nat
      /\ \A n \in 1 .. Len(route) : p[route[n]] \in ContactType
  BY RouteShape
<1> DEFINE g == [n \in 1 .. Len(route) |-> [x \in Int |-> x + p[route[n]].loss]]
<1>1. \A n \in 1 .. Len(route) : p[route[n]].loss \in Int
  <2>1. \A c \in ContactType : c.loss \in Int
    BY DEF ContactType
  <2> QED
    BY <1>0, <2>1
<1>2. g \in [1 .. Len(route) -> [Int -> Int]]
  BY <1>1
<1>3. PICK sums \in [0 .. Len(route) -> Int] : Follows(sums, 0, g, Len(route))
  <2>1. 0 \in Int
    OBVIOUS
  <2> HIDE DEF g
  <2> QED
    BY <1>0, <1>2, <2>1, TableDefined, Zenon
<1>4. ASSUME NEW n \in 1 .. Len(route)
      PROVE  sums[n] = sums[n - 1] + p[route[n]].loss
  <2>1. sums[n] = g[n][sums[n - 1]]
    BY <1>3 DEF Follows
  <2>2. sums[n - 1] \in Int
    BY <1>0, <1>3, EntryBefore
  <2> QED
    BY <2>1, <2>2
<1> HIDE DEF g
<1>5. sums[0] = 0
  BY <1>3 DEF Follows
<1> QED
  BY <1>3, <1>4, <1>5 DEF LossTable

LEMMA LossIs ==
  ASSUME NEW p, NEW route, Len(route) \in Nat, NEW sums, LossTable(sums, p, route)
  PROVE  Loss(p, route) = sums[Len(route)]
<1> DEFINE Rec(f) == f = [n \in 0 .. Len(route) |->
                            IF n = 0 THEN 0 ELSE f[n - 1] + p[route[n]].loss]
           c == CHOOSE f : Rec(f)
<1>1. Loss(p, route) = c[Len(route)]
  BY DEF Loss
<1>2. Rec(sums)
  <2>1. \A n \in 0 .. Len(route) :
          sums[n] = IF n = 0 THEN 0 ELSE sums[n - 1] + p[route[n]].loss
    <3>1. \A n \in 0 .. Len(route) : n # 0 => n \in 1 .. Len(route)
      OBVIOUS
    <3> QED
      BY <3>1 DEF LossTable
  <2>2. sums = [n \in 0 .. Len(route) |-> sums[n]]
    BY DEF LossTable
  <2> QED
    BY <2>1, <2>2
<1>3. Rec(c)
  BY <1>2
<1>4. Passes(sums, c, Len(route))
  <2>1. \A n \in 0 .. Len(route) : c[n] = IF n = 0 THEN 0 ELSE c[n - 1] + p[route[n]].loss
    <3> HIDE DEF c
    <3> QED
      BY <1>3
  <2> HIDE DEF c
  <2> QED
    BY <2>1 DEF Passes, LossTable
<1>5. sums[Len(route)] = c[Len(route)]
  <2> HIDE DEF c
  <2> QED
    BY <1>4, TablesAgree
<1> QED
  BY <1>1, <1>5

\* So is the loss.
LEMMA LossType ==
  ASSUME NEW p \in Seq(ContactType), NEW route \in Seq(DOMAIN p)
  PROVE  Loss(p, route) \in Int
<1>1. PICK sums : LossTable(sums, p, route)
  BY LossTableExists
<1>2. Len(route) \in Nat /\ Loss(p, route) = sums[Len(route)]
  BY <1>1, LossIs
<1> QED
  BY <1>1, <1>2 DEF LossTable

\* So is the margin, ...
LEMMA MarginType ==
  ASSUME NEW p \in Seq(ContactType), NEW route \in Seq(DOMAIN p) \ {<<>>},
         NEW b \in BundleType, NEW t \in Int
  PROVE  Margin(p, route, b, t) \in Int
<1> DEFINE at == Arrivals(p, route, b, t)
           c == [n \in 1 .. Len(route) |-> HopMargin(p[route[n]], b, at[n - 1])]
           S == {HopMargin(p[route[n]], b, at[n - 1]) : n \in DOMAIN route}
<1>1. c \in [1 .. Len(route) -> Int]
  <2>1. \A n \in 1 .. Len(route) : p[route[n]] \in ContactType
    OBVIOUS
  <2>2. \A n \in 1 .. Len(route) : at[n - 1] \in Int
    <3>1. at \in [0 .. Len(route) -> Int]
      BY ArrivalsType
    <3> HIDE DEF at
    <3> QED
      BY <3>1
  <2> HIDE DEF at
  <2> QED
    BY <2>1, <2>2, HopType
<1>2. Len(route) \in Nat /\ Len(route) > 0 /\ DOMAIN route = 1 .. Len(route)
  OBVIOUS
<1>3. PICK i \in 1 .. Len(route) :
        \A j \in 1 .. Len(route) : c[i] < c[j] \/ (c[j] = c[i] /\ i <= j)
  <2> HIDE DEF c
  <2> QED
    BY <1>1, <1>2, SmallestEntry
<1>4. S = {c[n] : n \in 1 .. Len(route)}
  BY <1>2
<1>5. c[i] \in S /\ \A x \in S : c[i] <= x
  <2> HIDE DEF c, S
  <2> QED
    BY <1>1, <1>3, <1>4
<1>6. S \subseteq Int
  <2> HIDE DEF c, S
  <2> QED
    BY <1>1, <1>4
<1>7. Min(S) \in S
  <2> HIDE DEF c, S
  <2> QED
    BY <1>5 DEF Min
<1>8. Margin(p, route, b, t) = Min(S)
  BY DEF Margin
<1> QED
  <2> HIDE DEF S
  <2> QED
    BY <1>6, <1>7, <1>8

\* ... and the cost.
LEMMA CostType ==
  ASSUME NEW p \in Seq(ContactType), NEW route \in Seq(DOMAIN p) \ {<<>>},
         NEW b \in BundleType, NEW t \in Int
  PROVE  Arrival(p, route, b, t) \in Int /\ Cost(p, route, b, t) \in Int
<1>1. Arrival(p, route, b, t) \in Int
  <2>1. Arrivals(p, route, b, t) \in [0 .. Len(route) -> Int] /\ Len(route) \in 0 .. Len(route)
    BY ArrivalsType
  <2> QED
    BY <2>1 DEF Arrival
<1>2. Loss(p, route) \in Int /\ Margin(p, route, b, t) \in Int
  BY LossType, MarginType
<1> QED
  BY <1>1, <1>2 DEF Cost, LossFloor
-----------------------------------------------------------------------------
(* The beam *)

LEMMA WorstOf ==
  ASSUME NEW S, \A r \in S : r.cost \in Int, NEW routes \in Seq(S), routes # <<>>
  PROVE  /\ Worst(routes) \in DOMAIN routes
         /\ \A j \in DOMAIN routes : routes[j].cost <= routes[Worst(routes)].cost
<1> DEFINE c == [i \in 1 .. Len(routes) |-> routes[i].cost]
<1>1. Len(routes) \in Nat /\ Len(routes) > 0 /\ DOMAIN routes = 1 .. Len(routes)
  OBVIOUS
<1>2. \A i \in DOMAIN routes : routes[i].cost \in Int
  OBVIOUS
<1>3. c \in [1 .. Len(routes) -> Int]
  BY <1>1, <1>2
<1>4. PICK i \in 1 .. Len(routes) :
        \A j \in 1 .. Len(routes) : c[j] < c[i] \/ (c[j] = c[i] /\ i <= j)
  <2> HIDE DEF c
  <2> QED
    BY <1>1, <1>3, LargestEntry
<1>5. \A j \in DOMAIN routes :
        routes[j].cost < routes[i].cost \/ (routes[j].cost = routes[i].cost /\ i <= j)
  BY <1>1, <1>4
<1>6. /\ Worst(routes) \in DOMAIN routes
      /\ \A j \in DOMAIN routes : \/ routes[j].cost < routes[Worst(routes)].cost
                                  \/ routes[j].cost = routes[Worst(routes)].cost
  <2> HIDE DEF c
  <2> QED
    BY <1>1, <1>5, Zenon DEF Worst
<1> QED
  BY <1>2, <1>6

LEMMA BestOf ==
  ASSUME NEW S, \A r \in S : r.cost \in Int, NEW routes \in Seq(S), routes # <<>>
  PROVE  /\ Best(routes) \in DOMAIN routes
         /\ \A j \in DOMAIN routes : routes[Best(routes)].cost <= routes[j].cost
<1> DEFINE c == [i \in 1 .. Len(routes) |-> routes[i].cost]
<1>1. Len(routes) \in Nat /\ Len(routes) > 0 /\ DOMAIN routes = 1 .. Len(routes)
  OBVIOUS
<1>2. \A i \in DOMAIN routes : routes[i].cost \in Int
  OBVIOUS
<1>3. c \in [1 .. Len(routes) -> Int]
  BY <1>1, <1>2
<1>4. PICK i \in 1 .. Len(routes) :
        \A j \in 1 .. Len(routes) : c[i] < c[j] \/ (c[j] = c[i] /\ i <= j)
  <2> HIDE DEF c
  <2> QED
    BY <1>1, <1>3, SmallestEntry
<1>5. \A j \in DOMAIN routes :
        routes[i].cost < routes[j].cost \/ (routes[j].cost = routes[i].cost /\ i <= j)
  BY <1>1, <1>4
<1>6. /\ Best(routes) \in DOMAIN routes
      /\ \A j \in DOMAIN routes : \/ routes[Best(routes)].cost < routes[j].cost
                                  \/ routes[j].cost = routes[Best(routes)].cost
  <2> HIDE DEF c
  <2> QED
    BY <1>1, <1>5, Zenon DEF Best
<1> QED
  BY <1>2, <1>6

LEMMA MinOfTwo ==
  ASSUME NEW m \in Nat, NEW n \in Nat
  PROVE  Min({m, n}) = IF m <= n THEN m ELSE n
<1>1. \E x \in {m, n} : \A y \in {m, n} : x <= y
  OBVIOUS
<1>2. Min({m, n}) \in {m, n} /\ \A y \in {m, n} : Min({m, n}) <= y
  BY <1>1 DEF Min
<1> QED
  BY <1>2

\* A route offered is recorded with all its contacts if a route can hold them.
LEMMA CandidateType ==
  ASSUME Types, NEW route \in Seq(DOMAIN plan) \ {<<>>}
  PROVE  /\ Candidate(route) \in Candidates
         /\ Candidate(route).arrival = Arrival(plan, route, bundle, now)
         /\ Len(route) <= BundleMaxHops => Candidate(route).hops = route
<1> DEFINE D    == DOMAIN plan
           m    == Min({Len(route), BundleMaxHops})
           hops == SubSeq(route, 1, m)
<1>1. route \in Seq(D) /\ Len(route) \in Nat /\ Len(route) > 0
  OBVIOUS
<1>2. /\ m \in 1 .. Len(route)
      /\ Len(route) <= BundleMaxHops => m = Len(route)
  BY <1>1, MinOfTwo DEF BundleMaxHops
<1>3. /\ hops \in Seq(D) /\ Len(hops) = m
      /\ m = Len(route) => hops = route
  <2> HIDE DEF D, m
  <2> QED
    BY <1>1, <1>2
<1>4. hops \in Seq(D) \ {<<>>}
  <2> HIDE DEF D, m, hops
  <2> QED
    BY <1>2, <1>3
<1>5. /\ Arrival(plan, route, bundle, now) \in Int
      /\ Arrival(plan, hops, bundle, now) \in Int /\ Cost(plan, hops, bundle, now) \in Int
  <2> HIDE DEF m, hops
  <2> QED
    BY <1>4, CostType DEF Types
<1>6. Candidate(route) =
        [hops    |-> hops,
         arrival |-> Arrival(plan, route, bundle, now),
         cost    |-> Cost(plan, hops, bundle, now)
                       + 10 * (Arrival(plan, route, bundle, now)
                                 - Arrival(plan, hops, bundle, now))]
  BY DEF Candidate
<1> QED
  <2> HIDE DEF m, hops
  <2> QED
    BY <1>2, <1>3, <1>4, <1>5, <1>6 DEF Candidates

\* The beam has room or lets go of a route at least as dear as the one that
\* comes in its place.
LEMMA OfferKeeps ==
  ASSUME Types, CheapestKept, NEW route \in Seq(DOMAIN plan) \ {<<>>}, Offer(route)
  PROVE  /\ beam' \in Seq(found') /\ Len(beam') <= BeamCap
         /\ found' = found \cup {Candidate(route)} /\ found' \subseteq Candidates
         /\ CheapestKept'
<1> DEFINE r == Candidate(route)
<1>1. r \in Candidates /\ found' = found \cup {r} /\ beam' = BeamPush(r)
  BY CandidateType DEF Offer
<1>2. /\ found' \subseteq Candidates /\ r \in found' /\ found \subseteq found'
      /\ BeamCap \in Nat \ {0} /\ beam \in Seq(found')
      /\ Len(beam) \in Nat /\ Len(beam) <= BeamCap /\ DOMAIN beam = 1 .. Len(beam)
  BY <1>1, CapsAssumption DEF Types
<1>3. \A x \in found' : x.cost \in Int
  BY <1>2 DEF Candidates
<1> HIDE DEF r
<1>4. CASE Len(beam) < BeamCap
  <2>1. beam' = Append(beam, r)
    BY <1>1, <1>4 DEF BeamPush
  <2>2. /\ beam' \in Seq(found') /\ Len(beam') = Len(beam) + 1
        /\ beam'[Len(beam) + 1] = r
        /\ \A k \in DOMAIN beam : k \in DOMAIN beam' /\ beam'[k] = beam[k]
        /\ Len(beam) + 1 \in DOMAIN beam'
    BY <1>2, <2>1
  <2>3. CheapestKept'
    <3> SUFFICES ASSUME NEW x \in found'
                 PROVE  \E k \in DOMAIN beam' : beam'[k].cost <= x.cost
      BY DEF CheapestKept
    <3>1. CASE x = r
      BY <1>3, <2>2, <3>1
    <3>2. CASE x \in found
      BY <2>2, <3>2 DEF CheapestKept
    <3> QED
      BY <1>1, <3>1, <3>2
  <2> QED
    BY <1>1, <1>2, <1>4, <2>2, <2>3 DEF r
<1>5. CASE ~(Len(beam) < BeamCap)
  <2>1. Len(beam) = BeamCap /\ beam # <<>>
    <3>1. Len(beam) = BeamCap /\ Len(beam) # 0
      <4>1. /\ Len(beam) \in Nat /\ Len(beam) <= BeamCap
            /\ BeamCap \in Nat /\ BeamCap # 0
        BY <1>2
      <4> QED
        BY <1>5, <4>1
    <3>2. Len(<<>>) = 0
      OBVIOUS
    <3> QED
      BY <3>1, <3>2, Zenon
  <2> DEFINE w == Worst(beam)
  <2>2. w \in DOMAIN beam /\ \A j \in DOMAIN beam : beam[j].cost <= beam[w].cost
    BY <1>2, <1>3, <2>1, WorstOf
  <2>3. \A k \in DOMAIN beam : beam[k] \in found' /\ beam[k].cost \in Int
    BY <1>2, <1>3
  <2>4. beam' = IF r.cost < beam[w].cost THEN [beam EXCEPT ![w] = r] ELSE beam
    BY <1>1, <1>5 DEF BeamPush
  <2> HIDE DEF w
  <2>5. CASE r.cost < beam[w].cost
    <3>1. /\ beam' \in Seq(found') /\ Len(beam') = Len(beam) /\ DOMAIN beam' = DOMAIN beam
          /\ beam'[w] = r /\ \A k \in DOMAIN beam : k # w => beam'[k] = beam[k]
      BY <1>2, <2>2, <2>4, <2>5
    <3>2. CheapestKept'
      <4> SUFFICES ASSUME NEW x \in found'
                   PROVE  \E k \in DOMAIN beam' : beam'[k].cost <= x.cost
        BY DEF CheapestKept
      <4>1. CASE x = r
        BY <1>3, <2>2, <3>1, <4>1
      <4>2. CASE x \in found
        <5>1. PICK k \in DOMAIN beam : beam[k].cost <= x.cost
          BY <4>2 DEF CheapestKept
        <5>2. CASE k = w
          BY <1>2, <1>3, <2>2, <2>3, <2>5, <3>1, <5>1, <5>2
        <5>3. CASE k # w
          BY <3>1, <5>1, <5>3
        <5> QED
          BY <5>2, <5>3
      <4> QED
        BY <1>1, <4>1, <4>2
    <3> QED
      BY <1>1, <1>2, <2>1, <3>1, <3>2 DEF r
  <2>6. CASE ~(r.cost < beam[w].cost)
    <3>1. beam' = beam
      BY <2>4, <2>6
    <3>2. CheapestKept'
      <4> SUFFICES ASSUME NEW x \in found'
                   PROVE  \E k \in DOMAIN beam' : beam'[k].cost <= x.cost
        BY DEF CheapestKept
      <4>1. CASE x = r
        BY <1>2, <1>3, <2>2, <2>3, <2>6, <3>1, <4>1
      <4>2. CASE x \in found
        BY <3>1, <4>2 DEF CheapestKept
      <4> QED
        BY <1>1, <4>1, <4>2
    <3> QED
      BY <1>1, <1>2, <2>1, <3>1, <3>2 DEF r
  <2> QED
    BY <2>5, <2>6
<1> QED
  BY <1>4, <1>5
-----------------------------------------------------------------------------
(* The contacts looked at *)

LEMMA MinIn ==
  ASSUME NEW S \in SUBSET Nat, S # {}
  PROVE  Min(S) \in S
<1>1. \E x \in S : \A y \in S : x <= y
  BY LeastNumber
<1> QED
  BY <1>1 DEF Min

LEMMA PlanShape ==
  ASSUME Types
  PROVE  /\ DOMAIN plan \subseteq Nat
         /\ \A i \in DOMAIN plan : plan[i] \in ContactType /\ plan[i].to \in Nat
         /\ \A node : FromNode(plan, node) \subseteq DOMAIN plan
<1>1. plan \in Seq(ContactType)
  BY DEF Types
<1>2. DOMAIN plan \subseteq Nat /\ \A i \in DOMAIN plan : plan[i] \in ContactType
  BY <1>1
<1>3. \A c \in ContactType : c.to \in Nat
  BY DEF ContactType
<1> QED
  BY <1>2, <1>3 DEF FromNode

LEMMA StackShape ==
  ASSUME Types
  PROVE  /\ Len(stack) \in Nat /\ DOMAIN stack = 1 .. Len(stack)
         /\ \A n \in 1 .. Len(stack) :
              /\ stack[n] \in Frames
              /\ stack[n].contact \in DOMAIN plan /\ stack[n].t_arrive \in Int
              /\ stack[n].visited \subseteq Nat
              /\ stack[n].rest \subseteq FromNode(plan, plan[stack[n].contact].to)
<1>1. stack \in Seq(Frames)
  BY DEF Types
<1>2. Len(stack) \in Nat /\ DOMAIN stack = 1 .. Len(stack)
      /\ \A n \in 1 .. Len(stack) : stack[n] \in Frames
  BY <1>1
<1>3. \A f \in Frames : f.contact \in DOMAIN plan /\ f.t_arrive \in Int /\ f.visited \subseteq Nat
  BY DEF Frames
<1> QED
  BY <1>2, <1>3 DEF Types

LEMMA SeedShape ==
  ASSUME Types, seeds # {}
  PROVE  Seed \in seeds /\ Seed \in FromNode(plan, bundle.curr) /\ Seed \in DOMAIN plan
<1>1. seeds \subseteq FromNode(plan, bundle.curr) /\ seeds \in SUBSET Nat
  BY PlanShape DEF Types
<1>2. Seed \in seeds
  BY <1>1, MinIn DEF Seed
<1> QED
  BY <1>1, <1>2, PlanShape

\* While the search expands, its top frame looks at a contact that leaves the
\* node the frame's own contact leads to.
LEMMA TopShape ==
  ASSUME Types, pc = "expand"
  PROVE  /\ Len(stack) \in 1 .. max_hops + 1 /\ Top = stack[Len(stack)] /\ Top \in Frames
         /\ Top.rest # {} => /\ Current \in Top.rest /\ Current \in DOMAIN plan
                             /\ Current \in FromNode(plan, plan[Top.contact].to)
<1>1. stack # <<>> /\ Len(stack) <= max_hops + 1 /\ max_hops \in Nat
  BY DEF Types
<1>2. Len(stack) \in 1 .. max_hops + 1 /\ Len(stack) \in 1 .. Len(stack)
  <2>1. Len(stack) # 0
    BY <1>1 DEF Types
  <2> QED
    BY <1>1, <2>1, StackShape
<1>3. Top \in Frames /\ Top.rest \subseteq FromNode(plan, plan[Top.contact].to)
  BY <1>2, StackShape DEF Top
<1>4. Top.rest # {} => Current \in Top.rest
  <2>1. Top.rest \in SUBSET Nat
    BY <1>3, PlanShape
  <2> QED
    BY <2>1, MinIn DEF Current
<1>5. FromNode(plan, plan[Top.contact].to) \subseteq DOMAIN plan
  BY PlanShape
<1> QED
  BY <1>2, <1>3, <1>4, <1>5 DEF Top

-----------------------------------------------------------------------------
(* The routes offered *)

\* A table of times along a chain of hops that are all crossed makes it a route.
LEMMA ChainIsRoute ==
  ASSUME Types, NEW route \in Seq(DOMAIN plan), Len(route) > 0,
         NEW at, ArrivalTable(at, plan, route, bundle, now),
         plan[route[1]].frm = bundle.curr,
         \A n \in 1 .. Len(route) - 1 : plan[route[n]].to = plan[route[n + 1]].frm,
         plan[route[Len(route)]].to = bundle.dst,
         \A n \in 1 .. Len(route) : HopFits(plan[route[n]], bundle, at[n - 1])
  PROVE  IsRoute(plan, route, bundle, now)
<1>1. Len(route) \in Nat /\ DOMAIN route = 1 .. Len(route) /\ route # <<>>
  <2>1. plan \in Seq(ContactType)
    BY DEF Types
  <2>2. route = <<>> => Len(route) = 0
    OBVIOUS
  <2> QED
    BY <2>1, <2>2, RouteShape
<1>2. Arrivals(plan, route, bundle, now) = at
  BY <1>1, ArrivalsAre
<1> QED
  BY <1>1, <1>2 DEF IsRoute, Connected, Crossable, Last

\* A seed that leads to the destination.
LEMMA SeedIsRoute ==
  ASSUME Types, seeds # {}, HopFits(plan[Seed], bundle, now), plan[Seed].to = bundle.dst
  PROVE  <<Seed>> \in Seq(DOMAIN plan) \ {<<>>} /\ IsRoute(plan, <<Seed>>, bundle, now)
<1> DEFINE at == [n \in 0 .. 1 |-> IF n = 0 THEN now ELSE HopArrival(plan[Seed], bundle, now)]
           route == <<Seed>>
<1>1. Seed \in DOMAIN plan /\ plan[Seed].frm = bundle.curr
  BY SeedShape DEF FromNode
<1>2. route \in Seq(DOMAIN plan) /\ Len(route) = 1 /\ route[1] = Seed /\ route # <<>>
  BY <1>1
<1>3. at[0] = now /\ at[1] = HopArrival(plan[Seed], bundle, now) /\ at = [n \in 0 .. 1 |-> at[n]]
  OBVIOUS
<1> HIDE DEF at, route
<1>4. \A n \in 1 .. Len(route) : n = 1 /\ n - 1 = 0
  BY <1>2
<1>5. ArrivalTable(at, plan, route, bundle, now)
  BY <1>2, <1>3, <1>4 DEF ArrivalTable
<1>6. \A n \in 1 .. Len(route) : HopFits(plan[route[n]], bundle, at[n - 1])
  BY <1>2, <1>3, <1>4
<1>7. Len(route) > 0 /\ \A n \in 1 .. Len(route) - 1 : plan[route[n]].to = plan[route[n + 1]].frm
  BY <1>2
<1>8. plan[route[1]].frm = bundle.curr /\ plan[route[Len(route)]].to = bundle.dst
  BY <1>1, <1>2
<1>9. IsRoute(plan, route, bundle, now)
  BY <1>2, <1>5, <1>6, <1>7, <1>8, ChainIsRoute
<1> QED
  BY <1>2, <1>9 DEF route

\* The path on the stack with an admissible contact to the destination.
LEMMA PathIsRoute ==
  ASSUME Types, PathSound, Expanding, Admissible, plan[Current].to = bundle.dst
  PROVE  /\ Path \in Seq(DOMAIN plan) \ {<<>>} /\ Len(Path) = Len(stack) + 1
         /\ IsRoute(plan, Path, bundle, now)
         /\ Arrival(plan, Path, bundle, now) = HopArrival(plan[Current], bundle, Top.t_arrive)
<1> DEFINE D  == DOMAIN plan
           L  == Len(stack)
           cs == [n \in DOMAIN stack |-> stack[n].contact]
           at == [n \in 0 .. L + 1 |-> IF n = 0 THEN now
                                       ELSE IF n = L + 1
                                       THEN HopArrival(plan[Current], bundle, Top.t_arrive)
                                       ELSE stack[n].t_arrive]
<1>1. /\ L \in Nat /\ L > 0 /\ Top = stack[L]
      /\ Current \in D /\ Current \in FromNode(plan, plan[stack[L].contact].to)
      /\ HopFits(plan[Current], bundle, stack[L].t_arrive)
  BY TopShape DEF Expanding, Exhausted, Admissible
<1>2. DOMAIN stack = 1 .. L /\ \A n \in 1 .. L : stack[n].contact \in D
  BY StackShape
<1>3. cs \in Seq(D) /\ Len(cs) = L /\ \A n \in 1 .. L : cs[n] = stack[n].contact
  <2> HIDE DEF D, L
  <2>1. cs \in [1 .. L -> D]
    BY <1>2
  <2> QED
    BY <1>1, <1>2, <2>1
<1>4. Path = Append(cs, Current)
  BY DEF Path
<1> HIDE DEF cs, D
<1>5. /\ Path \in Seq(D) /\ Len(Path) = L + 1 /\ Path # <<>> /\ Path[L + 1] = Current
      /\ \A n \in 1 .. L : Path[n] = stack[n].contact
  BY <1>1, <1>3, <1>4
<1>6. /\ at[0] = now /\ at[L + 1] = HopArrival(plan[Current], bundle, stack[L].t_arrive)
      /\ \A n \in 1 .. L : at[n] = stack[n].t_arrive
      /\ at = [n \in 0 .. L + 1 |-> at[n]]
  <2> HIDE DEF L
  <2> QED
    BY <1>1
<1> HIDE DEF at, L
<1>7. \A n \in 1 .. L : IF n = 1 THEN Hop(stack[1], bundle.curr, now)
                        ELSE Hop(stack[n], plan[stack[n - 1].contact].to, stack[n - 1].t_arrive)
  BY <1>2 DEF PathSound
<1>8. ASSUME NEW n \in 1 .. L + 1
      PROVE  /\ at[n] = HopArrival(plan[Path[n]], bundle, at[n - 1])
             /\ HopFits(plan[Path[n]], bundle, at[n - 1])
             /\ n # 1 => plan[Path[n]].frm = plan[Path[n - 1]].to
             /\ n = 1 => plan[Path[n]].frm = bundle.curr
  <2>1. CASE n = L + 1
    <3>1. n - 1 = L /\ L \in 1 .. L /\ n # 1
      BY <1>1, <2>1
    <3> QED
      BY <1>1, <1>5, <1>6, <2>1, <3>1 DEF FromNode
  <2>2. CASE n # L + 1 /\ n = 1
    <3>1. 1 \in 1 .. L /\ n - 1 = 0
      BY <1>1, <2>2
    <3>2. Hop(stack[1], bundle.curr, now)
      BY <1>7, <3>1
    <3> QED
      BY <1>5, <1>6, <2>2, <3>1, <3>2 DEF Hop, FromNode
  <2>3. CASE n # L + 1 /\ n # 1
    <3>1. n \in 1 .. L /\ n - 1 \in 1 .. L
      BY <1>1, <2>3
    <3>2. Hop(stack[n], plan[stack[n - 1].contact].to, stack[n - 1].t_arrive)
      BY <1>7, <2>3, <3>1
    <3> QED
      BY <1>5, <1>6, <2>3, <3>1, <3>2 DEF Hop, FromNode
  <2> QED
    BY <2>1, <2>2, <2>3
<1>9. ArrivalTable(at, plan, Path, bundle, now)
  BY <1>5, <1>6, <1>8 DEF ArrivalTable
<1>10. ASSUME NEW n \in 1 .. Len(Path) - 1
       PROVE  plan[Path[n]].to = plan[Path[n + 1]].frm
  <2>1. n + 1 \in 1 .. L + 1 /\ n + 1 # 1 /\ (n + 1) - 1 = n
    BY <1>1, <1>5
  <2> QED
    BY <1>8, <2>1
<1>11. 1 \in 1 .. L + 1 /\ Len(Path) > 0
  BY <1>1, <1>5
<1>12. plan[Path[1]].frm = bundle.curr /\ plan[Path[Len(Path)]].to = bundle.dst
  BY <1>5, <1>8, <1>11
<1>13. \A n \in 1 .. Len(Path) : HopFits(plan[Path[n]], bundle, at[n - 1])
  BY <1>5, <1>8
<1>14. IsRoute(plan, Path, bundle, now)
  BY <1>5, <1>9, <1>10, <1>11, <1>12, <1>13, ChainIsRoute DEF D
<1>15. Arrival(plan, Path, bundle, now) = HopArrival(plan[Current], bundle, Top.t_arrive)
  BY <1>1, <1>5, <1>6, <1>9, ArrivalsAre DEF Arrival
<1> QED
  BY <1>5, <1>14, <1>15 DEF D, L

-----------------------------------------------------------------------------
(* What the steps share *)

SameArgs == plan' = plan /\ bundle' = bundle /\ now' = now /\ max_hops' = max_hops

LEMMA TypesKept ==
  ASSUME Types, SameArgs, pc' \in {"seed", "expand", "done", "corrupt"}, seeds' \subseteq seeds,
         stack' \in Seq(Frames), (pc' = "expand") <=> (stack' # <<>> /\ pc' # "corrupt"),
         Len(stack') <= max_hops + 1,
         \A n \in DOMAIN stack' :
           stack'[n].rest \subseteq FromNode(plan, plan[stack'[n].contact].to),
         beam' \in Seq(found'), Len(beam') <= BeamCap, found' \subseteq Candidates,
         IsFiniteSet(DOMAIN frontier'), Cardinality(DOMAIN frontier') <= FrontierNodes
  PROVE  Types'
<1>1. Frames' = Frames /\ Candidates' = Candidates
  BY DEF SameArgs, Frames, Candidates
<1>2. /\ plan' \in Seq(ContactType) /\ bundle' \in BundleType /\ now' \in Int
      /\ max_hops' \in 1 .. BundleMaxHops /\ seeds' \subseteq FromNode(plan', bundle'.curr)
  BY DEF Types, SameArgs
<1>3. \A n \in DOMAIN stack' :
        stack'[n].rest \subseteq FromNode(plan', plan'[stack'[n].contact].to)
  BY DEF SameArgs
<1>4. Len(stack') <= max_hops' + 1
  BY DEF SameArgs
<1> QED
  BY <1>1, <1>2, <1>3, <1>4 DEF Types

\* Only a frame that is popped, or passes the contact it looks at, could let a
\* stuck search go on; and the table is full.
LEMMA StuckStays ==
  ASSUME SameArgs, Stuck, DOMAIN frontier' = DOMAIN frontier,
         \A n \in DOMAIN stack : n <= max_hops /\ Repeats(stack[n]) =>
           n \in DOMAIN stack' /\ stack'[n] = stack[n]
  PROVE  Stuck'
<1>1. PICK n \in DOMAIN stack : n <= max_hops /\ Repeats(stack[n])
  BY DEF Stuck
<1>2. n \in DOMAIN stack' /\ stack'[n] = stack[n] /\ n <= max_hops'
  BY <1>1 DEF SameArgs
<1>3. Repeats(stack[n])'
  BY <1>1, <1>2 DEF Repeats, SameArgs
<1>4. Full'
  BY DEF Stuck, Full
<1> QED
  BY <1>2, <1>3, <1>4 DEF Stuck

\* A top frame that repeats is neither exhausted nor does it skip its contact,
\* nor has it reached the destination.
LEMMA TopRepeats ==
  ASSUME Types, pc = "expand", Len(stack) <= max_hops, Repeats(stack[Len(stack)])
  PROVE  ~Exhausted /\ Admissible /\ plan[Current].to # bundle.dst
<1>1. Len(stack) \in Nat /\ max_hops \in Nat /\ Top = stack[Len(stack)]
  BY StackShape DEF Types, Top
<1>2. ~Exhausted
  BY <1>1 DEF Exhausted, Repeats
<1>3. /\ plan[Current].to \notin Top.visited /\ plan[Current].to # bundle.dst
      /\ plan[Current].to \notin DOMAIN frontier /\ HopFits(plan[Current], bundle, Top.t_arrive)
  BY <1>1 DEF Repeats, Current
<1>4. SignaturesAt(plan[Current].to) = {}
  BY <1>3 DEF SignaturesAt
<1> QED
  BY <1>2, <1>3, <1>4 DEF Admissible

LEMMA NoFrames ==
  ASSUME stack = <<>>
  PROVE  /\ DOMAIN stack = {} /\ ~Stuck /\ PathSound /\ VisitedSound /\ NodesTracked
<1>1. DOMAIN stack = {}
  OBVIOUS
<1> QED
  BY <1>1 DEF Stuck, PathSound, VisitedSound, NodesTracked

LEMMA FoundKept ==
  ASSUME SameArgs, FoundSound, Stuck => Stuck',
         \A r \in found' : r \in found \/ Sound(r) \/ Stuck'
  PROVE  FoundSound'
<1> SUFFICES ASSUME NEW r \in found'
             PROVE  Sound(r)' \/ Stuck'
  BY DEF FoundSound
<1>1. Sound(r) \/ Stuck'
  BY DEF FoundSound
<1>2. Sound(r) => Sound(r)'
  BY DEF Sound, SameArgs
<1> QED
  BY <1>1, <1>2

\* The node the top frame looks at gets an entry, or the table is full.
LEMMA FrontierGrows ==
  ASSUME Types, RecordSignature
  PROVE  /\ IsFiniteSet(DOMAIN frontier') /\ Cardinality(DOMAIN frontier') <= FrontierNodes
         /\ DOMAIN frontier \subseteq DOMAIN frontier'
         /\ Full => DOMAIN frontier' = DOMAIN frontier
         /\ plan[Current].to \notin DOMAIN frontier' => Full'
<1> DEFINE node == plan[Current].to
           F == DOMAIN frontier
<1>1. IsFiniteSet(F) /\ Cardinality(F) <= FrontierNodes /\ Cardinality(F) \in Nat
      /\ FrontierNodes \in Nat
  BY FS_CardinalityType, CapsAssumption DEF Types
<1>2. CASE Tracked(node)
  <2>1. DOMAIN frontier' = F \cup {node}
    BY <1>2 DEF RecordSignature
  <2>2. IsFiniteSet(F \cup {node})
        /\ Cardinality(F \cup {node}) = IF node \in F THEN Cardinality(F) ELSE Cardinality(F) + 1
    BY <1>1, FS_AddElement
  <2>3. node \in F \/ Cardinality(F) < FrontierNodes
    BY <1>2 DEF Tracked
  <2>4. node \in F => F \cup {node} = F
    OBVIOUS
  <2>5. Full => Cardinality(F) = FrontierNodes
    BY DEF Full
  <2> HIDE DEF F, node
  <2>6. Cardinality(F \cup {node}) <= FrontierNodes /\ (Full => node \in F)
    BY <1>1, <2>2, <2>3, <2>5
  <2> QED
    BY <2>1, <2>2, <2>4, <2>6 DEF F, node
<1>3. CASE ~Tracked(node)
  <2>1. frontier' = frontier
    BY <1>3 DEF RecordSignature
  <2>2. Cardinality(F) = FrontierNodes
    BY <1>1, <1>3 DEF Tracked
  <2> QED
    BY <1>1, <2>1, <2>2 DEF Full
<1> QED
  BY <1>2, <1>3

\* Passing a contact leaves the path as it was.
LEMMA PassKeeps ==
  ASSUME Types, PathSound, VisitedSound, SameArgs, Expanding, PassCurrent
  PROVE  /\ stack' \in Seq(Frames) /\ Len(stack') = Len(stack) /\ stack' # <<>>
         /\ \A n \in DOMAIN stack' :
              stack'[n].rest \subseteq FromNode(plan, plan[stack'[n].contact].to)
         /\ DOMAIN stack' = DOMAIN stack
         /\ \A n \in DOMAIN stack : /\ n # Len(stack) => stack'[n] = stack[n]
                                    /\ stack'[n].contact = stack[n].contact
                                    /\ stack'[n].t_arrive = stack[n].t_arrive
                                    /\ stack'[n].visited = stack[n].visited
         /\ stack'[Len(stack)].rest = Top.rest \ {Current}
         /\ PathSound' /\ VisitedSound'
<1> DEFINE L == Len(stack)
           top == [Top EXCEPT !.rest = @ \ {Current}]
<1>1. L \in Nat /\ L > 0 /\ DOMAIN stack = 1 .. L /\ L \in 1 .. L /\ stack \in Seq(Frames)
  BY TopShape, StackShape DEF Expanding, Types
<1>2. Top = stack[L] /\ Top \in Frames
  BY TopShape DEF Expanding
<1>3. /\ top \in Frames /\ top.contact = Top.contact /\ top.t_arrive = Top.t_arrive
      /\ top.visited = Top.visited /\ top.rest = Top.rest \ {Current}
  BY <1>2 DEF Frames
<1>4. stack' = [stack EXCEPT ![L] = top]
  BY <1>1, <1>2 DEF PassCurrent
<1> HIDE DEF top, L
<1>5. /\ stack' \in Seq(Frames) /\ Len(stack') = L /\ DOMAIN stack' = 1 .. L
      /\ stack'[L] = top /\ \A n \in 1 .. L : n # L => stack'[n] = stack[n]
  BY <1>1, <1>3, <1>4
<1>6. ASSUME NEW n \in 1 .. L
      PROVE  /\ stack'[n].contact = stack[n].contact /\ stack'[n].t_arrive = stack[n].t_arrive
             /\ stack'[n].visited = stack[n].visited /\ stack'[n].rest \subseteq stack[n].rest
  BY <1>2, <1>3, <1>5
<1>7. stack' # <<>>
  <2>1. 1 \in DOMAIN stack'
    BY <1>1, <1>5
  <2> QED
    BY <2>1
<1>8. PathSound'
  <2> SUFFICES ASSUME NEW n \in 1 .. L
               PROVE  (IF n = 1 THEN Hop(stack[1], bundle.curr, now)
                       ELSE Hop(stack[n], plan[stack[n - 1].contact].to, stack[n - 1].t_arrive))'
    BY <1>5 DEF PathSound
  <2>1. IF n = 1 THEN Hop(stack[1], bundle.curr, now)
        ELSE Hop(stack[n], plan[stack[n - 1].contact].to, stack[n - 1].t_arrive)
    BY <1>1 DEF PathSound
  <2>2. CASE n = 1
    BY <1>6, <2>1, <2>2 DEF Hop, SameArgs
  <2>3. CASE n # 1
    <3>1. n - 1 \in 1 .. L
      BY <1>1, <2>3
    <3> QED
      BY <1>6, <2>1, <2>3, <3>1 DEF Hop, SameArgs
  <2> QED
    BY <2>2, <2>3
<1>9. VisitedSound'
  BY <1>1, <1>5, <1>6 DEF VisitedSound, SameArgs
<1>10. \A n \in DOMAIN stack' :
         stack'[n].rest \subseteq FromNode(plan, plan[stack'[n].contact].to)
  BY <1>5, <1>6, StackShape DEF L
<1>11. stack'[L].rest = Top.rest \ {Current}
  BY <1>3, <1>5
<1> QED
  BY <1>1, <1>5, <1>6, <1>7, <1>8, <1>9, <1>10, <1>11 DEF L
-----------------------------------------------------------------------------
(* The seeds *)

\* Between two searches there are no frames, and the search is not stuck.
LEMMA BetweenSeeds ==
  ASSUME IInv, SameArgs, pc # "expand", pc # "corrupt", stack' = stack
  PROVE  /\ stack = <<>> /\ stack' = <<>> /\ Len(stack') <= max_hops + 1
         /\ stack' \in Seq(Frames)
         /\ \A n \in DOMAIN stack' :
              stack'[n].rest \subseteq FromNode(plan, plan[stack'[n].contact].to)
         /\ ~Stuck /\ PathSound' /\ VisitedSound' /\ NodesTracked'
<1>1. stack = <<>>
  BY DEF IInv, Types
<1>2. stack' = <<>> /\ DOMAIN stack' = {}
  BY <1>1
<1>3. ~Stuck /\ PathSound' /\ VisitedSound' /\ NodesTracked'
  <2>1. ~Stuck
    BY <1>1, NoFrames
  <2> QED
    BY <1>2, <2>1 DEF PathSound, VisitedSound, NodesTracked
<1>4. /\ Len(stack') <= max_hops + 1
      /\ stack' \in Seq(Frames)
      /\ \A n \in DOMAIN stack' :
              stack'[n].rest \subseteq FromNode(plan, plan[stack'[n].contact].to)
  BY <1>1, <1>2 DEF IInv, Types
<1> QED
  BY <1>1, <1>2, <1>3, <1>4

LEMMA SkipSeedKeeps ==
  ASSUME IInv, SkipSeed
  PROVE  IInv'
<1>1. /\ SameArgs /\ pc = "seed" /\ pc' = "seed" /\ stack' = stack /\ seeds' \subseteq seeds
      /\ frontier' = frontier /\ beam' = beam /\ found' = found
  BY DEF SkipSeed, NextSeed, SameArgs, args
<1>2. /\ stack' = <<>> /\ Len(stack') <= max_hops + 1 /\ stack' \in Seq(Frames)
      /\ \A n \in DOMAIN stack' :
              stack'[n].rest \subseteq FromNode(plan, plan[stack'[n].contact].to)
      /\ ~Stuck /\ PathSound' /\ VisitedSound' /\ NodesTracked'
  BY <1>1, BetweenSeeds
<1>3. Types'
  BY <1>1, <1>2, TypesKept DEF IInv, Types
<1>4. FoundSound'
  BY <1>1, <1>2, FoundKept DEF IInv
<1>5. CheapestKept' /\ Returned'
  BY <1>1 DEF IInv, CheapestKept, Returned
<1> QED
  BY <1>2, <1>3, <1>4, <1>5 DEF IInv

LEMMA DirectSeedKeeps ==
  ASSUME IInv, DirectSeed
  PROVE  IInv'
<1>1. /\ SameArgs /\ pc = "seed" /\ pc' = "seed" /\ stack' = stack /\ seeds' \subseteq seeds
      /\ frontier' = frontier /\ seeds # {} /\ Offer(<<Seed>>)
      /\ HopFits(plan[Seed], bundle, now) /\ plan[Seed].to = bundle.dst
  BY DEF DirectSeed, NextSeed, SameArgs, args
<1>2. /\ stack' = <<>> /\ Len(stack') <= max_hops + 1 /\ stack' \in Seq(Frames)
      /\ \A n \in DOMAIN stack' :
              stack'[n].rest \subseteq FromNode(plan, plan[stack'[n].contact].to)
      /\ ~Stuck /\ PathSound' /\ VisitedSound' /\ NodesTracked'
  BY <1>1, BetweenSeeds
<1>3. <<Seed>> \in Seq(DOMAIN plan) \ {<<>>} /\ IsRoute(plan, <<Seed>>, bundle, now)
  BY <1>1, SeedIsRoute DEF IInv
<1>4. /\ beam' \in Seq(found') /\ Len(beam') <= BeamCap
      /\ found' = found \cup {Candidate(<<Seed>>)} /\ found' \subseteq Candidates
      /\ CheapestKept'
  BY <1>1, <1>3, OfferKeeps DEF IInv
<1>5. Sound(Candidate(<<Seed>>))
  <2>1. Len(<<Seed>>) <= BundleMaxHops
    BY DEF BundleMaxHops
  <2>2. /\ Candidate(<<Seed>>).hops = <<Seed>>
        /\ Candidate(<<Seed>>).arrival = Arrival(plan, <<Seed>>, bundle, now)
    BY <1>3, <2>1, CandidateType DEF IInv
  <2> QED
    BY <1>3, <2>2 DEF Sound
<1>6. Types'
  BY <1>1, <1>2, <1>4, TypesKept DEF IInv, Types
<1>7. FoundSound'
  BY <1>1, <1>2, <1>4, <1>5, FoundKept DEF IInv
<1>8. Returned'
  BY <1>1 DEF Returned
<1> QED
  BY <1>2, <1>4, <1>6, <1>7, <1>8 DEF IInv

LEMMA FinishKeeps ==
  ASSUME IInv, Finish
  PROVE  IInv'
<1>1. /\ SameArgs /\ pc = "seed" /\ pc' = "done" /\ stack' = stack /\ seeds' = seeds
      /\ seeds = {}
      /\ frontier' = frontier /\ beam' = beam /\ found' = found
      /\ result' = IF beam = <<>> THEN NoRoute ELSE beam[Best(beam)]
  BY DEF Finish, SameArgs, args, search
<1>2. /\ stack' = <<>> /\ Len(stack') <= max_hops + 1 /\ stack' \in Seq(Frames)
      /\ \A n \in DOMAIN stack' :
              stack'[n].rest \subseteq FromNode(plan, plan[stack'[n].contact].to)
      /\ ~Stuck /\ PathSound' /\ VisitedSound' /\ NodesTracked'
  BY <1>1, BetweenSeeds
<1>3. Types'
  BY <1>1, <1>2, TypesKept DEF IInv, Types
<1>4. FoundSound'
  BY <1>1, <1>2, FoundKept DEF IInv
<1>5. CheapestKept' /\ Returned'
  BY <1>1 DEF IInv, CheapestKept, Returned, Best
<1> QED
  BY <1>2, <1>3, <1>4, <1>5 DEF IInv

LEMMA FrameType ==
  ASSUME Types, NEW i \in DOMAIN plan, NEW t \in Int, NEW visited \in SUBSET Nat
  PROVE  /\ Frame(i, t, visited) \in Frames
         /\ Frame(i, t, visited).contact = i /\ Frame(i, t, visited).t_arrive = t
         /\ Frame(i, t, visited).visited = visited
         /\ Frame(i, t, visited).rest = FromNode(plan, plan[i].to)
<1>1. FromNode(plan, plan[i].to) \subseteq DOMAIN plan
  BY PlanShape
<1> QED
  BY <1>1 DEF Frame, Frames

LEMMA StartSearchKeeps ==
  ASSUME IInv, StartSearch
  PROVE  IInv'
<1> DEFINE frame == Frame(Seed, HopArrival(plan[Seed], bundle, now), {bundle.curr})
<1>1. /\ SameArgs /\ pc = "seed" /\ pc' = "expand" /\ seeds # {} /\ seeds' \subseteq seeds
      /\ stack' = <<frame>> /\ HopFits(plan[Seed], bundle, now)
      /\ frontier' = frontier /\ beam' = beam /\ found' = found
  BY DEF StartSearch, NextSeed, SameArgs, args
<1>2. Seed \in DOMAIN plan /\ Seed \in FromNode(plan, bundle.curr)
  BY <1>1, SeedShape DEF IInv
<1>3. HopArrival(plan[Seed], bundle, now) \in Int /\ bundle.curr \in Nat
  <2>1. plan[Seed] \in ContactType
    BY <1>2, PlanShape DEF IInv
  <2> QED
    BY <2>1, HopType DEF IInv, Types, BundleType
<1>4. /\ frame \in Frames /\ frame.contact = Seed /\ frame.visited = {bundle.curr}
      /\ frame.t_arrive = HopArrival(plan[Seed], bundle, now)
      /\ frame.rest = FromNode(plan, plan[Seed].to)
  BY <1>2, <1>3, FrameType DEF IInv
<1> HIDE DEF frame
<1>5. /\ stack' \in Seq(Frames) /\ Len(stack') = 1 /\ stack' # <<>> /\ DOMAIN stack' = {1}
      /\ stack'[1] = frame
  BY <1>1, <1>4
<1>6. Types'
  <2>1. Len(stack') <= max_hops + 1
    BY <1>5 DEF IInv, Types
  <2>2. \A n \in DOMAIN stack' :
          stack'[n].rest \subseteq FromNode(plan, plan[stack'[n].contact].to)
    BY <1>4, <1>5
  <2> QED
    BY <1>1, <1>5, <2>1, <2>2, TypesKept DEF IInv, Types
<1>7. PathSound'
  BY <1>1, <1>2, <1>4, <1>5 DEF PathSound, Hop, SameArgs
<1>8. VisitedSound'
  <2>1. IsFiniteSet({bundle.curr}) /\ Cardinality({bundle.curr}) = 1
    BY FS_Singleton
  <2> QED
    BY <1>1, <1>4, <1>5, <2>1 DEF VisitedSound, SameArgs
<1>9. NodesTracked'
  BY <1>1, <1>4, <1>5 DEF NodesTracked, SameArgs
<1>10. ~Stuck
  <2>1. stack = <<>>
    BY <1>1 DEF IInv, Types
  <2> QED
    BY <2>1, NoFrames
<1>11. FoundSound'
  BY <1>1, <1>10, FoundKept DEF IInv
<1>12. CheapestKept' /\ Returned'
  BY <1>1 DEF IInv, CheapestKept, Returned
<1> QED
  BY <1>6, <1>7, <1>8, <1>9, <1>11, <1>12 DEF IInv

-----------------------------------------------------------------------------
(* The expansion *)

LEMMA PopFrameKeeps ==
  ASSUME IInv, PopFrame
  PROVE  IInv' /\ (Stuck => Stuck')
<1> DEFINE L == Len(stack)
<1>1. /\ SameArgs /\ pc = "expand" /\ Exhausted /\ stack' = SubSeq(stack, 1, L - 1)
      /\ pc' = (IF L = 1 THEN "seed" ELSE "expand") /\ seeds' = seeds
      /\ frontier' = frontier /\ beam' = beam /\ found' = found
  BY DEF PopFrame, SameArgs, args, Front
<1>2. /\ L \in 1 .. max_hops + 1 /\ L \in Nat /\ DOMAIN stack = 1 .. L /\ stack \in Seq(Frames)
      /\ max_hops \in Nat
  BY <1>1, TopShape, StackShape DEF IInv, Types
<1> HIDE DEF L
<1>3. /\ stack' \in Seq(Frames) /\ Len(stack') = L - 1 /\ DOMAIN stack' = 1 .. L - 1
      /\ \A n \in 1 .. L - 1 : stack'[n] = stack[n] /\ n \in 1 .. L
  BY <1>1, <1>2
<1>4. (stack' = <<>>) <=> (L = 1)
  <2>1. stack' = <<>> => Len(stack') = 0
    BY Zenon, <1>3, Len(<<>>) = 0
  <2>2. L = 1 => stack' = <<>>
    BY <1>1, <1>2, <1>3
  <2> QED
    BY <1>2, <1>3, <2>1, <2>2
<1>5. Types'
  <2>1. Len(stack') <= max_hops + 1
    BY <1>2, <1>3
  <2>2. \A n \in DOMAIN stack' :
          stack'[n].rest \subseteq FromNode(plan, plan[stack'[n].contact].to)
    BY <1>3, StackShape DEF IInv, L
  <2>3. pc' \in {"seed", "expand", "done", "corrupt"}
        /\ ((pc' = "expand") <=> (stack' # <<>> /\ pc' # "corrupt"))
    BY <1>1, <1>4
  <2> QED
    BY <1>1, <1>3, <2>1, <2>2, <2>3, TypesKept DEF IInv, Types
<1>6. PathSound'
  <2> SUFFICES ASSUME NEW n \in 1 .. L - 1
               PROVE  (IF n = 1 THEN Hop(stack[1], bundle.curr, now)
                       ELSE Hop(stack[n], plan[stack[n - 1].contact].to, stack[n - 1].t_arrive))'
    BY <1>3 DEF PathSound
  <2>1. IF n = 1 THEN Hop(stack[1], bundle.curr, now)
        ELSE Hop(stack[n], plan[stack[n - 1].contact].to, stack[n - 1].t_arrive)
    BY <1>2, <1>3 DEF PathSound, IInv
  <2>2. CASE n = 1
    BY <1>1, <1>3, <2>1, <2>2 DEF Hop, SameArgs
  <2>3. CASE n # 1
    <3>1. n - 1 \in 1 .. L - 1
      BY <1>2, <2>3
    <3> QED
      BY <1>1, <1>3, <2>1, <2>3, <3>1 DEF Hop, SameArgs
  <2> QED
    BY <2>2, <2>3
<1>7. VisitedSound'
  BY <1>1, <1>2, <1>3 DEF VisitedSound, IInv, SameArgs
<1>8. Stuck => Stuck'
  <2> SUFFICES ASSUME Stuck
               PROVE  Stuck'
    OBVIOUS
  <2>1. ASSUME NEW n \in DOMAIN stack, n <= max_hops, Repeats(stack[n])
        PROVE  n \in DOMAIN stack' /\ stack'[n] = stack[n]
    <3>1. n # L
      BY <1>1, <2>1, TopRepeats DEF IInv, L
    <3>2. n \in 1 .. L - 1
      BY <1>2, <3>1
    <3> QED
      BY <1>3, <3>2
  <2> QED
    BY <1>1, <2>1, StuckStays
<1>9. NodesTracked'
  BY <1>1, <1>2, <1>3, <1>8 DEF NodesTracked, IInv, SameArgs
<1>10. FoundSound'
  BY <1>1, <1>8, FoundKept DEF IInv
<1>11. CheapestKept' /\ Returned'
  BY <1>1 DEF IInv, CheapestKept, Returned
<1> QED
  BY <1>5, <1>6, <1>7, <1>8, <1>9, <1>10, <1>11 DEF IInv

LEMMA SkipContactKeeps ==
  ASSUME IInv, SkipContact
  PROVE  IInv' /\ (Stuck => Stuck')
<1> DEFINE L == Len(stack)
<1>1. /\ SameArgs /\ Expanding /\ pc = "expand" /\ pc' = "expand" /\ ~Admissible /\ PassCurrent
      /\ seeds' = seeds /\ frontier' = frontier /\ beam' = beam /\ found' = found
  BY DEF SkipContact, Expanding, SameArgs, args
<1>2. /\ stack' \in Seq(Frames) /\ Len(stack') = L /\ stack' # <<>>
      /\ \A n \in DOMAIN stack' :
           stack'[n].rest \subseteq FromNode(plan, plan[stack'[n].contact].to)
      /\ DOMAIN stack' = DOMAIN stack
      /\ \A n \in DOMAIN stack : /\ n # L => stack'[n] = stack[n]
                                 /\ stack'[n].visited = stack[n].visited
      /\ PathSound' /\ VisitedSound'
  BY <1>1, PassKeeps DEF IInv
<1>3. Types'
  <2>1. L <= max_hops + 1
    BY DEF IInv, Types
  <2> QED
    BY <1>1, <1>2, <2>1, TypesKept DEF IInv, Types
<1>4. Stuck => Stuck'
  <2> SUFFICES ASSUME Stuck
               PROVE  Stuck'
    OBVIOUS
  <2>1. ASSUME NEW n \in DOMAIN stack, n <= max_hops, Repeats(stack[n])
        PROVE  n \in DOMAIN stack' /\ stack'[n] = stack[n]
    <3>1. n # L
      BY <1>1, <2>1, TopRepeats DEF IInv
    <3> QED
      BY <1>2, <3>1
  <2> QED
    BY <1>1, <2>1, StuckStays
<1>5. NodesTracked'
  BY <1>1, <1>2, <1>4 DEF NodesTracked, IInv, SameArgs
<1>6. FoundSound'
  BY <1>1, <1>4, FoundKept DEF IInv
<1>7. CheapestKept' /\ Returned'
  BY <1>1 DEF IInv, CheapestKept, Returned
<1> QED
  BY <1>2, <1>3, <1>4, <1>5, <1>6, <1>7 DEF IInv

\* A path too long for a route is looked at by a stuck search only: its nodes
\* do not all fit into the table.
LEMMA LongPathsAreStuck ==
  ASSUME IInv, Len(stack) >= BundleMaxHops
  PROVE  Stuck
<1> SUFFICES ASSUME ~Stuck
             PROVE  FALSE
  OBVIOUS
<1> DEFINE V == stack[BundleMaxHops].visited
           F == DOMAIN frontier
<1>1. BundleMaxHops \in DOMAIN stack
  BY StackShape DEF IInv, BundleMaxHops
<1>2. IsFiniteSet(V) /\ Cardinality(V) = BundleMaxHops /\ bundle.curr \in V
  BY <1>1 DEF IInv, VisitedSound
<1>3. V \ {bundle.curr} \subseteq F
  BY <1>1 DEF IInv, NodesTracked
<1>4. IsFiniteSet(F) /\ Cardinality(F) <= FrontierNodes
  BY DEF IInv, Types
<1> HIDE DEF V, F
<1>5. Cardinality(V \ {bundle.curr}) = BundleMaxHops - 1
  BY <1>2, FS_RemoveElement
<1>6. Cardinality(V \ {bundle.curr}) <= Cardinality(F) /\ Cardinality(F) \in Nat
  BY <1>3, <1>4, FS_Subset, FS_CardinalityType
<1>7. FrontierNodes \in Nat
  BY CapsAssumption
<1> QED
  BY <1>4, <1>5, <1>6, <1>7, FrontierAssumption DEF BundleMaxHops

LEMMA ReachDestinationKeeps ==
  ASSUME IInv, ReachDestination
  PROVE  IInv' /\ (Stuck => Stuck')
<1> DEFINE L == Len(stack)
<1>1. /\ SameArgs /\ Expanding /\ pc = "expand" /\ pc' = "expand" /\ Admissible
      /\ plan[Current].to = bundle.dst /\ RecordSignature /\ Offer(Path) /\ PassCurrent
      /\ seeds' = seeds
  BY DEF ReachDestination, Expanding, SameArgs, args
<1>2. /\ stack' \in Seq(Frames) /\ Len(stack') = L /\ stack' # <<>>
      /\ \A n \in DOMAIN stack' :
           stack'[n].rest \subseteq FromNode(plan, plan[stack'[n].contact].to)
      /\ DOMAIN stack' = DOMAIN stack
      /\ \A n \in DOMAIN stack : /\ n # L => stack'[n] = stack[n]
                                 /\ stack'[n].visited = stack[n].visited
      /\ PathSound' /\ VisitedSound'
  BY <1>1, PassKeeps DEF IInv
<1>3. /\ Path \in Seq(DOMAIN plan) \ {<<>>} /\ Len(Path) = L + 1
      /\ IsRoute(plan, Path, bundle, now)
  BY <1>1, PathIsRoute DEF IInv
<1>4. /\ beam' \in Seq(found') /\ Len(beam') <= BeamCap
      /\ found' = found \cup {Candidate(Path)} /\ found' \subseteq Candidates
      /\ CheapestKept'
  BY <1>1, <1>3, OfferKeeps DEF IInv
<1>5. /\ IsFiniteSet(DOMAIN frontier') /\ Cardinality(DOMAIN frontier') <= FrontierNodes
      /\ DOMAIN frontier \subseteq DOMAIN frontier'
      /\ Full => DOMAIN frontier' = DOMAIN frontier
  BY <1>1, FrontierGrows DEF IInv
<1>6. Types'
  <2>1. L <= max_hops + 1
    BY DEF IInv, Types
  <2> QED
    BY <1>1, <1>2, <1>4, <1>5, <2>1, TypesKept DEF IInv, Types
<1>7. Stuck => Stuck'
  <2> SUFFICES ASSUME Stuck
               PROVE  Stuck'
    OBVIOUS
  <2>1. DOMAIN frontier' = DOMAIN frontier
    BY <1>5 DEF Stuck
  <2>2. ASSUME NEW n \in DOMAIN stack, n <= max_hops, Repeats(stack[n])
        PROVE  n \in DOMAIN stack' /\ stack'[n] = stack[n]
    <3>1. n # L
      BY <1>1, <2>2, TopRepeats DEF IInv
    <3> QED
      BY <1>2, <3>1
  <2> QED
    BY <1>1, <2>1, <2>2, StuckStays
<1>8. NodesTracked'
  BY <1>1, <1>2, <1>5, <1>7 DEF NodesTracked, IInv, SameArgs
<1>9. Sound(Candidate(Path)) \/ Stuck
  <2>1. CASE L >= BundleMaxHops
    BY <2>1, LongPathsAreStuck
  <2>2. CASE ~(L >= BundleMaxHops)
    <3>1. Len(Path) <= BundleMaxHops
      BY <1>3, <2>2, StackShape DEF IInv, BundleMaxHops
    <3>2. /\ Candidate(Path).hops = Path
          /\ Candidate(Path).arrival = Arrival(plan, Path, bundle, now)
      BY <1>3, <3>1, CandidateType DEF IInv
    <3> QED
      BY <1>3, <3>2 DEF Sound
  <2> QED
    BY <2>1, <2>2
<1>10. FoundSound'
  BY <1>1, <1>4, <1>7, <1>9, FoundKept DEF IInv
<1>11. Returned'
  BY <1>1 DEF Returned
<1> QED
  BY <1>2, <1>4, <1>6, <1>7, <1>8, <1>10, <1>11 DEF IInv

LEMMA PushFrameKeeps ==
  ASSUME IInv, PushFrame
  PROVE  /\ IInv' /\ (Stuck => Stuck')
         /\ plan[Current].to \notin DOMAIN frontier' => Stuck'
<1> DEFINE L     == Len(stack)
           node  == plan[Current].to
           t     == HopArrival(plan[Current], bundle, Top.t_arrive)
           frame == Frame(Current, t, Top.visited \cup {node})
<1>1. /\ SameArgs /\ Expanding /\ pc = "expand" /\ pc' = "expand" /\ Admissible
      /\ node # bundle.dst /\ RecordSignature /\ stack' = Append(stack, frame)
      /\ seeds' = seeds /\ beam' = beam /\ found' = found
  BY DEF PushFrame, Expanding, SameArgs, args, Signature
<1>2. /\ L \in 1 .. max_hops /\ L \in Nat /\ DOMAIN stack = 1 .. L /\ L \in 1 .. L
      /\ stack \in Seq(Frames) /\ Top = stack[L] /\ Top.rest # {}
      /\ Top.visited \subseteq Nat /\ Top.t_arrive \in Int /\ max_hops \in Nat
  <2>1. /\ L \in 1 .. max_hops + 1 /\ Top = stack[L] /\ L \in Nat /\ DOMAIN stack = 1 .. L
        /\ stack \in Seq(Frames) /\ max_hops \in Nat
    BY <1>1, TopShape, StackShape DEF IInv, Types
  <2>2. ~(L > max_hops) /\ Top.rest # {}
    BY <1>1 DEF Expanding, Exhausted
  <2>3. L \in 1 .. L
    BY <2>1
  <2>4. Top.visited \subseteq Nat /\ Top.t_arrive \in Int
    BY <2>1, <2>3, StackShape DEF IInv
  <2> QED
    BY <2>1, <2>2, <2>3, <2>4
<1>3. /\ Current \in DOMAIN plan /\ Current \in FromNode(plan, plan[Top.contact].to)
      /\ plan[Current] \in ContactType /\ node \in Nat
  BY <1>1, <1>2, TopShape, PlanShape DEF IInv
<1>4. node \notin Top.visited /\ HopFits(plan[Current], bundle, Top.t_arrive)
  BY <1>1 DEF Admissible
<1>5. t \in Int
  BY <1>2, <1>3, HopType DEF IInv, Types
<1>6. /\ frame \in Frames /\ frame.contact = Current /\ frame.t_arrive = t
      /\ frame.visited = Top.visited \cup {node}
      /\ frame.rest = FromNode(plan, plan[Current].to)
  <2>1. Top.visited \cup {node} \in SUBSET Nat
    BY <1>2, <1>3
  <2> HIDE DEF t
  <2> QED
    BY <1>3, <1>5, <2>1, FrameType DEF IInv
<1> HIDE DEF frame, L
<1>7. /\ stack' \in Seq(Frames) /\ Len(stack') = L + 1 /\ DOMAIN stack' = 1 .. L + 1
      /\ stack'[L + 1] = frame /\ \A n \in 1 .. L : stack'[n] = stack[n]
  BY <1>1, <1>2, <1>6
<1>8. /\ IsFiniteSet(DOMAIN frontier') /\ Cardinality(DOMAIN frontier') <= FrontierNodes
      /\ DOMAIN frontier \subseteq DOMAIN frontier'
      /\ Full => DOMAIN frontier' = DOMAIN frontier
      /\ node \notin DOMAIN frontier' => Full'
  BY <1>1, FrontierGrows DEF IInv
<1>9. Types'
  <2>1. Len(stack') <= max_hops + 1 /\ stack' # <<>>
    <3>1. 1 \in DOMAIN stack'
      BY <1>2, <1>7
    <3> QED
      BY <1>2, <1>7, <3>1
  <2>2. ASSUME NEW n \in DOMAIN stack'
        PROVE  stack'[n].rest \subseteq FromNode(plan, plan[stack'[n].contact].to)
    <3>1. CASE n = L + 1
      BY <1>6, <1>7, <3>1
    <3>2. CASE n # L + 1
      <4>1. n \in 1 .. L
        BY <1>2, <1>7, <3>2
      <4> QED
        BY <1>7, <4>1, StackShape DEF IInv, L
    <3> QED
      BY <3>1, <3>2
  <2> QED
    BY <1>1, <1>7, <1>8, <2>1, <2>2, TypesKept DEF IInv, Types
<1>10. PathSound'
  <2> SUFFICES ASSUME NEW n \in 1 .. L + 1
               PROVE  (IF n = 1 THEN Hop(stack[1], bundle.curr, now)
                       ELSE Hop(stack[n], plan[stack[n - 1].contact].to, stack[n - 1].t_arrive))'
    BY <1>7 DEF PathSound
  <2>1. CASE n = L + 1
    <3>1. n # 1 /\ n - 1 = L /\ stack'[n - 1] = stack[L]
      BY <1>2, <1>7, <2>1
    <3>2. stack'[n].contact = Current /\ stack'[n].t_arrive = t
      BY <1>6, <1>7, <2>1
    <3> QED
      BY <1>1, <1>2, <1>3, <1>4, <3>1, <3>2 DEF Hop, SameArgs
  <2>2. CASE n # L + 1
    <3>1. n \in 1 .. L
      BY <1>2, <2>2
    <3>2. IF n = 1 THEN Hop(stack[1], bundle.curr, now)
          ELSE Hop(stack[n], plan[stack[n - 1].contact].to, stack[n - 1].t_arrive)
      BY <1>2, <3>1 DEF PathSound, IInv
    <3>3. CASE n = 1
      BY <1>1, <1>7, <3>1, <3>2, <3>3 DEF Hop, SameArgs
    <3>4. CASE n # 1
      <4>1. n - 1 \in 1 .. L
        BY <1>2, <3>1, <3>4
      <4> QED
        BY <1>1, <1>7, <3>1, <3>2, <3>4, <4>1 DEF Hop, SameArgs
    <3> QED
      BY <3>3, <3>4
  <2> QED
    BY <2>1, <2>2
<1>11. VisitedSound'
  <2> SUFFICES ASSUME NEW n \in 1 .. L + 1
               PROVE  /\ IsFiniteSet(stack'[n].visited) /\ Cardinality(stack'[n].visited) = n
                      /\ bundle'.curr \in stack'[n].visited
    BY <1>7 DEF VisitedSound
  <2>1. CASE n = L + 1
    <3>1. /\ IsFiniteSet(Top.visited) /\ Cardinality(Top.visited) = L
          /\ bundle.curr \in Top.visited
      BY <1>2 DEF IInv, VisitedSound
    <3>2. /\ IsFiniteSet(Top.visited \cup {node})
          /\ Cardinality(Top.visited \cup {node}) = L + 1
      BY <1>4, <3>1, FS_AddElement
    <3> QED
      BY <1>1, <1>6, <1>7, <2>1, <3>1, <3>2 DEF SameArgs
  <2>2. CASE n # L + 1
    <3>1. n \in 1 .. L
      BY <1>2, <2>2
    <3> QED
      BY <1>1, <1>2, <1>7, <3>1 DEF IInv, VisitedSound, SameArgs
  <2> QED
    BY <2>1, <2>2
<1>12. Stuck => Stuck'
  <2> SUFFICES ASSUME Stuck
               PROVE  Stuck'
    OBVIOUS
  <2>1. DOMAIN frontier' = DOMAIN frontier
    BY <1>8 DEF Stuck
  <2>2. \A n \in DOMAIN stack : n \in DOMAIN stack' /\ stack'[n] = stack[n]
    BY <1>2, <1>7
  <2> QED
    BY <1>1, <2>1, <2>2, StuckStays
<1>13. node \notin DOMAIN frontier' => Stuck'
  <2> SUFFICES ASSUME node \notin DOMAIN frontier'
               PROVE  Stuck'
    OBVIOUS
  <2>1. PICK k \in Nat : k = L
    BY <1>2
  <2>2. Full' /\ k \in DOMAIN stack' /\ k <= max_hops' /\ stack'[k] = Top
    BY <1>1, <1>2, <1>7, <1>8, <2>1 DEF SameArgs
  <2>3. Repeats(stack[k])'
    <3>1. Top.rest # {} /\ plan[Min(Top.rest)] = plan[Current]
      BY <1>2 DEF Current
    <3>2. /\ plan'[Min(stack'[k].rest)] = plan[Current] /\ stack'[k].rest # {}
          /\ stack'[k].visited = Top.visited /\ stack'[k].t_arrive = Top.t_arrive
      BY <1>1, <2>2, <3>1 DEF SameArgs
    <3>3. /\ stack'[k].rest # {}
          /\ plan'[Min(stack'[k].rest)].to \notin stack'[k].visited
          /\ plan'[Min(stack'[k].rest)].to # bundle'.dst
          /\ plan'[Min(stack'[k].rest)].to \notin DOMAIN frontier'
          /\ HopFits(plan'[Min(stack'[k].rest)], bundle', stack'[k].t_arrive)
      BY <1>1, <1>4, <3>2 DEF SameArgs
    <3> QED
      BY <3>3 DEF Repeats
  <2> QED
    BY <2>2, <2>3 DEF Stuck
<1>14. NodesTracked'
  <2> SUFFICES ASSUME ~Stuck', NEW n \in 1 .. L + 1
               PROVE  stack'[n].visited \ {bundle'.curr} \subseteq DOMAIN frontier'
    BY <1>7 DEF NodesTracked
  <2>1. \A k \in 1 .. L : stack[k].visited \ {bundle.curr} \subseteq DOMAIN frontier
    BY <1>2, <1>12 DEF IInv, NodesTracked
  <2>2. CASE n = L + 1
    <3>1. node \in DOMAIN frontier'
      BY <1>13
    <3>2. Top.visited \ {bundle.curr} \subseteq DOMAIN frontier
      BY <1>2, <2>1
    <3> QED
      BY <1>1, <1>6, <1>7, <1>8, <2>2, <3>1, <3>2 DEF SameArgs
  <2>3. CASE n # L + 1
    <3>1. n \in 1 .. L
      BY <1>2, <2>3
    <3> QED
      BY <1>1, <1>7, <1>8, <2>1, <3>1 DEF SameArgs
  <2> QED
    BY <2>2, <2>3
<1>15. FoundSound'
  BY <1>1, <1>12, FoundKept DEF IInv
<1>16. CheapestKept' /\ Returned'
  BY <1>1 DEF IInv, CheapestKept, Returned
<1> QED
  BY <1>9, <1>10, <1>11, <1>12, <1>13, <1>14, <1>15, <1>16 DEF IInv

LEMMA OverflowKeeps ==
  ASSUME IInv, Overflow
  PROVE  IInv'
<1>1. /\ SameArgs /\ pc' = "corrupt" /\ seeds' = seeds /\ stack' = stack
      /\ frontier' = frontier /\ beam' = beam /\ found' = found
  BY DEF Overflow, SameArgs, args, search
<1>2. Types'
  BY <1>1, TypesKept DEF IInv, Types
<1>3. Stuck => Stuck'
  BY <1>1, StuckStays
<1>4. PathSound' /\ VisitedSound'
  BY <1>1 DEF IInv, PathSound, VisitedSound, Hop, SameArgs
<1>5. NodesTracked'
  BY <1>1, <1>3 DEF IInv, NodesTracked, SameArgs
<1>6. FoundSound'
  BY <1>1, <1>3, FoundKept DEF IInv
<1>7. CheapestKept' /\ Returned'
  BY <1>1 DEF IInv, CheapestKept, Returned
<1> QED
  BY <1>2, <1>4, <1>5, <1>6, <1>7 DEF IInv

-----------------------------------------------------------------------------
(* The theorems *)

LEMMA Initially ==
  ASSUME Init
  PROVE  IInv
<1>1. PICK p \in Problems :
        plan = p.plan /\ bundle = p.bundle /\ now = p.now /\ max_hops = p.max_hops
  BY DEF Init
<1>2. /\ plan \in Seq(ContactType) /\ bundle \in BundleType /\ now \in Int
      /\ max_hops \in 1 .. BundleMaxHops
  BY <1>1, ProblemsAssumption
<1>3. /\ pc = "seed" /\ seeds = FromNode(plan, bundle.curr) /\ stack = <<>>
      /\ frontier = <<>> /\ beam = <<>> /\ found = {}
  BY DEF Init
<1>4. PathSound /\ VisitedSound /\ NodesTracked
  BY <1>3, NoFrames
<1>5. FoundSound /\ CheapestKept /\ Returned
  BY <1>3 DEF FoundSound, CheapestKept, Returned
<1>6. /\ stack \in Seq(Frames) /\ Len(stack) = 0 /\ DOMAIN stack = {}
      /\ beam \in Seq(found) /\ Len(beam) = 0
  BY <1>3
<1>7. IsFiniteSet(DOMAIN frontier) /\ Cardinality(DOMAIN frontier) <= FrontierNodes
  <2>1. DOMAIN frontier = {}
    BY <1>3
  <2> QED
    BY <2>1, FS_EmptySet, CapsAssumption
<1>8. Types
  <2>1. Len(stack) <= max_hops + 1 /\ Len(beam) <= BeamCap
    BY <1>2, <1>6, CapsAssumption
  <2> QED
    BY <1>2, <1>3, <1>6, <1>7, <2>1 DEF Types
<1> QED
  BY <1>4, <1>5, <1>8 DEF IInv

LEMMA Stutters ==
  ASSUME IInv, UNCHANGED vars
  PROVE  IInv'
<1>1. /\ SameArgs /\ pc' = pc /\ seeds' = seeds /\ stack' = stack
      /\ frontier' = frontier /\ beam' = beam /\ found' = found /\ result' = result
  BY DEF vars, SameArgs
<1>2. Types'
  BY <1>1, TypesKept DEF IInv, Types
<1>3. Stuck => Stuck'
  BY <1>1, StuckStays
<1>4. PathSound' /\ VisitedSound'
  BY <1>1 DEF IInv, PathSound, VisitedSound, Hop, SameArgs
<1>5. NodesTracked'
  BY <1>1, <1>3 DEF IInv, NodesTracked, SameArgs
<1>6. FoundSound'
  BY <1>1, <1>3, FoundKept DEF IInv
<1>7. CheapestKept' /\ Returned'
  BY <1>1 DEF IInv, CheapestKept, Returned, Best
<1> QED
  BY <1>2, <1>4, <1>5, <1>6, <1>7 DEF IInv

\* IInv is inductive: it holds of every call and every step of the search.
LEMMA Inductive == Spec => []IInv
<1>1. IInv /\ [Step]_vars => IInv'
  <2> SUFFICES ASSUME IInv, [Step]_vars
               PROVE  IInv'
    OBVIOUS
  <2>1. CASE SkipSeed
    BY <2>1, SkipSeedKeeps
  <2>2. CASE DirectSeed
    BY <2>2, DirectSeedKeeps
  <2>3. CASE StartSearch
    BY <2>3, StartSearchKeeps
  <2>4. CASE Finish
    BY <2>4, FinishKeeps
  <2>5. CASE PopFrame
    BY <2>5, PopFrameKeeps
  <2>6. CASE SkipContact
    BY <2>6, SkipContactKeeps
  <2>7. CASE ReachDestination
    BY <2>7, ReachDestinationKeeps
  <2>8. CASE PushFrame
    BY <2>8, PushFrameKeeps
  <2>9. CASE Overflow
    BY <2>9, OverflowKeeps
  <2>10. CASE UNCHANGED vars
    BY <2>10, Stutters
  <2> QED
    BY <2>1, <2>2, <2>3, <2>4, <2>5, <2>6, <2>7, <2>8, <2>9, <2>10 DEF Step
<1> QED
  BY Initially, <1>1, PTL DEF Spec

\* The stack stays in the array of DFS_STACK_MAX frames, the beam within its
\* capacity and the frontier within its table, for every plan and bundle
\* (cgr.c:90, 61 and 149-151).
THEOREM TypeCorrect == Spec => []TypeOK
<1>1. IInv => TypeOK
  BY DEF IInv, Types, TypeOK
<1> QED
  BY Inductive, <1>1, PTL

\* Whatever route cgr_select_route returns can be travelled in time, by hops
\* that connect the bundle's node with its destination, and arrives when it
\* says: for every plan and bundle, beam and hop limit, provided the frontier
\* table has fewer entries than a path that is too long for a route has nodes.
THEOREM RoutesTravelled == Spec => []RouteSound
<1>1. IInv => RouteSound
  <2> SUFFICES ASSUME IInv, pc = "done", result # NoRoute
               PROVE  Sound(result)
    BY DEF RouteSound, Sound
  <2>1. result = beam[Best(beam)] /\ beam # <<>>
    BY DEF IInv, Returned
  <2>2. beam \in Seq(found) /\ \A r \in found : r.cost \in Int
    BY DEF IInv, Types, Candidates
  <2>3. result \in found
    <3>1. Best(beam) \in DOMAIN beam
      BY <2>1, <2>2, BestOf
    <3> QED
      BY <2>1, <2>2, <3>1
  <2>4. ~Stuck
    <3>1. stack = <<>>
      BY DEF IInv, Types
    <3> QED
      BY <3>1, NoFrames
  <2> QED
    BY <2>3, <2>4 DEF IInv, FoundSound
<1> QED
  BY Inductive, <1>1, PTL

\* A beam that evicts only what is dearer than what comes in holds the cheapest
\* route met, and the call returns it (cgr.c:69-84 and 300-304).
THEOREM CheapestReturned == Spec => []BestOfFound
<1>1. IInv => BestOfFound
  <2> SUFFICES ASSUME IInv, pc = "done", NEW r \in found
               PROVE  result # NoRoute /\ result.cost <= r.cost
    BY DEF BestOfFound
  <2>1. PICK k \in DOMAIN beam : beam[k].cost <= r.cost
    BY DEF IInv, CheapestKept
  <2>2. /\ beam \in Seq(found) /\ found \subseteq Candidates
        /\ \A x \in found : x.cost \in Int
    BY DEF IInv, Types, Candidates
  <2>3. beam # <<>>
    BY <2>1
  <2>4. result = beam[Best(beam)]
    BY <2>3 DEF IInv, Returned
  <2>5. Best(beam) \in DOMAIN beam /\ \A j \in DOMAIN beam : beam[Best(beam)].cost <= beam[j].cost
    BY <2>2, <2>3, BestOf
  <2>6. result \in found /\ beam[k] \in found
    BY <2>1, <2>2, <2>4, <2>5
  <2>7. result.cost <= r.cost
    BY <2>1, <2>2, <2>4, <2>5, <2>6
  <2>8. result # NoRoute
    <3>1. result.hops # <<>>
      BY <2>2, <2>6 DEF Candidates
    <3> QED
      BY <3>1 DEF NoRoute
  <2> QED
    BY <2>7, <2>8
<1> QED
  BY Inductive, <1>1, PTL

-----------------------------------------------------------------------------
(* Coverage: what the prunings keep.  Nothing below is claimed of a search *)
(* that is stuck, and none that ends is.                                   *)

Signatures == [t_arrive : Int, loss : Int, margin : Int]

SignatureTypes == \A node \in DOMAIN frontier : SignaturesAt(node) \subseteq Signatures

\* the loss of the path up to frame n
PathLoss(n) == Loss(plan, [k \in 1 .. n |-> stack[k].contact])

\* The search has come to a node no later, and with no greater loss.
Met(node, t, l) ==
  IF node = bundle.dst
  THEN \E r \in found : r.arrival <= t /\ Loss(plan, r.hops) <= l
  ELSE \E s \in SignaturesAt(node) : s.t_arrive <= t /\ s.loss <= l

\* Nothing is lost by not looking at contact i at time t again.
Passed(i, t, l) ==
  plan[i].to # bundle.curr /\ HopFits(plan[i], bundle, t) =>
    Met(plan[i].to, HopArrival(plan[i], bundle, t), l + plan[i].loss)

Expanded(node, t, l) == \A i \in FromNode(plan, node) : Passed(i, t, l)

OnStack(node, t, l) ==
  \E n \in DOMAIN stack : /\ plan[stack[n].contact].to = node
                          /\ stack[n].t_arrive = t /\ PathLoss(n) = l

SeedPassed(i) ==
  HopFits(plan[i], bundle, now) =>
    IF plan[i].to = bundle.dst
    THEN Met(bundle.dst, HopArrival(plan[i], bundle, now), plan[i].loss)
    ELSE \/ OnStack(plan[i].to, HopArrival(plan[i], bundle, now), plan[i].loss)
         \/ Expanded(plan[i].to, HopArrival(plan[i], bundle, now), plan[i].loss)

SeedsPassed == \A i \in FromNode(plan, bundle.curr) \ seeds : SeedPassed(i)

SignaturesExpanded ==
  \A node \in DOMAIN frontier \ {bundle.dst} : \A s \in SignaturesAt(node) :
    OnStack(node, s.t_arrive, s.loss) \/ Expanded(node, s.t_arrive, s.loss)

ContactsPassed(n) ==
  \A i \in FromNode(plan, plan[stack[n].contact].to) \ stack[n].rest :
    Passed(i, stack[n].t_arrive, PathLoss(n))

VisitedMet(n) ==
  \A node \in stack[n].visited \ {bundle.curr} : Met(node, stack[n].t_arrive, PathLoss(n))

FramesKept == \A n \in DOMAIN stack : ContactsPassed(n) /\ VisitedMet(n)

\* every signature at the destination is that of a route found
DestinationMet ==
  \A s \in SignaturesAt(bundle.dst) : Met(bundle.dst, s.t_arrive, s.loss)

NothingMissed == SeedsPassed /\ SignaturesExpanded /\ FramesKept /\ DestinationMet

Coverage == SignatureTypes /\ (max_hops = BundleMaxHops /\ ~Stuck => NothingMissed)

-----------------------------------------------------------------------------
(* Hops and losses *)

LEMMA ProductsMonotone ==
  ASSUME NEW r \in Nat, NEW x \in Int, NEW y \in Int, x <= y
  PROVE  r * x <= r * y /\ r * x \in Int /\ r * y \in Int
<1>1. r * (y - x) >= 0
  OBVIOUS
<1>2. r * (y - x) = r * y - r * x
  OBVIOUS
<1> QED
  BY <1>1, <1>2

\* Who is at the sender earlier can do all that a later one can, and arrives
\* no later; nobody arrives before he was at the sender.
LEMMA HopMonotone ==
  ASSUME NEW c \in ContactType, NEW b \in BundleType, NEW t \in Int, NEW u \in Int, t <= u
  PROVE  /\ t <= HopArrival(c, b, t)
         /\ HopArrival(c, b, t) <= HopArrival(c, b, u)
         /\ HopFits(c, b, u) => HopFits(c, b, t)
<1>1. /\ c.t_start \in Int /\ c.t_end \in Int /\ c.rate \in Nat /\ c.owlt \in Nat
      /\ c.bytes_used \in Nat /\ c.reserved \in Nat /\ b.size \in Nat
  BY DEF ContactType, BundleType
<1> DEFINE d  == TxDuration(c, b.size)
           s1 == EarliestStart(c, t)
           s2 == EarliestStart(c, u)
<1>2. d \in Int /\ d >= 0
  <2>1. c.rate > 0 => b.size \div c.rate \in Nat
    BY <1>1
  <2> QED
    BY <2>1 DEF TxDuration, Never
<1>3. s1 \in Int /\ s2 \in Int /\ t <= s1 /\ s1 <= s2
  BY <1>1 DEF EarliestStart
<1> HIDE DEF d, s1, s2
<1>4. HopArrival(c, b, t) = s1 + d + c.owlt /\ HopArrival(c, b, u) = s2 + d + c.owlt
  BY DEF HopArrival, ArrivalAtReceiver, d, s1, s2
<1>5. CapUse(c, s2) \in Int /\ CapUse(c, s1) \in Int /\ CapUse(c, s2) <= CapUse(c, s1)
  <2> DEFINE left1 == IF s1 < c.t_end THEN c.t_end - s1 ELSE 0
             left2 == IF s2 < c.t_end THEN c.t_end - s2 ELSE 0
  <2>1. left1 \in Int /\ left2 \in Int /\ left2 <= left1
    BY <1>1, <1>3
  <2>2. /\ CapUse(c, s1) = c.rate * left1 - c.bytes_used - c.reserved
        /\ CapUse(c, s2) = c.rate * left2 - c.bytes_used - c.reserved
    BY DEF CapUse, CapRem
  <2> HIDE DEF left1, left2
  <2>3. c.rate * left2 <= c.rate * left1 /\ c.rate * left1 \in Int /\ c.rate * left2 \in Int
    BY <1>1, <2>1, ProductsMonotone
  <2> QED
    BY <1>1, <2>2, <2>3
<1>6. ASSUME HopFits(c, b, u)
      PROVE  HopFits(c, b, t)
  <2>1. /\ IsActive(c, u) \/ IsFuture(c, u)
        /\ s2 < c.t_end /\ s2 + d <= c.t_end
        /\ ArrivalAtReceiver(c, b.size, s2) < ExpiresAt(b)
        /\ CapUse(c, s2) >= b.size /\ BerFeasible(c, b.size)
    BY <1>6 DEF HopFits, s2, d
  <2>2. IsActive(c, t) \/ IsFuture(c, t)
    BY <1>1, <2>1 DEF IsActive, IsFuture
  <2>3. s1 < c.t_end /\ s1 + d <= c.t_end
    BY <1>1, <1>2, <1>3, <2>1
  <2>4. ArrivalAtReceiver(c, b.size, s1) < ExpiresAt(b)
    <3>1. ExpiresAt(b) \in Int
      BY DEF ExpiresAt, BundleType
    <3>2. /\ ArrivalAtReceiver(c, b.size, s1) = s1 + d + c.owlt
          /\ ArrivalAtReceiver(c, b.size, s2) = s2 + d + c.owlt
      BY DEF ArrivalAtReceiver, d
    <3> QED
      BY <1>1, <1>2, <1>3, <2>1, <3>1, <3>2
  <2>5. CapUse(c, s1) >= b.size
    BY <1>1, <1>5, <2>1
  <2> QED
    BY <2>1, <2>2, <2>3, <2>4, <2>5 DEF HopFits, s1, d
<1> QED
  BY <1>1, <1>2, <1>3, <1>4, <1>6

\* Losses add up along a route.
LEMMA LossAppend ==
  ASSUME NEW p \in Seq(ContactType), NEW route \in Seq(DOMAIN p), NEW i \in DOMAIN p
  PROVE  /\ Loss(p, route) \in Int /\ p[i].loss \in Nat
         /\ Loss(p, Append(route, i)) = Loss(p, route) + p[i].loss
         /\ Loss(p, <<i>>) = p[i].loss
<1> DEFINE D == DOMAIN p
           R == Append(route, i)
<1>0. p[i].loss \in Nat
  <2>1. p[i] \in ContactType
    OBVIOUS
  <2> QED
    BY <2>1 DEF ContactType
<1>1. Len(route) \in Nat
  OBVIOUS
<1>2. PICK sums : LossTable(sums, p, route)
  BY LossTableExists
<1>3. route \in Seq(D) /\ i \in D
  OBVIOUS
<1>4. /\ Len(R) = Len(route) + 1 /\ R[Len(route) + 1] = i
      /\ \A n \in 1 .. Len(route) : R[n] = route[n]
  <2> HIDE DEF D
  <2> QED
    BY <1>3
<1> DEFINE last == sums[Len(route)] + p[i].loss
           more == [n \in 0 .. Len(route) + 1 |-> IF n = Len(route) + 1 THEN last ELSE sums[n]]
<1>5. sums[Len(route)] \in Int /\ last \in Int /\ sums \in [0 .. Len(route) -> Int]
  <2>1. sums \in [0 .. Len(route) -> Int] /\ Len(route) \in 0 .. Len(route)
    BY <1>1, <1>2 DEF LossTable
  <2>2. sums[Len(route)] \in Int
    BY <2>1
  <2> QED
    BY <1>0, <2>1, <2>2
<1> HIDE DEF R, last
<1>6. LossTable(more, p, R)
  <2>1. more \in [0 .. Len(route) + 1 -> Int]
    <3>1. \A n \in 0 .. Len(route) + 1 : n # Len(route) + 1 => n \in 0 .. Len(route)
      BY <1>1
    <3> QED
      BY <1>5, <3>1
  <2>2. more[0] = 0
    BY <1>1, <1>2 DEF LossTable
  <2>3. ASSUME NEW n \in 1 .. Len(route) + 1
        PROVE  more[n] = more[n - 1] + p[R[n]].loss
    <3>1. n \in 0 .. Len(route) + 1 /\ n - 1 \in 0 .. Len(route) + 1 /\ n - 1 # Len(route) + 1
      BY <1>1
    <3>2. CASE n = Len(route) + 1
      <4>1. n - 1 = Len(route)
        BY <1>1, <3>2
      <4> QED
        BY <1>4, <3>1, <3>2, <4>1 DEF last
    <3>3. CASE n # Len(route) + 1
      <4>1. n \in 1 .. Len(route)
        BY <1>1, <3>3
      <4> QED
        BY <1>2, <1>4, <3>1, <3>3, <4>1 DEF LossTable
    <3> QED
      BY <3>2, <3>3
  <2> HIDE DEF more
  <2> QED
    BY <1>4, <2>1, <2>2, <2>3 DEF LossTable
<1>7. Loss(p, route) = sums[Len(route)]
  BY <1>1, <1>2, LossIs
<1>8. Loss(p, R) = more[Len(route) + 1]
  <2> HIDE DEF more
  <2> QED
    BY <1>1, <1>4, <1>6, LossIs
<1>9. more[Len(route) + 1] = last
  BY <1>1
<1>10. Loss(p, <<i>>) = p[i].loss
  <2> DEFINE one == [n \in 0 .. 1 |-> IF n = 0 THEN 0 ELSE p[i].loss]
  <2>1. Len(<<i>>) = 1 /\ <<i>>[1] = i
    OBVIOUS
  <2>2. one \in [0 .. 1 -> Int] /\ one[0] = 0 /\ one[1] = one[0] + p[i].loss /\ one[1] = p[i].loss
    BY <1>0
  <2> HIDE DEF one
  <2>3. LossTable(one, p, <<i>>)
    <3>1. \A n \in 1 .. 1 : n = 1 /\ n - 1 = 0
      OBVIOUS
    <3> QED
      BY <2>1, <2>2, <3>1 DEF LossTable
  <2> QED
    BY <2>1, <2>2, <2>3, LossIs
<1> QED
  BY <1>0, <1>5, <1>7, <1>8, <1>9, <1>10 DEF R, last

-----------------------------------------------------------------------------
(* What is met stays met *)

LEMMA SignaturesTyped ==
  ASSUME SignatureTypes
  PROVE  \A node : SignaturesAt(node) \subseteq Signatures
BY DEF SignatureTypes, SignaturesAt

LEMMA FoundTyped ==
  ASSUME Types
  PROVE  \A r \in found : r.arrival \in Int /\ Loss(plan, r.hops) \in Int
<1> SUFFICES ASSUME NEW r \in found
             PROVE  r.arrival \in Int /\ Loss(plan, r.hops) \in Int
  OBVIOUS
<1>1. r.arrival \in Int /\ r.hops \in Seq(DOMAIN plan) /\ plan \in Seq(ContactType)
  BY DEF Types, Candidates
<1> QED
  BY <1>1, LossType

\* Who comes later, or with a greater loss, finds the same.
LEMMA MetLater ==
  ASSUME Types, SignatureTypes, NEW node,
         NEW t \in Int, NEW l \in Int, NEW u \in Int, NEW m \in Int, t <= u, l <= m, Met(node, t, l)
  PROVE  Met(node, u, m)
<1>1. CASE node = bundle.dst
  <2>1. PICK r \in found : r.arrival <= t /\ Loss(plan, r.hops) <= l
    BY <1>1 DEF Met
  <2>2. r.arrival <= u /\ Loss(plan, r.hops) <= m
    BY <2>1, FoundTyped
  <2> QED
    BY <1>1, <2>2 DEF Met
<1>2. CASE node # bundle.dst
  <2>1. PICK s \in SignaturesAt(node) : s.t_arrive <= t /\ s.loss <= l
    BY <1>2 DEF Met
  <2>2. s.t_arrive \in Int /\ s.loss \in Int
    BY SignaturesTyped DEF Signatures
  <2>3. s.t_arrive <= u /\ s.loss <= m
    BY <2>1, <2>2
  <2> QED
    BY <1>2, <2>3 DEF Met
<1> QED
  BY <1>1, <1>2

\* A step that forgets no route and no signature but for one as good.
Improves == \A node : \A s \in SignaturesAt(node) :
              \E r \in SignaturesAt(node)' : r.t_arrive <= s.t_arrive /\ r.loss <= s.loss

Gains == SameArgs /\ found \subseteq found' /\ Improves

LEMMA MetStays ==
  ASSUME Types, SignatureTypes, SignatureTypes', Gains,
         NEW node, NEW t \in Int, NEW l \in Int, Met(node, t, l)
  PROVE  Met(node, t, l)'
<1>1. CASE node = bundle.dst
  BY <1>1 DEF Met, Gains, SameArgs
<1>2. CASE node # bundle.dst
  <2>1. PICK s \in SignaturesAt(node) : s.t_arrive <= t /\ s.loss <= l
    BY <1>2 DEF Met
  <2>2. PICK r \in SignaturesAt(node)' : r.t_arrive <= s.t_arrive /\ r.loss <= s.loss
    BY DEF Gains, Improves
  <2>3. s.t_arrive \in Int /\ s.loss \in Int
    BY SignaturesTyped DEF Signatures
  <2>4. r.t_arrive \in Int /\ r.loss \in Int
    <3>1. SignaturesAt(node)' \subseteq Signatures
      BY DEF SignatureTypes, SignaturesAt
    <3> QED
      BY <3>1 DEF Signatures
  <2>5. r.t_arrive <= t /\ r.loss <= l
    BY <2>1, <2>2, <2>3, <2>4
  <2> QED
    BY <1>2, <2>5 DEF Met, Gains, SameArgs
<1> QED
  BY <1>1, <1>2

LEMMA PassedStays ==
  ASSUME Types, SignatureTypes, SignatureTypes', Gains,
         NEW i \in DOMAIN plan, NEW t \in Int, NEW l \in Int, Passed(i, t, l)
  PROVE  Passed(i, t, l)'
<1>1. HopArrival(plan[i], bundle, t) \in Int /\ l + plan[i].loss \in Int
  <2>1. plan[i] \in ContactType
    BY PlanShape
  <2>2. plan[i].loss \in Nat
    BY <2>1 DEF ContactType
  <2>3. bundle \in BundleType
    BY DEF Types
  <2>4. l + plan[i].loss \in Int
    BY <2>2
  <2> QED
    BY <2>1, <2>3, <2>4, HopType
<1> DEFINE node == plan[i].to
           u    == HopArrival(plan[i], bundle, t)
           m    == l + plan[i].loss
<1>2. node # bundle.curr /\ HopFits(plan[i], bundle, t) => Met(node, u, m)
  BY DEF Passed
<1>3. PICK v \in Int : v = u
  BY <1>1
<1>4. PICK k \in Int : k = m
  BY <1>1
<1>5. PICK n : n = node
  OBVIOUS
<1>6. Met(n, v, k) => Met(n, v, k)'
  BY MetStays
<1>7. node # bundle.curr /\ HopFits(plan[i], bundle, t) => Met(n, v, k)'
  BY <1>2, <1>3, <1>4, <1>5, <1>6
<1>8. n = plan'[i].to /\ v = HopArrival(plan'[i], bundle', t) /\ k = l + plan'[i].loss
  BY <1>3, <1>4, <1>5 DEF Gains, SameArgs
<1>9. plan'[i].to # bundle'.curr /\ HopFits(plan'[i], bundle', t) => Met(n, v, k)'
  BY <1>7 DEF Gains, SameArgs
<1> HIDE DEF node, u, m
<1> QED
  BY <1>8, <1>9 DEF Passed

LEMMA ExpandedStays ==
  ASSUME Types, SignatureTypes, SignatureTypes', Gains,
         NEW node, NEW t \in Int, NEW l \in Int, Expanded(node, t, l)
  PROVE  Expanded(node, t, l)'
<1>1. FromNode(plan, node)' = FromNode(plan, node) /\ FromNode(plan, node) \subseteq DOMAIN plan
  BY PlanShape DEF FromNode, Gains, SameArgs
<1> SUFFICES ASSUME NEW i \in FromNode(plan, node)
             PROVE  Passed(i, t, l)'
  BY <1>1 DEF Expanded
<1>2. Passed(i, t, l) /\ i \in DOMAIN plan
  BY <1>1 DEF Expanded
<1> QED
  BY <1>2, PassedStays

-----------------------------------------------------------------------------
(* Losses along the stack, and the signatures recorded *)

LEMMA PathLossType ==
  ASSUME Types, NEW n \in 1 .. Len(stack)
  PROVE  /\ [k \in 1 .. n |-> stack[k].contact] \in Seq(DOMAIN plan)
         /\ PathLoss(n) \in Int
         /\ n = 1 => PathLoss(n) = plan[stack[n].contact].loss
<1> DEFINE D == DOMAIN plan
           path == [k \in 1 .. n |-> stack[k].contact]
<1>1. /\ Len(stack) \in Nat /\ n \in Nat /\ \A k \in 1 .. n : k \in 1 .. Len(stack)
      /\ \A k \in 1 .. Len(stack) : stack[k].contact \in D
  BY StackShape
<1>2. path \in Seq(D)
  <2> HIDE DEF D
  <2>1. path \in [1 .. n -> D]
    BY <1>1
  <2> QED
    BY <1>1, <2>1
<1>3. PathLoss(n) \in Int
  <2>1. plan \in Seq(ContactType)
    BY DEF Types
  <2> QED
    BY <1>2, <2>1, LossType DEF PathLoss
<1>4. ASSUME n = 1
      PROVE  PathLoss(n) = plan[stack[n].contact].loss
  <2>1. path = <<stack[1].contact>>
    BY <1>4
  <2>2. stack[1].contact \in D /\ plan \in Seq(ContactType) /\ <<>> \in Seq(D)
    BY <1>1, <1>4 DEF Types
  <2>3. Loss(plan, <<stack[1].contact>>) = plan[stack[1].contact].loss
    BY <2>2, LossAppend
  <2> QED
    BY <1>4, <2>1, <2>3 DEF PathLoss
<1> QED
  BY <1>2, <1>3, <1>4

LEMMA PathLossKept ==
  ASSUME SameArgs, NEW n, \A k \in 1 .. n : stack'[k].contact = stack[k].contact
  PROVE  PathLoss(n)' = PathLoss(n)
<1>1. [k \in 1 .. n |-> stack'[k].contact] = [k \in 1 .. n |-> stack[k].contact]
  OBVIOUS
<1> QED
  BY <1>1 DEF PathLoss, SameArgs

\* The signature of the path to the contact the search looks at.
LEMMA SignatureIs ==
  ASSUME Types, Expanding
  PROVE  /\ Path \in Seq(DOMAIN plan) /\ Len(Path) = Len(stack) + 1
         /\ Path = [k \in 1 .. Len(stack) + 1 |->
                      IF k = Len(stack) + 1 THEN Current ELSE stack[k].contact]
         /\ Loss(plan, Path) = PathLoss(Len(stack)) + plan[Current].loss
         /\ Signature \in Signatures
         /\ Signature.t_arrive = HopArrival(plan[Current], bundle, Top.t_arrive)
         /\ Signature.loss = PathLoss(Len(stack)) + plan[Current].loss
<1> DEFINE L == Len(stack)
           D == DOMAIN plan
           path == [k \in 1 .. L |-> stack[k].contact]
<1>1. /\ L \in Nat /\ L \in 1 .. L /\ DOMAIN stack = 1 .. L /\ Current \in D
      /\ Top = stack[L] /\ plan \in Seq(ContactType)
  BY TopShape, StackShape DEF Expanding, Exhausted, Types
<1>2. path \in Seq(D) /\ Len(path) = L /\ PathLoss(L) = Loss(plan, path)
  <2>1. path \in Seq(D)
    BY <1>1, PathLossType
  <2> QED
    BY <1>1, <2>1 DEF PathLoss
<1>3. Path = Append(path, Current)
  BY <1>1 DEF Path
<1>4. Loss(plan, Path) = PathLoss(L) + plan[Current].loss /\ Loss(plan, Path) \in Int
  <2> HIDE DEF path
  <2>1. /\ Loss(plan, path) \in Int /\ plan[Current].loss \in Nat
        /\ Loss(plan, Append(path, Current)) = Loss(plan, path) + plan[Current].loss
    BY <1>1, <1>2, LossAppend
  <2> QED
    BY <1>2, <1>3, <2>1
<1>5. /\ HopArrival(plan[Current], bundle, Top.t_arrive) \in Int
      /\ HopMargin(plan[Current], bundle, Top.t_arrive) \in Int
  <2>1. plan[Current] \in ContactType /\ Top.t_arrive \in Int /\ bundle \in BundleType
    BY <1>1, PlanShape, StackShape DEF Types
  <2> QED
    BY <2>1, HopType
<1>6. /\ Signature.t_arrive = HopArrival(plan[Current], bundle, Top.t_arrive)
      /\ Signature.loss = Loss(plan, Path)
      /\ Signature \in Signatures
  BY <1>4, <1>5 DEF Signature, Signatures
<1>7. Path \in Seq(D) /\ Len(Path) = L + 1
  <2> HIDE DEF path, L, D
  <2> QED
    BY <1>1, <1>2, <1>3
<1>8. Path = [k \in 1 .. L + 1 |-> IF k = L + 1 THEN Current ELSE stack[k].contact]
  <2>1. DOMAIN Path = 1 .. L + 1 /\ Path[L + 1] = Current
    <3> HIDE DEF path, L, D
    <3> QED
      BY <1>1, <1>2, <1>3, <1>7
  <2>2. ASSUME NEW k \in 1 .. L + 1, k # L + 1
        PROVE  Path[k] = stack[k].contact
    <3>1. k \in 1 .. L /\ path[k] = stack[k].contact
      BY <1>1, <2>2
    <3> HIDE DEF path, L, D
    <3> QED
      BY <1>1, <1>2, <1>3, <3>1
  <2>3. Path = [k \in 1 .. L + 1 |-> Path[k]]
    <3> HIDE DEF path, L, D
    <3> QED
      BY <1>7
  <2> HIDE DEF L
  <2> QED
    BY <2>1, <2>2, <2>3
<1> QED
  BY <1>4, <1>6, <1>7, <1>8

\* Recording it forgets only signatures that are no better.
LEMMA SignaturesGrow ==
  ASSUME Types, SignatureTypes, SameArgs, Expanding, RecordSignature
  PROVE  /\ SignatureTypes' /\ Improves
         /\ \A node : SignaturesAt(node)' \subseteq
              SignaturesAt(node) \cup (IF node = plan[Current].to THEN {Signature} ELSE {})
         /\ \A node : node = plan[Current].to /\ node \in DOMAIN frontier' =>
                      Signature \in SignaturesAt(node)'
<1>0. PICK new : new = plan[Current].to
  OBVIOUS
<1>1. CASE ~Tracked(new)
  <2>1. frontier' = frontier /\ new \notin DOMAIN frontier
    BY <1>0, <1>1 DEF RecordSignature, Tracked
  <2>2. \A node : SignaturesAt(node)' = SignaturesAt(node)
    BY <2>1 DEF SignaturesAt
  <2>3. Improves
    <3> SUFFICES ASSUME NEW node, NEW s \in SignaturesAt(node)
                 PROVE  \E r \in SignaturesAt(node)' :
                          r.t_arrive <= s.t_arrive /\ r.loss <= s.loss
      BY DEF Improves
    <3>1. s.t_arrive \in Int /\ s.loss \in Int
      BY SignaturesTyped DEF Signatures
    <3> QED
      BY <2>2, <3>1
  <2>4. SignatureTypes'
    BY <2>1, <2>2 DEF SignatureTypes
  <2> QED
    BY <1>0, <2>1, <2>2, <2>3, <2>4
<1>2. CASE Tracked(new)
  <2>1. frontier' = [n \in DOMAIN frontier \cup {new} |->
                       IF n = new THEN Undominated \cup {Signature} ELSE frontier[n]]
    BY <1>0, <1>2 DEF RecordSignature
  <2>2. SignaturesAt(new)' = Undominated \cup {Signature}
    BY <2>1 DEF SignaturesAt
  <2>3. ASSUME NEW node, node # new
        PROVE  SignaturesAt(node)' = SignaturesAt(node)
    BY <2>1, <2>3 DEF SignaturesAt
  <2>4. Undominated \subseteq SignaturesAt(new)
    BY <1>0 DEF Undominated
  <2>5. Signature \in Signatures
    BY SignatureIs
  <2>6. \A node : SignaturesAt(node)' \subseteq Signatures
    BY <2>2, <2>3, <2>4, <2>5, SignaturesTyped
  <2>7. Improves
    <3> SUFFICES ASSUME NEW node, NEW s \in SignaturesAt(node)
                 PROVE  \E r \in SignaturesAt(node)' :
                          r.t_arrive <= s.t_arrive /\ r.loss <= s.loss
      BY DEF Improves
    <3>1. s.t_arrive \in Int /\ s.loss \in Int
      BY SignaturesTyped DEF Signatures
    <3>2. CASE s \in SignaturesAt(node)'
      BY <3>1, <3>2
    <3>3. CASE s \notin SignaturesAt(node)'
      <4>1. node = new /\ s \notin Undominated
        BY <2>2, <2>3, <3>3
      <4>2. Dominates(Signature, s)
        BY <1>0, <4>1 DEF Undominated
      <4> QED
        BY <2>2, <4>1, <4>2 DEF Dominates
    <3> QED
      BY <3>2, <3>3
  <2>8. SignatureTypes'
    BY <2>6 DEF SignatureTypes
  <2> QED
    BY <1>0, <2>2, <2>3, <2>4, <2>7, <2>8
<1> QED
  BY <1>1, <1>2

-----------------------------------------------------------------------------
(* What stays covered over every step *)

\* What is on the stack stays there, or is expanded when it goes.
HandsOver ==
  \A node : \A t \in Int : \A l \in Int :
    OnStack(node, t, l) => OnStack(node, t, l)' \/ Expanded(node, t, l)'

LEMMA OnStackStays ==
  ASSUME Types, SameArgs,
         \A n \in DOMAIN stack : /\ n \in DOMAIN stack'
                                 /\ stack'[n].contact = stack[n].contact
                                 /\ stack'[n].t_arrive = stack[n].t_arrive
  PROVE  \A node, t, l : OnStack(node, t, l) => OnStack(node, t, l)'
<1> SUFFICES ASSUME NEW node, NEW t, NEW l, OnStack(node, t, l)
             PROVE  OnStack(node, t, l)'
  OBVIOUS
<1>1. PICK n \in DOMAIN stack : /\ plan[stack[n].contact].to = node
                                /\ stack[n].t_arrive = t /\ PathLoss(n) = l
  BY DEF OnStack
<1>2. \A k \in 1 .. n : k \in DOMAIN stack
  BY StackShape
<1>3. PathLoss(n)' = PathLoss(n)
  BY <1>2, PathLossKept
<1>4. /\ plan'[stack'[n].contact].to = node
      /\ stack'[n].t_arrive = t /\ PathLoss(n)' = l /\ n \in DOMAIN stack'
  BY <1>1, <1>3 DEF SameArgs
<1> QED
  BY <1>4 DEF OnStack

LEMMA SeedStays ==
  ASSUME Types, SignatureTypes, SignatureTypes', Gains, HandsOver,
         NEW i \in DOMAIN plan, SeedPassed(i)
  PROVE  SeedPassed(i)'
<1>1. plan[i] \in ContactType /\ now \in Int /\ bundle \in BundleType
  BY PlanShape DEF Types
<1>2. PICK t \in Int : t = HopArrival(plan[i], bundle, now)
  BY <1>1, HopType
<1>3. PICK l \in Int : l = plan[i].loss
  BY <1>1 DEF ContactType
<1>4. PICK node : node = plan[i].to
  OBVIOUS
<1>5. PICK dst : dst = bundle.dst
  OBVIOUS
<1>6. Met(dst, t, l) => Met(dst, t, l)'
  BY MetStays
<1>7. OnStack(node, t, l) \/ Expanded(node, t, l) => OnStack(node, t, l)' \/ Expanded(node, t, l)'
  BY ExpandedStays DEF HandsOver
<1>8. HopFits(plan[i], bundle, now) =>
        IF node = dst THEN Met(dst, t, l) ELSE OnStack(node, t, l) \/ Expanded(node, t, l)
  BY <1>2, <1>3, <1>4, <1>5 DEF SeedPassed
<1>9. HopFits(plan[i], bundle, now) =>
        IF node = dst THEN Met(dst, t, l)' ELSE OnStack(node, t, l)' \/ Expanded(node, t, l)'
  BY <1>6, <1>7, <1>8
<1>10. /\ t = HopArrival(plan'[i], bundle', now') /\ l = plan'[i].loss
       /\ node = plan'[i].to /\ dst = bundle'.dst
       /\ HopFits(plan'[i], bundle', now') = HopFits(plan[i], bundle, now)
  BY <1>2, <1>3, <1>4, <1>5 DEF Gains, SameArgs
<1> QED
  BY <1>9, <1>10 DEF SeedPassed

LEMMA SeedsStay ==
  ASSUME Types, SignatureTypes, SignatureTypes', Gains, HandsOver, SeedsPassed,
         \A i \in seeds \ seeds' : i \in DOMAIN plan /\ SeedPassed(i)'
  PROVE  SeedsPassed'
<1>1. FromNode(plan, bundle.curr)' = FromNode(plan, bundle.curr)
      /\ FromNode(plan, bundle.curr) \subseteq DOMAIN plan
  BY PlanShape DEF FromNode, Gains, SameArgs
<1> SUFFICES ASSUME NEW i \in FromNode(plan, bundle.curr), i \notin seeds'
             PROVE  SeedPassed(i)'
  BY <1>1 DEF SeedsPassed
<1>2. CASE i \in seeds
  BY <1>2
<1>3. CASE i \notin seeds
  BY <1>1, <1>3, SeedStays DEF SeedsPassed
<1> QED
  BY <1>2, <1>3

\* Signatures that were there stay on the stack or expanded.
LEMMA SignatureStays ==
  ASSUME Types, SignatureTypes, SignatureTypes', Gains, HandsOver, SignaturesExpanded,
         NEW node, node # bundle.dst, NEW s \in SignaturesAt(node)
  PROVE  OnStack(node, s.t_arrive, s.loss)' \/ Expanded(node, s.t_arrive, s.loss)'
<1>1. s.t_arrive \in Int /\ s.loss \in Int
  BY SignaturesTyped DEF Signatures
<1>2. node \in DOMAIN frontier
  BY DEF SignaturesAt
<1>3. OnStack(node, s.t_arrive, s.loss) \/ Expanded(node, s.t_arrive, s.loss)
  BY <1>2 DEF SignaturesExpanded
<1>4. PICK t \in Int : t = s.t_arrive
  BY <1>1
<1>5. PICK l \in Int : l = s.loss
  BY <1>1
<1>6. OnStack(node, t, l)' \/ Expanded(node, t, l)'
  BY <1>3, <1>4, <1>5, ExpandedStays DEF HandsOver
<1> QED
  BY <1>4, <1>5, <1>6

\* What was met and passed from a frame stays so as long as its path does.
LEMMA FrameStays ==
  ASSUME Types, SignatureTypes, SignatureTypes', Gains,
         NEW n \in 1 .. Len(stack), \A k \in 1 .. n : stack'[k].contact = stack[k].contact,
         stack'[n].t_arrive = stack[n].t_arrive, stack'[n].visited = stack[n].visited,
         ContactsPassed(n), VisitedMet(n),
         \A i \in stack[n].rest \ stack'[n].rest : Passed(i, stack[n].t_arrive, PathLoss(n))'
  PROVE  ContactsPassed(n)' /\ VisitedMet(n)'
<1>1. stack[n].t_arrive \in Int /\ PathLoss(n) \in Int /\ stack[n].contact \in DOMAIN plan
      /\ n \in 1 .. n
  BY StackShape, PathLossType
<1>2. PICK t \in Int : t = stack[n].t_arrive
  BY <1>1
<1>3. PICK l \in Int : l = PathLoss(n)
  BY <1>1
<1>4. PathLoss(n)' = l
  BY <1>3, PathLossKept DEF Gains
<1>5. stack'[n].contact = stack[n].contact
  BY <1>1
<1>6. FromNode(plan', plan'[stack'[n].contact].to) = FromNode(plan, plan[stack[n].contact].to)
      /\ FromNode(plan, plan[stack[n].contact].to) \subseteq DOMAIN plan
  BY <1>5, PlanShape DEF Gains, SameArgs
<1>7. ASSUME NEW i \in FromNode(plan, plan[stack[n].contact].to), i \notin stack'[n].rest
      PROVE  Passed(i, t, l)'
  <2>1. CASE i \in stack[n].rest
    <3>1. Passed(i, stack[n].t_arrive, PathLoss(n))'
      BY <1>7, <2>1
    <3> QED
      BY <1>2, <1>4, <3>1 DEF Passed
  <2>2. CASE i \notin stack[n].rest
    <3>1. Passed(i, t, l) /\ i \in DOMAIN plan
      BY <1>2, <1>3, <1>6, <1>7, <2>2 DEF ContactsPassed
    <3> QED
      BY <3>1, PassedStays
  <2> QED
    BY <2>1, <2>2
<1>8. ContactsPassed(n)'
  BY <1>2, <1>4, <1>6, <1>7 DEF ContactsPassed
<1>9. ASSUME NEW node \in stack[n].visited, node # bundle.curr
      PROVE  Met(node, t, l)'
  <2>1. Met(node, t, l)
    BY <1>2, <1>3, <1>9 DEF VisitedMet
  <2> QED
    BY <2>1, MetStays
<1>10. bundle' = bundle
  BY DEF Gains, SameArgs
<1>11. VisitedMet(n)'
  BY <1>2, <1>4, <1>9, <1>10 DEF VisitedMet
<1> QED
  BY <1>8, <1>11

LEMMA DestinationStays ==
  ASSUME Types, SignatureTypes, SignatureTypes', Gains, DestinationMet,
         NEW s \in SignaturesAt(bundle.dst)
  PROVE  Met(bundle.dst, s.t_arrive, s.loss)'
<1>1. s.t_arrive \in Int /\ s.loss \in Int
  BY SignaturesTyped DEF Signatures
<1>2. PICK t \in Int : t = s.t_arrive
  BY <1>1
<1>3. PICK l \in Int : l = s.loss
  BY <1>1
<1>4. PICK dst : dst = bundle.dst
  OBVIOUS
<1>5. Met(dst, t, l)
  BY <1>2, <1>3, <1>4 DEF DestinationMet
<1>6. Met(dst, t, l)'
  BY <1>5, MetStays
<1> QED
  BY <1>2, <1>3, <1>4, <1>6 DEF Gains, SameArgs

-----------------------------------------------------------------------------
(* Every step covers what it drops *)

\* Every step but the recording of a signature leaves the frontier alone.
LEMMA FrontierStays ==
  ASSUME SignatureTypes, SameArgs, frontier' = frontier, found \subseteq found'
  PROVE  /\ SignatureTypes' /\ Gains
         /\ \A node : SignaturesAt(node)' = SignaturesAt(node)
<1>1. \A node : SignaturesAt(node)' = SignaturesAt(node)
  BY DEF SignaturesAt
<1>2. SignatureTypes'
  BY <1>1 DEF SignatureTypes
<1>3. Improves
  <2> SUFFICES ASSUME NEW node, NEW s \in SignaturesAt(node)
               PROVE  \E r \in SignaturesAt(node)' : r.t_arrive <= s.t_arrive /\ r.loss <= s.loss
    BY DEF Improves
  <2>1. s.t_arrive \in Int /\ s.loss \in Int
    BY SignaturesTyped DEF Signatures
  <2> QED
    BY <1>1, <2>1
<1> QED
  BY <1>1, <1>2, <1>3 DEF Gains

\* With the same signatures and what was on the stack handed over, those of all
\* nodes but the destination stay expanded and the destination's found.
LEMMA SignaturesStay ==
  ASSUME Types, SignatureTypes, SignatureTypes', Gains, HandsOver,
         SignaturesExpanded, DestinationMet, frontier' = frontier
  PROVE  SignaturesExpanded' /\ DestinationMet'
<1>1. \A node : SignaturesAt(node)' = SignaturesAt(node)
  BY DEF SignaturesAt
<1>2. bundle' = bundle
  BY DEF Gains, SameArgs
<1>3. SignaturesExpanded'
  <2> SUFFICES ASSUME NEW node \in DOMAIN frontier, node # bundle.dst, NEW s \in SignaturesAt(node)
               PROVE  OnStack(node, s.t_arrive, s.loss)' \/ Expanded(node, s.t_arrive, s.loss)'
    BY <1>1, <1>2 DEF SignaturesExpanded
  <2> QED
    BY SignatureStays
<1>4. DestinationMet'
  <2> SUFFICES ASSUME NEW s \in SignaturesAt(bundle.dst)
               PROVE  Met(bundle.dst, s.t_arrive, s.loss)'
    BY <1>1, <1>2 DEF DestinationMet
  <2> QED
    BY DestinationStays
<1> QED
  BY <1>3, <1>4

\* Steps that leave stack, frontier and what was found alone, and drop at most
\* seeds that cannot be crossed.
LEMMA QuietCovers ==
  ASSUME IInv, Coverage, SameArgs, stack' = stack, frontier' = frontier, found' = found,
         seeds' \subseteq seeds,
         \A i \in seeds \ seeds' : i \in DOMAIN plan /\ ~HopFits(plan[i], bundle, now)
  PROVE  Coverage'
<1>1. SignatureTypes' /\ Gains
  BY FrontierStays DEF Coverage
<1>2. Types /\ SignatureTypes
  BY DEF IInv, Coverage
<1>3. Stuck => Stuck'
  BY StuckStays
<1> SUFFICES ASSUME max_hops' = BundleMaxHops, ~Stuck'
             PROVE  NothingMissed'
  BY <1>1 DEF Coverage
<1>4. NothingMissed
  BY <1>3 DEF Coverage, SameArgs
<1>5. HandsOver
  <2>1. \A node, t, l : OnStack(node, t, l) => OnStack(node, t, l)'
    BY <1>2, OnStackStays
  <2> QED
    BY <2>1 DEF HandsOver
<1>6. SignaturesExpanded' /\ DestinationMet'
  BY <1>1, <1>2, <1>4, <1>5, SignaturesStay DEF NothingMissed
<1>7. SeedsPassed'
  <2>1. \A i \in seeds \ seeds' : i \in DOMAIN plan /\ SeedPassed(i)'
    BY DEF SeedPassed, SameArgs
  <2> QED
    BY <1>1, <1>2, <1>4, <1>5, <2>1, SeedsStay DEF NothingMissed
<1>8. FramesKept'
  <2> SUFFICES ASSUME NEW n \in 1 .. Len(stack)
               PROVE  ContactsPassed(n)' /\ VisitedMet(n)'
    BY <1>2, StackShape DEF FramesKept
  <2>1. ContactsPassed(n) /\ VisitedMet(n)
    BY <1>2, <1>4, StackShape DEF NothingMissed, FramesKept
  <2> QED
    BY <1>1, <1>2, <2>1, FrameStays
<1> QED
  BY <1>6, <1>7, <1>8 DEF NothingMissed

\* The bundle arrives over one contact when that hop does.
LEMMA SeedArrival ==
  ASSUME Types, NEW i \in DOMAIN plan
  PROVE  Arrival(plan, <<i>>, bundle, now) = HopArrival(plan[i], bundle, now)
<1>1. <<i>> \in Seq(DOMAIN plan) /\ Len(<<i>>) = 1 /\ <<i>>[1] = i
  OBVIOUS
<1>2. plan \in Seq(ContactType) /\ bundle \in BundleType /\ now \in Int
  BY DEF Types
<1>3. ArrivalTable(Arrivals(plan, <<i>>, bundle, now), plan, <<i>>, bundle, now)
  BY <1>1, <1>2, ArrivalsType
<1>4. 1 \in 1 .. 1 /\ 1 - 1 = 0
  OBVIOUS
<1> QED
  BY <1>1, <1>3, <1>4 DEF Arrival, ArrivalTable

LEMMA SkipSeedCovers ==
  ASSUME IInv, Coverage, SkipSeed
  PROVE  Coverage'
<1>1. /\ SameArgs /\ stack' = stack /\ frontier' = frontier /\ found' = found
      /\ seeds # {} /\ seeds' = seeds \ {Seed} /\ ~HopFits(plan[Seed], bundle, now)
  BY DEF SkipSeed, NextSeed, SameArgs, args
<1>2. Seed \in DOMAIN plan
  BY <1>1, SeedShape DEF IInv
<1>3. seeds' \subseteq seeds /\ \A i \in seeds \ seeds' : i = Seed
  BY <1>1
<1>4. \A i \in seeds \ seeds' : i \in DOMAIN plan /\ ~HopFits(plan[i], bundle, now)
  BY <1>1, <1>2, <1>3
<1> QED
  BY <1>1, <1>3, <1>4, QuietCovers

LEMMA DirectSeedCovers ==
  ASSUME IInv, Coverage, DirectSeed
  PROVE  Coverage'
<1>1. /\ SameArgs /\ pc = "seed" /\ stack' = stack /\ frontier' = frontier
      /\ seeds # {} /\ seeds' = seeds \ {Seed} /\ Offer(<<Seed>>)
      /\ plan[Seed].to = bundle.dst /\ HopFits(plan[Seed], bundle, now)
  BY DEF DirectSeed, NextSeed, SameArgs, args
<1>2. Types /\ SignatureTypes
  BY DEF IInv, Coverage
<1>3. Seed \in DOMAIN plan /\ seeds' \subseteq seeds
  BY <1>1, <1>2, SeedShape
<1>4. <<Seed>> \in Seq(DOMAIN plan) \ {<<>>}
  BY <1>1, <1>2, SeedIsRoute
<1>5. found' = found \cup {Candidate(<<Seed>>)}
  BY <1>1 DEF Offer
<1>6. SignatureTypes' /\ Gains
  BY <1>1, <1>2, <1>5, FrontierStays
<1>7. Stuck => Stuck'
  BY <1>1, StuckStays
<1> SUFFICES ASSUME max_hops' = BundleMaxHops, ~Stuck'
             PROVE  NothingMissed'
  BY <1>6 DEF Coverage
<1>8. NothingMissed
  BY <1>1, <1>7 DEF Coverage, SameArgs
<1>9. HandsOver
  <2>1. \A node, t, l : OnStack(node, t, l) => OnStack(node, t, l)'
    BY <1>1, <1>2, OnStackStays
  <2> QED
    BY <2>1 DEF HandsOver
<1>10. SignaturesExpanded' /\ DestinationMet'
  BY <1>1, <1>2, <1>6, <1>8, <1>9, SignaturesStay DEF NothingMissed
<1>11. SeedsPassed'
  <2>1. /\ Candidate(<<Seed>>).hops = <<Seed>>
        /\ Candidate(<<Seed>>).arrival = Arrival(plan, <<Seed>>, bundle, now)
    <3>1. Len(<<Seed>>) <= BundleMaxHops
      BY DEF BundleMaxHops
    <3> QED
      BY <1>2, <1>4, <3>1, CandidateType
  <2>2. Arrival(plan, <<Seed>>, bundle, now) = HopArrival(plan[Seed], bundle, now)
    BY <1>2, <1>3, SeedArrival
  <2>3. Loss(plan, <<Seed>>) = plan[Seed].loss /\ plan[Seed].loss \in Int
    <3>1. plan \in Seq(ContactType) /\ <<>> \in Seq(DOMAIN plan)
      BY <1>2 DEF Types
    <3>2. PICK i \in DOMAIN plan : i = Seed
      BY <1>3
    <3>3. Loss(plan, <<i>>) = plan[i].loss /\ plan[i].loss \in Nat
      BY <3>1, LossAppend
    <3> QED
      BY <3>2, <3>3
  <2>4. HopArrival(plan[Seed], bundle, now) \in Int
    <3>1. plan[Seed] \in ContactType /\ bundle \in BundleType /\ now \in Int
      BY <1>2, <1>3, PlanShape DEF Types
    <3> QED
      BY <3>1, HopType
  <2>5. \E r \in found' : /\ r.arrival <= HopArrival(plan[Seed], bundle, now)
                          /\ Loss(plan, r.hops) <= plan[Seed].loss
    <3>1. PICK r : r = Candidate(<<Seed>>)
      OBVIOUS
    <3>2. r \in found' /\ r.hops = <<Seed>> /\ r.arrival = HopArrival(plan[Seed], bundle, now)
      BY <1>5, <2>1, <2>2, <3>1
    <3>3. Loss(plan, r.hops) <= plan[Seed].loss
      BY <2>3, <3>2
    <3> QED
      BY <2>4, <3>2, <3>3
  <2>6. PICK i : i = Seed
    OBVIOUS
  <2>7. SeedPassed(i)'
    <3>1. \E r \in found' : /\ r.arrival <= HopArrival(plan'[i], bundle', now')
                            /\ Loss(plan', r.hops) <= plan'[i].loss
      BY <1>1, <2>5, <2>6 DEF SameArgs
    <3>2. plan'[i].to = bundle'.dst
      BY <1>1, <2>6 DEF SameArgs
    <3> QED
      BY <3>1, <3>2 DEF SeedPassed, Met
  <2>8. \A k \in seeds \ seeds' : k = i /\ i \in DOMAIN plan
    BY <1>1, <1>3, <2>6
  <2>9. \A k \in seeds \ seeds' : k \in DOMAIN plan /\ SeedPassed(k)'
    BY <2>7, <2>8
  <2> QED
    BY <1>2, <1>6, <1>8, <1>9, <2>9, SeedsStay DEF NothingMissed
<1>12. FramesKept'
  <2>1. stack' = <<>>
    BY <1>1, <1>2 DEF Types
  <2>2. DOMAIN stack' = {}
    BY <2>1
  <2> QED
    BY <2>2 DEF FramesKept
<1> QED
  BY <1>10, <1>11, <1>12 DEF NothingMissed

LEMMA StartSearchCovers ==
  ASSUME IInv, Coverage, StartSearch
  PROVE  Coverage'
<1> DEFINE frame == Frame(Seed, HopArrival(plan[Seed], bundle, now), {bundle.curr})
<1>1. /\ SameArgs /\ pc = "seed" /\ seeds # {} /\ seeds' = seeds \ {Seed}
      /\ stack' = <<frame>> /\ plan[Seed].to # bundle.dst
      /\ frontier' = frontier /\ found' = found
  BY DEF StartSearch, NextSeed, SameArgs, args
<1>2. Types /\ SignatureTypes
  BY DEF IInv, Coverage
<1>3. Seed \in DOMAIN plan
  BY <1>1, <1>2, SeedShape
<1>4. SignatureTypes' /\ Gains
  BY <1>1, <1>2, FrontierStays
<1>5. stack = <<>> /\ DOMAIN stack = {} /\ ~Stuck
  <2>1. stack = <<>>
    BY <1>1, <1>2 DEF Types
  <2> QED
    BY <2>1, NoFrames
<1>6. /\ frame.contact = Seed /\ frame.visited = {bundle.curr}
      /\ frame.t_arrive = HopArrival(plan[Seed], bundle, now)
      /\ frame.rest = FromNode(plan, plan[Seed].to)
  BY DEF Frame
<1> HIDE DEF frame
<1>7. DOMAIN stack' = {1} /\ stack'[1] = frame
  BY <1>1
<1> SUFFICES ASSUME max_hops' = BundleMaxHops, ~Stuck'
             PROVE  NothingMissed'
  BY <1>4 DEF Coverage
<1>8. NothingMissed
  BY <1>1, <1>5 DEF Coverage, SameArgs
<1>9. HandsOver
  BY <1>5 DEF HandsOver, OnStack
<1>10. SignaturesExpanded' /\ DestinationMet'
  BY <1>1, <1>2, <1>4, <1>8, <1>9, SignaturesStay DEF NothingMissed
<1>11. SeedsPassed'
  <2>1. PICK i \in DOMAIN plan : i = Seed
    BY <1>3
  <2>2. PathLoss(1)' = plan[i].loss
    <3>1. [k \in 1 .. 1 |-> stack'[k].contact] = <<i>>
      BY <1>6, <1>7, <2>1
    <3>2. plan \in Seq(ContactType) /\ <<>> \in Seq(DOMAIN plan)
      BY <1>2 DEF Types
    <3>3. Loss(plan, <<i>>) = plan[i].loss
      BY <3>2, LossAppend
    <3> QED
      BY <1>1, <3>1, <3>3 DEF PathLoss, SameArgs
  <2>3. SeedPassed(i)'
    <3>1. /\ plan'[stack'[1].contact].to = plan'[i].to
          /\ stack'[1].t_arrive = HopArrival(plan'[i], bundle', now')
          /\ PathLoss(1)' = plan'[i].loss /\ 1 \in DOMAIN stack'
          /\ plan'[i].to # bundle'.dst
      BY <1>1, <1>6, <1>7, <2>1, <2>2 DEF SameArgs
    <3> QED
      BY <3>1 DEF SeedPassed, OnStack
  <2>4. \A k \in seeds \ seeds' : k \in DOMAIN plan /\ SeedPassed(k)'
    <3>1. \A k \in seeds \ seeds' : k = i
      BY <1>1, <2>1
    <3> QED
      BY <2>3, <3>1
  <2> QED
    BY <1>2, <1>4, <1>8, <1>9, <2>4, SeedsStay DEF NothingMissed
<1>12. FramesKept'
  <2>1. ContactsPassed(1)'
    <3>1. FromNode(plan', plan'[stack'[1].contact].to) \ stack'[1].rest = {}
      BY <1>1, <1>6, <1>7 DEF SameArgs
    <3> QED
      BY <3>1 DEF ContactsPassed
  <2>2. VisitedMet(1)'
    <3>1. stack'[1].visited \ {bundle'.curr} = {}
      BY <1>1, <1>6, <1>7 DEF SameArgs
    <3> QED
      BY <3>1 DEF VisitedMet
  <2> QED
    BY <1>7, <2>1, <2>2 DEF FramesKept
<1> QED
  BY <1>10, <1>11, <1>12 DEF NothingMissed

\* A frame that is popped has passed all its contacts: as long as the search is
\* not stuck, no path is too long.
LEMMA PopFrameCovers ==
  ASSUME IInv, Coverage, PopFrame
  PROVE  Coverage'
<1> DEFINE L == Len(stack)
<1>1. /\ SameArgs /\ pc = "expand" /\ Exhausted /\ stack' = SubSeq(stack, 1, L - 1)
      /\ seeds' = seeds /\ frontier' = frontier /\ found' = found
  BY DEF PopFrame, SameArgs, args, Front
<1>2. Types /\ SignatureTypes
  BY DEF IInv, Coverage
<1>3. L \in Nat /\ DOMAIN stack = 1 .. L /\ stack \in Seq(Frames) /\ L \in 1 .. L /\ Top = stack[L]
  BY <1>1, <1>2, TopShape, StackShape DEF Types
<1>4. SignatureTypes' /\ Gains
  BY <1>1, <1>2, FrontierStays
<1>5. Stuck => Stuck'
  BY PopFrameKeeps
<1> SUFFICES ASSUME max_hops' = BundleMaxHops, ~Stuck'
             PROVE  NothingMissed'
  BY <1>4 DEF Coverage
<1>6. NothingMissed
  BY <1>1, <1>5 DEF Coverage, SameArgs
<1>7. Top.rest = {}
  <2>1. ~(L >= BundleMaxHops) /\ max_hops = BundleMaxHops
    BY <1>1, <1>5, LongPathsAreStuck DEF SameArgs
  <2> QED
    BY <1>1, <1>3, <2>1 DEF Exhausted, BundleMaxHops
<1> HIDE DEF L
<1>8. /\ DOMAIN stack' = 1 .. L - 1
      /\ \A n \in 1 .. L - 1 : stack'[n] = stack[n] /\ n \in 1 .. L
  BY <1>1, <1>3
<1>9. HandsOver
  <2> SUFFICES ASSUME NEW node, NEW t \in Int, NEW l \in Int, OnStack(node, t, l)
               PROVE  OnStack(node, t, l)' \/ Expanded(node, t, l)'
    BY DEF HandsOver
  <2>1. PICK n \in DOMAIN stack : /\ plan[stack[n].contact].to = node
                                  /\ stack[n].t_arrive = t /\ PathLoss(n) = l
    BY DEF OnStack
  <2>2. CASE n = L
    <3>1. ContactsPassed(L)
      BY <1>3, <1>6 DEF NothingMissed, FramesKept
    <3>2. Expanded(node, t, l)
      BY <1>3, <1>7, <2>1, <2>2, <3>1 DEF ContactsPassed, Expanded
    <3> QED
      BY <1>2, <1>4, <3>2, ExpandedStays
  <2>3. CASE n # L
    <3>1. n \in 1 .. L - 1 /\ \A k \in 1 .. n : k \in 1 .. L - 1
      BY <1>3, <2>3
    <3>2. PathLoss(n)' = PathLoss(n)
      BY <1>1, <1>8, <3>1, PathLossKept
    <3>3. n \in DOMAIN stack' /\ plan'[stack'[n].contact].to = node /\ stack'[n].t_arrive = t
      BY <1>1, <1>8, <2>1, <3>1 DEF SameArgs
    <3> QED
      BY <2>1, <3>2, <3>3 DEF OnStack
  <2> QED
    BY <2>2, <2>3
<1>10. SignaturesExpanded' /\ DestinationMet'
  BY <1>1, <1>2, <1>4, <1>6, <1>9, SignaturesStay DEF NothingMissed
<1>11. SeedsPassed'
  BY <1>1, <1>2, <1>4, <1>6, <1>9, SeedsStay DEF NothingMissed
<1>12. FramesKept'
  <2> SUFFICES ASSUME NEW n \in 1 .. L - 1
               PROVE  ContactsPassed(n)' /\ VisitedMet(n)'
    BY <1>8 DEF FramesKept
  <2>1. ContactsPassed(n) /\ VisitedMet(n)
    BY <1>3, <1>6, <1>8 DEF NothingMissed, FramesKept
  <2>2. n \in 1 .. Len(stack) /\ \A k \in 1 .. n : k \in 1 .. L - 1
    BY <1>3, <1>8 DEF L
  <2>3. \A k \in 1 .. n : stack'[k].contact = stack[k].contact
    BY <1>8, <2>2
  <2>4. stack'[n] = stack[n]
    BY <1>8
  <2> QED
    BY <1>2, <1>4, <2>1, <2>2, <2>3, <2>4, FrameStays
<1> QED
  BY <1>10, <1>11, <1>12 DEF NothingMissed

\* Passing a contact keeps what is covered if that contact is.
LEMMA PassCovers ==
  ASSUME IInv, SignatureTypes, SignatureTypes', Gains, NothingMissed, Expanding, PassCurrent,
         seeds' = seeds, NEW t \in Int, t = Top.t_arrive, NEW l \in Int, l = PathLoss(Len(stack)),
         NEW i \in DOMAIN plan, i = Current, Passed(i, t, l)'
  PROVE  HandsOver /\ SeedsPassed' /\ FramesKept'
<1> DEFINE L == Len(stack)
<1>1. Types /\ SameArgs
  BY DEF IInv, Gains
<1>2. L \in Nat /\ DOMAIN stack = 1 .. L /\ L \in 1 .. L /\ Top = stack[L]
  BY <1>1, TopShape, StackShape DEF Expanding
<1>3. /\ DOMAIN stack' = DOMAIN stack
      /\ \A n \in DOMAIN stack : /\ n # L => stack'[n] = stack[n]
                                 /\ stack'[n].contact = stack[n].contact
                                 /\ stack'[n].t_arrive = stack[n].t_arrive
                                 /\ stack'[n].visited = stack[n].visited
      /\ stack'[L].rest = Top.rest \ {Current}
  BY <1>1, PassKeeps DEF IInv
<1>4. HandsOver
  <2>1. \A node, u, m : OnStack(node, u, m) => OnStack(node, u, m)'
    BY <1>1, <1>3, OnStackStays
  <2> QED
    BY <2>1 DEF HandsOver
<1>5. SeedsPassed'
  BY <1>1, <1>4, SeedsStay DEF NothingMissed
<1>6. FramesKept'
  <2> SUFFICES ASSUME NEW n \in 1 .. L
               PROVE  ContactsPassed(n)' /\ VisitedMet(n)'
    BY <1>2, <1>3 DEF FramesKept
  <2>1. ContactsPassed(n) /\ VisitedMet(n)
    BY <1>2 DEF NothingMissed, FramesKept
  <2>2. \A k \in 1 .. n : k \in DOMAIN stack
    BY <1>2
  <2>3. \A k \in 1 .. n : stack'[k].contact = stack[k].contact
    BY <1>3, <2>2
  <2>4. stack'[n].t_arrive = stack[n].t_arrive /\ stack'[n].visited = stack[n].visited
    BY <1>2, <1>3
  <2>5. PathLoss(n)' = PathLoss(n)
    BY <1>1, <2>3, PathLossKept
  <2>6. \A k \in stack[n].rest \ stack'[n].rest : Passed(k, stack[n].t_arrive, PathLoss(n))'
    <3>1. CASE n = L
      <4>1. \A k \in stack[n].rest \ stack'[n].rest : k = i
        BY <1>2, <1>3, <3>1
      <4>2. stack'[n].t_arrive = t /\ PathLoss(n)' = l
        BY <1>2, <2>4, <2>5, <3>1
      <4>3. Passed(i, stack[n].t_arrive, PathLoss(n))'
        BY <4>2 DEF Passed
      <4> QED
        BY <4>1, <4>3
    <3>2. CASE n # L
      <4>1. stack[n].rest \ stack'[n].rest = {}
        BY <1>2, <1>3, <3>2
      <4> QED
        BY <4>1
    <3> QED
      BY <3>1, <3>2
  <2> QED
    BY <1>1, <2>1, <2>3, <2>4, <2>6, FrameStays
<1> QED
  BY <1>4, <1>5, <1>6

\* Arriving over the contact looked at, a bundle is later than at the top frame's
\* node, and its loss is no smaller.
LEMMA NextHop ==
  ASSUME Types, Expanding
  PROVE  /\ Current \in DOMAIN plan /\ plan[Current] \in ContactType
         /\ Top.t_arrive \in Int /\ PathLoss(Len(stack)) \in Int
         /\ Signature.t_arrive = HopArrival(plan[Current], bundle, Top.t_arrive)
         /\ Signature.t_arrive \in Int /\ Top.t_arrive <= Signature.t_arrive
         /\ Signature.loss = PathLoss(Len(stack)) + plan[Current].loss
         /\ Signature.loss \in Int /\ PathLoss(Len(stack)) <= Signature.loss
<1> DEFINE L == Len(stack)
<1>1. L \in 1 .. L /\ Top = stack[L] /\ Current \in DOMAIN plan
  BY TopShape, StackShape DEF Expanding, Exhausted
<1>2. plan[Current] \in ContactType /\ Top.t_arrive \in Int /\ PathLoss(L) \in Int
      /\ bundle \in BundleType
  BY <1>1, PlanShape, StackShape, PathLossType DEF Types
<1>3. plan[Current].loss \in Nat
  BY <1>2 DEF ContactType
<1>4. /\ Signature.t_arrive = HopArrival(plan[Current], bundle, Top.t_arrive)
      /\ Signature.loss = PathLoss(L) + plan[Current].loss
  BY SignatureIs
<1>5. Top.t_arrive <= HopArrival(plan[Current], bundle, Top.t_arrive)
      /\ HopArrival(plan[Current], bundle, Top.t_arrive) \in Int
  <2>1. Top.t_arrive <= Top.t_arrive
    BY <1>2
  <2> QED
    BY <1>2, <2>1, HopMonotone, HopType
<1> HIDE DEF L
<1>6. Signature.loss \in Int /\ PathLoss(L) <= Signature.loss
  BY <1>2, <1>3, <1>4
<1> QED
  BY <1>1, <1>2, <1>4, <1>5, <1>6 DEF L

\* A contact to a node visited, one that the bundle cannot cross, and one
\* whose arrival is dominated: nothing is lost by skipping it.
LEMMA SkippedIsPassed ==
  ASSUME Types, SignatureTypes, NothingMissed, Expanding, ~Admissible
  PROVE  Passed(Current, Top.t_arrive, PathLoss(Len(stack)))
<1> DEFINE L == Len(stack)
           node == plan[Current].to
<1>1. /\ Top.t_arrive \in Int /\ PathLoss(L) \in Int
      /\ Signature.t_arrive = HopArrival(plan[Current], bundle, Top.t_arrive)
      /\ Signature.t_arrive \in Int /\ Top.t_arrive <= Signature.t_arrive
      /\ Signature.loss = PathLoss(L) + plan[Current].loss
      /\ Signature.loss \in Int /\ PathLoss(L) <= Signature.loss
  BY NextHop
<1>2. L \in DOMAIN stack /\ Top = stack[L]
  BY TopShape, StackShape DEF Expanding
<1> SUFFICES ASSUME node # bundle.curr, HopFits(plan[Current], bundle, Top.t_arrive)
             PROVE  Met(node, Signature.t_arrive, Signature.loss)
  BY <1>1 DEF Passed
<1>3. CASE node \in Top.visited
  <2>1. Met(node, Top.t_arrive, PathLoss(L))
    BY <1>2, <1>3 DEF NothingMissed, FramesKept, VisitedMet
  <2> QED
    BY <1>1, <2>1, MetLater
<1>4. CASE \E s \in SignaturesAt(node) : Dominates(s, Signature)
  <2>1. PICK s \in SignaturesAt(node) : Dominates(s, Signature)
    BY <1>4
  <2>2. s.t_arrive \in Int /\ s.loss \in Int
    BY SignaturesTyped DEF Signatures
  <2>3. s.t_arrive <= Signature.t_arrive /\ s.loss <= Signature.loss
    BY <2>1 DEF Dominates
  <2>4. Met(node, s.t_arrive, s.loss)
    <3>1. CASE node = bundle.dst
      BY <3>1 DEF NothingMissed, DestinationMet
    <3>2. CASE node # bundle.dst
      BY <2>2, <3>2 DEF Met
    <3> QED
      BY <3>1, <3>2
  <2> QED
    BY <1>1, <2>2, <2>3, <2>4, MetLater
<1> QED
  BY <1>3, <1>4 DEF Admissible

LEMMA SkipContactCovers ==
  ASSUME IInv, Coverage, SkipContact
  PROVE  Coverage'
<1>1. /\ SameArgs /\ Expanding /\ ~Admissible /\ PassCurrent
      /\ seeds' = seeds /\ frontier' = frontier /\ found' = found
  BY DEF SkipContact, SameArgs, args
<1>2. Types /\ SignatureTypes
  BY DEF IInv, Coverage
<1>3. SignatureTypes' /\ Gains
  BY <1>1, <1>2, FrontierStays
<1>4. Stuck => Stuck'
  BY SkipContactKeeps
<1> SUFFICES ASSUME max_hops' = BundleMaxHops, ~Stuck'
             PROVE  NothingMissed'
  BY <1>3 DEF Coverage
<1>5. NothingMissed
  BY <1>1, <1>4 DEF Coverage, SameArgs
<1>6. PICK t \in Int : t = Top.t_arrive
  BY <1>1, <1>2, NextHop
<1>7. PICK l \in Int : l = PathLoss(Len(stack))
  BY <1>1, <1>2, NextHop
<1>8. PICK i \in DOMAIN plan : i = Current
  BY <1>1, <1>2, NextHop
<1>9. Passed(i, t, l)'
  <2>1. Passed(i, t, l)
    BY <1>1, <1>2, <1>5, <1>6, <1>7, <1>8, SkippedIsPassed
  <2> QED
    BY <1>2, <1>3, <2>1, PassedStays
<1>10. HandsOver /\ SeedsPassed' /\ FramesKept'
  BY <1>1, <1>3, <1>2, <1>5, <1>6, <1>7, <1>8, <1>9, PassCovers
<1>11. SignaturesExpanded' /\ DestinationMet'
  BY <1>1, <1>2, <1>3, <1>5, <1>10, SignaturesStay DEF NothingMissed
<1> QED
  BY <1>10, <1>11 DEF NothingMissed

LEMMA ReachDestinationCovers ==
  ASSUME IInv, Coverage, ReachDestination
  PROVE  Coverage'
<1>1. /\ SameArgs /\ Expanding /\ Admissible /\ plan[Current].to = bundle.dst
      /\ RecordSignature /\ Offer(Path) /\ PassCurrent /\ seeds' = seeds
  BY DEF ReachDestination, SameArgs, args
<1>2. Types /\ PathSound /\ SignatureTypes
  BY DEF IInv, Coverage
<1>3. found' = found \cup {Candidate(Path)}
  BY <1>1 DEF Offer
<1>4. /\ SignatureTypes' /\ Gains
      /\ \A node : SignaturesAt(node)' \subseteq
           SignaturesAt(node) \cup (IF node = bundle.dst THEN {Signature} ELSE {})
  BY <1>1, <1>2, <1>3, SignaturesGrow DEF Gains
<1>5. Stuck => Stuck'
  BY ReachDestinationKeeps
<1> SUFFICES ASSUME max_hops' = BundleMaxHops, ~Stuck'
             PROVE  NothingMissed'
  BY <1>4 DEF Coverage
<1>6. NothingMissed
  BY <1>1, <1>5 DEF Coverage, SameArgs
<1>7. PICK t \in Int : t = Top.t_arrive
  BY <1>1, <1>2, NextHop
<1>8. PICK l \in Int : l = PathLoss(Len(stack))
  BY <1>1, <1>2, NextHop
<1>9. PICK i \in DOMAIN plan : i = Current
  BY <1>1, <1>2, NextHop
<1>10. PICK u \in Int : u = Signature.t_arrive
  BY <1>1, <1>2, NextHop
<1>11. PICK m \in Int : m = Signature.loss
  BY <1>1, <1>2, NextHop
<1>12. u = HopArrival(plan[i], bundle, t) /\ m = l + plan[i].loss
  BY <1>1, <1>2, <1>7, <1>8, <1>9, <1>10, <1>11, NextHop
<1>13. PICK dst : dst = bundle.dst
  OBVIOUS
<1>14. Met(dst, u, m)'
  <2>1. /\ Path \in Seq(DOMAIN plan) \ {<<>>} /\ Len(Path) = Len(stack) + 1
        /\ Arrival(plan, Path, bundle, now) = u
    BY <1>1, <1>2, <1>7, <1>9, <1>12, PathIsRoute
  <2>2. Len(Path) <= BundleMaxHops
    <3>1. ~(Len(stack) >= BundleMaxHops) /\ Len(stack) \in Nat
      BY <1>2, <1>5, LongPathsAreStuck, StackShape
    <3> QED
      BY <2>1, <3>1 DEF BundleMaxHops
  <2>3. PICK r : r = Candidate(Path)
    OBVIOUS
  <2>4. r.hops = Path /\ r.arrival = u
    BY <1>2, <2>1, <2>2, <2>3, CandidateType
  <2>5. Loss(plan, r.hops) = m
    BY <1>1, <1>2, <1>8, <1>9, <1>12, <2>4, SignatureIs
  <2>6. r \in found' /\ r.arrival <= u /\ Loss(plan', r.hops) <= m /\ dst = bundle'.dst
    BY <1>1, <1>3, <1>13, <2>3, <2>4, <2>5 DEF SameArgs
  <2> QED
    BY <2>6 DEF Met
<1>15. Passed(i, t, l)'
  <2>1. /\ plan'[i].to = dst /\ HopArrival(plan'[i], bundle', t) = u
        /\ l + plan'[i].loss = m
    BY <1>1, <1>9, <1>12, <1>13 DEF SameArgs
  <2> QED
    BY <1>14, <2>1 DEF Passed
<1>16. HandsOver /\ SeedsPassed' /\ FramesKept'
  BY <1>1, <1>2, <1>4, <1>6, <1>7, <1>8, <1>9, <1>15, PassCovers
<1>17. SignaturesExpanded'
  <2> SUFFICES ASSUME NEW node, node # bundle.dst, NEW s \in SignaturesAt(node)'
               PROVE  OnStack(node, s.t_arrive, s.loss)' \/ Expanded(node, s.t_arrive, s.loss)'
    BY <1>1 DEF SignaturesExpanded, SameArgs
  <2>1. s \in SignaturesAt(node)
    BY <1>4
  <2> QED
    BY <1>2, <1>4, <1>6, <1>16, <2>1, SignatureStays DEF NothingMissed
<1>18. DestinationMet'
  <2>1. ASSUME NEW s \in SignaturesAt(dst)'
        PROVE  Met(dst, s.t_arrive, s.loss)'
    <3>1. CASE s \in SignaturesAt(dst)
      <4>1. Met(bundle.dst, s.t_arrive, s.loss)'
        BY <1>2, <1>4, <1>6, <1>13, <3>1, DestinationStays DEF NothingMissed
      <4> QED
        BY <1>1, <1>13, <4>1 DEF SameArgs
    <3>2. CASE s = Signature
      BY <1>10, <1>11, <1>14, <3>2
    <3> QED
      BY <1>4, <1>13, <3>1, <3>2
  <2>2. bundle'.dst = dst
    BY <1>1, <1>13 DEF SameArgs
  <2> QED
    BY <2>1, <2>2 DEF DestinationMet
<1> QED
  BY <1>16, <1>17, <1>18 DEF NothingMissed

\* The node a frame is pushed for is in the table, or the search is stuck.
LEMMA PushFrameCovers ==
  ASSUME IInv, Coverage, PushFrame
  PROVE  Coverage'
<1> DEFINE L     == Len(stack)
           frame == Frame(Current, Signature.t_arrive, Top.visited \cup {plan[Current].to})
<1>1. /\ SameArgs /\ Expanding /\ plan[Current].to # bundle.dst /\ RecordSignature
      /\ stack' = Append(stack, frame) /\ seeds' = seeds /\ found' = found
  BY DEF PushFrame, SameArgs, args
<1>2. Types /\ SignatureTypes
  BY DEF IInv, Coverage
<1>3. /\ SignatureTypes' /\ Gains
      /\ \A nd : SignaturesAt(nd)' \subseteq
           SignaturesAt(nd) \cup (IF nd = plan[Current].to THEN {Signature} ELSE {})
      /\ \A nd : nd = plan[Current].to /\ nd \in DOMAIN frontier' => Signature \in SignaturesAt(nd)'
  BY <1>1, <1>2, SignaturesGrow DEF Gains
<1>4. (Stuck => Stuck') /\ (plan[Current].to \notin DOMAIN frontier' => Stuck')
  BY PushFrameKeeps
<1> SUFFICES ASSUME max_hops' = BundleMaxHops, ~Stuck'
             PROVE  NothingMissed'
  BY <1>3 DEF Coverage
<1>5. NothingMissed
  BY <1>1, <1>4 DEF Coverage, SameArgs
<1>6. PICK node : node = plan[Current].to
  OBVIOUS
<1>7. PICK u \in Int : u = Signature.t_arrive
  BY <1>1, <1>2, NextHop
<1>8. PICK m \in Int : m = Signature.loss
  BY <1>1, <1>2, NextHop
<1>9. node # bundle.dst /\ bundle' = bundle /\ plan' = plan
  BY <1>1, <1>6 DEF SameArgs
<1>10. Signature \in SignaturesAt(node)'
  BY <1>3, <1>4, <1>6
<1>11. Met(node, u, m)'
  BY <1>7, <1>8, <1>9, <1>10 DEF Met
<1>12. /\ L \in Nat /\ DOMAIN stack = 1 .. L /\ L \in 1 .. L /\ Top = stack[L]
       /\ stack \in Seq(Frames)
  BY <1>1, <1>2, TopShape, StackShape DEF Expanding, Types
<1>13. /\ frame.contact = Current /\ frame.t_arrive = u
       /\ frame.visited = Top.visited \cup {node}
       /\ frame.rest = FromNode(plan, node)
  BY <1>6, <1>7 DEF Frame
<1> HIDE DEF frame, L
<1>14. /\ DOMAIN stack' = 1 .. L + 1 /\ stack'[L + 1] = frame
       /\ \A n \in 1 .. L : stack'[n] = stack[n] /\ n \in DOMAIN stack' /\ n # L + 1
  BY <1>1, <1>12
<1>15. HandsOver
  <2>1. \A nd, t, l : OnStack(nd, t, l) => OnStack(nd, t, l)'
    BY <1>1, <1>2, <1>12, <1>14, OnStackStays
  <2> QED
    BY <2>1 DEF HandsOver
<1>16. SeedsPassed'
  BY <1>1, <1>2, <1>3, <1>5, <1>15, SeedsStay DEF NothingMissed
<1>17. PICK n \in 1 .. L + 1 : n = L + 1
  BY <1>12
<1>18. PathLoss(n)' = m
  <2>1. [k \in 1 .. n |-> stack'[k].contact] = Path
    <3>1. Path = [k \in 1 .. L + 1 |-> IF k = L + 1 THEN Current ELSE stack[k].contact]
      BY <1>1, <1>2, SignatureIs DEF L
    <3>2. ASSUME NEW k \in 1 .. L + 1
          PROVE  stack'[k].contact = IF k = L + 1 THEN Current ELSE stack[k].contact
      <4>1. k # L + 1 => k \in 1 .. L
        BY <1>12
      <4> QED
        BY <1>13, <1>14, <4>1
    <3> QED
      BY <1>17, <3>1, <3>2
  <2>2. Loss(plan, Path) = m
    BY <1>1, <1>2, <1>8, SignatureIs
  <2> QED
    BY <1>9, <2>1, <2>2 DEF PathLoss
<1>19. SignaturesExpanded'
  <2> SUFFICES ASSUME NEW nd, nd # bundle.dst, NEW s \in SignaturesAt(nd)'
               PROVE  OnStack(nd, s.t_arrive, s.loss)' \/ Expanded(nd, s.t_arrive, s.loss)'
    BY <1>9 DEF SignaturesExpanded
  <2>1. CASE s \in SignaturesAt(nd)
    BY <1>2, <1>3, <1>5, <1>15, <2>1, SignatureStays DEF NothingMissed
  <2>2. CASE nd = node /\ s = Signature
    <3>1. /\ plan'[stack'[n].contact].to = node /\ stack'[n].t_arrive = u
          /\ n \in DOMAIN stack'
      BY <1>6, <1>9, <1>13, <1>14, <1>17
    <3>2. OnStack(node, u, m)'
      BY <1>18, <3>1 DEF OnStack
    <3> QED
      BY <1>7, <1>8, <2>2, <3>2
  <2> QED
    BY <1>3, <1>6, <2>1, <2>2
<1>20. FramesKept'
  <2>1. ASSUME NEW k \in 1 .. L
        PROVE  ContactsPassed(k)' /\ VisitedMet(k)'
    <3>1. ContactsPassed(k) /\ VisitedMet(k)
      BY <1>5, <1>12 DEF NothingMissed, FramesKept
    <3>2. \A j \in 1 .. k : j \in 1 .. L
      BY <1>12
    <3>3. \A j \in 1 .. k : stack'[j].contact = stack[j].contact
      BY <1>14, <3>2
    <3>4. stack'[k] = stack[k]
      BY <1>14
    <3> QED
      BY <1>2, <1>3, <3>1, <3>3, <3>4, FrameStays DEF L
  <2>2. ContactsPassed(n)'
    <3>1. FromNode(plan', plan'[stack'[n].contact].to) \ stack'[n].rest = {}
      BY <1>6, <1>9, <1>13, <1>14, <1>17
    <3> QED
      BY <3>1 DEF ContactsPassed
  <2>3. VisitedMet(n)'
    <3>1. ASSUME NEW v \in Top.visited, v # bundle.curr
          PROVE  Met(v, u, m)'
      <4>1. Met(v, Top.t_arrive, PathLoss(L))
        BY <1>5, <1>12, <3>1 DEF NothingMissed, FramesKept, VisitedMet
      <4>2. /\ Top.t_arrive \in Int /\ Top.t_arrive <= u
            /\ PathLoss(L) \in Int /\ PathLoss(L) <= m
        BY <1>1, <1>2, <1>7, <1>8, NextHop DEF L
      <4>3. Met(v, u, m)
        BY <1>2, <4>1, <4>2, MetLater
      <4> QED
        BY <1>2, <1>3, <4>3, MetStays
    <3>2. \A v \in stack'[n].visited \ {bundle'.curr} : Met(v, u, m)'
      BY <1>9, <1>11, <1>13, <1>14, <1>17, <3>1
    <3>3. stack'[n].t_arrive = u
      BY <1>13, <1>14, <1>17
    <3> QED
      BY <1>18, <3>2, <3>3 DEF VisitedMet
  <2>4. \A k \in DOMAIN stack' : k = n \/ k \in 1 .. L
    BY <1>12, <1>14, <1>17
  <2> QED
    BY <2>1, <2>2, <2>3, <2>4 DEF FramesKept
<1>21. DestinationMet'
  <2>1. ASSUME NEW s \in SignaturesAt(bundle.dst)'
        PROVE  Met(bundle.dst, s.t_arrive, s.loss)'
    <3>1. s \in SignaturesAt(bundle.dst)
      <4>1. PICK dst : dst = bundle.dst
        OBVIOUS
      <4>2. SignaturesAt(dst)' \subseteq SignaturesAt(dst)
        BY <1>3, <1>6, <1>9, <4>1
      <4> QED
        BY <1>9, <4>1, <4>2
    <3> QED
      BY <1>2, <1>3, <1>5, <3>1, DestinationStays DEF NothingMissed
  <2> QED
    BY <1>9, <2>1 DEF DestinationMet
<1> QED
  BY <1>16, <1>19, <1>20, <1>21 DEF NothingMissed

-----------------------------------------------------------------------------
(* Coverage is inductive *)

LEMMA CoveredInitially ==
  ASSUME Init
  PROVE  Coverage
<1>1. /\ seeds = FromNode(plan, bundle.curr) /\ DOMAIN stack = {} /\ DOMAIN frontier = {}
  BY DEF Init
<1>2. SignatureTypes /\ SignaturesExpanded
  BY <1>1 DEF SignatureTypes, SignaturesExpanded
<1>3. SeedsPassed /\ FramesKept
  BY <1>1 DEF SeedsPassed, FramesKept
<1>4. DestinationMet
  BY <1>1 DEF DestinationMet, SignaturesAt
<1> QED
  BY <1>2, <1>3, <1>4 DEF Coverage, NothingMissed

LEMMA Covered == Spec => []Coverage
<1>1. IInv /\ Coverage /\ [Step]_vars => Coverage'
  <2> SUFFICES ASSUME IInv, Coverage, [Step]_vars
               PROVE  Coverage'
    OBVIOUS
  <2>1. CASE SkipSeed
    BY <2>1, SkipSeedCovers
  <2>2. CASE DirectSeed
    BY <2>2, DirectSeedCovers
  <2>3. CASE StartSearch
    BY <2>3, StartSearchCovers
  <2>4. CASE Finish
    <3>1. SameArgs /\ stack' = stack /\ frontier' = frontier /\ found' = found /\ seeds' = seeds
      BY <2>4 DEF Finish, SameArgs, args, search
    <3> QED
      BY <3>1, QuietCovers
  <2>5. CASE PopFrame
    BY <2>5, PopFrameCovers
  <2>6. CASE SkipContact
    BY <2>6, SkipContactCovers
  <2>7. CASE ReachDestination
    BY <2>7, ReachDestinationCovers
  <2>8. CASE PushFrame
    BY <2>8, PushFrameCovers
  <2>9. CASE Overflow
    <3>1. SameArgs /\ stack' = stack /\ frontier' = frontier /\ found' = found /\ seeds' = seeds
      BY <2>9 DEF Overflow, SameArgs, args, search
    <3> QED
      BY <3>1, QuietCovers
  <2>10. CASE UNCHANGED vars
    <3>1. SameArgs /\ stack' = stack /\ frontier' = frontier /\ found' = found /\ seeds' = seeds
      BY <2>10 DEF vars, SameArgs
    <3> QED
      BY <3>1, QuietCovers
  <2> QED
    BY <2>1, <2>2, <2>3, <2>4, <2>5, <2>6, <2>7, <2>8, <2>9, <2>10 DEF Step
<1> QED
  BY CoveredInitially, Inductive, <1>1, PTL DEF Spec

-----------------------------------------------------------------------------
(* What the search met, hop by hop along any route *)

\* The search met the destination, or looked at all that goes on from the node,
\* as early as t and with no more than the loss l.
Reached(node, t, l) ==
  IF node = bundle.dst
  THEN Met(node, t, l)
  ELSE \E u, m \in Int : u <= t /\ m <= l /\ Expanded(node, u, m)

\* No search is under way and nothing was missed.
AtRest == Types /\ SignatureTypes /\ NothingMissed /\ stack = <<>> /\ seeds = {}

LEMMA MetIsReached ==
  ASSUME AtRest, NEW node, NEW t \in Int, NEW l \in Int, Met(node, t, l)
  PROVE  Reached(node, t, l)
<1>1. CASE node = bundle.dst
  BY <1>1 DEF Reached
<1>2. CASE node # bundle.dst
  <2>1. PICK s \in SignaturesAt(node) : s.t_arrive <= t /\ s.loss <= l
    BY <1>2 DEF Met
  <2>2. s.t_arrive \in Int /\ s.loss \in Int
    BY SignaturesTyped DEF AtRest, Signatures
  <2>3. node \in DOMAIN frontier
    BY DEF SignaturesAt
  <2>4. ~OnStack(node, s.t_arrive, s.loss)
    BY DEF AtRest, OnStack
  <2>5. Expanded(node, s.t_arrive, s.loss)
    BY <1>2, <2>3, <2>4 DEF AtRest, NothingMissed, SignaturesExpanded
  <2> QED
    BY <1>2, <2>1, <2>2, <2>5 DEF Reached
<1> QED
  BY <1>1, <1>2

LEMMA FirstHopReached ==
  ASSUME AtRest, NEW i \in FromNode(plan, bundle.curr), HopFits(plan[i], bundle, now)
  PROVE  Reached(plan[i].to, HopArrival(plan[i], bundle, now), plan[i].loss)
<1>1. SeedPassed(i)
  BY DEF AtRest, NothingMissed, SeedsPassed
<1>2. plan[i] \in ContactType /\ bundle \in BundleType /\ now \in Int
  BY PlanShape DEF AtRest, Types
<1>3. HopArrival(plan[i], bundle, now) \in Int /\ plan[i].loss \in Int
  <2>1. \A c \in ContactType : c.loss \in Int
    BY DEF ContactType
  <2> QED
    BY <1>2, <2>1, HopType
<1>4. \A node, t, l : ~OnStack(node, t, l)
  BY DEF AtRest, OnStack
<1>5. CASE plan[i].to = bundle.dst
  BY <1>1, <1>5 DEF SeedPassed, Reached
<1>6. CASE plan[i].to # bundle.dst
  <2>1. Expanded(plan[i].to, HopArrival(plan[i], bundle, now), plan[i].loss)
    BY <1>1, <1>4, <1>6 DEF SeedPassed
  <2> QED
    BY <1>3, <1>6, <2>1 DEF Reached
<1> QED
  BY <1>5, <1>6

LEMMA NextHopReached ==
  ASSUME AtRest, NEW node, node # bundle.dst, NEW t \in Int, NEW l \in Int, Reached(node, t, l),
         NEW i \in FromNode(plan, node), plan[i].to # bundle.curr, HopFits(plan[i], bundle, t)
  PROVE  Reached(plan[i].to, HopArrival(plan[i], bundle, t), l + plan[i].loss)
<1>1. PICK u \in Int, m \in Int : u <= t /\ m <= l /\ Expanded(node, u, m)
  BY DEF Reached
<1>2. Passed(i, u, m)
  BY <1>1 DEF Expanded
<1>3. plan[i] \in ContactType /\ bundle \in BundleType
  BY PlanShape DEF AtRest, Types
<1>4. /\ HopFits(plan[i], bundle, u)
      /\ HopArrival(plan[i], bundle, u) <= HopArrival(plan[i], bundle, t)
      /\ HopArrival(plan[i], bundle, u) \in Int /\ HopArrival(plan[i], bundle, t) \in Int
  BY <1>1, <1>3, HopMonotone, HopType
<1>5. /\ m + plan[i].loss \in Int /\ l + plan[i].loss \in Int
      /\ m + plan[i].loss <= l + plan[i].loss
  <2>1. \A c \in ContactType : c.loss \in Int
    BY DEF ContactType
  <2>2. plan[i].loss \in Int
    BY <1>3, <2>1
  <2> QED
    BY <1>1, <2>2
<1>6. Met(plan[i].to, HopArrival(plan[i], bundle, u), m + plan[i].loss)
  BY <1>2, <1>4 DEF Passed
<1>7. Met(plan[i].to, HopArrival(plan[i], bundle, t), l + plan[i].loss)
  BY <1>4, <1>5, <1>6, MetLater DEF AtRest
<1> QED
  BY <1>4, <1>5, <1>7, MetIsReached

\* A route without loops is a sequence of contacts that is not empty.
LEMMA LooplessRoute ==
  ASSUME Types, NEW route \in LooplessRoutes(plan, bundle, now)
  PROVE  /\ route \in Seq(DOMAIN plan) /\ Len(route) > 0
         /\ Loopless(plan, route, bundle) /\ IsRoute(plan, route, bundle, now)
<1> DEFINE D == DOMAIN plan
           N == Cardinality({plan[i].to : i \in DOMAIN plan})
<1>1. /\ route \in BoundedSeq(D, N)
      /\ Loopless(plan, route, bundle) /\ IsRoute(plan, route, bundle, now)
  BY DEF LooplessRoutes
<1>2. N \in Nat
  <2>1. Len(plan) \in Nat /\ D = 1 .. Len(plan)
    BY DEF Types
  <2>2. IsFiniteSet(D)
    BY <2>1, FS_Interval
  <2>3. IsFiniteSet({plan[i].to : i \in D})
    <3>1. [i \in D |-> plan[i].to] \in Surjection(D, {plan[i].to : i \in D})
      BY DEF Surjection
    <3> QED
      BY <2>2, <3>1, FS_Surjection
  <2> QED
    BY <2>3, FS_CardinalityType
<1> HIDE DEF N, D
<1>3. route \in Seq(D)
  <2>1. PICK n \in 0 .. N : route \in [1 .. n -> D]
    BY <1>1 DEF BoundedSeq, SeqOf
  <2> QED
    BY <1>2, <2>1
<1>4. Len(route) > 0
  <2>1. route # <<>>
    BY <1>1 DEF IsRoute, Connected
  <2> QED
    BY <1>3, <2>1
<1> QED
  BY <1>1, <1>3, <1>4 DEF D

\* For every route that takes the bundle to its destination without a loop,
\* the search met one that arrives no later and loses no more, however it
\* pruned: for every plan and bundle, with the hop limit of cgr_config_default
\* (cgr.c:176-241).
THEOREM PrunedSafely == Spec => []ParetoCovered
<1>1. IInv /\ Coverage => ParetoCovered
  <2> SUFFICES ASSUME IInv, Coverage, pc = "done", max_hops = BundleMaxHops,
                      NEW route \in LooplessRoutes(plan, bundle, now)
               PROVE  \E r \in found : /\ r.arrival <= Arrival(plan, route, bundle, now)
                                       /\ Loss(plan, r.hops) <= Loss(plan, route)
    BY DEF ParetoCovered
  <2> DEFINE L  == Len(route)
             at == Arrivals(plan, route, bundle, now)
             c(n) == plan[route[n]]
  <2>1. AtRest
    <3>1. stack = <<>> /\ seeds = {} /\ Types
      BY DEF IInv, Types, Returned
    <3> QED
      BY <3>1, NoFrames DEF Coverage, AtRest
  <2>2. /\ plan \in Seq(ContactType) /\ bundle \in BundleType /\ now \in Int
        /\ route \in Seq(DOMAIN plan) /\ L > 0
        /\ Loopless(plan, route, bundle) /\ IsRoute(plan, route, bundle, now)
    BY <2>1, LooplessRoute DEF AtRest, Types
  <2>3. PICK sums : LossTable(sums, plan, route)
    BY <2>2, LossTableExists
  <2>4. /\ L \in Nat /\ DOMAIN route = 1 .. L
        /\ \A n \in 1 .. L : route[n] \in DOMAIN plan /\ c(n) \in ContactType
    BY <2>2, RouteShape
  <2>5. at \in [0 .. L -> Int] /\ ArrivalTable(at, plan, route, bundle, now)
    BY <2>2, ArrivalsType
  <2>6. \A n \in 1 .. L : HopFits(c(n), bundle, at[n - 1])
    BY <2>2, <2>4 DEF IsRoute, Crossable
  <2>7. /\ c(1).frm = bundle.curr /\ c(L).to = bundle.dst
        /\ \A n \in 1 .. L - 1 : c(n).to = c(n + 1).frm
        /\ \A n \in 1 .. L : c(n).to # bundle.curr
        /\ \A n, k \in 1 .. L : c(n).to = c(k).to => n = k
    BY <2>2, <2>4 DEF IsRoute, Connected, Loopless, Last
  <2> DEFINE S == {n \in Nat : n \in 1 .. L => Reached(c(n).to, at[n], sums[n])}
  <2>8. 0 \in S
    OBVIOUS
  <2>9. ASSUME NEW n \in Nat, n \in S
        PROVE  n + 1 \in S
    <3> SUFFICES ASSUME n + 1 \in 1 .. L
                 PROVE  Reached(c(n + 1).to, at[n + 1], sums[n + 1])
      OBVIOUS
    <3>1. (n + 1) - 1 = n /\ n \in 0 .. L
      BY <2>4
    <3>2. /\ at[n + 1] = HopArrival(c(n + 1), bundle, at[n]) /\ at[0] = now
          /\ sums[n + 1] = sums[n] + c(n + 1).loss /\ sums[0] = 0
          /\ at[n] \in Int /\ sums[n] \in Int
      BY <2>3, <2>5, <3>1 DEF ArrivalTable, LossTable
    <3>3. HopFits(c(n + 1), bundle, at[n])
      BY <2>6, <3>1
    <3>4. CASE n = 0
      <4>1. route[1] \in FromNode(plan, bundle.curr)
        BY <2>4, <2>7, <3>4 DEF FromNode
      <4>2. c(1).loss \in Int
        <5>1. \A x \in ContactType : x.loss \in Int
          BY DEF ContactType
        <5> QED
          BY <2>4, <3>4, <5>1
      <4>3. Reached(c(1).to, HopArrival(c(1), bundle, now), c(1).loss)
        BY <2>1, <3>2, <3>3, <3>4, <4>1, FirstHopReached
      <4> QED
        BY <3>2, <3>4, <4>2, <4>3
    <3>5. CASE n # 0
      <4>1. n \in 1 .. L /\ n \in 1 .. L - 1 /\ L \in 1 .. L /\ n # L
        <5>1. L \in Nat
          BY <2>4
        <5> HIDE DEF L
        <5> QED
          BY <3>5, <5>1
      <4>2. c(n).to # bundle.dst /\ c(n + 1).to # bundle.curr
        BY <2>7, <4>1
      <4>3. route[n + 1] \in FromNode(plan, c(n).to)
        BY <2>4, <2>7, <4>1 DEF FromNode
      <4>4. Reached(c(n).to, at[n], sums[n])
        BY <2>9, <4>1
      <4> HIDE DEF at
      <4>5. Reached(c(n + 1).to, HopArrival(c(n + 1), bundle, at[n]), sums[n] + c(n + 1).loss)
        BY <2>1, <3>2, <3>3, <4>2, <4>3, <4>4, NextHopReached
      <4> QED
        BY <3>2, <4>5
    <3> QED
      BY <3>4, <3>5
  <2>10. L \in S
    <3>1. S \in SUBSET Nat
      OBVIOUS
    <3> HIDE DEF S
    <3> QED
      BY <2>4, <2>8, <2>9, <3>1, SetInduction
  <2>11. Met(bundle.dst, at[L], sums[L])
    <3>1. L \in 1 .. L
      BY <2>2, <2>4
    <3> QED
      BY <2>7, <2>10, <3>1 DEF Reached
  <2>12. Arrival(plan, route, bundle, now) = at[L] /\ Loss(plan, route) = sums[L]
    BY <2>3, <2>4, LossIs DEF Arrival
  <2> QED
    BY <2>11, <2>12 DEF Met
<1> QED
  BY Inductive, Covered, <1>1, PTL
=============================================================================
