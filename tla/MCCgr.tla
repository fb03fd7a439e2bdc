-------------------------------- MODULE MCCgr -------------------------------
(***************************************************************************)
(* Routing problems: node 1 holds the bundle, node 4 is its destination.   *)
(* Rates divide the sizes 45 and 90.                                       *)
(***************************************************************************)
EXTENDS Cgr

C(frm, to, from, until, rate, owlt, loss) ==
  [frm |-> frm, to |-> to, t_start |-> from, t_end |-> until, rate |-> rate,
   owlt |-> owlt, loss |-> loss, max_size |-> 200, status |-> "up",
   bytes_used |-> 0, reserved |-> 0]

B(payload, ttl) ==
  [id |-> <<1, 1>>, src |-> 1, dst |-> 4, curr |-> 1, cust |-> 1, class |-> Science,
   size |-> WireSize(payload), payload_len |-> payload, t_gen |-> 0, ttl |-> ttl]

Problem(plan0, b) == [plan |-> plan0, bundle |-> b, now |-> 1, max_hops |-> BundleMaxHops]

\* Two windows 1->2 of different confidence, 2->3 fast and slow, 3->2 (a way
\* back), 1->3, 2->4 early and late, 3->4, and 1->4, too noisy for the long
\* bundle: every subset of these ten contacts is a plan.
Pool == <<C(1, 2, 0, 4, 45, 0, 2),  C(1, 2, 3, 8, 45, 0, 0),
          C(2, 3, 0, 9, 45, 1, 0),  C(2, 3, 2, 12, 15, 0, 1),
          C(3, 2, 0, 14, 45, 0, 0), C(1, 3, 1, 9, 45, 2, 3),
          C(2, 4, 0, 7, 45, 0, 4),  C(2, 4, 8, 20, 15, 0, 0),
          C(3, 4, 6, 14, 45, 1, 1), [C(1, 4, 2, 9, 15, 0, 0) EXCEPT !.max_size = 50]>>

Chosen(S) == [k \in 1 .. Cardinality(S) |->
                Pool[CHOOSE i \in S : Cardinality({j \in S : j <= i}) = k]]

SubsetProblems ==
  {Problem(Chosen(S), b) : S \in SUBSET DOMAIN Pool, b \in {B(0, 9), B(45, 18)}}

\* A chain 1->2->3->5->4 with a short cut 2->5, for a configuration with few hops.
ChainProblems ==
  {[Problem(<<C(1, 2, 0, 9, 45, 0, 0), C(2, 3, 0, 9, 45, 0, 0), C(3, 5, 0, 9, 45, 0, 0),
              C(5, 4, from, 12, 45, 0, 0), C(2, 5, 0, until, 45, 0, 1)>>, B(payload, 18))
    EXCEPT !.max_hops = 2]
     : from \in 0 .. 10, until \in 0 .. 9, payload \in {0, 45}}

\* 1->2, then 2->n for nine more nodes, none of which is the destination.
StarProblem ==
  {Problem(<<C(1, 2, 0, 9, 45, 0, 0)>>
           \o [n \in 1 .. 9 |-> C(2, 4 + n, 0, 9, 45, 0, 0)], B(0, 18))}

\* 1->2, then `windows` windows 2->3, each later and more confident than the one
\* before, and 3->4.
Windows(windows) ==
  Problem(<<C(1, 2, 0, 9, 45, 0, 0)>>
          \o [n \in 1 .. windows |-> C(2, 3, 2 * n, 2 * n + 2, 45, 0, 10 - n)]
          \o <<C(3, 4, 0, 30, 45, 0, 0)>>, B(0, 40))

\* all of these: the small plans, few hops, and frontiers that fill up
AllProblems == SubsetProblems \cup ChainProblems \cup {Windows(n) : n \in 7 .. 9}

WindowsProblem == {Windows(9)}
=============================================================================
