-------------------------------- MODULE Routes ------------------------------
(***************************************************************************)
(* Routes over a contact plan: what it means for a bundle to cross a       *)
(* contact, and what a chain of contacts costs.  A route is a sequence of  *)
(* indices into the plan.  These are the tests and the sums that cgr.c     *)
(* makes while it searches, stated for a whole route; the search itself is *)
(* in Cgr.                                                                 *)
(***************************************************************************)
EXTENDS Contact, Bundle, FiniteSets, FiniteSetsExt, SequencesExt

\* The bundle, at the sender of c from time `arrival`, crosses c.
HopFits(c, b, arrival) ==
  LET start == EarliestStart(c, arrival)
  IN  /\ IsActive(c, arrival) \/ IsFuture(c, arrival)
      /\ start < c.t_end
      /\ start + TxDuration(c, b.size) <= c.t_end
      /\ ArrivalAtReceiver(c, b.size, start) < ExpiresAt(b)
      /\ CapUse(c, start) >= b.size
      /\ BerFeasible(c, b.size)

HopArrival(c, b, arrival) == ArrivalAtReceiver(c, b.size, EarliestStart(c, arrival))

HopMargin(c, b, arrival) == CapUse(c, EarliestStart(c, arrival)) - b.size

-----------------------------------------------------------------------------

\* when the bundle is at the receiver of each contact of the route; at 0 it is
\* at the sender of the first
Arrivals(plan, route, b, t) ==
  LET at[n \in 0 .. Len(route)] ==
        IF n = 0 THEN t ELSE HopArrival(plan[route[n]], b, at[n - 1])
  IN  at

Arrival(plan, route, b, t) == Arrivals(plan, route, b, t)[Len(route)]

Loss(plan, route) ==
  LET sum[n \in 0 .. Len(route)] == IF n = 0 THEN 0 ELSE sum[n - 1] + plan[route[n]].loss
  IN  sum[Len(route)]

Margin(plan, route, b, t) ==
  LET at == Arrivals(plan, route, b, t)
  IN  Min({HopMargin(plan[route[n]], b, at[n - 1]) : n \in DOMAIN route})

\* conf never counts as less than 1e-12
LossFloor(loss) == IF loss < 27 THEN loss ELSE 27

\* compute_cost with the default weights 1, 0.5 and 0.3, times ten
Cost(plan, route, b, t) ==
  10 * (Arrival(plan, route, b, t) - t)
  + 5 * LossFloor(Loss(plan, route))
  - 3 * Margin(plan, route, b, t)

-----------------------------------------------------------------------------

Connected(plan, route, b) ==
  /\ route # <<>>
  /\ plan[route[1]].frm = b.curr
  /\ \A n \in 1 .. Len(route) - 1 : plan[route[n]].to = plan[route[n + 1]].frm

Crossable(plan, route, b, t) ==
  LET at == Arrivals(plan, route, b, t)
  IN  \A n \in DOMAIN route : HopFits(plan[route[n]], b, at[n - 1])

\* a chain of contacts that takes the bundle to its destination in time
IsRoute(plan, route, b, t) ==
  /\ Connected(plan, route, b)
  /\ plan[Last(route)].to = b.dst
  /\ Crossable(plan, route, b, t)

\* no node is visited twice
Loopless(plan, route, b) ==
  /\ \A n \in DOMAIN route : plan[route[n]].to # b.curr
  /\ \A m, n \in DOMAIN route : plan[route[m]].to = plan[route[n]].to => m = n

\* at most one contact into each node
LooplessRoutes(plan, b, t) ==
  {route \in BoundedSeq(DOMAIN plan, Cardinality({plan[i].to : i \in DOMAIN plan})) :
     Loopless(plan, route, b) /\ IsRoute(plan, route, b, t)}
=============================================================================
