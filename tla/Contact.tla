------------------------------- MODULE Contact ------------------------------
(***************************************************************************)
(* Contacts and the contact plan: dtn_core/contact.h, contact.c.           *)
(*                                                                         *)
(* A contact is the record [frm, to, t_start, t_end, rate, owlt, loss,     *)
(* max_size, status, bytes_used, reserved].  Two fields abstract data:     *)
(*   loss      conf as -log(conf): confidences multiply, losses add, and a *)
(*             higher confidence is a lower loss;                          *)
(*   max_size  ber as the largest bundle it lets through:                  *)
(*             (1-ber)^(8*size) >= 0.5 holds exactly up to some size.      *)
(* A contact plan is a sequence of contacts, at most PlanMax long.         *)
(***************************************************************************)
EXTENDS Integers, Sequences

\* A transmission at rate 0 never ends (the code's 1e30f).
Never == 1000000

PlanMax == 64

ContactType ==
  [frm : Nat, to : Nat, t_start : Int, t_end : Int, rate : Nat, owlt : Nat, loss : Nat,
   max_size : Nat, status : {"up", "down", "uncertain"}, bytes_used : Nat, reserved : Nat]

IsActive(c, t) == c.t_start <= t /\ t < c.t_end /\ c.status = "up"

IsFuture(c, t) == t < c.t_start /\ c.status # "down"

Duration(c) == IF c.t_end > c.t_start THEN c.t_end - c.t_start ELSE 0

Capacity(c) == c.rate * Duration(c)

\* fault: forgets what has been sent
CapRemFresh(c, t) == c.rate * (IF t < c.t_end THEN c.t_end - t ELSE 0)

CapRem(c, t) == c.rate * (IF t < c.t_end THEN c.t_end - t ELSE 0) - c.bytes_used

CapUse(c, t) == CapRem(c, t) - c.reserved

Unreserve(c, size) == [c EXCEPT !.reserved = IF @ > size THEN @ - size ELSE 0]

Reserve(c, size) == [c EXCEPT !.reserved = @ + size]

\* fault: the bytes sent stay reserved
ConsumeReserving(c, size) == [Reserve(c, size) EXCEPT !.bytes_used = @ + size]

Consume(c, size) == [Unreserve(c, size) EXCEPT !.bytes_used = @ + size]

\* fault: does not look at the window
IsFeasibleAnyTime(c, size, t) == CapUse(c, t) >= size

IsFeasibleFor(c, size, t) == IsActive(c, t) /\ CapUse(c, t) >= size

-----------------------------------------------------------------------------
(* Timing of one hop *)

\* Exact where the rate divides the size, which the instances arrange.
TxDuration(c, size) == IF c.rate > 0 THEN size \div c.rate ELSE Never

EarliestStart(c, arrival) == IF arrival > c.t_start THEN arrival ELSE c.t_start

ArrivalAtReceiver(c, size, start) == start + TxDuration(c, size) + c.owlt

BerFeasible(c, size) == size <= c.max_size

-----------------------------------------------------------------------------
(* The plan *)

PlanAdd(plan, c) == IF Len(plan) < PlanMax THEN Append(plan, c) ELSE plan

\* the indices of the contacts that leave a node, in the order of the plan
FromNode(plan, node) == {i \in DOMAIN plan : plan[i].frm = node}
=============================================================================
