---------------------------- MODULE DeliveryService -------------------------
(***************************************************************************)
(* What the network as a whole promises: a bundle that comes out at a node *)
(* was put in somewhere, for that node, as it comes out.  It may come out  *)
(* late, never, or more than once.                                         *)
(***************************************************************************)
EXTENDS Naturals

CONSTANT Nodes

VARIABLES submitted, delivered

Init == submitted = {} /\ delivered = {}

Submit == /\ \E b \in submitted' : submitted' = submitted \cup {b}
          /\ UNCHANGED delivered

Deliver(b, n) == /\ b \in submitted /\ b.dst = n
                 /\ delivered' = delivered \cup {<<b, n>>}
                 /\ UNCHANGED submitted

Next == Submit \/ \E b \in submitted, n \in Nodes : Deliver(b, n)

Spec == Init /\ [][Next]_<<submitted, delivered>>
=============================================================================
