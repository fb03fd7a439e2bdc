----------------------------- MODULE BundleStore ----------------------------
(***************************************************************************)
(* What the bundle queue promises, without slots or an order: a bag of     *)
(* bundles within a byte budget.  A stored bundle leaves because it is     *)
(* taken, or because a bundle of a strictly higher class arrives; then it  *)
(* is one of the lowest class stored, and it is the only one to leave.     *)
(***************************************************************************)
EXTENDS Integers, FiniteSets, Bags

CONSTANTS Bundles, Capacity

VARIABLE stored

\* a byte of a copy of a bundle is that bundle, the copy's number and a position
BytesOf(b, copies) == {b} \X copies \X (1 .. b.size)

Bytes(bag) == Cardinality(UNION {BytesOf(b, 1 .. bag[b]) : b \in BagToSet(bag)})

With(bag, b)    == bag (+) SetToBag({b})
Without(bag, b) == bag (-) SetToBag({b})

Init == stored = EmptyBag

Put(b) == /\ Bytes(With(stored, b)) <= Capacity
          /\ stored' = With(stored, b)

\* v makes way for b, which may still not fit
Displace(v, b) ==
  /\ BagIn(v, stored)
  /\ v.class < b.class
  /\ \A u \in BagToSet(stored) : v.class <= u.class
  /\ LET left == Without(stored, v)
     IN  stored' = IF Bytes(With(left, b)) <= Capacity THEN With(left, b) ELSE left

Take(b) == BagIn(b, stored) /\ stored' = Without(stored, b)

Next == \E b \in Bundles :
          \/ Put(b)
          \/ Take(b)
          \/ \E v \in Bundles : Displace(v, b)

Spec == Init /\ [][Next]_stored
=============================================================================
