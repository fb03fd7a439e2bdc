----------------------------- MODULE MCNodeQueue ----------------------------
(***************************************************************************)
(* A queue of four slots and 225 bytes.  The sizes make every outcome of   *)
(* queue_enqueue happen: four short bundles fill the slots and not the     *)
(* buffer, three longer ones reach the pressure mark, and evicting a short *)
(* bundle does not make room for a long one.  One bundle of each class,    *)
(* held with and without custody, two about to expire.                     *)
(***************************************************************************)
EXTENDS NodeQueue

B(n, class, cust, payload, ttl) ==
  [id |-> n, src |-> 1, dst |-> 3, curr |-> 2, cust |-> cust, class |-> class,
   size |-> WireSize(payload), payload_len |-> payload, t_gen |-> 0, ttl |-> ttl]

MCBundles == {B(1, Housekeeping, 2, 0, 1),  B(2, Telemetry, 2, 55, 2),
              B(3, Science, 0, 55, 40),     B(4, Command, 0, 45, 40),
              B(5, Command, 2, 10, 40)}

=============================================================================
