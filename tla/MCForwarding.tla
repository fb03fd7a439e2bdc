----------------------------- MODULE MCForwarding ---------------------------
(***************************************************************************)
(* One node, 2, between a source 1, a relay 4 and a destination 3.         *)
(***************************************************************************)
EXTENDS Forwarding

C(frm, to, from, until) ==
  [frm |-> frm, to |-> to, t_start |-> from, t_end |-> until, rate |-> 45,
   owlt |-> 0, loss |-> 0, max_size |-> 200, status |-> "up",
   bytes_used |-> 0, reserved |-> 0]

\* to the destination directly for two seconds, then through the relay
MCPlan == <<C(2, 3, 1, 3), C(2, 4, 2, 4), C(4, 3, 3, 6)>>

B(n, dst, class, payload) ==
  [id |-> <<1, n>>, src |-> 1, dst |-> dst, curr |-> 1, cust |-> 1, class |-> class,
   size |-> WireSize(payload), payload_len |-> payload, t_gen |-> 0, ttl |-> 3]

MCRequests == {[dst |-> 3, class |-> Command, len |-> 0]}

\* The second reuses the identifier of the first for another destination, as a
\* source does after a restart.
ReusedIncoming == {B(1, 3, Science, 0), B(1, 2, Science, 0)}
=============================================================================
