----------------------------- MODULE MCNetwork ------------------------------
(***************************************************************************)
(* A chain: 1 and 3 are out of range of each other.  One message before    *)
(* node 1 restarts and one, with the same identifier, after.               *)
(***************************************************************************)
EXTENDS Network

C(frm, to, from, until) ==
  [frm |-> frm, to |-> to, t_start |-> from, t_end |-> until, rate |-> 45,
   owlt |-> 0, loss |-> 0, max_size |-> 200, status |-> "up",
   bytes_used |-> 0, reserved |-> 0]

MCPlan == <<C(1, 2, 0, 2), C(2, 3, 1, 2)>>

\* to the far end, or to the node in the middle
MCRequests == {[dst |-> d, class |-> Command, len |-> 0] : d \in {2, 3}}

Chain == {<<1, 2>>, <<2, 1>>, <<2, 3>>, <<3, 2>>}
=============================================================================
