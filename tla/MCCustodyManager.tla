--------------------------- MODULE MCCustodyManager -------------------------
(***************************************************************************)
(* A table of three records for four bundles, one of them handed over by   *)
(* either of two custodians.  The clock runs past two timeouts, so records *)
(* are renewed before, on and after their deadline and sweeps meet tables  *)
(* with any subset of their records overdue.                               *)
(***************************************************************************)
EXTENDS CustodyManager

B(n, curr) ==
  [id |-> n, src |-> 1, dst |-> 3, curr |-> curr, cust |-> NoCustodian,
   class |-> Science, size |-> WireSize(0), payload_len |-> 0, t_gen |-> 0, ttl |-> 9]

MCBundles == {B(1, 1), B(1, 2), B(2, 1), B(3, 1), B(4, 1)}
=============================================================================
