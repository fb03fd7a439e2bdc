------------------------------ MODULE MCTimeSync ----------------------------
(***************************************************************************)
(* Six periods of broadcasts to nodes that booted 0, 1 or 7 seconds after  *)
(* the ground station; a frame takes up to two seconds, and the handler's  *)
(* clock is up to one second old.                                          *)
(***************************************************************************)
EXTENDS TimeSync
=============================================================================
