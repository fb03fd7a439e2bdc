-------------------------------- MODULE Sx1276 ------------------------------
(***************************************************************************)
(* The LoRa radio chip as both drivers use it (transport/lora_pi.c,        *)
(* transport/lora_esp32.c).  Its state is a record:                        *)
(*   mode   "stdby", "tx" or "rx" (RX_SINGLE);                             *)
(*   flags  REG_IRQ_FLAGS, a set;                                          *)
(*   fifo   the frame in the FIFO, Mixed if it holds no whole one.  Both   *)
(*          base addresses are 0: sent and received frames share it.       *)
(* The line DIO0 is high while a flag is set, as lora_transport.h says of  *)
(* TX_DONE and RX_DONE, and an interrupt is its rising edge.               *)
(***************************************************************************)

Mixed == "mixed"

SetMode(c, m) == [c EXCEPT !.mode = m]

WriteFifo(c, f) == [c EXCEPT !.fifo = f]

ClearFlags(c) == [c EXCEPT !.flags = {}]

\* the end of pi_init and esp_init
Configured == [mode |-> "stdby", flags |-> {}, fifo |-> Mixed]

-----------------------------------------------------------------------------
(* What the chip does of its own; it falls back to standby by itself. *)

TxDone(c) == [c EXCEPT !.mode = "stdby", !.flags = @ \cup {"TX_DONE"}]

RxDone(c, f, errors) ==
  [mode |-> "stdby", flags |-> c.flags \cup {"RX_DONE"} \cup errors, fifo |-> f]

\* PAYLOAD_CRC_ERR comes with RX_DONE
Errors == {{}, {"CRC_ERR"}}

Dio0Rises(c, d) == c.flags = {} /\ d.flags # {}
=============================================================================
