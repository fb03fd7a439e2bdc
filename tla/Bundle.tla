------------------------------- MODULE Bundle -------------------------------
(***************************************************************************)
(* The bundle and the pure functions on it: dtn_core/bundle.h, bundle.c.   *)
(*                                                                         *)
(* A bundle is the record                                                  *)
(*   [id, src, dst, curr, cust, class, size, payload_len, t_gen, ttl].     *)
(* prio is left out: the only producer sets it to the class, and the wire  *)
(* carries both unchanged.  Payload bytes, retries, next_hop and the t_*   *)
(* bookkeeping fields are never read by the code and are left out.         *)
(* Times are integers (seconds), sizes are bytes.                          *)
(***************************************************************************)
EXTENDS Integers

\* bundle_class_t, in the order of the enumeration.
Housekeeping == 0
Telemetry    == 1
Science      == 2
Command      == 3
Classes      == Housekeeping .. Command

\* The value of cust that stands for "no custodian".
NoCustodian == 0

HeaderLen  == 41
CrcLen     == 4
MaxPayload == 160

BundleType ==
  [id : Nat \X Nat, src : Nat, dst : Nat, curr : Nat, cust : Nat, class : Classes,
   size : Nat, payload_len : 0 .. MaxPayload, t_gen : Int, ttl : Nat]

WireSize(payloadLen) == HeaderLen + payloadLen + CrcLen

-----------------------------------------------------------------------------
(* Lifetime *)

Age(b, t)     == t - b.t_gen
RTTL(b, t)    == b.ttl - Age(b, t)
ExpiresAt(b)  == b.t_gen + b.ttl

\* fault: looks at the lifetime and not at the age
IsAliveForever(b, t) == b.ttl > 0

IsAlive(b, t) == RTTL(b, t) > 0

-----------------------------------------------------------------------------
(* Scheduling key                                                          *)
(*                                                                         *)
(* bundle_scheduling_key with the weights queue.c passes is                *)
(*   class/3 + 0.5/w + 0.3*bonus,   w = max(1, rttl).                      *)
(* Multiplied by 30*w it is the integer Key below, so two keys compare     *)
(* exactly by cross-multiplication.  The size penalty starts at 10^6 bytes *)
(* and size is a uint16_t: it is never charged.                            *)

Weight(b, t) == IF RTTL(b, t) > 1 THEN RTTL(b, t) ELSE 1

CustodyBonus(b) == IF b.cust # NoCustodian /\ b.cust = b.curr THEN 1 ELSE 0

\* fault: the weights of the class and of the urgency swapped
KeySwapped(b, t) == 5 * b.class * Weight(b, t) + 30 + 9 * CustodyBonus(b) * Weight(b, t)

Key(b, t) == 10 * b.class * Weight(b, t) + 15 + 9 * CustodyBonus(b) * Weight(b, t)

Outranks(a, b, t) == Key(a, t) * Weight(b, t) > Key(b, t) * Weight(a, t)

-----------------------------------------------------------------------------
(* Wire format                                                             *)
(*                                                                         *)
(* A frame keeps the header fields, the number of bytes on the air and     *)
(* whether the bytes are those that were sent.  The size field of the      *)
(* header is recomputed from the payload; curr and cust go out as the      *)
(* sender holds them.                                                      *)

CanSerialize(b, cap) == b.payload_len <= MaxPayload /\ WireSize(b.payload_len) <= cap

Serialize(b) ==
  [kind   |-> "bundle",
   header |-> [b EXCEPT !.size = WireSize(b.payload_len)],
   len    |-> WireSize(b.payload_len),
   intact |-> TRUE]

\* magic, version, declared length, payload length and CRC all check out
Deserializable(f) ==
  /\ f.kind = "bundle"
  /\ f.intact
  /\ f.len >= WireSize(0)
  /\ f.header.size = f.len
  /\ f.header.payload_len <= MaxPayload
  /\ WireSize(f.header.payload_len) = f.len

\* fault: the two times swapped
DeserializeSwapped(f) == [f.header EXCEPT !.t_gen = f.header.ttl, !.ttl = f.header.t_gen]

Deserialize(f) == f.header
=============================================================================
