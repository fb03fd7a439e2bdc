-------------------------------- MODULE Queue -------------------------------
(***************************************************************************)
(* The operations of the per-node bundle queue, as functions of its slots: *)
(* dtn_core/queue.h, queue.c.  The slots are a sequence; the owner and the *)
(* policy string never influence the queue itself.                         *)
(*                                                                         *)
(* An operation whose result depends on rounding of the float keys is the  *)
(* set of its possible results.                                            *)
(***************************************************************************)
EXTENDS Bundle, Sequences, SequencesExt

CONSTANTS
  QueueMax,   \* NODE_QUEUE_MAX: the number of slots
  BufCap      \* buf_cap: the bytes the queued bundles may take together

ASSUME QueueMaxAssumption == QueueMax \in Nat \ {0}
ASSUME BufCapAssumption   == BufCap \in Nat

-----------------------------------------------------------------------------

\* the sum over the slots, first to last
Load(slots) ==
  LET upTo[n \in 0 .. Len(slots)] == IF n = 0 THEN 0 ELSE upTo[n - 1] + slots[n].size
  IN  upTo[Len(slots)]

Free(slots) == BufCap - Load(slots)

\* fault: any free byte will do
FitsPartly(slots, b) == Free(slots) > 0

Fits(slots, b) == Free(slots) >= b.size

Full(slots) == Len(slots) >= QueueMax

\* fault: shrinks without filling the gap
SwapRemoveLast(slots, i) == [j \in 1 .. Len(slots) - 1 |-> slots[j]]

\* The last slot moves into slot i and the queue shrinks by one.
SwapRemove(slots, i) ==
  [j \in 1 .. Len(slots) - 1 |-> IF j = i THEN slots[Len(slots)] ELSE slots[j]]

-----------------------------------------------------------------------------
(* Admission *)

Lower(slots, b) == {i \in DOMAIN slots : slots[i].class < b.class}

\* the first slot among those of the lowest class below b's
Victims(slots, b) ==
  {i \in Lower(slots, b) : \A j \in Lower(slots, b) :
     \/ slots[i].class < slots[j].class
     \/ slots[i].class = slots[j].class /\ i <= j}

\* at most 10% of the buffer is free
UnderPressure(slots) == 10 * Free(slots) <= BufCap

Outcome(slots, ret) == [slots |-> slots, ret |-> ret]

\* queue_enqueue once the victim is chosen: it is gone whether or not b fits now
Preempt(slots, v, b) ==
  LET left == SwapRemove(slots, v)
  IN  IF Fits(left, b) THEN Outcome(Append(left, b), 1) ELSE Outcome(left, -1)

\* fault: no look at the number of slots
EnqueueUnbounded(slots, b) ==
  IF Fits(slots, b) THEN {Outcome(Append(slots, b), 0)} ELSE {Outcome(slots, -1)}

\* queue_enqueue: the slots it leaves and the value it returns
EnqueueOutcomes(slots, b) ==
  IF Full(slots)              THEN {Outcome(slots, -1)}
  ELSE IF Fits(slots, b)      THEN {Outcome(Append(slots, b), 0)}
  ELSE IF UnderPressure(slots) /\ Victims(slots, b) # {}
                              THEN {Preempt(slots, v, b) : v \in Victims(slots, b)}
                              ELSE {Outcome(slots, -1)}

-----------------------------------------------------------------------------
(* Selection *)

\* the slots queue_peek_next and queue_pop_next may select at time t
BestSlots(slots, t) ==
  {i \in DOMAIN slots : \A j \in DOMAIN slots : ~Outranks(slots[j], slots[i], t)}

\* queue_pop_next: the bundle it hands out and the slots it leaves
PopOutcomes(slots, t) ==
  {[bundle |-> slots[i], slots |-> SwapRemove(slots, i)] : i \in BestSlots(slots, t)}

\* how many slots hold the bundle
Copies(b, slots) == Cardinality({i \in DOMAIN slots : slots[i] = b})

\* the first slot that holds the bundle, for queue_dequeue and queue_get
FirstSlotsOf(slots, id) ==
  {i \in DOMAIN slots : slots[i].id = id /\ \A j \in 1 .. i - 1 : slots[j].id # id}
=============================================================================
