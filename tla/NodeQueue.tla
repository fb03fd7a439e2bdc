------------------------------ MODULE NodeQueue -----------------------------
(***************************************************************************)
(* The bundle queue as an object: any client calls its API in any order,   *)
(* with any of the bundles of the instance, while time passes.  Nothing    *)
(* keeps a client from queueing a bundle twice: queue_enqueue does not     *)
(* look at identifiers.                                                    *)
(***************************************************************************)
EXTENDS Queue, Bags

CONSTANTS
  Bundles,    \* the bundles the clients handle
  MaxTime     \* bound on the clock

ASSUME BundlesAssumption ==
  \A b \in Bundles : b.class \in Classes /\ b.size \in Nat /\ b.t_gen \in Int /\ b.ttl \in Nat
ASSUME MaxTimeAssumption == MaxTime \in Nat

VARIABLES
  slots,      \* the queued bundles, slot by slot
  now,        \* the time the clients pass to the rank
  last        \* what the last call was given and what it returned

vars == <<slots, now, last>>

NoCall == [op |-> "none"]

Init == slots = <<>> /\ now = 0 /\ last = NoCall

Enqueue(b) ==
  \E o \in EnqueueOutcomes(slots, b) :
     /\ slots' = o.slots
     /\ last' = [op |-> "enqueue", bundle |-> b, ret |-> o.ret]
     /\ UNCHANGED now

PopNext ==
  \E o \in PopOutcomes(slots, now) :
     /\ slots' = o.slots
     /\ last' = [op |-> "pop", bundle |-> o.bundle]
     /\ UNCHANGED now

Dequeue(id) ==
  \E i \in FirstSlotsOf(slots, id) :
     /\ slots' = SwapRemove(slots, i)
     /\ last' = [op |-> "dequeue", bundle |-> slots[i]]
     /\ UNCHANGED now

Elapse == now < MaxTime /\ now' = now + 1 /\ last' = NoCall /\ UNCHANGED slots

Next == \/ \E b \in Bundles : Enqueue(b)
        \/ PopNext
        \/ \E b \in Bundles : Dequeue(b.id)
        \/ Elapse

Spec == Init /\ [][Next]_vars

-----------------------------------------------------------------------------
(* Properties *)

\* Type invariant: at most QueueMax bundles of the instance, a legal last call.
TypeOK ==
  /\ slots \in Seq(Bundles) /\ Len(slots) <= QueueMax
  /\ now \in 0 .. MaxTime
  /\ last \in {NoCall}
          \cup [op : {"enqueue"}, bundle : Bundles, ret : {-1, 0, 1}]
          \cup [op : {"pop", "dequeue"}, bundle : Bundles]

\* Whatever mix of admissions, preemptions and removals ran, the queued
\* bundles fit the buffer together (queue_can_accept, and again after an
\* eviction).
LoadWithinCap == Load(slots) <= BufCap

\* The queue implements the byte-budgeted bag: only a pop, a dequeue or one
\* lowest-class eviction in favour of a higher class removes a bundle, and
\* nothing is duplicated or invented by the swap-removes.
Store == INSTANCE BundleStore WITH stored <- ToBag(slots), Capacity <- BufCap
StoreImplemented == Store!Spec

\* A bundle is never served before one two or more classes above it that has
\* the same claim to the custody bonus, nor a housekeeping bundle before a
\* command in any case: urgency and custody reorder neighbouring classes only
\* (bundle_scheduling_key with the weights of queue.c).
NoDeepInversion ==
  [][last'.op = "pop" =>
       \A i \in DOMAIN slots :
         LET b == last'.bundle
         IN  /\ ~(b.class = Housekeeping /\ slots[i].class = Command)
             /\ ~(/\ slots[i].class >= b.class + 2
                  /\ CustodyBonus(slots[i]) >= CustodyBonus(b))]_vars
=============================================================================
