--------------------------- MODULE ForwardingProofs -------------------------
(***************************************************************************)
(* The safety of the forwarding engine, for every contact plan, queue      *)
(* size, buffer, custody table, traffic and set of clock corrections.      *)
(*                                                                         *)
(* The invariants are inductive only together: a bundle from the queue is  *)
(* charged to a contact, so NotOverbooked needs QueueRoutable's sizes; a   *)
(* bundle heard again was aired from the queue, so the type of what is     *)
(* heard needs the type of the queue; and CanAccept compares custodians,   *)
(* so that no record is renewed unseen needs CustodySound.                 *)
(*                                                                         *)
(* That ticks and receptions lose no bundle is about the bytes: a tick     *)
(* puts back what it could not send, and finds room for it because the     *)
(* queue was within its buffer before.                                     *)
(***************************************************************************)
EXTENDS Forwarding, FiniteSetTheorems, TLAPS

IInv == TypeOK /\ CustodySound /\ NotOverbooked /\ QueueRoutable

\* The bundles that TypeOK and QueueRoutable allow in the queue.
Queueable ==
  {b \in BundleType : /\ b.curr = Self
                      /\ b.dst = Self => b.src = Self
                      /\ b.size = WireSize(b.payload_len)}

-----------------------------------------------------------------------------
(* The queue *)

\* What NodeQueueProofs says of the operations of the queue.
Q == INSTANCE NodeQueueProofs WITH
       Bundles <- {}, MaxTime <- 0, now <- Now, last <- [op |-> "none"]

\* The operations it speaks of are those the node calls.
LEMMA SameQueue ==
  /\ QueueMax \in Nat \ {0} /\ BufCap \in Nat
  /\ \A s : Q!Load(s) = Load(s)
  /\ \A b, s : Q!Copies(b, s) = Copies(b, s)
  /\ \A s, i : Q!SwapRemove(s, i) = SwapRemove(s, i)
  /\ \A s, r : Q!Outcome(s, r) = Outcome(s, r)
  /\ \A s, b : Q!EnqueueOutcomes(s, b) = EnqueueOutcomes(s, b)
  /\ \A s, t : Q!PopOutcomes(s, t) = PopOutcomes(s, t)
BY QueueMaxAssumption, BufCapAssumption, Zenon DEF
  Age, BestSlots, Copies, CustodyBonus, EnqueueOutcomes, Fits, Free, Full, Key, Load, Lower,
  NoCustodian, Outcome, Outranks, PopOutcomes, Preempt, RTTL, SwapRemove, UnderPressure,
  Victims, Weight,
  Q!Age, Q!BestSlots, Q!Copies, Q!CustodyBonus, Q!EnqueueOutcomes, Q!Fits, Q!Free, Q!Full,
  Q!Key, Q!Load, Q!Lower, Q!NoCustodian, Q!Outcome, Q!Outranks, Q!PopOutcomes, Q!Preempt,
  Q!RTTL, Q!SwapRemove, Q!UnderPressure, Q!Victims, Q!Weight, Cardinality, Q!Cardinality

\* TypeOK and QueueRoutable say of the queue that its bundles are Queueable.
LEMMA QueueOfQueueable ==
  ASSUME slots \in Seq(BundleType)
  PROVE  QueueRoutable <=> slots \in Seq(Queueable)
BY DEF QueueRoutable, Queueable

\* A bundle generated here may be queued.
LEMMA GeneratedQueueable ==
  ASSUME TypeOK, NEW req \in Requests
  PROVE  NewBundle(req) \in Queueable
<1>1. /\ Self \in Nat /\ BundleTTL \in Nat
      /\ counter \in Nat /\ clock \in Int /\ offset \in Int
  BY NodesAssumption, TTLAssumption DEF TypeOK
<1>2. req.dst \in Nat /\ req.class \in Classes /\ req.len \in Nat
  BY RequestsAssumption
<1>3. Now \in Int
  BY <1>1 DEF Now
<1> DEFINE len == IF req.len > MaxPayload THEN MaxPayload ELSE req.len
<1>4. len \in 0 .. MaxPayload
  BY <1>2 DEF MaxPayload
<1>5. WireSize(len) \in Nat
  BY <1>4 DEF WireSize, HeaderLen, CrcLen, MaxPayload
<1>6. <<Self, counter>> \in Nat \X Nat
  BY <1>1
<1>7. NewBundle(req) =
        [id |-> <<Self, counter>>, src |-> Self, dst |-> req.dst, curr |-> Self,
         cust |-> Self, class |-> req.class, size |-> WireSize(len), payload_len |-> len,
         t_gen |-> Now, ttl |-> BundleTTL]
  BY DEF NewBundle
<1> HIDE DEF len
<1> QED
  BY <1>1, <1>2, <1>3, <1>4, <1>5, <1>6, <1>7 DEF Queueable, BundleType

\* What is heard, an own bundle sent on by a relay included, is a bundle.
LEMMA HeardType ==
  ASSUME TypeOK, NEW b \in BundlesHeard
  PROVE  b \in BundleType
<1>1. CASE b \in Incoming
  BY <1>1, IncomingAssumption
<1>2. CASE \E a \in aired, n \in Relays : b = SentOnBy(a, n)
  <2>1. PICK a \in aired, n \in Relays : b = SentOnBy(a, n)
    BY <1>2
  <2>2. a \in BundleType /\ n \in Nat
    BY NodesAssumption DEF TypeOK
  <2> QED
    BY <2>1, <2>2 DEF SentOnBy, BundleType
<1> QED
  BY <1>1, <1>2 DEF BundlesHeard

\* The frame of a bundle decodes to the bundle, with the size recomputed.
LEMMA DecodedType ==
  ASSUME NEW b \in BundleType
  PROVE  /\ Serialize(b).header \in BundleType
         /\ Serialize(b).header.size = WireSize(Serialize(b).header.payload_len)
         /\ Serialize(b).header.id = b.id
<1>1. WireSize(b.payload_len) \in Nat
  BY DEF WireSize, HeaderLen, CrcLen, MaxPayload, BundleType
<1> QED
  BY <1>1 DEF Serialize, BundleType

\* A bundle accepted for another node may be queued, its custody moved or not.
LEMMA AcceptedQueueable ==
  ASSUME NEW b \in BundleType, b.dst # Self, b.size = WireSize(b.payload_len)
  PROVE  Transferred(custody, Arrived(b)) \in Queueable
BY NodesAssumption DEF Arrived, Transferred, Queueable, BundleType

-----------------------------------------------------------------------------
(* The custody table *)

CustodyOK ==
  /\ custody \subseteq RecordType /\ IsFiniteSet(custody)
  /\ CustodySound

\* Releasing records leaves a sound table.
LEMMA ReleaseKeeps ==
  ASSUME CustodyOK, custody' \subseteq custody
  PROVE  CustodyOK'
<1>1. IsFiniteSet(custody') /\ Cardinality(custody') <= Cardinality(custody)
  BY FS_Subset DEF CustodyOK
<1>2. /\ Cardinality(custody) \in Nat /\ Cardinality(custody') \in Nat
      /\ MaxRecords \in Nat
  BY <1>1, FS_CardinalityType, MaxRecordsAssumption DEF CustodyOK
<1> QED
  BY <1>1, <1>2 DEF CustodyOK, CustodySound

\* custody_transfer leaves a sound table, whether it replaces a record, adds
\* one, or finds the table full.
LEMMA TransferKeeps ==
  ASSUME CustodyOK, NEW b \in BundleType, b.curr = Self, NEW t \in Int,
         custody' = AfterTransfer(custody, b, t)
  PROVE  CustodyOK'
<1> DEFINE rest == AfterRelease(custody, b.id)
           new  == NewRecord(b, t)
<1>1. CASE ~HasRoom(custody, b)
  BY <1>1, ReleaseKeeps DEF AfterTransfer
<1>2. CASE HasRoom(custody, b)
  <2>1. custody' = rest \cup {new}
    BY <1>2 DEF AfterTransfer
  <2>2. new \in RecordType /\ new.id = b.id /\ new.custodian = Self
    BY CustodyTimeoutAssumption, NodesAssumption DEF NewRecord, RecordType, BundleType
  <2>3. rest \subseteq custody /\ \A r \in rest : r.id # b.id
    BY DEF AfterRelease
  <2>4. IsFiniteSet(rest) /\ Cardinality(rest) \in Nat
    BY <2>3, FS_Subset, FS_CardinalityType DEF CustodyOK
  <2>5. Cardinality(rest) < MaxRecords
    <3>1. Cardinality(custody) \in Nat /\ Cardinality(custody) <= MaxRecords
      BY FS_CardinalityType DEF CustodyOK, CustodySound
    <3>2. MaxRecords \in Nat
      BY MaxRecordsAssumption
    <3>3. Cardinality(rest) <= Cardinality(custody)
      BY <2>3, FS_Subset DEF CustodyOK
    <3>4. CASE Cardinality(custody) < MaxRecords
      BY <3>1, <3>2, <3>3, <3>4, <2>4
    <3>5. CASE b.id \in Ids(custody)
      <4>1. rest # custody
        BY <2>3, <3>5 DEF Ids
      <4>2. Cardinality(rest) # Cardinality(custody)
        BY <2>3, <4>1, FS_Subset DEF CustodyOK
      <4> QED
        BY <3>1, <3>2, <3>3, <4>2, <2>4
    <3> QED
      BY <1>2, <3>4, <3>5 DEF HasRoom
  <2>6. IsFiniteSet(custody') /\ Cardinality(custody') <= MaxRecords
    <3> HIDE DEF rest, new
    <3>0. /\ IsFiniteSet(rest \cup {new})
          /\ \/ Cardinality(rest \cup {new}) = Cardinality(rest)
             \/ Cardinality(rest \cup {new}) = Cardinality(rest) + 1
      BY <2>4, FS_AddElement
    <3>1. IsFiniteSet(custody') /\ Cardinality(custody') <= Cardinality(rest) + 1
      BY <2>1, <2>4, <3>0
    <3>2. Cardinality(custody') \in Nat /\ MaxRecords \in Nat
      BY <3>1, FS_CardinalityType, MaxRecordsAssumption
    <3> QED
      BY <3>1, <3>2, <2>4, <2>5
  <2> QED
    BY <2>1, <2>2, <2>3, <2>6 DEF CustodyOK, CustodySound
<1> QED
  BY <1>1, <1>2

-----------------------------------------------------------------------------
(* The contact plan *)

PlanOK ==
  /\ plan \in Seq(ContactType) /\ Len(plan) = Len(InitialPlan)
  /\ \A i \in DOMAIN plan : /\ Unused(plan[i]) = Unused(InitialPlan[i])
                            /\ plan[i].reserved = 0
  /\ NotOverbooked

\* A faster contact or a longer window carries no less.
LEMMA TimesMonotone ==
  ASSUME NEW r \in Nat, NEW x \in Int, NEW y \in Int, x <= y
  PROVE  r * x <= r * y /\ r * x \in Int /\ r * y \in Int
<1>1. r * (y - x) >= 0
  OBVIOUS
<1>2. r * (y - x) = r * y - r * x
  OBVIOUS
<1> QED
  BY <1>1, <1>2

\* What is still free in the rest of the window fits into the whole window.
LEMMA FeasibleFits ==
  ASSUME NEW c \in ContactType, c.reserved = 0, NEW size \in Nat, NEW t \in Int,
         IsFeasibleFor(c, size, t)
  PROVE  /\ c.bytes_used + size <= c.rate * (c.t_end - t)
         /\ c.rate * (c.t_end - t) <= Capacity(c)
<1>1. /\ c.rate \in Nat /\ c.t_start \in Int /\ c.t_end \in Int /\ c.bytes_used \in Nat
      /\ c.t_start <= t /\ t < c.t_end
  BY DEF IsFeasibleFor, IsActive, ContactType
<1>2. CapUse(c, t) = c.rate * (c.t_end - t) - c.bytes_used
  BY <1>1 DEF CapUse, CapRem
<1>3. c.rate * (c.t_end - t) \in Int
  BY <1>1
<1>4. Capacity(c) = c.rate * (c.t_end - c.t_start)
  BY <1>1 DEF Capacity, Duration
<1>5. c.rate * (c.t_end - t) <= c.rate * (c.t_end - c.t_start)
  BY <1>1, TimesMonotone
<1>6. c.rate * (c.t_end - t) - c.bytes_used >= size
  BY <1>2 DEF IsFeasibleFor
<1> QED
  BY <1>1, <1>3, <1>4, <1>5, <1>6

\* With nothing reserved, contact_consume adds to the bytes used and that is all.
LEMMA ConsumeEffect ==
  ASSUME NEW c \in ContactType, c.reserved = 0, NEW size \in Nat
  PROVE  Consume(c, size) = [c EXCEPT !.bytes_used = c.bytes_used + size]
<1>1. Unreserve(c, size) = [c EXCEPT !.reserved = 0]
  BY DEF Unreserve, ContactType
<1>2. [c EXCEPT !.reserved = 0] = c
  BY DEF ContactType
<1>3. Unreserve(c, size) = c
  BY <1>1, <1>2
<1>4. Consume(c, size) = [Unreserve(c, size) EXCEPT !.bytes_used = Unreserve(c, size).bytes_used + size]
  BY DEF Consume
<1> QED
  BY <1>3, <1>4

\* Charging a bundle to a contact it is feasible for leaves it within capacity
\* and otherwise as it was loaded.
LEMMA ConsumeKeeps ==
  ASSUME NEW c \in ContactType, c.reserved = 0, NEW size \in Nat, NEW t \in Int,
         IsFeasibleFor(c, size, t), NEW d, d = Consume(c, size)
  PROVE  /\ d \in ContactType /\ d.reserved = 0 /\ Unused(d) = Unused(c)
         /\ d.bytes_used <= Capacity(d)
<1>1. c.bytes_used + size \in Nat
  BY DEF ContactType
<1>2. d = [c EXCEPT !.bytes_used = c.bytes_used + size]
  BY ConsumeEffect
<1>3. d \in ContactType /\ d.reserved = 0 /\ Unused(d) = Unused(c)
  BY <1>1, <1>2 DEF ContactType, Unused
<1>4. d.bytes_used = c.bytes_used + size
  BY <1>2 DEF ContactType
<1>5. Capacity(d) = Capacity(c)
  BY <1>2 DEF Capacity, Duration, ContactType
<1>6. c.rate \in Nat /\ c.t_end - t \in Int /\ Duration(c) \in Int
  BY DEF ContactType, Duration
<1>7. c.rate * (c.t_end - t) \in Int /\ Capacity(c) \in Int
  BY <1>6 DEF Capacity
<1> QED
  BY <1>1, <1>3, <1>4, <1>5, <1>7, FeasibleFits

\* The plan stays sound when one contact is charged.
LEMMA ChargeKeeps ==
  ASSUME PlanOK, NEW h \in DOMAIN plan, NEW size \in Nat, NEW t \in Int,
         IsFeasibleFor(plan[h], size, t),
         plan' = [plan EXCEPT ![h] = Consume(@, size)]
  PROVE  PlanOK'
<1>1. /\ plan \in Seq(ContactType) /\ plan[h] \in ContactType /\ plan[h].reserved = 0
      /\ Len(plan) \in Nat /\ DOMAIN plan = 1 .. Len(plan)
      /\ Unused(plan[h]) = Unused(InitialPlan[h])
  BY DEF PlanOK
<1>2. PICK d : d = Consume(plan[h], size)
  OBVIOUS
<1>3. plan' = [plan EXCEPT ![h] = d]
  BY <1>2
<1>4. /\ d \in ContactType /\ d.reserved = 0 /\ Unused(d) = Unused(plan[h])
      /\ d.bytes_used <= Capacity(d)
  BY <1>1, <1>2, ConsumeKeeps
<1>5. /\ plan' \in Seq(ContactType) /\ Len(plan') = Len(plan) /\ DOMAIN plan' = DOMAIN plan
      /\ \A i \in DOMAIN plan : plan'[i] = IF i = h THEN d ELSE plan[i]
  BY <1>1, <1>3, <1>4
<1>6. \A i \in DOMAIN plan' : Unused(plan'[i]) = Unused(InitialPlan[i]) /\ plan'[i].reserved = 0
  BY <1>1, <1>4, <1>5 DEF PlanOK
<1>7. \A i \in DOMAIN plan' : plan'[i].bytes_used <= Capacity(plan'[i])
  BY <1>4, <1>5 DEF PlanOK, NotOverbooked
<1> QED
  BY <1>5, <1>6, <1>7 DEF PlanOK, NotOverbooked

\* The plan as it is loaded at boot.
LEMMA LoadedPlan ==
  ASSUME NEW i \in DOMAIN InitialPlan
  PROVE  InitialPlan[i].bytes_used <= Capacity(InitialPlan[i])
<1>1. InitialPlan[i] \in ContactType /\ InitialPlan[i].bytes_used = 0
  BY PlanAssumption
<1>2. InitialPlan[i].rate \in Nat /\ Duration(InitialPlan[i]) \in Nat
  BY <1>1 DEF ContactType, Duration
<1>3. InitialPlan[i].rate * Duration(InitialPlan[i]) >= 0
  BY <1>2
<1> QED
  BY <1>1, <1>3 DEF Capacity

-----------------------------------------------------------------------------
(* The steps *)

QueueOK == slots \in Seq(Queueable) /\ Len(slots) <= QueueMax

ClockOK == /\ offset \in Int /\ counter \in Nat \ {0} /\ clock \in Nat /\ boots \in Nat
           /\ Now \in Int

\* The inductive invariant by the parts of the node's state.
LEMMA Parts ==
  IInv <=> QueueOK /\ CustodyOK /\ PlanOK /\ ClockOK /\ aired \subseteq BundleType
<1>1. ASSUME IInv PROVE QueueOK /\ CustodyOK /\ PlanOK /\ ClockOK /\ aired \subseteq BundleType
  <2>1. QueueOK
    BY <1>1, QueueOfQueueable DEF IInv, TypeOK, QueueOK
  <2>2. CustodyOK /\ PlanOK /\ aired \subseteq BundleType
    BY <1>1 DEF IInv, TypeOK, CustodyOK, PlanOK
  <2>3. ClockOK
    BY <1>1 DEF IInv, TypeOK, ClockOK, Now
  <2> QED
    BY <2>1, <2>2, <2>3
<1>2. ASSUME QueueOK, CustodyOK, PlanOK, ClockOK, aired \subseteq BundleType PROVE IInv
  <2>1. slots \in Seq(BundleType)
    BY <1>2 DEF QueueOK, Queueable
  <2>2. QueueRoutable
    BY <1>2, <2>1, QueueOfQueueable DEF QueueOK
  <2> QED
    BY <1>2, <2>1, <2>2 DEF IInv, TypeOK, QueueOK, CustodyOK, PlanOK, ClockOK
<1> QED
  BY <1>1, <1>2

\* The same parts after a step.
LEMMA PartsAfter ==
  ASSUME QueueOK', CustodyOK', PlanOK', ClockOK', aired' \subseteq BundleType
  PROVE  IInv'
<1>1. slots' \in Seq(BundleType)
  BY DEF QueueOK, Queueable
<1>2. QueueRoutable'
  BY <1>1 DEF QueueRoutable, QueueOK, Queueable
<1> QED
  BY <1>1, <1>2 DEF IInv, TypeOK, QueueOK, CustodyOK, PlanOK, ClockOK

\* A part that a step does not touch.
LEMMA QueueStays == ASSUME QueueOK, UNCHANGED slots PROVE QueueOK'
BY DEF QueueOK, Queueable

LEMMA CustodyStays == ASSUME CustodyOK, UNCHANGED custody PROVE CustodyOK'
BY DEF CustodyOK, CustodySound

LEMMA PlanStays == ASSUME PlanOK, UNCHANGED plan PROVE PlanOK'
BY DEF PlanOK, NotOverbooked

LEMMA ClockStays ==
  ASSUME ClockOK, UNCHANGED <<offset, counter, clock, boots>> PROVE ClockOK'
BY DEF ClockOK, Now

\* The queue after a bundle that may be queued was offered to it.
LEMMA OfferKeeps ==
  ASSUME NEW rest \in Seq(Queueable), Len(rest) <= QueueMax, NEW b \in Queueable,
         NEW o \in EnqueueOutcomes(rest, b), slots' = o.slots
  PROVE  QueueOK'
<1>1. o.slots \in Seq(Queueable) /\ Len(o.slots) <= QueueMax
  BY Q!EnqueueShape, SameQueue
<1> QED
  BY <1>1 DEF QueueOK, Queueable

\* The node after a boot, the first one or a later one.
LEMMA BootKeeps ==
  /\ Init => IInv
  /\ IInv /\ Restart => IInv'
<1>1. /\ \A i \in DOMAIN InitialPlan : InitialPlan[i].bytes_used <= Capacity(InitialPlan[i])
      /\ \A i \in DOMAIN InitialPlan : InitialPlan[i].reserved = 0
      /\ InitialPlan \in Seq(ContactType)
  BY LoadedPlan, PlanAssumption
<1>2. IsFiniteSet({}) /\ Cardinality({}) = 0 /\ 0 <= MaxRecords
  BY FS_EmptySet, MaxRecordsAssumption
<1>3. <<>> \in Seq(Queueable) /\ Len(<<>>) <= QueueMax
  BY QueueMaxAssumption
<1>4. ASSUME Init PROVE IInv
  <2>1. QueueOK
    BY <1>3, <1>4 DEF Init, QueueOK
  <2>2. CustodyOK
    BY <1>2, <1>4 DEF Init, CustodyOK, CustodySound
  <2>3. PlanOK
    BY <1>1, <1>4 DEF Init, PlanOK, NotOverbooked
  <2>4. ClockOK /\ aired \subseteq BundleType
    BY <1>4 DEF Init, ClockOK, Now
  <2> QED
    BY <2>1, <2>2, <2>3, <2>4, Parts
<1>5. ASSUME IInv, Restart PROVE IInv'
  <2>1. QueueOK'
    BY <1>3, <1>5 DEF Restart, Booted, QueueOK, Queueable
  <2>2. CustodyOK'
    BY <1>2, <1>5 DEF Restart, Booted, CustodyOK, CustodySound
  <2>3. PlanOK'
    BY <1>1, <1>5 DEF Restart, Booted, PlanOK, NotOverbooked
  <2>4. ClockOK' /\ aired' \subseteq BundleType
    BY <1>5, Parts DEF Restart, Booted, ClockOK, Now
  <2> QED
    BY <2>1, <2>2, <2>3, <2>4, PartsAfter
<1> QED
  BY <1>4, <1>5

\* node_generate_bundle
LEMMA GenerateKeeps ==
  ASSUME IInv, NEW req \in Requests, Generate(req)
  PROVE  IInv'
<1>1. QueueOK /\ CustodyOK /\ PlanOK /\ ClockOK /\ aired \subseteq BundleType
  BY Parts
<1>2. NewBundle(req) \in Queueable
  BY GeneratedQueueable DEF IInv
<1>3. QueueOK'
  <2>1. PICK o \in EnqueueOutcomes(slots, NewBundle(req)) : slots' = o.slots
    BY DEF Generate
  <2> QED
    BY <1>1, <1>2, <2>1, OfferKeeps DEF QueueOK
<1>4. CustodyOK' /\ PlanOK' /\ aired' \subseteq BundleType
  BY <1>1, CustodyStays, PlanStays DEF Generate
<1>5. ClockOK'
  BY <1>1 DEF Generate, ClockOK, Now
<1> QED
  BY <1>3, <1>4, <1>5, PartsAfter

\* node_handle_received_frame on the frame of any bundle, whole or garbled
LEMMA FrameKeeps ==
  ASSUME IInv, NEW b \in BundleType, NEW f, f.header = Serialize(b).header, HandleFrame(f)
  PROVE  IInv'
<1> DEFINE d == Deserialize(f)
<1>1. QueueOK /\ CustodyOK /\ PlanOK /\ ClockOK /\ aired \subseteq BundleType
  BY Parts
<1>2. d \in BundleType /\ d.size = WireSize(d.payload_len)
  BY DecodedType DEF Deserialize
<1>3. PlanOK' /\ ClockOK' /\ aired' \subseteq BundleType
  BY <1>1, PlanStays, ClockStays DEF HandleFrame
<1> HIDE DEF d
<1>4. ASSUME Deliver(d) PROVE QueueOK' /\ CustodyOK'
  <2>1. custody' \subseteq custody /\ UNCHANGED slots
    BY <1>4 DEF Deliver, AfterRelease
  <2> QED
    BY <1>1, <2>1, QueueStays, ReleaseKeeps
<1>5. ASSUME d.dst # Self, Accept(d) PROVE QueueOK' /\ CustodyOK'
  <2> DEFINE here == Arrived(d)
  <2>1. here \in BundleType /\ here.curr = Self
    BY <1>2, NodesAssumption DEF Arrived, BundleType
  <2>2. Transferred(custody, here) \in Queueable
    BY <1>2, <1>5, AcceptedQueueable
  <2>3. PICK o \in EnqueueOutcomes(slots, Transferred(custody, here)) : slots' = o.slots
    BY <1>5 DEF Accept
  <2>4. custody' = AfterTransfer(custody, here, Now)
    BY <1>5 DEF Accept
  <2>5. Now \in Int
    BY <1>1 DEF ClockOK
  <2> HIDE DEF here
  <2>6. QueueOK'
    BY <1>1, <2>2, <2>3, OfferKeeps DEF QueueOK
  <2>7. CustodyOK'
    BY <1>1, <2>1, <2>4, <2>5, TransferKeeps
  <2> QED
    BY <2>6, <2>7
<1>6. ASSUME NEW id, Drop(id) PROVE QueueOK' /\ CustodyOK'
  BY <1>1, <1>6, QueueStays, CustodyStays DEF Drop
<1>7. QueueOK' /\ CustodyOK'
  BY <1>4, <1>5, <1>6 DEF HandleFrame, HandleBundle, d
<1> QED
  BY <1>3, <1>7, PartsAfter

\* node_try_handle_time_sync
LEMMA TimeSyncKeeps ==
  ASSUME IInv, NEW gsTime \in SyncTimes, HandleTimeSync(gsTime)
  PROVE  IInv'
<1>1. QueueOK /\ CustodyOK /\ PlanOK /\ ClockOK /\ aired \subseteq BundleType
  BY Parts
<1>2. QueueOK' /\ CustodyOK' /\ PlanOK' /\ aired' \subseteq BundleType
  BY <1>1, QueueStays, CustodyStays, PlanStays DEF HandleTimeSync
<1>3. ClockOK'
  BY <1>1, SyncAssumption DEF HandleTimeSync, ClockOK, Now
<1> QED
  BY <1>2, <1>3, PartsAfter

\* The bundle a tick takes out of the queue, and the queue it leaves.
LEMMA Popped ==
  ASSUME QueueOK, NEW o \in PopOutcomes(slots, Now)
  PROVE  o.bundle \in Queueable /\ o.slots \in Seq(Queueable) /\ Len(o.slots) <= QueueMax
<1>1. /\ o.bundle \in Queueable /\ o.slots \in Seq(Queueable)
      /\ Len(o.slots) = Len(slots) - 1
  BY Q!PopShape, SameQueue DEF QueueOK
<1>2. Len(slots) \in Nat /\ QueueMax \in Nat /\ Len(slots) <= QueueMax
  BY QueueMaxAssumption DEF QueueOK
<1> QED
  BY <1>1, <1>2

\* node_tick
LEMMA TickKeeps ==
  ASSUME IInv, Tick
  PROVE  IInv'
<1>1. QueueOK /\ CustodyOK /\ PlanOK /\ ClockOK /\ aired \subseteq BundleType
  BY Parts
<1>2. ClockOK'
  BY <1>1, ClockStays DEF Tick
<1>3. CustodyOK'
  <2>1. custody' \subseteq custody
    BY DEF Tick, TickIdle, TickBusy, Expire, Hold, Transmit, TransmitFails, Kept, AfterRelease
  <2> QED
    BY <1>1, <2>1, ReleaseKeeps
<1>4. ASSUME TickIdle PROVE QueueOK' /\ PlanOK' /\ aired' \subseteq BundleType
  BY <1>1, <1>4, QueueStays, PlanStays DEF TickIdle
<1>5. ASSUME NEW o \in PopOutcomes(slots, Now),
             \/ Expire(o.bundle, o.slots)
             \/ Hold(o.bundle, o.slots)
             \/ Transmit(o.bundle, o.slots)
             \/ TransmitFails(o.bundle, o.slots)
      PROVE  QueueOK' /\ PlanOK' /\ aired' \subseteq BundleType
  <2>1. /\ o.bundle \in Queueable /\ o.slots \in Seq(Queueable)
        /\ Len(o.slots) <= QueueMax
    BY <1>1, Popped
  <2>2. o.bundle \in BundleType /\ o.bundle.size \in Nat
    BY <2>1 DEF Queueable, BundleType
  <2>3. Serialize(o.bundle).header \in BundleType
    BY <2>2, DecodedType
  <2>4. QueueOK'
    <3>1. CASE slots' = o.slots
      BY <2>1, <3>1 DEF QueueOK, Queueable
    <3>2. CASE Requeue(o.slots, o.bundle)
      BY <2>1, <3>2, OfferKeeps DEF Requeue
    <3> QED
      BY <1>5, <3>1, <3>2 DEF Expire, Hold, Transmit, TransmitFails
  <2>5. PlanOK'
    <3>1. CASE UNCHANGED plan
      BY <1>1, <3>1, PlanStays
    <3>2. CASE Transmit(o.bundle, o.slots)
      <4>1. PICK h \in FirstHops(o.bundle) :
              /\ IsFeasibleFor(plan[h], o.bundle.size, Now)
              /\ plan' = [plan EXCEPT ![h] = Consume(@, o.bundle.size)]
        BY <3>2 DEF Transmit, Sendable
      <4>2. h \in DOMAIN plan
        BY DEF FirstHops
      <4> QED
        BY <1>1, <2>2, <4>1, <4>2, ChargeKeeps DEF ClockOK
    <3> QED
      BY <1>5, <3>1, <3>2 DEF Expire, Hold, TransmitFails
  <2>6. aired' \subseteq BundleType
    BY <1>1, <1>5, <2>3 DEF Expire, Hold, Transmit, TransmitFails
  <2> QED
    BY <2>4, <2>5, <2>6
<1>6. QueueOK' /\ PlanOK' /\ aired' \subseteq BundleType
  BY <1>4, <1>5 DEF Tick, TickBusy
<1> QED
  BY <1>2, <1>3, <1>6, PartsAfter

\* the platform clock
LEMMA ElapseKeeps ==
  ASSUME IInv, Elapse
  PROVE  IInv'
<1>1. QueueOK /\ CustodyOK /\ PlanOK /\ ClockOK /\ aired \subseteq BundleType
  BY Parts
<1>2. QueueOK' /\ CustodyOK' /\ PlanOK' /\ aired' \subseteq BundleType
  BY <1>1, QueueStays, CustodyStays, PlanStays DEF Elapse
<1>3. ClockOK'
  BY <1>1 DEF Elapse, ClockOK, Now
<1> QED
  BY <1>2, <1>3, PartsAfter

\* a step of others, who may have given the tracer something
LEMMA NodeStays ==
  ASSUME IInv, UNCHANGED <<slots, custody, plan, offset, counter, clock, boots, aired>>
  PROVE  IInv'
<1>1. QueueOK /\ CustodyOK /\ PlanOK /\ ClockOK /\ aired \subseteq BundleType
  BY Parts
<1>2. QueueOK' /\ CustodyOK' /\ PlanOK' /\ aired' \subseteq BundleType
  BY <1>1, QueueStays, CustodyStays, PlanStays
<1>3. ClockOK'
  BY <1>1, ClockStays
<1> QED
  BY <1>2, <1>3, PartsAfter

-----------------------------------------------------------------------------
(* The theorems *)

\* Every step keeps the invariants, which hold at the first boot.
LEMMA Inductive ==
  /\ Init => IInv
  /\ IInv /\ [Next]_vars => IInv'
<1>1. Init => IInv
  BY BootKeeps
<1>2. ASSUME IInv, [Next]_vars PROVE IInv'
  <2>1. ASSUME NEW req \in Requests, Generate(req) PROVE IInv'
    BY <1>2, <2>1, GenerateKeeps
  <2>2. CASE Receive
    <3>1. PICK b \in BundlesHeard : \/ HandleFrame(Serialize(b))
                                    \/ HandleFrame([Serialize(b) EXCEPT !.intact = FALSE])
      BY <2>2 DEF Receive
    <3>2. PICK f : f.header = Serialize(b).header /\ HandleFrame(f)
      BY <3>1 DEF Serialize
    <3> QED
      BY <1>2, <3>2, HeardType, FrameKeeps DEF IInv
  <2>3. ASSUME NEW gsTime \in SyncTimes, HandleTimeSync(gsTime) PROVE IInv'
    BY <1>2, <2>3, TimeSyncKeeps
  <2>4. CASE Tick
    BY <1>2, <2>4, TickKeeps
  <2>5. CASE Elapse
    BY <1>2, <2>5, ElapseKeeps
  <2>6. CASE Restart
    BY <1>2, <2>6, BootKeeps
  <2>7. CASE UNCHANGED vars
    BY <1>2, <2>7, NodeStays DEF vars
  <2> QED
    BY <1>2, <2>1, <2>2, <2>3, <2>4, <2>5, <2>6, <2>7 DEF Next
<1> QED
  BY <1>1, <1>2

LEMMA Invariant == Spec => []IInv
BY Inductive, PTL DEF Spec

\* TypeOK: the state stays well formed, and the plan is always the one loaded
\* at boot but for its accounting (forwarding.c changes no other field).
THEOREM TypeCorrect == Spec => []TypeOK
<1>1. IInv => TypeOK
  BY DEF IInv
<1> QED
  BY <1>1, Invariant, PTL

\* CustodySound: one record per bundle, all this node's, within the table,
\* whatever mix of acceptances, deliveries, expiries, timeouts and restarts.
THEOREM CustodyAlwaysSound == Spec => []CustodySound
<1>1. IInv => CustodySound
  BY DEF IInv
<1> QED
  BY <1>1, Invariant, PTL

\* NotOverbooked: no contact is charged more than its rate and window allow, for
\* every plan and every sequence of clock corrections, backwards ones too.
THEOREM NeverOverbooked == Spec => []NotOverbooked
<1>1. IInv => NotOverbooked
  BY DEF IInv
<1> QED
  BY <1>1, Invariant, PTL

\* QueueRoutable: try_send_one never takes a bundle out of the queue that is
\* elsewhere, has arrived, or lies about its size.
THEOREM QueueAlwaysRoutable == Spec => []QueueRoutable
<1>1. IInv => QueueRoutable
  BY DEF IInv
<1> QED
  BY <1>1, Invariant, PTL

\* A record custody_transfer renews is one that CanAccept has seen: with every
\* record this node's, an acceptance takes no record away; what it traces is in
\* the table and in the queue unless they were full.
LEMMA AcceptRenewsNothing ==
  ASSUME CustodySound, IsFiniteSet(custody), slots \in Seq(BundleType), NEW b \in BundleType,
         CanAccept(custody, b, Self, Now, Free(slots), Policy), Accept(b)
  PROVE  /\ custody \subseteq custody'
         /\ \A r \in custody' \ custody : Traced({"CUSTODY_ACCEPTED"}, r.id)
         /\ b.id \in Ids(custody') \/ Cardinality(custody) >= MaxRecords
         /\ Full(slots) \/ \E q \in ToSet(slots') : q.id = b.id
<1> DEFINE here  == Arrived(b)
           taken == Transferred(custody, here)
<1>1. here.id = b.id
  BY DEF Arrived, BundleType
<1>2. \A r \in custody : r.id # b.id
  BY DEF CanAccept, CustodySound
<1>3. custody' = AfterTransfer(custody, here, Now)
  BY DEF Accept
<1>4. AfterRelease(custody, here.id) = custody
  BY <1>1, <1>2 DEF AfterRelease
<1>5. \/ custody' = custody /\ ~HasRoom(custody, here)
      \/ custody' = custody \cup {NewRecord(here, Now)}
  BY <1>3, <1>4 DEF AfterTransfer
<1>6. NewRecord(here, Now).id = b.id
  BY <1>1 DEF NewRecord
<1>7. Event("CUSTODY_ACCEPTED", b.id) \in trace'
  BY DEF Accept
<1>8. b.id \in Ids(custody') \/ Cardinality(custody) >= MaxRecords
  <2>1. CASE ~HasRoom(custody, here)
    <3>1. Cardinality(custody) \in Int
      BY FS_CardinalityType
    <3> QED
      BY <2>1, <3>1, MaxRecordsAssumption DEF HasRoom
  <2>2. CASE custody' = custody \cup {NewRecord(here, Now)}
    BY <1>6, <2>2 DEF Ids
  <2> QED
    BY <1>5, <2>1, <2>2
<1>9. Full(slots) \/ \E q \in ToSet(slots') : q.id = b.id
  <2>1. taken.id = b.id /\ taken.size = b.size /\ taken \in BundleType
    BY NodesAssumption DEF Transferred, Arrived, BundleType
  <2>2. Fits(slots, taken)
    BY <2>1 DEF CanAccept, Fits
  <2>3. CASE ~Full(slots)
    <3>1. slots' = Append(slots, taken)
      BY <2>2, <2>3 DEF Accept, EnqueueOutcomes, Outcome
    <3> HIDE DEF taken
    <3>2. Len(slots) + 1 \in DOMAIN slots' /\ slots'[Len(slots) + 1] = taken
      BY <2>1, <3>1
    <3> QED
      BY <2>1, <3>2 DEF ToSet
  <2> QED
    BY <2>3
<1> HIDE DEF here
<1> QED
  BY <1>5, <1>6, <1>7, <1>8, <1>9 DEF Traced

\* TraceAccountsForCustody: a custody record comes and goes only with the
\* trace record that tells of it, and an acceptance that is traced left a record
\* and a queued bundle if table and slots had room.
THEOREM CustodyTraced == Spec => TraceAccountsForCustody
<1> DEFINE Gone == \A r \in custody \ custody' :
                      Traced({"CUSTODY_TIMEOUT", "BUNDLE_EXPIRED", "BUNDLE_DELIVERED"}, r.id)
           New  == \A r \in custody' \ custody : Traced({"CUSTODY_ACCEPTED"}, r.id)
           Held == \A e \in trace' :
                     /\ e.event = "CUSTODY_ACCEPTED" =>
                          e.id \in Ids(custody') \/ Cardinality(custody) >= MaxRecords
                     /\ e.event = "BUNDLE_QUEUED" =>
                          Full(slots) \/ \E b \in ToSet(slots') : b.id = e.id
           Silent == \A e \in trace' : e.event \notin {"CUSTODY_ACCEPTED", "BUNDLE_QUEUED"}
<1>1. ASSUME IInv, Next, boots' = boots PROVE Gone /\ New /\ Held
  <2>1. CASE UNCHANGED custody /\ Silent
    BY <2>1
  <2>2. CASE Receive
    <3>1. PICK b \in BundlesHeard : \/ HandleFrame(Serialize(b))
                                    \/ HandleFrame([Serialize(b) EXCEPT !.intact = FALSE])
      BY <2>2 DEF Receive
    <3>2. PICK d : d = Serialize(b).header
      OBVIOUS
    <3>3. d \in BundleType
      BY <1>1, <3>2, HeardType, DecodedType DEF IInv
    <3>4. (\E id : Drop(id)) \/ HandleBundle(d)
      BY <3>1, <3>2 DEF HandleFrame, Deserialize, Serialize
    <3>5. CASE Deliver(d)
      BY <3>5 DEF Deliver, AfterRelease, Traced, Event
    <3>6. CASE CanAccept(custody, d, Self, Now, Free(slots), Policy) /\ Accept(d)
      <4>1. CustodySound /\ IsFiniteSet(custody) /\ slots \in Seq(BundleType)
        BY <1>1 DEF IInv, TypeOK
      <4>2. trace' = {Event("CUSTODY_ACCEPTED", d.id), Event("BUNDLE_QUEUED", d.id)}
        BY <3>6 DEF Accept
      <4>3. /\ custody \subseteq custody'
            /\ New
            /\ d.id \in Ids(custody') \/ Cardinality(custody) >= MaxRecords
            /\ Full(slots) \/ \E b2 \in ToSet(slots') : b2.id = d.id
        BY <3>3, <3>6, <4>1, AcceptRenewsNothing
      <4> QED
        BY <4>2, <4>3 DEF Event
    <3>7. CASE \E id : Drop(id)
      BY <2>1, <3>7 DEF Drop, Event
    <3> QED
      BY <3>4, <3>5, <3>6, <3>7 DEF HandleBundle
  <2>3. CASE Tick
    <3>1. /\ \A r \in custody \ Kept : Event("CUSTODY_TIMEOUT", r.id) \in TimeoutEvents
          /\ Kept \subseteq custody
      BY DEF Kept, TimeoutEvents, Overdue
    <3>2. \A e \in TimeoutEvents : e.event = "CUSTODY_TIMEOUT"
      BY DEF TimeoutEvents, Event
    <3>3. CASE custody' = Kept /\ TimeoutEvents \subseteq trace' /\ Silent
      BY <3>1, <3>3 DEF Traced
    <3>4. ASSUME NEW b, NEW rest, Expire(b, rest) PROVE Gone /\ New /\ Held
      <4>1. /\ custody' = AfterRelease(Kept, b.id)
            /\ trace' = TimeoutEvents \cup {Event("BUNDLE_EXPIRED", b.id)}
        BY <3>4 DEF Expire
      <4>2. custody' \subseteq custody
        BY <3>1, <4>1 DEF AfterRelease
      <4>3. ASSUME NEW r \in custody \ custody'
            PROVE  Traced({"CUSTODY_TIMEOUT", "BUNDLE_EXPIRED", "BUNDLE_DELIVERED"}, r.id)
        <5>1. r \in custody \ Kept \/ r.id = b.id
          BY <4>1, <4>3 DEF AfterRelease
        <5> QED
          BY <3>1, <4>1, <5>1 DEF Traced
      <4>4. Silent
        BY <3>2, <4>1 DEF Event
      <4> QED
        BY <4>2, <4>3, <4>4
    <3>5. CASE TickIdle
      BY <3>2, <3>3, <3>5 DEF TickIdle
    <3>6. ASSUME NEW b, NEW rest, Hold(b, rest) \/ Transmit(b, rest) \/ TransmitFails(b, rest)
          PROVE  custody' = Kept /\ TimeoutEvents \subseteq trace' /\ Silent
      BY <3>2, <3>6 DEF Hold, Transmit, TransmitFails, Event
    <3> QED
      BY <2>3, <3>3, <3>4, <3>5, <3>6 DEF Tick, TickBusy
  <2>4. ~Restart
    BY <1>1 DEF Restart, IInv, TypeOK
  <2>5. CASE \E req \in Requests : Generate(req)
    BY <2>1, <2>5 DEF Generate, Event
  <2>6. CASE (\E gsTime \in SyncTimes : HandleTimeSync(gsTime)) \/ Elapse
    BY <2>1, <2>6 DEF HandleTimeSync, Elapse, Event
  <2> QED
    BY <1>1, <2>2, <2>3, <2>4, <2>5, <2>6 DEF Next
<1>2. IInv /\ [Next]_vars => [boots' = boots => Gone /\ New /\ Held]_vars
  BY <1>1
<1> QED
  BY <1>2, Invariant, PTL DEF Spec, TraceAccountsForCustody, Gone, New, Held

\* What divides into a product divides into its factor.
LEMMA QuotientBound ==
  ASSUME NEW r \in Nat \ {0}, NEW n \in Nat, NEW m \in Int, n <= r * m
  PROVE  n \div r <= m
<1>1. n \div r \in Int /\ r * (n \div r) <= n
  OBVIOUS
<1>2. SUFFICES ASSUME m + 1 <= n \div r PROVE FALSE
  BY <1>1
<1>3. r * (m + 1) <= r * (n \div r)
  BY <1>1, <1>2, TimesMonotone
<1>4. r * (m + 1) = r * m + r
  OBVIOUS
<1>5. r * m \in Int /\ r * (n \div r) \in Int
  BY <1>1
<1> QED
  BY <1>1, <1>3, <1>4, <1>5

\* A bundle a contact is feasible for is out before the contact closes.
LEMMA FeasibleEnds ==
  ASSUME NEW c \in ContactType, c.reserved = 0, NEW size \in Nat \ {0}, NEW t \in Int,
         IsFeasibleFor(c, size, t)
  PROVE  t + TxDuration(c, size) <= c.t_end
<1>1. /\ c.rate \in Nat /\ c.t_end \in Int /\ c.bytes_used \in Nat
  BY DEF ContactType
<1>2. c.bytes_used + size <= c.rate * (c.t_end - t)
  BY FeasibleFits
<1>3. c.rate * (c.t_end - t) \in Int /\ c.t_end - t \in Int
  BY <1>1
<1>4. size <= c.rate * (c.t_end - t)
  BY <1>1, <1>2, <1>3
<1>5. c.rate # 0
  <2>1. SUFFICES ASSUME c.rate = 0 PROVE FALSE
    OBVIOUS
  <2>2. c.rate * (c.t_end - t) = 0
    BY <1>3, <2>1
  <2> QED
    BY <1>4, <2>2
<1>6. size \div c.rate <= c.t_end - t
  BY <1>1, <1>3, <1>4, <1>5, QuotientBound
<1>7. size \div c.rate \in Int
  BY <1>1, <1>5
<1> QED
  BY <1>1, <1>5, <1>6, <1>7 DEF TxDuration

\* What one transmission does to the plan.
LEMMA TransmitInWindow ==
  ASSUME IInv, NEW o \in PopOutcomes(slots, Now), Transmit(o.bundle, o.slots)
  PROVE  \E i \in DOMAIN plan :
           LET c == plan[i]
               sent == plan'[i].bytes_used - c.bytes_used
           IN  /\ c.frm = Self /\ IsActive(c, Now)
               /\ Now + TxDuration(c, sent) <= c.t_end
               /\ \E b \in ToSet(slots) : b.size = sent /\ Traced({"BUNDLE_TX_START"}, b.id)
               /\ plan' = [plan EXCEPT ![i].bytes_used = @ + sent]
<1>1. QueueOK /\ PlanOK /\ ClockOK
  BY Parts
<1>2. PICK b : b = o.bundle
  OBVIOUS
<1>3. b \in Queueable /\ b \in ToSet(slots)
  BY <1>1, <1>2, Q!PopShape, SameQueue DEF QueueOK, ToSet
<1>4. b.size \in Nat \ {0}
  BY <1>3 DEF Queueable, BundleType, WireSize, HeaderLen, CrcLen, MaxPayload
<1>5. PICK h \in FirstHops(b) :
        /\ IsFeasibleFor(plan[h], b.size, Now)
        /\ plan' = [plan EXCEPT ![h] = Consume(@, b.size)]
        /\ Event("BUNDLE_TX_START", b.id) \in trace'
  BY <1>2 DEF Transmit, Sendable
<1>6. h \in DOMAIN plan /\ plan[h].frm = Self
  BY <1>3 DEF FirstHops, LooplessRoutes, IsRoute, Connected, Queueable
<1>7. PICK c : c = plan[h]
  OBVIOUS
<1>8. c \in ContactType /\ c.reserved = 0
  BY <1>1, <1>6, <1>7 DEF PlanOK
<1>9. Now + TxDuration(c, b.size) <= c.t_end
  BY <1>1, <1>4, <1>5, <1>7, <1>8, FeasibleEnds DEF ClockOK
<1>10. plan' = [plan EXCEPT ![h] = [c EXCEPT !.bytes_used = c.bytes_used + b.size]]
  BY <1>4, <1>5, <1>7, <1>8, ConsumeEffect
<1>11. plan'[h].bytes_used = c.bytes_used + b.size
  BY <1>6, <1>8, <1>10 DEF ContactType
<1>12. plan'[h].bytes_used - c.bytes_used = b.size
  BY <1>4, <1>8, <1>11 DEF ContactType
<1>13. plan' = [plan EXCEPT ![h].bytes_used = @ + b.size]
  BY <1>7, <1>10
<1>14. IsActive(plan[h], Now) /\ Traced({"BUNDLE_TX_START"}, b.id)
  BY <1>5 DEF IsFeasibleFor, Traced
<1> QED
  BY <1>3, <1>6, <1>7, <1>9, <1>12, <1>13, <1>14

\* SendsInWindow: what is charged to a contact is a send that succeeded, over an
\* open contact of this node that stays open to the last byte; no other contact
\* is charged for it.
THEOREM SentInWindow == Spec => SendsInWindow
<1> DEFINE InWindow ==
      \E i \in DOMAIN plan :
         LET c == plan[i]
             sent == plan'[i].bytes_used - c.bytes_used
         IN  /\ c.frm = Self /\ IsActive(c, Now)
             /\ Now + TxDuration(c, sent) <= c.t_end
             /\ \E b \in ToSet(slots) : b.size = sent /\ Traced({"BUNDLE_TX_START"}, b.id)
             /\ plan' = [plan EXCEPT ![i].bytes_used = @ + sent]
<1>1. ASSUME IInv, Next, plan' # plan, boots' = boots PROVE InWindow
  <2>1. ~Restart
    BY <1>1 DEF Restart, IInv, TypeOK
  <2>2. Tick
    BY <1>1, <2>1 DEF Next, Generate, Receive, HandleFrame, HandleTimeSync, Elapse
  <2>3. PICK o \in PopOutcomes(slots, Now) : Transmit(o.bundle, o.slots)
    BY <1>1, <2>2 DEF Tick, TickIdle, TickBusy, Expire, Hold, TransmitFails
  <2> QED
    BY <1>1, <2>3, TransmitInWindow
<1>2. IInv /\ [Next]_vars => [plan' # plan /\ boots' = boots => InWindow]_vars
  BY <1>1
<1> QED
  BY <1>2, Invariant, PTL DEF Spec, SendsInWindow, InWindow

-----------------------------------------------------------------------------
(* What a node carries.  NetworkProofs puts these lemmas of one node        *)
(* together: whatever it holds or has sent is one of a set C of bundles, up *)
(* to the fields that change on the way.                                    *)

Content(b) == [b EXCEPT !.curr = 0, !.cust = 0]

Bearing(C) == {b \in BundleType : Content(b) \in C}

\* the bundles as they come out of a frame
Wired == {b \in BundleType : b.size = WireSize(b.payload_len)}

Carries(C) == slots \in Seq(Bearing(C)) /\ aired \subseteq Bearing(C) \cap Wired

\* A bundle that declares the size it has on the air goes through it unchanged.
LEMMA SentUnchanged ==
  ASSUME NEW b \in Wired
  PROVE  Serialize(b).header = b
BY DEF Serialize, Wired, BundleType

\* The node that boots carries nothing; one that restarts has lost its queue.
LEMMA BootCarries ==
  ASSUME NEW C
  PROVE  /\ Init => Carries(C)
         /\ Carries(C) /\ Restart => Carries(C)'
<1>1. Init => Carries(C)
  BY DEF Init, Carries
<1>2. ASSUME Carries(C), Restart PROVE Carries(C)'
  BY <1>2 DEF Restart, Booted, Carries
<1> QED
  BY <1>1, <1>2

\* What a node carries of some bundles it carries of more.
LEMMA CarriesMore ==
  ASSUME NEW C, NEW D, C \subseteq D, Carries(C)
  PROVE  Carries(D)
BY DEF Carries, Bearing

\* Where the node stands and whose the bundle is are no part of its content.
LEMMA AcceptedContent ==
  ASSUME NEW b \in BundleType, NEW C, Content(b) \in C
  PROVE  Transferred(custody, Arrived(b)) \in Bearing(C)
<1>1. Arrived(b) \in BundleType /\ Content(Arrived(b)) = Content(b)
  BY NodesAssumption DEF Arrived, Content, BundleType
<1>2. PICK a \in BundleType : a = Arrived(b)
  BY <1>1
<1>3. /\ [a EXCEPT !.cust = a.curr] \in BundleType
      /\ Content([a EXCEPT !.cust = a.curr]) = Content(a)
  BY DEF Content, BundleType
<1> QED
  BY <1>1, <1>2, <1>3 DEF Transferred, Bearing

\* node_generate_bundle adds the new bundle to what the node carries.
LEMMA GenerateCarries ==
  ASSUME IInv, NEW C, Carries(C), NEW req \in Requests, Generate(req),
         Content(NewBundle(req)) \in C
  PROVE  Carries(C)'
<1>1. NewBundle(req) \in Bearing(C)
  BY GeneratedQueueable DEF IInv, Queueable, Bearing
<1>2. slots \in Seq(Bearing(C)) /\ Len(slots) <= QueueMax
  BY DEF Carries, IInv, TypeOK
<1>3. PICK o \in EnqueueOutcomes(slots, NewBundle(req)) : slots' = o.slots
  BY DEF Generate
<1>4. slots' \in Seq(Bearing(C))
  BY <1>1, <1>2, <1>3, Q!EnqueueShape, SameQueue
<1> QED
  BY <1>4 DEF Generate, Carries

\* node_handle_received_frame: what is accepted is what was heard.
LEMMA FrameCarries ==
  ASSUME IInv, NEW C, Carries(C), NEW f, f.header \in Bearing(C), HandleFrame(f)
  PROVE  Carries(C)'
<1> DEFINE d == Deserialize(f)
           q == Transferred(custody, Arrived(d))
<1>1. q \in Bearing(C)
  BY AcceptedContent DEF Deserialize, Bearing
<1>2. slots \in Seq(Bearing(C)) /\ Len(slots) <= QueueMax
  BY DEF Carries, IInv, TypeOK
<1>3. UNCHANGED slots \/ \E o \in EnqueueOutcomes(slots, q) : slots' = o.slots
  BY DEF HandleFrame, HandleBundle, Accept, Deliver, Drop
<1> HIDE DEF q
<1>4. slots' \in Seq(Bearing(C))
  BY <1>1, <1>2, <1>3, Q!EnqueueShape, SameQueue
<1> QED
  BY <1>4 DEF HandleFrame, Carries

\* A node delivers only a bundle that is for it.
LEMMA DeliversOwn ==
  ASSUME NEW f, HandleFrame(f), NEW r \in trace', r.event = "BUNDLE_DELIVERED"
  PROVE  Deserialize(f).dst = Self
BY DEF HandleFrame, HandleBundle, Accept, Drop, Event

\* node_tick: what goes on the air comes out of the queue.
LEMMA TickCarries ==
  ASSUME IInv, NEW C, Carries(C), Tick
  PROVE  Carries(C)'
<1>1. slots \in Seq(Bearing(C)) /\ slots \in Seq(Queueable) /\ Len(slots) <= QueueMax
  BY Parts DEF Carries, QueueOK
<1>2. ASSUME NEW o \in PopOutcomes(slots, Now),
             \/ Expire(o.bundle, o.slots)
             \/ Hold(o.bundle, o.slots)
             \/ Transmit(o.bundle, o.slots)
             \/ TransmitFails(o.bundle, o.slots)
      PROVE  Carries(C)'
  <2>1. /\ o.bundle \in Bearing(C) \cap Queueable
        /\ o.slots \in Seq(Bearing(C)) /\ Len(o.slots) <= QueueMax
    BY <1>1, Q!PopShape, SameQueue
  <2>2. o.bundle \in Wired /\ Serialize(o.bundle).header = o.bundle
    BY <2>1, SentUnchanged DEF Queueable, Wired
  <2>3. slots' \in Seq(Bearing(C))
    BY <1>2, <2>1, Q!EnqueueShape, SameQueue
       DEF Expire, Hold, Transmit, TransmitFails, Requeue
  <2>4. aired' \subseteq aired \cup {o.bundle}
    BY <1>2, <2>2 DEF Expire, Hold, Transmit, TransmitFails
  <2> QED
    BY <2>1, <2>2, <2>3, <2>4 DEF Carries
<1>3. CASE TickIdle
  BY <1>3 DEF TickIdle, Carries
<1> QED
  BY <1>2, <1>3 DEF Tick, TickBusy

-----------------------------------------------------------------------------
(* No bundle is lost *)

\* The bundles in the queue fit its buffer together.
BufferHolds == Load(slots) <= BufCap

SizedQueueable == \A b \in Queueable : b.size \in Nat

LEMMA QueueableSized == SizedQueueable
BY DEF SizedQueueable, Queueable, BundleType

\* What a tick takes out, by its slot.
LEMMA PoppedSlot ==
  ASSUME IInv, BufferHolds, NEW o \in PopOutcomes(slots, Now)
  PROVE  \E i \in DOMAIN slots :
           /\ o.bundle = slots[i] /\ o.slots = SwapRemove(slots, i)
           /\ slots \in Seq(Queueable)
           /\ Load(o.slots) <= BufCap
           /\ EnqueueOutcomes(o.slots, o.bundle) = {Outcome(Append(o.slots, o.bundle), 0)}
<1>1. slots \in Seq(Queueable) /\ Len(slots) <= QueueMax
  BY Parts DEF QueueOK
<1>2. PICK i \in BestSlots(slots, Now) :
         o = [bundle |-> slots[i], slots |-> SwapRemove(slots, i)]
  BY DEF PopOutcomes
<1>3. i \in DOMAIN slots
  BY DEF BestSlots
<1>4. /\ Load(SwapRemove(slots, i)) <= Load(slots)
      /\ Load(SwapRemove(slots, i)) \in Nat /\ Load(slots) \in Nat
  BY <1>1, <1>3, QueueableSized, Q!LoadsAfter, SameQueue DEF SizedQueueable
<1>5. Load(SwapRemove(slots, i)) <= BufCap
  BY <1>4, BufCapAssumption DEF BufferHolds
<1>6. EnqueueOutcomes(SwapRemove(slots, i), slots[i])
        = {Outcome(Append(SwapRemove(slots, i), slots[i]), 0)}
  BY <1>1, <1>3, QueueableSized, Q!RequeueSucceeds, SameQueue DEF SizedQueueable, BufferHolds
<1> QED
  BY <1>1, <1>2, <1>3, <1>5, <1>6

\* A tick sends or drops the bundle it took out, or puts the very same one back.
LEMMA TickQueue ==
  ASSUME IInv, BufferHolds, TickBusy
  PROVE  \E i \in DOMAIN slots :
           /\ slots \in Seq(Queueable)
           /\ \/ /\ slots' = SwapRemove(slots, i) /\ Load(slots') <= BufCap
                 /\ Traced({"BUNDLE_TX_START", "BUNDLE_EXPIRED"}, slots[i].id)
              \/ slots' = Append(SwapRemove(slots, i), slots[i])
<1>1. PICK o \in PopOutcomes(slots, Now) :
        \/ Expire(o.bundle, o.slots)
        \/ Hold(o.bundle, o.slots)
        \/ Transmit(o.bundle, o.slots)
        \/ TransmitFails(o.bundle, o.slots)
  BY DEF TickBusy
<1>2. PICK i \in DOMAIN slots :
           /\ o.bundle = slots[i] /\ o.slots = SwapRemove(slots, i)
           /\ slots \in Seq(Queueable)
           /\ Load(o.slots) <= BufCap
           /\ EnqueueOutcomes(o.slots, o.bundle) = {Outcome(Append(o.slots, o.bundle), 0)}
  BY PoppedSlot
<1>3. CASE Expire(o.bundle, o.slots)
  BY <1>2, <1>3 DEF Expire, Traced
<1>4. CASE Transmit(o.bundle, o.slots)
  BY <1>2, <1>4 DEF Transmit, Traced
<1>5. CASE Requeue(o.slots, o.bundle)
  BY <1>2, <1>5 DEF Requeue, Outcome
<1> QED
  BY <1>1, <1>3, <1>4, <1>5 DEF Hold, TransmitFails

\* A reception queues at most one more bundle and displaces none, for it is
\* accepted only if there is room for it.
LEMMA ReceiveQueue ==
  ASSUME IInv, Receive
  PROVE  \/ UNCHANGED slots
         \/ \E b \in Queueable : Fits(slots, b) /\ slots' = Append(slots, b)
<1>1. PICK b \in BundlesHeard : \/ HandleFrame(Serialize(b))
                                \/ HandleFrame([Serialize(b) EXCEPT !.intact = FALSE])
  BY DEF Receive
<1>2. PICK d : d = Serialize(b).header
  OBVIOUS
<1>3. d \in BundleType /\ d.size = WireSize(d.payload_len)
  BY <1>2, HeardType, DecodedType DEF IInv
<1>4. UNCHANGED slots \/ HandleBundle(d)
  BY <1>1, <1>2 DEF HandleFrame, Drop, Deserialize, Serialize
<1>5. ASSUME d.dst # Self, CanAccept(custody, d, Self, Now, Free(slots), Policy), Accept(d)
      PROVE  \/ UNCHANGED slots
             \/ \E q \in Queueable : Fits(slots, q) /\ slots' = Append(slots, q)
  <2> DEFINE q == Transferred(custody, Arrived(d))
  <2>1. q \in Queueable
    BY <1>3, <1>5, AcceptedQueueable
  <2>2. q.size = d.size
    BY <1>3 DEF Transferred, Arrived, BundleType
  <2>3. PICK o \in EnqueueOutcomes(slots, q) : slots' = o.slots
    BY <1>5 DEF Accept
  <2> HIDE DEF q
  <2>4. Fits(slots, q)
    BY <1>5, <2>2 DEF CanAccept, Fits
  <2>5. o = Outcome(slots, -1) \/ o = Outcome(Append(slots, q), 0)
    BY <2>4 DEF EnqueueOutcomes
  <2> QED
    BY <2>1, <2>3, <2>4, <2>5 DEF Outcome
<1> QED
  BY <1>4, <1>5 DEF HandleBundle, Deliver, Drop

\* The queue is within its buffer at every step.
LEMMA BufferInvariant == Spec => []BufferHolds
<1>1. Init => BufferHolds
  BY Q!LoadEmpty, SameQueue, BufCapAssumption DEF Init, BufferHolds
<1>2. ASSUME IInv, BufferHolds, [Next]_vars PROVE BufferHolds'
  <2>1. slots \in Seq(Queueable)
    BY <1>2, Parts DEF QueueOK
  <2>2. CASE UNCHANGED slots
    BY <1>2, <2>2 DEF BufferHolds
  <2>3. ASSUME NEW req \in Requests, Generate(req) PROVE BufferHolds'
    <3>1. PICK o \in EnqueueOutcomes(slots, NewBundle(req)) : slots' = o.slots
      BY <2>3 DEF Generate
    <3>2. NewBundle(req) \in Queueable
      BY <1>2, GeneratedQueueable DEF IInv
    <3>3. Load(o.slots) <= BufCap
      BY <1>2, <2>1, <3>2, QueueableSized, Q!EnqueueLoad, SameQueue DEF SizedQueueable, BufferHolds
    <3> QED
      BY <3>1, <3>3 DEF BufferHolds
  <2>4. CASE Receive
    <3>1. ASSUME NEW b \in Queueable, Fits(slots, b), slots' = Append(slots, b)
          PROVE  BufferHolds'
      <4>1. Load(slots') = Load(slots) + b.size /\ Load(slots) \in Nat /\ b.size \in Nat
        BY <2>1, <3>1, QueueableSized, Q!LoadsAfter, SameQueue DEF SizedQueueable
      <4> QED
        BY <3>1, <4>1, BufCapAssumption DEF Fits, Free, BufferHolds
    <3> QED
      BY <1>2, <2>2, <2>4, <3>1, ReceiveQueue
  <2>5. CASE TickBusy
    <3>1. PICK i \in DOMAIN slots :
            \/ slots' = SwapRemove(slots, i) /\ Load(slots') <= BufCap
            \/ slots' = Append(SwapRemove(slots, i), slots[i])
      BY <1>2, <2>5, TickQueue
    <3>2. CASE slots' = Append(SwapRemove(slots, i), slots[i])
      <4>1. /\ SwapRemove(slots, i) \in Seq(Queueable) /\ slots[i] \in Queueable
            /\ Load(SwapRemove(slots, i)) = Load(slots) - slots[i].size
            /\ Load(slots) \in Nat /\ slots[i].size \in Nat
        BY <2>1, QueueableSized, Q!LoadsAfter, SameQueue DEF SizedQueueable
      <4>2. Load(slots') = Load(SwapRemove(slots, i)) + slots[i].size
        BY <3>2, <4>1, QueueableSized, Q!LoadAppend, SameQueue DEF SizedQueueable
      <4> QED
        BY <1>2, <4>1, <4>2 DEF BufferHolds
    <3> QED
      BY <3>1, <3>2 DEF BufferHolds
  <2>6. CASE Restart
    BY <2>6, Q!LoadEmpty, SameQueue, BufCapAssumption DEF Restart, Booted, BufferHolds
  <2> QED
    BY <1>2, <2>2, <2>3, <2>4, <2>5, <2>6
    DEF Next, Tick, TickIdle, HandleTimeSync, Elapse, vars
<1> QED
  BY <1>1, <1>2, Invariant, PTL DEF Spec

\* OnlySendsAndExpiriesLeave: a reception or a tick takes no copy of a bundle
\* out of the queue without a trace record that it was sent or has expired.
THEOREM NothingLost == Spec => OnlySendsAndExpiriesLeave
<1> DEFINE Stays(b) == Copies(b, slots') >= Copies(b, slots)
           Sent(b)  == /\ Copies(b, slots') = Copies(b, slots) - 1
                       /\ Traced({"BUNDLE_TX_START", "BUNDLE_EXPIRED"}, b.id)
           Lossless == \A b \in ToSet(slots) :
                         \/ Copies(b, slots') >= Copies(b, slots)
                         \/ /\ Copies(b, slots') = Copies(b, slots) - 1
                            /\ Traced({"BUNDLE_TX_START", "BUNDLE_EXPIRED"}, b.id)
<1>1. ASSUME IInv, BufferHolds, Next, boots' = boots, counter' = counter, NEW b \in ToSet(slots)
      PROVE  Stays(b) \/ Sent(b)
  <2>1. slots \in Seq(Queueable)
    BY <1>1, Parts DEF QueueOK
  <2>2. Copies(b, slots) \in Nat
    BY <2>1, Q!CopiesType, SameQueue
  <2>3. CASE UNCHANGED slots
    BY <2>2, <2>3
  <2>4. ~Restart /\ \A req \in Requests : ~Generate(req)
    BY <1>1 DEF Restart, Generate, IInv, TypeOK
  <2>5. CASE Receive
    <3>1. ASSUME NEW q \in Queueable, slots' = Append(slots, q) PROVE Stays(b)
      BY <2>1, <2>2, <3>1, Q!CopiesAppend, SameQueue
    <3> QED
      BY <1>1, <2>3, <2>5, <3>1, ReceiveQueue
  <2>6. CASE TickBusy
    <3>1. PICK i \in DOMAIN slots :
            \/ /\ slots' = SwapRemove(slots, i)
               /\ Traced({"BUNDLE_TX_START", "BUNDLE_EXPIRED"}, slots[i].id)
            \/ slots' = Append(SwapRemove(slots, i), slots[i])
      BY <1>1, <2>6, TickQueue
    <3> DEFINE rest == SwapRemove(slots, i)
    <3>2. rest \in Seq(Queueable) /\ slots[i] \in Queueable
      BY <2>1, Q!SwapRemoveShape, SameQueue
    <3>3. Copies(b, rest) = IF b = slots[i] THEN Copies(b, slots) - 1 ELSE Copies(b, slots)
      BY <2>1, Q!CopiesSwapRemove, SameQueue
    <3> HIDE DEF rest
    <3>4. CASE slots' = rest /\ Traced({"BUNDLE_TX_START", "BUNDLE_EXPIRED"}, slots[i].id)
      BY <2>2, <3>3, <3>4
    <3>5. CASE slots' = Append(rest, slots[i])
      <4>1. Copies(b, slots') = IF b = slots[i] THEN Copies(b, rest) + 1 ELSE Copies(b, rest)
        BY <3>2, <3>5, Q!CopiesAppend, SameQueue
      <4> QED
        BY <2>2, <3>3, <4>1
    <3> QED
      BY <3>1, <3>4, <3>5 DEF rest
  <2> QED
    BY <1>1, <2>3, <2>4, <2>5, <2>6 DEF Next, Tick, TickIdle, HandleTimeSync, Elapse
<1>2. IInv /\ BufferHolds /\ [Next]_vars =>
        [boots' = boots /\ counter' = counter => Lossless]_vars
  BY <1>1
<1> QED
  BY <1>2, Invariant, BufferInvariant, PTL DEF Spec, OnlySendsAndExpiriesLeave
=============================================================================
