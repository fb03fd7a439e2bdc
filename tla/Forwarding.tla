------------------------------ MODULE Forwarding ----------------------------
(***************************************************************************)
(* The forwarding engine of one node: node/forwarding.c over the queue,    *)
(* the custody table, the contact plan and the radio.  Every handler runs  *)
(* to its end before the next one starts, as in the event loop of          *)
(* main_pi.c (the two tasks of main_esp32.c are not this module's).        *)
(*                                                                         *)
(* The radio is a broadcast medium: a node hears whatever its neighbours   *)
(* send, its own bundles included when a relay sends them on.              *)
(***************************************************************************)
EXTENDS Queue, Custody, Routes

CONSTANTS
  Self,          \* the node
  Relays,        \* neighbours that may send on what they hear
  Policy,        \* custody policy, "accept" or "reject"
  InitialPlan,   \* the contact plan loaded at boot
  BundleTTL,     \* lifetime of the bundles generated here (3600 s)
  Requests,      \* messages to send: records [dst, class, len]
  Incoming,      \* bundles the neighbours send of their own
  SyncTimes,     \* ground station times in the sync frames heard
  MaxClock,      \* bound on the platform clock
  MaxIssued,     \* bound on the bundles generated between two boots
  LastIssue,     \* bound on the clock at which one is generated
  MaxBoots,      \* bound on the boots
  LastRestart,   \* bound on the clock at which the node restarts
  MaxOffset      \* bound on the clock corrections

-----------------------------------------------------------------------------
(* The constants *)

RecordType == [id : Nat \X Nat, custodian : Nat, timeout : Int]

ASSUME NodesAssumption    == Self \in Nat /\ Relays \subseteq Nat
ASSUME PlanAssumption     == /\ InitialPlan \in Seq(ContactType)
                             /\ \A i \in DOMAIN InitialPlan : /\ InitialPlan[i].bytes_used = 0
                                                              /\ InitialPlan[i].reserved = 0
ASSUME TTLAssumption      == BundleTTL \in Nat
ASSUME RequestsAssumption == Requests \subseteq [dst : Nat, class : Classes, len : Nat]
ASSUME IncomingAssumption == Incoming \subseteq BundleType
ASSUME SyncAssumption     == SyncTimes \subseteq Int

-----------------------------------------------------------------------------

VARIABLES
  slots,      \* queue.slots
  custody,    \* custody.records
  plan,       \* plan.contacts, with the bytes used
  offset,     \* time_offset
  counter,    \* the static counter of node_generate_bundle
  clock,      \* seconds since boot on the platform clock
  boots,      \* how often the node has booted
  aired,      \* history: the bundles this node has put on the air
  trace       \* the records the last handler gave the tracer

vars == <<slots, custody, plan, offset, counter, clock, boots, aired, trace>>

\* the DTN time both platforms pass to every handler
Now == clock + offset

Event(name, id) == [event |-> name, id |-> id]

\* bundle_id 0 in a record that is about no bundle
NoId == <<0, 0>>

FrameCap == 256

-----------------------------------------------------------------------------
(* node_state_init, at every boot *)

Booted ==
  /\ slots' = <<>> /\ custody' = {} /\ plan' = InitialPlan
  /\ offset' = 0 /\ counter' = 1 /\ clock' = 0

Init ==
  /\ slots = <<>> /\ custody = {} /\ plan = InitialPlan
  /\ offset = 0 /\ counter = 1 /\ clock = 0
  /\ boots = 1 /\ aired = {} /\ trace = {}

\* Nothing survives a restart: queue, custody and counter live in RAM.
Restart ==
  /\ boots < MaxBoots /\ clock <= LastRestart
  /\ boots' = boots + 1
  /\ Booted
  /\ trace' = {}
  /\ UNCHANGED aired

-----------------------------------------------------------------------------
(* node_generate_bundle *)

NewBundle(req) ==
  LET len == IF req.len > MaxPayload THEN MaxPayload ELSE req.len
  IN  [id |-> <<Self, counter>>, src |-> Self, dst |-> req.dst, curr |-> Self, cust |-> Self,
       class |-> req.class, size |-> WireSize(len), payload_len |-> len,
       t_gen |-> Now, ttl |-> BundleTTL]

Generate(req) ==
  /\ counter <= MaxIssued /\ clock <= LastIssue
  /\ counter' = counter + 1
  /\ \E o \in EnqueueOutcomes(slots, NewBundle(req)) :
        /\ slots' = o.slots
        /\ trace' = IF o.ret < 0 THEN {} ELSE {Event("BUNDLE_GENERATED", NewBundle(req).id)}
  /\ UNCHANGED <<custody, plan, offset, clock, boots, aired>>

-----------------------------------------------------------------------------
(* node_handle_received_frame *)

Drop(id) == trace' = {Event("BUNDLE_DROPPED", id)} /\ UNCHANGED <<slots, custody>>

Deliver(b) ==
  /\ custody' = AfterRelease(custody, b.id)
  /\ trace' = {Event("BUNDLE_DELIVERED", b.id)}
  /\ UNCHANGED slots

\* fault: the bundle keeps the location its sender wrote
ArrivedElsewhere(b) == b

Arrived(b) == [b EXCEPT !.curr = Self]

\* neither the custody record nor the place in the queue is checked for
Accept(b) ==
  LET here == Arrived(b)
  IN  /\ custody' = AfterTransfer(custody, here, Now)
      /\ \E o \in EnqueueOutcomes(slots, Transferred(custody, here)) : slots' = o.slots
      /\ trace' = {Event("CUSTODY_ACCEPTED", b.id), Event("BUNDLE_QUEUED", b.id)}

HandleBundle(b) ==
  IF b.dst = Self THEN Deliver(b)
  ELSE IF CanAccept(custody, b, Self, Now, Free(slots), Policy) THEN Accept(b)
  ELSE Drop(b.id)

HandleFrame(f) ==
  /\ IF Deserializable(f) THEN HandleBundle(Deserialize(f)) ELSE Drop(NoId)
  /\ UNCHANGED <<plan, offset, counter, clock, boots, aired>>

\* what a relay that took a bundle over puts on the air
SentOnBy(b, n) == [b EXCEPT !.curr = n, !.cust = n]

BundlesHeard == Incoming \cup {SentOnBy(b, n) : b \in aired, n \in Relays}

\* node_try_recv with a bundle frame, whole or garbled
Receive == \E b \in BundlesHeard :
             \/ HandleFrame(Serialize(b))
             \/ HandleFrame([Serialize(b) EXCEPT !.intact = FALSE])

\* node_try_recv with a time-sync frame: node_try_handle_time_sync
HandleTimeSync(gsTime) ==
  /\ gsTime - Now \in -MaxOffset .. MaxOffset
  /\ offset' = gsTime - Now
  /\ trace' = {Event("BUNDLE_ARRIVED", NoId)}
  /\ UNCHANGED <<slots, custody, plan, counter, clock, boots, aired>>

-----------------------------------------------------------------------------
(* node_tick: the custody timeouts, then try_send_one *)

\* fault: takes records out a second before their timeout
KeptShorter == custody \ Overdue(custody, Now + 1)

Kept == custody \ Overdue(custody, Now)

TimeoutEvents == {Event("CUSTODY_TIMEOUT", r.id) : r \in Overdue(custody, Now)}

\* The first hops of the routes cgr_select_route may return: RouteSound and
\* ParetoCovered of Cgr relate its search to these routes.
FirstHops(b) ==
  {h \in DOMAIN plan : \E route \in LooplessRoutes(plan, b, Now) : route[1] = h}

\* fault: the bundle that could not be sent is lost
RequeueForgotten(rest, b) == slots' = rest

Requeue(rest, b) == \E o \in EnqueueOutcomes(rest, b) : slots' = o.slots

TickIdle ==
  /\ slots = <<>>
  /\ custody' = Kept
  /\ trace' = TimeoutEvents
  /\ UNCHANGED <<slots, plan, aired>>

Expire(b, rest) ==
  /\ ~IsAlive(b, Now)
  /\ slots' = rest
  /\ custody' = AfterRelease(Kept, b.id)
  /\ trace' = TimeoutEvents \cup {Event("BUNDLE_EXPIRED", b.id)}
  /\ UNCHANGED <<plan, aired>>

\* b may go out over contact h now
Sendable(b, h) ==
  /\ IsAlive(b, Now)
  /\ IsFeasibleFor(plan[h], b.size, Now)
  /\ CanSerialize(b, FrameCap)

\* no route, or one whose first contact is not open or has no room for the frame
Hold(b, rest) ==
  /\ IsAlive(b, Now)
  /\ \/ FirstHops(b) = {}
     \/ \E h \in FirstHops(b) : ~Sendable(b, h)
  /\ Requeue(rest, b)
  /\ custody' = Kept
  /\ trace' = TimeoutEvents
  /\ UNCHANGED <<plan, aired>>

\* lora_send reports the frame sent; the custody record stays
Transmit(b, rest) ==
  \E h \in FirstHops(b) :
     /\ Sendable(b, h)
     /\ plan' = [plan EXCEPT ![h] = Consume(@, b.size)]
     /\ slots' = rest
     /\ aired' = aired \cup {Serialize(b).header}
     /\ custody' = Kept
     /\ trace' = TimeoutEvents \cup {Event("BUNDLE_TX_START", b.id)}

\* lora_send fails before the frame is out, or gives up waiting for TX_DONE
TransmitFails(b, rest) ==
  \E h \in FirstHops(b) :
     /\ Sendable(b, h)
     /\ Requeue(rest, b)
     /\ aired' \in {aired, aired \cup {Serialize(b).header}}
     /\ custody' = Kept
     /\ trace' = TimeoutEvents \cup {Event("BUNDLE_DROPPED", b.id)}
     /\ UNCHANGED plan

TickBusy ==
  \E o \in PopOutcomes(slots, Now) :
     \/ Expire(o.bundle, o.slots)
     \/ Hold(o.bundle, o.slots)
     \/ Transmit(o.bundle, o.slots)
     \/ TransmitFails(o.bundle, o.slots)

Tick == (TickIdle \/ TickBusy) /\ UNCHANGED <<offset, counter, clock, boots>>

-----------------------------------------------------------------------------

Elapse == /\ clock < MaxClock
          /\ clock' = clock + 1
          /\ trace' = {}
          /\ UNCHANGED <<slots, custody, plan, offset, counter, boots, aired>>

Next == \/ \E req \in Requests : Generate(req)
        \/ Receive
        \/ \E gsTime \in SyncTimes : HandleTimeSync(gsTime)
        \/ Tick
        \/ Elapse
        \/ Restart

Spec == Init /\ [][Next]_vars

-----------------------------------------------------------------------------
(* Invariants *)

Unused(c) == [c EXCEPT !.bytes_used = 0, !.reserved = 0]

\* Type invariant; the plan is the one loaded at boot but for its accounting,
\* and nothing is ever reserved on it.
TypeOK ==
  /\ slots \in Seq(BundleType) /\ Len(slots) <= QueueMax
  /\ custody \subseteq RecordType /\ IsFiniteSet(custody)
  /\ plan \in Seq(ContactType) /\ Len(plan) = Len(InitialPlan)
  /\ \A i \in DOMAIN plan : /\ Unused(plan[i]) = Unused(InitialPlan[i])
                            /\ plan[i].reserved = 0
  /\ offset \in Int
  /\ counter \in Nat \ {0}
  /\ clock \in Nat
  /\ boots \in Nat
  /\ aired \subseteq BundleType

\* One record per bundle, all of them this node's, within the table, however
\* acceptances, deliveries, expiries and timeouts mix.
CustodySound ==
  /\ \A r, s \in custody : r.id = s.id => r = s
  /\ \A r \in custody : r.custodian = Self
  /\ Cardinality(custody) <= MaxRecords

\* No contact is charged more bytes than its rate and window allow, whatever the
\* clock corrections do to the time the capacity is computed at.  A frame that
\* went out although lora_send failed is not charged.
NotOverbooked == \A i \in DOMAIN plan : plan[i].bytes_used <= Capacity(plan[i])

\* Every queued bundle can be routed from here: it is at this node, not at its
\* destination (unless it was generated for this node), and it declares the
\* size it takes on the air.
QueueRoutable ==
  \A i \in DOMAIN slots :
    /\ slots[i].curr = Self
    /\ slots[i].dst = Self => slots[i].src = Self
    /\ slots[i].size = WireSize(slots[i].payload_len)

-----------------------------------------------------------------------------
(* Properties of steps *)

Traced(names, id) == \E n \in names : Event(n, id) \in trace'

\* Receptions and ticks lose no queued bundle: a copy leaves only when it is
\* sent or has expired, although the tick takes it out of the queue before it
\* looks for a route and tries the radio.
OnlySendsAndExpiriesLeave ==
  [][boots' = boots /\ counter' = counter =>
       \A b \in ToSet(slots) :
         \/ Copies(b, slots') >= Copies(b, slots)
         \/ /\ Copies(b, slots') = Copies(b, slots) - 1
            /\ Traced({"BUNDLE_TX_START", "BUNDLE_EXPIRED"}, b.id)]_vars

\* A send that succeeds is charged to one contact, from this node, that is open
\* and stays open until the last byte; a failed one is charged to none, even if
\* its frame went out.
SendsInWindow ==
  [][plan' # plan /\ boots' = boots =>
       \E i \in DOMAIN plan :
         LET c == plan[i]
             sent == plan'[i].bytes_used - c.bytes_used
         IN  /\ c.frm = Self /\ IsActive(c, Now)
             /\ Now + TxDuration(c, sent) <= c.t_end
             /\ \E b \in ToSet(slots) : b.size = sent /\ Traced({"BUNDLE_TX_START"}, b.id)
             /\ plan' = [plan EXCEPT ![i].bytes_used = @ + sent]]_vars

\* The trace accounts for custody: between two boots a record goes only with a
\* timeout, expiry or delivery event of its bundle, none appears or is renewed
\* without an acceptance event, and an acceptance it tells of left a record and a
\* queued bundle, unless the table or the slots were full before.
TraceAccountsForCustody ==
  [][boots' = boots =>
       /\ \A r \in custody \ custody' :
            Traced({"CUSTODY_TIMEOUT", "BUNDLE_EXPIRED", "BUNDLE_DELIVERED"}, r.id)
       /\ \A r \in custody' \ custody : Traced({"CUSTODY_ACCEPTED"}, r.id)
       /\ \A e \in trace' :
            /\ e.event = "CUSTODY_ACCEPTED" =>
                 e.id \in Ids(custody') \/ Cardinality(custody) >= MaxRecords
            /\ e.event = "BUNDLE_QUEUED" =>
                 Full(slots) \/ \E b \in ToSet(slots') : b.id = e.id]_vars
=============================================================================
