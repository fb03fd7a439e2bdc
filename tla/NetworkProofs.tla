---------------------------- MODULE NetworkProofs ---------------------------
(***************************************************************************)
(* What three nodes promise together, for every plan, traffic, range,      *)
(* size of the tables and number of restarts.                              *)
(*                                                                         *)
(* Each node keeps the invariant of its engine (ForwardingProofs), for a   *)
(* step of another node leaves its state alone.  What the nodes have       *)
(* between them is that a bundle, wherever it is queued or in whichever    *)
(* frame it is on the air, is one that was submitted, but for its place    *)
(* and its custodian.  Nothing in the code compares a bundle with the one  *)
(* that was submitted, and identifiers are issued again after a restart:   *)
(* the invariant has to follow the bundles through every queue and every   *)
(* transmission.                                                           *)
(***************************************************************************)
EXTENDS Network, TLAPS

Engines == N1!IInv /\ N2!IInv /\ N3!IInv

Carried == N1!Carries(submitted) /\ N2!Carries(submitted) /\ N3!Carries(submitted)

NInv == Engines /\ Carried

-----------------------------------------------------------------------------
(* The three engines *)

\* The bundles of the three engines and of the network are the same.
LEMMA SameBundles ==
  /\ N1!BundleType = BundleType /\ N2!BundleType = BundleType /\ N3!BundleType = BundleType
  /\ \A n : N1!WireSize(n) = WireSize(n) /\ N2!WireSize(n) = WireSize(n)
                                         /\ N3!WireSize(n) = WireSize(n)
  /\ \A b : N1!Content(b) = Content(b) /\ N2!Content(b) = Content(b)
                                       /\ N3!Content(b) = Content(b)
  /\ \A b : N1!Serialize(b) = Serialize(b) /\ N2!Serialize(b) = Serialize(b)
                                           /\ N3!Serialize(b) = Serialize(b)
  /\ \A f : N1!Deserialize(f) = Deserialize(f) /\ N2!Deserialize(f) = Deserialize(f)
                                               /\ N3!Deserialize(f) = Deserialize(f)
BY DEF BundleType, Classes, Command, Housekeeping, MaxPayload,
       WireSize, HeaderLen, CrcLen, Content, Serialize, Deserialize,
       N1!BundleType, N1!Classes, N1!Command, N1!Housekeeping, N1!MaxPayload,
       N1!WireSize, N1!HeaderLen, N1!CrcLen, N1!Content, N1!Serialize, N1!Deserialize,
       N2!BundleType, N2!Classes, N2!Command, N2!Housekeeping, N2!MaxPayload,
       N2!WireSize, N2!HeaderLen, N2!CrcLen, N2!Content, N2!Serialize, N2!Deserialize,
       N3!BundleType, N3!Classes, N3!Command, N3!Housekeeping, N3!MaxPayload,
       N3!WireSize, N3!HeaderLen, N3!CrcLen, N3!Content, N3!Serialize, N3!Deserialize

\* What the engines assume of their constants is granted.
LEMMA Granted ==
  /\ QueueMax \in Nat \ {0} /\ BufCap \in Nat
  /\ MaxRecords \in Nat \ {0} /\ CustodyTimeout \in Nat \ {0}
  /\ BundleTTL \in Nat
  /\ InitialPlan \in Seq(N1!ContactType)
  /\ InitialPlan \in Seq(N2!ContactType)
  /\ InitialPlan \in Seq(N3!ContactType)
  /\ \A i \in DOMAIN InitialPlan : InitialPlan[i].bytes_used = 0 /\ InitialPlan[i].reserved = 0
  /\ Requests \subseteq [dst : Nat, class : N1!Classes, len : Nat]
  /\ Requests \subseteq [dst : Nat, class : N2!Classes, len : Nat]
  /\ Requests \subseteq [dst : Nat, class : N3!Classes, len : Nat]
BY PlanAssumption, TrafficAssumption, SizesAssumption
   DEF ContactType, N1!ContactType, N2!ContactType, N3!ContactType,
       Classes, Command, Housekeeping, N1!Classes, N1!Command, N1!Housekeeping,
       N2!Classes, N2!Command, N2!Housekeeping, N3!Classes, N3!Command, N3!Housekeeping

\* A node that is left alone keeps its invariant and what it carries, although
\* more may have been submitted.
LEMMA OthersStay ==
  ASSUME NInv, submitted \subseteq submitted'
  PROVE  /\ UNCHANGED <<source, life>> => N1!IInv' /\ N1!Carries(submitted)'
         /\ UNCHANGED <<relay, clock>> => N2!IInv' /\ N2!Carries(submitted)'
         /\ UNCHANGED <<sink, clock>> => N3!IInv' /\ N3!Carries(submitted)'
<1>1. PICK C, D : C = submitted /\ D = submitted'
  OBVIOUS
<1>2. N1!Carries(D) /\ N2!Carries(D) /\ N3!Carries(D)
  BY <1>1, Granted, N1!CarriesMore, N2!CarriesMore, N3!CarriesMore DEF NInv, Carried
<1>3. ASSUME UNCHANGED <<source, life>> PROVE N1!IInv' /\ N1!Carries(submitted)'
  BY <1>1, <1>2, <1>3, Granted, N1!NodeStays
     DEF NInv, Engines, source, life, N1!Carries
<1>4. ASSUME UNCHANGED <<relay, clock>> PROVE N2!IInv' /\ N2!Carries(submitted)'
  BY <1>1, <1>2, <1>4, Granted, N2!NodeStays DEF NInv, Engines, relay, N2!Carries
<1>5. ASSUME UNCHANGED <<sink, clock>> PROVE N3!IInv' /\ N3!Carries(submitted)'
  BY <1>1, <1>2, <1>5, Granted, N3!NodeStays DEF NInv, Engines, sink, N3!Carries
<1> QED
  BY <1>3, <1>4, <1>5

\* What is heard, whole or garbled, was submitted.
LEMMA HeardSubmitted ==
  ASSUME NInv, NEW n \in 1 .. 3, NEW f \in Frames(n)
  PROVE  \E b \in BundleType : /\ f.header = b /\ Serialize(b).header = b
                               /\ Content(b) \in submitted
<1>1. PICK b \in Heard(n), whole \in BOOLEAN : f = [Serialize(b) EXCEPT !.intact = whole]
  BY DEF Frames
<1>2. b \in aired1 \/ b \in aired2 \/ b \in aired3
  <2>1. PICK m \in 1 .. 3 :
          b \in CASE m = 1 -> aired1 [] m = 2 -> aired2 [] m = 3 -> aired3
    BY <1>1 DEF Heard
  <2>2. m = 1 \/ m = 2 \/ m = 3
    OBVIOUS
  <2> QED
    BY <2>1, <2>2
<1>3. b \in BundleType /\ Content(b) \in submitted /\ b.size = WireSize(b.payload_len)
  BY <1>2, SameBundles
     DEF NInv, Carried, N1!Carries, N1!Bearing, N1!Wired, N2!Carries, N2!Bearing, N2!Wired,
         N3!Carries, N3!Bearing, N3!Wired
<1>4. Serialize(b).header = b /\ f.header = b
  BY <1>1, <1>3 DEF Serialize, BundleType
<1> QED
  BY <1>3, <1>4

-----------------------------------------------------------------------------
(* The steps *)

\* node_generate_bundle at node 1: what it adds has just been submitted.
LEMMA GenerateKeeps ==
  ASSUME NInv, Generate
  PROVE  NInv'
<1>1. PICK req \in Requests : /\ N1!Generate(req)
                              /\ submitted' = submitted \cup {Content(N1!NewBundle(req))}
                              /\ UNCHANGED <<relay, sink, clock, delivered>>
  BY DEF Generate
<1>2. PICK C, D : C = submitted /\ D = submitted'
  OBVIOUS
<1>3. N1!IInv'
  BY <1>1, Granted, N1!GenerateKeeps DEF NInv, Engines
<1>4. N1!Carries(D) /\ N1!Content(N1!NewBundle(req)) \in D
  BY <1>1, <1>2, Granted, SameBundles, N1!CarriesMore DEF NInv, Carried
<1>5. N1!Carries(submitted)'
  BY <1>1, <1>2, <1>4, Granted, N1!GenerateCarries DEF NInv, Engines, N1!Carries
<1>6. N2!IInv' /\ N2!Carries(submitted)' /\ N3!IInv' /\ N3!Carries(submitted)'
  BY <1>1, OthersStay
<1> QED
  BY <1>3, <1>5, <1>6 DEF NInv, Engines, Carried

\* node_handle_received_frame at node 1, at node 2 and at node 3: what is heard
\* is carried already.
LEMMA Receive1Keeps ==
  ASSUME NInv, Receive1
  PROVE  NInv'
<1>1. PICK f \in Frames(1) : N1!HandleFrame(f) /\ UNCHANGED <<relay, sink, clock, submitted>>
  BY DEF Receive1, Delivering
<1>2. PICK b \in BundleType : /\ f.header = b /\ Serialize(b).header = b
                              /\ Content(b) \in submitted
  BY HeardSubmitted
<1>3. PICK C : C = submitted
  OBVIOUS
<1>4. N1!IInv'
  BY <1>1, <1>2, Granted, SameBundles, N1!FrameKeeps DEF NInv, Engines
<1>5. N1!Carries(C) /\ f.header \in N1!Bearing(C)
  BY <1>2, <1>3, SameBundles DEF NInv, Carried, N1!Bearing
<1>6. N1!Carries(submitted)'
  BY <1>1, <1>3, <1>5, Granted, N1!FrameCarries DEF NInv, Engines, N1!Carries
<1>7. N2!IInv' /\ N2!Carries(submitted)' /\ N3!IInv' /\ N3!Carries(submitted)'
  BY <1>1, OthersStay
<1> QED
  BY <1>4, <1>6, <1>7 DEF NInv, Engines, Carried

LEMMA Receive2Keeps ==
  ASSUME NInv, Receive2
  PROVE  NInv'
<1>1. PICK f \in Frames(2) : N2!HandleFrame(f) /\ UNCHANGED <<source, sink, life, submitted>>
  BY DEF Receive2, Delivering
<1>2. PICK b \in BundleType : /\ f.header = b /\ Serialize(b).header = b
                              /\ Content(b) \in submitted
  BY HeardSubmitted
<1>3. PICK C : C = submitted
  OBVIOUS
<1>4. N2!IInv'
  BY <1>1, <1>2, Granted, SameBundles, N2!FrameKeeps DEF NInv, Engines
<1>5. N2!Carries(C) /\ f.header \in N2!Bearing(C)
  BY <1>2, <1>3, SameBundles DEF NInv, Carried, N2!Bearing
<1>6. N2!Carries(submitted)'
  BY <1>1, <1>3, <1>5, Granted, N2!FrameCarries DEF NInv, Engines, N2!Carries
<1>7. UNCHANGED clock
  BY <1>1 DEF N2!HandleFrame
<1>8. N1!IInv' /\ N1!Carries(submitted)' /\ N3!IInv' /\ N3!Carries(submitted)'
  BY <1>1, <1>7, OthersStay
<1> QED
  BY <1>4, <1>6, <1>8 DEF NInv, Engines, Carried

LEMMA Receive3Keeps ==
  ASSUME NInv, Receive3
  PROVE  NInv'
<1>1. PICK f \in Frames(3) : N3!HandleFrame(f) /\ UNCHANGED <<source, relay, life, submitted>>
  BY DEF Receive3, Delivering
<1>2. PICK b \in BundleType : /\ f.header = b /\ Serialize(b).header = b
                              /\ Content(b) \in submitted
  BY HeardSubmitted
<1>3. PICK C : C = submitted
  OBVIOUS
<1>4. N3!IInv'
  BY <1>1, <1>2, Granted, SameBundles, N3!FrameKeeps DEF NInv, Engines
<1>5. N3!Carries(C) /\ f.header \in N3!Bearing(C)
  BY <1>2, <1>3, SameBundles DEF NInv, Carried, N3!Bearing
<1>6. N3!Carries(submitted)'
  BY <1>1, <1>3, <1>5, Granted, N3!FrameCarries DEF NInv, Engines, N3!Carries
<1>7. UNCHANGED clock
  BY <1>1 DEF N3!HandleFrame
<1>8. N1!IInv' /\ N1!Carries(submitted)' /\ N2!IInv' /\ N2!Carries(submitted)'
  BY <1>1, <1>7, OthersStay
<1> QED
  BY <1>4, <1>6, <1>8 DEF NInv, Engines, Carried

\* node_tick at each node: what it sends it had carried.
LEMMA Tick1Keeps ==
  ASSUME NInv, Tick1
  PROVE  NInv'
<1>1. N1!Tick /\ UNCHANGED <<relay, sink, clock, service>>
  BY DEF Tick1
<1>2. PICK C : C = submitted
  OBVIOUS
<1>3. N1!IInv'
  BY <1>1, Granted, N1!TickKeeps DEF NInv, Engines
<1>4. N1!Carries(C)'
  BY <1>1, <1>2, Granted, N1!TickCarries DEF NInv, Engines, Carried
<1>5. N1!Carries(submitted)'
  BY <1>1, <1>2, <1>4 DEF service, N1!Carries
<1>6. N2!IInv' /\ N2!Carries(submitted)' /\ N3!IInv' /\ N3!Carries(submitted)'
  BY <1>1, OthersStay DEF service
<1> QED
  BY <1>3, <1>5, <1>6 DEF NInv, Engines, Carried

LEMMA Tick2Keeps ==
  ASSUME NInv, Tick2
  PROVE  NInv'
<1>1. N2!Tick /\ UNCHANGED <<source, sink, life, service>>
  BY DEF Tick2
<1>2. PICK C : C = submitted
  OBVIOUS
<1>3. N2!IInv'
  BY <1>1, Granted, N2!TickKeeps DEF NInv, Engines
<1>4. N2!Carries(C)'
  BY <1>1, <1>2, Granted, N2!TickCarries DEF NInv, Engines, Carried
<1>5. N2!Carries(submitted)'
  BY <1>1, <1>2, <1>4 DEF service, N2!Carries
<1>6. UNCHANGED clock
  BY <1>1 DEF N2!Tick
<1>7. N1!IInv' /\ N1!Carries(submitted)' /\ N3!IInv' /\ N3!Carries(submitted)'
  BY <1>1, <1>6, OthersStay DEF service
<1> QED
  BY <1>3, <1>5, <1>7 DEF NInv, Engines, Carried

LEMMA Tick3Keeps ==
  ASSUME NInv, Tick3
  PROVE  NInv'
<1>1. N3!Tick /\ UNCHANGED <<source, relay, life, service>>
  BY DEF Tick3
<1>2. PICK C : C = submitted
  OBVIOUS
<1>3. N3!IInv'
  BY <1>1, Granted, N3!TickKeeps DEF NInv, Engines
<1>4. N3!Carries(C)'
  BY <1>1, <1>2, Granted, N3!TickCarries DEF NInv, Engines, Carried
<1>5. N3!Carries(submitted)'
  BY <1>1, <1>2, <1>4 DEF service, N3!Carries
<1>6. UNCHANGED clock
  BY <1>1 DEF N3!Tick
<1>7. N1!IInv' /\ N1!Carries(submitted)' /\ N2!IInv' /\ N2!Carries(submitted)'
  BY <1>1, <1>6, OthersStay DEF service
<1> QED
  BY <1>3, <1>5, <1>7 DEF NInv, Engines, Carried

\* the clocks of all three nodes
LEMMA ElapseKeeps ==
  ASSUME NInv, Elapse
  PROVE  NInv'
<1>1. N1!Elapse /\ N2!Elapse /\ N3!Elapse /\ UNCHANGED service
  BY DEF Elapse
<1>2. N1!IInv' /\ N2!IInv' /\ N3!IInv'
  BY <1>1, Granted, N1!ElapseKeeps, N2!ElapseKeeps, N3!ElapseKeeps DEF NInv, Engines
<1>3. N1!Carries(submitted)' /\ N2!Carries(submitted)' /\ N3!Carries(submitted)'
  BY <1>1 DEF NInv, Carried, service, N1!Elapse, N2!Elapse, N3!Elapse,
              N1!Carries, N2!Carries, N3!Carries
<1> QED
  BY <1>2, <1>3 DEF NInv, Engines, Carried

\* node 1 starts again, with an empty queue, while its frames are in the air
LEMMA RestartKeeps ==
  ASSUME NInv, Restart
  PROVE  NInv'
<1>1. N1!Restart /\ UNCHANGED <<relay, sink, clock, service>>
  BY DEF Restart
<1>2. PICK C : C = submitted
  OBVIOUS
<1>3. N1!IInv'
  BY <1>1, Granted, N1!BootKeeps DEF NInv, Engines
<1>4. N1!Carries(C)'
  BY <1>1, <1>2, Granted, N1!BootCarries DEF NInv, Carried
<1>5. N1!Carries(submitted)'
  BY <1>1, <1>2, <1>4 DEF service, N1!Carries
<1>6. N2!IInv' /\ N2!Carries(submitted)' /\ N3!IInv' /\ N3!Carries(submitted)'
  BY <1>1, OthersStay DEF service
<1> QED
  BY <1>3, <1>5, <1>6 DEF NInv, Engines, Carried

-----------------------------------------------------------------------------
(* The theorems *)

LEMMA Inductive ==
  /\ Init => NInv
  /\ NInv /\ [Next]_vars => NInv'
<1>1. ASSUME Init PROVE NInv
  <2>1. N1!IInv /\ N2!IInv /\ N3!IInv
    BY <1>1, Granted, N1!BootKeeps, N2!BootKeeps, N3!BootKeeps DEF Init
  <2>2. N1!Carries(submitted) /\ N2!Carries(submitted) /\ N3!Carries(submitted)
    BY <1>1, Granted, N1!BootCarries, N2!BootCarries, N3!BootCarries DEF Init
  <2> QED
    BY <2>1, <2>2 DEF NInv, Engines, Carried
<1>2. ASSUME NInv, [Next]_vars PROVE NInv'
  <2>1. CASE UNCHANGED vars
    BY <1>2, <2>1, OthersStay DEF vars, service, NInv, Engines, Carried
  <2> QED
    BY <1>2, <2>1, GenerateKeeps, Receive1Keeps, Receive2Keeps, Receive3Keeps,
       Tick1Keeps, Tick2Keeps, Tick3Keeps, ElapseKeeps, RestartKeeps DEF Next
<1> QED
  BY <1>1, <1>2

LEMMA Invariant == Spec => []NInv
BY Inductive, PTL DEF Spec

\* A delivery of the network is one of the service, or none.
LEMMA ReceiveDelivers ==
  ASSUME NInv, NEW n \in 1 .. 3, NEW f \in Frames(n), Delivering(n, f),
         \A r \in trace' : r.event = "BUNDLE_DELIVERED" => Deserialize(f).dst = n
  PROVE  DS!Next \/ UNCHANGED <<submitted, delivered>>
<1>1. CASE \A r \in trace' : r.event # "BUNDLE_DELIVERED"
  BY <1>1 DEF Delivering
<1>2. CASE \E r \in trace' : r.event = "BUNDLE_DELIVERED"
  <2>1. PICK b \in BundleType : f.header = b /\ Content(b) \in submitted
    BY HeardSubmitted
  <2>2. b.dst = n /\ Deserialize(f) = b
    BY <1>2, <2>1 DEF Deserialize
  <2>3. Content(b).dst = n
    BY <2>2 DEF Content, BundleType
  <2>4. DS!Deliver(Content(b), n)
    BY <1>2, <2>1, <2>2, <2>3 DEF Delivering, DS!Deliver
  <2> QED
    BY <2>1, <2>4 DEF DS!Next
<1> QED
  BY <1>1, <1>2

\* EndToEnd: whatever the radio loses, repeats, delays or garbles, and however
\* often node 1 restarts, a node delivers only what was submitted for it, and
\* as it was submitted (node_handle_received_frame).
THEOREM WhatIsDeliveredWasSubmitted == Spec => EndToEnd
<1>1. Init => DS!Init
  BY DEF Init, DS!Init
<1>2. ASSUME NInv, [Next]_vars PROVE DS!Next \/ UNCHANGED <<submitted, delivered>>
  <2>1. CASE Generate
    BY <2>1 DEF Generate, DS!Next, DS!Submit
  <2>2. ASSUME NEW f \in Frames(1), N1!HandleFrame(f), Delivering(1, f)
        PROVE  DS!Next \/ UNCHANGED <<submitted, delivered>>
    BY <1>2, <2>2, Granted, SameBundles, N1!DeliversOwn, ReceiveDelivers
  <2>3. ASSUME NEW f \in Frames(2), N2!HandleFrame(f), Delivering(2, f)
        PROVE  DS!Next \/ UNCHANGED <<submitted, delivered>>
    BY <1>2, <2>3, Granted, SameBundles, N2!DeliversOwn, ReceiveDelivers
  <2>4. ASSUME NEW f \in Frames(3), N3!HandleFrame(f), Delivering(3, f)
        PROVE  DS!Next \/ UNCHANGED <<submitted, delivered>>
    BY <1>2, <2>4, Granted, SameBundles, N3!DeliversOwn, ReceiveDelivers
  <2>5. CASE UNCHANGED service
    BY <2>5 DEF service
  <2> QED
    BY <1>2, <2>1, <2>2, <2>3, <2>4, <2>5
       DEF Next, Receive1, Receive2, Receive3, Tick1, Tick2, Tick3, Elapse, Restart, vars
<1>3. NInv /\ [Next]_vars => [DS!Next]_<<submitted, delivered>>
  BY <1>2
<1> QED
  BY <1>1, <1>3, Invariant, PTL DEF Spec, EndToEnd, DS!Spec
=============================================================================
