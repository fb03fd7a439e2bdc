------------------------------- MODULE Network ------------------------------
(***************************************************************************)
(* Three nodes that run the forwarding engine: 1, where messages are       *)
(* submitted and which may restart, 2 in the middle, and 3.  Each has its  *)
(* own queue, custody table, plan and transmissions; 2 and 3 never restart *)
(* and share one clock, and 1 starts its own again when it restarts.  A    *)
(* frame on the air may reach any node in range, whole or garbled, soon or *)
(* late, more than once or never.                                          *)
(***************************************************************************)
EXTENDS Contact, Bundle, SequencesExt

CONSTANTS
  InRange,       \* pairs <<m, n>>: n hears m
  Policy, InitialPlan, BundleTTL, Requests,                      \* Forwarding
  QueueMax, BufCap, MaxRecords, CustodyTimeout,
  MaxClock, MaxIssued, LastIssue, MaxBoots, LastRestart

\* what Forwarding asks of the constants it is given
ASSUME PlanAssumption    == /\ InitialPlan \in Seq(ContactType)
                            /\ \A i \in DOMAIN InitialPlan : /\ InitialPlan[i].bytes_used = 0
                                                             /\ InitialPlan[i].reserved = 0
ASSUME TrafficAssumption == /\ BundleTTL \in Nat
                            /\ Requests \subseteq [dst : Nat, class : Classes, len : Nat]
ASSUME SizesAssumption   == /\ QueueMax \in Nat \ {0} /\ BufCap \in Nat
                            /\ MaxRecords \in Nat \ {0} /\ CustodyTimeout \in Nat \ {0}

VARIABLES
  slots1, custody1, plan1, aired1, clock1, boots, counter,
  slots2, custody2, plan2, aired2, clock,
  slots3, custody3, plan3, aired3,
  trace,        \* the records of the last handler, whichever node's
  submitted,    \* history: the bundles generated
  delivered     \* history: the bundles delivered, with their nodes

source  == <<slots1, custody1, plan1, aired1>>
relay   == <<slots2, custody2, plan2, aired2>>
sink    == <<slots3, custody3, plan3, aired3>>
life    == <<clock1, boots, counter>>
service == <<submitted, delivered>>
vars    == <<source, relay, sink, life, clock, trace, service>>

\* Three times Forwarding, with the lemmas about it that NetworkProofs cites; no
\* time-sync frames here: TimeSync is about those.
N1 == INSTANCE ForwardingProofs WITH
        Self <- 1, Relays <- {}, Incoming <- {}, SyncTimes <- {}, MaxOffset <- 0, offset <- 0,
        slots <- slots1, custody <- custody1, plan <- plan1, aired <- aired1, clock <- clock1

N2 == INSTANCE ForwardingProofs WITH
        Self <- 2, Relays <- {}, Incoming <- {}, SyncTimes <- {}, MaxOffset <- 0, offset <- 0,
        slots <- slots2, custody <- custody2, plan <- plan2, aired <- aired2,
        boots <- 1, counter <- 1

N3 == INSTANCE ForwardingProofs WITH
        Self <- 3, Relays <- {}, Incoming <- {}, SyncTimes <- {}, MaxOffset <- 0, offset <- 0,
        slots <- slots3, custody <- custody3, plan <- plan3, aired <- aired3,
        boots <- 1, counter <- 1

Init == N1!Init /\ N2!Init /\ N3!Init /\ submitted = {} /\ delivered = {}

-----------------------------------------------------------------------------

\* a bundle without the fields that change on its way
Content(b) == [b EXCEPT !.curr = 0, !.cust = 0]

Generate == \E req \in Requests :
  /\ N1!Generate(req)
  /\ submitted' = submitted \cup {Content(N1!NewBundle(req))}
  /\ UNCHANGED <<relay, sink, clock, delivered>>

\* the bundles in the frames node n may hear
Heard(n) == UNION {CASE m = 1 -> aired1 [] m = 2 -> aired2 [] m = 3 -> aired3
                     : m \in {m \in 1 .. 3 : <<m, n>> \in InRange}}

Frames(n) == {[Serialize(b) EXCEPT !.intact = whole] : b \in Heard(n), whole \in BOOLEAN}

Delivering(n, f) ==
  /\ UNCHANGED submitted
  /\ delivered' = IF \E r \in trace' : r.event = "BUNDLE_DELIVERED"
                  THEN delivered \cup {<<Content(Deserialize(f)), n>>} ELSE delivered

Receive1 == \E f \in Frames(1) : N1!HandleFrame(f) /\ Delivering(1, f) /\ UNCHANGED <<relay, sink, clock>>
Receive2 == \E f \in Frames(2) : N2!HandleFrame(f) /\ Delivering(2, f) /\ UNCHANGED <<source, sink, life>>
Receive3 == \E f \in Frames(3) : N3!HandleFrame(f) /\ Delivering(3, f) /\ UNCHANGED <<source, relay, life>>

Tick1 == N1!Tick /\ UNCHANGED <<relay, sink, clock, service>>
Tick2 == N2!Tick /\ UNCHANGED <<source, sink, life, service>>
Tick3 == N3!Tick /\ UNCHANGED <<source, relay, life, service>>

Elapse == N1!Elapse /\ N2!Elapse /\ N3!Elapse /\ UNCHANGED service

Restart == N1!Restart /\ UNCHANGED <<relay, sink, clock, service>>

Next == \/ Generate \/ Receive1 \/ Receive2 \/ Receive3
        \/ Tick1 \/ Tick2 \/ Tick3 \/ Elapse \/ Restart

Spec == Init /\ [][Next]_vars

\* every node's timer keeps firing and time passes; nothing is assumed of the air
FairSpec == Spec /\ WF_vars(Tick1) /\ WF_vars(Tick2) /\ WF_vars(Tick3) /\ WF_vars(Elapse)

-----------------------------------------------------------------------------
(* Properties *)

\* What a node delivers was submitted for it, as it is delivered: no mixing of
\* two bundles that share an identifier, no field lost on the way.
DS == INSTANCE DeliveryService WITH Nodes <- 1 .. 3

EndToEnd == DS!Spec

\* The network comes to rest although the radio may fail for ever: nodes that
\* hear each other and take a bundle over from each other do not keep it going
\* beyond its lifetime, nor its custody, whose records stay behind when the
\* bundle is sent on.  It says nothing of when a bundle leaves: one behind a
\* bundle without a route waits until that one has expired.
ComesToRest ==
  <>[](/\ slots1 = <<>> /\ slots2 = <<>> /\ slots3 = <<>>
       /\ custody1 = {} /\ custody2 = {} /\ custody3 = {})
=============================================================================
