------------------------------- MODULE TimeSync -----------------------------
(***************************************************************************)
(* Time synchronisation: the ground station broadcasts its DTN time every  *)
(* SyncPeriod seconds (main_pi.c), a node that hears a broadcast sets its  *)
(* time_offset (node_try_handle_time_sync).  Both platforms hand that      *)
(* function a local time to which time_offset has already been added; on   *)
(* the Pi it was read before the tick, whose send may block.  Broadcasts   *)
(* may fail, get lost, and take up to MaxDelay to be handled.              *)
(***************************************************************************)
EXTENDS Integers

CONSTANTS
  SyncPeriod,   \* seconds between broadcasts (5)
  MaxDelay,     \* the longest a frame takes from its time stamp to the handler
  MaxAge,       \* the age of the local time the handler is given (main_pi.c:233)
  Skews,        \* how long before the node the ground station may have booted
  MaxTime       \* bound on the ground station's clock

ASSUME SyncPeriodAssumption == SyncPeriod \in Nat \ {0}
ASSUME MaxDelayAssumption   == MaxDelay \in Nat
ASSUME MaxAgeAssumption     == MaxAge \in Nat
ASSUME SkewsAssumption      == Skews \subseteq Nat

VARIABLES
  ground,     \* DTN time of the ground station
  nextSync,   \* next_time_sync of its event loop
  local,      \* seconds since boot on the node's clock
  offset,     \* time_offset of the node
  air,        \* time stamps of the frames on their way
  syncs       \* history: sync frames handled

vars == <<ground, nextSync, local, offset, air, syncs>>

NodeTime == local + offset

Init ==
  /\ ground \in Skews /\ local = 0
  /\ nextSync = 0 /\ offset = 0 /\ air = {} /\ syncs = 0

\* Both clocks run; no frame stays on its way longer than MaxDelay.
Elapse ==
  /\ ground < MaxTime
  /\ \A stamp \in air : ground - stamp < MaxDelay
  /\ ground' = ground + 1 /\ local' = local + 1
  /\ UNCHANGED <<nextSync, offset, air, syncs>>

\* fault: stamps the frame with the time of the next one
BroadcastAhead ==
  /\ ground >= nextSync
  /\ nextSync' = ground + SyncPeriod
  /\ air' \in {air, air \cup {nextSync'}}
  /\ UNCHANGED <<ground, local, offset, syncs>>

\* the next broadcast is due in SyncPeriod whether or not this one went out
Broadcast ==
  /\ ground >= nextSync
  /\ nextSync' = ground + SyncPeriod
  /\ air' \in {air, air \cup {ground}}
  /\ UNCHANGED <<ground, local, offset, syncs>>

\* fault: the difference the other way round
HandleReversed(stamp) ==
  /\ offset' = NodeTime - stamp
  /\ syncs' = syncs + 1
  /\ air' = air \ {stamp}
  /\ UNCHANGED <<ground, nextSync, local>>

\* fault: the offset as the header of node_handle_time_sync promises it
HandleFromBoot(stamp) ==
  /\ offset' = stamp - local
  /\ syncs' = syncs + 1
  /\ air' = air \ {stamp}
  /\ UNCHANGED <<ground, nextSync, local>>

Handle(stamp) ==
  /\ \E age \in 0 .. MaxAge : offset' = stamp - (NodeTime - age)
  /\ syncs' = syncs + 1
  /\ air' = air \ {stamp}
  /\ UNCHANGED <<ground, nextSync, local>>

Lose(stamp) == air' = air \ {stamp} /\ UNCHANGED <<ground, nextSync, local, offset, syncs>>

Next == \/ Elapse
        \/ Broadcast
        \/ \E stamp \in air : Handle(stamp) \/ Lose(stamp)

Spec == Init /\ [][Next]_vars

-----------------------------------------------------------------------------
(* Properties *)

Skew == ground - NodeTime

OddSyncs == syncs % 2 = 1

\* Type invariant: frames on their way are at most MaxDelay old.
TypeOK ==
  /\ ground \in Nat /\ local \in Nat /\ nextSync \in Nat
  /\ offset \in Int /\ syncs \in Nat
  /\ \A stamp \in air : stamp \in Nat /\ stamp <= ground /\ ground - stamp <= MaxDelay

\* After an odd number of syncs the node follows the ground station, but every
\* two syncs may add one more delay and one more age to its error.
OddSyncsAlign ==
  OddSyncs => /\ 2 * Skew <= (syncs + 1) * MaxDelay + (syncs - 1) * MaxAge
              /\ 2 * Skew >= -((syncs - 1) * MaxDelay + (syncs + 1) * MaxAge)

\* Every second sync takes back the one before it: up to the accumulated
\* delays and ages the node is again on the time since its own boot.
EvenSyncsUndo ==
  ~OddSyncs => /\ 2 * offset <= syncs * (MaxDelay + MaxAge)
               /\ 2 * offset >= -syncs * (MaxDelay + MaxAge)

\* forwarding.h:60-62: a sync frame sets time_offset so that the node's clock
\* equals the ground station's (up to the frame's delay and the age of
\* the time the handler is given).
SyncAligns == syncs > 0 => Skew \in -MaxAge .. MaxDelay
=============================================================================
