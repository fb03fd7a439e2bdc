--------------------------- MODULE TimeSyncProofs ---------------------------
(***************************************************************************)
(* The effect of the sync frames, for every period, delay, age and skew.   *)
(* The parity of the syncs decides which of the two bounds holds, and each *)
(* sync turns one into the other: they are only inductive together.        *)
(***************************************************************************)
EXTENDS TimeSync, TLAPS

Bounds == OddSyncsAlign /\ EvenSyncsUndo

\* The clocks and the offset are numbers and no frame on its way is older than
\* MaxDelay, for every period, delay, age and skew.
THEOREM TypeCorrect == Spec => []TypeOK
<1>1. Init => TypeOK
  BY SkewsAssumption DEF Init, TypeOK
<1>2. TypeOK /\ [Next]_vars => TypeOK'
  <2> SUFFICES ASSUME TypeOK, [Next]_vars PROVE TypeOK'
    OBVIOUS
  <2> USE SyncPeriodAssumption, MaxDelayAssumption, MaxAgeAssumption DEF TypeOK
  <2>1. CASE Elapse
    BY <2>1 DEF Elapse
  <2>2. CASE Broadcast
    BY <2>2 DEF Broadcast
  <2>3. ASSUME NEW stamp \in air, Handle(stamp) PROVE TypeOK'
    BY <2>3 DEF Handle, NodeTime
  <2>4. ASSUME NEW stamp \in air, Lose(stamp) PROVE TypeOK'
    BY <2>4 DEF Lose
  <2>5. CASE UNCHANGED vars
    BY <2>5 DEF vars
  <2> QED
    BY <2>1, <2>2, <2>3, <2>4, <2>5 DEF Next
<1> QED
  BY <1>1, <1>2, PTL DEF Spec

\* A sync frame turns the bound on the offset into one on the skew, or back.
LEMMA HandleTurns ==
  ASSUME TypeOK, Bounds, NEW stamp \in air, Handle(stamp)
  PROVE  Bounds'
<1> DEFINE s == syncs  delay == ground - stamp
           d == s * MaxDelay  a == s * MaxAge
<1>0. PICK age \in 0 .. MaxAge : offset' = stamp - (NodeTime - age)
  BY DEF Handle
<1>1. /\ ground \in Nat /\ local \in Nat /\ offset \in Int /\ s \in Nat
      /\ stamp \in Nat /\ delay \in 0 .. MaxDelay /\ MaxDelay \in Nat
      /\ age \in 0 .. MaxAge /\ MaxAge \in Nat
  BY MaxDelayAssumption, MaxAgeAssumption DEF TypeOK
<1>2. syncs' = s + 1 /\ ground' = ground /\ local' = local
  BY DEF Handle
<1>3. d \in Nat /\ a \in Nat
  BY <1>1
<1>4. /\ (s + 1) * MaxDelay = d + MaxDelay /\ (s - 1) * MaxDelay = d - MaxDelay
      /\ ((s + 1) + 1) * MaxDelay = d + 2 * MaxDelay /\ ((s + 1) - 1) * MaxDelay = d
  BY <1>1
<1>5. /\ (s + 1) * MaxAge = a + MaxAge /\ (s - 1) * MaxAge = a - MaxAge
      /\ ((s + 1) + 1) * MaxAge = a + 2 * MaxAge /\ ((s + 1) - 1) * MaxAge = a
  BY <1>1
<1>6. /\ s * (MaxDelay + MaxAge) = d + a /\ -s * (MaxDelay + MaxAge) = -(d + a)
      /\ (s + 1) * (MaxDelay + MaxAge) = d + a + MaxDelay + MaxAge
      /\ -(s + 1) * (MaxDelay + MaxAge) = -(d + a + MaxDelay + MaxAge)
  BY <1>1
<1>7. CASE s % 2 = 1
  <2>1. (s + 1) % 2 # 1
    BY <1>1, <1>7
  <2>2. /\ 2 * Skew <= (d + MaxDelay) + (a - MaxAge)
        /\ 2 * Skew >= -((d - MaxDelay) + (a + MaxAge))
    BY <1>4, <1>5, <1>7 DEF Bounds, OddSyncsAlign, OddSyncs
  <2>3. offset' = Skew - delay + age /\ Skew \in Int
    BY <1>0, <1>1 DEF Skew, NodeTime
  <2> HIDE DEF delay, d, a
  <2>4. /\ 2 * offset' <= d + a + MaxDelay + MaxAge
        /\ 2 * offset' >= -(d + a + MaxDelay + MaxAge)
    BY <2>2, <2>3, <1>1, <1>3
  <2>5. /\ 2 * offset' <= (s + 1) * (MaxDelay + MaxAge)
        /\ 2 * offset' >= -(s + 1) * (MaxDelay + MaxAge)
    BY <2>4, <1>6
  <2> QED
    BY <2>1, <2>5, <1>2 DEF Bounds, OddSyncsAlign, EvenSyncsUndo, OddSyncs
<1>8. CASE s % 2 # 1
  <2>1. (s + 1) % 2 = 1
    BY <1>1, <1>8
  <2>2. 2 * offset <= d + a /\ 2 * offset >= -(d + a)
    BY <1>6, <1>8 DEF Bounds, EvenSyncsUndo, OddSyncs
  <2>3. Skew' = offset + delay - age
    BY <1>0, <1>1, <1>2 DEF Skew, NodeTime
  <2> HIDE DEF delay, d, a
  <2>4. /\ 2 * Skew' <= (d + 2 * MaxDelay) + a
        /\ 2 * Skew' >= -(d + (a + 2 * MaxAge))
    BY <2>2, <2>3, <1>1, <1>3
  <2>5. /\ 2 * Skew' <= ((s + 1) + 1) * MaxDelay + ((s + 1) - 1) * MaxAge
        /\ 2 * Skew' >= -(((s + 1) - 1) * MaxDelay + ((s + 1) + 1) * MaxAge)
    BY <2>4, <1>4, <1>5
  <2> QED
    BY <2>1, <2>5, <1>2 DEF Bounds, OddSyncsAlign, EvenSyncsUndo, OddSyncs
<1> QED
  BY <1>7, <1>8

\* The clock of a node that has handled an odd number of sync frames follows
\* the ground station's up to the delays of the frames and the ages of the
\* times they were compared with; after an even number it is back on the time
\* since its own boot (node_try_handle_time_sync).
THEOREM SyncsAlternate == Spec => [](OddSyncsAlign /\ EvenSyncsUndo)
<1>1. Init => Bounds
  BY MaxDelayAssumption, MaxAgeAssumption DEF Init, Bounds, OddSyncsAlign, EvenSyncsUndo, OddSyncs
<1>2. TypeOK /\ Bounds /\ [Next]_vars => Bounds'
  <2> SUFFICES ASSUME TypeOK, Bounds, [Next]_vars PROVE Bounds'
    OBVIOUS
  <2> USE DEF Bounds, OddSyncsAlign, EvenSyncsUndo, OddSyncs, Skew, NodeTime
  <2>1. CASE Elapse
    <3>1. Skew' = Skew
      BY <2>1 DEF Elapse, TypeOK
    <3> QED
      BY <2>1, <3>1 DEF Elapse
  <2>2. CASE Broadcast
    BY <2>2 DEF Broadcast
  <2>3. ASSUME NEW stamp \in air, Handle(stamp) PROVE Bounds'
    BY <2>3, HandleTurns
  <2>4. ASSUME NEW stamp \in air, Lose(stamp) PROVE Bounds'
    BY <2>4 DEF Lose
  <2>5. CASE UNCHANGED vars
    BY <2>5 DEF vars
  <2> QED
    BY <2>1, <2>2, <2>3, <2>4, <2>5 DEF Next
<1> QED
  BY <1>1, <1>2, TypeCorrect, PTL DEF Spec, Bounds

\* EvenSyncsUndo: every second sync frame puts a node back on the time since
\* its own boot, up to the delays and ages, for node_try_handle_time_sync subtracts a
\* clock that already has the offset of the frame before in it.
THEOREM EverySecondUndoes == Spec => []EvenSyncsUndo
BY SyncsAlternate, PTL
=============================================================================
