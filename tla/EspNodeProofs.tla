---------------------------- MODULE EspNodeProofs ---------------------------
(***************************************************************************)
(* The hand-over of the radio's interrupt between the ESP32's two tasks,   *)
(* for any set of bundles, queue size and number of arriving frames.       *)
(*                                                                         *)
(* The radio is accessed in steps that know nothing of each other, yet the *)
(* flags, the token and the two places in the code that clear the flags    *)
(* make one invariant, inductive with no more than the types of the three. *)
(***************************************************************************)
EXTENDS EspNode, TLAPS, FiniteSetTheorems

\* c has the fields of a radio, whatever is in them.
IsRadio(c) == c \in [mode : {c.mode}, flags : {c.flags}, fifo : {c.fifo}]

\* Only the chip and ClearFlags change the flags of the radio.
LEMMA RadioOperations ==
  ASSUME NEW c, IsRadio(c)
  PROVE  /\ \A m : IsRadio(SetMode(c, m)) /\ SetMode(c, m).flags = c.flags
         /\ \A f : IsRadio(WriteFifo(c, f)) /\ WriteFifo(c, f).flags = c.flags
         /\ IsRadio(ClearFlags(c)) /\ ClearFlags(c).flags = {}
         /\ IsRadio(TxDone(c)) /\ TxDone(c).flags = c.flags \cup {"TX_DONE"}
         /\ \A f, e : /\ IsRadio(RxDone(c, f, e))
                      /\ RxDone(c, f, e).flags = c.flags \cup {"RX_DONE"} \cup e
BY DEF IsRadio, SetMode, WriteFifo, ClearFlags, TxDone, RxDone

-----------------------------------------------------------------------------

\* The places in the two tasks.
Labels ==
  {"sleep", "copy", "reindex", "remove", "send", "fill", "transmit", "take", "blocked", "ack",
   "sent", "giveup", "enqueue", "index", "append", "recv", "listen", "irq", "read", "nothing",
   "received"}

\* What the proof needs of the types.
Types ==
  /\ IsRadio(chip)
  /\ sem \in {0, 1}
  /\ pc \in [Tasks -> Labels]

TickOwns == pc["tick"] = "ack"
RxOwns   == pc["rx"] \in {"irq", "ack"}

\* OneOwner, with its three possible owners named
Owned ==
  /\ sem = 1 => ~TickOwns /\ ~RxOwns
  /\ TickOwns => ~RxOwns
  /\ chip.flags # {} <=> sem = 1 \/ TickOwns \/ RxOwns

IInv == Types /\ Owned

-----------------------------------------------------------------------------

\* The two forms agree.
LEMMA OwnedIsOneOwner ==
  ASSUME Types
  PROVE  Owned => OneOwner
<1> SUFFICES ASSUME Owned PROVE OneOwner
  OBVIOUS
<1>1. Acknowledging = (IF TickOwns THEN {"tick"} ELSE {}) \cup (IF RxOwns THEN {"rx"} ELSE {})
  BY DEF Acknowledging, TickOwns, RxOwns, Tasks
<1>2. Cardinality({}) = 0 /\ Cardinality({"tick"}) = 1 /\ Cardinality({"rx"}) = 1
  BY FS_EmptySet, FS_Singleton
<1>3. CASE TickOwns
  <2>1. Acknowledging = {"tick"} /\ sem = 0
    BY <1>1, <1>3 DEF Owned, Types
  <2> QED
    BY <2>1, <1>2, <1>3 DEF Owned, OneOwner
<1>4. CASE RxOwns
  <2>1. Acknowledging = {"rx"} /\ sem = 0
    BY <1>1, <1>4 DEF Owned, Types
  <2> QED
    BY <2>1, <1>2, <1>4 DEF Owned, OneOwner
<1>5. CASE ~TickOwns /\ ~RxOwns
  <2>1. Acknowledging = {}
    BY <1>1, <1>5
  <2> QED
    BY <2>1, <1>2, <1>5 DEF Owned, OneOwner, Types
<1> QED
  BY <1>3, <1>4, <1>5

\* A step of one task moves that task only.
LEMMA Moves ==
  ASSUME Types, NEW t \in Tasks, NEW label \in Labels, NEW f, Carry(t, label, f)
  PROVE  /\ pc' \in [Tasks -> Labels]
         /\ pc' = [pc EXCEPT ![t] = label]
BY DEF Types, Carry

\* A step that leaves the flags and the token alone, and goes neither to nor
\* from a place that owns the interrupt, disturbs nothing.
LEMMA Elsewhere ==
  ASSUME IInv, NEW t \in Tasks, NEW label \in Labels, NEW f, Carry(t, label, f),
         pc[t] \notin {"irq", "ack"}, label \notin {"irq", "ack"},
         IsRadio(chip'), chip'.flags = chip.flags, sem' = sem
  PROVE  IInv'
<1>1. pc' \in [Tasks -> Labels] /\ pc' = [pc EXCEPT ![t] = label]
  BY Moves DEF IInv
<1>2. TickOwns' = TickOwns /\ RxOwns' = RxOwns
  BY <1>1 DEF TickOwns, RxOwns, IInv, Types, Tasks
<1> QED
  BY <1>1, <1>2 DEF IInv, Owned, Types

\* The token changes hands.
LEMMA TakeKeeps ==
  ASSUME IInv, Take("tick", "ack") \/ Take("rx", "irq")
  PROVE  IInv'
<1>1. CASE Take("tick", "ack")
  <2>1. Carry("tick", "ack", frame["tick"]) /\ sem = 1 /\ sem' = 0 /\ chip' = chip
    BY <1>1 DEF Take, Goto
  <2>a. pc' = [pc EXCEPT !["tick"] = "ack"]
    BY <2>1 DEF Carry
  <2>2. pc' \in [Tasks -> Labels] /\ pc' = [pc EXCEPT !["tick"] = "ack"]
    BY <2>a DEF IInv, Types, Tasks, Labels
  <2>3. TickOwns' /\ ~TickOwns /\ ~RxOwns /\ RxOwns' = RxOwns
    BY <2>1, <2>2 DEF IInv, Owned, Types, TickOwns, RxOwns, Tasks
  <2> QED
    BY <2>1, <2>2, <2>3 DEF IInv, Owned, Types
<1>2. CASE Take("rx", "irq")
  <2>1. Carry("rx", "irq", frame["rx"]) /\ sem = 1 /\ sem' = 0 /\ chip' = chip
    BY <1>2 DEF Take, Goto
  <2>a. pc' = [pc EXCEPT !["rx"] = "irq"]
    BY <2>1 DEF Carry
  <2>2. pc' \in [Tasks -> Labels] /\ pc' = [pc EXCEPT !["rx"] = "irq"]
    BY <2>a DEF IInv, Types, Tasks, Labels
  <2>3. RxOwns' /\ ~TickOwns /\ ~RxOwns /\ TickOwns' = TickOwns
    BY <2>1, <2>2 DEF IInv, Owned, Types, TickOwns, RxOwns, Tasks
  <2> QED
    BY <2>1, <2>2, <2>3 DEF IInv, Owned, Types
<1> QED
  BY <1>1, <1>2

\* Waiting, and giving up, leave the token where it is.
LEMMA WaitKeeps ==
  ASSUME IInv, NEW t \in Tasks, NEW label \in Labels, label \notin {"irq", "ack"},
         Block(t) \/ Timeout(t, label)
  PROVE  IInv'
<1>1. PICK l \in {"blocked", label} : Carry(t, l, frame[t])
  BY DEF Block, Timeout, Goto
<1>2. pc[t] \notin {"irq", "ack"}
  BY DEF Block, Timeout
<1>3. chip' = chip /\ sem' = sem
  BY DEF Block, Timeout, radio
<1>4. l \in Labels /\ l \notin {"irq", "ack"}
  BY DEF Labels
<1>5. IsRadio(chip') /\ chip'.flags = chip.flags
  BY <1>3 DEF IInv, Types
<1> QED
  BY <1>1, <1>2, <1>3, <1>4, <1>5, Elsewhere

\* A register written between two places that own nothing.
LEMMA WriteKeeps ==
  ASSUME IInv, NEW t \in Tasks, NEW from, NEW label \in Labels, NEW c,
         Write(t, from, label, c), {from, label} \cap {"irq", "ack"} = {},
         IsRadio(c), c.flags = chip.flags
  PROVE  IInv'
<1>1. Carry(t, label, frame[t]) /\ pc[t] = from /\ chip' = c /\ sem' = sem
  BY DEF Write, Goto
<1> QED
  BY <1>1, Elsewhere

-----------------------------------------------------------------------------
(* One lemma for each side of the radio *)

\* A flag raised gives the token, unless it has an owner already.
LEMMA ChipKeeps ==
  ASSUME IInv, FrameSent \/ FrameArrives
  PROVE  IInv'
<1>1. IsRadio(chip') /\ chip'.flags # {} /\ Raised(chip')
  <2>1. CASE FrameSent
    BY <2>1, RadioOperations DEF FrameSent, IInv, Types
  <2>2. CASE FrameArrives
    <3>1. PICK f \in Frames, e \in Errors : chip' = RxDone(chip, f, e)
      BY <2>2 DEF FrameArrives
    <3>2. Raised(chip')
      BY <2>2 DEF FrameArrives
    <3> QED
      BY <3>1, <3>2, RadioOperations DEF IInv, Types
  <2> QED
    BY <2>1, <2>2
<1>2. pc' = pc
  BY DEF FrameSent, FrameArrives
<1>3. TickOwns' = TickOwns /\ RxOwns' = RxOwns
  BY <1>2 DEF TickOwns, RxOwns
<1>4. sem' = IF chip.flags = {} THEN 1 ELSE sem
  BY <1>1 DEF Raised, Dio0Rises
<1> QED
  BY <1>1, <1>2, <1>3, <1>4 DEF IInv, Owned, Types

\* esp_send keeps the invariant.
LEMMA SendKeeps ==
  ASSUME IInv, Send
  PROVE  IInv'
<1> USE DEF Labels, Tasks
<1>0. IsRadio(chip)
  BY DEF IInv, Types
<1>a. \A m : IsRadio(SetMode(chip, m)) /\ SetMode(chip, m).flags = chip.flags
  BY <1>0, RadioOperations
<1>1. CASE SendStart
  <2>1. Write("tick", "send", "fill", SetMode(chip, "stdby"))
    BY <1>1 DEF SendStart
  <2> QED
    BY <1>a, <2>1, WriteKeeps
<1>2. CASE SendFill
  <2>1. PICK f : Write("tick", "fill", "transmit", WriteFifo(chip, f))
    BY <1>2 DEF SendFill
  <2> QED
    BY <1>0, <2>1, WriteKeeps, RadioOperations
<1>3. CASE SendTransmit
  <2>1. Write("tick", "transmit", "take", SetMode(chip, "tx"))
    BY <1>3 DEF SendTransmit, Command
  <2> QED
    BY <1>a, <2>1, WriteKeeps
<1>4. CASE SendReturns
  <2>1. PICK from \in {"sent", "giveup"}, label \in {"sleep", "enqueue"} :
          Write("tick", from, label, SetMode(chip, "stdby"))
    BY <1>4 DEF SendReturns
  <2> QED
    BY <1>a, <2>1, WriteKeeps
<1>5. CASE SendAck
  <2>1. /\ Carry("tick", "sent", frame["tick"]) /\ pc["tick"] = "ack"
        /\ chip' = ClearFlags(chip) /\ sem' = sem
    BY <1>5 DEF SendAck, Command, Write, Goto
  <2>2. pc' = [pc EXCEPT !["tick"] = "sent"]
    BY <2>1 DEF Carry
  <2>3. TickOwns /\ ~TickOwns' /\ RxOwns' = RxOwns /\ pc' \in [Tasks -> Labels]
    BY <2>1, <2>2 DEF IInv, Types, TickOwns, RxOwns
  <2> QED
    BY <1>0, <2>1, <2>3, RadioOperations DEF IInv, Owned, Types
<1>6. CASE Take("tick", "ack")
  BY <1>6, TakeKeeps
<1>7. CASE Block("tick") \/ Timeout("tick", "giveup")
  BY <1>7, WaitKeeps
<1> QED
  BY <1>1, <1>2, <1>3, <1>4, <1>5, <1>6, <1>7 DEF Send

\* esp_recv keeps it too, with two steps between the token and the flags.
LEMMA RecvKeeps ==
  ASSUME IInv, Recv
  PROVE  IInv'
<1> USE DEF Labels, Tasks
<1>0. IsRadio(chip)
  BY DEF IInv, Types
<1>1. CASE RecvStart
  <2>1. PICK from \in {"recv", "listen"}, label \in {"listen", "take"}, m \in {"stdby", "rx"} :
          Write("rx", from, label, SetMode(chip, m))
    BY <1>1 DEF RecvStart, Command
  <2> QED
    BY <1>0, <2>1, WriteKeeps, RadioOperations
<1>2. CASE RecvNothing
  BY <1>0, <1>2, WriteKeeps, RadioOperations DEF RecvNothing, Command
<1>3. CASE RecvIrq
  <2>1. /\ Carry("rx", "ack", frame["rx"]) /\ pc["rx"] = "irq"
        /\ chip' = chip /\ sem' = sem
    BY <1>3 DEF RecvIrq, Write, Goto
  <2>2. pc' = [pc EXCEPT !["rx"] = "ack"]
    BY <2>1 DEF Carry
  <2>3. TickOwns' = TickOwns /\ RxOwns' = RxOwns /\ pc' \in [Tasks -> Labels]
    BY <2>1, <2>2 DEF IInv, Types, TickOwns, RxOwns
  <2> QED
    BY <1>0, <2>1, <2>3 DEF IInv, Owned, Types
<1>4. CASE RecvAck
  <2>1. PICK label \in {"read", "nothing"} :
          /\ Carry("rx", label, frame["rx"]) /\ pc["rx"] = "ack"
          /\ chip' = ClearFlags(chip) /\ sem' = sem
    BY <1>4 DEF RecvAck, RecvAfter, Write, Goto
  <2>2. pc' = [pc EXCEPT !["rx"] = label]
    BY <2>1 DEF Carry
  <2>3. RxOwns /\ ~RxOwns' /\ TickOwns' = TickOwns /\ pc' \in [Tasks -> Labels]
    BY <2>1, <2>2 DEF IInv, Types, TickOwns, RxOwns
  <2> QED
    BY <1>0, <2>1, <2>3, RadioOperations DEF IInv, Owned, Types
<1>5. CASE RecvRead
  <2>1. PICK f : Carry("rx", "received", f)
    BY <1>5 DEF RecvRead
  <2>2. pc["rx"] = "read" /\ chip' = chip /\ sem' = sem
    BY <1>5 DEF RecvRead
  <2> QED
    BY <1>0, <2>1, <2>2, Elsewhere
<1>6. CASE RecvReturns
  <2>1. PICK label \in {"enqueue", "recv"} : Carry("rx", label, frame["rx"])
    BY <1>6 DEF RecvReturns, Goto
  <2>2. pc["rx"] = "received" /\ chip' = SetMode(chip, "stdby") /\ sem' = sem
    BY <1>6 DEF RecvReturns
  <2> QED
    BY <1>0, <2>1, <2>2, Elsewhere, RadioOperations
<1>7. CASE Take("rx", "irq")
  BY <1>7, TakeKeeps
<1>8. CASE Block("rx") \/ Timeout("rx", "nothing")
  BY <1>8, WaitKeeps
<1> QED
  BY <1>1, <1>2, <1>3, <1>4, <1>5, <1>6, <1>7, <1>8 DEF Recv

\* The queue's operations do not touch the radio.
LEMMA QueueKeeps ==
  ASSUME IInv, Pop \/ \E t \in Tasks : Enqueue(t)
  PROVE  IInv'
<1> USE DEF Labels, Tasks
<1> DEFINE Places == {"sleep", "copy", "reindex", "remove", "enqueue", "index", "append"}
           Goals  == (Places \cup {"recv", "send"})
<1>1. PICK t \in Tasks, label \in Goals : (\E f : Carry(t, label, f)) /\ pc[t] \in Places
  <2>1. ASSUME NEW t \in Tasks, EnqueueTest(t)
        PROVE  \E label \in Goals : Carry(t, label, frame[t]) /\ pc[t] \in Places
    BY <2>1 DEF EnqueueTest, EnqueueIf, Goto, Home
  <2>2. ASSUME NEW t \in Tasks, Reload(t, "index", "append") \/ Reload(t, "reindex", "remove")
        PROVE  \E label \in Goals : Carry(t, label, frame[t]) /\ pc[t] \in Places
    BY <2>2 DEF Reload, Goto
  <2>3. ASSUME NEW t \in Tasks, Append(t)
        PROVE  \E label \in Goals : Carry(t, label, frame[t]) /\ pc[t] \in Places
    BY <2>3 DEF Append, After, Goto, Home
  <2>4. ASSUME PopScan PROVE \E label \in Goals : Carry("tick", label, frame["tick"]) /\ pc["tick"] \in Places
    BY <2>4 DEF PopScan, Goto
  <2>5. ASSUME PopCopy PROVE Carry("tick", "reindex", slots[best]) /\ pc["tick"] \in Places
    BY <2>5 DEF PopCopy
  <2>6. ASSUME Remove PROVE \E label \in Goals : Carry("tick", label, frame["tick"]) /\ pc["tick"] \in Places
    BY <2>6 DEF Remove, After, Goto
  <2> QED
    BY <2>1, <2>2, <2>3, <2>4, <2>5, <2>6 DEF Pop, Enqueue
<1>2. chip' = chip /\ sem' = sem
  BY DEF Pop, Enqueue, EnqueueTest, EnqueueIf, Reload, Append, PopScan, PopCopy, Remove, radio
<1>3. IsRadio(chip') /\ chip'.flags = chip.flags
  BY <1>2 DEF IInv, Types
<1>4. label \in Labels /\ label \notin {"irq", "ack"} /\ pc[t] \notin {"irq", "ack"}
  BY <1>1
<1>5. PICK f : Carry(t, label, f)
  BY <1>1
<1> QED
  BY <1>2, <1>3, <1>4, <1>5, Elsewhere

LEMMA Inductive == IInv /\ [Next]_vars => IInv'
<1> SUFFICES ASSUME IInv, [Next]_vars PROVE IInv'
  OBVIOUS
<1>1. CASE TickTask
  BY <1>1, SendKeeps, QueueKeeps DEF TickTask, Tasks
<1>2. CASE RxTask
  BY <1>2, RecvKeeps, QueueKeeps DEF RxTask, Tasks
<1>3. CASE FrameSent \/ FrameArrives
  BY <1>3, ChipKeeps
<1>4. CASE UNCHANGED vars
  BY <1>4 DEF vars, radio, IInv, Owned, Types, IsRadio, TickOwns, RxOwns
<1> QED
  BY <1>1, <1>2, <1>3, <1>4 DEF Next

LEMMA Initially == Init => IInv
BY DEF Init, IInv, Owned, Types, IsRadio, TickOwns, RxOwns, Tasks, Labels, Configured

\* At every moment a raised flag has exactly one owner that will clear it: the
\* interrupt is never lost between the two tasks of main_esp32.c, nor cleared
\* twice, although both wait for the one token of lora_esp32.c.
THEOREM InterruptOwned == Spec => []OneOwner
<1>1. IInv => OneOwner
  BY OwnedIsOneOwner DEF IInv
<1> QED
  BY <1>1, Initially, Inductive, PTL DEF Spec

-----------------------------------------------------------------------------
(***************************************************************************)
(* The queue between the two tasks.  Neither takes a lock, so nothing can  *)
(* be said of what it holds once both have been inside.  As long as they   *)
(* have not, each step of an operation leaves the array and the count in a *)
(* known distance from each other, in either order of the two stores.      *)
(***************************************************************************)

FrameSet == Frames \cup {Mixed}
Stores   == {"slot", "count"}
Appends  == {"index", "append"}
Pops     == {"copy", "reindex", "remove"}

\* how often f stands in the first m slots of s
Held(s, m, f) == Cardinality({k \in 0 .. m - 1 : s[k] = f})

Counted(m) == \A f \in Frames : Held(slots, m, f) = kept[f]

CountedBut(m, g) ==
  \A f \in Frames : Held(slots, m, f) = kept[f] - (IF f = g THEN 1 ELSE 0)

QueueTypes ==
  /\ slots \in [0 .. QueueMax - 1 -> FrameSet]
  /\ count \in 0 .. QueueMax + 1
  /\ frame \in [Tasks -> FrameSet]
  /\ n \in [Tasks -> 0 .. QueueMax]
  /\ todo \in [Tasks -> SUBSET Stores]
  /\ best \in 0 .. QueueMax - 1
  /\ kept \in [Frames -> Int]
  /\ overlapped \in BOOLEAN /\ overrun \in BOOLEAN

\* the count is stored, the slot is not
Stored(t) == pc[t] \in {"append", "remove"} /\ "count" \notin todo[t]

\* The stores to come, and a count that the tick, the only task to lower it,
\* has seen above zero.
Ready ==
  /\ \A t \in Tasks : pc[t] \in {"index", "reindex"} => todo[t] = Stores
  /\ \A t \in Tasks : pc[t] \in {"append", "remove"} => todo[t] # {}
  /\ pc["tick"] \in Pops => n["tick"] >= 1 /\ (Stored("tick") \/ count >= 1)
  /\ ~overrun => count <= QueueMax

Appending(t) ==
  /\ n[t] < QueueMax /\ Counted(n[t])
  /\ count = IF Stored(t) THEN n[t] + 1 ELSE n[t]
  /\ "slot" \notin todo[t] => slots[n[t]] = frame[t]

Removing ==
  /\ best < n["tick"]
  /\ count = IF Stored("tick") THEN n["tick"] - 1 ELSE n["tick"]
  /\ IF pc["tick"] = "remove" /\ "slot" \notin todo["tick"]
     THEN CountedBut(n["tick"] - 1, frame["tick"])
     ELSE Counted(n["tick"]) /\ (pc["tick"] # "copy" => slots[best] = frame["tick"])

Sound ==
  ~overlapped =>
    /\ ~overrun
    /\ pc["tick"] \in InQueue => pc["rx"] \notin InQueue
    /\ (\A t \in Tasks : pc[t] \notin InQueue) => Counted(count)
    /\ \A t \in Tasks : pc[t] \in Appends => Appending(t)
    /\ pc["tick"] \in Pops => Removing

QInv == Types /\ QueueTypes /\ Ready /\ Sound

-----------------------------------------------------------------------------
(* Counting in the slots *)

\* One slot more.
LEMMA HeldStep ==
  ASSUME NEW s, NEW m \in Nat, NEW f
  PROVE  /\ Held(s, m, f) \in Nat
         /\ Held(s, m + 1, f) = IF s[m] = f THEN Held(s, m, f) + 1 ELSE Held(s, m, f)
<1> DEFINE A == {k \in 0 .. m - 1 : s[k] = f}
           B == {k \in 0 .. (m + 1) - 1 : s[k] = f}
<1>1. IsFiniteSet(A) /\ Cardinality(A) \in Nat
  <2>1. IsFiniteSet(0 .. m - 1)
    BY FS_Interval
  <2>2. A \in SUBSET (0 .. m - 1)
    OBVIOUS
  <2> QED
    BY <2>1, <2>2, FS_Subset, FS_CardinalityType
<1>2. m \notin A /\ B = IF s[m] = f THEN A \cup {m} ELSE A
  OBVIOUS
<1>3. Cardinality(A \cup {m}) = Cardinality(A) + 1
  BY <1>1, <1>2, FS_AddElement
<1> HIDE DEF A, B
<1> QED
  BY <1>1, <1>2, <1>3 DEF Held, A, B

\* Slots from m on do not count.
LEMMA HeldAgree ==
  ASSUME NEW s, NEW u, NEW m \in Nat, NEW f, \A k \in 0 .. m - 1 : s[k] = u[k]
  PROVE  Held(s, m, f) = Held(u, m, f)
<1>1. {k \in 0 .. m - 1 : s[k] = f} = {k \in 0 .. m - 1 : u[k] = f}
  OBVIOUS
<1> QED
  BY <1>1 DEF Held

\* u is s with the slot m moved to b
Closed(s, u, m, b) == \A k \in 0 .. m - 1 : u[k] = IF k = b THEN s[m] ELSE s[k]

\* A swap-remove takes out the one at b.
LEMMA HeldRemove ==
  ASSUME NEW s, NEW u, NEW m \in Nat, NEW b \in 0 .. m, NEW f, Closed(s, u, m, b)
  PROVE  Held(u, m, f) = Held(s, m + 1, f) - (IF s[b] = f THEN 1 ELSE 0)
<1> USE DEF Closed
<1>1. /\ Held(s, m, f) \in Nat
      /\ Held(s, m + 1, f) = IF s[m] = f THEN Held(s, m, f) + 1 ELSE Held(s, m, f)
  BY HeldStep
<1>2. CASE b = m
  <2>1. Held(u, m, f) = Held(s, m, f)
    BY <1>2, HeldAgree
  <2> QED
    BY <1>1, <1>2, <2>1
<1>3. CASE b # m
  <2> DEFINE A == {k \in 0 .. m - 1 : s[k] = f}
             B == {k \in 0 .. m - 1 : u[k] = f}
  <2>1. b \in 0 .. m - 1
    BY <1>3
  <2>2. A \ {b} = B \ {b} /\ (b \in A <=> s[b] = f) /\ (b \in B <=> s[m] = f)
    BY <2>1
  <2>3. IsFiniteSet(A) /\ IsFiniteSet(B)
    <3>1. IsFiniteSet(0 .. m - 1)
      BY FS_Interval
    <3>2. A \in SUBSET (0 .. m - 1) /\ B \in SUBSET (0 .. m - 1)
      OBVIOUS
    <3> QED
      BY <3>1, <3>2, FS_Subset
  <2> HIDE DEF A, B
  <2>4. /\ Cardinality(A \ {b}) = IF b \in A THEN Cardinality(A) - 1 ELSE Cardinality(A)
        /\ Cardinality(B \ {b}) = IF b \in B THEN Cardinality(B) - 1 ELSE Cardinality(B)
        /\ Cardinality(A) \in Nat /\ Cardinality(B) \in Nat
    BY <2>3, FS_RemoveElement, FS_CardinalityType
  <2>5. Cardinality(A) = Held(s, m, f) /\ Cardinality(B) = Held(u, m, f)
    BY DEF A, B, Held
  <2> QED
    BY <1>1, <2>2, <2>4, <2>5
<1> QED
  BY <1>2, <1>3

-----------------------------------------------------------------------------
(* What the move of a task leaves *)

\* The other task stays where it is, with its frame; and as long as the two
\* have not overlapped, a task inside the queue is alone there.
LEMMA CarryEffect ==
  ASSUME QInv, NEW t \in Tasks, NEW label \in Labels, NEW f \in FrameSet, Carry(t, label, f)
  PROVE  /\ pc' \in [Tasks -> Labels] /\ pc' = [pc EXCEPT ![t] = label]
         /\ frame' \in [Tasks -> FrameSet]
         /\ frame'[t] = IF label = Home(t) THEN Mixed ELSE f
         /\ \A u \in Tasks : u # t => frame'[u] = frame[u]
         /\ overlapped' \in BOOLEAN
         /\ ~overlapped' => /\ ~overlapped
                            /\ label \in InQueue => pc[Other(t)] \notin InQueue
                            /\ pc[t] \in InQueue => pc[Other(t)] \notin InQueue
<1>1. pc' \in [Tasks -> Labels] /\ pc' = [pc EXCEPT ![t] = label]
  BY Moves DEF QInv
<1>2. frame' = [frame EXCEPT ![t] = IF label = Home(t) THEN Mixed ELSE f]
  BY DEF Carry
<1>3. frame \in [Tasks -> FrameSet] /\ overlapped \in BOOLEAN /\ Mixed \in FrameSet
  BY DEF QInv, QueueTypes, FrameSet
<1>4. /\ frame' \in [Tasks -> FrameSet]
      /\ frame'[t] = IF label = Home(t) THEN Mixed ELSE f
      /\ \A u \in Tasks : u # t => frame'[u] = frame[u]
  BY <1>2, <1>3
<1>5. overlapped' = (overlapped \/ (label \in InQueue /\ pc[Other(t)] \in InQueue))
  BY DEF Carry
<1>6. overlapped' \in BOOLEAN
  BY <1>3, <1>5
<1>7. ASSUME ~overlapped'
      PROVE  /\ ~overlapped
             /\ label \in InQueue => pc[Other(t)] \notin InQueue
  BY <1>3, <1>5, <1>7
<1>8. ASSUME ~overlapped', pc[t] \in InQueue PROVE pc[Other(t)] \notin InQueue
  <2>1. pc["tick"] \in InQueue => pc["rx"] \notin InQueue
    BY <1>7, <1>8 DEF QInv, Sound
  <2> QED
    BY <1>8, <2>1 DEF Tasks, Other
<1> QED
  BY <1>1, <1>4, <1>6, <1>7, <1>8

\* Inside the queue, or on the way out of it, it is enough to look at the one
\* task that moves.
LEMMA SoundInside ==
  ASSUME QInv, NEW t \in Tasks, NEW label \in Labels, NEW f \in FrameSet, Carry(t, label, f),
         {label, pc[t]} \cap InQueue # {},
         ~overlapped' => /\ ~overrun'
                         /\ label \in Appends => Appending(t)'
                         /\ label \in Pops => t = "tick" /\ Removing'
                         /\ label \notin InQueue => Counted(count)'
  PROVE  Sound'
<1> SUFFICES ASSUME ~overlapped'
             PROVE  /\ ~overrun'
                    /\ pc'["tick"] \in InQueue => pc'["rx"] \notin InQueue
                    /\ (\A u \in Tasks : pc'[u] \notin InQueue) => Counted(count)'
                    /\ \A u \in Tasks : pc'[u] \in Appends => Appending(u)'
                    /\ pc'["tick"] \in Pops => Removing'
  BY DEF Sound
<1>1. /\ pc' = [pc EXCEPT ![t] = label] /\ pc \in [Tasks -> Labels]
      /\ pc[Other(t)] \notin InQueue
  BY CarryEffect DEF QInv, Types
<1>2. pc'[t] = label /\ pc'[Other(t)] \notin InQueue /\ Tasks = {t, Other(t)} /\ t # Other(t)
  BY <1>1 DEF Tasks, Other
<1>3. Appends \subseteq InQueue /\ Pops \subseteq InQueue
  BY DEF Appends, Pops, InQueue
<1> QED
  BY <1>2, <1>3 DEF Tasks, Other

\* Outside, a step changes nothing the queue depends on.
LEMMA Outside ==
  ASSUME QInv, NEW t \in Tasks, NEW label \in Labels, NEW f \in FrameSet, Carry(t, label, f),
         pc[t] \notin InQueue, label \notin InQueue, UNCHANGED queue
  PROVE  QueueTypes' /\ Ready' /\ Sound'
<1>1. UNCHANGED <<slots, count, n, todo, best, kept, overrun>>
  BY DEF queue
<1>2. /\ pc' = [pc EXCEPT ![t] = label] /\ pc \in [Tasks -> Labels]
      /\ frame' \in [Tasks -> FrameSet]
      /\ \A u \in Tasks : u # t => frame'[u] = frame[u]
      /\ overlapped' \in BOOLEAN /\ (~overlapped' => ~overlapped)
  BY CarryEffect DEF QInv, Types
<1>3. QueueTypes'
  BY <1>1, <1>2 DEF QInv, QueueTypes
<1>4. \A u \in Tasks : \/ pc'[u] = pc[u] /\ frame'[u] = frame[u]
                       \/ pc[u] \notin InQueue /\ pc'[u] \notin InQueue
  BY <1>2
<1>5. \A u \in Tasks : pc'[u] \in InQueue <=> pc[u] \in InQueue
  BY <1>4
<1>6. InQueue = {"append", "remove"} \cup Appends \cup Pops
  BY DEF InQueue, Appends, Pops
<1>7. \A u \in Tasks : pc'[u] \in InQueue => pc'[u] = pc[u] /\ frame'[u] = frame[u]
  BY <1>4
<1>8. \A u \in Tasks : pc'[u] \in InQueue => (Stored(u)' <=> Stored(u))
  BY <1>1, <1>7 DEF Stored
<1>9. "tick" \in Tasks /\ "rx" \in Tasks
  BY DEF Tasks
<1>10. Ready'
  BY <1>1, <1>6, <1>7, <1>8, <1>9 DEF QInv, Ready, Appends, Pops
<1>11. Sound'
  <2> SUFFICES ASSUME ~overlapped'
               PROVE  /\ ~overrun'
                      /\ pc'["tick"] \in InQueue => pc'["rx"] \notin InQueue
                      /\ (\A u \in Tasks : pc'[u] \notin InQueue) => Counted(count)'
                      /\ \A u \in Tasks : pc'[u] \in Appends => Appending(u)'
                      /\ pc'["tick"] \in Pops => Removing'
    BY DEF Sound
  <2>1. /\ ~overrun
        /\ pc["tick"] \in InQueue => pc["rx"] \notin InQueue
        /\ (\A u \in Tasks : pc[u] \notin InQueue) => Counted(count)
        /\ \A u \in Tasks : pc[u] \in Appends => Appending(u)
        /\ pc["tick"] \in Pops => Removing
    BY <1>2 DEF QInv, Sound
  <2>2. ~overrun' /\ (pc'["tick"] \in InQueue => pc'["rx"] \notin InQueue)
    BY <1>1, <1>5, <1>9, <2>1
  <2>3. (\A u \in Tasks : pc'[u] \notin InQueue) => Counted(count)'
    BY <1>1, <1>5, <2>1 DEF Counted
  <2>4. ASSUME NEW u \in Tasks, pc'[u] \in Appends PROVE Appending(u)'
    <3>1. pc'[u] = pc[u] /\ frame'[u] = frame[u] /\ (Stored(u)' <=> Stored(u))
      BY <1>6, <1>7, <1>8, <2>4
    <3>2. Appending(u)
      BY <2>1, <2>4, <3>1
    <3> QED
      BY <1>1, <3>1, <3>2 DEF Appending, Counted
  <2>5. ASSUME pc'["tick"] \in Pops PROVE Removing'
    <3>1. /\ pc'["tick"] = pc["tick"] /\ frame'["tick"] = frame["tick"]
          /\ (Stored("tick")' <=> Stored("tick"))
      BY <1>6, <1>7, <1>8, <1>9, <2>5
    <3>2. Removing
      BY <2>1, <2>5, <3>1
    <3> QED
      BY <1>1, <3>1, <3>2 DEF Removing, Counted, CountedBut
  <2> QED
    BY <2>2, <2>3, <2>4, <2>5
<1> QED
  BY <1>3, <1>10, <1>11

-----------------------------------------------------------------------------
(* queue_enqueue, one lemma per step *)

\* The test of the count, passed or not.
LEMMA EnqueueTestKeeps ==
  ASSUME QInv, ~overrun, NEW t \in Tasks, EnqueueTest(t)
  PROVE  QueueTypes' /\ Ready' /\ Sound'
<1>1. pc[t] = "enqueue" /\ UNCHANGED <<slots, count, best, kept, overrun>>
  BY DEF EnqueueTest, EnqueueIf
<1>2. frame[t] \in FrameSet
  BY DEF QInv, QueueTypes
<1>3. CASE count < QueueMax
  <2>1. /\ n' = [n EXCEPT ![t] = count] /\ todo' = [todo EXCEPT ![t] = Stores]
        /\ Carry(t, "index", frame[t])
    BY <1>3 DEF EnqueueTest, EnqueueIf, Goto, Stores
  <2>2. /\ pc' \in [Tasks -> Labels] /\ pc' = [pc EXCEPT ![t] = "index"]
        /\ frame' \in [Tasks -> FrameSet] /\ overlapped' \in BOOLEAN
        /\ (~overlapped' => ~overlapped /\ pc[Other(t)] \notin InQueue)
    BY <1>2, <2>1, CarryEffect DEF Labels, InQueue
  <2>a. /\ n \in [Tasks -> 0 .. QueueMax] /\ count \in 0 .. QueueMax
        /\ todo \in [Tasks -> SUBSET Stores] /\ Stores \in SUBSET Stores
    BY <1>3, QueueMaxAssumption DEF QInv, QueueTypes
  <2>b. n' \in [Tasks -> 0 .. QueueMax] /\ todo' \in [Tasks -> SUBSET Stores]
    BY <2>1, <2>a
  <2>3. QueueTypes'
    BY <1>1, <2>2, <2>b DEF QInv, QueueTypes
  <2>4. /\ n'[t] = count /\ todo'[t] = Stores /\ pc'[t] = "index"
        /\ \A u \in Tasks : u # t => n'[u] = n[u] /\ todo'[u] = todo[u] /\ pc'[u] = pc[u]
    BY <2>1, <2>2 DEF QInv, Types, QueueTypes
  <2>5. \A u \in Tasks : u # t => (Stored(u)' <=> Stored(u))
    BY <2>4 DEF Stored
  <2>6. "tick" \in Tasks
    BY DEF Tasks
  <2>7. Ready'
    BY <1>1, <2>4, <2>5, <2>6 DEF QInv, Ready, Pops
  <2>8. ASSUME ~overlapped' PROVE ~overrun' /\ Appending(t)'
    <3>1. Counted(count)
      <4>1. \A u \in Tasks : pc[u] \notin InQueue
        BY <1>1, <2>2, <2>8 DEF Tasks, Other, InQueue
      <4> QED
        BY <2>2, <2>8, <4>1 DEF QInv, Sound
    <3>2. ~Stored(t)' /\ "slot" \in todo'[t]
      BY <2>4 DEF Stored, Stores
    <3> QED
      BY <1>1, <1>3, <2>4, <3>1, <3>2 DEF Appending, Counted
  <2>9. Sound'
    BY <1>2, <2>1, <2>8, SoundInside DEF Labels, InQueue, Pops
  <2> QED
    BY <2>3, <2>7, <2>9
<1>4. CASE ~(count < QueueMax)
  <2>1. Carry(t, Home(t), frame[t]) /\ UNCHANGED queue
    BY <1>1, <1>4 DEF EnqueueTest, EnqueueIf, Goto, queue
  <2>2. Home(t) \in Labels /\ Home(t) \notin InQueue /\ pc[t] \notin InQueue
    BY <1>1 DEF Home, Labels, InQueue
  <2> QED
    BY <1>2, <2>1, <2>2, Outside
<1> QED
  BY <1>3, <1>4

\* The index is the count, read again or not.
LEMMA ReloadIndexKeeps ==
  ASSUME QInv, ~overrun, NEW t \in Tasks, Reload(t, "index", "append")
  PROVE  QueueTypes' /\ Ready' /\ Sound'
<1>1. pc[t] = "index" /\ UNCHANGED <<slots, count, todo, best, kept, overrun>>
  BY DEF Reload
<1>2. PICK m \in {n[t], count} : n' = [n EXCEPT ![t] = m]
  BY DEF Reload
<1>3. Carry(t, "append", frame[t]) /\ frame[t] \in FrameSet
  BY DEF Reload, Goto, QInv, QueueTypes
<1>4. /\ pc' \in [Tasks -> Labels] /\ pc' = [pc EXCEPT ![t] = "append"]
      /\ frame' \in [Tasks -> FrameSet] /\ overlapped' \in BOOLEAN
      /\ (~overlapped' => ~overlapped)
  BY <1>3, CarryEffect DEF Labels
<1>5. m \in 0 .. QueueMax
  BY QueueMaxAssumption DEF QInv, QueueTypes, Ready
<1>6. QueueTypes'
  BY <1>1, <1>2, <1>4, <1>5 DEF QInv, QueueTypes
<1>7. /\ n'[t] = m /\ todo'[t] = Stores /\ pc'[t] = "append"
      /\ \A u \in Tasks : u # t => n'[u] = n[u] /\ pc'[u] = pc[u]
  BY <1>1, <1>2, <1>4 DEF QInv, Types, QueueTypes, Ready
<1>8. \A u \in Tasks : u # t => (Stored(u)' <=> Stored(u))
  BY <1>1, <1>7 DEF Stored
<1>9. "tick" \in Tasks /\ Stores # {}
  BY DEF Tasks, Stores
<1>10. Ready'
  BY <1>1, <1>7, <1>8, <1>9 DEF QInv, Ready, Pops
<1>11. ASSUME ~overlapped' PROVE ~overrun' /\ Appending(t)'
  <2>1. Appending(t) /\ ~Stored(t)
    BY <1>1, <1>4, <1>11 DEF QInv, Sound, Appends, Stored
  <2>2. m = n[t] /\ count = n[t]
    BY <2>1 DEF Appending
  <2>3. ~Stored(t)' /\ "slot" \in todo'[t]
    BY <1>7 DEF Stored, Stores
  <2> QED
    BY <1>1, <1>7, <2>1, <2>2, <2>3 DEF Appending, Counted
<1>12. Sound'
  BY <1>3, <1>11, SoundInside DEF Labels, InQueue, Pops
<1> QED
  BY <1>6, <1>10, <1>12

\* The two stores, whichever comes first.
LEMMA AppendKeeps ==
  ASSUME QInv, ~overrun, NEW t \in Tasks, Append(t)
  PROVE  QueueTypes' /\ Ready' /\ Sound'
<1>1. pc[t] = "append" /\ UNCHANGED best
  BY DEF Append
<1>2. PICK store \in todo[t] :
        /\ todo' = [todo EXCEPT ![t] = @ \ {store}]
        /\ IF store = "slot" THEN StoreSlot(n[t], frame[t]) /\ UNCHANGED count
                             ELSE count' = n[t] + 1 /\ UNCHANGED slots
        /\ overrun' = (n[t] >= QueueMax)
        /\ Goto(t, After(t, store, Home(t), "append"))
        /\ IF todo[t] = {store}
           THEN kept' = Change(frame[t], 1) /\ n' = [n EXCEPT ![t] = 0]
           ELSE UNCHANGED <<kept, n>>
  BY DEF Append
<1> DEFINE label == After(t, store, Home(t), "append")
<1>3. /\ slots \in [0 .. QueueMax - 1 -> FrameSet] /\ count \in 0 .. QueueMax
      /\ frame[t] \in FrameSet /\ n[t] \in 0 .. QueueMax /\ todo[t] \subseteq Stores
      /\ n \in [Tasks -> 0 .. QueueMax] /\ todo \in [Tasks -> SUBSET Stores]
      /\ kept \in [Frames -> Int] /\ QueueMax \in Nat \ {0} /\ pc \in [Tasks -> Labels]
  BY QueueMaxAssumption DEF QInv, QueueTypes, Ready, Types
<1>4. Carry(t, label, frame[t]) /\ label \in Labels /\ label # "remove"
  BY <1>2 DEF Goto, After, Home, Labels
<1>5. /\ pc' \in [Tasks -> Labels] /\ pc' = [pc EXCEPT ![t] = label]
      /\ frame' \in [Tasks -> FrameSet] /\ overlapped' \in BOOLEAN
      /\ frame'[t] = IF label = Home(t) THEN Mixed ELSE frame[t]
      /\ (~overlapped' => ~overlapped)
  BY <1>3, <1>4, CarryEffect
<1>6. /\ slots' \in [0 .. QueueMax - 1 -> FrameSet] /\ count' \in 0 .. QueueMax + 1
      /\ (~overrun' => count' <= QueueMax) /\ (count >= 1 => count' >= 1)
      /\ overrun' \in BOOLEAN /\ (n[t] < QueueMax => ~overrun')
  <2>1. overrun' \in BOOLEAN
    BY <1>2
  <2>2. IF n[t] >= QueueMax THEN overrun' ELSE ~overrun'
    BY <1>2
  <2>3. (n[t] < QueueMax => ~overrun') /\ (~overrun' => n[t] < QueueMax)
    BY <1>3, <2>2
  <2>4. slots' \in [0 .. QueueMax - 1 -> FrameSet]
    BY <1>2, <1>3 DEF StoreSlot
  <2>5. count' = count \/ count' = n[t] + 1
    BY <1>2
  <2> QED
    BY <1>3, <2>1, <2>3, <2>4, <2>5
<1>7. n' \in [Tasks -> 0 .. QueueMax] /\ todo' \in [Tasks -> SUBSET Stores]
  <2>1. todo[t] \ {store} \in SUBSET Stores
    BY <1>3
  <2>2. todo' \in [Tasks -> SUBSET Stores]
    BY <1>2, <1>3, <2>1
  <2>3. n' \in [Tasks -> 0 .. QueueMax]
    BY <1>2, <1>3
  <2> QED
    BY <2>2, <2>3
<1>8. kept' \in [Frames -> Int]
  BY <1>2, <1>3 DEF Change
<1>9. QueueTypes'
  BY <1>1, <1>5, <1>6, <1>7, <1>8 DEF QInv, QueueTypes
<1>10. /\ todo'[t] = todo[t] \ {store} /\ pc'[t] = label
       /\ \A u \in Tasks : u # t => n'[u] = n[u] /\ todo'[u] = todo[u] /\ pc'[u] = pc[u]
  BY <1>2, <1>3, <1>5
<1>11. label = IF todo[t] = {store} THEN Home(t) ELSE "append"
  BY DEF After
<1>12. \A u \in Tasks : u # t => (Stored(u)' <=> Stored(u))
  BY <1>10 DEF Stored
<1>13. "tick" \in Tasks /\ label \notin Pops /\ label \notin {"index", "reindex", "remove"}
  BY <1>11 DEF Tasks, Home, Pops
<1>14. Ready'
  <2>1. pc'[t] = "append" => todo'[t] # {}
    BY <1>2, <1>10, <1>11 DEF Home
  <2> QED
    BY <1>6, <1>10, <1>12, <1>13, <2>1 DEF QInv, Ready
<1>15. ASSUME ~overlapped'
       PROVE  /\ ~overrun'
              /\ label = "append" => Appending(t)'
              /\ label # "append" => Counted(count)'
  <2>1. Appending(t)
    BY <1>1, <1>5, <1>15 DEF QInv, Sound, Appends
  <2>2. /\ n[t] \in Nat /\ n[t] < QueueMax /\ n[t] \in 0 .. QueueMax - 1
        /\ count = IF "count" \in todo[t] THEN n[t] ELSE n[t] + 1
        /\ "slot" \notin todo[t] => slots[n[t]] = frame[t]
    BY <1>1, <1>3, <2>1 DEF Appending, Stored
  <2>3. ~overrun'
    BY <1>6, <2>2
  <2>4. \A f \in Frames : Held(slots, n[t], f) = kept[f] /\ kept[f] \in Int
    BY <1>3, <2>1 DEF Appending, Counted
  <2>5. /\ \A k \in 0 .. n[t] - 1 : slots'[k] = slots[k]
        /\ store = "slot" => slots'[n[t]] = frame[t]
        /\ store # "slot" => slots' = slots
    BY <1>2, <1>3, <2>2 DEF StoreSlot
  <2>6. \A f \in Frames : Held(slots', n[t], f) = kept[f]
    <3> SUFFICES ASSUME NEW f \in Frames PROVE Held(slots', n[t], f) = kept[f]
      OBVIOUS
    <3>1. Held(slots', n[t], f) = Held(slots, n[t], f)
      BY <2>2, <2>5, HeldAgree
    <3> QED
      BY <2>4, <3>1
  <2>7. CASE todo[t] = {store}
    <3>1. kept' = Change(frame[t], 1) /\ label = Home(t)
      BY <1>2, <1>11, <2>7
    <3>2. slots'[n[t]] = frame[t] /\ count' = n[t] + 1
      BY <1>2, <1>3, <2>2, <2>5, <2>7 DEF Stores
    <3>3. ASSUME NEW f \in Frames PROVE Held(slots', count', f) = kept'[f]
      <4>1. Held(slots', n[t] + 1, f) =
              IF slots'[n[t]] = f THEN Held(slots', n[t], f) + 1 ELSE Held(slots', n[t], f)
        BY <2>2, HeldStep
      <4>2. kept'[f] = IF f = frame[t] THEN kept[f] + 1 ELSE kept[f]
        BY <1>15, <3>1 DEF Change
      <4> QED
        BY <2>4, <2>6, <3>2, <4>1, <4>2
    <3> QED
      BY <2>3, <3>1, <3>3 DEF Counted, Home
  <2>8. CASE todo[t] # {store}
    <3>1. UNCHANGED <<kept, n>> /\ label = "append" /\ todo[t] = Stores
      BY <1>2, <1>3, <1>11, <2>8 DEF Stores
    <3>2. Counted(n[t])'
      BY <2>6, <3>1 DEF Counted
    <3>3. frame'[t] = frame[t]
      BY <1>5, <3>1 DEF Home
    <3>4. count' = IF "count" \in todo'[t] THEN n[t] ELSE n[t] + 1
      BY <1>2, <1>10, <2>2, <3>1 DEF Stores
    <3>5. "slot" \notin todo'[t] => slots'[n[t]] = frame[t]
      BY <1>10, <2>5, <3>1 DEF Stores
    <3>6. Stored(t)' <=> "count" \notin todo'[t]
      BY <1>10, <3>1 DEF Stored
    <3>7. Appending(t)'
      BY <2>2, <3>1, <3>2, <3>3, <3>4, <3>5, <3>6 DEF Appending
    <3> QED
      BY <2>3, <3>1, <3>7
  <2> QED
    BY <2>7, <2>8
<1>16. Sound'
  <2>1. label \in Appends => label = "append"
    BY <1>13 DEF Appends
  <2>2. label = "append" => label \in InQueue
    BY DEF InQueue
  <2>3. "append" \in InQueue
    BY DEF InQueue
  <2> HIDE DEF label
  <2> QED
    BY <1>1, <1>3, <1>4, <1>13, <1>15, <2>1, <2>2, <2>3, SoundInside
<1> QED
  BY <1>9, <1>14, <1>16

-----------------------------------------------------------------------------
(* queue_pop_next, one lemma per step *)

\* The scan sees a queue that is not empty.
LEMMA PopScanKeeps ==
  ASSUME QInv, ~overrun, PopScan
  PROVE  QueueTypes' /\ Ready' /\ Sound'
<1>1. /\ pc["tick"] = "sleep" /\ count > 0 /\ n' = [n EXCEPT !["tick"] = count]
      /\ Carry("tick", "copy", frame["tick"])
      /\ UNCHANGED <<slots, count, todo, kept, overrun>>
  BY DEF PopScan, Goto
<1>2. PICK k \in 0 .. count - 1 : best' = k
  BY DEF PopScan
<1>3. /\ count \in 0 .. QueueMax /\ frame["tick"] \in FrameSet /\ "tick" \in Tasks
      /\ n \in [Tasks -> 0 .. QueueMax] /\ pc \in [Tasks -> Labels] /\ QueueMax \in Nat
  BY QueueMaxAssumption DEF QInv, QueueTypes, Ready, Types, Tasks
<1>4. /\ pc' \in [Tasks -> Labels] /\ pc' = [pc EXCEPT !["tick"] = "copy"]
      /\ frame' \in [Tasks -> FrameSet] /\ overlapped' \in BOOLEAN
      /\ (~overlapped' => ~overlapped /\ pc[Other("tick")] \notin InQueue)
  BY <1>1, <1>3, CarryEffect DEF Labels, InQueue
<1>5. n' \in [Tasks -> 0 .. QueueMax] /\ best' \in 0 .. QueueMax - 1
  BY <1>1, <1>2, <1>3
<1>6. QueueTypes'
  BY <1>1, <1>4, <1>5 DEF QInv, QueueTypes
<1>7. /\ n'["tick"] = count /\ pc'["tick"] = "copy"
      /\ \A u \in Tasks : u # "tick" => n'[u] = n[u] /\ pc'[u] = pc[u]
  BY <1>1, <1>3, <1>4
<1>8. Ready'
  BY <1>1, <1>3, <1>7 DEF QInv, Ready, Pops
<1>9. ASSUME ~overlapped' PROVE ~overrun' /\ Removing'
  <2>1. Counted(count)
    <3>1. \A u \in Tasks : pc[u] \notin InQueue
      BY <1>1, <1>4, <1>9 DEF Tasks, Other, InQueue
    <3> QED
      BY <1>4, <1>9, <3>1 DEF QInv, Sound
  <2>2. ~Stored("tick")'
    BY <1>7 DEF Stored
  <2> QED
    BY <1>1, <1>2, <1>3, <1>7, <1>9, <2>1, <2>2 DEF Removing, Counted
<1>10. Sound'
  BY <1>1, <1>3, <1>9, SoundInside DEF Labels, InQueue, Appends
<1> QED
  BY <1>6, <1>8, <1>10

\* The bundle is copied out of its slot.
LEMMA PopCopyKeeps ==
  ASSUME QInv, ~overrun, PopCopy
  PROVE  QueueTypes' /\ Ready' /\ Sound'
<1>1. /\ pc["tick"] = "copy" /\ Carry("tick", "reindex", slots[best])
      /\ todo' = [todo EXCEPT !["tick"] = Stores]
      /\ UNCHANGED <<slots, count, n, best, kept, overrun>>
  BY DEF PopCopy, Stores
<1>2. /\ slots[best] \in FrameSet /\ "tick" \in Tasks /\ todo \in [Tasks -> SUBSET Stores]
      /\ pc \in [Tasks -> Labels] /\ Stores \in SUBSET Stores
  BY DEF QInv, QueueTypes, Types, Tasks
<1>3. /\ pc' \in [Tasks -> Labels] /\ pc' = [pc EXCEPT !["tick"] = "reindex"]
      /\ frame' \in [Tasks -> FrameSet] /\ overlapped' \in BOOLEAN
      /\ frame'["tick"] = slots[best]
      /\ (~overlapped' => ~overlapped)
  BY <1>1, <1>2, CarryEffect DEF Labels, Home
<1>4. todo' \in [Tasks -> SUBSET Stores]
  BY <1>1, <1>2
<1>5. QueueTypes'
  BY <1>1, <1>3, <1>4 DEF QInv, QueueTypes
<1>6. /\ todo'["tick"] = Stores /\ pc'["tick"] = "reindex"
      /\ \A u \in Tasks : u # "tick" => todo'[u] = todo[u] /\ pc'[u] = pc[u]
  BY <1>1, <1>2, <1>3
<1>7. ~Stored("tick") /\ ~Stored("tick")'
  BY <1>1, <1>6 DEF Stored
<1>8. Ready'
  BY <1>1, <1>6, <1>7 DEF QInv, Ready, Pops
<1>9. ASSUME ~overlapped' PROVE ~overrun' /\ Removing'
  <2>1. Removing
    BY <1>1, <1>3, <1>9 DEF QInv, Sound, Pops
  <2> QED
    BY <1>1, <1>3, <1>6, <1>7, <2>1 DEF Removing, Counted
<1>10. Sound'
  BY <1>1, <1>2, <1>9, SoundInside DEF Labels, InQueue, Appends
<1> QED
  BY <1>5, <1>8, <1>10

\* The index of the last slot, read again or not.
LEMMA ReloadLastKeeps ==
  ASSUME QInv, ~overrun, Reload("tick", "reindex", "remove")
  PROVE  QueueTypes' /\ Ready' /\ Sound'
<1>1. pc["tick"] = "reindex" /\ UNCHANGED <<slots, count, todo, best, kept, overrun>>
  BY DEF Reload
<1>2. PICK m \in {n["tick"], count} : n' = [n EXCEPT !["tick"] = m]
  BY DEF Reload
<1>3. /\ Carry("tick", "remove", frame["tick"]) /\ frame["tick"] \in FrameSet /\ "tick" \in Tasks
      /\ n \in [Tasks -> 0 .. QueueMax] /\ pc \in [Tasks -> Labels]
  BY DEF Reload, Goto, QInv, QueueTypes, Types, Tasks
<1>4. /\ pc' \in [Tasks -> Labels] /\ pc' = [pc EXCEPT !["tick"] = "remove"]
      /\ frame' \in [Tasks -> FrameSet] /\ overlapped' \in BOOLEAN
      /\ frame'["tick"] = frame["tick"]
      /\ (~overlapped' => ~overlapped)
  BY <1>3, CarryEffect DEF Labels, Home
<1>5. todo["tick"] = Stores /\ ~Stored("tick")
  BY <1>1, <1>3 DEF QInv, Ready, Stored
<1>6. m \in 1 .. QueueMax
  <2>1. n["tick"] >= 1 /\ count >= 1 /\ count <= QueueMax
    BY <1>1, <1>5 DEF QInv, Ready, Pops
  <2> QED
    BY <1>3, <2>1, QueueMaxAssumption DEF QInv, QueueTypes
<1>7. n' \in [Tasks -> 0 .. QueueMax]
  BY <1>2, <1>3, <1>6
<1>8. QueueTypes'
  BY <1>1, <1>4, <1>7 DEF QInv, QueueTypes
<1>9. /\ n'["tick"] = m /\ todo'["tick"] = Stores /\ pc'["tick"] = "remove"
      /\ \A u \in Tasks : u # "tick" => n'[u] = n[u] /\ pc'[u] = pc[u]
  BY <1>1, <1>2, <1>3, <1>4, <1>5
<1>10. ~Stored("tick")' /\ "slot" \in todo'["tick"] /\ todo'["tick"] # {}
  BY <1>9 DEF Stored, Stores
<1>11. Ready'
  <2>1. m >= 1 /\ (count' >= 1)
    BY <1>1, <1>5, <1>6 DEF QInv, Ready, Pops
  <2> QED
    BY <1>1, <1>9, <1>10, <2>1 DEF QInv, Ready, Pops
<1>12. ASSUME ~overlapped' PROVE ~overrun' /\ Removing'
  <2>1. Removing
    BY <1>1, <1>4, <1>12 DEF QInv, Sound, Pops
  <2>2. m = n["tick"]
    BY <1>5, <2>1 DEF Removing
  <2> QED
    BY <1>1, <1>4, <1>5, <1>9, <1>10, <2>1, <2>2 DEF Removing, Counted
<1>13. Sound'
  BY <1>1, <1>3, <1>12, SoundInside DEF Labels, InQueue, Appends
<1> QED
  BY <1>8, <1>11, <1>13

\* The last slot into the gap and the count, whichever comes first.
LEMMA RemoveKeeps ==
  ASSUME QInv, ~overrun, Remove
  PROVE  QueueTypes' /\ Ready' /\ Sound'
<1> DEFINE t == "tick"
           m == n[t] - 1
<1>1. pc[t] = "remove" /\ UNCHANGED overrun
  BY DEF Remove
<1>2. PICK store \in todo[t], next \in {"sleep", "enqueue", "send"} :
        /\ todo' = [todo EXCEPT ![t] = @ \ {store}]
        /\ IF store = "slot"
           THEN slots' = [slots EXCEPT ![best] = slots[m]] /\ UNCHANGED count
           ELSE count' \in {m, count - 1} /\ UNCHANGED slots
        /\ Goto(t, After(t, store, next, "remove"))
        /\ IF todo[t] = {store}
           THEN kept' = Change(frame[t], -1) /\ n' = [n EXCEPT ![t] = 0] /\ best' = 0
           ELSE UNCHANGED <<kept, n, best>>
  BY DEF Remove
<1> DEFINE label == After(t, store, next, "remove")
<1>3. /\ slots \in [0 .. QueueMax - 1 -> FrameSet] /\ count \in 0 .. QueueMax
      /\ frame[t] \in FrameSet /\ n[t] \in 1 .. QueueMax /\ todo[t] \subseteq Stores
      /\ n \in [Tasks -> 0 .. QueueMax] /\ todo \in [Tasks -> SUBSET Stores]
      /\ kept \in [Frames -> Int] /\ QueueMax \in Nat \ {0} /\ pc \in [Tasks -> Labels]
      /\ best \in 0 .. QueueMax - 1 /\ t \in Tasks
  <2>1. t \in Tasks /\ n[t] >= 1
    BY <1>1 DEF QInv, Ready, Tasks, Pops
  <2> QED
    BY <2>1, QueueMaxAssumption DEF QInv, QueueTypes, Ready, Types
<1>4. Carry(t, label, frame[t]) /\ label \in Labels
  BY <1>2 DEF Goto, After, Labels
<1>5. /\ pc' \in [Tasks -> Labels] /\ pc' = [pc EXCEPT ![t] = label]
      /\ frame' \in [Tasks -> FrameSet] /\ overlapped' \in BOOLEAN
      /\ frame'[t] = IF label = Home(t) THEN Mixed ELSE frame[t]
      /\ (~overlapped' => ~overlapped)
  BY <1>3, <1>4, CarryEffect
<1>6. slots' \in [0 .. QueueMax - 1 -> FrameSet] /\ count' \in 0 .. QueueMax
  <2>1. m \in 0 .. QueueMax - 1 /\ slots[m] \in FrameSet
    BY <1>3
  <2>2. store # "slot" => count >= 1
    <3>1. ASSUME store # "slot" PROVE ~Stored(t)
      BY <1>1, <1>2, <1>3, <3>1 DEF Stored, Stores
    <3> QED
      BY <1>1, <3>1 DEF QInv, Ready, Pops
  <2>3. slots' \in [0 .. QueueMax - 1 -> FrameSet]
    BY <1>2, <1>3, <2>1
  <2> HIDE DEF m
  <2> QED
    BY <1>2, <1>3, <2>1, <2>2, <2>3
<1>7. n' \in [Tasks -> 0 .. QueueMax] /\ todo' \in [Tasks -> SUBSET Stores]
  <2>1. todo[t] \ {store} \in SUBSET Stores
    BY <1>3
  <2>2. todo' \in [Tasks -> SUBSET Stores]
    BY <1>2, <1>3, <2>1
  <2>3. n' \in [Tasks -> 0 .. QueueMax]
    BY <1>2, <1>3
  <2> QED
    BY <2>2, <2>3
<1>8. kept' \in [Frames -> Int] /\ best' \in 0 .. QueueMax - 1
  BY <1>2, <1>3 DEF Change
<1>9. QueueTypes'
  <2>1. count' \in 0 .. QueueMax + 1
    BY <1>3, <1>6
  <2>2. overrun' \in BOOLEAN
    BY <1>1 DEF QInv, QueueTypes
  <2> QED
    BY <1>5, <1>6, <1>7, <1>8, <2>1, <2>2 DEF QueueTypes
<1>10. /\ todo'[t] = todo[t] \ {store} /\ pc'[t] = label
       /\ \A u \in Tasks : u # t => n'[u] = n[u] /\ todo'[u] = todo[u] /\ pc'[u] = pc[u]
  BY <1>2, <1>3, <1>5
<1>11. label = IF todo[t] = {store} THEN next ELSE "remove"
  BY DEF After
<1>12. \/ label = "remove" /\ todo[t] = Stores
       \/ label \notin InQueue /\ todo[t] = {store}
  BY <1>2, <1>3, <1>11 DEF InQueue, Stores
<1>13. Ready'
  <2>1. pc'[t] = "remove" => todo'[t] # {}
    BY <1>2, <1>10, <1>12 DEF InQueue, Stores
  <2>2. pc'[t] \in Pops => n'[t] >= 1 /\ (Stored(t)' \/ count' >= 1)
    <3> SUFFICES ASSUME pc'[t] \in Pops PROVE n'[t] >= 1 /\ (Stored(t)' \/ count' >= 1)
      OBVIOUS
    <3>1. label = "remove" /\ todo[t] = Stores
      BY <1>10, <1>12 DEF Pops, InQueue
    <3>2. n' = n
      BY <1>2, <3>1 DEF Stores
    <3>3. CASE store = "slot"
      <4>1. count' = count
        BY <1>2, <3>3
      <4>2. ~Stored(t)
        BY <3>1 DEF Stored, Stores
      <4>3. count >= 1
        BY <1>1, <4>2 DEF QInv, Ready, Pops
      <4> QED
        BY <1>3, <3>2, <4>1, <4>3
    <3>4. CASE store # "slot"
      BY <1>2, <1>3, <1>10, <3>1, <3>2, <3>4 DEF Stored, Stores
    <3> QED
      BY <3>3, <3>4
  <2>3. pc'[t] \notin {"index", "reindex", "append"}
    BY <1>10, <1>12 DEF InQueue
  <2> HIDE DEF label
  <2>4. \A u \in Tasks : pc'[u] \in {"index", "reindex"} => todo'[u] = Stores
    BY <1>10, <2>3 DEF QInv, Ready
  <2>5. \A u \in Tasks : pc'[u] \in {"append", "remove"} => todo'[u] # {}
    BY <1>10, <2>1, <2>3 DEF QInv, Ready
  <2>6. count' <= QueueMax
    BY <1>3, <1>6
  <2> QED
    BY <2>2, <2>4, <2>5, <2>6 DEF Ready
<1>14. ASSUME ~overlapped'
       PROVE  /\ ~overrun'
              /\ label = "remove" => Removing'
              /\ label # "remove" => Counted(count)'
  <2>1. Removing
    BY <1>1, <1>5, <1>14 DEF QInv, Sound, Pops
  <2>2. m \in Nat /\ m + 1 = n[t] /\ best \in 0 .. m /\ m \in 0 .. QueueMax - 1
    BY <1>3, <2>1 DEF Removing
  <2>3. /\ count = IF "count" \in todo[t] THEN m + 1 ELSE m
        /\ "count" \in todo[t] => m = count - 1
    BY <1>1, <1>3, <2>1, <2>2 DEF Removing, Stored
  <2>4. count' = IF "count" \in todo'[t] THEN m + 1 ELSE m
    BY <1>2, <1>3, <1>10, <2>3 DEF Stores
  <2>5. \A f \in Frames : kept[f] \in Int
    BY <1>3
  <2>6. IF "slot" \in todo[t]
        THEN Counted(m + 1) /\ slots[best] = frame[t]
        ELSE CountedBut(m, frame[t])
    BY <1>1, <2>1, <2>2 DEF Removing
  <2> HIDE DEF m, label
  <2>7. ASSUME "slot" \notin todo'[t], NEW f \in Frames
        PROVE  Held(slots', m, f) = kept[f] - (IF f = frame[t] THEN 1 ELSE 0)
    <3>1. CASE "slot" \in todo[t]
      <4>1. slots' = [slots EXCEPT ![best] = slots[m]]
        BY <1>2, <1>10, <2>7, <3>1
      <4>2. Closed(slots, slots', m, best)
        BY <1>3, <2>2, <4>1 DEF Closed
      <4>3. Held(slots', m, f) = Held(slots, m + 1, f) - (IF slots[best] = f THEN 1 ELSE 0)
        BY <2>2, <4>2, HeldRemove
      <4>4. Held(slots, m + 1, f) = kept[f] /\ slots[best] = frame[t]
        BY <2>6, <2>7, <3>1 DEF Counted
      <4> QED
        BY <4>3, <4>4
    <3>2. CASE "slot" \notin todo[t]
      <4>1. slots' = slots
        BY <1>2, <3>2
      <4> QED
        BY <2>6, <2>7, <3>2, <4>1 DEF CountedBut
    <3> QED
      BY <3>1, <3>2
  <2>8. CASE label # "remove"
    <3>1. todo[t] = {store} /\ kept' = Change(frame[t], -1) /\ todo'[t] = {}
      BY <1>2, <1>10, <1>12, <2>8
    <3>2. count' = m
      BY <2>4, <3>1
    <3>3. ASSUME NEW f \in Frames PROVE Held(slots', count', f) = kept'[f]
      <4>1. kept'[f] = IF f = frame[t] THEN kept[f] + -1 ELSE kept[f]
        BY <1>14, <3>1 DEF Change
      <4> QED
        BY <2>5, <2>7, <3>1, <3>2, <4>1
    <3> QED
      BY <1>1, <1>5, <1>14, <2>8, <3>3 DEF Counted, QInv, Sound
  <2>9. CASE label = "remove"
    <3>1. /\ UNCHANGED <<kept, n, best>> /\ frame'[t] = frame[t] /\ pc'[t] = "remove"
          /\ todo[t] = Stores
      BY <1>2, <1>5, <1>10, <1>12, <2>9 DEF Home, Stores, InQueue
    <3>2. "slot" \in todo'[t] => slots' = slots
      BY <1>2, <1>10
    <3>3. "slot" \in todo'[t] => Counted(n[t])' /\ slots'[best'] = frame'[t]
      BY <2>2, <2>6, <3>1, <3>2 DEF Counted, Stores
    <3>4. "slot" \notin todo'[t] => CountedBut(n[t] - 1, frame[t])'
      BY <2>7, <3>1 DEF CountedBut, m
    <3>5. Stored(t)' <=> "count" \notin todo'[t]
      BY <3>1 DEF Stored
    <3>6. Removing'
      BY <2>2, <2>4, <3>1, <3>3, <3>4, <3>5 DEF Removing, m
    <3> QED
      BY <1>1, <1>5, <1>14, <2>9, <3>6 DEF QInv, Sound
  <2> QED
    BY <2>8, <2>9
<1>15. Sound'
  <2>1. label \notin Appends /\ (label \in Pops <=> label = "remove")
    BY <1>12 DEF Appends, Pops, InQueue
  <2>2. "remove" \in InQueue
    BY DEF InQueue
  <2> HIDE DEF label
  <2> QED
    BY <1>1, <1>3, <1>4, <1>14, <2>1, <2>2, SoundInside
<1> QED
  BY <1>9, <1>13, <1>15

-----------------------------------------------------------------------------
(* The radio's side of the types *)

Chip == [mode : {"stdby", "tx", "rx"}, fifo : FrameSet,
         flags : SUBSET {"TX_DONE", "RX_DONE", "CRC_ERR"}]

RadioTypes ==
  /\ chip \in Chip
  /\ torn \subseteq Tasks
  /\ arrived \in 0 .. MaxRx

\* The driver's commands keep the chip a chip.
LEMMA ChipCommands ==
  ASSUME NEW c \in Chip
  PROVE  /\ \A m \in {"stdby", "tx", "rx"} : SetMode(c, m) \in Chip
         /\ \A f \in FrameSet : WriteFifo(c, f) \in Chip
         /\ ClearFlags(c) \in Chip
         /\ TxDone(c) \in Chip
         /\ \A f \in FrameSet, e \in Errors : RxDone(c, f, e) \in Chip
<1>1. \A m \in {"stdby", "tx", "rx"} : SetMode(c, m) \in Chip
  BY DEF Chip, SetMode
<1>2. \A f \in FrameSet : WriteFifo(c, f) \in Chip
  BY DEF Chip, WriteFifo
<1>3. ClearFlags(c) \in Chip
  BY DEF Chip, ClearFlags
<1>4. TxDone(c) \in Chip
  <2>1. c.flags \cup {"TX_DONE"} \in SUBSET {"TX_DONE", "RX_DONE", "CRC_ERR"}
    BY DEF Chip
  <2> QED
    BY <2>1 DEF Chip, TxDone
<1>5. ASSUME NEW f \in FrameSet, NEW e \in Errors PROVE RxDone(c, f, e) \in Chip
  <2>1. c.flags \cup {"RX_DONE"} \cup e \in SUBSET {"TX_DONE", "RX_DONE", "CRC_ERR"}
    BY DEF Chip, Errors
  <2> QED
    BY <2>1 DEF Chip, RxDone
<1> QED
  BY <1>1, <1>2, <1>3, <1>4, <1>5

\* What a step of esp_send or esp_recv is to the queue: a move outside it.
RadioMove(t, label, f) ==
  /\ Carry(t, label, f) /\ {pc[t], label} \cap InQueue = {}
  /\ UNCHANGED <<queue, arrived>> /\ chip' \in Chip /\ torn' \subseteq Tasks

\* esp_send makes such moves only.
LEMMA SendMoves ==
  ASSUME QInv, RadioTypes, Send
  PROVE  \E label \in Labels, f \in FrameSet : RadioMove("tick", label, f)
<1> USE DEF RadioMove, Labels, InQueue
<1>1. chip \in Chip /\ torn \subseteq Tasks /\ frame["tick"] \in FrameSet /\ Mixed \in FrameSet
  BY DEF RadioTypes, QInv, QueueTypes, FrameSet, Tasks
<1>2. CASE SendStart
  BY <1>1, <1>2, ChipCommands DEF SendStart, Write, Goto
<1>3. CASE SendFill
  <2>1. PICK g \in FrameSet : Write("tick", "fill", "transmit", WriteFifo(chip, g))
    BY <1>1, <1>3 DEF SendFill
  <2>2. RadioMove("tick", "transmit", frame["tick"])
    BY <1>1, <1>3, <2>1, ChipCommands DEF SendFill, Write, Goto
  <2> QED
    BY <1>1, <2>2
<1>4. CASE SendTransmit
  BY <1>1, <1>4, ChipCommands DEF SendTransmit, Command, Write, Goto
<1>5. CASE SendAck
  BY <1>1, <1>5, ChipCommands DEF SendAck, Command, Write, Goto
<1>6. CASE SendReturns
  <2>1. PICK from \in {"sent", "giveup"}, label \in {"sleep", "enqueue"} :
          Write("tick", from, label, SetMode(chip, "stdby"))
    BY <1>6 DEF SendReturns
  <2>2. RadioMove("tick", label, frame["tick"])
    BY <1>1, <1>6, <2>1, ChipCommands DEF SendReturns, Write, Goto
  <2> QED
    BY <1>1, <2>2
<1>7. CASE Take("tick", "ack")
  BY <1>1, <1>7 DEF Take, Goto
<1>8. CASE Block("tick")
  BY <1>1, <1>8 DEF Block, Goto, radio
<1>9. CASE Timeout("tick", "giveup")
  BY <1>1, <1>9 DEF Timeout, Goto, radio
<1> QED
  BY <1>2, <1>3, <1>4, <1>5, <1>6, <1>7, <1>8, <1>9 DEF Send

\* esp_recv makes such moves only, to queue_enqueue at most.
LEMMA RecvMoves ==
  ASSUME QInv, RadioTypes, Recv
  PROVE  \E label \in Labels, f \in FrameSet : RadioMove("rx", label, f)
<1> USE DEF RadioMove, Labels, InQueue
<1>1. chip \in Chip /\ torn \subseteq Tasks /\ frame["rx"] \in FrameSet /\ Mixed \in FrameSet
  BY DEF RadioTypes, QInv, QueueTypes, FrameSet, Tasks
<1>2. CASE RecvStart
  BY <1>1, <1>2, ChipCommands DEF RecvStart, Command, Write, Goto
<1>3. CASE RecvIrq
  BY <1>1, <1>3 DEF RecvIrq, Write, Goto
<1>4. CASE RecvAck
  <2>1. PICK label \in {"read", "nothing"} : Write("rx", "ack", label, ClearFlags(chip))
    BY <1>4 DEF RecvAck, RecvAfter
  <2>2. torn' \subseteq Tasks
    BY <1>1, <1>4 DEF RecvAck, RecvAfter
  <2>3. RadioMove("rx", label, frame["rx"])
    BY <1>1, <2>1, <2>2, ChipCommands DEF Write, Goto
  <2> QED
    BY <1>1, <2>3
<1>5. CASE RecvRead
  <2>1. PICK f \in {chip.fifo} \cup (IF "rx" \in torn THEN {Mixed} ELSE {}) :
          Carry("rx", "received", f)
    BY <1>5 DEF RecvRead
  <2>2. f \in FrameSet
    BY <1>1, <2>1 DEF Chip
  <2>3. RadioMove("rx", "received", f)
    BY <1>1, <1>5, <2>1 DEF RecvRead
  <2> QED
    BY <2>2, <2>3
<1>6. CASE RecvNothing
  BY <1>1, <1>6, ChipCommands DEF RecvNothing, Command, Write, Goto
<1>7. CASE RecvReturns
  <2>1. PICK label \in {"enqueue", "recv"} : Carry("rx", label, frame["rx"])
    BY <1>7 DEF RecvReturns, Goto
  <2>2. RadioMove("rx", label, frame["rx"])
    BY <1>1, <1>7, <2>1, ChipCommands DEF RecvReturns
  <2> QED
    BY <1>1, <2>2
<1>8. CASE Take("rx", "irq")
  BY <1>1, <1>8 DEF Take, Goto
<1>9. CASE Block("rx")
  BY <1>1, <1>9 DEF Block, Goto, radio
<1>10. CASE Timeout("rx", "nothing")
  BY <1>1, <1>10 DEF Timeout, Goto, radio
<1> QED
  BY <1>2, <1>3, <1>4, <1>5, <1>6, <1>7, <1>8, <1>9, <1>10 DEF Recv

\* The interrupt, the queue and the types together.
FullInv == IInv /\ QInv /\ RadioTypes

LEMMA FullInitially == Init => FullInv
<1> SUFFICES ASSUME Init PROVE FullInv
  OBVIOUS
<1>1. IInv
  BY Initially
<1>2. RadioTypes
  BY MaxRxAssumption DEF Init, RadioTypes, Chip, Configured, FrameSet
<1>3. QueueTypes
  <2>1. overlapped \in BOOLEAN /\ overrun \in BOOLEAN
    BY DEF Init
  <2>2. /\ slots \in [0 .. QueueMax - 1 -> FrameSet] /\ kept \in [Frames -> Int]
        /\ frame \in [Tasks -> FrameSet] /\ todo \in [Tasks -> SUBSET Stores]
    BY DEF Init, FrameSet
  <2>3. /\ count \in 0 .. QueueMax + 1 /\ best \in 0 .. QueueMax - 1
        /\ n \in [Tasks -> 0 .. QueueMax]
    BY QueueMaxAssumption DEF Init
  <2> QED
    BY <2>1, <2>2, <2>3 DEF QueueTypes
<1>4. Ready
  BY QueueMaxAssumption DEF Init, Ready, Tasks, Pops
<1>5. Sound
  <2>1. ASSUME NEW f \in Frames PROVE Held(slots, count, f) = 0
    <3>1. {k \in 0 .. count - 1 : slots[k] = f} = {}
      BY DEF Init
    <3> QED
      BY <3>1, FS_EmptySet DEF Held
  <2>2. Counted(count)
    BY <2>1 DEF Counted, Init
  <2> QED
    BY <2>2 DEF Init, Sound, Tasks, InQueue, Appends, Pops
<1> QED
  BY <1>1, <1>2, <1>3, <1>4, <1>5 DEF FullInv, QInv, IInv

LEMMA FullInductive == FullInv /\ [Next]_vars => FullInv'
<1> SUFFICES ASSUME FullInv, [Next]_vars PROVE FullInv'
  OBVIOUS
<1>1. IInv' /\ Types'
  BY Inductive DEF FullInv, IInv
<1>2. QInv /\ RadioTypes /\ Types
  BY DEF FullInv, QInv
<1>3. ASSUME NEW t \in Tasks, NEW label \in Labels, NEW f \in FrameSet, RadioMove(t, label, f)
      PROVE  FullInv'
  <2>1. QueueTypes' /\ Ready' /\ Sound'
    BY <1>2, <1>3, Outside DEF RadioMove
  <2>2. RadioTypes'
    BY <1>2, <1>3 DEF RadioMove, RadioTypes
  <2> QED
    BY <1>1, <2>1, <2>2 DEF FullInv, QInv
<1>4. CASE Send \/ Recv
  BY <1>2, <1>3, <1>4, SendMoves, RecvMoves DEF Tasks
<1>5. CASE ~overrun /\ (Pop \/ \E t \in Tasks : Enqueue(t))
  <2>1. QueueTypes' /\ Ready' /\ Sound'
    BY <1>2, <1>5, PopScanKeeps, PopCopyKeeps, ReloadLastKeeps, RemoveKeeps,
       EnqueueTestKeeps, ReloadIndexKeeps, AppendKeeps DEF Pop, Enqueue
  <2>2. UNCHANGED <<chip, torn, arrived>>
    BY <1>5 DEF Pop, Enqueue, EnqueueTest, EnqueueIf, Reload, Append, PopScan, PopCopy, Remove, radio
  <2>3. RadioTypes'
    BY <1>2, <2>2 DEF RadioTypes
  <2> QED
    BY <1>1, <2>1, <2>3 DEF FullInv, QInv
<1>6. CASE FrameSent \/ FrameArrives
  <2>1. /\ UNCHANGED <<slots, count, n, todo, best, kept, overrun, pc, frame, overlapped>>
    BY <1>6 DEF FrameSent, FrameArrives, queue
  <2>2. QueueTypes' /\ Ready'
    BY <1>2, <2>1 DEF QInv, QueueTypes, Ready, Stored
  <2>3. Sound'
    BY <1>2, <2>1 DEF QInv, Sound, Counted, CountedBut, Appending, Removing, Stored
  <2>4. RadioTypes'
    <3>1. CASE FrameSent
      BY <1>2, <3>1, ChipCommands DEF FrameSent, RadioTypes
    <3>2. CASE FrameArrives
      <4>1. PICK f \in Frames, e \in Errors : chip' = RxDone(chip, f, e)
        BY <3>2 DEF FrameArrives
      <4>2. chip' \in Chip
        BY <1>2, <4>1, ChipCommands DEF RadioTypes, FrameSet
      <4>3. arrived' \in 0 .. MaxRx /\ torn' \subseteq Tasks
        BY <1>2, <3>2, MaxRxAssumption DEF FrameArrives, RadioTypes, Tasks
      <4> QED
        BY <4>2, <4>3 DEF RadioTypes
    <3> QED
      BY <1>6, <3>1, <3>2
  <2> QED
    BY <1>1, <2>2, <2>3, <2>4 DEF FullInv, QInv
<1>7. CASE UNCHANGED vars
  <2>1. /\ UNCHANGED <<slots, count, n, todo, best, kept, overrun, pc, frame, overlapped>>
        /\ UNCHANGED <<chip, torn, arrived>>
    BY <1>7 DEF vars, queue, radio
  <2>2. QueueTypes' /\ Ready' /\ RadioTypes'
    BY <1>2, <2>1 DEF QInv, QueueTypes, Ready, Stored, RadioTypes
  <2>3. Sound'
    BY <1>2, <2>1 DEF QInv, Sound, Counted, CountedBut, Appending, Removing, Stored
  <2> QED
    BY <1>1, <2>2, <2>3 DEF FullInv, QInv
<1> QED
  BY <1>4, <1>5, <1>6, <1>7 DEF Next, TickTask, RxTask, Tasks

LEMMA FullInvariant == Spec => []FullInv
BY FullInitially, FullInductive, PTL DEF Spec

\* The radio, the token, the array and its count are what the firmware
\* declares them to be, and the count passes the array only after an overlap.
THEOREM TypeCorrect == Spec => []TypeOK
<1>1. FullInv => TypeOK
  <2> SUFFICES ASSUME FullInv PROVE TypeOK
    OBVIOUS
  <2>1. count \in 0 .. QueueMax + 1 /\ (~overlapped => count <= QueueMax)
    BY DEF FullInv, QInv, QueueTypes, Ready, Sound
  <2>2. count \in 0 .. IF overlapped THEN QueueMax + 1 ELSE QueueMax
    BY <2>1, QueueMaxAssumption
  <2> QED
    BY <2>2 DEF FullInv, QInv, QueueTypes, RadioTypes, Types, TypeOK, Chip, FrameSet
<1> QED
  BY <1>1, FullInvariant, PTL

\* SoundWithoutOverlap: as long as the tick and the receiver have not been in
\* queue.c at once, nothing is lost, doubled or written behind the array, in
\* whatever order the compiler puts the two stores of an operation.
THEOREM OnlyOverlapHarms == Spec => []SoundWithoutOverlap
<1>1. FullInv => SoundWithoutOverlap
  <2> SUFFICES ASSUME FullInv, ~overlapped
               PROVE  /\ ~overrun
                      /\ \A t \in Tasks : pc[t] \notin InQueue => \A f \in Frames :
                           pc[Other(t)] \notin InQueue => Copies(f) = kept[f]
    BY DEF SoundWithoutOverlap
  <2>1. ~overrun /\ ((\A t \in Tasks : pc[t] \notin InQueue) => Counted(count))
    BY DEF FullInv, QInv, Sound
  <2>2. ASSUME NEW t \in Tasks, pc[t] \notin InQueue, NEW f \in Frames, pc[Other(t)] \notin InQueue
        PROVE  Copies(f) = kept[f]
    <3>1. \A u \in Tasks : pc[u] \notin InQueue
      BY <2>2 DEF Tasks, Other
    <3> QED
      BY <2>1, <2>2, <3>1 DEF Counted, Held, Copies
  <2> QED
    BY <2>1, <2>2
<1> QED
  BY <1>1, FullInvariant, PTL
=============================================================================
