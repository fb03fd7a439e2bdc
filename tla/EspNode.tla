------------------------------- MODULE EspNode ------------------------------
(***************************************************************************)
(* The ESP32 firmware: radio_rx_task and dtn_tick_task of main_esp32.c run *)
(* on two cores and share, without a lock,                                 *)
(*   - the radio and its one binary semaphore (transport/lora_esp32.c),    *)
(*   - the queue (dtn_core/queue.c), whose array and count they read and   *)
(*     write in steps of their own.                                        *)
(* What the handlers decide is left open here: whether a received bundle   *)
(* is queued, and what becomes of one taken out, is Forwarding's subject.  *)
(* The buffer of 4096 bytes holds QueueMax frames of the largest size, so  *)
(* the byte budget and with it the preemption never come into play.        *)
(***************************************************************************)
EXTENDS Integers, FiniteSets, Sx1276

CONSTANTS
  Frames,     \* the bundles on the air
  QueueMax,   \* NODE_QUEUE_MAX
  MaxRx       \* bound on the frames that arrive

ASSUME FramesAssumption   == Mixed \notin Frames
ASSUME QueueMaxAssumption == QueueMax \in Nat \ {0}
ASSUME MaxRxAssumption    == MaxRx \in Nat

VARIABLES
  chip,        \* the radio
  sem,         \* dio0_sem: 1 when given and not taken
  slots,       \* queue.slots, from index 0
  count,       \* queue.count
  pc,          \* where each task is
  frame,       \* the frame each task works on
  n,           \* each task's copy of count
  todo,        \* the stores each task has still to make: "slot", "count"
  best,        \* the slot the tick removes
  irq,         \* the flags the receiver has read
  torn,        \* tasks whose FIFO accesses another one has come between
  out,         \* history: the tick's frame went out during this send
  kept,        \* history: how often each frame should be in the queue, as
               \* long as the tasks have not overlapped
  overlapped,  \* history: both tasks have been inside the queue at once
  overrun,     \* history: an append found the array full
  arrived      \* history: frames the chip has received

radio == <<chip, sem, irq, torn, out>>
queue == <<slots, count, n, todo, best, kept, overrun>>
vars  == <<radio, queue, arrived, pc, frame, overlapped>>

Tasks == {"tick", "rx"}

Other(t) == IF t = "tick" THEN "rx" ELSE "tick"

\* between the first load and the last store of a queue operation
InQueue == {"index", "append", "copy", "reindex", "remove"}

Home(t) == IF t = "tick" THEN "sleep" ELSE "recv"

\* a step of task t to label, with f the frame it works on; it forgets it at
\* the end of its round
Carry(t, label, f) ==
  /\ pc' = [pc EXCEPT ![t] = label]
  /\ frame' = [frame EXCEPT ![t] = IF label = Home(t) THEN Mixed ELSE f]
  /\ overlapped' = (overlapped \/ (label \in InQueue /\ pc[Other(t)] \in InQueue))

Goto(t, label) == Carry(t, label, frame[t])

Init ==
  /\ chip = Configured /\ sem = 0
  /\ slots = [k \in 0 .. QueueMax - 1 |-> Mixed] /\ count = 0
  /\ pc = [tick |-> "sleep", rx |-> "recv"]
  /\ frame = [t \in Tasks |-> Mixed]
  /\ n = [t \in Tasks |-> 0] /\ todo = [t \in Tasks |-> {}] /\ best = 0
  /\ irq = {} /\ torn = {} /\ out = FALSE
  /\ kept = [f \in Frames |-> 0] /\ overlapped = FALSE /\ overrun = FALSE
  /\ arrived = 0

-----------------------------------------------------------------------------
(* The chip and the interrupt *)

Raised(d) == sem' = IF Dio0Rises(chip, d) THEN 1 ELSE sem

FrameSent ==
  /\ chip.mode = "tx"
  /\ chip' = TxDone(chip) /\ Raised(chip')
  /\ out' = (chip.fifo = frame["tick"])
  /\ UNCHANGED <<irq, torn, queue, arrived, pc, frame, overlapped>>

FrameArrives ==
  /\ chip.mode = "rx" /\ arrived < MaxRx
  /\ \E f \in Frames, e \in Errors : chip' = RxDone(chip, f, e)
  /\ Raised(chip')
  /\ arrived' = arrived + 1
  /\ torn' = IF pc["tick"] = "fill" THEN torn \cup {"tick"} ELSE torn
  /\ UNCHANGED <<irq, out, queue, pc, frame, overlapped>>

-----------------------------------------------------------------------------
(* xSemaphoreTake.  Of two blocked tasks the receiver, which has the       *)
(* higher priority, is woken, but the other may take the token before it   *)
(* when its own wait ends just then.                                       *)

\* fault: the token stays
Peek(t, next) ==
  /\ pc[t] \in {"take", "blocked"} /\ sem = 1
  /\ Goto(t, next)
  /\ UNCHANGED <<radio, queue, arrived>>

Take(t, next) ==
  /\ pc[t] \in {"take", "blocked"} /\ sem = 1
  /\ sem' = 0
  /\ Goto(t, next)
  /\ UNCHANGED <<chip, irq, torn, out, queue, arrived>>

Block(t) ==
  /\ pc[t] = "take" /\ sem = 0
  /\ Goto(t, "blocked")
  /\ UNCHANGED <<radio, queue, arrived>>

\* fault: waits for ever
WaitOn(t, next) ==
  /\ pc[t] = "blocked" /\ sem = 1
  /\ Goto(t, next)
  /\ UNCHANGED <<radio, queue, arrived>>

Timeout(t, next) ==
  /\ pc[t] = "blocked" /\ sem = 0
  /\ Goto(t, next)
  /\ UNCHANGED <<radio, queue, arrived>>

\* a step of one task that writes a register
Write(t, from, next, c) ==
  /\ pc[t] = from
  /\ chip' = c
  /\ Goto(t, next)
  /\ UNCHANGED <<sem, queue, arrived>>

Command(t, from, next, c) == Write(t, from, next, c) /\ UNCHANGED <<irq, torn, out>>

-----------------------------------------------------------------------------
(* esp_send, called by the tick *)

SendStart ==
  /\ Write("tick", "send", "fill", SetMode(chip, "stdby"))
  /\ torn' = IF pc["rx"] = "read" THEN Tasks ELSE torn \ {"tick"}
  /\ UNCHANGED <<irq, out>>

SendFill ==
  /\ \E f \in {frame["tick"]} \cup (IF "tick" \in torn THEN {Mixed} ELSE {}) :
        Write("tick", "fill", "transmit", WriteFifo(chip, f))
  /\ torn' = torn \ {"tick"}
  /\ UNCHANGED <<irq, out>>

SendTransmit == Command("tick", "transmit", "take", SetMode(chip, "tx"))

\* fault: the flags are left for the receiver
SendForgetsAck == Command("tick", "ack", "sent", chip)

SendAck == Command("tick", "ack", "sent", ClearFlags(chip))

\* It returns len, and the tick is done with the bundle, or -1, and the tick
\* queues the bundle again.
SendReturns ==
  /\ \/ Write("tick", "sent", "sleep", SetMode(chip, "stdby"))
     \/ Write("tick", "giveup", "enqueue", SetMode(chip, "stdby"))
  /\ out' = FALSE
  /\ UNCHANGED <<irq, torn>>

Send == \/ SendStart \/ SendFill \/ SendTransmit
        \/ Take("tick", "ack") \/ Block("tick") \/ Timeout("tick", "giveup")
        \/ SendAck \/ SendReturns

-----------------------------------------------------------------------------
(* esp_recv, called by the receiver in a loop *)

RecvStart == \/ Command("rx", "recv", "listen", SetMode(chip, "stdby"))
             \/ Command("rx", "listen", "take", SetMode(chip, "rx"))

RecvIrq ==
  /\ Write("rx", "irq", "ack", chip)
  /\ irq' = chip.flags
  /\ UNCHANGED <<torn, out>>

Readable == "RX_DONE" \in irq /\ "CRC_ERR" \notin irq

\* the next step after REG_IRQ_FLAGS is written, or not
RecvAfter(c) ==
  /\ Write("rx", "ack", IF Readable THEN "read" ELSE "nothing", c)
  /\ torn' = IF ~Readable THEN torn
             ELSE IF pc["tick"] = "fill" THEN Tasks ELSE torn \ {"rx"}
  /\ irq' = {}
  /\ UNCHANGED out

\* fault: the flags are left as they are
RecvForgetsAck == RecvAfter(chip)

RecvAck == RecvAfter(ClearFlags(chip))

RecvRead ==
  /\ pc["rx"] = "read"
  /\ \E f \in {chip.fifo} \cup (IF "rx" \in torn THEN {Mixed} ELSE {}) :
        Carry("rx", "received", f)
  /\ torn' = torn \ {"rx"}
  /\ UNCHANGED <<chip, sem, irq, out, queue, arrived>>

RecvNothing == Command("rx", "nothing", "recv", SetMode(chip, "stdby"))

\* Returns the frame.  Its bundle is queued, or delivered, refused or, when
\* its checksum fails, dropped.
RecvReturns ==
  /\ pc["rx"] = "received"
  /\ chip' = SetMode(chip, "stdby")
  /\ \/ frame["rx"] \in Frames /\ Goto("rx", "enqueue")
     \/ Goto("rx", "recv")
  /\ UNCHANGED <<sem, irq, torn, out, queue, arrived>>

Recv == \/ RecvStart
        \/ Take("rx", "irq") \/ Block("rx") \/ Timeout("rx", "nothing")
        \/ RecvIrq \/ RecvAck \/ RecvRead \/ RecvNothing \/ RecvReturns

-----------------------------------------------------------------------------
(* queue_enqueue: the test of the count, the index, then the two stores of *)
(* slots[count++] = *b, which the compiler may put in either order.        *)

EnqueueIf(t, accepted) ==
  /\ pc[t] = "enqueue"
  /\ IF accepted
     THEN /\ n' = [n EXCEPT ![t] = count]
          /\ todo' = [todo EXCEPT ![t] = {"slot", "count"}]
          /\ Goto(t, "index")
     ELSE Goto(t, Home(t)) /\ UNCHANGED <<n, todo>>
  /\ UNCHANGED <<radio, arrived, slots, count, best, kept, overrun>>

\* fault: lets one bundle too many in
EnqueueTestOff(t) == EnqueueIf(t, count <= QueueMax)

EnqueueTest(t) == EnqueueIf(t, count < QueueMax)

\* the count may be loaded again after the test
Reload(t, from, next) ==
  /\ pc[t] = from
  /\ \E m \in {n[t], count} : n' = [n EXCEPT ![t] = m]
  /\ Goto(t, next)
  /\ UNCHANGED <<radio, arrived, slots, count, todo, best, kept, overrun>>

StoreSlot(k, f) == slots' = IF k < QueueMax THEN [slots EXCEPT ![k] = f] ELSE slots

\* where a task goes from its stores: on when the last one is made
After(t, store, last, from) == IF todo[t] = {store} THEN last ELSE from

Change(f, d) ==
  [g \in Frames |-> IF overlapped' THEN 0 ELSE IF g = f THEN kept[g] + d ELSE kept[g]]

Append(t) ==
  /\ pc[t] = "append"
  /\ \E store \in todo[t] :
       /\ todo' = [todo EXCEPT ![t] = @ \ {store}]
       /\ IF store = "slot" THEN StoreSlot(n[t], frame[t]) /\ UNCHANGED count
                            ELSE count' = n[t] + 1 /\ UNCHANGED slots
       /\ overrun' = (n[t] >= QueueMax)
       /\ Goto(t, After(t, store, Home(t), "append"))
       /\ IF todo[t] = {store}
          THEN kept' = Change(frame[t], 1) /\ n' = [n EXCEPT ![t] = 0]
          ELSE UNCHANGED <<kept, n>>
  /\ UNCHANGED <<radio, arrived, best>>

Enqueue(t) == EnqueueTest(t) \/ Reload(t, "index", "append") \/ Append(t)

-----------------------------------------------------------------------------
(* queue_pop_next, at the start of a tick.  Which slot ranks highest is    *)
(* left open.                                                              *)

PopScan ==
  /\ pc["tick"] = "sleep" /\ count > 0
  /\ n' = [n EXCEPT !["tick"] = count]
  /\ \E k \in 0 .. count - 1 : best' = k
  /\ Goto("tick", "copy")
  /\ UNCHANGED <<radio, arrived, slots, count, todo, kept, overrun>>

PopCopy ==
  /\ pc["tick"] = "copy"
  /\ Carry("tick", "reindex", slots[best])
  /\ todo' = [todo EXCEPT !["tick"] = {"slot", "count"}]
  /\ UNCHANGED <<radio, arrived, slots, count, n, best, kept, overrun>>

\* fault: the last slot does not move into the gap
RemoveLeavingGap ==
  /\ pc["tick"] = "remove"
  /\ count' = n["tick"] - 1
  /\ todo' = [todo EXCEPT !["tick"] = {}]
  /\ \E next \in {"sleep", "enqueue", "send"} : Goto("tick", next)
  /\ kept' = Change(frame["tick"], -1) /\ n' = [n EXCEPT !["tick"] = 0] /\ best' = 0
  /\ UNCHANGED <<radio, arrived, slots, overrun>>

\* slots[best] = slots[count - 1]; --count.  The bundle has then expired, has
\* no open route and is queued again, or is sent.
Remove ==
  /\ pc["tick"] = "remove"
  /\ \E store \in todo["tick"], next \in {"sleep", "enqueue", "send"} :
       /\ todo' = [todo EXCEPT !["tick"] = @ \ {store}]
       /\ IF store = "slot"
          THEN slots' = [slots EXCEPT ![best] = slots[n["tick"] - 1]] /\ UNCHANGED count
          ELSE count' \in {n["tick"] - 1, count - 1} /\ UNCHANGED slots
       /\ Goto("tick", After("tick", store, next, "remove"))
       /\ IF todo["tick"] = {store}
          THEN kept' = Change(frame["tick"], -1) /\ n' = [n EXCEPT !["tick"] = 0] /\ best' = 0
          ELSE UNCHANGED <<kept, n, best>>
  /\ UNCHANGED <<radio, arrived, overrun>>

Pop == PopScan \/ PopCopy \/ Reload("tick", "reindex", "remove") \/ Remove

-----------------------------------------------------------------------------

TickTask == Pop \/ Send \/ Enqueue("tick")

RxTask == Recv \/ Enqueue("rx")

\* After an append behind the array the program's behaviour is undefined.
Next == /\ ~overrun
        /\ TickTask \/ RxTask \/ FrameSent \/ FrameArrives

Spec == Init /\ [][Next]_vars

\* both cores run; nothing is assumed of the chip
FairSpec == Spec /\ WF_vars(~overrun /\ TickTask) /\ WF_vars(~overrun /\ RxTask)

-----------------------------------------------------------------------------
(* Properties *)

\* Type invariant.
TypeOK ==
  /\ chip \in [mode : {"stdby", "tx", "rx"}, fifo : Frames \cup {Mixed},
               flags : SUBSET {"TX_DONE", "RX_DONE", "CRC_ERR"}]
  /\ sem \in {0, 1}
  /\ slots \in [0 .. QueueMax - 1 -> Frames \cup {Mixed}]
  /\ count \in 0 .. IF overlapped THEN QueueMax + 1 ELSE QueueMax
  /\ frame \in [Tasks -> Frames \cup {Mixed}]
  /\ torn \subseteq Tasks
  /\ arrived \in 0 .. MaxRx

\* who will clear the flags: whoever takes the token, or has taken it
Acknowledging ==
  {t \in Tasks : pc[t] = "ack"} \cup (IF pc["rx"] = "irq" THEN {"rx"} ELSE {})

\* A raised flag always has exactly one owner that will clear it: the pending
\* token, or one task between taking it and writing REG_IRQ_FLAGS.  Without
\* one DIO0 would stay high, never rise again, and the node would be deaf and
\* mute; with two, one would clear the other's interrupt unseen.
OneOwner ==
  /\ sem + Cardinality(Acknowledging) <= 1
  /\ chip.flags # {} <=> sem + Cardinality(Acknowledging) = 1

Copies(f) == Cardinality({k \in 0 .. count - 1 : slots[k] = f})

\* As long as the two tasks have not been inside the queue at once, it holds
\* what was put in and not taken out: the overlap, which no lock prevents, is
\* the only thing that loses, doubles or overruns.
SoundWithoutOverlap ==
  ~overlapped =>
    /\ ~overrun
    /\ \A t \in Tasks : pc[t] \notin InQueue => \A f \in Frames :
         pc[Other(t)] \notin InQueue => Copies(f) = kept[f]

\* Every interrupt is acknowledged: no token is left untaken.
InterruptsAcknowledged == chip.flags # {} ~> chip.flags = {} \/ overrun

\* The tick always comes back to its period and the receiver to its loop,
\* although both may wait for the one token.
CallsReturn ==
  /\ pc["tick"] = "blocked" ~> pc["tick"] \in {"sleep", "enqueue"} \/ overrun
  /\ pc["rx"] = "blocked" ~> pc["rx"] = "recv" \/ overrun

-----------------------------------------------------------------------------
(* Statements of the sources that the code does not keep *)

\* lora_esp32.c:191: esp_send waits for TX_DONE; its success means that the
\* frame went out.
ConfirmedWentOut == pc["tick"] = "sent" => out
=============================================================================
