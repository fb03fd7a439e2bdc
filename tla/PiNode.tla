-------------------------------- MODULE PiNode ------------------------------
(***************************************************************************)
(* The ground station and Pi nodes: main of node/main_pi.c, from loading   *)
(* the contact plan through the event loop, over the driver of             *)
(* transport/lora_pi.c, whose calls are cut where the chip or the clock    *)
(* may move between two register accesses.  One thread does all of it.     *)
(*                                                                         *)
(* What pi_init finds decides how the driver waits for the radio:          *)
(*   "edges"    the kernel queues the rising edges of DIO0 on a file;      *)
(*   "polling"  no such file: the driver reads the register in a loop;     *)
(*   "none"     the SPI device does not open, and main goes on without.    *)
(* What the tick and the handlers decide is Forwarding's subject; here a   *)
(* tick sends a bundle or does not.                                        *)
(***************************************************************************)
EXTENDS Loader, Sx1276

CONSTANTS
  Texts,       \* the files loaded at boot: records [plan, tail, ends] of the plan
               \* written there, what follows it, and the byte each value ends at
  IsGround,    \* --ground
  TxTimeout,   \* the wait of pi_send: 2 s
  SyncPeriod,  \* between two time-sync broadcasts: 5 s
  MaxClock,    \* bound on the clock
  MaxSends,    \* bound on the bundles the ticks send
  MaxHeard,    \* bound on the frames that arrive
  MaxInput     \* bound on the pieces of input typed

ASSUME TimesAssumption == TxTimeout \in Nat \ {0} /\ SyncPeriod \in Nat \ {0}
ASSUME InputAssumption == MaxInput \in Nat
File(x) == Written(x.plan) \o x.tail

ASSUME TextsAssumption == \A x \in Texts :
  /\ x.plan \in Seq(ContactType)
  /\ \A i \in DOMAIN x.plan : /\ x.plan[i].status = "up"
                              /\ x.plan[i].bytes_used = 0 /\ x.plan[i].reserved = 0
  /\ x.tail \in Seq([key : STRING, type : {"string", "number", "other", "cut"}, val : Int])
  /\ x.ends \in Seq(Nat) /\ Len(x.ends) = Len(File(x))

VARIABLES
  radio,    \* what pi_init found
  chip,     \* the radio chip
  edges,    \* DIO0 edges queued by the kernel
  input,    \* pieces of input not read yet
  pc,       \* where the thread is
  call,     \* the call of the driver it is in
  ready,    \* revents of the poll
  irq,      \* the flags last read
  waited,   \* how long pi_send has waited
  clock, t, next_time_sync,
  running,  \* g_running
  tries,    \* history: calls of pi_send for bundles
  outcome,  \* history: calls of pi_send that returned the length, TX_DONEs,
            \* frames arrived, frames returned, whether the driver read input
  late      \* history: how old the last time stamp was when it went out

driver  == <<chip, edges, irq, waited>>
main    == <<radio, ready, t, next_time_sync, running>>
vars    == <<driver, main, input, pc, call, clock, tries, outcome, late>>

Radios == {"edges", "polling", "none"}

Nothing == [ok |-> 0, sent |-> 0, arrived |-> 0, heard |-> 0, eaten |-> FALSE]

Init ==
  /\ radio = "none" /\ chip = Configured /\ edges = 0 /\ input = 0
  /\ pc = "boot" /\ call = "none" /\ ready = {} /\ irq = {} /\ waited = 0
  /\ clock = 0 /\ t = 0 /\ next_time_sync = 0 /\ running = TRUE
  /\ tries = 0 /\ outcome = Nothing /\ late = 0

Count(what) == outcome' = [outcome EXCEPT ![what] = @ + 1]

-----------------------------------------------------------------------------
(* The chip, the clock and the user *)

Edge(d) == edges' = IF radio = "edges" /\ Dio0Rises(chip, d) THEN edges + 1 ELSE edges

FrameSent ==
  /\ chip.mode = "tx"
  /\ chip' = TxDone(chip) /\ Edge(chip') /\ Count("sent")
  /\ late' = IF chip.fifo = "sync" THEN clock - t ELSE late
  /\ UNCHANGED <<irq, waited, main, input, pc, call, clock, tries>>

FrameArrives ==
  /\ chip.mode = "rx" /\ outcome.arrived < MaxHeard
  /\ \E e \in Errors : chip' = RxDone(chip, "frame", e)
  /\ Edge(chip') /\ Count("arrived")
  /\ UNCHANGED <<irq, waited, main, input, pc, call, clock, tries, late>>

\* where the thread waits in pi_send
TimePasses ==
  /\ pc = "wait" /\ waited < TxTimeout
  /\ waited' = waited + 1 /\ clock' = clock + 1
  /\ UNCHANGED <<chip, edges, irq, main, input, pc, call, tries, outcome, late>>

Type ==
  /\ input < MaxInput
  /\ input' = input + 1
  /\ UNCHANGED <<driver, main, pc, call, clock, tries, outcome, late>>

-----------------------------------------------------------------------------
(* The file dio0_fd, which pi_init sets; lora_transport_init_pi zeroes it, *)
(* and 0 is the standard input                                             *)

\* fault: without edges the descriptor stays zero
DioFdUnset(r) == IF r = "edges" THEN "line" ELSE "stdin"

DioFd(r) == CASE r = "edges" -> "line" [] r = "polling" -> "closed" [] r = "none" -> "stdin"

HasData(fd) == \/ fd = "line" /\ edges > 0
               \/ fd = "stdin" /\ input > 0

\* the read that drains the event
Drain == IF DioFd(radio) = "line"
         THEN edges' = edges - 1 /\ UNCHANGED <<input, outcome>>
         ELSE input' = input - 1 /\ outcome' = [outcome EXCEPT !.eaten = TRUE] /\ UNCHANGED edges

\* registers answer and take effect only when the SPI device is open
Flags == IF radio = "none" THEN {} ELSE chip.flags

Reg(c) == chip' = IF radio = "none" THEN chip ELSE c

Goto(label) == pc' = label /\ UNCHANGED <<main, call, clock, tries, late>>

\* SIGINT or SIGTERM; it cuts the poll in pi_send short, as a timeout does
Signal ==
  /\ running
  /\ running' = FALSE
  /\ pc' = IF pc = "wait" /\ DioFd(radio) # "closed" THEN "clear" ELSE pc
  /\ UNCHANGED <<driver, radio, ready, t, next_time_sync, input, call, clock, tries,
                 outcome, late>>

-----------------------------------------------------------------------------
(* pi_send *)

SendStart ==
  /\ pc = "send"
  /\ Reg(SetMode(WriteFifo(SetMode(chip, "stdby"), call), "tx"))
  /\ irq' = {} /\ waited' = 0
  /\ Goto("wait") /\ UNCHANGED <<edges, input, outcome>>

SendWoken ==
  /\ pc = "wait" /\ HasData(DioFd(radio))
  /\ Drain
  /\ Goto("woken") /\ UNCHANGED <<chip, irq, waited>>

SendReads ==
  /\ \/ pc = "woken"
     \/ pc = "wait" /\ DioFd(radio) = "closed" /\ "TX_DONE" \in Flags
  /\ irq' = Flags
  /\ Goto("clear") /\ UNCHANGED <<chip, edges, waited, input, outcome>>

\* fault: waits for ever
WaitsOn == pc = "wait" /\ waited > TxTimeout /\ UNCHANGED vars

SendTimesOut ==
  /\ pc = "wait" /\ waited = TxTimeout
  /\ ~HasData(DioFd(radio))
  /\ DioFd(radio) = "closed" => "TX_DONE" \notin Flags
  /\ Goto("clear") /\ UNCHANGED <<driver, input, outcome>>

\* fault: leaves the flags
SendKeepsFlags ==
  pc = "clear" /\ Goto("settle") /\ UNCHANGED <<driver, input, outcome>>

SendClears ==
  /\ pc = "clear"
  /\ Reg(ClearFlags(chip))
  /\ Goto("settle") /\ UNCHANGED <<edges, irq, waited, input, outcome>>

AfterSend == IF call = "sync" THEN "fallback" ELSE "sync"

SendReturns ==
  /\ pc = "settle"
  /\ Reg(SetMode(chip, "stdby"))
  /\ irq' = {} /\ waited' = 0
  /\ IF "TX_DONE" \in irq THEN Count("ok") ELSE UNCHANGED outcome
  /\ Goto(AfterSend) /\ UNCHANGED <<edges, input>>

PiSend == SendStart \/ SendWoken \/ SendReads \/ SendTimesOut \/ SendClears \/ SendReturns

-----------------------------------------------------------------------------
(* pi_recv with timeout 0, as node_try_recv calls it.  The loop that polls *)
(* the register runs no times then.                                        *)

RecvStart ==
  /\ pc = "recv"
  /\ Reg(SetMode(chip, "rx"))
  /\ Goto("listen") /\ UNCHANGED <<edges, irq, waited, input, outcome>>

RecvLooks ==
  /\ pc = "listen"
  /\ IF HasData(DioFd(radio)) THEN Drain /\ Goto("caught")
     ELSE Goto("leave") /\ UNCHANGED <<edges, input, outcome>>
  /\ UNCHANGED <<chip, irq, waited>>

\* no RX_DONE: the flags stay as they are
RecvReads ==
  /\ pc = "caught"
  /\ irq' = Flags
  /\ Goto(IF Flags \cap {"RX_DONE", "CRC_ERR"} = {} THEN "leave" ELSE "ack")
  /\ UNCHANGED <<chip, edges, waited, input, outcome>>

RecvClears ==
  /\ pc = "ack"
  /\ Reg(ClearFlags(chip))
  /\ IF "CRC_ERR" \in irq THEN UNCHANGED outcome ELSE Count("heard")
  /\ Goto("leave") /\ UNCHANGED <<edges, irq, waited, input>>

\* fault: on the way out the radio is left listening
RecvStaysOn ==
  /\ pc = "leave"
  /\ irq' = {}
  /\ Goto(IF call = "fallback" THEN "cli" ELSE "poll")
  /\ UNCHANGED <<chip, edges, waited, input, outcome>>

RecvReturns ==
  /\ pc = "leave"
  /\ Reg(SetMode(chip, "stdby"))
  /\ irq' = {}
  /\ Goto(IF call = "fallback" THEN "cli" ELSE "poll")
  /\ UNCHANGED <<edges, waited, input, outcome>>

PiRecv == RecvStart \/ RecvLooks \/ RecvReads \/ RecvClears \/ RecvReturns

-----------------------------------------------------------------------------
(* main *)

Boot ==
  /\ pc = "boot"
  /\ \E x \in Texts : \E loaded \in LoadOutcomes(File(x), x.ends) :
       \/ loaded.crash /\ pc' = "crashed" /\ UNCHANGED radio
       \/ loaded = Ended(FALSE) /\ pc' = "stopped" /\ UNCHANGED radio
       \/ ~loaded.crash /\ loaded.contacts # <<>> /\ pc' = "poll" /\ radio' \in Radios
  /\ UNCHANGED <<driver, ready, t, next_time_sync, running, input, call, clock, tries,
                 outcome, late>>

\* what the poll finds readable; the timer's turn may have come or not
Found == {"timer"} \cup (IF input > 0 THEN {"stdin"} ELSE {})
                  \cup (IF HasData(DioFd(radio)) THEN {"radio"} ELSE {})

PollUntil(now) ==
  /\ pc = "poll" /\ running /\ clock < MaxClock
  /\ clock' = now
  /\ ready' \in {Found, Found \ {"timer"}}
  /\ pc' = IF "timer" \in ready' THEN "tick" ELSE "cli"
  /\ UNCHANGED <<driver, radio, next_time_sync, running, input, call, tries, outcome, late>>

\* fault: reads the time before it waits
PollStale == \E now \in {clock, clock + 1} : PollUntil(now) /\ t' = clock

Poll == \E now \in {clock, clock + 1} : PollUntil(now) /\ t' = now

\* node_tick, then the broadcast, then the receive without edges
Tick ==
  /\ pc = "tick"
  /\ \/ pc' = "sync" /\ UNCHANGED <<call, tries>>
     \/ tries < MaxSends /\ tries' = tries + 1 /\ call' = "bundle" /\ pc' = "send"
  /\ UNCHANGED <<driver, main, input, clock, outcome, late>>

Broadcast ==
  /\ pc = "sync"
  /\ IF IsGround /\ t >= next_time_sync
     THEN call' = "sync" /\ pc' = "send" /\ next_time_sync' = t + SyncPeriod
     ELSE pc' = "fallback" /\ UNCHANGED <<call, next_time_sync>>
  /\ UNCHANGED <<driver, radio, ready, t, running, input, clock, tries, outcome, late>>

Receive(at, condition, caller, skip) ==
  /\ pc = at
  /\ IF condition THEN call' = caller /\ pc' = "recv" ELSE pc' = skip /\ UNCHANGED call
  /\ UNCHANGED <<driver, main, input, clock, tries, outcome, late>>

Fallback == Receive("fallback", DioFd(radio) = "closed", "fallback", "cli")

\* one read of the input; quit ends the loop
CliRead(some) ==
  /\ pc = "cli"
  /\ pc' = "edge"
  /\ IF some
     THEN input' = input - 1 /\ running' \in {running, FALSE}
     ELSE UNCHANGED <<input, running>>
  /\ UNCHANGED <<driver, radio, ready, t, next_time_sync, call, clock, tries,
                 outcome, late>>

\* fault: trusts revents, although the driver may have read since
CliUnchecked == CliRead("stdin" \in ready)

Cli == CliRead("stdin" \in ready /\ input > 0)

\* fault: looks at the wrong descriptor
OnEdgeOfInput == Receive("edge", "stdin" \in ready, "edge", "poll")

OnEdge == Receive("edge", "radio" \in ready, "edge", "poll")

Shutdown == pc = "poll" /\ ~running /\ Goto("stopped") /\ UNCHANGED <<driver, input, outcome>>

Loop == Boot \/ Poll \/ Tick \/ Broadcast \/ Fallback \/ Cli \/ OnEdge \/ PiSend \/ PiRecv
        \/ Shutdown

-----------------------------------------------------------------------------

Next == Loop \/ TimePasses \/ Type \/ Signal \/ FrameSent \/ FrameArrives

Spec == Init /\ [][Next]_vars

\* the thread runs and the clock with it; nothing is assumed of the radio
FairSpec == Spec /\ WF_vars(Loop) /\ WF_vars(TimePasses)

-----------------------------------------------------------------------------
(* Properties *)

\* Type invariant.
TypeOK ==
  /\ radio \in Radios
  /\ chip \in [mode : {"stdby", "tx", "rx"}, fifo : {"bundle", "sync", "frame", Mixed},
               flags : SUBSET {"TX_DONE", "RX_DONE", "CRC_ERR"}]
  /\ edges \in 0 .. 3 /\ input \in 0 .. MaxInput
  /\ irq \subseteq {"TX_DONE", "RX_DONE", "CRC_ERR"} /\ waited \in 0 .. TxTimeout
  /\ clock \in Nat /\ t \in 0 .. clock /\ running \in BOOLEAN

InPiSend == {"wait", "woken", "clear", "settle"}
InPiRecv == {"listen", "caught", "ack", "leave"}

\* While the thread waits in the event loop the radio neither listens nor
\* sends: a frame that arrives then is lost, whatever the loop waits for.
StandbyBetweenCalls ==
  /\ chip.mode = "tx" => pc \in InPiSend
  /\ chip.mode = "rx" => pc \in InPiRecv

\* So the node hears nothing until it has sent: only the edge of a TX_DONE
\* that came too late for pi_send makes the loop call pi_recv, and without
\* edges the receive looks at no register.
DeafUntilSending == outcome.heard > 0 => radio = "edges" /\ outcome.sent > 0

\* pi_send reports no more frames sent than the chip has sent, stale flags and
\* late edges notwithstanding.
ReportsNoMoreThanSent == outcome.ok <= outcome.sent

\* The driver reads the user's input only when the radio did not open.
InputLostOnlyWithoutRadio == outcome.eaten => radio = "none"

\* A time stamp is no older than the two sends of its turn may take: t is read
\* once, before the tick sends its bundle.
StampAge == late <= 2 * TxTimeout

\* How many contacts of the plan stand whole in the buffer.
Fitting(x) == IF 8 * Len(x.plan) <= Whole(x.ends) THEN Len(x.plan) ELSE Whole(x.ends) \div 8

\* The contacts that stand whole in the first 8191 bytes are loaded as written,
\* up to the size of the plan, whatever follows.  If nothing else is in the
\* file they are the plan when all of them fit, and otherwise at most one
\* contact, the one at the cut, comes after them.
LoadedAsWritten ==
  pc = "boot" => \A x \in Texts : \A loaded \in LoadOutcomes(File(x), x.ends) :
    LET fit  == Fitting(x)
        kept == SubSeq(x.plan, 1, IF fit > PlanMax THEN PlanMax ELSE fit)
    IN  /\ IsPrefix(kept, loaded.contacts)
        /\ x.tail = <<>> => Len(loaded.contacts) <= Len(kept) + 1
        /\ x.tail = <<>> /\ fit = Len(x.plan) => loaded = [crash |-> FALSE, contacts |-> kept]

\* Every turn of the loop ends, whatever the radio does: each of its sends and
\* receives returns.  That the search for a route in the tick returns is not
\* part of it; Terminates of Cgr is about that.
LoopTurns == pc = "tick" ~> pc = "poll"
=============================================================================
