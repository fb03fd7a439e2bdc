----------------------------- MODULE PiNodeProofs ---------------------------
(***************************************************************************)
(* What the Pi's event loop may rely on in the driver of its radio, for    *)
(* any plan, timeout, sync period and amount of traffic and input.         *)
(*                                                                         *)
(* The calls of the driver are not atomic to the chip: a frame may be sent *)
(* or arrive between any two register accesses, and so may a signal.  One  *)
(* invariant follows a TX_DONE from the chip through the flags and the     *)
(* variable irq to the result of pi_send, and an edge from the chip        *)
(* through the kernel's queue and revents to the call of pi_recv.          *)
(* The second part is about the contact plan it has loaded before.         *)
(***************************************************************************)
EXTENDS PiNode, WellFoundedInduction, TLAPS

\* c has the fields of a radio, whatever is in them.
IsRadio(c) == c \in [mode : {c.mode}, flags : {c.flags}, fifo : {c.fifo}]

\* Only the chip and ClearFlags change the flags of the radio.
LEMMA RadioOperations ==
  ASSUME NEW c, IsRadio(c)
  PROVE  /\ \A m : IsRadio(SetMode(c, m)) /\ SetMode(c, m).flags = c.flags
         /\ \A f : IsRadio(WriteFifo(c, f)) /\ WriteFifo(c, f).flags = c.flags
         /\ IsRadio(ClearFlags(c)) /\ ClearFlags(c).flags = {}
         /\ IsRadio(TxDone(c)) /\ TxDone(c).flags = c.flags \cup {"TX_DONE"}
         /\ \A f, e : /\ IsRadio(RxDone(c, f, e))
                      /\ RxDone(c, f, e).flags = c.flags \cup {"RX_DONE"} \cup e
BY DEF IsRadio, SetMode, WriteFifo, ClearFlags, TxDone, RxDone

\* Only commands and the chip change its mode.
LEMMA RadioModes ==
  ASSUME NEW c, IsRadio(c)
  PROVE  /\ \A m : SetMode(c, m).mode = m
         /\ \A f : WriteFifo(c, f).mode = c.mode
         /\ ClearFlags(c).mode = c.mode
         /\ TxDone(c).mode = "stdby"
         /\ \A f, e : RxDone(c, f, e).mode = "stdby"
BY DEF IsRadio, SetMode, WriteFifo, ClearFlags, TxDone, RxDone

\* Only a write to the FIFO and a frame received change what it holds.
LEMMA RadioFrames ==
  ASSUME NEW c, IsRadio(c)
  PROVE  /\ \A m : SetMode(c, m).fifo = c.fifo
         /\ \A f : WriteFifo(c, f).fifo = f
         /\ ClearFlags(c).fifo = c.fifo
BY DEF IsRadio, SetMode, WriteFifo, ClearFlags

-----------------------------------------------------------------------------

Outcomes == [ok : Nat, sent : Nat, arrived : Nat, heard : Nat, eaten : BOOLEAN]

\* What the proofs need of the types.
Types ==
  /\ IsRadio(chip)
  /\ radio \in Radios
  /\ edges \in Nat
  /\ outcome \in Outcomes

\* Before the plan is loaded nothing has happened, and without SPI nothing
\* ever happens to the radio.
Untouched ==
  /\ pc = "boot" => /\ radio = "none" /\ outcome = Nothing
                    /\ edges = 0 /\ ready = {} /\ irq = {}
  /\ radio = "none" => chip = Configured

\* Before the first TX_DONE no edge is queued, reported or acted upon.
NoEdgeYet ==
  radio = "edges" /\ outcome.sent = 0 =>
    edges = 0 /\ "radio" \notin ready /\ pc \notin InPiRecv \cup {"recv"}

\* What pi_recv has found, by the place it is at.
Caught ==
  /\ pc = "caught" => radio # "polling"
  /\ pc = "ack" => radio = "edges"

\* A TX_DONE not reported yet: in the flags, or read and cleared.
Pending == (IF "TX_DONE" \in chip.flags THEN 1 ELSE 0)
           + (IF pc = "settle" /\ "TX_DONE" \in irq THEN 1 ELSE 0)

Reported ==
  /\ pc \in {"wait", "woken"} => irq = {}
  /\ pc = "clear" /\ "TX_DONE" \in irq => "TX_DONE" \in chip.flags
  /\ outcome.ok + Pending <= outcome.sent

IInv ==
  /\ Types /\ Untouched /\ NoEdgeYet /\ Caught /\ Reported
  /\ StandbyBetweenCalls /\ DeafUntilSending /\ InputLostOnlyWithoutRadio

-----------------------------------------------------------------------------

\* Counting adds one to its field and leaves the others.
LEMMA Counting ==
  ASSUME outcome \in Outcomes, NEW what \in {"ok", "sent", "arrived", "heard"}, Count(what)
  PROVE  /\ outcome' \in Outcomes
         /\ outcome'.ok = outcome.ok + (IF what = "ok" THEN 1 ELSE 0)
         /\ outcome'.sent = outcome.sent + (IF what = "sent" THEN 1 ELSE 0)
         /\ outcome'.heard = outcome.heard + (IF what = "heard" THEN 1 ELSE 0)
         /\ outcome'.eaten = outcome.eaten
BY DEF Outcomes, Count

\* The read that drains an event takes an edge, or input if the radio did not
\* open.
LEMMA Draining ==
  ASSUME Types, HasData(DioFd(radio)), Drain
  PROVE  /\ outcome' \in Outcomes
         /\ outcome'.ok = outcome.ok /\ outcome'.sent = outcome.sent
         /\ outcome'.heard = outcome.heard
         /\ \/ radio = "edges" /\ edges > 0 /\ edges' = edges - 1
               /\ outcome'.eaten = outcome.eaten
            \/ radio = "none" /\ edges' = edges
<1>1. CASE radio = "edges"
  <2>1. DioFd(radio) = "line"
    BY <1>1 DEF DioFd
  <2> QED
    BY <1>1, <2>1 DEF Drain, HasData, Types
<1>2. CASE radio = "none"
  <2>1. DioFd(radio) = "stdin"
    BY <1>2 DEF DioFd
  <2>2. edges' = edges /\ outcome' = [outcome EXCEPT !.eaten = TRUE]
    BY <2>1 DEF Drain
  <2>3. outcome \in Outcomes
    BY DEF Types
  <2> QED
    BY <1>2, <2>2, <2>3 DEF Outcomes
<1>3. CASE radio = "polling"
  <2>1. DioFd(radio) = "closed"
    BY <1>3 DEF DioFd
  <2> QED
    BY <2>1 DEF HasData
<1> QED
  BY <1>1, <1>2, <1>3 DEF Types, Radios

\* A register written changes the chip only if it is there.
LEMMA Writing ==
  ASSUME Types, Untouched, NEW c, IsRadio(c), Reg(c)
  PROVE  /\ IsRadio(chip')
         /\ radio = "none" => chip' = chip /\ chip = Configured
         /\ radio # "none" => chip' = c
BY DEF Types, Untouched, Reg

LEMMA ConfiguredIs ==
  IsRadio(Configured) /\ Configured.mode = "stdby" /\ Configured.flags = {}
BY DEF Configured, IsRadio

-----------------------------------------------------------------------------
(* The chip and the user *)

LEMMA FrameSentKeeps == ASSUME IInv, FrameSent PROVE IInv'
<1>0. IsRadio(chip) /\ outcome \in Outcomes
  BY DEF IInv, Types
<1>1. /\ IsRadio(chip') /\ chip'.mode = "stdby"
      /\ chip'.flags = chip.flags \cup {"TX_DONE"}
  BY <1>0, RadioOperations, RadioModes DEF FrameSent
<1>2. /\ outcome' \in Outcomes /\ outcome'.ok = outcome.ok
      /\ outcome'.sent = outcome.sent + 1
      /\ outcome'.heard = outcome.heard /\ outcome'.eaten = outcome.eaten
  BY <1>0, Counting DEF FrameSent, Outcomes
<1>3. radio # "none" /\ pc # "boot"
  BY ConfiguredIs DEF FrameSent, IInv, Untouched
<1>4. edges' \in Nat
  BY DEF FrameSent, Edge, IInv, Types
<1>5. radio' = radio /\ pc' = pc /\ irq' = irq
  BY DEF FrameSent, main
<1>6. outcome.sent \in Nat /\ outcome.ok \in Nat /\ outcome.heard \in Nat
  BY <1>0 DEF Outcomes
<1>7. Reported'
  BY <1>1, <1>2, <1>5, <1>6 DEF IInv, Reported, Pending
<1>8. Types' /\ Untouched' /\ Caught'
  BY <1>1, <1>2, <1>3, <1>4, <1>5 DEF IInv, Types, Untouched, Caught
<1>9. NoEdgeYet' /\ DeafUntilSending'
  BY <1>2, <1>5, <1>6 DEF IInv, NoEdgeYet, DeafUntilSending
<1>10. StandbyBetweenCalls' /\ InputLostOnlyWithoutRadio'
  BY <1>1, <1>2, <1>5 DEF IInv, StandbyBetweenCalls, InputLostOnlyWithoutRadio
<1> QED
  BY <1>7, <1>8, <1>9, <1>10 DEF IInv

LEMMA FrameArrivesKeeps == ASSUME IInv, FrameArrives PROVE IInv'
<1>0. IsRadio(chip) /\ outcome \in Outcomes
  BY DEF IInv, Types
<1>1. PICK e \in Errors : chip' = RxDone(chip, "frame", e)
  BY DEF FrameArrives
<1>2. /\ IsRadio(chip') /\ chip'.mode = "stdby"
      /\ "TX_DONE" \in chip'.flags <=> "TX_DONE" \in chip.flags
  BY <1>0, <1>1, RadioOperations, RadioModes DEF Errors
<1>3. /\ outcome' \in Outcomes /\ outcome'.ok = outcome.ok
      /\ outcome'.sent = outcome.sent
      /\ outcome'.heard = outcome.heard /\ outcome'.eaten = outcome.eaten
  BY <1>0, Counting DEF FrameArrives, Outcomes
<1>4. radio # "none" /\ pc \in InPiRecv /\ pc # "boot"
  BY ConfiguredIs DEF FrameArrives, IInv, Untouched, StandbyBetweenCalls, InPiRecv
<1>5. edges' \in Nat /\ radio' = radio /\ pc' = pc /\ irq' = irq /\ ready' = ready
  BY DEF FrameArrives, Edge, IInv, Types, main
<1>7. Reported'
  BY <1>2, <1>3, <1>5 DEF IInv, Reported, Pending
<1>8. Types' /\ Untouched' /\ Caught'
  BY <1>2, <1>3, <1>4, <1>5 DEF IInv, Types, Untouched, Caught
<1>9. NoEdgeYet' /\ DeafUntilSending'
  BY <1>3, <1>4, <1>5 DEF IInv, NoEdgeYet, DeafUntilSending
<1>10. StandbyBetweenCalls' /\ InputLostOnlyWithoutRadio'
  BY <1>2, <1>3, <1>5 DEF IInv, StandbyBetweenCalls, InputLostOnlyWithoutRadio
<1> QED
  BY <1>7, <1>8, <1>9, <1>10 DEF IInv

\* A signal may move the thread from waiting to clearing, with nothing read.
LEMMA OutsideKeeps == ASSUME IInv, TimePasses \/ Type \/ Signal PROVE IInv'
<1>1. /\ chip' = chip /\ edges' = edges /\ irq' = irq /\ radio' = radio
      /\ ready' = ready /\ outcome' = outcome
  BY DEF TimePasses, Type, Signal, driver, main
<1>2. \/ pc' = pc
      \/ pc = "wait" /\ pc' = "clear"
  <2>1. CASE TimePasses \/ Type
    BY <2>1 DEF TimePasses, Type
  <2>2. CASE Signal
    BY <2>2 DEF Signal
  <2> QED
    BY <2>1, <2>2
<1>3. Types' /\ Untouched' /\ Caught' /\ NoEdgeYet'
  BY <1>1, <1>2 DEF IInv, Types, Untouched, Caught, NoEdgeYet, InPiRecv, IsRadio
<1>4. Reported'
  BY <1>1, <1>2 DEF IInv, Reported, Pending
<1>5. StandbyBetweenCalls' /\ DeafUntilSending' /\ InputLostOnlyWithoutRadio'
  BY <1>1, <1>2 DEF IInv, StandbyBetweenCalls, DeafUntilSending, InputLostOnlyWithoutRadio,
                    InPiSend, InPiRecv
<1> QED
  BY <1>3, <1>4, <1>5 DEF IInv

-----------------------------------------------------------------------------
(* The driver *)

LEMMA SendStartKeeps == ASSUME IInv, SendStart PROVE IInv'
<1> DEFINE c == SetMode(WriteFifo(SetMode(chip, "stdby"), call), "tx")
<1>1. IsRadio(c) /\ c.mode = "tx" /\ c.flags = chip.flags
  <2>1. IsRadio(SetMode(chip, "stdby")) /\ SetMode(chip, "stdby").flags = chip.flags
    BY RadioOperations DEF IInv, Types
  <2>2. /\ IsRadio(WriteFifo(SetMode(chip, "stdby"), call))
        /\ WriteFifo(SetMode(chip, "stdby"), call).flags = chip.flags
    BY <2>1, RadioOperations
  <2> QED
    BY <2>2, RadioOperations, RadioModes
<1>2. /\ IsRadio(chip')
      /\ radio = "none" => chip' = chip /\ chip = Configured
      /\ radio # "none" => chip' = c
  <2>1. Reg(c)
    BY DEF SendStart
  <2> HIDE DEF c
  <2> QED
    BY <1>1, <2>1, Writing DEF IInv
<1>3. /\ pc = "send" /\ pc' = "wait" /\ irq' = {} /\ radio' = radio /\ ready' = ready
      /\ edges' = edges /\ outcome' = outcome
  BY DEF SendStart, Goto, main
<1> HIDE DEF c
<1>4. chip'.flags = chip.flags
  BY <1>1, <1>2 DEF IInv, Types
<1>5. Types' /\ Untouched' /\ Caught' /\ NoEdgeYet'
  BY <1>2, <1>3 DEF IInv, Types, Untouched, Caught, NoEdgeYet, InPiRecv
<1>6. Reported'
  BY <1>3, <1>4 DEF IInv, Reported, Pending
<1>7. StandbyBetweenCalls' /\ DeafUntilSending' /\ InputLostOnlyWithoutRadio'
  BY <1>1, <1>2, <1>3, ConfiguredIs
  DEF IInv, StandbyBetweenCalls, DeafUntilSending, InputLostOnlyWithoutRadio, InPiSend, InPiRecv
<1> QED
  BY <1>5, <1>6, <1>7 DEF IInv

\* Reading an event, in either call, leaves the chip alone.
LEMMA DrainKeeps ==
  ASSUME IInv, HasData(DioFd(radio)), Drain,
         chip' = chip, irq' = irq, radio' = radio, ready' = ready,
         \/ pc = "wait" /\ pc' = "woken"
         \/ pc = "listen" /\ pc' = "caught"
  PROVE  IInv'
<1>1. /\ outcome' \in Outcomes
      /\ outcome'.ok = outcome.ok /\ outcome'.sent = outcome.sent
      /\ outcome'.heard = outcome.heard
      /\ \/ radio = "edges" /\ edges > 0 /\ edges' = edges - 1
            /\ outcome'.eaten = outcome.eaten
         \/ radio = "none" /\ edges' = edges
  BY Draining DEF IInv
<1>2. edges' \in Nat
  BY <1>1 DEF IInv, Types
<1>3. Types' /\ Untouched' /\ Caught'
  BY <1>1, <1>2 DEF IInv, Types, Untouched, Caught, IsRadio
<1>4. NoEdgeYet' /\ DeafUntilSending' /\ InputLostOnlyWithoutRadio'
  BY <1>1 DEF IInv, NoEdgeYet, DeafUntilSending, InputLostOnlyWithoutRadio, Types
<1>5. Reported'
  BY <1>1 DEF IInv, Reported, Pending
<1>6. StandbyBetweenCalls'
  BY DEF IInv, StandbyBetweenCalls, InPiSend, InPiRecv
<1> QED
  BY <1>3, <1>4, <1>5, <1>6 DEF IInv

\* Reading the flags: a TX_DONE read is still raised.
LEMMA ReadKeeps == ASSUME IInv, SendReads \/ RecvReads PROVE IInv'
<1>1. /\ irq' = Flags /\ chip' = chip /\ edges' = edges /\ outcome' = outcome
      /\ radio' = radio /\ ready' = ready
  BY DEF SendReads, RecvReads, Goto, main
<1>2. \/ pc \in {"wait", "woken"} /\ pc' = "clear"
      \/ pc = "caught" /\ pc' = "leave"
      \/ pc = "caught" /\ pc' = "ack" /\ Flags # {}
  BY DEF SendReads, RecvReads, Goto
<1>3. /\ "TX_DONE" \in Flags => "TX_DONE" \in chip.flags
      /\ Flags # {} => radio # "none"
  BY DEF Flags
<1>4. Types' /\ Untouched' /\ NoEdgeYet'
  BY <1>1, <1>2 DEF IInv, Types, Untouched, NoEdgeYet, InPiRecv, IsRadio
<1>5. Caught'
  BY <1>1, <1>2, <1>3 DEF IInv, Caught, Types, Radios
<1>6. Reported'
  BY <1>1, <1>2, <1>3 DEF IInv, Reported, Pending
<1>7. StandbyBetweenCalls' /\ DeafUntilSending' /\ InputLostOnlyWithoutRadio'
  BY <1>1, <1>2
  DEF IInv, StandbyBetweenCalls, DeafUntilSending, InputLostOnlyWithoutRadio, InPiSend, InPiRecv
<1> QED
  BY <1>4, <1>5, <1>6, <1>7 DEF IInv

\* The thread goes on without having looked at the radio.
LEMMA PassKeeps ==
  ASSUME IInv, SendTimesOut \/ (RecvLooks /\ ~HasData(DioFd(radio)))
  PROVE  IInv'
<1>1. /\ chip' = chip /\ edges' = edges /\ irq' = irq /\ outcome' = outcome
      /\ radio' = radio /\ ready' = ready
  BY DEF SendTimesOut, RecvLooks, Goto, main, driver
<1>2. \/ pc = "wait" /\ pc' = "clear"
      \/ pc = "listen" /\ pc' = "leave"
  BY DEF SendTimesOut, RecvLooks, Goto
<1>3. Types' /\ Untouched' /\ Caught' /\ NoEdgeYet'
  BY <1>1, <1>2 DEF IInv, Types, Untouched, Caught, NoEdgeYet, InPiRecv, IsRadio
<1>4. Reported'
  BY <1>1, <1>2 DEF IInv, Reported, Pending
<1>5. StandbyBetweenCalls' /\ DeafUntilSending' /\ InputLostOnlyWithoutRadio'
  BY <1>1, <1>2
  DEF IInv, StandbyBetweenCalls, DeafUntilSending, InputLostOnlyWithoutRadio, InPiSend, InPiRecv
<1> QED
  BY <1>3, <1>4, <1>5 DEF IInv

\* Clearing the flags: what was read as TX_DONE is pending in irq instead.
LEMMA SendClearsKeeps == ASSUME IInv, SendClears PROVE IInv'
<1>1. /\ pc = "clear" /\ pc' = "settle" /\ irq' = irq /\ edges' = edges /\ outcome' = outcome
      /\ radio' = radio /\ ready' = ready
  BY DEF SendClears, Goto, main
<1>2. /\ IsRadio(ClearFlags(chip)) /\ ClearFlags(chip).flags = {}
      /\ ClearFlags(chip).mode = chip.mode
  BY RadioOperations, RadioModes DEF IInv, Types
<1>3. /\ IsRadio(chip') /\ chip'.flags = {} /\ chip'.mode = chip.mode
      /\ radio = "none" => chip' = chip
  <2>1. Reg(ClearFlags(chip))
    BY DEF SendClears
  <2> QED
    BY <1>2, <2>1, Writing, ConfiguredIs DEF IInv
<1>4. Types' /\ Untouched' /\ Caught' /\ NoEdgeYet'
  BY <1>1, <1>3 DEF IInv, Types, Untouched, Caught, NoEdgeYet, InPiRecv
<1>5. Reported'
  BY <1>1, <1>3 DEF IInv, Reported, Pending, Types, Outcomes
<1>6. StandbyBetweenCalls' /\ DeafUntilSending' /\ InputLostOnlyWithoutRadio'
  BY <1>1, <1>3
  DEF IInv, StandbyBetweenCalls, DeafUntilSending, InputLostOnlyWithoutRadio, InPiSend, InPiRecv
<1> QED
  BY <1>4, <1>5, <1>6 DEF IInv

LEMMA SendReturnsKeeps == ASSUME IInv, SendReturns PROVE IInv'
<1>1. /\ pc = "settle" /\ pc' \in {"fallback", "sync"} /\ irq' = {} /\ edges' = edges
      /\ radio' = radio /\ ready' = ready
  BY DEF SendReturns, Goto, AfterSend, main
<1>2. /\ IsRadio(chip') /\ chip'.flags = chip.flags /\ chip'.mode = "stdby"
      /\ radio = "none" => chip' = chip
  <2>1. Reg(SetMode(chip, "stdby"))
    BY DEF SendReturns
  <2>2. /\ IsRadio(SetMode(chip, "stdby")) /\ SetMode(chip, "stdby").flags = chip.flags
        /\ SetMode(chip, "stdby").mode = "stdby"
    BY RadioOperations, RadioModes DEF IInv, Types
  <2> QED
    BY <2>1, <2>2, Writing, ConfiguredIs DEF IInv
<1>3. /\ outcome' \in Outcomes /\ outcome'.sent = outcome.sent
      /\ outcome'.heard = outcome.heard /\ outcome'.eaten = outcome.eaten
      /\ outcome'.ok = outcome.ok + (IF "TX_DONE" \in irq THEN 1 ELSE 0)
  <2>1. outcome \in Outcomes
    BY DEF IInv, Types
  <2>2. CASE "TX_DONE" \in irq
    BY <2>1, <2>2, Counting DEF SendReturns, Outcomes
  <2>3. CASE "TX_DONE" \notin irq
    BY <2>1, <2>3 DEF SendReturns, Outcomes
  <2> QED
    BY <2>2, <2>3
<1>4. Types' /\ Untouched' /\ Caught' /\ NoEdgeYet'
  BY <1>1, <1>2, <1>3 DEF IInv, Types, Untouched, Caught, NoEdgeYet, InPiRecv
<1>5. Reported'
  BY <1>1, <1>2, <1>3 DEF IInv, Reported, Pending, Types, Outcomes
<1>6. StandbyBetweenCalls' /\ DeafUntilSending' /\ InputLostOnlyWithoutRadio'
  BY <1>1, <1>2, <1>3
  DEF IInv, StandbyBetweenCalls, DeafUntilSending, InputLostOnlyWithoutRadio, InPiSend, InPiRecv
<1> QED
  BY <1>4, <1>5, <1>6 DEF IInv

LEMMA SendKeeps == ASSUME IInv, PiSend PROVE IInv'
<1>1. ASSUME SendWoken PROVE IInv'
  <2>1. /\ HasData(DioFd(radio)) /\ Drain /\ chip' = chip /\ irq' = irq /\ radio' = radio
        /\ ready' = ready /\ pc = "wait" /\ pc' = "woken"
    BY <1>1 DEF SendWoken, Goto, main
  <2> QED
    BY <2>1, DrainKeeps
<1> QED
  BY <1>1, SendStartKeeps, ReadKeeps, PassKeeps, SendClearsKeeps, SendReturnsKeeps DEF PiSend

LEMMA RecvStartKeeps == ASSUME IInv, RecvStart PROVE IInv'
<1>1. /\ pc = "recv" /\ pc' = "listen" /\ irq' = irq /\ edges' = edges /\ outcome' = outcome
      /\ radio' = radio /\ ready' = ready
  BY DEF RecvStart, Goto, main
<1>2. /\ IsRadio(chip') /\ chip'.flags = chip.flags /\ chip'.mode \in {"rx", "stdby"}
      /\ radio = "none" => chip' = chip
  <2>1. Reg(SetMode(chip, "rx"))
    BY DEF RecvStart
  <2>2. /\ IsRadio(SetMode(chip, "rx")) /\ SetMode(chip, "rx").flags = chip.flags
        /\ SetMode(chip, "rx").mode = "rx"
    BY RadioOperations, RadioModes DEF IInv, Types
  <2> QED
    BY <2>1, <2>2, Writing, ConfiguredIs DEF IInv
<1>3. Types' /\ Untouched' /\ Caught' /\ NoEdgeYet'
  BY <1>1, <1>2 DEF IInv, Types, Untouched, Caught, NoEdgeYet, InPiRecv
<1>4. Reported'
  BY <1>1, <1>2 DEF IInv, Reported, Pending
<1>5. StandbyBetweenCalls' /\ DeafUntilSending' /\ InputLostOnlyWithoutRadio'
  BY <1>1, <1>2
  DEF IInv, StandbyBetweenCalls, DeafUntilSending, InputLostOnlyWithoutRadio, InPiSend, InPiRecv
<1> QED
  BY <1>3, <1>4, <1>5 DEF IInv

\* The one step that hears a frame.
LEMMA RecvClearsKeeps == ASSUME IInv, RecvClears PROVE IInv'
<1>1. /\ pc = "ack" /\ pc' = "leave" /\ irq' = irq /\ edges' = edges
      /\ radio' = radio /\ ready' = ready
  BY DEF RecvClears, Goto, main
<1>2. /\ IsRadio(chip') /\ chip'.flags = {} /\ chip'.mode = chip.mode
      /\ radio = "none" => chip' = chip
  <2>1. Reg(ClearFlags(chip))
    BY DEF RecvClears
  <2>2. /\ IsRadio(ClearFlags(chip)) /\ ClearFlags(chip).flags = {}
        /\ ClearFlags(chip).mode = chip.mode
    BY RadioOperations, RadioModes DEF IInv, Types
  <2> QED
    BY <2>1, <2>2, Writing, ConfiguredIs DEF IInv
<1>3. /\ outcome' \in Outcomes /\ outcome'.sent = outcome.sent
      /\ outcome'.ok = outcome.ok /\ outcome'.eaten = outcome.eaten
  <2>1. outcome \in Outcomes
    BY DEF IInv, Types
  <2>2. CASE Count("heard")
    BY <2>1, <2>2, Counting DEF Outcomes
  <2>3. CASE outcome' = outcome
    BY <2>1, <2>3
  <2> QED
    BY <2>2, <2>3 DEF RecvClears
<1>4. radio = "edges" /\ outcome.sent > 0
  BY <1>1 DEF IInv, Caught, NoEdgeYet, InPiRecv, Types, Outcomes
<1>5. Types' /\ Untouched' /\ Caught' /\ NoEdgeYet'
  BY <1>1, <1>2, <1>3, <1>4 DEF IInv, Types, Untouched, Caught, NoEdgeYet, InPiRecv
<1>6. Reported'
  BY <1>1, <1>2, <1>3 DEF IInv, Reported, Pending, Types, Outcomes
<1>7. StandbyBetweenCalls' /\ DeafUntilSending' /\ InputLostOnlyWithoutRadio'
  BY <1>1, <1>2, <1>3, <1>4
  DEF IInv, StandbyBetweenCalls, DeafUntilSending, InputLostOnlyWithoutRadio, InPiSend, InPiRecv
<1> QED
  BY <1>5, <1>6, <1>7 DEF IInv

LEMMA RecvReturnsKeeps == ASSUME IInv, RecvReturns PROVE IInv'
<1>1. /\ pc = "leave" /\ pc' \in {"cli", "poll"} /\ irq' = {} /\ edges' = edges
      /\ radio' = radio /\ ready' = ready /\ outcome' = outcome
  BY DEF RecvReturns, Goto, main
<1>2. /\ IsRadio(chip') /\ chip'.flags = chip.flags /\ chip'.mode = "stdby"
      /\ radio = "none" => chip' = chip
  <2>1. Reg(SetMode(chip, "stdby"))
    BY DEF RecvReturns
  <2>2. /\ IsRadio(SetMode(chip, "stdby")) /\ SetMode(chip, "stdby").flags = chip.flags
        /\ SetMode(chip, "stdby").mode = "stdby"
    BY RadioOperations, RadioModes DEF IInv, Types
  <2> QED
    BY <2>1, <2>2, Writing, ConfiguredIs DEF IInv
<1>3. Types' /\ Untouched' /\ Caught' /\ NoEdgeYet'
  BY <1>1, <1>2 DEF IInv, Types, Untouched, Caught, NoEdgeYet, InPiRecv
<1>4. Reported'
  BY <1>1, <1>2 DEF IInv, Reported, Pending
<1>5. StandbyBetweenCalls' /\ DeafUntilSending' /\ InputLostOnlyWithoutRadio'
  BY <1>1, <1>2
  DEF IInv, StandbyBetweenCalls, DeafUntilSending, InputLostOnlyWithoutRadio, InPiSend, InPiRecv
<1> QED
  BY <1>3, <1>4, <1>5 DEF IInv

LEMMA RecvKeeps == ASSUME IInv, PiRecv PROVE IInv'
<1>1. ASSUME RecvLooks, HasData(DioFd(radio)) PROVE IInv'
  <2>1. /\ Drain /\ chip' = chip /\ irq' = irq /\ radio' = radio
        /\ ready' = ready /\ pc = "listen" /\ pc' = "caught"
    BY <1>1 DEF RecvLooks, Goto, main
  <2> QED
    BY <1>1, <2>1, DrainKeeps
<1> QED
  BY <1>1, RecvStartKeeps, ReadKeeps, PassKeeps, RecvClearsKeeps, RecvReturnsKeeps DEF PiRecv

-----------------------------------------------------------------------------
(* The event loop *)

\* A place of the loop where no call of the driver is under way
Between == {"boot", "crashed", "stopped", "poll", "tick", "send", "sync", "fallback", "cli",
            "edge"}

\* The loop touches neither the radio nor its file; it reads revents, and
\* enters pi_recv on them or when there is no file.
LEMMA MainKeeps ==
  ASSUME IInv, Boot \/ Poll \/ Tick \/ Broadcast \/ Fallback \/ Cli \/ OnEdge \/ Shutdown
  PROVE  IInv'
<1>1. chip' = chip /\ edges' = edges /\ irq' = irq /\ outcome' = outcome
  BY DEF Boot, Poll, PollUntil, Tick, Broadcast, Fallback, Cli, CliRead, OnEdge, Receive,
         Shutdown, Goto, driver
<1>2. /\ pc \in Between /\ pc' \in Between \cup {"recv"}
      /\ pc' # "boot"
      /\ pc' = "recv" => \/ pc = "edge" /\ "radio" \in ready
                         \/ radio = "polling"
  BY DEF Boot, Poll, PollUntil, Tick, Broadcast, Fallback, Cli, CliRead, OnEdge, Receive,
         Shutdown, Goto, Between, DioFd, IInv, Types, Radios
<1>3. /\ radio' \in Radios
      /\ radio' = radio \/ pc = "boot"
  <2>1. CASE Boot
    BY <2>1 DEF Boot, IInv, Types
  <2>2. CASE Poll \/ Tick \/ Broadcast \/ Fallback \/ Cli \/ OnEdge \/ Shutdown
    BY <2>2 DEF Poll, PollUntil, Tick, Broadcast, Fallback, Cli, CliRead, OnEdge, Receive,
                Shutdown, Goto, main, IInv, Types
  <2> QED
    BY <2>1, <2>2
<1>4. \/ ready' = ready
      \/ pc # "boot" /\ ("radio" \in ready' => HasData(DioFd(radio)))
  <2>1. CASE Poll
    BY <2>1 DEF Poll, PollUntil, Found
  <2>2. CASE Boot \/ Tick \/ Broadcast \/ Fallback \/ Cli \/ OnEdge \/ Shutdown
    BY <2>2 DEF Boot, Tick, Broadcast, Fallback, Cli, CliRead, OnEdge, Receive,
                Shutdown, Goto, main
  <2> QED
    BY <2>1, <2>2
<1>5. Types' /\ Untouched' /\ Caught'
  BY <1>1, <1>2, <1>3 DEF IInv, Types, Untouched, Caught, IsRadio, Between
<1>6. NoEdgeYet'
  <2> SUFFICES ASSUME radio' = "edges", outcome'.sent = 0
               PROVE  edges' = 0 /\ "radio" \notin ready' /\ pc' \notin InPiRecv \cup {"recv"}
    BY DEF NoEdgeYet
  <2>1. edges = 0 /\ "radio" \notin ready
    BY <1>1, <1>3 DEF IInv, NoEdgeYet, Untouched
  <2>2. ~HasData(DioFd(radio)) \/ pc = "boot"
    BY <1>3, <2>1 DEF HasData, DioFd
  <2> QED
    BY <1>1, <1>2, <1>3, <1>4, <2>1, <2>2 DEF Between, InPiRecv, IInv, Untouched
<1>7. Reported'
  BY <1>1, <1>2 DEF IInv, Reported, Pending, Between
<1>8. StandbyBetweenCalls' /\ DeafUntilSending' /\ InputLostOnlyWithoutRadio'
  BY <1>1, <1>2, <1>3
  DEF IInv, StandbyBetweenCalls, DeafUntilSending, InputLostOnlyWithoutRadio, InPiSend, InPiRecv,
      Between, Untouched, Nothing
<1> QED
  BY <1>5, <1>6, <1>7, <1>8 DEF IInv

LEMMA Initially == Init => IInv
<1> SUFFICES ASSUME Init PROVE IInv
  OBVIOUS
<1>1. Types /\ Untouched /\ NoEdgeYet /\ Caught
  BY ConfiguredIs DEF Init, Types, Untouched, NoEdgeYet, Caught, Outcomes, Nothing, Radios, InPiRecv
<1>2. Reported
  BY ConfiguredIs DEF Init, Reported, Pending, Nothing
<1>3. StandbyBetweenCalls /\ DeafUntilSending /\ InputLostOnlyWithoutRadio
  BY ConfiguredIs DEF Init, StandbyBetweenCalls, DeafUntilSending, InputLostOnlyWithoutRadio, Nothing
<1> QED
  BY <1>1, <1>2, <1>3 DEF IInv

LEMMA Inductive == IInv /\ [Next]_vars => IInv'
<1> SUFFICES ASSUME IInv, [Next]_vars PROVE IInv'
  OBVIOUS
<1>1. CASE Loop
  BY <1>1, MainKeeps, SendKeeps, RecvKeeps DEF Loop
<1>2. CASE TimePasses \/ Type \/ Signal
  BY <1>2, OutsideKeeps
<1>3. CASE FrameSent \/ FrameArrives
  BY <1>3, FrameSentKeeps, FrameArrivesKeeps
<1>4. CASE UNCHANGED vars
  <2>1. /\ chip' = chip /\ edges' = edges /\ irq' = irq /\ radio' = radio
        /\ ready' = ready /\ outcome' = outcome /\ pc' = pc
    BY <1>4 DEF vars, driver, main
  <2>2. Types' /\ Untouched' /\ Caught' /\ NoEdgeYet'
    BY <2>1 DEF IInv, Types, Untouched, Caught, NoEdgeYet, IsRadio
  <2>3. Reported'
    BY <2>1 DEF IInv, Reported, Pending
  <2> QED
    BY <2>1, <2>2, <2>3
    DEF IInv, StandbyBetweenCalls, DeafUntilSending, InputLostOnlyWithoutRadio
<1> QED
  BY <1>1, <1>2, <1>3, <1>4 DEF Next

\* The radio is in standby whenever main_pi.c is outside pi_send and pi_recv.
THEOREM RadioStandsBy == Spec => []StandbyBetweenCalls
<1>1. IInv => StandbyBetweenCalls
  BY DEF IInv
<1> QED
  BY <1>1, Initially, Inductive, PTL DEF Spec

\* A Pi hears nothing before its first frame is sent, and nothing ever without
\* edge events, whatever the timeouts and the traffic.
THEOREM NothingHeardFirst == Spec => []DeafUntilSending
<1>1. IInv => DeafUntilSending
  BY DEF IInv
<1> QED
  BY <1>1, Initially, Inductive, PTL DEF Spec

\* However late a TX_DONE comes, and whatever flags and edges it leaves, the
\* calls of pi_send that return a length are no more than the frames sent.
THEOREM ReportsBounded == Spec => []ReportsNoMoreThanSent
<1>1. IInv => ReportsNoMoreThanSent
  <2> SUFFICES ASSUME IInv PROVE ReportsNoMoreThanSent
    OBVIOUS
  <2>1. outcome.ok \in Nat /\ outcome.sent \in Nat
    BY DEF IInv, Types, Outcomes
  <2> QED
    BY <2>1 DEF IInv, Reported, Pending, ReportsNoMoreThanSent
<1> QED
  BY <1>1, Initially, Inductive, PTL DEF Spec

\* The driver reads the descriptor of the standard input only when pi_init has
\* failed.
THEOREM InputKept == Spec => []InputLostOnlyWithoutRadio
<1>1. IInv => InputLostOnlyWithoutRadio
  BY DEF IInv
<1> QED
  BY <1>1, Initially, Inductive, PTL DEF Spec

-----------------------------------------------------------------------------
(* The age of a time stamp *)

Sending == {"send"} \cup InPiSend

\* How far the clock has gone past t: by the send under way and, for the
\* broadcast, by the one of the tick before it.
Lag ==
  /\ pc = "tick" => clock = t
  /\ pc = "sync" => clock - t <= TxTimeout
  /\ pc \in Sending => \/ call = "bundle" /\ clock - t <= waited
                       \/ call = "sync" /\ clock - t <= TxTimeout + waited

\* What is on the air is what pi_send was called for.
OnAir == chip.mode = "tx" => chip.fifo = call

Times == /\ clock \in Nat /\ t \in Nat /\ waited \in 0 .. TxTimeout
         /\ pc \notin InPiSend => waited = 0

TimedInv == Times /\ Lag /\ OnAir /\ StampAge

\* Where the frame on the air comes from.
LEMMA AirKeeps == ASSUME IInv, TimedInv, [Next]_vars PROVE OnAir'
<1>0. IsRadio(chip)
  BY DEF IInv, Types
<1>1. CASE SendStart
  <2> DEFINE c == SetMode(WriteFifo(SetMode(chip, "stdby"), call), "tx")
  <2>1. IsRadio(c) /\ c.fifo = call
    <3>1. IsRadio(SetMode(chip, "stdby"))
      BY <1>0, RadioOperations
    <3>2. /\ IsRadio(WriteFifo(SetMode(chip, "stdby"), call))
          /\ WriteFifo(SetMode(chip, "stdby"), call).fifo = call
      BY <3>1, RadioOperations, RadioFrames
    <3> QED
      BY <3>2, RadioOperations, RadioFrames
  <2>2. Reg(c) /\ call' = call
    BY <1>1 DEF SendStart, Goto
  <2> HIDE DEF c
  <2> QED
    BY <2>1, <2>2, Writing, ConfiguredIs DEF IInv, OnAir
<1>2. CASE SendClears \/ RecvClears
  <2>1. Reg(ClearFlags(chip)) /\ call' = call
    BY <1>2 DEF SendClears, RecvClears, Goto
  <2>2. /\ IsRadio(ClearFlags(chip)) /\ ClearFlags(chip).mode = chip.mode
        /\ ClearFlags(chip).fifo = chip.fifo
    BY <1>0, RadioOperations, RadioModes, RadioFrames
  <2> QED
    BY <2>1, <2>2, Writing DEF IInv, TimedInv, OnAir
<1>3. CASE SendReturns \/ RecvReturns \/ RecvStart
  <2>1. PICK m \in {"stdby", "rx"} : Reg(SetMode(chip, m))
    BY <1>3 DEF SendReturns, RecvReturns, RecvStart
  <2>2. IsRadio(SetMode(chip, m)) /\ SetMode(chip, m).mode = m
    BY <1>0, RadioOperations, RadioModes
  <2> QED
    BY <2>1, <2>2, Writing, ConfiguredIs DEF IInv, OnAir
<1>4. CASE FrameSent
  BY <1>0, <1>4, RadioModes DEF FrameSent, OnAir
<1>5. CASE FrameArrives
  <2>1. PICK e \in Errors : chip' = RxDone(chip, "frame", e)
    BY <1>5 DEF FrameArrives
  <2> QED
    BY <1>0, <2>1, RadioModes DEF OnAir
<1>6. CASE Boot \/ Poll \/ Tick \/ Broadcast \/ Fallback \/ Cli \/ OnEdge \/ Shutdown
  <2>1. chip' = chip /\ pc \in Between
    BY <1>6 DEF Boot, Poll, PollUntil, Tick, Broadcast, Fallback, Cli, CliRead, OnEdge,
                Receive, Shutdown, Goto, driver, Between
  <2>2. chip.mode # "tx"
    BY <2>1 DEF IInv, StandbyBetweenCalls, Between, InPiSend
  <2> QED
    BY <2>1, <2>2 DEF OnAir
<1>7. CASE SendWoken \/ SendReads \/ SendTimesOut \/ RecvLooks \/ RecvReads
  <2>1. chip' = chip /\ call' = call
    BY <1>7 DEF SendWoken, SendReads, SendTimesOut, RecvLooks, RecvReads, Goto, driver
  <2> QED
    BY <2>1 DEF TimedInv, OnAir
<1>8. CASE TimePasses \/ Type \/ Signal \/ UNCHANGED vars
  <2>1. chip' = chip /\ call' = call
    BY <1>8 DEF TimePasses, Type, Signal, vars, driver
  <2> QED
    BY <2>1 DEF TimedInv, OnAir
<1> QED
  BY <1>1, <1>2, <1>3, <1>4, <1>5, <1>6, <1>7, <1>8 DEF Next, Loop, PiSend, PiRecv

\* The clock and the wait move together, and a wait is at most TxTimeout.
LEMMA LagKeeps == ASSUME IInv, TimedInv, [Next]_vars PROVE Times' /\ Lag'
<1> USE TimesAssumption DEF Sending, InPiSend
<1>1. CASE SendStart
  <2>1. pc = "send" /\ pc' = "wait" /\ waited' = 0 /\ waited = 0
        /\ clock' = clock /\ t' = t /\ call' = call
    BY <1>1 DEF SendStart, Goto, main, TimedInv, Times
  <2> QED
    BY <2>1 DEF TimedInv, Times, Lag
<1>2. CASE SendReturns
  <2>1. pc = "settle" /\ waited' = 0 /\ clock' = clock /\ t' = t /\ call' = call
        /\ pc' = (IF call = "sync" THEN "fallback" ELSE "sync")
    BY <1>2 DEF SendReturns, Goto, main, AfterSend
  <2> QED
    BY <2>1 DEF TimedInv, Times, Lag
<1>3. CASE SendWoken \/ SendReads \/ SendTimesOut \/ SendClears \/ Signal
  <2>1. /\ waited' = waited /\ clock' = clock /\ t' = t /\ call' = call
        /\ \/ pc' = pc
           \/ pc \in InPiSend /\ pc' \in InPiSend
    <3>1. CASE Signal
      BY <1>3, <3>1 DEF Signal, driver
    <3>2. CASE SendWoken \/ SendReads \/ SendTimesOut \/ SendClears
      BY <1>3, <3>2 DEF SendWoken, SendReads, SendTimesOut, SendClears, Goto, main, driver
    <3> QED
      BY <1>3, <3>1, <3>2
  <2> QED
    BY <2>1 DEF TimedInv, Times, Lag
<1>4. CASE TimePasses
  <2>1. /\ pc = "wait" /\ pc' = pc /\ waited < TxTimeout /\ waited' = waited + 1
        /\ clock' = clock + 1 /\ t' = t /\ call' = call
    BY <1>4 DEF TimePasses, main
  <2> QED
    BY <2>1 DEF TimedInv, Times, Lag
<1>5. CASE Poll
  <2>1. /\ pc = "poll" /\ pc' \in {"tick", "cli"} /\ waited' = waited
        /\ clock' \in {clock, clock + 1} /\ t' = clock'
    BY <1>5 DEF Poll, PollUntil, driver
  <2>2. clock' \in Nat /\ t' \in Nat /\ clock' = t'
    BY <2>1 DEF TimedInv, Times
  <2>3. waited = 0 /\ waited' \in 0 .. TxTimeout
    BY <2>1 DEF TimedInv, Times
  <2> QED
    BY <2>1, <2>2, <2>3 DEF Times, Lag
<1>6. CASE Tick \/ Broadcast
  <2>1. /\ waited' = waited /\ clock' = clock /\ t' = t
        /\ \/ pc = "tick" /\ pc' = "sync"
           \/ pc = "tick" /\ pc' = "send" /\ call' = "bundle"
           \/ pc = "sync" /\ pc' = "send" /\ call' = "sync"
           \/ pc = "sync" /\ pc' = "fallback"
    BY <1>6 DEF Tick, Broadcast, driver, main
  <2> QED
    BY <2>1 DEF TimedInv, Times, Lag
<1>7. CASE Boot \/ Fallback \/ Cli \/ OnEdge \/ Shutdown \/ PiRecv
  <2>1. /\ waited' = waited /\ clock' = clock /\ t' = t
        /\ pc \notin Sending
        /\ pc' \notin Sending \cup {"tick", "sync"}
    <3>1. CASE Boot \/ Fallback \/ Cli \/ OnEdge \/ Shutdown
      BY <3>1 DEF Boot, Fallback, Cli, CliRead, OnEdge, Receive, Shutdown, Goto, driver, main
    <3>2. CASE PiRecv
      BY <3>2 DEF PiRecv, RecvStart, RecvLooks, RecvReads, RecvClears, RecvReturns, Goto, main
    <3> QED
      BY <1>7, <3>1, <3>2
  <2> QED
    BY <2>1 DEF TimedInv, Times, Lag
<1>8. CASE FrameSent \/ FrameArrives \/ Type \/ UNCHANGED vars
  <2>1. waited' = waited /\ clock' = clock /\ t' = t /\ call' = call /\ pc' = pc
    BY <1>8 DEF FrameSent, FrameArrives, Type, vars, driver, main
  <2> QED
    BY <2>1 DEF TimedInv, Times, Lag
<1> QED
  BY <1>1, <1>2, <1>3, <1>4, <1>5, <1>6, <1>7, <1>8 DEF Next, Loop, PiSend

LEMMA StampKeeps == ASSUME IInv, TimedInv, [Next]_vars PROVE StampAge'
<1>1. CASE FrameSent
  <2>1. /\ chip.mode = "tx" /\ pc \in InPiSend /\ chip.fifo = call
        /\ late' = IF call = "sync" THEN clock - t ELSE late
    BY <1>1 DEF FrameSent, IInv, StandbyBetweenCalls, TimedInv, OnAir
  <2>2. CASE call = "sync"
    <3>1. clock - t <= TxTimeout + waited
      BY <2>1, <2>2 DEF TimedInv, Lag, Sending
    <3>2. clock - t <= 2 * TxTimeout
      BY <3>1, TimesAssumption DEF TimedInv, Times
    <3> QED
      BY <2>1, <2>2, <3>2 DEF StampAge
  <2>3. CASE call # "sync"
    BY <2>1, <2>3 DEF TimedInv, StampAge
  <2> QED
    BY <2>2, <2>3
<1>2. CASE ~FrameSent
  <2>1. late' = late
    BY <1>2 DEF Next, Loop, PiSend, PiRecv, FrameArrives, TimePasses, Type, Signal, vars,
      SendStart, SendWoken, SendReads, SendTimesOut, SendClears, SendReturns,
      RecvStart, RecvLooks, RecvReads, RecvClears, RecvReturns, Goto,
      Boot, Poll, PollUntil, Tick, Broadcast, Fallback, Cli, CliRead, OnEdge, Receive, Shutdown
  <2> QED
    BY <2>1 DEF TimedInv, StampAge
<1> QED
  BY <1>1, <1>2

LEMMA TimedInitially == Init => TimedInv
BY TimesAssumption, ConfiguredIs
DEF Init, TimedInv, Times, Lag, OnAir, StampAge, Sending, InPiSend

LEMMA TimedInductive == IInv /\ TimedInv /\ [Next]_vars => TimedInv'
BY AirKeeps, LagKeeps, StampKeeps DEF TimedInv

\* A time-sync frame is at most two timeouts of pi_send older than its stamp
\* when its last byte leaves, for every timeout and period.
THEOREM StampsAge == Spec => []StampAge
<1>1. TimedInv => StampAge
  BY DEF TimedInv
<1> QED
  BY <1>1, Initially, Inductive, TimedInitially, TimedInductive, PTL DEF Spec

-----------------------------------------------------------------------------
(* The edges the kernel holds, and the types *)

\* A call of the driver takes one edge at most and adds one at most, when the
\* chip leaves the mode the call has put it into; only the one signal lets a
\* call pass without taking the edge it has waited for.
Allowance ==
  (IF running THEN 0 ELSE 1) + (IF pc \in {"wait", "listen"} THEN 1 ELSE 0)
  + (IF chip.mode = "stdby" THEN 1 ELSE 0)

EdgesBounded ==
  /\ edges <= Allowance
  /\ radio # "edges" => edges = 0

Chip == [mode : {"stdby", "tx", "rx"}, fifo : {"bundle", "sync", "frame", Mixed},
         flags : SUBSET {"TX_DONE", "RX_DONE", "CRC_ERR"}]

Values ==
  /\ chip \in Chip
  /\ input \in 0 .. MaxInput
  /\ irq \subseteq {"TX_DONE", "RX_DONE", "CRC_ERR"}
  /\ t <= clock
  /\ running \in BOOLEAN

\* Only a call of the driver leaves standby.
LEMMA EdgesKeep ==
  ASSUME IInv, Values, EdgesBounded, [Next]_vars
  PROVE  EdgesBounded'
<1>0. IsRadio(chip) /\ edges \in Nat /\ radio \in Radios
  BY DEF IInv, Types
<1>1. CASE FrameSent \/ FrameArrives
  <2>1. chip'.mode = "stdby" /\ chip.mode # "stdby"
    <3>1. CASE FrameSent
      BY <1>0, <3>1, RadioModes DEF FrameSent
    <3>2. CASE FrameArrives
      BY <1>0, <3>2, RadioModes DEF FrameArrives
    <3> QED
      BY <1>1, <3>1, <3>2
  <2>2. /\ pc' = pc /\ running' = running /\ radio' = radio
        /\ edges' = edges \/ (radio = "edges" /\ edges' = edges + 1)
    BY <1>1 DEF FrameSent, FrameArrives, Edge, main
  <2> QED
    BY <1>0, <2>1, <2>2 DEF EdgesBounded, Allowance
<1>2. CASE SendStart \/ RecvStart
  <2>1. /\ pc \in {"send", "recv"} /\ pc' \in {"wait", "listen"}
        /\ edges' = edges /\ running' = running /\ radio' = radio
    BY <1>2 DEF SendStart, RecvStart, Goto, main
  <2>2. chip.mode = "stdby"
    BY <2>1 DEF IInv, StandbyBetweenCalls, InPiSend, InPiRecv, Values, Chip
  <2> QED
    BY <1>0, <2>1, <2>2 DEF EdgesBounded, Allowance
<1>3. CASE HasData(DioFd(radio)) /\ (SendWoken \/ RecvLooks)
  <2>1. /\ pc \in {"wait", "listen"} /\ pc' \in {"woken", "caught"} /\ Drain
        /\ chip' = chip /\ running' = running /\ radio' = radio
    BY <1>3 DEF SendWoken, RecvLooks, Goto, main
  <2>2. \/ radio = "edges" /\ edges' = edges - 1
        \/ radio = "none" /\ edges' = edges
    BY <1>3, <2>1, Draining DEF IInv
  <2> QED
    BY <1>0, <2>1, <2>2 DEF EdgesBounded, Allowance
<1>4. CASE \/ SendTimesOut
           \/ ~HasData(DioFd(radio)) /\ RecvLooks
           \/ pc = "wait" /\ SendReads
  <2>1. edges' = edges /\ radio' = radio
    BY <1>4 DEF SendTimesOut, RecvLooks, SendReads, Goto, main, driver
  <2>2. radio = "edges" => HasData(DioFd(radio)) \/ edges = 0
    BY <1>0 DEF HasData, DioFd
  <2>3. radio = "edges" => ~HasData(DioFd(radio))
    BY <1>4 DEF SendTimesOut, SendReads, DioFd
  <2>4. edges' = 0
    BY <2>1, <2>2, <2>3 DEF EdgesBounded
  <2> QED
    BY <2>4 DEF EdgesBounded, Allowance
<1>5. CASE SendClears \/ RecvClears
  <2>1. /\ pc \notin {"wait", "listen"} /\ pc' \notin {"wait", "listen"} /\ Reg(ClearFlags(chip))
        /\ edges' = edges /\ running' = running /\ radio' = radio
    BY <1>5 DEF SendClears, RecvClears, Goto, main
  <2>2. IsRadio(ClearFlags(chip)) /\ ClearFlags(chip).mode = chip.mode
    BY <1>0, RadioOperations, RadioModes
  <2>3. chip'.mode = chip.mode
    BY <2>1, <2>2, Writing DEF IInv
  <2> QED
    BY <1>0, <2>1, <2>3 DEF EdgesBounded, Allowance
<1>6. CASE SendReturns \/ RecvReturns
  <2>1. /\ pc \notin {"wait", "listen"} /\ pc' \notin {"wait", "listen"}
        /\ Reg(SetMode(chip, "stdby"))
        /\ edges' = edges /\ running' = running /\ radio' = radio
    BY <1>6 DEF SendReturns, RecvReturns, AfterSend, Goto, main
  <2>2. IsRadio(SetMode(chip, "stdby")) /\ SetMode(chip, "stdby").mode = "stdby"
    BY <1>0, RadioOperations, RadioModes
  <2>3. chip'.mode = "stdby"
    BY <2>1, <2>2, Writing, ConfiguredIs DEF IInv
  <2> QED
    BY <1>0, <2>1, <2>3 DEF EdgesBounded, Allowance
<1>7. CASE RecvReads \/ (pc = "woken" /\ SendReads)
  <2>1. /\ pc \notin {"wait", "listen"} /\ pc' \notin {"wait", "listen"} /\ chip' = chip
        /\ edges' = edges /\ running' = running /\ radio' = radio
    BY <1>7 DEF SendReads, RecvReads, Goto, main
  <2> QED
    BY <1>0, <2>1 DEF EdgesBounded, Allowance
<1>8. CASE TimePasses \/ Type \/ UNCHANGED vars
  BY <1>8 DEF TimePasses, Type, vars, driver, main, EdgesBounded, Allowance
<1>9. CASE Signal
  <2>1. /\ running /\ ~running' /\ chip' = chip /\ edges' = edges /\ radio' = radio
        /\ pc' = pc \/ (pc = "wait" /\ pc' = "clear")
    BY <1>9 DEF Signal, driver
  <2> QED
    BY <1>0, <2>1 DEF EdgesBounded, Allowance
<1>10. CASE Boot \/ Poll \/ Tick \/ Broadcast \/ Fallback \/ Cli \/ OnEdge \/ Shutdown
  <2>1. /\ chip' = chip /\ edges' = edges
        /\ pc \notin {"wait", "listen"} /\ pc' \notin {"wait", "listen"}
    BY <1>10 DEF Boot, Poll, PollUntil, Tick, Broadcast, Fallback, Cli, CliRead, OnEdge,
                 Receive, Shutdown, Goto, driver
  <2>2. running' = running \/ ~running'
    BY <1>10 DEF Boot, Poll, PollUntil, Tick, Broadcast, Fallback, Cli, CliRead, OnEdge,
                 Receive, Shutdown, Goto, main
  <2>3. radio' = radio \/ edges = 0
    <3>1. CASE Boot
      BY <3>1 DEF Boot, IInv, Untouched
    <3>2. CASE Poll \/ Tick \/ Broadcast \/ Fallback \/ Cli \/ OnEdge \/ Shutdown
      BY <3>2 DEF Poll, PollUntil, Tick, Broadcast, Fallback, Cli, CliRead, OnEdge, Receive,
                  Shutdown, Goto, main
    <3> QED
      BY <1>10, <3>1, <3>2
  <2> QED
    BY <1>0, <2>1, <2>2, <2>3 DEF EdgesBounded, Allowance
<1>11. SendReads => pc \in {"wait", "woken"}
  BY DEF SendReads
<1>12. SendWoken => HasData(DioFd(radio))
  BY DEF SendWoken
<1> QED
  BY <1>1, <1>2, <1>3, <1>4, <1>5, <1>6, <1>7, <1>8, <1>9, <1>10, <1>11, <1>12
  DEF Next, Loop, PiSend, PiRecv

\* What the driver writes, and what the chip does, keep it a chip.
LEMMA ChipKeeps ==
  ASSUME IInv, TimedInv, Values, [Next]_vars
  PROVE  chip' \in Chip
<1>0. chip \in Chip /\ Configured \in Chip
  BY DEF Values, Chip, Configured
<1>1. /\ \A c \in Chip, m \in {"stdby", "tx", "rx"} : SetMode(c, m) \in Chip
      /\ \A c \in Chip, f \in {"bundle", "sync"} : WriteFifo(c, f) \in Chip
      /\ \A c \in Chip : ClearFlags(c) \in Chip
  BY DEF Chip, SetMode, WriteFifo, ClearFlags
<1>2. \A c \in Chip : Reg(c) => chip' \in Chip
  BY <1>0 DEF Reg
<1>3. CASE SendStart
  <2>1. call \in {"bundle", "sync"} /\ Reg(SetMode(WriteFifo(SetMode(chip, "stdby"), call), "tx"))
    BY <1>3 DEF SendStart, TimedInv, Lag, Sending
  <2>2. WriteFifo(SetMode(chip, "stdby"), call) \in Chip
    BY <1>0, <1>1, <2>1
  <2> QED
    BY <1>1, <1>2, <2>1, <2>2
<1>4. CASE SendClears \/ RecvClears \/ SendReturns \/ RecvReturns \/ RecvStart
  <2>1. Reg(ClearFlags(chip)) \/ Reg(SetMode(chip, "stdby")) \/ Reg(SetMode(chip, "rx"))
    BY <1>4 DEF SendClears, RecvClears, SendReturns, RecvReturns, RecvStart
  <2> QED
    BY <1>0, <1>1, <1>2, <2>1
<1>5. CASE FrameSent
  <2>1. chip.flags \cup {"TX_DONE"} \in SUBSET {"TX_DONE", "RX_DONE", "CRC_ERR"}
    BY <1>0 DEF Chip
  <2> QED
    BY <1>0, <1>5, <2>1 DEF FrameSent, TxDone, Chip
<1>6. CASE FrameArrives
  <2>1. PICK e \in Errors : chip' = RxDone(chip, "frame", e)
    BY <1>6 DEF FrameArrives
  <2>2. chip.flags \cup {"RX_DONE"} \cup e \in SUBSET {"TX_DONE", "RX_DONE", "CRC_ERR"}
    BY <1>0 DEF Chip, Errors
  <2> QED
    BY <2>1, <2>2 DEF RxDone, Chip
<1>7. CASE \/ Boot \/ Poll \/ Tick \/ Broadcast \/ Fallback \/ Cli \/ OnEdge \/ Shutdown
           \/ SendWoken \/ SendReads \/ SendTimesOut \/ RecvLooks \/ RecvReads
           \/ TimePasses \/ Type \/ Signal \/ UNCHANGED vars
  <2>1. chip' = chip
    BY <1>7 DEF Boot, Poll, PollUntil, Tick, Broadcast, Fallback, Cli, CliRead, OnEdge,
         Receive, Shutdown, SendWoken, SendReads, SendTimesOut, RecvLooks, RecvReads,
         TimePasses, Type, Signal, vars, Goto, driver
  <2> QED
    BY <1>0, <2>1
<1> QED
  BY <1>3, <1>4, <1>5, <1>6, <1>7 DEF Next, Loop, PiSend, PiRecv

\* The input goes down only where there is some to read: a poll of a moment ago
\* is not trusted, for the driver may have read since.
LEMMA ValuesKeep ==
  ASSUME IInv, TimedInv, Values, [Next]_vars
  PROVE  Values'
<1>1. chip' \in Chip
  BY ChipKeeps
<1>2. input' \in 0 .. MaxInput
  <2>1. \/ input' = input
        \/ input > 0 /\ input' = input - 1
        \/ input < MaxInput /\ input' = input + 1
    <3>1. CASE HasData(DioFd(radio)) /\ Drain
      BY <3>1 DEF Drain, HasData
    <3>2. CASE Cli \/ Type
      BY <3>2 DEF Cli, CliRead, Type
    <3>3. CASE \/ Boot \/ Poll \/ Tick \/ Broadcast \/ Fallback \/ OnEdge \/ Shutdown
               \/ SendStart \/ SendReads \/ SendTimesOut \/ SendClears \/ SendReturns
               \/ RecvStart \/ RecvReads \/ RecvClears \/ RecvReturns
               \/ (RecvLooks /\ ~HasData(DioFd(radio)))
               \/ TimePasses \/ Signal \/ FrameSent \/ FrameArrives \/ UNCHANGED vars
      BY <3>3 DEF Boot, Poll, PollUntil, Tick, Broadcast, Fallback, OnEdge, Receive, Shutdown,
           SendStart, SendReads, SendTimesOut, SendClears, SendReturns, RecvStart, RecvLooks,
           RecvReads, RecvClears, RecvReturns, TimePasses, Signal, FrameSent, FrameArrives, vars
    <3>4. /\ SendWoken => HasData(DioFd(radio)) /\ Drain
          /\ RecvLooks /\ HasData(DioFd(radio)) => Drain
      BY DEF SendWoken, RecvLooks
    <3> QED
      BY <3>1, <3>2, <3>3, <3>4 DEF Next, Loop, PiSend, PiRecv
  <2> QED
    BY <2>1, InputAssumption DEF Values
<1>3. irq' \subseteq {"TX_DONE", "RX_DONE", "CRC_ERR"}
  <2>1. irq' = irq \/ irq' = {} \/ irq' = Flags
    BY DEF Next, Loop, PiSend, PiRecv, FrameArrives, FrameSent, TimePasses, Type, Signal, vars,
      SendStart, SendWoken, SendReads, SendTimesOut, SendClears, SendReturns,
      RecvStart, RecvLooks, RecvReads, RecvClears, RecvReturns, Goto, driver,
      Boot, Poll, PollUntil, Tick, Broadcast, Fallback, Cli, CliRead, OnEdge, Receive, Shutdown
  <2> QED
    BY <2>1 DEF Values, Flags, Chip
<1>4. t' <= clock'
  <2>1. clock \in Nat /\ t \in Nat /\ t <= clock
    BY DEF TimedInv, Times, Values
  <2>2. CASE Poll
    BY <2>1, <2>2 DEF Poll, PollUntil
  <2>3. CASE ~Poll
    <3>1. t' = t /\ (clock' = clock \/ clock' = clock + 1)
      BY <2>3 DEF Next, Loop, PiSend, PiRecv, FrameArrives, FrameSent, TimePasses, Type, Signal,
        SendStart, SendWoken, SendReads, SendTimesOut, SendClears, SendReturns, vars, main,
        RecvStart, RecvLooks, RecvReads, RecvClears, RecvReturns, Goto,
        Boot, Tick, Broadcast, Fallback, Cli, CliRead, OnEdge, Receive, Shutdown
    <3> QED
      BY <2>1, <3>1
  <2> QED
    BY <2>2, <2>3
<1>5. running' \in BOOLEAN
  <2>1. running' = running \/ running' = FALSE
    BY DEF Next, Loop, PiSend, PiRecv, FrameArrives, FrameSent, TimePasses, Type, Signal, vars,
      SendStart, SendWoken, SendReads, SendTimesOut, SendClears, SendReturns, main,
      RecvStart, RecvLooks, RecvReads, RecvClears, RecvReturns, Goto,
      Boot, Poll, PollUntil, Tick, Broadcast, Fallback, Cli, CliRead, OnEdge, Receive, Shutdown
  <2> QED
    BY <2>1 DEF Values
<1> QED
  BY <1>1, <1>2, <1>3, <1>4, <1>5 DEF Values

\* The radio, the clock and the input are what main_pi.c declares them to be,
\* and the kernel never holds more than three edges of DIO0, however often the
\* chip raises the line: each call of the driver takes what it adds, but for
\* the one that a signal cuts short.
THEOREM TypeCorrect == Spec => []TypeOK
<1>1. Init => Values /\ EdgesBounded
  BY InputAssumption, ConfiguredIs
  DEF Init, Values, EdgesBounded, Allowance, Chip, Configured
<1>2. IInv /\ TimedInv /\ Values /\ EdgesBounded /\ [Next]_vars => Values' /\ EdgesBounded'
  BY EdgesKeep, ValuesKeep
<1>3. IInv /\ TimedInv /\ Values /\ EdgesBounded => TypeOK
  <2> SUFFICES ASSUME IInv, TimedInv, Values, EdgesBounded PROVE TypeOK
    OBVIOUS
  <2>1. edges \in 0 .. 3
    BY DEF IInv, Types, EdgesBounded, Allowance
  <2>2. clock \in Nat /\ t \in 0 .. clock /\ waited \in 0 .. TxTimeout
    BY DEF TimedInv, Times, Values
  <2> QED
    BY <2>1, <2>2 DEF IInv, Types, Values, Chip, TypeOK
<1> QED
  BY <1>1, <1>2, <1>3, Initially, Inductive, TimedInitially, TimedInductive, PTL DEF Spec

-----------------------------------------------------------------------------
(***************************************************************************)
(* The contact plan loader.                                                *)
(*                                                                         *)
(* ReadFrom, the folds in ReadContact and Load, and Written are recursive: *)
(* that each recursion has a solution is proved first, by induction over   *)
(* the set of numbers for which it has one, and what a solution is at a    *)
(* place follows from its equation.                                        *)
(***************************************************************************)

\* A set of natural numbers that is not empty has a least element.
LEMMA LeastNumber ==
  ASSUME NEW S \in SUBSET Nat, S # {}
  PROVE  \E m \in S : \A k \in S : m <= k
<1>1. PICK m \in S : \A k \in S : <<k, m>> \notin OpToRel(<, Nat)
  BY WFMin, NatLessThanWellFounded, Zenon
<1>2. \A k \in S : ~(k < m)
  BY <1>1, Zenon DEF OpToRel
<1> QED
  BY <1>2

\* What holds of 0 and passes on to the next number holds of every number.
LEMMA SetInduction ==
  ASSUME NEW S \in SUBSET Nat, 0 \in S, \A n \in Nat : n \in S => n + 1 \in S
  PROVE  \A n \in Nat : n \in S
<1> SUFFICES ASSUME Nat \ S # {}
             PROVE  FALSE
  OBVIOUS
<1>1. PICK m \in Nat \ S : \A k \in Nat \ S : m <= k
  BY LeastNumber
<1>2. m # 0 /\ m - 1 \in Nat /\ m - 1 \in S
  BY <1>1
<1>3. (m - 1) + 1 = m
  BY <1>2
<1> QED
  BY <1>1, <1>2, <1>3

-----------------------------------------------------------------------------
(* Searches *)

\* The least and the greatest element of a set of numbers.
LEMMA MinIs ==
  ASSUME NEW S \in SUBSET Nat, NEW x \in S, \A y \in S : x <= y
  PROVE  Min(S) = x
<1>1. \A z \in S : (\A y \in S : z =< y) => z = x
  OBVIOUS
<1> QED
  BY <1>1 DEF Min

LEMMA MaxIs ==
  ASSUME NEW S \in SUBSET Nat, NEW x \in S, \A y \in S : y <= x
  PROVE  Max(S) = x
<1>1. \A z \in S : (\A y \in S : z >= y) => z = x
  OBVIOUS
<1> QED
  BY <1>1 DEF Max

LEMMA MaxExists ==
  ASSUME NEW n \in Nat, NEW S \in SUBSET (0 .. n), S # {}
  PROVE  Max(S) \in S
<1> DEFINE T == {n - x : x \in S}
<1>1. T \in SUBSET Nat /\ T # {}
  <2>1. \A x \in S : n - x \in Nat
    OBVIOUS
  <2>2. PICK x : x \in S
    OBVIOUS
  <2>3. n - x \in T
    BY <2>2
  <2> QED
    BY <2>1, <2>3
<1>2. PICK m \in T : \A k \in T : m <= k
  BY <1>1, LeastNumber
<1>3. PICK x \in S : m = n - x
  BY <1>2
<1>4. \A y \in S : n - y \in T
  OBVIOUS
<1>5. \A y \in S : y <= x
  <2> TAKE y \in S
  <2>1. m <= n - y
    BY <1>2, <1>4
  <2> QED
    BY <1>3, <2>1
<1> QED
  BY <1>5, MaxIs

\* A key that stands where the search begins is found there.
LEMMA FoundHere ==
  ASSUME NEW file, Len(file) \in Nat, NEW p \in 1 .. Len(file), NEW key, file[p].key = key
  PROVE  FindKey(file, p, key) = p
<1> DEFINE hits == {i \in p .. Len(file) : file[i].key = key}
<1>1. hits \in SUBSET Nat /\ p \in hits /\ \A y \in hits : p <= y
  OBVIOUS
<1>2. Min(hits) = p /\ hits # {}
  <2> HIDE DEF hits
  <2> QED
    BY <1>1, MinIs
<1> QED
  BY <1>2 DEF FindKey

\* A key is found from the place on where the search begins, or not at all.
LEMMA FoundAhead ==
  ASSUME NEW file, Len(file) \in Nat, NEW p \in Nat, NEW key
  PROVE  /\ FindKey(file, p, key) \in Nat
         /\ FindKey(file, p, key) # NotFound =>
              FindKey(file, p, key) \in p .. Len(file)
<1> DEFINE hits == {i \in p .. Len(file) : file[i].key = key}
<1>1. CASE hits = {}
  BY <1>1 DEF FindKey, NotFound
<1>2. CASE hits # {}
  <2>1. hits \in SUBSET Nat /\ hits \subseteq p .. Len(file)
    OBVIOUS
  <2>2. PICK m \in hits : \A y \in hits : m <= y
    <3> HIDE DEF hits
    <3> QED
      BY <1>2, <2>1, LeastNumber
  <2>3. Min(hits) = m
    <3> HIDE DEF hits
    <3> QED
      BY <2>1, <2>2, MinIs
  <2>4. FindKey(file, p, key) = m
    BY <1>2, <2>3 DEF FindKey
  <2> QED
    BY <2>1, <2>2, <2>4
<1> QED
  BY <1>1, <1>2

\* A key that stands nowhere from the place on is not found.
LEMMA NotThere ==
  ASSUME NEW file, NEW p, NEW key, \A i \in p .. Len(file) : file[i].key # key
  PROVE  FindKey(file, p, key) = NotFound
BY DEF FindKey

-----------------------------------------------------------------------------
(* The numbers of a contact *)

IsStep(s) == s = [q |-> s.q, contact |-> s.contact] /\ s.q \in Nat \cup {Crash}

\* A number is read from a place further on, or the search ends in a crash.
LEMMA NumberAhead ==
  ASSUME NEW file, Len(file) \in Nat, NEW s, IsStep(s), NEW key
  PROVE  /\ IsStep(ReadNumber(file, s, key))
         /\ \/ ReadNumber(file, s, key).q = Crash
            \/ s.q # Crash /\ ReadNumber(file, s, key).q >= s.q
<1> DEFINE k == FindKey(file, s.q, key)
<1>1. CASE s.q = Crash
  BY <1>1 DEF ReadNumber, IsStep
<1>2. CASE s.q # Crash
  <2>1. s.q \in Nat
    BY <1>2 DEF IsStep
  <2>2. k \in Nat /\ (k # NotFound => k >= s.q)
    BY <2>1, FoundAhead
  <2> HIDE DEF k
  <2>3. \/ ReadNumber(file, s, key) = s
        \/ k # NotFound /\ ReadNumber(file, s, key) =
             [q |-> k + 1, contact |-> [s.contact EXCEPT ![Field(key)] = file[k].val]]
        \/ ReadNumber(file, s, key) = [s EXCEPT !.q = Crash]
    BY DEF ReadNumber, k
  <2>4. [s EXCEPT !.q = Crash] = [q |-> Crash, contact |-> s.contact]
    BY DEF IsStep
  <2> QED
    BY <1>2, <2>1, <2>2, <2>3, <2>4 DEF IsStep, Crash
<1> QED
  BY <1>1, <1>2

\* A number that stands at the place is read.
LEMMA NumberHere ==
  ASSUME NEW file, Len(file) \in Nat, NEW p \in 1 .. Len(file), NEW contact, NEW key,
         file[p].key = key, file[p].type = "number"
  PROVE  ReadNumber(file, [q |-> p, contact |-> contact], key)
           = [q |-> p + 1, contact |-> [contact EXCEPT ![Field(key)] = file[p].val]]
<1>1. FindKey(file, p, key) = p
  BY FoundHere
<1> QED
  BY <1>1 DEF ReadNumber, Crash, NotFound

\* The greatest of the first k numbers is k.
LEMMA FirstNumbers ==
  ASSUME NEW k \in Nat \ {0}
  PROVE  /\ Max(1 .. k) = k /\ (1 .. k) \ {k} = 1 .. (k - 1)
         /\ 1 .. k # {}
<1>1. 1 .. k \in SUBSET Nat /\ k \in 1 .. k /\ \A y \in 1 .. k : y <= k
  OBVIOUS
<1>2. Max(1 .. k) = k
  BY <1>1, MaxIs
<1> QED
  BY <1>1, <1>2

\* The recursion of a fold of ReadNumber over the first n keys.
IsRead(h, file, base, n) ==
  h = [s \in SUBSET (1 .. n) |->
         IF s = {} THEN base ELSE ReadNumber(file, h[s \ {Max(s)}], NumberKeys[Max(s)])]

LEMMA ReadExists ==
  ASSUME NEW file, NEW base
  PROVE  \A n \in Nat : \E h : IsRead(h, file, base, n)
<1> DEFINE S == {n \in Nat : \E h : IsRead(h, file, base, n)}
<1>1. 0 \in S
  <2> DEFINE g == [s \in SUBSET (1 .. 0) |-> base]
  <2>1. \A s \in SUBSET (1 .. 0) : s = {}
    OBVIOUS
  <2>2. IsRead(g, file, base, 0)
    BY <2>1 DEF IsRead
  <2> QED
    BY <2>2
<1>2. ASSUME NEW n \in Nat, n \in S PROVE n + 1 \in S
  <2>1. PICK h : IsRead(h, file, base, n)
    BY <1>2
  <2>2. \A s \in SUBSET (1 .. n) :
          h[s] = IF s = {} THEN base ELSE ReadNumber(file, h[s \ {Max(s)}], NumberKeys[Max(s)])
    BY <2>1 DEF IsRead
  <2> DEFINE m == n + 1
             g == [s \in SUBSET (1 .. m) |->
                     IF m \in s THEN ReadNumber(file, h[s \ {m}], NumberKeys[m]) ELSE h[s]]
             Rec(s) == IF s = {} THEN base
                       ELSE ReadNumber(file, g[s \ {Max(s)}], NumberKeys[Max(s)])
  <2>3. \A s \in SUBSET (1 .. m) : m \notin s => s \in SUBSET (1 .. n) /\ g[s] = h[s]
    OBVIOUS
  <2>4. ASSUME NEW s \in SUBSET (1 .. m) PROVE g[s] = Rec(s)
    <3>1. CASE m \in s
      <4>1. s \in SUBSET Nat /\ \A y \in s : y <= m
        OBVIOUS
      <4>2. Max(s) = m
        BY <3>1, <4>1, MaxIs
      <4>3. g[s \ {m}] = h[s \ {m}]
        BY <2>3
      <4>4. g[s] = ReadNumber(file, h[s \ {m}], NumberKeys[m])
        BY <3>1
      <4> QED
        BY <3>1, <4>2, <4>3, <4>4
    <3>2. CASE m \notin s
      <4>1. s \in SUBSET (1 .. n) /\ g[s] = h[s]
        BY <2>3, <3>2
      <4>2. CASE s # {}
        <5>1. s \ {Max(s)} \in SUBSET (1 .. n)
          BY <4>1
        <5>2. g[s \ {Max(s)}] = h[s \ {Max(s)}]
          BY <2>3, <3>2, <5>1
        <5> HIDE DEF g
        <5> QED
          BY <2>2, <4>1, <4>2, <5>2
      <4>3. CASE s = {}
        BY <2>2, <4>1, <4>3
      <4> QED
        BY <4>2, <4>3
    <3> QED
      BY <3>1, <3>2
  <2>5. g = [s \in SUBSET (1 .. m) |-> g[s]]
    OBVIOUS
  <2>6. IsRead(g, file, base, m)
    <3> HIDE DEF g
    <3> QED
      BY <2>4, <2>5 DEF IsRead
  <2> QED
    BY <2>6
<1> QED
  <2>1. S \in SUBSET Nat
    OBVIOUS
  <2> HIDE DEF S
  <2>2. \A n \in Nat : n \in S
    BY <1>1, <1>2, <2>1, SetInduction
  <2> QED
    BY <2>2 DEF S

\* ReadContact reads the numbers one after the other.
LEMMA ReadsInOrder ==
  ASSUME NEW file, NEW q, NEW frm, NEW to
  PROVE  LET s0 == [q |-> q, contact |-> NewContact(frm, to)]
             s1 == ReadNumber(file, s0, "t_start")
             s2 == ReadNumber(file, s1, "t_end")
             s3 == ReadNumber(file, s2, "rate")
             s4 == ReadNumber(file, s3, "owlt")
             s5 == ReadNumber(file, s4, "conf")
         IN  ReadContact(file, q, frm, to) = ReadNumber(file, s5, "ber")
<1> DEFINE base == [q |-> q, contact |-> NewContact(frm, to)]
           h == CHOOSE g : IsRead(g, file, base, 6)
<1>1. DOMAIN NumberKeys = 1 .. 6
  BY DEF NumberKeys
<1>2. ReadContact(file, q, frm, to) = h[1 .. 6]
  BY <1>1 DEF ReadContact, FoldLeft, MapThenFoldSet, IsRead
<1>3. IsRead(h, file, base, 6)
  BY ReadExists
<1> HIDE DEF h
<1>4. h[{}] = base
  BY <1>3 DEF IsRead
<1>5. ASSUME NEW k \in 1 .. 6
      PROVE  h[1 .. k] = ReadNumber(file, h[1 .. (k - 1)], NumberKeys[k])
  <2>1. Max(1 .. k) = k /\ (1 .. k) \ {k} = 1 .. (k - 1) /\ 1 .. k # {}
    BY FirstNumbers
  <2>2. 1 .. k \in SUBSET (1 .. 6)
    OBVIOUS
  <2> QED
    BY <1>3, <2>1, <2>2 DEF IsRead
<1>6. 1 .. 0 = {}
  OBVIOUS
<1>7. /\ NumberKeys[1] = "t_start" /\ NumberKeys[2] = "t_end" /\ NumberKeys[3] = "rate"
      /\ NumberKeys[4] = "owlt" /\ NumberKeys[5] = "conf" /\ NumberKeys[6] = "ber"
  BY DEF NumberKeys
<1> DEFINE s0 == base
           s1 == ReadNumber(file, s0, "t_start")
           s2 == ReadNumber(file, s1, "t_end")
           s3 == ReadNumber(file, s2, "rate")
           s4 == ReadNumber(file, s3, "owlt")
           s5 == ReadNumber(file, s4, "conf")
<1>8. h[1 .. 1] = s1
  BY <1>4, <1>5, <1>6, <1>7
<1> HIDE DEF s1
<1>9. h[1 .. 2] = s2
  BY <1>8, <1>5, <1>7
<1> HIDE DEF s2
<1>10. h[1 .. 3] = s3
  BY <1>9, <1>5, <1>7
<1> HIDE DEF s3
<1>11. h[1 .. 4] = s4
  BY <1>10, <1>5, <1>7
<1> HIDE DEF s4
<1>12. h[1 .. 5] = s5
  BY <1>11, <1>5, <1>7
<1> HIDE DEF s5
<1>13. h[1 .. 6] = ReadNumber(file, s5, "ber")
  BY <1>12, <1>5, <1>7
<1> QED
  BY <1>2, <1>13 DEF s1, s2, s3, s4, s5

\* The numbers are read from a place further on, or reading them is a crash.
LEMMA ContactAhead ==
  ASSUME NEW file, Len(file) \in Nat, NEW q \in Nat, NEW frm, NEW to
  PROVE  LET s == ReadContact(file, q, frm, to)
         IN  s.q = Crash \/ (s.q \in Nat /\ s.q >= q)
<1> DEFINE s0 == [q |-> q, contact |-> NewContact(frm, to)]
           s1 == ReadNumber(file, s0, "t_start")
           s2 == ReadNumber(file, s1, "t_end")
           s3 == ReadNumber(file, s2, "rate")
           s4 == ReadNumber(file, s3, "owlt")
           s5 == ReadNumber(file, s4, "conf")
           s6 == ReadNumber(file, s5, "ber")
           Behind(s) == IsStep(s) /\ (s.q = Crash \/ s.q >= q)
<1>0. Behind(s0)
  BY DEF IsStep
<1>1. ASSUME NEW s, Behind(s), NEW key
      PROVE  Behind(ReadNumber(file, s, key))
  BY <1>1, NumberAhead DEF IsStep, Crash
<1> HIDE DEF Behind
<1>2. Behind(s6)
  BY <1>0, <1>1
<1>3. ReadContact(file, q, frm, to) = s6
  BY ReadsInOrder
<1> HIDE DEF s6
<1>4. s6.q = Crash \/ (s6.q \in Nat /\ s6.q >= q)
  BY <1>2 DEF Behind, IsStep
<1> QED
  BY <1>3, <1>4

-----------------------------------------------------------------------------
(* The contacts of a file *)

\* What is read at a place depends only on what is read behind it.
LEMMA ReadAtLocal ==
  ASSUME NEW file, Len(file) \in Nat, NEW g, NEW h, NEW p \in Nat,
         \A r \in Nat : r > p => g[r] = h[r]
  PROVE  ReadAt(file, g, p) = ReadAt(file, h, p)
<1> DEFINE f == FindKey(file, p, "frm")
           k == FindKey(file, f + 1, "to")
           s == ReadContact(file, k + 1, file[f].val, file[k].val)
<1>1. f \in Nat /\ (f # NotFound => f >= p)
  BY FoundAhead
<1> HIDE DEF f
<1>2. k \in Nat /\ (k # NotFound => k >= f + 1)
  BY <1>1, FoundAhead
<1> HIDE DEF k
<1>3. s.q = Crash \/ (s.q \in Nat /\ s.q >= k + 1)
  BY <1>2, ContactAhead
<1> HIDE DEF s
<1>4. /\ f # NotFound => g[f + 1] = h[f + 1]
      /\ f # NotFound /\ k # NotFound => g[k + 1] = h[k + 1]
      /\ f # NotFound /\ k # NotFound /\ s.q # Crash => g[s.q] = h[s.q]
  BY <1>1, <1>2, <1>3
<1> QED
  BY <1>4 DEF ReadAt, f, k, s

\* Behind the end there is nothing to read.
LEMMA NothingBehind ==
  ASSUME NEW file, Len(file) \in Nat, NEW h, NEW p \in Nat, p > Len(file)
  PROVE  ReadAt(file, h, p) = Ended(FALSE)
<1>1. FindKey(file, p, "frm") = NotFound
  BY FoundAhead
<1> QED
  BY <1>1 DEF ReadAt

\* h solves the recursion of ReadFrom.
IsReading(h, file) == h = [p \in Nat |-> ReadAt(file, h, p)]

LEMMA ReadingExists ==
  ASSUME NEW file, Len(file) \in Nat
  PROVE  \E h : IsReading(h, file)
<1> DEFINE Upto(h, d) == \A p \in Nat : p + d > Len(file) => h[p] = ReadAt(file, h, p)
           S == {d \in Nat : \E h : Upto(h, d)}
<1>1. 0 \in S
  <2> DEFINE g == [p \in Nat |-> Ended(FALSE)]
  <2>1. \A p \in Nat : g[p] = Ended(FALSE)
    OBVIOUS
  <2> HIDE DEF g
  <2>2. ASSUME NEW p \in Nat, p + 0 > Len(file) PROVE g[p] = ReadAt(file, g, p)
    <3>1. p > Len(file)
      BY <2>2
    <3> QED
      BY <2>1, <3>1, NothingBehind
  <2>3. Upto(g, 0)
    BY <2>2
  <2> QED
    BY <2>3
<1>2. ASSUME NEW d \in Nat, d \in S PROVE d + 1 \in S
  <2>1. PICK h : Upto(h, d)
    BY <1>2
  <2> DEFINE m == Len(file) - d
             g == [p \in Nat |-> IF p = m THEN ReadAt(file, h, p) ELSE h[p]]
  <2>2. ASSUME NEW p \in Nat, p + (d + 1) > Len(file)
        PROVE  g[p] = ReadAt(file, g, p)
    <3>1. p >= m
      BY <2>2
    <3>2. \A r \in Nat : r > p => g[r] = h[r]
      BY <3>1
    <3>3. ReadAt(file, g, p) = ReadAt(file, h, p)
      <4> HIDE DEF g
      <4> QED
        BY <3>2, ReadAtLocal
    <3>4. CASE p = m
      BY <3>3, <3>4
    <3>5. CASE p # m
      <4>1. p + d > Len(file)
        BY <3>1, <3>5
      <4> QED
        BY <2>1, <3>3, <3>5, <4>1
    <3> QED
      BY <3>4, <3>5
  <2> HIDE DEF g
  <2>3. Upto(g, d + 1)
    BY <2>2
  <2> QED
    BY <2>3
<1>3. Len(file) + 1 \in S
  <2>1. S \in SUBSET Nat /\ Len(file) + 1 \in Nat
    OBVIOUS
  <2> HIDE DEF S
  <2> QED
    BY <1>1, <1>2, <2>1, SetInduction
<1>4. PICK h : Upto(h, Len(file) + 1)
  BY <1>3
<1>5. \A p \in Nat : h[p] = ReadAt(file, h, p)
  BY <1>4
<1> DEFINE g == [p \in Nat |-> h[p]]
<1>6. \A p \in Nat : g[p] = ReadAt(file, g, p)
  <2> TAKE p \in Nat
  <2>1. \A r \in Nat : r > p => g[r] = h[r]
    OBVIOUS
  <2>2. g[p] = h[p]
    OBVIOUS
  <2> HIDE DEF g
  <2>3. ReadAt(file, g, p) = ReadAt(file, h, p)
    BY <2>1, ReadAtLocal
  <2> QED
    BY <1>5, <2>2, <2>3
<1>7. g = [p \in Nat |-> g[p]]
  OBVIOUS
<1> HIDE DEF g
<1>8. IsReading(g, file)
  BY <1>6, <1>7 DEF IsReading
<1> QED
  BY <1>8

\* The solution ReadFrom takes: what is read from each place on.
Reading(file) == CHOOSE h : IsReading(h, file)

LEMMA ReadingIs ==
  ASSUME NEW file, Len(file) \in Nat
  PROVE  /\ \A p \in Nat : Reading(file)[p] = ReadAt(file, Reading(file), p)
         /\ ReadFrom(file) = Reading(file)[1]
<1>1. IsReading(Reading(file), file)
  BY ReadingExists DEF Reading
<1>2. ReadFrom(file) = Reading(file)[1]
  BY DEF ReadFrom, Reading, IsReading
<1>3. \A h : IsReading(h, file) => \A p \in Nat : h[p] = ReadAt(file, h, p)
  BY DEF IsReading
<1> QED
  BY <1>1, <1>2, <1>3

\* What is read is a sequence of contacts.
LEMMA ReadingType ==
  ASSUME NEW file, Len(file) \in Nat
  PROVE  \E K : \A p \in Nat : Reading(file)[p] \in [crash : BOOLEAN, contacts : Seq(K)]
<1> DEFINE R == Reading(file)
           Vals == {file[i].val : i \in Nat}
           K == {ReadContact(file, q, frm, to).contact : q \in Nat, frm \in Vals, to \in Vals}
           T == [crash : BOOLEAN, contacts : Seq(K)]
           S == {d \in Nat : \A p \in Nat : p + d > Len(file) => R[p] \in T}
<1>1. \A crash \in BOOLEAN : Ended(crash) \in T
  BY DEF Ended
<1> HIDE DEF T
<1>2. 0 \in S
  <2>1. ASSUME NEW p \in Nat, p + 0 > Len(file) PROVE R[p] \in T
    <3>1. R[p] = ReadAt(file, R, p)
      BY ReadingIs
    <3> HIDE DEF R
    <3>2. p > Len(file)
      BY <2>1
    <3>3. ReadAt(file, R, p) = Ended(FALSE)
      BY <3>2, NothingBehind
    <3> QED
      BY <1>1, <3>1, <3>3
  <2> HIDE DEF R
  <2> QED
    BY <2>1
<1>3. ASSUME NEW d \in Nat, d \in S PROVE d + 1 \in S
  <2>1. ASSUME NEW p \in Nat, p + (d + 1) > Len(file) PROVE R[p] \in T
    <3> DEFINE f == FindKey(file, p, "frm")
               k == FindKey(file, f + 1, "to")
               s == ReadContact(file, k + 1, file[f].val, file[k].val)
    <3>0. R[p] = ReadAt(file, R, p)
      BY ReadingIs
    <3>1. f \in Nat /\ (f # NotFound => f >= p)
      BY FoundAhead
    <3>2. k \in Nat /\ (k # NotFound => k >= f + 1)
      <4> HIDE DEF f
      <4> QED
        BY <3>1, FoundAhead
    <3>3. s.q = Crash \/ (s.q \in Nat /\ s.q >= k + 1)
      <4> HIDE DEF f, k
      <4> QED
        BY <3>2, ContactAhead
    <3>4. s.contact \in K
      <4> HIDE DEF f, k
      <4> QED
        BY <3>1, <3>2
    <3> HIDE DEF f, k, s, K, R
    <3>5. \A r \in Nat : r > p => R[r] \in T
      BY <1>3, <2>1
    <3>6. \A q \in Nat : R[q] \in T =>
            [R[q] EXCEPT !.contacts = <<s.contact>> \o @] \in T
      <4> TAKE q \in Nat
      <4> HAVE R[q] \in T
      <4>1. R[q].contacts \in Seq(K) /\ R[q].crash \in BOOLEAN
        BY DEF T
      <4>2. <<s.contact>> \o R[q].contacts \in Seq(K)
        BY <3>4, <4>1
      <4> QED
        BY <4>1, <4>2 DEF T
    <3>7. /\ f # NotFound => R[f + 1] \in T
          /\ f # NotFound /\ k # NotFound => R[k + 1] \in T
          /\ f # NotFound /\ k # NotFound /\ s.q # Crash => s.q \in Nat /\ R[s.q] \in T
      BY <3>1, <3>2, <3>3, <3>5
    <3>8. R[p] = IF f = NotFound \/ file[f].type = "cut" THEN Ended(FALSE)
                 ELSE IF file[f].type # "string" THEN R[f + 1]
                 ELSE IF k = NotFound THEN Ended(FALSE)
                 ELSE IF file[k].type = "cut" THEN Ended(TRUE)
                 ELSE IF file[k].type # "string" THEN R[k + 1]
                 ELSE IF s.q = Crash THEN Ended(TRUE)
                 ELSE [R[s.q] EXCEPT !.contacts = <<s.contact>> \o @]
      BY <3>0 DEF ReadAt, f, k, s
    <3> QED
      BY <1>1, <3>6, <3>7, <3>8
  <2> HIDE DEF R
  <2> QED
    BY <2>1
<1>4. Len(file) + 1 \in S
  <2>1. S \in SUBSET Nat /\ Len(file) + 1 \in Nat
    OBVIOUS
  <2> HIDE DEF S
  <2> QED
    BY <1>2, <1>3, <2>1, SetInduction
<1>5. \A p \in Nat : R[p] \in T
  <2> HIDE DEF R
  <2> QED
    BY <1>4
<1> HIDE DEF K
<1> QED
  BY <1>5 DEF T

-----------------------------------------------------------------------------
(* A contact written whole *)

\* A contact as the loader makes it.
Loadable(c) == c \in ContactType /\ c.status = "up" /\ c.bytes_used = 0 /\ c.reserved = 0

\* The object of c stands in the file from place p on.
Stands(file, p, c) == \A j \in 1 .. 8 : file[p + (j - 1)] = Object(c)[j]

\* The entries of an object, one by one.
LEMMA ObjectEntries ==
  ASSUME NEW c
  PROVE  /\ Len(Object(c)) = 8 /\ Object(c) \in Seq({Object(c)[j] : j \in 1 .. 8})
         /\ Object(c)[1] = Entry("frm", "string", c.frm)
         /\ Object(c)[2] = Entry("to", "string", c.to)
         /\ Object(c)[3] = Entry("t_start", "number", c.t_start)
         /\ Object(c)[4] = Entry("t_end", "number", c.t_end)
         /\ Object(c)[5] = Entry("rate", "number", c.rate)
         /\ Object(c)[6] = Entry("owlt", "number", c.owlt)
         /\ Object(c)[7] = Entry("conf", "number", c.loss)
         /\ Object(c)[8] = Entry("ber", "number", c.max_size)
<1> DEFINE e1 == Entry("frm", "string", c.frm)
           e2 == Entry("to", "string", c.to)
           e3 == Entry("t_start", "number", c.t_start)
           e4 == Entry("t_end", "number", c.t_end)
           e5 == Entry("rate", "number", c.rate)
           e6 == Entry("owlt", "number", c.owlt)
           e7 == Entry("conf", "number", c.loss)
           e8 == Entry("ber", "number", c.max_size)
<1>1. Object(c) = <<e1, e2, e3, e4, e5, e6, e7, e8>>
  BY DEF Object
<1> HIDE DEF e1, e2, e3, e4, e5, e6, e7, e8
<1>2. /\ Len(Object(c)) = 8
      /\ Object(c)[1] = e1 /\ Object(c)[2] = e2 /\ Object(c)[3] = e3 /\ Object(c)[4] = e4
      /\ Object(c)[5] = e5 /\ Object(c)[6] = e6 /\ Object(c)[7] = e7 /\ Object(c)[8] = e8
  BY <1>1
<1>3. Object(c) \in Seq({Object(c)[j] : j \in 1 .. 8})
  <2> DEFINE E == {Object(c)[j] : j \in 1 .. 8}
  <2>1. /\ e1 \in E /\ e2 \in E /\ e3 \in E /\ e4 \in E
        /\ e5 \in E /\ e6 \in E /\ e7 \in E /\ e8 \in E
    BY <1>2
  <2> HIDE DEF E
  <2>2. Object(c) \in Seq(E)
    BY <1>1, <2>1
  <2> QED
    BY <2>2 DEF E
<1> QED
  BY <1>2, <1>3 DEF e1, e2, e3, e4, e5, e6, e7, e8

\* Such an object is read as the contact it was written from.
LEMMA ObjectRead ==
  ASSUME NEW file, Len(file) \in Nat, NEW p \in Nat \ {0}, p + 7 <= Len(file),
         NEW c, Loadable(c), Stands(file, p, c), NEW h
  PROVE  ReadAt(file, h, p) = [h[p + 8] EXCEPT !.contacts = <<c>> \o @]
<1>1. /\ file[p] = Entry("frm", "string", c.frm)
      /\ file[p + 1] = Entry("to", "string", c.to)
      /\ file[p + 2] = Entry("t_start", "number", c.t_start)
      /\ file[p + 3] = Entry("t_end", "number", c.t_end)
      /\ file[p + 4] = Entry("rate", "number", c.rate)
      /\ file[p + 5] = Entry("owlt", "number", c.owlt)
      /\ file[p + 6] = Entry("conf", "number", c.loss)
      /\ file[p + 7] = Entry("ber", "number", c.max_size)
  <2>1. \A j \in 1 .. 8 : file[p + (j - 1)] = Object(c)[j]
    BY DEF Stands
  <2>2. /\ file[p + (1 - 1)] = Object(c)[1] /\ file[p + (2 - 1)] = Object(c)[2]
        /\ file[p + (3 - 1)] = Object(c)[3] /\ file[p + (4 - 1)] = Object(c)[4]
        /\ file[p + (5 - 1)] = Object(c)[5] /\ file[p + (6 - 1)] = Object(c)[6]
        /\ file[p + (7 - 1)] = Object(c)[7] /\ file[p + (8 - 1)] = Object(c)[8]
    BY <2>1
  <2>3. /\ p + (1 - 1) = p     /\ p + (2 - 1) = p + 1 /\ p + (3 - 1) = p + 2
        /\ p + (4 - 1) = p + 3 /\ p + (5 - 1) = p + 4 /\ p + (6 - 1) = p + 5
        /\ p + (7 - 1) = p + 6 /\ p + (8 - 1) = p + 7
    OBVIOUS
  <2>4. /\ file[p] = Object(c)[1]     /\ file[p + 1] = Object(c)[2]
        /\ file[p + 2] = Object(c)[3] /\ file[p + 3] = Object(c)[4]
        /\ file[p + 4] = Object(c)[5] /\ file[p + 5] = Object(c)[6]
        /\ file[p + 6] = Object(c)[7] /\ file[p + 7] = Object(c)[8]
    BY <2>2, <2>3, Zenon
  <2> QED
    BY <2>4, ObjectEntries, Zenon
<1>2. FindKey(file, p, "frm") = p /\ FindKey(file, p + 1, "to") = p + 1
  <2>1. p \in 1 .. Len(file) /\ p + 1 \in 1 .. Len(file)
    OBVIOUS
  <2>2. file[p].key = "frm" /\ file[p + 1].key = "to"
    BY <1>1 DEF Entry
  <2> QED
    BY <2>1, <2>2, FoundHere
<1> DEFINE n == NewContact(c.frm, c.to)
           c1 == [n EXCEPT !["t_start"] = c.t_start]
           c2 == [c1 EXCEPT !["t_end"] = c.t_end]
           c3 == [c2 EXCEPT !["rate"] = c.rate]
           c4 == [c3 EXCEPT !["owlt"] = c.owlt]
           c5 == [c4 EXCEPT !["loss"] = c.loss]
           c6 == [c5 EXCEPT !["max_size"] = c.max_size]
           At(q, contact) == [q |-> q, contact |-> contact]
<1>3. /\ Field("t_start") = "t_start" /\ Field("t_end") = "t_end" /\ Field("rate") = "rate"
      /\ Field("owlt") = "owlt" /\ Field("conf") = "loss" /\ Field("ber") = "max_size"
  BY DEF Field
<1>4. c6 = c
  BY DEF Loadable, ContactType, NewContact
<1> HIDE DEF n, c1, c2, c3, c4, c5, c6
<1>5. /\ ReadNumber(file, At(p + 2, n), "t_start") = At(p + 3, c1)
      /\ ReadNumber(file, At(p + 3, c1), "t_end") = At(p + 4, c2)
      /\ ReadNumber(file, At(p + 4, c2), "rate") = At(p + 5, c3)
      /\ ReadNumber(file, At(p + 5, c3), "owlt") = At(p + 6, c4)
      /\ ReadNumber(file, At(p + 6, c4), "conf") = At(p + 7, c5)
      /\ ReadNumber(file, At(p + 7, c5), "ber") = At(p + 8, c6)
  <2>1. ASSUME NEW i \in 2 .. 7, NEW contact, NEW key,
               file[p + i].key = key, file[p + i].type = "number"
        PROVE  ReadNumber(file, At(p + i, contact), key)
                 = At(p + i + 1, [contact EXCEPT ![Field(key)] = file[p + i].val])
    <3>1. p + i \in 1 .. Len(file)
      OBVIOUS
    <3> QED
      BY <2>1, <3>1, NumberHere
  <2> HIDE DEF At
  <2>2. ReadNumber(file, At(p + 2, n), "t_start") = At(p + 3, c1)
    BY <1>1, <1>3, <2>1 DEF c1, Entry
  <2>3. ReadNumber(file, At(p + 3, c1), "t_end") = At(p + 4, c2)
    BY <1>1, <1>3, <2>1 DEF c2, Entry
  <2>4. ReadNumber(file, At(p + 4, c2), "rate") = At(p + 5, c3)
    BY <1>1, <1>3, <2>1 DEF c3, Entry
  <2>5. ReadNumber(file, At(p + 5, c3), "owlt") = At(p + 6, c4)
    BY <1>1, <1>3, <2>1 DEF c4, Entry
  <2>6. ReadNumber(file, At(p + 6, c4), "conf") = At(p + 7, c5)
    BY <1>1, <1>3, <2>1 DEF c5, Entry
  <2>7. ReadNumber(file, At(p + 7, c5), "ber") = At(p + 8, c6)
    <3>1. /\ file[p + 7].key = "ber" /\ file[p + 7].type = "number"
          /\ file[p + 7].val = c.max_size /\ 7 \in 2 .. 7 /\ p + 7 + 1 = p + 8
      BY <1>1 DEF Entry
    <3>2. ReadNumber(file, At(p + 7, c5), "ber")
            = At(p + 7 + 1, [c5 EXCEPT ![Field("ber")] = file[p + 7].val])
      BY <2>1, <3>1
    <3> QED
      BY <1>3, <3>1, <3>2 DEF c6
  <2> QED
    BY <2>2, <2>3, <2>4, <2>5, <2>6, <2>7
<1>6. ReadContact(file, p + 2, c.frm, c.to) = At(p + 8, c)
  <2>1. At(p + 2, n) = [q |-> p + 2, contact |-> NewContact(c.frm, c.to)]
    BY DEF n
  <2> HIDE DEF At
  <2> QED
    BY <1>4, <1>5, <2>1, ReadsInOrder
<1>7. /\ file[p].type = "string" /\ file[p + 1].type = "string"
      /\ file[p].val = c.frm /\ file[p + 1].val = c.to /\ p # NotFound /\ p + 1 # NotFound
      /\ p + 8 # Crash /\ (p + 1) + 1 = p + 2
  BY <1>1 DEF Entry, NotFound, Crash
<1> DEFINE f == FindKey(file, p, "frm")
           k == FindKey(file, f + 1, "to")
           s == ReadContact(file, k + 1, file[f].val, file[k].val)
<1>8. f = p /\ k = p + 1 /\ s = At(p + 8, c)
  BY <1>2, <1>6, <1>7
<1>9. ReadAt(file, h, p) =
        IF f = NotFound \/ file[f].type = "cut" THEN Ended(FALSE)
        ELSE IF file[f].type # "string" THEN h[f + 1]
        ELSE IF k = NotFound THEN Ended(FALSE)
        ELSE IF file[k].type = "cut" THEN Ended(TRUE)
        ELSE IF file[k].type # "string" THEN h[k + 1]
        ELSE IF s.q = Crash THEN Ended(TRUE)
        ELSE [h[s.q] EXCEPT !.contacts = <<s.contact>> \o @]
  BY DEF ReadAt
<1> HIDE DEF f, k, s
<1> QED
  BY <1>7, <1>8, <1>9

-----------------------------------------------------------------------------
(* A plan written whole *)

\* h solves the recursion of FlattenSeq up to place n.
IsFlat(h, seqs, n) ==
  h = [i \in 1 .. n |-> IF i = 1 THEN seqs[i] ELSE h[i - 1] \o seqs[i]]

LEMMA FlatExists ==
  ASSUME NEW seqs
  PROVE  \A n \in Nat : \E h : IsFlat(h, seqs, n)
<1> DEFINE S == {n \in Nat : \E h : IsFlat(h, seqs, n)}
<1>1. 0 \in S
  <2> DEFINE g == [i \in 1 .. 0 |-> seqs[i]]
  <2>1. IsFlat(g, seqs, 0)
    <3>1. \A i \in 1 .. 0 : FALSE
      OBVIOUS
    <3> QED
      BY <3>1 DEF IsFlat
  <2> QED
    BY <2>1
<1>2. ASSUME NEW n \in Nat, n \in S PROVE n + 1 \in S
  <2>1. PICK h : IsFlat(h, seqs, n)
    BY <1>2
  <2>2. \A i \in 1 .. n : h[i] = IF i = 1 THEN seqs[i] ELSE h[i - 1] \o seqs[i]
    BY <2>1 DEF IsFlat
  <2> DEFINE m == n + 1
             Appended == IF m = 1 THEN seqs[m] ELSE h[m - 1] \o seqs[m]
             g == [i \in 1 .. m |-> IF i = m THEN Appended ELSE h[i]]
  <2>3. ASSUME NEW i \in 1 .. m
        PROVE  g[i] = IF i = 1 THEN seqs[i] ELSE g[i - 1] \o seqs[i]
    <3>1. g[i] = IF i = m THEN Appended ELSE h[i]
      OBVIOUS
    <3>2. i # 1 => g[i - 1] = h[i - 1]
      OBVIOUS
    <3>3. i # m => i \in 1 .. n
      OBVIOUS
    <3> HIDE DEF g
    <3>4. CASE i = m
      BY <3>1, <3>2, <3>4
    <3>5. CASE i # m
      BY <2>2, <3>1, <3>2, <3>3, <3>5
    <3> QED
      BY <3>4, <3>5
  <2>4. g = [i \in 1 .. m |-> g[i]]
    OBVIOUS
  <2>5. IsFlat(g, seqs, m)
    <3> HIDE DEF g
    <3> QED
      BY <2>3, <2>4 DEF IsFlat
  <2> QED
    BY <2>5
<1> QED
  <2>1. S \in SUBSET Nat
    OBVIOUS
  <2> HIDE DEF S
  <2>2. \A n \in Nat : n \in S
    BY <1>1, <1>2, <2>1, SetInduction
  <2> QED
    BY <2>2 DEF S

\* A concatenation, place by place.
LEMMA Concatenation ==
  ASSUME NEW D, NEW a \in Seq(D), NEW b \in Seq(D)
  PROVE  /\ a \o b \in Seq(D) /\ Len(a \o b) = Len(a) + Len(b)
         /\ \A k \in 1 .. Len(a) : (a \o b)[k] = a[k]
         /\ \A k \in 1 .. Len(b) : (a \o b)[Len(a) + k] = b[k]
OBVIOUS

LEMMA HeadIs ==
  ASSUME NEW D, NEW a \in Seq(D), NEW n \in 0 .. Len(a)
  PROVE  /\ SubSeq(a, 1, n) \in Seq(D) /\ Len(SubSeq(a, 1, n)) = n
         /\ \A k \in 1 .. n : SubSeq(a, 1, n)[k] = a[k]
OBVIOUS

\* A written plan is its objects one after the other, eight entries each.
LEMMA WrittenIs ==
  ASSUME NEW plan, Len(plan) \in Nat, DOMAIN plan = 1 .. Len(plan), NEW D,
         \A i \in 1 .. Len(plan) : Object(plan[i]) \in Seq(D)
  PROVE  /\ Written(plan) \in Seq(D)
         /\ Len(Written(plan)) = 8 * Len(plan)
         /\ \A i \in 1 .. Len(plan) : \A j \in 1 .. 8 :
              Written(plan)[8 * (i - 1) + j] = Object(plan[i])[j]
<1> DEFINE n == Len(plan)
           seqs == [i \in DOMAIN plan |-> Object(plan[i])]
           h == CHOOSE g : IsFlat(g, seqs, n)
<1>1. \A i \in 1 .. n : seqs[i] = Object(plan[i]) /\ seqs[i] \in Seq(D) /\ Len(seqs[i]) = 8
  BY ObjectEntries
<1>2. seqs \in Seq(Seq(D)) /\ Len(seqs) = n
  <2>1. seqs \in [1 .. n -> Seq(D)]
    OBVIOUS
  <2> HIDE DEF seqs
  <2> QED
    BY <2>1
<1>3. Written(plan) = IF n = 0 THEN seqs ELSE h[n]
  <2>1. Written(plan) = FlattenSeq(seqs)
    BY DEF Written
  <2> HIDE DEF seqs
  <2>2. FlattenSeq(seqs) = IF Len(seqs) = 0 THEN seqs
                           ELSE (CHOOSE g : IsFlat(g, seqs, Len(seqs)))[Len(seqs)]
    BY DEF FlattenSeq, IsFlat
  <2> QED
    BY <1>2, <2>1, <2>2
<1>4. IsFlat(h, seqs, n)
  BY FlatExists
<1> HIDE DEF h, seqs
<1>5. \A i \in 1 .. n : h[i] = IF i = 1 THEN seqs[i] ELSE h[i - 1] \o seqs[i]
  BY <1>4 DEF IsFlat
<1> DEFINE Flat(m) == /\ h[m] \in Seq(D) /\ Len(h[m]) = 8 * m
                      /\ \A i \in 1 .. m : \A j \in 1 .. 8 : h[m][8 * (i - 1) + j] = seqs[i][j]
           S == {m \in Nat : m \in 1 .. n => Flat(m)}
<1>6. 0 \in S
  OBVIOUS
<1>7. ASSUME NEW m \in Nat, m \in S PROVE m + 1 \in S
  <2>1. CASE m + 1 \in 1 .. n
    <3>1. CASE m = 0
      <4>1. h[1] = seqs[1]
        BY <1>5, <2>1, <3>1
      <4>2. \A i \in 1 .. 1 : \A j \in 1 .. 8 : h[1][8 * (i - 1) + j] = seqs[i][j]
        <5> TAKE i \in 1 .. 1
        <5> TAKE j \in 1 .. 8
        <5>1. i = 1 /\ 8 * (i - 1) + j = j
          OBVIOUS
        <5> QED
          BY <4>1, <5>1
      <4> QED
        BY <1>1, <2>1, <3>1, <4>1, <4>2
    <3>2. CASE m # 0
      <4> DEFINE a == h[m]
                 b == seqs[m + 1]
      <4>1. Flat(m)
        BY <1>7, <2>1, <3>2
      <4>2. b \in Seq(D) /\ Len(b) = 8
        BY <1>1, <2>1
      <4>3. h[m + 1] = a \o b
        <5>1. h[m + 1] = h[(m + 1) - 1] \o seqs[m + 1]
          <6>1. m + 1 # 1
            BY <3>2
          <6> HIDE DEF n
          <6> QED
            BY <1>5, <2>1, <6>1
        <5>2. (m + 1) - 1 = m
          OBVIOUS
        <5> QED
          BY <5>1, <5>2
      <4>4. a \in Seq(D) /\ Len(a) = 8 * m
        BY <4>1
      <4> HIDE DEF a, b
      <4>5. /\ a \o b \in Seq(D) /\ Len(a \o b) = 8 * (m + 1)
            /\ \A k \in 1 .. 8 * m : (a \o b)[k] = a[k]
            /\ \A k \in 1 .. 8 : (a \o b)[8 * m + k] = b[k]
        <5>1. 8 * m + 8 = 8 * (m + 1)
          OBVIOUS
        <5>2. /\ a \o b \in Seq(D) /\ Len(a \o b) = Len(a) + Len(b)
              /\ \A k \in 1 .. Len(a) : (a \o b)[k] = a[k]
              /\ \A k \in 1 .. Len(b) : (a \o b)[Len(a) + k] = b[k]
          <6>1. a \in Seq(D) /\ b \in Seq(D)
            BY <4>2, <4>4
          <6> QED
            BY <6>1, Concatenation
        <5> QED
          BY <4>2, <4>4, <5>1, <5>2
      <4>6. ASSUME NEW i \in 1 .. m + 1, NEW j \in 1 .. 8
            PROVE  (a \o b)[8 * (i - 1) + j] = seqs[i][j]
        <5>1. CASE i = m + 1
          <6>1. 8 * (i - 1) + j = 8 * m + j
            BY <5>1
          <6> QED
            BY <4>5, <5>1, <6>1 DEF b
        <5>2. CASE i # m + 1
          <6>1. i \in 1 .. m /\ 8 * (i - 1) + j \in 1 .. 8 * m
            BY <5>2
          <6> QED
            BY <4>1, <4>5, <6>1 DEF a
        <5> QED
          BY <5>1, <5>2
      <4>7. Flat(m + 1)
        BY <4>3, <4>5, <4>6
      <4> QED
        BY <4>7
    <3> QED
      BY <3>1, <3>2
  <2>2. CASE m + 1 \notin 1 .. n
    BY <2>2
  <2> QED
    BY <2>1, <2>2
<1>8. n \in S
  <2>1. S \in SUBSET Nat /\ n \in Nat
    OBVIOUS
  <2> HIDE DEF S, n
  <2> QED
    BY <1>6, <1>7, <2>1, SetInduction
<1>9. CASE n = 0
  <2>1. seqs = <<>>
    BY <1>2, <1>9
  <2> QED
    BY <1>3, <1>9, <2>1
<1>10. CASE n # 0
  <2>1. Flat(n)
    BY <1>8, <1>10
  <2> QED
    BY <1>1, <1>3, <1>10, <2>1
<1> QED
  BY <1>9, <1>10

-----------------------------------------------------------------------------
(* The plan that is kept *)

\* The recursion of a fold of PlanAdd over the first n contacts.  The argument is
\* that of ReadExists, which cannot be stated for an operator yet to be given.
IsAdded(h, cs, n) ==
  h = [s \in SUBSET (1 .. n) |->
         IF s = {} THEN <<>> ELSE PlanAdd(h[s \ {Max(s)}], cs[Max(s)])]

LEMMA AddExists ==
  ASSUME NEW cs
  PROVE  \A n \in Nat : \E h : IsAdded(h, cs, n)
<1> DEFINE S == {n \in Nat : \E h : IsAdded(h, cs, n)}
<1>1. 0 \in S
  <2> DEFINE g == [s \in SUBSET (1 .. 0) |-> <<>>]
  <2>1. \A s \in SUBSET (1 .. 0) : s = {}
    OBVIOUS
  <2>2. IsAdded(g, cs, 0)
    BY <2>1 DEF IsAdded
  <2> QED
    BY <2>2
<1>2. ASSUME NEW n \in Nat, n \in S PROVE n + 1 \in S
  <2>1. PICK h : IsAdded(h, cs, n)
    BY <1>2
  <2>2. \A s \in SUBSET (1 .. n) :
          h[s] = IF s = {} THEN <<>> ELSE PlanAdd(h[s \ {Max(s)}], cs[Max(s)])
    BY <2>1 DEF IsAdded
  <2> DEFINE m == n + 1
             g == [s \in SUBSET (1 .. m) |->
                     IF m \in s THEN PlanAdd(h[s \ {m}], cs[m]) ELSE h[s]]
             Rec(s) == IF s = {} THEN <<>>
                       ELSE PlanAdd(g[s \ {Max(s)}], cs[Max(s)])
  <2>3. \A s \in SUBSET (1 .. m) : m \notin s => s \in SUBSET (1 .. n) /\ g[s] = h[s]
    OBVIOUS
  <2>4. ASSUME NEW s \in SUBSET (1 .. m) PROVE g[s] = Rec(s)
    <3>1. CASE m \in s
      <4>1. s \in SUBSET Nat /\ \A y \in s : y <= m
        OBVIOUS
      <4>2. Max(s) = m
        BY <3>1, <4>1, MaxIs
      <4>3. g[s \ {m}] = h[s \ {m}]
        BY <2>3
      <4>4. g[s] = PlanAdd(h[s \ {m}], cs[m])
        BY <3>1
      <4> QED
        BY <3>1, <4>2, <4>3, <4>4
    <3>2. CASE m \notin s
      <4>1. s \in SUBSET (1 .. n) /\ g[s] = h[s]
        BY <2>3, <3>2
      <4>2. CASE s # {}
        <5>1. s \ {Max(s)} \in SUBSET (1 .. n)
          BY <4>1
        <5>2. g[s \ {Max(s)}] = h[s \ {Max(s)}]
          BY <2>3, <3>2, <5>1
        <5> HIDE DEF g
        <5> QED
          BY <2>2, <4>1, <4>2, <5>2
      <4>3. CASE s = {}
        BY <2>2, <4>1, <4>3
      <4> QED
        BY <4>2, <4>3
    <3> QED
      BY <3>1, <3>2
  <2>5. g = [s \in SUBSET (1 .. m) |-> g[s]]
    OBVIOUS
  <2>6. IsAdded(g, cs, m)
    <3> HIDE DEF g
    <3> QED
      BY <2>4, <2>5 DEF IsAdded
  <2> QED
    BY <2>6
<1> QED
  <2>1. S \in SUBSET Nat
    OBVIOUS
  <2> HIDE DEF S
  <2>2. \A n \in Nat : n \in S
    BY <1>1, <1>2, <2>1, SetInduction
  <2> QED
    BY <2>2 DEF S

\* Of the contacts read the plan keeps as many as it has place for.
LEMMA KeptIs ==
  ASSUME NEW K, NEW cs \in Seq(K)
  PROVE  LET kept == FoldLeft(PlanAdd, <<>>, cs)
         IN  /\ kept \in Seq(K)
             /\ Len(kept) = IF Len(cs) > PlanMax THEN PlanMax ELSE Len(cs)
             /\ \A i \in 1 .. Len(kept) : kept[i] = cs[i]
<1> DEFINE n == Len(cs)
           h == CHOOSE g : IsAdded(g, cs, n)
           Size(m) == IF m > PlanMax THEN PlanMax ELSE m
           Kept(m) == /\ h[1 .. m] \in Seq(K) /\ Len(h[1 .. m]) = Size(m)
                      /\ \A i \in 1 .. Size(m) : h[1 .. m][i] = cs[i]
           S == {m \in Nat : m <= n => Kept(m)}
<1>1. n \in Nat /\ DOMAIN cs = 1 .. n
  OBVIOUS
<1>2. FoldLeft(PlanAdd, <<>>, cs) = h[1 .. n]
  BY <1>1 DEF FoldLeft, MapThenFoldSet, IsAdded
<1>3. IsAdded(h, cs, n)
  BY <1>1, AddExists
<1> HIDE DEF h
<1>4. PlanMax \in Nat
  BY DEF PlanMax
<1>5. 0 \in S
  <2>1. 1 .. 0 = {} /\ {} \in SUBSET (1 .. n)
    OBVIOUS
  <2>2. h[1 .. 0] = <<>>
    <3>1. h[{}] = <<>>
      BY <1>3, <2>1 DEF IsAdded
    <3> QED
      BY <2>1, <3>1
  <2>3. Size(0) = 0
    BY <1>4
  <2>4. Kept(0)
    BY <2>2, <2>3
  <2> QED
    BY <2>4
<1>6. ASSUME NEW m \in Nat, m \in S PROVE m + 1 \in S
  <2>1. ASSUME m + 1 <= n PROVE Kept(m + 1)
    <3> DEFINE a == h[1 .. m]
               k == m + 1
    <3>1. a \in Seq(K) /\ Len(a) = Size(m) /\ \A i \in 1 .. Size(m) : a[i] = cs[i]
      BY <1>1, <1>6, <2>1
    <3>2. Max(1 .. k) = k /\ (1 .. k) \ {k} = 1 .. (k - 1) /\ 1 .. k # {}
      BY FirstNumbers
    <3>3. 1 .. k \in SUBSET (1 .. n) /\ k - 1 = m
      BY <1>1, <2>1
    <3>4. h[1 .. k] = PlanAdd(h[1 .. (k - 1)], cs[k])
      BY <1>3, <3>2, <3>3 DEF IsAdded
    <3>5. h[1 .. k] = PlanAdd(a, cs[k])
      BY <3>3, <3>4
    <3>6. cs[k] \in K
      BY <1>1, <2>1
    <3> HIDE DEF a
    <3>7. CASE m < PlanMax
      <4>1. h[1 .. k] = Append(a, cs[k])
        BY <1>4, <3>1, <3>5, <3>7 DEF PlanAdd
      <4>2. Size(m) = m /\ Size(k) = k
        BY <1>4, <3>7
      <4>3. /\ Append(a, cs[k]) \in Seq(K) /\ Len(Append(a, cs[k])) = k
            /\ \A i \in 1 .. m : Append(a, cs[k])[i] = a[i]
            /\ Append(a, cs[k])[k] = cs[k]
        BY <3>1, <3>6, <4>2
      <4>4. \A i \in 1 .. k : Append(a, cs[k])[i] = cs[i]
        BY <3>1, <4>2, <4>3
      <4> QED
        BY <4>1, <4>2, <4>3, <4>4
    <3>8. CASE ~(m < PlanMax)
      <4>1. Size(m) = PlanMax /\ Size(k) = PlanMax
        BY <1>4, <3>8
      <4>2. h[1 .. k] = a
        BY <1>4, <3>1, <3>5, <4>1 DEF PlanAdd
      <4> QED
        BY <3>1, <4>1, <4>2
    <3> QED
      BY <3>7, <3>8
  <2> QED
    BY <2>1
<1>7. n \in S
  <2>1. S \in SUBSET Nat
    OBVIOUS
  <2> HIDE DEF S, n
  <2> QED
    BY <1>1, <1>5, <1>6, <2>1, SetInduction
<1>8. Kept(n)
  BY <1>1, <1>7
<1> QED
  BY <1>1, <1>2, <1>8

-----------------------------------------------------------------------------
(* The file as a whole *)

\* the first m contacts of the plan, up to its size
Kept(plan, m) == SubSeq(plan, 1, IF m > PlanMax THEN PlanMax ELSE m)

\* Contacts read one after the other come before what is read behind them.
InTurn(R, plan, n, K) ==
  /\ \A p \in Nat : R[p] \in [crash : BOOLEAN, contacts : Seq(K)]
  /\ \A i \in 1 .. n : plan[i] \in K
  /\ \A i \in 1 .. n :
       R[8 * (i - 1) + 1] = [R[8 * i + 1] EXCEPT !.contacts = <<plan[i]>> \o @]

LEMMA ReadInTurn ==
  ASSUME NEW R, NEW plan, NEW n \in Nat, NEW K, InTurn(R, plan, n, K)
  PROVE  /\ R[1].crash = R[8 * n + 1].crash
         /\ Len(R[1].contacts) = n + Len(R[8 * n + 1].contacts)
         /\ \A j \in 1 .. n : R[1].contacts[j] = plan[j]
<1> DEFINE T == [crash : BOOLEAN, contacts : Seq(K)]
           z == R[8 * n + 1]
           l == Len(z.contacts)
           r(d) == R[8 * (n - d) + 1]
           From(d) == /\ r(d).crash = z.crash /\ Len(r(d).contacts) = d + l
                      /\ \A j \in 1 .. d : r(d).contacts[j] = plan[n - d + j]
           S == {d \in Nat : d <= n => From(d)}
<1>1. z \in T
  BY DEF InTurn
<1> HIDE DEF z, T
<1>2. l \in Nat
  BY <1>1 DEF T
<1> HIDE DEF l
<1>3. r(0) = z
  <2>1. 8 * (n - 0) + 1 = 8 * n + 1
    OBVIOUS
  <2> QED
    BY <2>1 DEF z
<1> HIDE DEF r
<1>4. 0 \in S
  <2>1. From(0)
    BY <1>2, <1>3 DEF l
  <2> HIDE DEF From
  <2> QED
    BY <2>1
<1>5. ASSUME NEW d \in Nat, d + 1 <= n, From(d) PROVE From(d + 1)
  <2> DEFINE i == n - d
             a == <<plan[i]>>
             b == r(d).contacts
  <2>1. /\ i \in 1 .. n /\ 8 * (i - 1) + 1 = 8 * (n - (d + 1)) + 1
        /\ 8 * (n - (d + 1)) + 1 \in Nat /\ 8 * (n - d) + 1 \in Nat
    BY <1>5
  <2>2. r(d + 1) = [r(d) EXCEPT !.contacts = <<plan[i]>> \o @]
    BY <2>1 DEF r, InTurn
  <2>3. r(d) \in T
    BY <2>1 DEF r, T, InTurn
  <2>4. a \in Seq(K) /\ Len(a) = 1 /\ a[1] = plan[i]
    BY <2>1 DEF InTurn
  <2>5. b \in Seq(K)
    BY <2>3 DEF T
  <2>6. r(d + 1).crash = r(d).crash /\ r(d + 1).contacts = a \o b
    BY <2>2, <2>3 DEF T
  <2>7. Len(b) = d + l /\ r(d).crash = z.crash
    BY <1>5
  <2>8. \A j \in 1 .. d : b[j] = plan[n - d + j]
    BY <1>5
  <2> HIDE DEF a, b, i
  <2>9. /\ a \o b \in Seq(K) /\ Len(a \o b) = Len(a) + Len(b)
        /\ \A k \in 1 .. Len(a) : (a \o b)[k] = a[k]
        /\ \A k \in 1 .. Len(b) : (a \o b)[Len(a) + k] = b[k]
    <3>1. a \in Seq(K) /\ b \in Seq(K)
      BY <2>4, <2>5
    <3> QED
      BY <3>1, Concatenation
  <2>10. Len(a \o b) = (d + 1) + l
    BY <1>2, <2>4, <2>7, <2>9
  <2>11. ASSUME NEW j \in 1 .. d + 1
         PROVE  (a \o b)[j] = plan[n - (d + 1) + j]
    <3>1. CASE j = 1
      <4>1. n - (d + 1) + j = i
        BY <3>1 DEF i
      <4> QED
        BY <2>4, <2>9, <3>1, <4>1
    <3>2. CASE j # 1
      <4>1. j - 1 \in 1 .. d /\ 1 + (j - 1) = j /\ n - d + (j - 1) = n - (d + 1) + j
        <5>1. j \in Nat /\ 2 <= j /\ j <= d + 1
          BY <3>2
        <5>2. j - 1 \in 1 .. d
          BY <5>1
        <5>3. 1 + (j - 1) = j
          BY <5>1
        <5>4. n - d + (j - 1) = n - (d + 1) + j
          BY <5>1
        <5> QED
          BY <5>2, <5>3, <5>4
      <4>2. j - 1 \in 1 .. Len(b)
        BY <1>2, <2>7, <4>1
      <4>3. (a \o b)[1 + (j - 1)] = b[j - 1]
        BY <2>4, <2>9, <4>2
      <4>4. b[j - 1] = plan[n - d + (j - 1)]
        BY <2>8, <4>1
      <4> QED
        BY <4>1, <4>3, <4>4
    <3> QED
      BY <3>1, <3>2
  <2> QED
    BY <2>6, <2>7, <2>10, <2>11
<1>6. From(n)
  <2> HIDE DEF From
  <2>1. \A d \in Nat : d \in S => d + 1 \in S
    BY <1>5
  <2>2. S \in SUBSET Nat
    OBVIOUS
  <2>3. n \in S
    <3> HIDE DEF S
    <3> QED
      BY <1>4, <2>1, <2>2, SetInduction
  <2> QED
    BY <2>3
<1>7. 8 * (n - n) + 1 = 1 /\ \A j \in 1 .. n : n - n + j = j
  OBVIOUS
<1>8. r(n) = R[1]
  BY <1>7 DEF r
<1> QED
  BY <1>6, <1>7, <1>8 DEF z, l

\* Where no further contact begins at most one is read.
LEMMA OneMore ==
  ASSUME NEW file, Len(file) \in Nat, NEW p \in Nat,
         \A i \in p + 1 .. Len(file) : file[i].key # "frm"
  PROVE  Len(Reading(file)[p].contacts) <= 1
<1> DEFINE R == Reading(file)
           f == FindKey(file, p, "frm")
           k == FindKey(file, f + 1, "to")
           s == ReadContact(file, k + 1, file[f].val, file[k].val)
<1>1. ASSUME NEW q \in Nat, q > p PROVE R[q] = Ended(FALSE)
  <2>1. FindKey(file, q, "frm") = NotFound
    BY <1>1, NotThere
  <2>2. ReadAt(file, R, q) = Ended(FALSE)
    BY <2>1 DEF ReadAt
  <2> QED
    BY <2>2, ReadingIs
<1>2. R[p] = ReadAt(file, R, p)
  BY ReadingIs
<1> HIDE DEF R
<1>3. f \in Nat /\ (f # NotFound => f >= p)
  BY FoundAhead
<1> HIDE DEF f
<1>4. k \in Nat /\ (k # NotFound => k >= f + 1)
  BY <1>3, FoundAhead
<1> HIDE DEF k
<1>5. s.q = Crash \/ (s.q \in Nat /\ s.q >= k + 1)
  BY <1>4, ContactAhead
<1> HIDE DEF s
<1>6. /\ f # NotFound => R[f + 1] = Ended(FALSE)
      /\ f # NotFound /\ k # NotFound => R[k + 1] = Ended(FALSE)
      /\ f # NotFound /\ k # NotFound /\ s.q # Crash => R[s.q] = Ended(FALSE)
  <2>1. \A q \in Nat : q > p => R[q] = Ended(FALSE)
    BY <1>1
  <2>2. f # NotFound => f + 1 \in Nat /\ f + 1 > p
    BY <1>3
  <2>3. f # NotFound /\ k # NotFound => k + 1 \in Nat /\ k + 1 > p
    BY <1>3, <1>4
  <2>4. f # NotFound /\ k # NotFound /\ s.q # Crash => s.q \in Nat /\ s.q > p
    BY <1>3, <1>4, <1>5
  <2> QED
    BY <2>1, <2>2, <2>3, <2>4
<1>7. R[p] = IF f = NotFound \/ file[f].type = "cut" THEN Ended(FALSE)
             ELSE IF file[f].type # "string" THEN R[f + 1]
             ELSE IF k = NotFound THEN Ended(FALSE)
             ELSE IF file[k].type = "cut" THEN Ended(TRUE)
             ELSE IF file[k].type # "string" THEN R[k + 1]
             ELSE IF s.q = Crash THEN Ended(TRUE)
             ELSE [R[s.q] EXCEPT !.contacts = <<s.contact>> \o @]
  BY <1>2 DEF ReadAt, f, k, s
<1> DEFINE one == [Ended(FALSE) EXCEPT !.contacts = <<s.contact>> \o @]
<1>8. Len(Ended(FALSE).contacts) = 0 /\ Len(Ended(TRUE).contacts) = 0
  BY DEF Ended
<1>9. Len(one.contacts) = 1
  <2>1. one.contacts = <<s.contact>> \o Ended(FALSE).contacts
    BY DEF Ended
  <2>2. Ended(FALSE).contacts \in Seq({s.contact})
    BY DEF Ended
  <2>3. <<s.contact>> \in Seq({s.contact}) /\ Len(<<s.contact>>) = 1
    OBVIOUS
  <2>4. Len(<<s.contact>> \o Ended(FALSE).contacts)
          = Len(<<s.contact>>) + Len(Ended(FALSE).contacts)
    <3> HIDE DEF Ended
    <3>1. <<s.contact>> \in Seq({s.contact})
      BY <2>3
    <3> QED
      BY <2>2, <3>1, Concatenation
  <2>5. Len(one.contacts) = 1 + 0
    BY <1>8, <2>1, <2>3, <2>4, Zenon
  <2>6. 1 + 0 = 1
    OBVIOUS
  <2> QED
    BY <2>5, <2>6, Zenon
<1>10. R[p] = Ended(FALSE) \/ R[p] = Ended(TRUE) \/ R[p] = one
  BY <1>6, <1>7
<1> HIDE DEF one
<1>11. Len(R[p].contacts) = 0 \/ Len(R[p].contacts) = 1
  BY <1>8, <1>9, <1>10, Zenon
<1>12. Len(R[p].contacts) <= 1
  <2>1. \A l : l = 0 \/ l = 1 => l <= 1
    OBVIOUS
  <2> QED
    BY <1>11, <2>1, Zenon
<1> QED
  BY <1>12 DEF R

\* Such an object is read before what is behind it.
LEMMA EntriesRead ==
  ASSUME NEW file, Len(file) \in Nat, NEW p \in Nat \ {0}, p + 7 <= Len(file),
         NEW c, Loadable(c), Stands(file, p, c)
  PROVE  Reading(file)[p] = [Reading(file)[p + 8] EXCEPT !.contacts = <<c>> \o @]
<1> DEFINE R == Reading(file)
<1>1. R[p] = ReadAt(file, R, p)
  BY ReadingIs
<1> HIDE DEF R
<1>2. ReadAt(file, R, p) = [R[p + 8] EXCEPT !.contacts = <<c>> \o @]
  BY ObjectRead
<1> QED
  BY <1>1, <1>2 DEF R

CanLoad(plan) == plan \in Seq(ContactType) /\ \A i \in DOMAIN plan : Loadable(plan[i])

\* The first n contacts of the plan stand at the start of the text.
StandsFirst(text, plan, n) ==
  8 * n <= Len(text) /\ \A i \in 1 .. n : Stands(text, 8 * (i - 1) + 1, plan[i])

\* Contacts that stand whole at the start of a text are read from it, before
\* anything that follows: nothing if the text ends with them, and one contact
\* if no other begins.
LEMMA WholeRead ==
  ASSUME NEW plan, CanLoad(plan), NEW n \in 0 .. Len(plan),
         NEW text, Len(text) \in Nat, StandsFirst(text, plan, n)
  PROVE  LET r == ReadFrom(text)
         IN  \E K : /\ r \in [crash : BOOLEAN, contacts : Seq(K)]
                    /\ Len(r.contacts) >= n
                    /\ \A j \in 1 .. n : r.contacts[j] = plan[j]
                    /\ Len(text) = 8 * n => r.crash = FALSE /\ Len(r.contacts) = n
                    /\ (\A k \in 8 * n + 2 .. Len(text) : text[k].key # "frm") =>
                         Len(r.contacts) <= n + 1
<1> DEFINE R == Reading(text)
<1>1. n \in Nat /\ Len(text) \in Nat /\ 8 * n + 1 \in Nat
  BY DEF CanLoad
<1>2. \A i \in 1 .. n : Loadable(plan[i]) /\ plan[i] \in ContactType
  BY DEF CanLoad
<1>3. ASSUME NEW i \in 1 .. n
      PROVE  R[8 * (i - 1) + 1] = [R[8 * i + 1] EXCEPT !.contacts = <<plan[i]>> \o @]
  <2> DEFINE p == 8 * (i - 1) + 1
  <2>1. 8 * n <= Len(text) /\ Stands(text, p, plan[i])
    BY DEF StandsFirst
  <2>2. p \in Nat \ {0} /\ p + 7 <= Len(text) /\ p + 8 = 8 * i + 1
    BY <1>1, <2>1
  <2> HIDE DEF p
  <2>3. Reading(text)[p] = [Reading(text)[p + 8] EXCEPT !.contacts = <<plan[i]>> \o @]
    <3>1. p \in Nat \ {0}
      BY <2>2
    <3>2. p + 7 <= Len(text)
      BY <2>2
    <3>3. Loadable(plan[i])
      BY <1>2
    <3> QED
      BY <2>1, <3>1, <3>2, <3>3, EntriesRead
  <2> QED
    BY <2>2, <2>3 DEF p
<1>4. PICK L : \A p \in Nat : R[p] \in [crash : BOOLEAN, contacts : Seq(L)]
  BY <1>1, ReadingType
<1> DEFINE K == L \cup ContactType
           T == [crash : BOOLEAN, contacts : Seq(K)]
<1>5. \A p \in Nat : R[p] \in T
  <2>1. L \subseteq K
    OBVIOUS
  <2> HIDE DEF K, R
  <2>2. Seq(L) \subseteq Seq(K)
    BY <2>1
  <2> QED
    BY <1>4, <2>2
<1>6. \A i \in 1 .. n : plan[i] \in K
  BY <1>2
<1> DEFINE z == R[8 * n + 1]
           r == R[1]
<1> HIDE DEF K, R
<1>7. /\ r.crash = z.crash /\ Len(r.contacts) = n + Len(z.contacts)
      /\ \A j \in 1 .. n : r.contacts[j] = plan[j]
  <2>1. InTurn(R, plan, n, K)
    <3>1. \A i \in 1 .. n :
            R[8 * (i - 1) + 1] = [R[8 * i + 1] EXCEPT !.contacts = <<plan[i]>> \o @]
      BY <1>3
    <3> QED
      BY <1>5, <1>6, <3>1, Zenon DEF InTurn
  <2>2. n \in Nat
    BY <1>1
  <2> QED
    BY <2>1, <2>2, ReadInTurn, Zenon
<1>8. r \in T /\ Len(z.contacts) \in Nat
  <2>1. r \in T /\ z \in T
    BY <1>1, <1>5
  <2> QED
    BY <2>1
<1>9. ReadFrom(text) = r
  BY <1>1, ReadingIs DEF R
<1>10. ASSUME Len(text) = 8 * n PROVE z.crash = FALSE /\ Len(z.contacts) = 0
  <2>1. 8 * n + 1 > Len(text)
    BY <1>1, <1>10
  <2>2. ReadAt(text, R, 8 * n + 1) = Ended(FALSE)
    BY <1>1, <2>1, NothingBehind
  <2>3. z = ReadAt(text, R, 8 * n + 1)
    BY <1>1, ReadingIs DEF R
  <2> QED
    BY <2>2, <2>3 DEF Ended
<1>11. ASSUME \A k \in 8 * n + 2 .. Len(text) : text[k].key # "frm"
       PROVE  Len(z.contacts) <= 1
  <2>1. (8 * n + 1) + 1 = 8 * n + 2
    BY <1>1
  <2>2. \A k \in (8 * n + 1) + 1 .. Len(text) : text[k].key # "frm"
    BY <1>11, <2>1
  <2> QED
    BY <1>1, <2>2, OneMore DEF R
<1> HIDE DEF r, z, K, T
<1>12. Len(r.contacts) >= n
  BY <1>1, <1>7, <1>8
<1>13. Len(text) = 8 * n => r.crash = FALSE /\ Len(r.contacts) = n
  <2> SUFFICES ASSUME Len(text) = 8 * n PROVE r.crash = FALSE /\ Len(r.contacts) = n
    OBVIOUS
  <2>1. r.crash = FALSE
    BY <1>7, <1>10, Zenon
  <2>2. Len(r.contacts) = n
    BY <1>1, <1>7, <1>10
  <2> QED
    BY <2>1, <2>2
<1>14. (\A k \in 8 * n + 2 .. Len(text) : text[k].key # "frm") => Len(r.contacts) <= n + 1
  <2>1. Len(z.contacts) <= 1 => Len(r.contacts) <= n + 1
    BY <1>1, <1>7, <1>8
  <2> QED
    BY <1>11, <2>1, Zenon
<1> QED
  BY <1>7, <1>8, <1>9, <1>12, <1>13, <1>14, Zenon DEF T

\* ... and kept, up to the size of the plan.
LEMMA WholeLoaded ==
  ASSUME NEW plan, CanLoad(plan), NEW n \in 0 .. Len(plan),
         NEW text, Len(text) \in Nat, StandsFirst(text, plan, n)
  PROVE  LET loaded == Load(text)
             kept   == Kept(plan, n)
         IN  /\ IsPrefix(kept, loaded.contacts)
             /\ Len(text) = 8 * n => loaded = [crash |-> FALSE, contacts |-> kept]
             /\ (\A k \in 8 * n + 2 .. Len(text) : text[k].key # "frm") =>
                  Len(loaded.contacts) <= Len(kept) + 1
<1> DEFINE r == ReadFrom(text)
           a == FoldLeft(PlanAdd, <<>>, r.contacts)
           kept == Kept(plan, n)
           m == IF n > PlanMax THEN PlanMax ELSE n
           NoMore == \A k \in 8 * n + 2 .. Len(text) : text[k].key # "frm"
<1>1. PICK K : /\ r \in [crash : BOOLEAN, contacts : Seq(K)]
               /\ Len(r.contacts) >= n
               /\ \A j \in 1 .. n : r.contacts[j] = plan[j]
               /\ Len(text) = 8 * n => r.crash = FALSE /\ Len(r.contacts) = n
               /\ NoMore => Len(r.contacts) <= n + 1
  BY WholeRead
<1>2. Load(text) = [crash |-> r.crash, contacts |-> a]
  <2>0. r \in [crash : BOOLEAN, contacts : Seq(K)]
    BY <1>1
  <2> HIDE DEF r, NoMore
  <2>1. [r EXCEPT !.contacts = FoldLeft(PlanAdd, <<>>, @)] = [crash |-> r.crash, contacts |-> a]
    BY <2>0
  <2> QED
    BY <2>1 DEF Load, r
<1> HIDE DEF r, NoMore
<1>3. /\ a \in Seq(K)
      /\ Len(a) = IF Len(r.contacts) > PlanMax THEN PlanMax ELSE Len(r.contacts)
      /\ \A i \in 1 .. Len(a) : a[i] = r.contacts[i]
  BY <1>1, KeptIs
<1> HIDE DEF a
<1>4. PlanMax \in Nat /\ n \in Nat /\ Len(plan) \in Nat /\ Len(r.contacts) \in Nat
  BY <1>1 DEF PlanMax, CanLoad
<1>5. /\ m \in 0 .. n /\ m <= Len(plan) /\ m <= Len(a)
      /\ Len(r.contacts) = n => Len(a) = m
      /\ Len(r.contacts) <= n + 1 => Len(a) <= m + 1
  <2>1. Len(r.contacts) >= n /\ n <= Len(plan)
    BY <1>1
  <2>2. Len(a) = IF Len(r.contacts) > PlanMax THEN PlanMax ELSE Len(r.contacts)
    BY <1>3
  <2> QED
    BY <1>4, <2>1, <2>2
<1>6. /\ kept \in Seq(ContactType) /\ Len(kept) = m
      /\ \A i \in 1 .. m : kept[i] = plan[i]
  <2>1. kept = SubSeq(plan, 1, m) /\ plan \in Seq(ContactType)
    BY DEF Kept, CanLoad
  <2> HIDE DEF m, kept
  <2> QED
    BY <1>4, <1>5, <2>1
<1> HIDE DEF m, kept
<1>7. ASSUME NEW i \in 1 .. m PROVE kept[i] = a[i]
  <2>1. i \in 1 .. n /\ i \in 1 .. Len(a)
    BY <1>3, <1>4, <1>5
  <2> QED
    BY <1>1, <1>3, <1>6, <2>1
<1>8. IsPrefix(kept, a)
  <2>1. SubSeq(kept, 1, m) = [i \in 1 .. m |-> kept[i]]
    BY <1>4, <1>5, <1>6
  <2>2. SubSeq(a, 1, m) = [i \in 1 .. m |-> a[i]]
    BY <1>3, <1>4, <1>5
  <2> QED
    BY <1>5, <1>6, <1>7, <2>1, <2>2 DEF IsPrefix
<1>9. ASSUME Len(text) = 8 * n PROVE r.crash = FALSE /\ a = kept
  <2>1. Len(a) = m /\ r.crash = FALSE
    BY <1>1, <1>5, <1>9
  <2>2. a = [i \in 1 .. m |-> a[i]] /\ kept = [i \in 1 .. m |-> kept[i]]
    BY <1>3, <1>6, <2>1
  <2> QED
    BY <1>7, <2>1, <2>2
<1>10. Load(text).contacts = a
  BY <1>2
<1>11. Len(text) = 8 * n => Load(text) = [crash |-> FALSE, contacts |-> kept]
  BY <1>2, <1>9
<1>12. NoMore => Len(Load(text).contacts) <= Len(kept) + 1
  BY <1>1, <1>5, <1>6, <1>10
<1> QED
  BY <1>8, <1>10, <1>11, <1>12, Zenon DEF kept, NoMore

-----------------------------------------------------------------------------
(* What is read of a file *)

\* The entries that fit are some of the entries.
LEMMA WholeIs ==
  ASSUME NEW ends, Len(ends) \in Nat
  PROVE  Whole(ends) \in 0 .. Len(ends)
<1> DEFINE S == {n \in 0 .. Len(ends) : \A i \in 1 .. n : ends[i] <= BufferBytes}
<1>1. S \in SUBSET (0 .. Len(ends)) /\ 0 \in S
  OBVIOUS
<1> HIDE DEF S
<1>2. Max(S) \in S
  BY <1>1, MaxExists
<1> QED
  BY <1>1, <1>2 DEF Whole, S

\* e has the fields of an entry.
IsEntry(e) == e = [key |-> e.key, type |-> e.type, val |-> e.val]

\* What is left of an entry still has its key, or nothing is left.
LEMMA TornIs ==
  ASSUME NEW e, IsEntry(e), NEW rest \in Torn(e)
  PROVE  \/ rest = <<>>
         \/ \E left : rest = <<left>> /\ left.key = e.key
<1>1. CASE rest = <<>>
  BY <1>1
<1>2. CASE \E kind : rest = <<[e EXCEPT !.type = kind]>>
  <2>1. PICK kind : rest = <<[e EXCEPT !.type = kind]>>
    BY <1>2
  <2>2. [e EXCEPT !.type = kind].key = e.key
    BY DEF IsEntry
  <2> QED
    BY <2>1, <2>2
<1>3. CASE \E v : rest = <<[e EXCEPT !.val = v]>>
  <2>1. PICK v : rest = <<[e EXCEPT !.val = v]>>
    BY <1>3
  <2>2. [e EXCEPT !.val = v].key = e.key
    BY DEF IsEntry
  <2> QED
    BY <2>1, <2>2
<1> QED
  BY <1>1, <1>2, <1>3 DEF Torn

\* An entry of an object has three fields, and only the first begins a contact.
LEMMA EntryIs ==
  ASSUME NEW c, NEW j \in 1 .. 8
  PROVE  IsEntry(Object(c)[j]) /\ (j # 1 => Object(c)[j].key # "frm")
<1>1. j \in {1, 2, 3, 4, 5, 6, 7, 8}
  OBVIOUS
<1>2. \A key, type, val :
        IsEntry(Entry(key, type, val)) /\ Entry(key, type, val).key = key
  BY DEF Entry, IsEntry
<1>3. CASE j = 1
  <2>1. Object(c)[j] = Entry("frm", "string", c.frm)
    BY <1>3, ObjectEntries
  <2>2. IsEntry(Entry("frm", "string", c.frm)) /\ Entry("frm", "string", c.frm).key = "frm"
    BY <1>2
  <2> QED
    BY <1>3, <2>1, <2>2
<1>4. CASE j = 2
  <2>1. Object(c)[j] = Entry("to", "string", c.to)
    BY <1>4, ObjectEntries
  <2>2. IsEntry(Entry("to", "string", c.to)) /\ Entry("to", "string", c.to).key = "to"
    BY <1>2
  <2> QED
    BY <1>4, <2>1, <2>2
<1>5. CASE j = 3
  <2>1. Object(c)[j] = Entry("t_start", "number", c.t_start)
    BY <1>5, ObjectEntries
  <2>2. /\ IsEntry(Entry("t_start", "number", c.t_start))
        /\ Entry("t_start", "number", c.t_start).key = "t_start"
    BY <1>2
  <2> QED
    BY <1>5, <2>1, <2>2
<1>6. CASE j = 4
  <2>1. Object(c)[j] = Entry("t_end", "number", c.t_end)
    BY <1>6, ObjectEntries
  <2>2. /\ IsEntry(Entry("t_end", "number", c.t_end))
        /\ Entry("t_end", "number", c.t_end).key = "t_end"
    BY <1>2
  <2> QED
    BY <1>6, <2>1, <2>2
<1>7. CASE j = 5
  <2>1. Object(c)[j] = Entry("rate", "number", c.rate)
    BY <1>7, ObjectEntries
  <2>2. IsEntry(Entry("rate", "number", c.rate)) /\ Entry("rate", "number", c.rate).key = "rate"
    BY <1>2
  <2> QED
    BY <1>7, <2>1, <2>2
<1>8. CASE j = 6
  <2>1. Object(c)[j] = Entry("owlt", "number", c.owlt)
    BY <1>8, ObjectEntries
  <2>2. IsEntry(Entry("owlt", "number", c.owlt)) /\ Entry("owlt", "number", c.owlt).key = "owlt"
    BY <1>2
  <2> QED
    BY <1>8, <2>1, <2>2
<1>9. CASE j = 7
  <2>1. Object(c)[j] = Entry("conf", "number", c.loss)
    BY <1>9, ObjectEntries
  <2>2. IsEntry(Entry("conf", "number", c.loss)) /\ Entry("conf", "number", c.loss).key = "conf"
    BY <1>2
  <2> QED
    BY <1>9, <2>1, <2>2
<1>10. CASE j = 8
  <2>1. Object(c)[j] = Entry("ber", "number", c.max_size)
    BY <1>10, ObjectEntries
  <2>2. /\ IsEntry(Entry("ber", "number", c.max_size))
        /\ Entry("ber", "number", c.max_size).key = "ber"
    BY <1>2
  <2> QED
    BY <1>10, <2>1, <2>2
<1> QED
  BY <1>1, <1>3, <1>4, <1>5, <1>6, <1>7, <1>8, <1>9, <1>10

\* The file of a text is its plan, eight entries a contact, and the tail.
LEMMA FileIs ==
  ASSUME NEW x \in Texts
  PROVE  /\ Len(x.plan) \in Nat /\ Len(x.tail) \in Nat
         /\ Len(File(x)) = 8 * Len(x.plan) + Len(x.tail)
         /\ \A i \in 1 .. Len(x.plan) : \A j \in 1 .. 8 :
              File(x)[8 * (i - 1) + j] = Object(x.plan[i])[j]
         /\ \E D : /\ File(x) \in Seq(D)
                   /\ \A e \in D : IsEntry(e)
<1> DEFINE n == Len(x.plan)
           E == [key : STRING, type : {"string", "number", "other", "cut"}, val : Int]
           D == E \cup UNION {{Object(x.plan[i])[j] : j \in 1 .. 8} : i \in 1 .. n}
           w == Written(x.plan)
<1>1. n \in Nat /\ DOMAIN x.plan = 1 .. n /\ x.tail \in Seq(E)
  BY TextsAssumption
<1>2. \A e \in D : IsEntry(e)
  <2>1. ASSUME NEW e \in E PROVE IsEntry(e)
    BY DEF IsEntry
  <2>2. ASSUME NEW e \in D, e \notin E PROVE IsEntry(e)
    <3>1. PICK i \in 1 .. n, j \in 1 .. 8 : e = Object(x.plan[i])[j]
      BY <2>2
    <3> QED
      BY <3>1, EntryIs
  <2> QED
    BY <2>1, <2>2
<1>3. ASSUME NEW i \in 1 .. n PROVE Object(x.plan[i]) \in Seq(D)
  <2>1. {Object(x.plan[i])[j] : j \in 1 .. 8} \subseteq D
    OBVIOUS
  <2>2. Object(x.plan[i]) \in Seq({Object(x.plan[i])[j] : j \in 1 .. 8})
    BY ObjectEntries
  <2> HIDE DEF D
  <2> QED
    BY <2>1, <2>2
<1>4. x.tail \in Seq(D)
  <2>1. E \subseteq D /\ x.tail \in Seq(E)
    BY <1>1
  <2> HIDE DEF D, E
  <2> QED
    BY <2>1
<1> HIDE DEF D, E, w
<1>5. /\ w \in Seq(D) /\ Len(w) = 8 * n
      /\ \A i \in 1 .. n : \A j \in 1 .. 8 : w[8 * (i - 1) + j] = Object(x.plan[i])[j]
  BY <1>1, <1>3, WrittenIs DEF w
<1>6. File(x) = w \o x.tail
  BY DEF File, w
<1>7. /\ File(x) \in Seq(D) /\ Len(File(x)) = Len(w) + Len(x.tail)
      /\ \A k \in 1 .. Len(w) : File(x)[k] = w[k]
  <2>1. w \in Seq(D)
    BY <1>5
  <2> QED
    BY <1>4, <1>6, <2>1, Concatenation
<1>8. ASSUME NEW i \in 1 .. n, NEW j \in 1 .. 8
      PROVE  File(x)[8 * (i - 1) + j] = Object(x.plan[i])[j]
  <2> HIDE DEF n
  <2>1. 8 * (i - 1) + j \in 1 .. 8 * n
    BY <1>1
  <2>2. 8 * (i - 1) + j \in 1 .. Len(w)
    BY <1>5, <2>1
  <2> QED
    BY <1>5, <1>7, <2>2
<1>9. Len(x.tail) \in Nat
  BY <1>4
<1> QED
  BY <1>1, <1>2, <1>5, <1>7, <1>8, <1>9

\* The buffer holds the contacts that fit, as they are written.  If there is
\* nothing else in the file it ends with them when all fit, and no other
\* contact begins behind the one at the cut.
LEMMA BufferIs ==
  ASSUME NEW x \in Texts, NEW text \in Buffers(File(x), x.ends)
  PROVE  LET n == Fitting(x)
         IN  /\ n \in 0 .. Len(x.plan)
             /\ Len(text) \in Nat /\ StandsFirst(text, x.plan, n)
             /\ x.tail = <<>> /\ n = Len(x.plan) => Len(text) = 8 * n
             /\ x.tail = <<>> => \A k \in 8 * n + 2 .. Len(text) : text[k].key # "frm"
<1> DEFINE file == File(x)
           l == Len(x.plan)
           w == Whole(x.ends)
           n == Fitting(x)
           head == SubSeq(file, 1, w)
<1>1. /\ l \in Nat /\ Len(x.tail) \in Nat /\ Len(file) = 8 * l + Len(x.tail)
      /\ \A i \in 1 .. l : \A j \in 1 .. 8 : file[8 * (i - 1) + j] = Object(x.plan[i])[j]
  BY FileIs
<1>2. PICK D : /\ file \in Seq(D)
               /\ \A e \in D : IsEntry(e)
  BY FileIs
<1>3. w \in 0 .. Len(file)
  <2>1. Len(x.ends) = Len(file) /\ Len(x.ends) \in Nat
    BY TextsAssumption
  <2> QED
    BY <2>1, WholeIs
<1>4. text \in IF w = Len(file) THEN {file} ELSE {head \o rest : rest \in Torn(file[w + 1])}
  BY DEF Buffers
<1>5. n = IF 8 * l <= w THEN l ELSE w \div 8
  BY DEF Fitting
<1> HIDE DEF file, l, w, n
<1>6. n \in 0 .. l /\ 8 * n <= w /\ (n # l => w < 8 * n + 8 /\ w < 8 * l)
  BY <1>1, <1>3, <1>5
<1>7. Len(head) = w /\ head \in Seq(D) /\ \A k \in 1 .. w : head[k] = file[k]
  <2>1. file \in Seq(D)
    BY <1>2
  <2> QED
    BY <1>3, <2>1, HeadIs
<1> HIDE DEF head
\* the text: its first w entries are those of the file, and one may follow
<1>8. /\ Len(text) \in w .. w + 1 /\ \A k \in 1 .. w : text[k] = file[k]
      /\ w = Len(file) => Len(text) = w
      /\ Len(text) = w + 1 => w + 1 \in 1 .. Len(file) /\ text[w + 1].key = file[w + 1].key
  <2>1. CASE w = Len(file)
    <3>1. text = file
      BY <1>4, <2>1
    <3> QED
      BY <1>2, <1>3, <2>1, <3>1
  <2>2. CASE w # Len(file)
    <3>1. PICK rest \in Torn(file[w + 1]) : text = head \o rest
      BY <1>4, <2>2
    <3>2. w + 1 \in 1 .. Len(file) /\ file[w + 1] \in D
      <4>1. file \in Seq(D)
        BY <1>2
      <4>2. w + 1 \in 1 .. Len(file)
        BY <1>3, <2>2, <4>1
      <4> QED
        BY <4>1, <4>2
    <3>3. \/ rest = <<>>
          \/ \E left : rest = <<left>> /\ left.key = file[w + 1].key
      BY <1>2, <3>2, TornIs
    <3>4. CASE rest = <<>>
      <4>1. text = head
        BY <1>7, <3>1, <3>4
      <4> QED
        BY <1>3, <1>7, <2>2, <4>1
    <3>5. CASE \E left : rest = <<left>> /\ left.key = file[w + 1].key
      <4>1. PICK left : rest = <<left>> /\ left.key = file[w + 1].key
        BY <3>5
      <4> DEFINE B == D \cup {left}
      <4>2. head \in Seq(B)
        <5>1. D \subseteq B /\ head \in Seq(D)
          BY <1>7
        <5> HIDE DEF B
        <5> QED
          BY <5>1
      <4>3. rest \in Seq(B) /\ Len(rest) = 1 /\ rest[1] = left
        BY <4>1
      <4> HIDE DEF B
      <4>4. /\ head \o rest \in Seq(B) /\ Len(head \o rest) = Len(head) + Len(rest)
            /\ \A k \in 1 .. Len(head) : (head \o rest)[k] = head[k]
            /\ \A k \in 1 .. Len(rest) : (head \o rest)[Len(head) + k] = rest[k]
        <5>1. rest \in Seq(B)
          BY <4>3
        <5> QED
          BY <4>2, <5>1, Concatenation
      <4>5. /\ text \in Seq(B) /\ Len(text) = Len(head) + 1
            /\ \A k \in 1 .. Len(head) : text[k] = head[k]
            /\ text[Len(head) + 1] = left
        BY <3>1, <4>3, <4>4
      <4>6. /\ text \in Seq(B) /\ Len(text) = w + 1 /\ text[w + 1].key = file[w + 1].key
            /\ \A k \in 1 .. w : text[k] = file[k]
        BY <1>7, <4>1, <4>5
      <4> QED
        BY <1>3, <2>2, <3>2, <4>6
    <3> QED
      BY <3>3, <3>4, <3>5
  <2> QED
    BY <2>1, <2>2
<1>9. ASSUME NEW i \in 1 .. n
      PROVE  Stands(text, 8 * (i - 1) + 1, x.plan[i])
  <2>1. ASSUME NEW j \in 1 .. 8
        PROVE  text[(8 * (i - 1) + 1) + (j - 1)] = Object(x.plan[i])[j]
    <3>1. 8 * (i - 1) + j \in 1 .. w /\ i \in 1 .. l
      BY <1>1, <1>3, <1>6
    <3>2. (8 * (i - 1) + 1) + (j - 1) = 8 * (i - 1) + j
      BY <1>1, <1>6
    <3> QED
      BY <1>1, <1>8, <3>1, <3>2
  <2> QED
    BY <2>1 DEF Stands
<1>10. ASSUME x.tail = <<>>, n = l PROVE Len(text) = 8 * n
  <2>1. Len(x.tail) = 0
    BY <1>10
  <2>2. w = Len(file) /\ w = 8 * n
    BY <1>1, <1>3, <1>6, <1>10, <2>1
  <2> QED
    BY <1>8, <2>2
<1>11. ASSUME x.tail = <<>>, NEW k \in 8 * n + 2 .. Len(text)
       PROVE  text[k].key # "frm"
  <2>1. n # l
    BY <1>1, <1>6, <1>10, <1>11
  <2> DEFINE j == k - 8 * n
  <2>2. n + 1 \in 1 .. l /\ j \in 2 .. 8 /\ k = 8 * ((n + 1) - 1) + j
    <3>1. Len(text) <= w + 1 /\ w \in Nat
      BY <1>1, <1>3, <1>8
    <3> QED
      BY <1>1, <1>6, <2>1, <3>1
  <2>3. k \in 1 .. w \/ (k = w + 1 /\ Len(text) = w + 1)
    BY <1>3, <1>6, <1>8
  <2>4. text[k].key = file[k].key
    BY <1>8, <2>3
  <2> HIDE DEF j
  <2>5. file[k] = Object(x.plan[n + 1])[j]
    <3>1. j \in 1 .. 8
      BY <2>2
    <3> QED
      BY <1>1, <2>2, <3>1
  <2>6. j \in 1 .. 8 /\ j # 1
    BY <2>2
  <2> QED
    BY <2>4, <2>5, <2>6, EntryIs
<1>12. Len(text) \in Nat /\ 8 * n <= Len(text)
  BY <1>1, <1>3, <1>6, <1>8
<1> QED
  BY <1>6, <1>9, <1>10, <1>11, <1>12 DEF l, n, StandsFirst

\* For every plan, layout of the file and rest of it: the contacts that stand
\* whole in the first 8191 bytes are loaded as written, up to the size of the
\* plan, a value behind them that makes the loader search from NULL included.
\* Alone in a file that fits they are the plan; alone in one that does not, at
\* most one contact comes after them (contact_plan_load_json).
THEOREM PlanLoaded == Spec => []LoadedAsWritten
<1> DEFINE Right(x, loaded) ==
             LET kept == Kept(x.plan, Fitting(x))
             IN  /\ IsPrefix(kept, loaded.contacts)
                 /\ x.tail = <<>> => Len(loaded.contacts) <= Len(kept) + 1
                 /\ x.tail = <<>> /\ Fitting(x) = Len(x.plan) =>
                      loaded = [crash |-> FALSE, contacts |-> kept]
<1>1. \A x \in Texts : \A loaded \in LoadOutcomes(File(x), x.ends) : Right(x, loaded)
  <2> TAKE x \in Texts
  <2> TAKE loaded \in LoadOutcomes(File(x), x.ends)
  <2>1. PICK text \in Buffers(File(x), x.ends) : loaded = Load(text)
    BY DEF LoadOutcomes
  <2>2. CanLoad(x.plan)
    BY TextsAssumption DEF CanLoad, Loadable
  <2> DEFINE n == Fitting(x)
  <2>3. /\ n \in 0 .. Len(x.plan) /\ Len(text) \in Nat /\ StandsFirst(text, x.plan, n)
        /\ x.tail = <<>> /\ n = Len(x.plan) => Len(text) = 8 * n
        /\ x.tail = <<>> => \A k \in 8 * n + 2 .. Len(text) : text[k].key # "frm"
    BY BufferIs
  <2> HIDE DEF n
  <2>5. /\ IsPrefix(Kept(x.plan, n), loaded.contacts)
        /\ Len(text) = 8 * n => loaded = [crash |-> FALSE, contacts |-> Kept(x.plan, n)]
        /\ (\A k \in 8 * n + 2 .. Len(text) : text[k].key # "frm") =>
             Len(loaded.contacts) <= Len(Kept(x.plan, n)) + 1
    BY <2>1, <2>2, <2>3, WholeLoaded
  <2> QED
    BY <2>3, <2>5 DEF n
<1>2. (\A x \in Texts : \A loaded \in LoadOutcomes(File(x), x.ends) : Right(x, loaded))
        => LoadedAsWritten
  BY DEF LoadedAsWritten, Kept
<1>3. LoadedAsWritten
  BY <1>1, <1>2
<1> QED
  BY <1>3, PTL
=============================================================================
