------------------------------ MODULE JtagUart ------------------------------
(***************************************************************************)
(* The console behind printf: the interrupt driven driver of the JTAG UART *)
(* (altera_avalon_jtag_uart_*.c), the interrupt dispatcher that calls it   *)
(* (alt_irq_handler.c, alt_iic.c), the UART (lab62_soc_jtag_uart_0.v) and  *)
(* a host that comes and goes.                                             *)
(*                                                                         *)
(* One processor runs the calls of the firmware and the two interrupt      *)
(* routines: a call makes a step only while no routine runs, a routine     *)
(* may start between any two steps of a call.  The UART and the host run   *)
(* beside both.  A section between alt_irq_disable_all and                 *)
(* alt_irq_enable_all is one step.  Bytes are numbered as in ConsoleStream.*)
(***************************************************************************)
EXTENDS Integers, Sequences, FiniteSets

CONSTANTS
  BufLen,           \* ALTERA_AVALON_JTAG_UART_BUF_LEN
  FifoDepth,        \* characters in each FIFO of the UART
  NearlyEmpty,      \* characters left in the write FIFO when it interrupts
  NearlyFull,       \* places left in the read FIFO when it interrupts
  DefaultTimeout,   \* ALTERA_AVALON_JTAG_UART_DEFAULT_TIMEOUT, in seconds
  IntMax,           \* INT_MAX
  MaxCount,         \* largest count of a call
  Applications,     \* what the firmware does: [does, nonblock, timeouts], with does a subset
                    \* of {"write", "read"}, timeouts the arguments of its TIOCSTIMEOUTs
  MaxTyped,         \* characters typed at an application that does not read
  Numbers           \* of bytes: see ConsoleStream

ASSUME ConsoleAssumption ==
  /\ BufLen \in Nat \ {0, 1} /\ FifoDepth \in Nat \ {0} /\ MaxCount \in Nat \ {0}
  /\ NearlyEmpty \in 0..(FifoDepth - 1) /\ NearlyFull \in 0..(FifoDepth - 1)
  /\ IntMax \in Nat /\ DefaultTimeout \in 2..(IntMax - 1)
  /\ Numbers \in Nat /\ Numbers > BufLen + FifoDepth
  /\ \A a \in Applications : a.timeouts \subseteq Int

VARIABLES
  \* the processor
  handlers,      \* the interrupts with a handler in alt_irq, enabled in IENABLE
  isr,           \* [at, wi, space, avail]: where the interrupt routines are, their locals
  \* altera_avalon_jtag_uart_state
  irq_enable,    \* subset of {"RE", "WE"}; the control register holds the same
  timeout, host_inactive,
  rx_in, rx_out, rx_buf,
  tx_in, tx_out, tx_buf,
  \* the call the firmware is in
  pc, call,      \* call: [count, moved, n, seen, got]
  \* the UART and the timer
  rfifo, wfifo, pause_irq, ac, timer_irq,
  \* the host
  connected,
  app,           \* what the firmware does with the console: see Applications
  \* the number of the next byte each way
  nextOut, nextIn

driver   == <<irq_enable, timeout, host_inactive, rx_in, rx_out, rx_buf, tx_in, tx_out, tx_buf>>
software == <<handlers, isr, driver, pc, call>>
device   == <<rfifo, wfifo, pause_irq, ac>>
numbers  == <<app, nextOut, nextIn>>
vars     == <<software, device, timer_irq, connected, numbers>>

UART  == 1
TIMER == 2

Index == 0..(BufLen - 1)
Succ(i, n) == (i + n) % BufLen

\* The bytes in a ring buffer, oldest first.
Ring(buf, in, out) == [k \in 1..((in - out) % BufLen) |-> buf[Succ(out, k - 1)]]

Min2(a, b) == IF a < b THEN a ELSE b

BootSteps  == {"irq_init", "timer_init", "uart_init", "uart_register", "uart_alarm"}
WriteSteps == {"w_look", "w_fill", "w_publish", "w_kick", "w_spin"}
ReadSteps  == {"r_look", "r_take", "r_free", "r_decide", "r_spin", "r_enable"}
IsrSteps   == {"none", "entry", "again", "control", "rx", "tx", "tick"}

IsrAtStep(s) == [at |-> s, wi |-> FALSE, space |-> 0, avail |-> FALSE]
NoCall == [count |-> 0, moved |-> FALSE, n |-> 0, seen |-> 0, got |-> <<>>]

Init ==
  /\ handlers = {}
  /\ isr = IsrAtStep("none")
  /\ irq_enable = {} /\ timeout = DefaultTimeout /\ host_inactive = 0
  /\ rx_in = 0 /\ rx_out = 0 /\ rx_buf = [i \in Index |-> 0]
  /\ tx_in = 0 /\ tx_out = 0 /\ tx_buf = [i \in Index |-> 0]
  /\ pc = "irq_init" /\ call = NoCall
  /\ rfifo = <<>> /\ wfifo = <<>> /\ pause_irq = FALSE /\ ac = FALSE
  /\ timer_irq = FALSE
  /\ connected \in BOOLEAN
  /\ app \in Applications
  /\ nextOut = 0 /\ nextIn = 0

-----------------------------------------------------------------------------
(* The UART *)

ipen_AE == "WE" \in irq_enable /\ Len(wfifo) <= NearlyEmpty
ipen_AF == "RE" \in irq_enable /\ (pause_irq \/ FifoDepth - Len(rfifo) <= NearlyFull)

\* The interrupts alt_irq_pending returns.
Pending ==
  {i \in handlers : \/ i = UART /\ (ipen_AE \/ ipen_AF)
                    \/ i = TIMER /\ timer_irq}

\* A read of the data register.
ReadData == rfifo' = (IF rfifo = <<>> THEN rfifo ELSE Tail(rfifo)) /\ pause_irq' = FALSE

\* A write of the data register: a full FIFO drops the character.
WriteData(b) == wfifo' = IF Len(wfifo) < FifoDepth THEN Append(wfifo, b) ELSE wfifo

HostSends ==
  /\ connected /\ Len(rfifo) < FifoDepth
  /\ "read" \in app.does \/ nextIn < MaxTyped
  /\ rfifo' = Append(rfifo, nextIn) /\ nextIn' = (nextIn + 1) % Numbers
  /\ ac' = TRUE
  /\ UNCHANGED <<software, wfifo, pause_irq, timer_irq, connected, app, nextOut>>

\* A poll of the host that brings no character.
HostPauses ==
  /\ connected
  /\ ac' = TRUE
  /\ pause_irq' = (pause_irq \/ rfifo # <<>>)
  /\ UNCHANGED <<software, rfifo, wfifo, timer_irq, connected, numbers>>

HostTakes ==
  /\ connected /\ wfifo # <<>>
  /\ wfifo' = Tail(wfifo)
  /\ UNCHANGED <<software, rfifo, pause_irq, ac, timer_irq, connected, numbers>>

HostComesOrGoes ==
  /\ connected' = ~connected
  /\ UNCHANGED <<software, device, timer_irq, numbers>>

\* The timer: only the ticks at which the alarm of the driver is due.  One that
\* comes while a routine runs is seen after it.
Second ==
  /\ ~timer_irq /\ timer_irq' = TRUE
  /\ isr.at = "none"
  /\ UNCHANGED <<software, device, connected, numbers>>

-----------------------------------------------------------------------------
(* Start-up: alt_irq_init, then the drivers in the order of alt_sys_init *)

Boot(from, to) == pc = from /\ pc' = to /\ isr.at = "none"
Register(i) == handlers' = handlers \cup {i}

BootIrq ==
  /\ Boot("irq_init", "timer_init")
  /\ handlers' = {}
  /\ UNCHANGED <<isr, driver, call, device, timer_irq, connected, numbers>>

BootTimer ==
  /\ Boot("timer_init", "uart_init")
  /\ Register(TIMER)
  /\ UNCHANGED <<isr, driver, call, device, timer_irq, connected, numbers>>

BootUart ==
  /\ Boot("uart_init", "uart_register")
  /\ irq_enable' = {"RE"}
  /\ UNCHANGED <<handlers, isr, timeout, host_inactive, rx_in, rx_out, rx_buf, tx_in, tx_out,
                 tx_buf, call, device, timer_irq, connected, numbers>>

BootRegister ==
  /\ Boot("uart_register", "uart_alarm")
  /\ Register(UART)
  /\ UNCHANGED <<isr, driver, call, device, timer_irq, connected, numbers>>

BootAlarm ==
  /\ Boot("uart_alarm", "idle")
  /\ host_inactive' = 0
  /\ UNCHANGED <<handlers, isr, irq_enable, timeout, rx_in, rx_out, rx_buf, tx_in, tx_out,
                 tx_buf, call, device, timer_irq, connected, numbers>>

-----------------------------------------------------------------------------
(* The interrupt routines *)

IsrAt(s) == isr.at = s
IsrTo(s) == isr' = IsrAtStep(s)
ByIsr == UNCHANGED <<handlers, timeout, pc, call, connected, numbers>>

\* The processor enters alt_irq_handler.
Interrupted ==
  /\ IsrAt("none") /\ Pending # {}
  /\ IsrTo("entry")
  /\ ByIsr /\ UNCHANGED <<driver, device, timer_irq>>

\* alt_irq_pending and the handler of the lowest bit set; on entry, with none
\* set, the search for a bit never ends.
Dispatch ==
  /\ isr.at \in {"entry", "again"}
  /\ CASE UART \in Pending                   -> IsrTo("control")
       [] Pending = {TIMER}                  -> IsrTo("tick")
       [] Pending = {} /\ isr.at = "again"   -> IsrTo("none")
       [] OTHER                              -> UNCHANGED isr
  /\ ByIsr /\ UNCHANGED <<driver, device, timer_irq>>

\* altera_avalon_jtag_uart_irq: one read of the control register.
IsrControl ==
  /\ IsrAt("control")
  /\ IF ~ipen_AF /\ ~ipen_AE THEN IsrTo("again")
     ELSE isr' = [at |-> IF ipen_AF THEN "rx" ELSE "tx", wi |-> ipen_AE,
                  space |-> IF ipen_AE THEN FifoDepth - Len(wfifo) ELSE 0, avail |-> ipen_AF]
  /\ ByIsr /\ UNCHANGED <<driver, device, timer_irq>>

\* Fault: the buffer is never full.
RxFullNever == FALSE

RxFull == Succ(rx_in, 1) = rx_out

\* The end of the receive loop.
AfterReceive == IF isr.wi THEN isr' = [isr EXCEPT !.at = "tx", !.avail = FALSE] ELSE IsrTo("control")

\* One turn of the receive loop: avail is the RAVAIL field of the last read.
IsrReceive ==
  /\ IsrAt("rx") /\ ~RxFull
  /\ ReadData
  /\ IF rfifo = <<>>
       THEN AfterReceive /\ UNCHANGED <<rx_in, rx_buf>>
       ELSE /\ isr' = [isr EXCEPT !.avail = Len(rfifo) > 1]
            /\ rx_buf' = [rx_buf EXCEPT ![rx_in] = Head(rfifo)]
            /\ rx_in' = Succ(rx_in, 1)
  /\ ByIsr /\ UNCHANGED <<irq_enable, host_inactive, rx_out, tx_in, tx_out, tx_buf,
                          wfifo, ac, timer_irq>>

\* The buffer is full: no more interrupts for the characters left behind.
IsrReceiveFull ==
  /\ IsrAt("rx") /\ RxFull
  /\ irq_enable' = IF isr.avail THEN irq_enable \ {"RE"} ELSE irq_enable
  /\ AfterReceive
  /\ ByIsr /\ UNCHANGED <<host_inactive, rx_in, rx_out, rx_buf, tx_in, tx_out, tx_buf,
                          device, timer_irq>>

\* One turn of the transmit loop, within the space read at the start.
IsrTransmit ==
  /\ IsrAt("tx") /\ isr.space > 0 /\ tx_out # tx_in
  /\ WriteData(tx_buf[tx_out])
  /\ tx_out' = Succ(tx_out, 1)
  /\ isr' = [isr EXCEPT !.space = @ - 1]
  /\ ByIsr /\ UNCHANGED <<irq_enable, host_inactive, rx_in, rx_out, rx_buf, tx_in, tx_buf,
                          rfifo, pause_irq, ac, timer_irq>>

\* Space left: nothing more to send, no more interrupts for it.
IsrTransmitEnd ==
  /\ IsrAt("tx") /\ (isr.space = 0 \/ tx_out = tx_in)
  /\ irq_enable' = IF isr.space > 0 THEN irq_enable \ {"WE"} ELSE irq_enable
  /\ IsrTo("control")
  /\ ByIsr /\ UNCHANGED <<host_inactive, rx_in, rx_out, rx_buf, tx_in, tx_out, tx_buf,
                          device, timer_irq>>

\* altera_avalon_jtag_uart_timeout, called by alt_tick in the timer's routine.
IsrTick ==
  /\ IsrAt("tick")
  /\ timer_irq' = FALSE
  /\ IF pc \in BootSteps THEN UNCHANGED <<ac, host_inactive>>
     ELSE IF ac THEN ac' = FALSE /\ host_inactive' = 0
     ELSE /\ host_inactive' = host_inactive + (IF host_inactive < IntMax - 2 THEN 1 ELSE 0)
          /\ UNCHANGED ac
  /\ IsrTo("again")
  /\ ByIsr /\ UNCHANGED <<irq_enable, rx_in, rx_out, rx_buf, tx_in, tx_out, tx_buf,
                          rfifo, wfifo, pause_irq>>

IsrNext ==
  \/ Interrupted \/ Dispatch \/ IsrControl \/ IsrReceive \/ IsrReceiveFull
  \/ IsrTransmit \/ IsrTransmitEnd \/ IsrTick

-----------------------------------------------------------------------------
(* The calls: read, write, close and ioctl *)

At(s) == pc = s /\ isr.at = "none"
ByCall == UNCHANGED <<handlers, isr, device, timer_irq, connected, app, nextIn>>
Waited == host_inactive >= timeout

Begin(step, count) ==
  /\ At("idle")
  /\ pc' = step
  /\ call' = [NoCall EXCEPT !.count = count]
  /\ ByCall /\ UNCHANGED <<driver, nextOut>>

Return == pc' = "idle" /\ call' = NoCall

Goto(s) == pc' = s /\ UNCHANGED call

\* Fault: no place is kept free to tell a full buffer from an empty one.
FreeRunAll(in, out) == IF in < out THEN out - in ELSE BufLen - in

\* The places that can be filled without wrapping.
FreeRun(in, out) ==
  CASE in < out             -> out - 1 - in
    [] in >= out /\ out > 0 -> BufLen - in
    [] OTHER                -> BufLen - 1 - in

\* The out pointer is read once.
WriteLook ==
  /\ At("w_look")
  /\ LET n == Min2(FreeRun(tx_in, tx_out), call.count) IN
       IF call.count > 0 /\ n > 0
         THEN pc' = "w_fill" /\ call' = [call EXCEPT !.n = n]
         ELSE pc' = "w_kick" /\ call' = [call EXCEPT !.seen = IF call.count > 0 THEN tx_out ELSE 0]
  /\ ByCall /\ UNCHANGED <<driver, nextOut>>

\* memcpy of the chunk.
WriteFill ==
  /\ At("w_fill")
  /\ tx_buf' = [i \in Index |-> IF i \in tx_in..(tx_in + call.n - 1)
                                  THEN (nextOut + i - tx_in) % Numbers ELSE tx_buf[i]]
  /\ Goto("w_publish")
  /\ ByCall /\ UNCHANGED <<irq_enable, timeout, host_inactive, rx_in, rx_out, rx_buf, tx_in,
                           tx_out, nextOut>>

\* The in pointer moves past the chunk.
WritePublish ==
  /\ At("w_publish")
  /\ tx_in' = Succ(tx_in, call.n)
  /\ nextOut' = (nextOut + call.n) % Numbers
  /\ call' = [call EXCEPT !.count = @ - call.n, !.moved = TRUE, !.n = 0]
  /\ pc' = "w_look"
  /\ ByCall /\ UNCHANGED <<irq_enable, timeout, host_inactive, rx_in, rx_out, rx_buf, tx_out, tx_buf>>

WriteKick ==
  /\ At("w_kick")
  /\ irq_enable' = irq_enable \cup {"WE"}
  /\ IF call.count = 0 \/ app.nonblock THEN Return ELSE Goto("w_spin")
  /\ ByCall /\ UNCHANGED <<timeout, host_inactive, rx_in, rx_out, rx_buf, tx_in, tx_out,
                           tx_buf, nextOut>>

\* Fault: only progress ends the wait, never the time-out.
WriteSpinForever ==
  /\ At("w_spin") /\ call.seen # tx_out
  /\ IF host_inactive > 0 THEN Return ELSE pc' = "w_look" /\ call' = [call EXCEPT !.seen = 0]
  /\ ByCall /\ UNCHANGED <<driver, nextOut>>

\* Any second without the host ends the call.
WriteSpin ==
  /\ At("w_spin") /\ (call.seen # tx_out \/ Waited)
  /\ IF host_inactive > 0 THEN Return ELSE pc' = "w_look" /\ call' = [call EXCEPT !.seen = 0]
  /\ ByCall /\ UNCHANGED <<driver, nextOut>>

\* The bytes that can be read without wrapping.
FullRun(in, out) == IF in >= out THEN in - out ELSE BufLen - out

ReadLook ==
  /\ At("r_look")
  /\ LET n == Min2(FullRun(rx_in, rx_out), call.count) IN
       /\ call' = [call EXCEPT !.n = n, !.seen = rx_in]
       /\ pc' = IF n > 0 THEN "r_take" ELSE "r_decide"
  /\ ByCall /\ UNCHANGED <<driver, nextOut>>

\* memcpy of the chunk.
ReadTake ==
  /\ At("r_take")
  /\ call' = [call EXCEPT !.got = [k \in 1..call.n |-> rx_buf[rx_out + k - 1]]]
  /\ pc' = "r_free"
  /\ ByCall /\ UNCHANGED <<driver, nextOut>>

\* The out pointer moves past the chunk.
ReadFree ==
  /\ At("r_free")
  /\ rx_out' = Succ(rx_out, call.n)
  /\ call' = [call EXCEPT !.count = @ - call.n, !.moved = TRUE, !.n = 0, !.got = <<>>]
  /\ pc' = IF call.count > call.n THEN "r_look" ELSE "r_decide"
  /\ ByCall /\ UNCHANGED <<irq_enable, timeout, host_inactive, rx_in, rx_buf, tx_in, tx_out,
                           tx_buf, nextOut>>

ReadDecide ==
  /\ At("r_decide")
  /\ CASE call.moved                         -> Goto("r_enable")
       [] ~call.moved /\ app.nonblock       -> Return
       [] OTHER                              -> Goto("r_spin")
  /\ ByCall /\ UNCHANGED <<driver, nextOut>>

ReadSpin ==
  /\ At("r_spin") /\ (call.seen # rx_in \/ Waited)
  /\ IF call.seen = rx_in THEN Return ELSE Goto("r_look")
  /\ ByCall /\ UNCHANGED <<driver, nextOut>>

\* Fault: the interrupt that a full buffer turned off stays off.
ReadEnableNot ==
  /\ At("r_enable")
  /\ Return
  /\ ByCall /\ UNCHANGED <<irq_enable, timeout, host_inactive, rx_in, rx_out, rx_buf, tx_in,
                           tx_out, tx_buf, nextOut>>

\* There is room again.
ReadEnable ==
  /\ At("r_enable")
  /\ irq_enable' = irq_enable \cup {"RE"}
  /\ Return
  /\ ByCall /\ UNCHANGED <<timeout, host_inactive, rx_in, rx_out, rx_buf, tx_in, tx_out,
                           tx_buf, nextOut>>

Close ==
  /\ At("close") /\ (tx_out = tx_in \/ Waited \/ app.nonblock)
  /\ Return
  /\ ByCall /\ UNCHANGED <<driver, nextOut>>

SetTimeout(t) ==
  /\ At("idle") /\ timeout # IntMax
  /\ timeout' = IF t >= 2 /\ t < IntMax THEN t ELSE IntMax - 1
  /\ ByCall /\ UNCHANGED <<irq_enable, host_inactive, rx_in, rx_out, rx_buf, tx_in, tx_out,
                           tx_buf, pc, call, nextOut>>

CallNext ==
  \/ BootIrq \/ BootTimer \/ BootUart \/ BootRegister \/ BootAlarm
  \/ WriteLook \/ WriteFill \/ WritePublish \/ WriteKick \/ WriteSpin
  \/ ReadLook \/ ReadTake \/ ReadFree \/ ReadDecide \/ ReadSpin \/ ReadEnable \/ Close

\* What the application asks for.
Ask ==
  \/ "write" \in app.does /\ \E count \in 1..MaxCount : Begin("w_look", count)
  \/ "read" \in app.does /\ \E count \in 1..MaxCount : Begin("r_look", count)
  \/ Begin("close", 0)
  \/ \E t \in app.timeouts : SetTimeout(t)

Next == CallNext \/ Ask \/ IsrNext \/ HostSends \/ HostPauses \/ HostTakes \/ HostComesOrGoes \/ Second

(***************************************************************************)
(* The processor and the timer never stop; interrupts come seldom enough   *)
(* to leave the calls time between them.  A host that is there again and   *)
(* again takes what it finds, and one that stays polls.                    *)
(***************************************************************************)
Fairness ==
  /\ SF_vars(CallNext) /\ WF_vars(IsrNext) /\ WF_vars(Second)
  /\ WF_vars(HostPauses) /\ SF_vars(HostTakes)

Spec == Init /\ [][Next]_vars /\ Fairness

-----------------------------------------------------------------------------
(* Properties *)

\* Every field of the driver, the call, the routines and the UART has its type.
TypeOK ==
  /\ handlers \subseteq {UART, TIMER}
  /\ isr \in [at : IsrSteps, wi : BOOLEAN, space : 0..FifoDepth, avail : BOOLEAN]
  /\ irq_enable \subseteq {"RE", "WE"}
  /\ timeout \in 2..(IntMax - 1) /\ host_inactive \in 0..(IntMax - 2)
  /\ {rx_in, rx_out, tx_in, tx_out} \subseteq Index
  /\ rx_buf \in [Index -> 0..(Numbers - 1)] /\ tx_buf \in [Index -> 0..(Numbers - 1)]
  /\ pc \in BootSteps \cup WriteSteps \cup ReadSteps \cup {"idle", "close"}
  /\ call.count \in 0..MaxCount /\ call.moved \in BOOLEAN
  /\ call.n \in 0..MaxCount /\ call.seen \in Index
  /\ Len(rfifo) <= FifoDepth /\ Len(wfifo) <= FifoDepth
  /\ {pause_irq, ac, timer_irq, connected} \subseteq BOOLEAN
  /\ nextOut \in 0..(Numbers - 1) /\ nextIn \in 0..(Numbers - 1)

\* alt_irq_handler searches the pending interrupts for a bit without looking
\* whether there is one (alt_irq_handler.c:141): no interrupt goes away between
\* the exception and the search, whatever the host does in between.
NeverSpurious == isr.at = "entry" => Pending # {}

\* What read copied out of the ring buffer is still its head when the place is
\* given back: the receive interrupt never writes over a chunk being copied.
CopiedIsHead ==
  pc = "r_free" =>
    LET head == Ring(rx_buf, rx_in, rx_out) IN
      call.n <= Len(head) /\ call.got = SubSeq(head, 1, call.n)

\* The types and the two conditions that the interrupt routines and the calls rely
\* on without a test of their own.
DriverSound == TypeOK /\ NeverSpurious /\ CopiedIsHead

Stream == INSTANCE ConsoleStream WITH
  out <- [next |-> nextOut, queue |-> wfifo \o Ring(tx_buf, tx_in, tx_out)],
  in  <- [next |-> nextIn,  queue |-> Ring(rx_buf, rx_in, rx_out) \o rfifo]

\* Through ring buffers, FIFOs and interrupts no byte is lost, doubled or
\* overtaken, in either direction.
ImplementsStream == Stream!Spec

\* printf does not hang: every write or close ends, because the host takes the
\* bytes or because it is given up, unless TIOCSTIMEOUT asked to wait for ever.
WritesReturn == []<>(pc \notin WriteSteps \cup {"close"} \/ timeout = IntMax - 1)

\* The transmit interrupt is never left off with bytes to send: a host that
\* stays does not face an empty FIFO for ever while the ring buffer holds bytes.
RingFeedsFifo == []<>(wfifo # <<>> \/ tx_in = tx_out \/ ~connected)

\* The receive interrupt is never left off with room in the ring buffer: while
\* the host stays, the characters of the FIFO are fetched.
FifoIsFetched == []<>(rfifo = <<>> \/ RxFull \/ ~connected)

\* Neither interrupt is left off with work to do, whichever of the call and the
\* routine turned it off or on last.
NoneLeftOff == RingFeedsFifo /\ FifoIsFetched
=============================================================================
