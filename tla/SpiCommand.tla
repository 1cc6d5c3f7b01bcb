----------------------------- MODULE SpiCommand -----------------------------
(***************************************************************************)
(* alt_avalon_spi_command (altera_avalon_spi.c), the polled loop through   *)
(* which every register of the MAX3421E is reached, running against the    *)
(* SPI core (lab62_soc_spi_0.v): a TX holding register, a shift register   *)
(* and an RX holding register, with no FIFO.  The loop and the core run    *)
(* concurrently; each bus access of the loop is one step.                  *)
(*                                                                         *)
(* The slave is the MAX3421E, full duplex: a byte is identified by its     *)
(* index, as in SpiExchange.  The busy-waits of the loop are guards.       *)
(***************************************************************************)
EXTENDS Integers, Sequences

CONSTANTS MaxWrite, MaxRead

ASSUME LengthAssumption == MaxWrite \in Nat \ {0} /\ MaxRead \in Nat

VARIABLES
  \* the software
  pc,            \* where the call is: see Labels
  request,       \* [write, read]: write_length and read_length
  written,       \* write_data - its initial value
  write_zeros, read_ignore, credits,
  read_data,     \* the bytes stored so far
  status,        \* the local copy of the status register: [TRDY, RRDY]
  \* the core
  tx_holding_primed, tx_holding_reg,
  transmitting, shift_reg,
  RRDY, rx_holding_reg,
  ROE, TOE,      \* receive and transmit overrun
  SSO,           \* chip select forced
  \* the slave
  frame          \* the bytes it received since it was selected

software == <<pc, request, written, write_zeros, read_ignore, credits, read_data, status>>
core     == <<tx_holding_primed, tx_holding_reg, transmitting, shift_reg, RRDY,
              rx_holding_reg, ROE, TOE, SSO>>
vars     == <<software, core, frame>>

Labels == {"idle", "discard", "poll", "transmit", "receive", "drain"}
Requests == [write : 1..MaxWrite, read : 0..MaxRead]

TRDY == IF transmitting = 1 /\ tx_holding_primed = 1 THEN 0 ELSE 1
TMT  == transmitting = 0 /\ tx_holding_primed = 0

Init ==
  /\ pc = "idle"
  /\ request = [write |-> 1, read |-> 0]
  /\ written = 0 /\ write_zeros = 0 /\ read_ignore = 0 /\ credits = 1
  /\ read_data = <<>>
  /\ status = [TRDY |-> 0, RRDY |-> 0]
  /\ tx_holding_primed = 0 /\ tx_holding_reg = 0
  /\ transmitting = 0 /\ shift_reg = 0
  /\ RRDY = 0 /\ rx_holding_reg = 0
  /\ ROE = FALSE /\ TOE = FALSE /\ SSO = FALSE
  /\ frame = <<>>

-----------------------------------------------------------------------------
(* The software *)

\* Fault: the two credits the first comment of the source suggests.
TwoCredits == 2

\* Entry: locals initialised, slave selected.
InitialCredits == 1

Call(q) ==
  /\ pc = "idle"
  /\ pc' = "discard"
  /\ request' = q
  /\ written' = 0 /\ write_zeros' = q.read /\ read_ignore' = q.write
  /\ credits' = InitialCredits
  /\ read_data' = <<>>
  /\ SSO' = TRUE
  /\ frame' = <<>>
  /\ UNCHANGED <<status, tx_holding_primed, tx_holding_reg, transmitting, shift_reg,
                 RRDY, rx_holding_reg, ROE, TOE>>

\* The dummy read of RXDATA that discards a stale byte.
Discard ==
  /\ pc = "discard"
  /\ pc' = "poll"
  /\ RRDY' = 0
  /\ UNCHANGED <<request, written, write_zeros, read_ignore, credits, read_data, status,
                 tx_holding_primed, tx_holding_reg, transmitting, shift_reg,
                 rx_holding_reg, ROE, TOE, SSO, frame>>

\* The read of the status register that ends the do-while.
Poll ==
  /\ pc = "poll"
  /\ (TRDY = 1 /\ credits # 0) \/ RRDY = 1
  /\ status' = [TRDY |-> TRDY, RRDY |-> RRDY]
  /\ pc' = "transmit"
  /\ UNCHANGED <<request, written, write_zeros, read_ignore, credits, read_data, core, frame>>

\* IOWR TXDATA: lost, with TOE set, when the core is not ready.
WriteTxData(b) ==
  IF TRDY = 1
  THEN /\ tx_holding_primed' = 1 /\ tx_holding_reg' = b
       /\ UNCHANGED TOE
  ELSE /\ TOE' = TRUE
       /\ UNCHANGED <<tx_holding_primed, tx_holding_reg>>

MaySend == status.TRDY = 1 /\ credits > 0
Unsent  == written < request.write \/ write_zeros > 0

\* The next byte of write_data, then the zeros that clock the answer out.
SendByte ==
  /\ credits' = credits - 1
  /\ IF written < request.write
     THEN WriteTxData(written + 1) /\ written' = written + 1 /\ UNCHANGED write_zeros
     ELSE WriteTxData(0) /\ write_zeros' = write_zeros - 1 /\ UNCHANGED written

SendNothing ==
  /\ credits' = IF MaySend THEN -1024 ELSE credits
  /\ UNCHANGED <<written, write_zeros, tx_holding_primed, tx_holding_reg, TOE>>

\* The first "if" of the loop body, on the status read at its top.
Transmit ==
  /\ pc = "transmit"
  /\ IF MaySend /\ Unsent THEN SendByte ELSE SendNothing
  /\ pc' = "receive"
  /\ UNCHANGED <<request, read_ignore, read_data, status, transmitting, shift_reg,
                 RRDY, rx_holding_reg, ROE, SSO, frame>>

\* Fault: the bytes received while the command goes out are kept.
ReceiveKeepsEcho ==
  /\ pc = "receive"
  /\ IF status.RRDY = 1
     THEN /\ RRDY' = 0
          /\ credits' = credits + 1
          /\ read_ignore' = IF read_ignore > 0 THEN read_ignore - 1 ELSE 0
          /\ read_data' = IF Len(read_data) < request.read
                          THEN Append(read_data, rx_holding_reg) ELSE read_data
          /\ pc' = IF read_ignore' = 0 /\ Len(read_data') = request.read
                   THEN "drain" ELSE "poll"
     ELSE /\ pc' = "poll"
          /\ UNCHANGED <<RRDY, credits, read_ignore, read_data>>
  /\ UNCHANGED <<request, written, write_zeros, status, tx_holding_primed, tx_holding_reg,
                 transmitting, shift_reg, rx_holding_reg, ROE, TOE, SSO, frame>>

\* The second "if", on the same status.
Receive ==
  /\ pc = "receive"
  /\ IF status.RRDY = 1
     THEN /\ RRDY' = 0
          /\ credits' = credits + 1
          /\ IF read_ignore > 0
             THEN read_ignore' = read_ignore - 1 /\ UNCHANGED read_data
             ELSE read_data' = Append(read_data, rx_holding_reg) /\ UNCHANGED read_ignore
          /\ pc' = IF read_ignore' = 0 /\ Len(read_data') = request.read
                   THEN "drain" ELSE "poll"
     ELSE /\ pc' = "poll"
          /\ UNCHANGED <<RRDY, credits, read_ignore, read_data>>
  /\ UNCHANGED <<request, written, write_zeros, status, tx_holding_primed, tx_holding_reg,
                 transmitting, shift_reg, rx_holding_reg, ROE, TOE, SSO, frame>>

\* The wait for TMT, the release of the slave, and the return.
Drain ==
  /\ pc = "drain"
  /\ TMT
  /\ SSO' = FALSE
  /\ pc' = "idle"
  /\ UNCHANGED <<request, written, write_zeros, read_ignore, credits, read_data, status,
                 tx_holding_primed, tx_holding_reg, transmitting, shift_reg, RRDY,
                 rx_holding_reg, ROE, TOE, frame>>

-----------------------------------------------------------------------------
(* The core *)

\* write_shift_reg: the holding register moves to the shift register.
LoadShift ==
  /\ tx_holding_primed = 1 /\ transmitting = 0
  /\ shift_reg' = tx_holding_reg
  /\ transmitting' = 1
  /\ tx_holding_primed' = 0
  /\ UNCHANGED <<software, tx_holding_reg, RRDY, rx_holding_reg, ROE, TOE, SSO, frame>>

\* state = 17: eight bits have been exchanged with the selected slave.
ByteDone ==
  /\ transmitting = 1
  /\ transmitting' = 0
  /\ frame' = IF SSO THEN Append(frame, shift_reg) ELSE frame
  /\ rx_holding_reg' = Len(frame')
  /\ RRDY' = 1
  /\ ROE' = (ROE \/ RRDY = 1)
  /\ UNCHANGED <<software, tx_holding_primed, tx_holding_reg, shift_reg, TOE, SSO>>

-----------------------------------------------------------------------------
Software == Discard \/ Poll \/ Transmit \/ Receive \/ Drain
Core     == LoadShift \/ ByteDone
Next     == (\E q \in Requests : Call(q)) \/ Software \/ Core

\* The CPU keeps executing and the core keeps clocking; no caller is obliged
\* to make another call.
Spec == Init /\ [][Next]_vars /\ WF_vars(Software) /\ WF_vars(Core)

-----------------------------------------------------------------------------
\* The credits of the loop are 0 or 1 and its counts of bytes never go below zero.
TypeOK ==
  /\ pc \in Labels
  /\ request \in Requests
  /\ written \in 0..MaxWrite
  /\ write_zeros \in 0..MaxRead
  /\ read_ignore \in 0..MaxWrite
  /\ credits \in {0, 1}
  /\ read_data \in Seq(Nat)
  /\ status \in [TRDY : {0, 1}, RRDY : {0, 1}]
  /\ tx_holding_primed \in {0, 1} /\ tx_holding_reg \in Nat
  /\ transmitting \in {0, 1} /\ shift_reg \in Nat
  /\ RRDY \in {0, 1} /\ rx_holding_reg \in Nat
  /\ ROE \in BOOLEAN /\ TOE \in BOOLEAN /\ SSO \in BOOLEAN
  /\ frame \in Seq(Nat)

\* The one-credit discipline: the loop and the core never have more than one
\* byte between them, so neither side of the core is ever overrun ("the
\* hardware does not seem to work with credits > 1").
NoOverrun == ~ROE /\ ~TOE

\* The call and the core stay in step: every byte handed to the core is in
\* exactly one place (holding register, shift register, unread RXDATA, or
\* received), and the loop's counters say how many were received.
Sent == written + (request.read - write_zeros)
Received == (request.write - read_ignore) + Len(read_data)

InStep ==
  pc \in {"poll", "transmit", "receive", "drain"} =>
    /\ tx_holding_primed + transmitting + RRDY = Sent - Received
    /\ Len(frame) = Received + RRDY

\* The two together: no byte is overrun, none is uncounted.
LockStep == NoOverrun /\ InStep

\* The frame and the returned bytes are those SpiExchange promises, and every
\* call returns: with more than one credit, or a stale byte left in RXDATA, an
\* answer would be shifted by one register byte.
Exchange == INSTANCE SpiExchange WITH
  busy   <- pc # "idle",
  frame  <- IF pc = "idle" THEN frame ELSE <<>>,
  answer <- IF pc = "idle" THEN read_data ELSE <<>>

\* A call is one atomic exchange of SpiExchange, whatever the two sides interleave.
ImplementsExchange == Exchange!Spec
=============================================================================
