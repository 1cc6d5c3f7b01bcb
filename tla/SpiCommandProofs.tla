-------------------------- MODULE SpiCommandProofs --------------------------
(***************************************************************************)
(* Proofs about SpiCommand, for every length of write_data and read_data:  *)
(* the SPI core is never overrun, the loop and the core never lose count   *)
(* of each other, and a call is one exchange of SpiExchange.  IInv counts  *)
(* the bytes; DataInv, on top of it, says which bytes they are.            *)
(***************************************************************************)
EXTENDS SpiCommand, TLAPS

\* The bytes handed to the core that it has not returned yet.
InFlight == tx_holding_primed + transmitting + RRDY

Looping == pc \in {"poll", "transmit", "receive"}

\* Types that the counters keep without any argument about the protocol.
LoopTypes ==
  /\ pc \in Labels
  /\ request \in Requests
  /\ written \in Nat /\ written <= request.write
  /\ write_zeros \in Nat /\ write_zeros <= request.read
  /\ read_ignore \in Nat /\ read_ignore <= request.write
  /\ credits \in {0, 1}
  /\ read_data \in Seq(Nat)
  /\ status \in [TRDY : {0, 1}, RRDY : {0, 1}]

CoreTypes ==
  /\ tx_holding_primed \in {0, 1} /\ tx_holding_reg \in Nat
  /\ transmitting \in {0, 1} /\ shift_reg \in Nat
  /\ RRDY \in {0, 1} /\ rx_holding_reg \in Nat
  /\ SSO \in BOOLEAN
  /\ frame \in Seq(Nat)

\* At most one byte is anywhere in the core, and only when the credit is spent.
OneByte ==
  /\ Looping => InFlight = 1 - credits
  /\ pc \in {"idle", "discard", "drain"} => tx_holding_primed = 0 /\ transmitting = 0
  /\ pc = "drain" => RRDY = 0

\* The counters of the loop agree with what was sent and received.
Counters ==
  /\ pc # "idle" => SSO = TRUE
  /\ pc = "discard" => /\ written = 0 /\ write_zeros = request.read
                       /\ read_ignore = request.write /\ credits = 1
                       /\ read_data = <<>> /\ frame = <<>>
  /\ Looping => /\ Sent = Received + 1 - credits
                /\ Len(frame) = Received + RRDY
                /\ Received < request.write + request.read
  /\ pc = "drain" => /\ Sent = Received /\ Len(frame) = Received
                     /\ Received = request.write + request.read
  /\ pc \in {"poll", "transmit", "receive", "drain"} =>
       /\ written < request.write => write_zeros = request.read
       /\ read_ignore > 0 => read_data = <<>>
       /\ Len(read_data) <= request.read

\* What the loop remembers of the status register is still true enough.
StatusHolds ==
  /\ pc \in {"transmit", "receive"} => (status.RRDY = 1 => RRDY = 1)
  /\ pc = "transmit" => (status.TRDY = 1 \/ status.RRDY = 1)

IInv == LoopTypes /\ CoreTypes /\ OneByte /\ Counters /\ StatusHolds /\ NoOverrun

-----------------------------------------------------------------------------
\* The lengths and the two balances are integers.
LEMMA Numbers ==
  ASSUME LoopTypes
  PROVE  /\ request.write \in Nat \ {0} /\ request.read \in Nat
         /\ Len(read_data) \in Nat
         /\ Sent \in Int /\ Received \in Int
  BY LengthAssumption DEF LoopTypes, Requests, Sent, Received

\* The reset state of the core and an idle caller satisfy the invariant.
LEMMA InitIInv == ASSUME Init PROVE IInv
<1>1. LoopTypes
  <2>1. request \in Requests
    BY LengthAssumption DEF Init, Requests
  <2> QED
    BY <2>1 DEF Init, LoopTypes, Labels
<1>2. CoreTypes
  <2>1. frame \in Seq(Nat)
    BY DEF Init
  <2> QED
    BY <2>1 DEF Init, CoreTypes
<1>3. OneByte
  BY DEF Init, OneByte, Looping
<1>4. Counters /\ StatusHolds /\ NoOverrun
  BY DEF Init, Counters, StatusHolds, NoOverrun, Looping
<1> QED
  BY <1>1, <1>2, <1>3, <1>4 DEF IInv

\* A new call starts from an idle core.
LEMMA CallIInv == ASSUME NEW q \in Requests, IInv, Call(q) PROVE IInv'
<1>1. LoopTypes'
  BY LengthAssumption DEF IInv, LoopTypes, Labels, Requests, Call, InitialCredits
<1>2. CoreTypes'
  BY LengthAssumption DEF IInv, CoreTypes, Call, InitialCredits
<1>3. OneByte'
  BY LengthAssumption
  DEF IInv, LoopTypes, Labels, Requests, CoreTypes, OneByte, Looping, InFlight, Call,
      InitialCredits
<1>4. Counters'
  BY LengthAssumption
  DEF IInv, LoopTypes, Labels, Requests, CoreTypes, OneByte, Looping, InFlight, Counters, Sent,
      Received, Call, InitialCredits
<1>5. StatusHolds'
  BY LengthAssumption
  DEF IInv, LoopTypes, Labels, Requests, CoreTypes, OneByte, Looping, InFlight, StatusHolds,
      Call, InitialCredits
<1>6. NoOverrun'
  BY LengthAssumption
  DEF IInv, CoreTypes, OneByte, Looping, InFlight, NoOverrun, Call, InitialCredits
<1> QED
  BY <1>1, <1>2, <1>3, <1>4, <1>5, <1>6 DEF IInv

\* The dummy read leaves nothing in RXDATA: the loop starts with its credit.
LEMMA DiscardIInv == ASSUME IInv, Discard PROVE IInv'
<1>a. /\ credits = 1 /\ written = 0 /\ write_zeros = request.read
      /\ read_ignore = request.write /\ SSO = TRUE
      /\ read_data = <<>> /\ Len(read_data) = 0 /\ Len(frame) = 0
  BY DEF Discard, IInv, Counters
<1>b. /\ pc' = "poll" /\ RRDY' = 0
      /\ UNCHANGED <<request, written, write_zeros, read_ignore, credits, read_data,
                   SSO, frame>>
  BY DEF Discard
<1>c. Sent' = 0 /\ Received' = 0
  BY <1>a, <1>b, Numbers DEF IInv, Sent, Received
<1>1. LoopTypes'
  BY <1>a, Numbers DEF IInv, LoopTypes, Labels, Requests, Discard
<1>2. CoreTypes'
  BY <1>a, Numbers DEF IInv, CoreTypes, Discard
<1>3. OneByte'
  BY <1>a, Numbers
  DEF IInv, LoopTypes, Labels, Requests, CoreTypes, OneByte, Looping, InFlight, Discard
<1>4. Counters'
  BY <1>a, <1>b, <1>c, Numbers DEF IInv, Counters, Looping
<1>5. StatusHolds'
  BY <1>a, Numbers
  DEF IInv, LoopTypes, Labels, Requests, CoreTypes, OneByte, Looping, InFlight, StatusHolds,
      Discard
<1>6. NoOverrun'
  BY <1>a, Numbers DEF IInv, CoreTypes, OneByte, Looping, InFlight, NoOverrun, Discard
<1> QED
  BY <1>1, <1>2, <1>3, <1>4, <1>5, <1>6 DEF IInv

\* Polling changes only the local copy of the status.
LEMMA PollIInv == ASSUME IInv, Poll PROVE IInv'
<1>1. LoopTypes'
  BY Numbers DEF IInv, CoreTypes, LoopTypes, Labels, Requests, Poll, core, TRDY
<1>2. CoreTypes'
  BY Numbers DEF IInv, CoreTypes, Poll, core, TRDY
<1>3. OneByte'
  BY Numbers DEF IInv, LoopTypes, Labels, Requests, CoreTypes, OneByte, Looping, InFlight,
     Poll, core, TRDY
<1>4. Counters'
  BY Numbers DEF IInv, LoopTypes, Labels, Requests, CoreTypes, OneByte, Looping, InFlight,
     Counters, Sent, Received, Poll, core, TRDY
<1>5. StatusHolds'
  BY Numbers DEF IInv, LoopTypes, Labels, Requests, CoreTypes, OneByte, Looping, InFlight,
     StatusHolds, Poll, core, TRDY
<1>6. NoOverrun'
  BY Numbers DEF IInv, CoreTypes, OneByte, Looping, InFlight, NoOverrun, Poll, core, TRDY
<1> QED
  BY <1>1, <1>2, <1>3, <1>4, <1>5, <1>6 DEF IInv

\* A byte is handed over only to an empty core, so it is never lost.
LEMMA TransmitIInv == ASSUME IInv, Transmit PROVE IInv'
<1>a. CASE MaySend
  <2>1. TRDY = 1 /\ tx_holding_primed = 0 /\ transmitting = 0 /\ RRDY = 0
    BY <1>a DEF Transmit, MaySend, TRDY, IInv, LoopTypes, CoreTypes, OneByte, Looping, InFlight
  <2>2. Unsent
    BY <1>a, Numbers
    DEF Transmit, MaySend, Unsent, IInv, LoopTypes, Counters, Looping, Sent, Received
  <2>a. /\ pc = "transmit" /\ pc' = "receive" /\ credits = 1 /\ credits' = 0
        /\ tx_holding_primed' = 1 /\ tx_holding_reg' \in Nat
        /\ TOE' = TOE
        /\ \/ /\ written < request.write /\ written' = written + 1
              /\ write_zeros' = write_zeros
           \/ /\ ~(written < request.write) /\ written' = written
              /\ write_zeros > 0 /\ write_zeros' = write_zeros - 1
    BY <1>a, <2>1, <2>2 DEF Transmit, SendByte, WriteTxData, MaySend, Unsent, IInv, LoopTypes
  <2>b. UNCHANGED <<request, read_ignore, read_data, status, transmitting, shift_reg,
                    RRDY, rx_holding_reg, ROE, SSO, frame>>
    BY DEF Transmit
  <2>3. LoopTypes'
    BY <2>1, <2>a, <2>b, Numbers DEF IInv, LoopTypes, Labels, Requests
  <2>4. CoreTypes'
    BY <2>1, <2>a, <2>b, Numbers DEF IInv, CoreTypes
  <2>5. OneByte'
    BY <2>1, <2>a, <2>b, Numbers
    DEF IInv, LoopTypes, Labels, Requests, CoreTypes, OneByte, Looping, InFlight
  <2>6. Counters'
    <3>1. Sent' = Sent + 1
      BY <2>a, <2>b, Numbers DEF IInv, LoopTypes, Sent
    <3>2. Received' = Received
      BY <2>b DEF Received
    <3>3. /\ SSO = TRUE /\ Sent = Received + 1 - credits /\ Len(frame) = Received + RRDY
          /\ Received < request.write + request.read
          /\ (written < request.write => write_zeros = request.read)
          /\ (read_ignore > 0 => read_data = <<>>) /\ Len(read_data) <= request.read
      BY <2>a DEF IInv, Counters, Looping
    <3>4. Sent' = Received' + 1 - credits'
      BY <2>a, <3>1, <3>2, <3>3, Numbers DEF IInv
    <3>5. /\ Len(frame') = Received' + RRDY'
          /\ Received' < request'.write + request'.read
      BY <2>b, <3>2, <3>3
    <3>6. written' < request'.write => write_zeros' = request'.read
      BY <2>a, <2>b, <3>3, Numbers DEF IInv, LoopTypes
    <3> QED
      BY <2>a, <2>b, <3>3, <3>4, <3>5, <3>6 DEF Counters, Looping
  <2>7. StatusHolds'
    BY <2>1, <2>a, <2>b, Numbers
    DEF IInv, LoopTypes, Labels, Requests, CoreTypes, OneByte, Looping, InFlight, StatusHolds
  <2>8. NoOverrun'
    BY <2>1, <2>a, <2>b, Numbers DEF IInv, CoreTypes, OneByte, Looping, InFlight, NoOverrun
  <2> QED
    BY <2>3, <2>4, <2>5, <2>6, <2>7, <2>8 DEF IInv
<1>b. CASE ~MaySend
  <2>1. LoopTypes'
    BY <1>b, Numbers DEF IInv, LoopTypes, Labels, Requests, Transmit, SendNothing, MaySend
  <2>2. CoreTypes'
    BY <1>b, Numbers DEF IInv, CoreTypes, Transmit, SendNothing, MaySend
  <2>3. OneByte'
    BY <1>b, Numbers
    DEF IInv, LoopTypes, Labels, Requests, CoreTypes, OneByte, Looping, InFlight, Transmit,
        SendNothing, MaySend
  <2>4. Counters'
    BY <1>b, Numbers
    DEF IInv, LoopTypes, Labels, Requests, CoreTypes, OneByte, Looping, InFlight, Counters,
        Sent, Received, Transmit, SendNothing, MaySend
  <2>5. StatusHolds'
    BY <1>b, Numbers
    DEF IInv, LoopTypes, Labels, Requests, CoreTypes, OneByte, Looping, InFlight, StatusHolds,
        Transmit, SendNothing, MaySend
  <2>6. NoOverrun'
    BY <1>b, Numbers
    DEF IInv, CoreTypes, OneByte, Looping, InFlight, NoOverrun, Transmit, SendNothing, MaySend
  <2> QED
    BY <2>1, <2>2, <2>3, <2>4, <2>5, <2>6 DEF IInv
<1> QED
  BY <1>a, <1>b

\* A byte taken from RXDATA gives the credit back.
LEMMA ReceiveIInv == ASSUME IInv, Receive PROVE IInv'
<1>a. CASE status.RRDY = 1 /\ read_ignore > 0
  <2>a. /\ pc = "receive" /\ RRDY = 1 /\ RRDY' = 0 /\ credits' = credits + 1
        /\ read_ignore' = read_ignore - 1 /\ read_data' = read_data
        /\ pc' = IF read_ignore' = 0 /\ Len(read_data) = request.read THEN "drain" ELSE "poll"
    BY <1>a DEF Receive, IInv, StatusHolds
  <2>b. UNCHANGED <<request, written, write_zeros, status, tx_holding_primed, tx_holding_reg,
                    transmitting, shift_reg, rx_holding_reg, ROE, TOE, SSO, frame>>
    BY DEF Receive
  <2>c. credits = 0 /\ tx_holding_primed = 0 /\ transmitting = 0
    BY <2>a DEF IInv, LoopTypes, CoreTypes, OneByte, Looping, InFlight
  <2>1. LoopTypes'
    BY <1>a, <2>a, <2>b, <2>c, Numbers DEF IInv, LoopTypes, Labels, Requests
  <2>2. CoreTypes'
    BY <1>a, <2>a, <2>b, <2>c, Numbers DEF IInv, CoreTypes
  <2>3. OneByte'
    BY <1>a, <2>a, <2>b, <2>c, Numbers
    DEF IInv, LoopTypes, Labels, Requests, CoreTypes, OneByte, Looping, InFlight
  <2>d. Sent' = Sent /\ Received' = Received + 1 /\ Len(read_data') = Len(read_data)
    BY <2>a, <2>b, Numbers DEF IInv, LoopTypes, Sent, Received
  <2>e. Sent <= request.write + request.read
    BY Numbers DEF IInv, LoopTypes, Sent
  <2>f. /\ Sent = Received + 1 /\ Len(frame) = Received + 1
        /\ Received < request.write + request.read
        /\ read_data = <<>> /\ (written < request.write => write_zeros = request.read)
        /\ Len(read_data) <= request.read /\ SSO = TRUE
    BY <1>a, <2>a, <2>c, Numbers DEF IInv, Counters, Looping
  <2>g. pc' = "drain" => Received' = request.write + request.read
    BY <2>a, <2>b, <2>d, Numbers DEF IInv, LoopTypes, Received
  <2>h. pc' = "poll" => Received' < request.write + request.read
    <3>1. /\ read_ignore' = read_ignore - 1 /\ read_ignore \in Nat /\ Len(read_data) <= request.read
          /\ Received' = request.write - read_ignore' + Len(read_data)
      BY <2>a, <2>b, <2>d, <2>f, Numbers DEF IInv, LoopTypes, Received
    <3>2. CASE read_ignore' = 0
      BY <2>a, <3>1, <3>2, Numbers DEF IInv
    <3>3. CASE read_ignore' # 0
      BY <1>a, <3>1, <3>3, Numbers DEF IInv
    <3> QED
      BY <3>2, <3>3
  <2>4. Counters'
    BY <2>a, <2>b, <2>c, <2>d, <2>f, <2>g, <2>h, Numbers DEF IInv, Counters, Looping
  <2>5. StatusHolds'
    BY <1>a, <2>a, <2>b, <2>c, Numbers
    DEF IInv, LoopTypes, Labels, Requests, CoreTypes, OneByte, Looping, InFlight, StatusHolds
  <2>6. NoOverrun'
    BY <1>a, <2>a, <2>b, <2>c, Numbers
    DEF IInv, CoreTypes, OneByte, Looping, InFlight, NoOverrun
  <2> QED
    BY <2>1, <2>2, <2>3, <2>4, <2>5, <2>6 DEF IInv
<1>b. CASE status.RRDY = 1 /\ ~(read_ignore > 0)
  <2>1. read_data' \in Seq(Nat) /\ Len(read_data') = Len(read_data) + 1
    <3>1. read_data' = Append(read_data, rx_holding_reg)
      BY <1>b DEF Receive
    <3>2. read_data \in Seq(Nat) /\ rx_holding_reg \in Nat
      BY DEF IInv, LoopTypes, CoreTypes
    <3> QED
      BY <3>1, <3>2
  <2>a. /\ pc = "receive" /\ RRDY = 1 /\ RRDY' = 0 /\ credits' = credits + 1
        /\ read_ignore = 0 /\ read_ignore' = 0
        /\ pc' = IF Len(read_data) + 1 = request.read THEN "drain" ELSE "poll"
    BY <1>b, <2>1 DEF Receive, IInv, StatusHolds, LoopTypes
  <2>b. UNCHANGED <<request, written, write_zeros, status, tx_holding_primed, tx_holding_reg,
                    transmitting, shift_reg, rx_holding_reg, ROE, TOE, SSO, frame>>
    BY DEF Receive
  <2>c. credits = 0 /\ tx_holding_primed = 0 /\ transmitting = 0
    BY <2>a DEF IInv, LoopTypes, CoreTypes, OneByte, Looping, InFlight
  <2>2. LoopTypes'
    BY <2>1, <2>a, <2>b, <2>c, Numbers DEF IInv, LoopTypes, Labels, Requests
  <2>3. CoreTypes'
    BY <2>1, <2>a, <2>b, <2>c, Numbers DEF IInv, CoreTypes
  <2>4. OneByte'
    BY <2>1, <2>a, <2>b, <2>c, Numbers
    DEF IInv, LoopTypes, Labels, Requests, CoreTypes, OneByte, Looping, InFlight
  <2>5. Counters'
    <3>1. Sent' = Sent /\ Received' = Received + 1
      <4>1. Sent' = Sent
        BY <2>b DEF Sent
      <4>2. /\ Received = (request.write - read_ignore) + Len(read_data)
            /\ Received' = (request.write - read_ignore) + (Len(read_data) + 1)
        BY <2>1, <2>a, <2>b DEF Received
      <4>3. request.write \in Int /\ read_ignore \in Int /\ Len(read_data) \in Int
        BY Numbers DEF IInv, LoopTypes
      <4> QED
        BY <4>1, <4>2, <4>3
    <3>2. /\ Sent = Received + 1 /\ Len(frame) = Received + 1
          /\ Received < request.write + request.read
          /\ (written < request.write => write_zeros = request.read)
          /\ Len(read_data) <= request.read /\ SSO = TRUE
      BY <2>a, <2>c, Numbers DEF IInv, Counters, Looping
    <3>3. Received = request.write + Len(read_data)
      BY <2>a, Numbers DEF IInv, LoopTypes, Received
    <3>4. pc' = "drain" => Received' = request.write + request.read
      BY <2>a, <3>1, <3>3, Numbers DEF IInv
    <3>5. pc' = "poll" => Received' < request.write + request.read
      BY <2>a, <3>1, <3>2, <3>3, Numbers DEF IInv
    <3>6. /\ SSO' = TRUE
          /\ (written' < request'.write => write_zeros' = request'.read)
          /\ (read_ignore' > 0 => read_data' = <<>>) /\ Len(read_data') <= request'.read
      BY <2>1, <2>a, <2>b, <3>2, <3>3, Numbers DEF IInv
    <3>7. Sent' = Received' + 1 - credits' /\ Len(frame') = Received' + RRDY'
      BY <2>a, <2>b, <2>c, <3>1, <3>2, Numbers DEF IInv
    <3>8. Sent' = Received' /\ Len(frame') = Received'
      BY <2>a, <2>b, <3>1, <3>2, Numbers DEF IInv
    <3> QED
      BY <2>a, <2>b, <3>4, <3>5, <3>6, <3>7, <3>8 DEF Counters, Looping
  <2>6. StatusHolds'
    BY <2>1, <2>a, <2>b, <2>c, Numbers
    DEF IInv, LoopTypes, Labels, Requests, CoreTypes, OneByte, Looping, InFlight, StatusHolds
  <2>7. NoOverrun'
    BY <2>1, <2>a, <2>b, <2>c, Numbers
    DEF IInv, CoreTypes, OneByte, Looping, InFlight, NoOverrun
  <2> QED
    BY <2>2, <2>3, <2>4, <2>5, <2>6, <2>7 DEF IInv
<1>c. CASE status.RRDY # 1
  <2>1. LoopTypes'
    BY <1>c, Numbers DEF IInv, LoopTypes, Labels, Requests, Receive
  <2>2. CoreTypes'
    BY <1>c, Numbers DEF IInv, CoreTypes, Receive
  <2>3. OneByte'
    BY <1>c, Numbers
    DEF IInv, LoopTypes, Labels, Requests, CoreTypes, OneByte, Looping, InFlight, Receive
  <2>4. Counters'
    BY <1>c, Numbers
    DEF IInv, LoopTypes, Labels, Requests, CoreTypes, OneByte, Looping, InFlight, Counters,
        Sent, Received, Receive
  <2>5. StatusHolds'
    BY <1>c, Numbers
    DEF IInv, LoopTypes, Labels, Requests, CoreTypes, OneByte, Looping, InFlight, StatusHolds,
        Receive
  <2>6. NoOverrun'
    BY <1>c, Numbers DEF IInv, CoreTypes, OneByte, Looping, InFlight, NoOverrun, Receive
  <2> QED
    BY <2>1, <2>2, <2>3, <2>4, <2>5, <2>6 DEF IInv
<1> QED
  BY <1>a, <1>b, <1>c DEF IInv, LoopTypes

\* The slave is released from an idle core.
LEMMA DrainIInv == ASSUME IInv, Drain PROVE IInv'
<1>1. LoopTypes'
  BY Numbers DEF IInv, LoopTypes, Labels, Requests, Drain
<1>2. CoreTypes'
  BY Numbers DEF IInv, CoreTypes, Drain
<1>3. OneByte'
  BY Numbers DEF IInv, LoopTypes, Labels, Requests, CoreTypes, OneByte, Looping, InFlight, Drain
<1>4. Counters'
  BY Numbers DEF IInv, LoopTypes, Labels, Requests, CoreTypes, OneByte, Looping, InFlight,
     Counters, Sent, Received, Drain
<1>5. StatusHolds'
  BY Numbers DEF IInv, LoopTypes, Labels, Requests, CoreTypes, OneByte, Looping, InFlight,
     StatusHolds, Drain
<1>6. NoOverrun'
  BY Numbers DEF IInv, CoreTypes, OneByte, Looping, InFlight, NoOverrun, Drain
<1> QED
  BY <1>1, <1>2, <1>3, <1>4, <1>5, <1>6 DEF IInv

\* The core moves the one byte to the shift register.
LEMMA LoadShiftIInv == ASSUME IInv, LoadShift PROVE IInv'
<1>1. LoopTypes'
  BY Numbers DEF IInv, LoopTypes, Labels, Requests, LoadShift, software
<1>2. CoreTypes'
  BY Numbers DEF IInv, CoreTypes, LoadShift, software
<1>3. OneByte'
  BY Numbers DEF IInv, LoopTypes, Labels, Requests, CoreTypes, OneByte, Looping, InFlight,
     LoadShift, software
<1>4. Counters'
  BY Numbers DEF IInv, LoopTypes, Labels, Requests, CoreTypes, OneByte, Looping, InFlight,
     Counters, Sent, Received, LoadShift, software
<1>5. StatusHolds'
  BY Numbers DEF IInv, LoopTypes, Labels, Requests, CoreTypes, OneByte, Looping, InFlight,
     StatusHolds, LoadShift, software
<1>6. NoOverrun'
  BY Numbers DEF IInv, CoreTypes, OneByte, Looping, InFlight, NoOverrun, LoadShift, software
<1> QED
  BY <1>1, <1>2, <1>3, <1>4, <1>5, <1>6 DEF IInv

\* When a byte completes RXDATA is empty, so it overwrites nothing.
LEMMA ByteDoneIInv == ASSUME IInv, ByteDone PROVE IInv'
<1>a. Looping /\ SSO = TRUE /\ RRDY = 0 /\ tx_holding_primed = 0
  BY Numbers DEF ByteDone, IInv, LoopTypes, CoreTypes, OneByte, Counters, Looping, InFlight,
     Labels
<1>b. frame' = Append(frame, shift_reg) /\ frame' \in Seq(Nat) /\ Len(frame') = Len(frame) + 1
  BY <1>a DEF ByteDone, IInv, CoreTypes
<1>1. LoopTypes'
  BY <1>a, <1>b, Numbers DEF IInv, LoopTypes, Labels, Requests, ByteDone, software
<1>2. CoreTypes'
  BY <1>a, <1>b, Numbers DEF IInv, CoreTypes, ByteDone, software
<1>3. OneByte'
  BY <1>a, <1>b, Numbers
  DEF IInv, LoopTypes, Labels, Requests, CoreTypes, OneByte, Looping, InFlight, ByteDone,
      software
<1>4. Counters'
  BY <1>a, <1>b, Numbers
  DEF IInv, LoopTypes, Labels, Requests, CoreTypes, OneByte, Looping, InFlight, Counters, Sent,
      Received, ByteDone, software
<1>5. StatusHolds'
  BY <1>a, <1>b, Numbers
  DEF IInv, LoopTypes, Labels, Requests, CoreTypes, OneByte, Looping, InFlight, StatusHolds,
      ByteDone, software
<1>6. NoOverrun'
  <2>1. ROE' = (ROE \/ RRDY = 1) /\ TOE' = TOE
    BY DEF ByteDone
  <2>2. ~ROE /\ ~TOE /\ ~(RRDY = 1)
    BY <1>a DEF IInv, NoOverrun
  <2> QED
    BY <2>1, <2>2, Zenon DEF NoOverrun
<1> QED
  BY <1>1, <1>2, <1>3, <1>4, <1>5, <1>6 DEF IInv

\* Nothing changes.
LEMMA StutterIInv == ASSUME IInv, UNCHANGED vars PROVE IInv'
<1>1. LoopTypes'
  BY DEF IInv, LoopTypes, Labels, Requests, vars, software, core
<1>2. CoreTypes'
  BY DEF IInv, CoreTypes, vars, software, core
<1>3. OneByte'
  BY DEF IInv, LoopTypes, Labels, Requests, CoreTypes, OneByte, Looping, InFlight, vars,
     software, core
<1>4. Counters'
  BY DEF IInv, LoopTypes, Labels, Requests, CoreTypes, OneByte, Looping, InFlight, Counters,
     Sent, Received, vars, software, core
<1>5. StatusHolds'
  BY DEF IInv, LoopTypes, Labels, Requests, CoreTypes, OneByte, Looping, InFlight, StatusHolds,
     vars, software, core
<1>a. ROE' = ROE /\ TOE' = TOE
  BY DEF vars, core
<1>6. NoOverrun'
  BY <1>a DEF IInv, NoOverrun
<1> QED
  BY <1>1, <1>2, <1>3, <1>4, <1>5, <1>6 DEF IInv

\* The strengthening is inductive: it holds in every reachable state.
THEOREM SpecIInv == Spec => []IInv
<1>1. IInv /\ [Next]_vars => IInv'
  BY CallIInv, DiscardIInv, PollIInv, TransmitIInv, ReceiveIInv, DrainIInv, LoadShiftIInv,
     ByteDoneIInv, StutterIInv DEF Next, Software, Core
<1> QED
  BY InitIInv, <1>1, PTL DEF Spec

\* Neither register of the SPI core is ever overrun, for calls of any length.
THEOREM SpecNoOverrun == Spec => []NoOverrun
<1>1. IInv => NoOverrun
  BY DEF IInv
<1> QED
  BY SpecIInv, <1>1, PTL

\* Every byte handed to the core is in exactly one place, and the loop's
\* counters say how many came back.
THEOREM SpecInStep == Spec => []InStep
<1>1. IInv => InStep
  BY Numbers DEF IInv, CoreTypes, OneByte, Counters, Looping, InStep, InFlight
<1> QED
  BY SpecIInv, <1>1, PTL

\* Loop and core stay in step, for calls of any length: LockStep.
THEOREM SpecLockStep == Spec => []LockStep
  BY SpecNoOverrun, SpecInStep, PTL DEF LockStep

-----------------------------------------------------------------------------
(* A call is one exchange of SpiExchange *)

\* The byte a frame of the current request has at position k.
Nth(k) == IF k <= request.write THEN k ELSE 0

\* Wherever the one byte is, it is the next one of the frame, and what was
\* stored is the answer to the zeros, from the first one on.
DataInv ==
  /\ \A k \in 1..Len(frame) : frame[k] = Nth(k)
  /\ tx_holding_primed = 1 => tx_holding_reg = Nth(Len(frame) + 1)
  /\ transmitting = 1 => shift_reg = Nth(Len(frame) + 1)
  /\ Looping /\ RRDY = 1 => rx_holding_reg = Len(frame)
  /\ \A k \in 1..Len(read_data) : read_data[k] = request.write + k

\* A byte appended to a sequence whose elements follow a rule keeps the rule.
LEMMA AppendKeeps ==
  ASSUME NEW s \in Seq(Nat), NEW b \in Nat, NEW rule,
         \A k \in 1..Len(s) : s[k] = rule[k], b = rule[Len(s) + 1]
  PROVE  \A k \in 1..Len(Append(s, b)) : Append(s, b)[k] = rule[k]
<1>1. Len(Append(s, b)) = Len(s) + 1 /\ Len(s) \in Nat
  OBVIOUS
<1> TAKE k \in 1..Len(Append(s, b))
<1>2. CASE k = Len(s) + 1
  BY <1>1, <1>2
<1>3. CASE k # Len(s) + 1
  BY <1>1, <1>3
<1> QED
  BY <1>2, <1>3

\* What moves no byte and changes no request keeps the data.
LEMMA SameData ==
  ASSUME DataInv, UNCHANGED <<frame, tx_holding_primed, tx_holding_reg, transmitting, shift_reg,
                              read_data, request>>,
         Looping' /\ RRDY' = 1 => rx_holding_reg' = Len(frame)
  PROVE  DataInv'
  BY DEF DataInv, Nth

\* A call starts with nothing sent and nothing stored.
LEMMA CallData == ASSUME NEW q \in Requests, IInv, Call(q) PROVE DataInv'
<1>1. /\ frame' = <<>> /\ read_data' = <<>> /\ pc' = "discard"
      /\ tx_holding_primed' = 0 /\ transmitting' = 0
  BY DEF Call, IInv, OneByte
<1> QED
  BY <1>1 DEF DataInv, Looping

\* The byte handed over is the one the frame lacks.
LEMMA TransmitData == ASSUME IInv, DataInv, Transmit PROVE DataInv'
<1>a. UNCHANGED <<request, read_data, transmitting, shift_reg, RRDY, rx_holding_reg, frame>>
  BY DEF Transmit
<1>b. pc = "transmit" /\ pc' = "receive"
  BY DEF Transmit
<1>1. CASE MaySend /\ Unsent
  <2>1. TRDY = 1 /\ tx_holding_primed = 0 /\ transmitting = 0 /\ RRDY = 0 /\ credits = 1
    BY <1>1, <1>b DEF MaySend, TRDY, IInv, LoopTypes, CoreTypes, OneByte, Looping, InFlight
  <2>2. Len(frame) = Sent /\ (written < request.write => write_zeros = request.read)
    BY <1>b, <2>1, Numbers DEF IInv, Counters, Looping
  <2>3. \/ written < request.write /\ tx_holding_reg' = written + 1
        \/ ~(written < request.write) /\ tx_holding_reg' = 0
    BY <1>1, <2>1 DEF Transmit, SendByte, WriteTxData
  <2>4. tx_holding_reg' = Nth(Len(frame) + 1)
    <3>1. CASE written < request.write
      <4>1. Len(frame) = written
        BY <2>2, <3>1, Numbers DEF IInv, LoopTypes, Sent
      <4> QED
        BY <2>3, <3>1, <4>1, Numbers DEF IInv, LoopTypes, Nth
    <3>2. CASE ~(written < request.write)
      <4>1. Len(frame) >= request.write
        BY <2>2, <3>2, Numbers DEF IInv, LoopTypes, Sent
      <4> QED
        BY <2>3, <3>2, <4>1, Numbers DEF IInv, LoopTypes, Nth
    <3> QED
      BY <3>1, <3>2
  <2> QED
    BY <1>a, <2>1, <2>4 DEF DataInv, Nth
<1>2. CASE ~(MaySend /\ Unsent)
  <2>1. UNCHANGED <<tx_holding_primed, tx_holding_reg>>
    BY <1>2 DEF Transmit, SendNothing
  <2>2. Looping' /\ RRDY' = 1 => rx_holding_reg' = Len(frame)
    BY <1>a, <1>b DEF DataInv, Looping
  <2> QED
    BY <1>a, <2>1, <2>2, SameData
<1> QED
  BY <1>1, <1>2

\* The byte stored answers the next zero: all the bytes before it were ignored
\* or stored.
LEMMA ReceiveData == ASSUME IInv, DataInv, Receive PROVE DataInv'
<1>a. UNCHANGED <<request, tx_holding_primed, tx_holding_reg, transmitting, shift_reg,
                  rx_holding_reg, frame>>
  BY DEF Receive
<1>b. pc = "receive"
  BY DEF Receive
<1>1. CASE status.RRDY = 1 /\ ~(read_ignore > 0)
  <2>1. RRDY = 1 /\ RRDY' = 0 /\ read_ignore = 0
    BY <1>1, <1>b DEF Receive, IInv, StatusHolds, LoopTypes
  <2>2. read_data' = Append(read_data, rx_holding_reg)
    BY <1>1 DEF Receive
  <2>3. read_data \in Seq(Nat) /\ rx_holding_reg \in Nat
    BY DEF IInv, LoopTypes, CoreTypes
  <2>4. rx_holding_reg = Len(frame) /\ Len(frame) = Received + 1
    BY <1>b, <2>1 DEF DataInv, IInv, Counters, Looping
  <2>5. rx_holding_reg = request.write + (Len(read_data) + 1)
    <3>1. request.write \in Nat /\ Len(read_data) \in Nat
      BY Numbers DEF IInv
    <3>2. Received = (request.write - read_ignore) + Len(read_data)
      BY DEF Received
    <3> QED
      BY <2>1, <2>4, <3>1, <3>2
  <2> DEFINE rule == [k \in Nat |-> request.write + k]
  <2>6. \A k \in 1..Len(read_data) : read_data[k] = rule[k]
    BY <2>3 DEF DataInv
  <2>7. rx_holding_reg = rule[Len(read_data) + 1]
    BY <2>3, <2>5
  <2>8. \A k \in Nat : rule[k] = request.write + k
    OBVIOUS
  <2> HIDE DEF rule
  <2>9. \A k \in 1..Len(read_data') : read_data'[k] = rule[k]
    BY <2>2, <2>3, <2>6, <2>7, AppendKeeps
  <2>10. \A k \in 1..Len(read_data') : read_data'[k] = request'.write + k
    BY <1>a, <2>8, <2>9
  <2> QED
    BY <1>a, <2>1, <2>10 DEF DataInv, Nth
<1>2. CASE ~(status.RRDY = 1 /\ ~(read_ignore > 0))
  <2>1. UNCHANGED read_data
    BY <1>2 DEF Receive
  <2>2. RRDY' = 1 => RRDY = 1
    BY DEF Receive
  <2>3. Looping' /\ RRDY' = 1 => rx_holding_reg' = Len(frame)
    BY <1>a, <1>b, <2>2 DEF DataInv, Looping
  <2> QED
    BY <1>a, <2>1, <2>3, SameData
<1> QED
  BY <1>1, <1>2

\* The byte that completes is the next of the frame, and its answer is its index.
LEMMA ByteDoneData == ASSUME IInv, DataInv, ByteDone PROVE DataInv'
<1>1. Looping /\ SSO = TRUE /\ transmitting = 1 /\ tx_holding_primed = 0
  BY Numbers DEF ByteDone, IInv, LoopTypes, CoreTypes, OneByte, Counters, Looping, InFlight,
     Labels
<1>2. /\ frame' = Append(frame, shift_reg) /\ rx_holding_reg' = Len(frame')
      /\ transmitting' = 0 /\ UNCHANGED <<tx_holding_primed, request, read_data>>
  BY <1>1 DEF ByteDone, software
<1>3. frame \in Seq(Nat) /\ shift_reg \in Nat
  BY DEF IInv, CoreTypes
<1> DEFINE rule == [k \in Nat |-> Nth(k)]
<1>4. (\A k \in 1..Len(frame) : frame[k] = rule[k]) /\ shift_reg = rule[Len(frame) + 1]
  BY <1>1, <1>3 DEF DataInv
<1>5. \A k \in Nat : rule[k] = IF k <= request.write THEN k ELSE 0
  BY DEF Nth
<1> HIDE DEF rule
<1>6. \A k \in 1..Len(frame') : frame'[k] = rule[k]
  BY <1>2, <1>3, <1>4, AppendKeeps
<1>7. \A k \in 1..Len(frame') : frame'[k] = IF k <= request.write THEN k ELSE 0
  BY <1>5, <1>6
<1> QED
  BY <1>1, <1>2, <1>7 DEF DataInv, Nth

\* The data keep their places in every other step.
LEMMA OtherData ==
  ASSUME IInv, DataInv, Discard \/ Poll \/ Drain \/ LoadShift \/ UNCHANGED vars
  PROVE  DataInv'
<1>1. CASE Discard
  BY <1>1, SameData DEF Discard
<1>2. CASE Poll
  BY <1>2, SameData DEF Poll, core, DataInv, Looping
<1>3. CASE Drain
  BY <1>3, SameData DEF Drain, Looping
<1>4. CASE LoadShift
  BY <1>4 DEF LoadShift, software, DataInv, Looping, Nth
<1>5. CASE UNCHANGED vars
  BY <1>5, SameData DEF vars, software, core, DataInv, Looping
<1> QED
  BY <1>1, <1>2, <1>3, <1>4, <1>5

\* The data are right in every reachable state.
LEMMA SpecDataInv == Spec => [](IInv /\ DataInv)
<1>1. Init => DataInv
  BY DEF Init, DataInv, Looping
<1>2. IInv /\ DataInv /\ [Next]_vars => DataInv'
  BY CallData, TransmitData, ReceiveData, ByteDoneData, OtherData DEF Next, Software, Core
<1> QED
  BY SpecIInv, <1>1, <1>2, PTL DEF Spec

\* The end of a call: the frame is complete and so is the answer.
LEMMA DrainEnds == ASSUME IInv, DataInv, Drain PROVE Exchange!End
<1>1. pc = "drain" /\ pc' = "idle" /\ UNCHANGED <<request, frame, read_data>>
  BY DEF Drain
<1>2. /\ Len(frame) = request.write + request.read
      /\ Len(read_data) = request.read
  <2>1. /\ Len(frame) = Received /\ Received = request.write + request.read
        /\ (read_ignore > 0 => read_data = <<>>) /\ Len(read_data) <= request.read
    BY <1>1 DEF IInv, Counters
  <2>2. read_ignore = 0
    BY <2>1, Numbers DEF IInv, LoopTypes, Received
  <2> QED
    BY <2>1, <2>2, Numbers DEF IInv, LoopTypes, Received
<1>3. frame \in Seq(Nat) /\ read_data \in Seq(Nat)
  BY DEF IInv, LoopTypes, CoreTypes
<1>4. frame = Exchange!Frame(request)
  <2>1. frame = [i \in 1..Len(frame) |-> frame[i]]
    BY <1>3
  <2> QED
    BY <1>2, <2>1 DEF DataInv, Nth, Exchange!Frame
<1>5. read_data = Exchange!Answer(request)
  <2>1. read_data = [i \in 1..Len(read_data) |-> read_data[i]]
    BY <1>3
  <2> QED
    BY <1>2, <2>1 DEF DataInv, Exchange!Answer
<1> QED
  BY <1>1, <1>4, <1>5 DEF Exchange!End

\* Whatever happens between the first and the last step of a call shows its
\* caller nothing: the safety part of ImplementsExchange, for every length of
\* command and answer.
THEOREM SpecExchanges ==
  Spec => Exchange!Init /\ [][Exchange!Next]_(Exchange!vars)
<1>1. Init => Exchange!Init
  BY DEF Init, Exchange!Init
<1>2. IInv /\ DataInv /\ [Next]_vars => [Exchange!Next]_(Exchange!vars)
  <2> SUFFICES ASSUME IInv, DataInv, [Next]_vars PROVE [Exchange!Next]_(Exchange!vars)
    OBVIOUS
  <2>1. ASSUME NEW q \in Requests, Call(q) PROVE Exchange!Next
    <3>1. Exchange!Begin(q)
      BY <2>1 DEF Call, Exchange!Begin
    <3>2. q \in Exchange!Requests
      BY DEF Requests, Exchange!Requests
    <3> QED
      BY <3>1, <3>2 DEF Exchange!Next
  <2>2. CASE Drain
    BY <2>2, DrainEnds DEF Exchange!Next
  <2>3. ASSUME Discard \/ Poll \/ Transmit \/ Receive PROVE UNCHANGED Exchange!vars
    <3>1. pc # "idle" /\ pc' # "idle" /\ request' = request
      BY <2>3 DEF Discard, Poll, Transmit, Receive
    <3> QED
      BY <3>1 DEF Exchange!vars
  <2>4. ASSUME LoadShift \/ ByteDone PROVE UNCHANGED Exchange!vars
    <3>1. pc # "idle" /\ pc' = pc /\ request' = request
      BY <2>4 DEF LoadShift, ByteDone, software, IInv, OneByte
    <3> QED
      BY <3>1 DEF Exchange!vars
  <2>5. CASE UNCHANGED vars
    BY <2>5 DEF vars, software, core, Exchange!vars
  <2> QED
    BY <2>1, <2>2, <2>3, <2>4, <2>5 DEF Next, Software, Core
<1> QED
  BY SpecDataInv, <1>1, <1>2, PTL DEF Spec
=============================================================================
