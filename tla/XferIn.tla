------------------------------- MODULE XferIn -------------------------------
(***************************************************************************)
(* The poll of an interrupt endpoint: kbdPoll and mousePoll (HID.c) call   *)
(* XferInTransfer, which calls XferDispatchPkt (transfer.c), against the   *)
(* MAX3421E, a bus that loses and garbles packets, and a device that makes *)
(* reports at any time.  The data toggle is the only thing that tells a    *)
(* packet that is sent again from the next one.                            *)
(*                                                                         *)
(* A packet is the number of the report it belongs to, with its size.      *)
(***************************************************************************)
EXTENDS Integers, Sequences

CONSTANTS
  NakLimit,      \* USB_NAK_LIMIT
  RetryLimit,    \* USB_RETRY_LIMIT
  MaxPktSize,    \* epinfo[1].MaxPktSize, the size the device splits reports at
  ReportSize,    \* the bytes of a report
  Requested,     \* nbytes
  MaxReports     \* bound: the reports a device makes

ASSUME SizesAssumption ==
  /\ NakLimit \in Nat \ {0} /\ RetryLimit \in Nat \ {0}
  /\ MaxPktSize \in Nat \ {0} /\ ReportSize \in Nat \ {0} /\ Requested \in Nat \ {0}
  /\ MaxReports \in Nat

VARIABLES
  \* the device
  made,          \* the reports made so far
  current,       \* the report it is sending, or will send
  left,          \* the bytes of that report not yet acknowledged
  device_toggle,
  \* the chip
  toggle,        \* the receive toggle: set through rHCTL, read as RCVTOGRD
  HXFRDNIRQ, RCVDAVIRQ,
  HRSLT,         \* rHRSL, the result of the last transaction
  fifo,          \* the packet in RCVFIFO: [report, size]
  \* the firmware
  pc,            \* where the poll is
  rcvToggle,     \* epinfo[1].rcvToggle
  nak_count, retry_count,
  rcode,         \* what the last call returned
  xfrlen, data,  \* the bytes and the packets stored in this poll
  delivered      \* what the polls that returned 0 left in the buffer

device   == <<made, current, left, device_toggle>>
chip     == <<toggle, HXFRDNIRQ, RCVDAVIRQ, HRSLT, fifo>>
firmware == <<pc, rcvToggle, nak_count, retry_count, rcode, xfrlen, data, delivered>>
vars     == <<device, chip, firmware>>

hrSUCCESS == 0
hrNAK     == 4
hrTOGERR  == 6
hrCRCERR  == 11    \* for every code that is neither of the others
hrTIMEOUT == 14
Expired   == 255   \* 0xff
NoData    == 240   \* 0xf0

Results == {hrSUCCESS, hrNAK, hrTOGERR, hrCRCERR, hrTIMEOUT}
Labels  == {"idle", "launch", "wait", "read"}
Flip(t) == 1 - t

Init ==
  /\ made = 0 /\ current = 1 /\ left = ReportSize /\ device_toggle = 0
  /\ toggle = 0 /\ HXFRDNIRQ = 0 /\ RCVDAVIRQ = 0 /\ HRSLT = hrSUCCESS
  /\ fifo = [report |-> 0, size |-> 0]
  /\ pc = "idle" /\ rcvToggle = 0 /\ nak_count = 0 /\ retry_count = 0
  /\ rcode = 0 /\ xfrlen = 0 /\ data = <<>> /\ delivered = <<>>

-----------------------------------------------------------------------------
(* The firmware *)

\* The entry of XferInTransfer and of its first XferDispatchPkt.
Poll ==
  /\ pc = "idle"
  /\ pc' = "launch"
  /\ toggle' = rcvToggle
  /\ nak_count' = 0 /\ retry_count' = 0
  /\ xfrlen' = 0 /\ data' = <<>>
  /\ UNCHANGED <<device, HXFRDNIRQ, RCVDAVIRQ, HRSLT, fifo, rcvToggle, rcode, delivered>>

\* The write of rHXFR.
Launch ==
  /\ pc = "launch"
  /\ pc' = "wait"
  /\ UNCHANGED <<device, chip, rcvToggle, nak_count, retry_count, rcode, xfrlen, data, delivered>>

\* A result other than success, whatever the counters say, ends the poll.
Return(r) ==
  /\ pc' = "idle"
  /\ rcode' = r

\* Fault: a NAK is not counted.
CountNakNever ==
  /\ HRSLT = hrNAK
  /\ pc' = "launch"
  /\ UNCHANGED <<nak_count, retry_count, rcode>>

CountNak ==
  /\ HRSLT = hrNAK
  /\ nak_count' = nak_count + 1
  /\ IF nak_count' = NakLimit THEN Return(hrNAK) ELSE pc' = "launch" /\ UNCHANGED rcode
  /\ UNCHANGED retry_count

CountRetry ==
  /\ HRSLT = hrTIMEOUT
  /\ retry_count' = retry_count + 1
  /\ IF retry_count' = RetryLimit THEN Return(hrTIMEOUT) ELSE pc' = "launch" /\ UNCHANGED rcode
  /\ UNCHANGED nak_count

OtherResult ==
  /\ HRSLT \notin {hrNAK, hrTIMEOUT}
  /\ IF HRSLT = hrSUCCESS THEN pc' = "read" /\ UNCHANGED rcode ELSE Return(HRSLT)
  /\ UNCHANGED <<nak_count, retry_count>>

\* The transfer-done interrupt is seen, cleared, and the result is read.
Done ==
  /\ pc = "wait" /\ HXFRDNIRQ = 1
  /\ HXFRDNIRQ' = 0
  /\ CountNak \/ CountRetry \/ OtherResult
  /\ UNCHANGED <<device, toggle, RCVDAVIRQ, HRSLT, fifo, rcvToggle, xfrlen, data, delivered>>

\* The clock reaches the deadline before any answer.
Expire ==
  /\ pc = "wait" /\ HXFRDNIRQ = 0
  /\ Return(Expired)
  /\ UNCHANGED <<device, chip, rcvToggle, nak_count, retry_count, xfrlen, data, delivered>>

\* Fault: only a short packet ends the transfer.
CompleteWhenShort == fifo.size < MaxPktSize

Complete == fifo.size < MaxPktSize \/ xfrlen' >= Requested

\* Fault: the toggle is not saved for the next poll.
SaveNothing == UNCHANGED rcvToggle

SaveToggle == rcvToggle' = toggle

\* The packet is stored; a short one, or the last of nbytes, ends the transfer.
Store ==
  /\ RCVDAVIRQ' = 0
  /\ xfrlen' = xfrlen + fifo.size
  /\ data' = Append(data, fifo.report)
  /\ IF Complete
     THEN /\ SaveToggle
          /\ Return(0)
          /\ delivered' = Append(delivered, data')
          /\ UNCHANGED <<nak_count, retry_count>>
     ELSE /\ pc' = "launch"
          /\ nak_count' = 0 /\ retry_count' = 0
          /\ UNCHANGED <<rcvToggle, rcode, delivered>>

Read ==
  /\ pc = "read"
  /\ IF RCVDAVIRQ = 1
     THEN Store
     ELSE Return(NoData) /\ UNCHANGED <<RCVDAVIRQ, rcvToggle, nak_count, retry_count, xfrlen,
                                        data, delivered>>
  /\ UNCHANGED <<device, toggle, HXFRDNIRQ, HRSLT, fifo>>

-----------------------------------------------------------------------------
(* The device, the bus and the chip *)

MakeReport ==
  /\ made < MaxReports
  /\ made' = made + 1
  /\ UNCHANGED <<current, left, device_toggle, chip, firmware>>

Answer(r) ==
  /\ pc = "wait" /\ HXFRDNIRQ = 0
  /\ HXFRDNIRQ' = 1
  /\ HRSLT' = r

PacketSize == IF left < MaxPktSize THEN left ELSE MaxPktSize

\* The token or the packet is lost, or the packet arrives garbled.
AnswerLost ==
  /\ \E r \in {hrTIMEOUT, hrCRCERR} : Answer(r)
  /\ UNCHANGED <<device, toggle, RCVDAVIRQ, fifo, firmware>>

AnswerNak ==
  /\ current > made
  /\ Answer(hrNAK)
  /\ UNCHANGED <<device, toggle, RCVDAVIRQ, fifo, firmware>>

\* The device is acknowledged: the next packet, with the other toggle.
Advance ==
  /\ device_toggle' = Flip(device_toggle)
  /\ IF left > MaxPktSize THEN left' = left - MaxPktSize /\ UNCHANGED current
                          ELSE left' = ReportSize /\ current' = current + 1
  /\ UNCHANGED made

\* The packet arrives: taken if its toggle is the one expected, acknowledged
\* in any case.
Arrive ==
  /\ current <= made
  /\ IF device_toggle = toggle
     THEN /\ Answer(hrSUCCESS)
          /\ RCVDAVIRQ' = 1
          /\ fifo' = [report |-> current, size |-> PacketSize]
          /\ toggle' = Flip(toggle)
     ELSE /\ Answer(hrTOGERR)
          /\ UNCHANGED <<RCVDAVIRQ, fifo, toggle>>
  /\ UNCHANGED firmware

AnswerAcked    == Arrive /\ Advance
AnswerAckLost  == Arrive /\ UNCHANGED device

-----------------------------------------------------------------------------
Firmware == Poll \/ Launch \/ Done \/ Expire \/ Read
Bus      == AnswerLost \/ AnswerNak \/ AnswerAcked \/ AnswerAckLost
Next     == Firmware \/ MakeReport \/ Bus

\* The loop keeps running; a bus that is tried again and again works sometimes.
Spec == Init /\ [][Next]_vars /\ WF_vars(Firmware) /\ SF_vars(AnswerAcked)

-----------------------------------------------------------------------------
\* The reports this code handles: one packet each, short or the whole request.
OnePacket ==
  /\ ReportSize <= MaxPktSize
  /\ ReportSize < MaxPktSize \/ ReportSize >= Requested

\* The counters of XferDispatchPkt stop at their limits, although each is
\* compared for equality only.
TypeOK ==
  /\ made \in 0..MaxReports /\ current \in 1..(MaxReports + 1)
  /\ left \in 1..ReportSize /\ device_toggle \in {0, 1}
  /\ toggle \in {0, 1} /\ HXFRDNIRQ \in {0, 1} /\ RCVDAVIRQ \in {0, 1}
  /\ HRSLT \in Results
  /\ fifo \in [report : 0..MaxReports, size : 0..MaxPktSize]
  /\ pc \in Labels /\ rcvToggle \in {0, 1}
  /\ nak_count \in 0..NakLimit /\ retry_count \in 0..RetryLimit
  /\ rcode \in Results \cup {Expired, NoData}
  /\ xfrlen \in Nat /\ data \in Seq(1..MaxReports) /\ delivered \in Seq(Seq(1..MaxReports))

\* Between polls the host expects what the device will send, or the device
\* still holds the packet delivered last, whose acknowledgement was lost, and
\* the host will refuse it.
ToggleAgrees ==
  pc = "idle" =>
    \/ current = Len(delivered) + 1 /\ rcvToggle = device_toggle
    \/ current = Len(delivered) /\ rcvToggle # device_toggle

\* Each report is delivered once, whole and in order, whatever is lost,
\* garbled, refused or timed out.
Stream == INSTANCE ReportStream WITH received <- delivered

\* XferInTransfer, called again and again, is the stream of ReportStream.
ImplementsStream == Stream!Spec

\* "NAK means no new data": a poll that returns hrNAK has taken no packet.
NakMeansNoNewData ==
  [][pc # "idle" /\ pc' = "idle" /\ rcode' = hrNAK => data = <<>>]_vars

\* The poll returns to the main loop, however often the device refuses.
PollReturns == pc # "idle" ~> pc = "idle"

\* A report that is made reaches main.
ReportsArrive == \A n \in 1..MaxReports : made >= n ~> Len(delivered) >= n
=============================================================================
