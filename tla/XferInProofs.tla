---------------------------- MODULE XferInProofs ----------------------------
(***************************************************************************)
(* Proofs about XferIn, for any limits, any number of reports and any      *)
(* sizes with which a report is one packet: the toggle protocol delivers   *)
(* every report once, whole and in order.                                  *)
(***************************************************************************)
EXTENDS XferIn, TLAPS

DeviceTypes ==
  /\ made \in 0..MaxReports /\ current \in 1..(MaxReports + 1)
  /\ left = ReportSize /\ device_toggle \in {0, 1}
  /\ current <= made + 1
ChipTypes ==
  /\ toggle \in {0, 1} /\ HXFRDNIRQ \in {0, 1} /\ RCVDAVIRQ \in {0, 1}
  /\ HRSLT \in Results
  /\ fifo \in [report : 0..MaxReports, size : 0..MaxPktSize]
PollTypes ==
  /\ pc \in Labels /\ rcvToggle \in {0, 1}
  /\ nak_count \in 0..NakLimit /\ retry_count \in 0..RetryLimit
  /\ pc # "idle" => nak_count < NakLimit /\ retry_count < RetryLimit
  /\ rcode \in Results \cup {Expired, NoData}
BufferTypes ==
  /\ xfrlen \in Nat /\ data \in Seq(1..MaxReports) /\ delivered \in Seq(Seq(1..MaxReports))
  /\ pc # "idle" => xfrlen = 0 /\ data = <<>>

\* The chip has taken a packet that main has not received yet.
Taken == \/ pc = "read"
         \/ pc = "wait" /\ HXFRDNIRQ = 1 /\ HRSLT = hrSUCCESS

Next1 == Len(delivered) + 1

\* Nothing is in the chip: the device holds the packet expected, or the one
\* delivered last, which the toggle will have refused.
Waiting ==
  ~Taken => /\ \/ current = Next1 /\ rcvToggle = device_toggle
               \/ current = Len(delivered) /\ rcvToggle # device_toggle
            /\ pc \in {"launch", "wait"} => toggle = rcvToggle

\* The packet in the chip is the one expected, acknowledged or not.
Holding ==
  Taken => /\ \/ current = Next1 /\ rcvToggle = device_toggle
              \/ current = Next1 + 1 /\ rcvToggle # device_toggle
           /\ toggle = Flip(rcvToggle)
           /\ RCVDAVIRQ = 1
           /\ fifo.report = Next1 /\ fifo.size = ReportSize
           /\ Next1 <= made

\* What has been delivered is the reports made, from the first, in order.
InOrder == \A i \in 1..Len(delivered) : delivered[i] = <<i>>

Quiet == HXFRDNIRQ = 1 => pc = "wait"

Types == DeviceTypes /\ ChipTypes /\ PollTypes /\ BufferTypes
IInv  == Types /\ Waiting /\ Holding /\ InOrder /\ Quiet

USE DEF hrSUCCESS, hrNAK, hrTOGERR, hrCRCERR, hrTIMEOUT, Expired, NoData, Results, Labels,
        device, chip, firmware

-----------------------------------------------------------------------------
(* The initial state and every step *)

LEMMA InitIInv == ASSUME Init, OnePacket PROVE IInv
<1>1. DeviceTypes /\ ChipTypes /\ PollTypes
  BY SizesAssumption DEF Init, DeviceTypes, ChipTypes, PollTypes
<1>2. BufferTypes
  BY DEF Init, BufferTypes
<1>3. Waiting /\ Holding /\ InOrder /\ Quiet
  BY DEF Init, Waiting, Holding, Taken, Next1, InOrder, Quiet
<1> QED
  BY <1>1, <1>2, <1>3 DEF IInv, Types

\* A poll starts with the toggle of the poll before it.
LEMMA PollIInv == ASSUME IInv, Poll PROVE IInv'
<1>1. Types'
  BY SizesAssumption
  DEF Poll, IInv, Types, DeviceTypes, ChipTypes, PollTypes, BufferTypes
<1>2. Waiting' /\ Holding' /\ InOrder' /\ Quiet'
  BY DEF Poll, IInv, Types, PollTypes, Waiting, Holding, Taken, Next1, InOrder, Quiet
<1> QED
  BY <1>1, <1>2 DEF IInv

LEMMA LaunchIInv == ASSUME IInv, Launch PROVE IInv'
<1>1. Types'
  BY DEF Launch, IInv, Types, DeviceTypes, ChipTypes, PollTypes, BufferTypes
<1>2. Waiting' /\ Holding' /\ InOrder' /\ Quiet'
  BY DEF Launch, IInv, Types, PollTypes, Waiting, Holding, Taken, Next1, InOrder, Quiet
<1> QED
  BY <1>1, <1>2 DEF IInv

\* A result ends the poll, is tried again, or lets the packet be read.
LEMMA DoneIInv == ASSUME IInv, Done PROVE IInv'
<1>1. /\ pc = "wait" /\ HXFRDNIRQ = 1 /\ HXFRDNIRQ' = 0
      /\ UNCHANGED <<device, toggle, RCVDAVIRQ, HRSLT, fifo, rcvToggle, xfrlen, data,
                     delivered>>
  BY DEF Done
<1>2. /\ HRSLT = hrSUCCESS => pc' = "read"
      /\ HRSLT # hrSUCCESS => pc' \in {"idle", "launch"}
  BY DEF Done, CountNak, CountRetry, OtherResult, Return
<1>3. /\ nak_count' \in 0..NakLimit /\ retry_count' \in 0..RetryLimit
      /\ pc' # "idle" => nak_count' < NakLimit /\ retry_count' < RetryLimit
      /\ rcode' \in Results \cup {Expired, NoData}
  BY SizesAssumption
  DEF Done, CountNak, CountRetry, OtherResult, Return, IInv, Types, PollTypes, ChipTypes
<1>4. Types'
  BY <1>1, <1>2, <1>3 DEF IInv, Types, DeviceTypes, ChipTypes, PollTypes, BufferTypes
<1>5. Waiting' /\ Holding' /\ InOrder' /\ Quiet'
  BY <1>1, <1>2 DEF IInv, Waiting, Holding, Taken, Next1, InOrder, Quiet
<1> QED
  BY <1>4, <1>5 DEF IInv

LEMMA ExpireIInv == ASSUME IInv, Expire PROVE IInv'
<1>1. Types'
  BY DEF Expire, Return, IInv, Types, DeviceTypes, ChipTypes, PollTypes, BufferTypes
<1>2. Waiting' /\ Holding' /\ InOrder' /\ Quiet'
  BY DEF Expire, Return, IInv, Waiting, Holding, Taken, Next1, InOrder, Quiet
<1> QED
  BY <1>1, <1>2 DEF IInv

\* The packet read is the report expected next, and it completes the transfer.
LEMMA ReadEffect ==
  ASSUME IInv, Read, OnePacket
  PROVE  /\ pc = "read" /\ pc' = "idle" /\ rcode' = 0
         /\ rcvToggle' = Flip(rcvToggle)
         /\ delivered' = Append(delivered, <<Next1>>)
         /\ Next1 <= made
         /\ data' = <<Next1>> /\ xfrlen' = ReportSize
         /\ RCVDAVIRQ' = 0
         /\ UNCHANGED <<device, toggle, HXFRDNIRQ, HRSLT, fifo, nak_count, retry_count>>
<1>1. pc = "read" /\ Taken
  BY DEF Read, Taken
<1>2. /\ RCVDAVIRQ = 1 /\ fifo.report = Next1 /\ fifo.size = ReportSize
      /\ toggle = Flip(rcvToggle) /\ Next1 <= made
  BY <1>1 DEF IInv, Holding
<1>3. xfrlen = 0 /\ data = <<>>
  BY <1>1 DEF IInv, Types, BufferTypes
<1>4. Store /\ UNCHANGED <<device, toggle, HXFRDNIRQ, HRSLT, fifo>>
  BY <1>2 DEF Read
<1>5. data' = <<Next1>> /\ xfrlen' = ReportSize /\ RCVDAVIRQ' = 0
  BY <1>2, <1>3, <1>4, SizesAssumption DEF Store
<1>6. Complete
  BY <1>2, <1>5, SizesAssumption DEF Complete, OnePacket
<1> QED
  BY <1>1, <1>2, <1>4, <1>5, <1>6 DEF Store, SaveToggle, Return

LEMMA ReadIInv == ASSUME IInv, Read, OnePacket PROVE IInv'
<1>1. Next1 \in 1..MaxReports /\ Len(delivered) \in Nat
  <2>1. Next1 <= made
    BY ReadEffect
  <2>2. made \in 0..MaxReports /\ Len(delivered) \in Nat
    BY DEF IInv, Types, DeviceTypes, BufferTypes
  <2> QED
    BY <2>1, <2>2, SizesAssumption DEF Next1
<1>2. /\ pc' = "idle" /\ rcode' = 0 /\ rcvToggle' = Flip(rcvToggle)
      /\ delivered' = Append(delivered, <<Next1>>) /\ data' = <<Next1>>
      /\ xfrlen' = ReportSize /\ RCVDAVIRQ' = 0
      /\ UNCHANGED <<device, toggle, HXFRDNIRQ, HRSLT, fifo, nak_count, retry_count>>
  BY ReadEffect
<1>3. data' \in Seq(1..MaxReports)
  BY <1>1, <1>2
<1>4. delivered' \in Seq(Seq(1..MaxReports))
  <2>1. <<Next1>> \in Seq(1..MaxReports)
    BY <1>1
  <2>2. delivered \in Seq(Seq(1..MaxReports))
    BY DEF IInv, Types, BufferTypes
  <2> HIDE DEF Next1
  <2> QED
    BY <1>2, <2>1, <2>2
<1>5. Types'
  <2>1. DeviceTypes' /\ ChipTypes'
    BY <1>2 DEF IInv, Types, DeviceTypes, ChipTypes
  <2>2. PollTypes'
    BY <1>2 DEF IInv, Types, PollTypes, Flip
  <2>3. BufferTypes'
    BY <1>2, <1>3, <1>4, SizesAssumption DEF BufferTypes
  <2> QED
    BY <2>1, <2>2, <2>3 DEF Types
<1>6. Len(delivered') = Next1
  BY <1>2 DEF IInv, Types, BufferTypes, Next1
<1>7. Waiting' /\ Holding' /\ Quiet'
  BY <1>6, ReadEffect
  DEF IInv, Types, DeviceTypes, PollTypes, BufferTypes, Waiting, Holding, Taken, Next1, Quiet,
      Flip
<1>8. InOrder'
  <2> SUFFICES ASSUME NEW i \in 1..Len(delivered') PROVE delivered'[i] = <<i>>
    BY DEF InOrder
  <2>1. delivered \in Seq(Seq(1..MaxReports)) /\ i \in 1..Next1
    BY <1>6 DEF IInv, Types, BufferTypes
  <2>2. CASE i = Next1
    BY <1>2, <2>1, <2>2 DEF Next1
  <2>3. CASE i # Next1
    <3>1. i \in 1..Len(delivered)
      BY <1>1, <2>1, <2>3 DEF Next1
    <3>2. delivered'[i] = delivered[i]
      BY <1>2, <2>1, <3>1
    <3> QED
      BY <3>1, <3>2 DEF IInv, InOrder
  <2> QED
    BY <2>2, <2>3
<1> QED
  BY <1>5, <1>7, <1>8 DEF IInv

LEMMA MakeReportIInv == ASSUME IInv, MakeReport PROVE IInv'
<1>1. Types'
  BY SizesAssumption
  DEF MakeReport, IInv, Types, DeviceTypes, ChipTypes, PollTypes, BufferTypes
<1>2. Waiting' /\ Holding' /\ InOrder' /\ Quiet'
  BY DEF MakeReport, IInv, Types, DeviceTypes, BufferTypes, Waiting, Holding, Taken, Next1,
     InOrder, Quiet
<1> QED
  BY <1>1, <1>2 DEF IInv

\* An answer that carries no packet changes nothing but the result.
LEMMA NoPacketIInv == ASSUME IInv, AnswerLost \/ AnswerNak PROVE IInv'
<1>1. /\ pc = "wait" /\ HXFRDNIRQ = 0 /\ HXFRDNIRQ' = 1
      /\ HRSLT' \in Results \ {hrSUCCESS}
      /\ UNCHANGED <<device, toggle, RCVDAVIRQ, fifo, firmware>>
  BY DEF AnswerLost, AnswerNak, Answer
<1>2. Types'
  BY <1>1 DEF IInv, Types, DeviceTypes, ChipTypes, PollTypes, BufferTypes
<1>3. Waiting' /\ Holding' /\ InOrder' /\ Quiet'
  BY <1>1 DEF IInv, Waiting, Holding, Taken, Next1, InOrder, Quiet
<1> QED
  BY <1>2, <1>3 DEF IInv

\* The packet that arrives is taken exactly when it is the one expected.
LEMMA ArriveIInv ==
  ASSUME IInv, AnswerAcked \/ AnswerAckLost, OnePacket PROVE IInv'
<1>1. /\ pc = "wait" /\ HXFRDNIRQ = 0 /\ HXFRDNIRQ' = 1
      /\ current <= made /\ UNCHANGED firmware /\ made' = made
  BY DEF AnswerAcked, AnswerAckLost, Arrive, Answer, Advance
<1>2. \/ current' = current /\ device_toggle' = device_toggle /\ left' = left
      \/ current' = current + 1 /\ device_toggle' = Flip(device_toggle) /\ left' = ReportSize
  BY SizesAssumption
  DEF AnswerAcked, AnswerAckLost, Advance, IInv, Types, DeviceTypes, OnePacket
<1>3. CASE device_toggle = toggle
  <2>1. /\ HRSLT' = hrSUCCESS /\ RCVDAVIRQ' = 1 /\ toggle' = Flip(toggle)
        /\ fifo' = [report |-> current, size |-> PacketSize]
    BY <1>3 DEF AnswerAcked, AnswerAckLost, Arrive, Answer
  <2>2. PacketSize = ReportSize
    BY SizesAssumption DEF PacketSize, IInv, Types, DeviceTypes, OnePacket
  <2>3. current = Next1 /\ rcvToggle = device_toggle /\ toggle = rcvToggle
    BY <1>1, <1>3 DEF IInv, Waiting, Taken
  <2>4. Types'
    BY <1>1, <1>2, <2>1, <2>2, SizesAssumption
    DEF IInv, Types, DeviceTypes, ChipTypes, PollTypes, BufferTypes, Flip, OnePacket
  <2>5. Waiting' /\ Holding' /\ InOrder' /\ Quiet'
    BY <1>1, <1>2, <2>1, <2>2, <2>3
    DEF IInv, Types, DeviceTypes, PollTypes, BufferTypes, Waiting, Holding, Taken, Next1,
        InOrder, Quiet, Flip
  <2> QED
    BY <2>4, <2>5 DEF IInv
<1>4. CASE device_toggle # toggle
  <2>1. HRSLT' = hrTOGERR /\ UNCHANGED <<RCVDAVIRQ, fifo, toggle>>
    BY <1>4 DEF AnswerAcked, AnswerAckLost, Arrive, Answer
  <2>2. current = Len(delivered) /\ rcvToggle # device_toggle /\ toggle = rcvToggle
    BY <1>1, <1>4 DEF IInv, Waiting, Taken
  <2>3. Types'
    BY <1>1, <1>2, <2>1, SizesAssumption
    DEF IInv, Types, DeviceTypes, ChipTypes, PollTypes, BufferTypes, Flip
  <2>4. Waiting' /\ Holding' /\ InOrder' /\ Quiet'
    BY <1>1, <1>2, <2>1, <2>2
    DEF IInv, Types, DeviceTypes, PollTypes, BufferTypes, Waiting, Holding, Taken, Next1,
        InOrder, Quiet, Flip
  <2> QED
    BY <2>3, <2>4 DEF IInv
<1> QED
  BY <1>3, <1>4

LEMMA StutterIInv == ASSUME IInv, UNCHANGED vars PROVE IInv'
<1>1. Types'
  BY DEF vars, IInv, Types, DeviceTypes, ChipTypes, PollTypes, BufferTypes
<1>2. Waiting' /\ Holding' /\ InOrder' /\ Quiet'
  BY DEF vars, IInv, Waiting, Holding, Taken, Next1, InOrder, Quiet
<1> QED
  BY <1>1, <1>2 DEF IInv

LEMMA NextIInv == ASSUME OnePacket, IInv, [Next]_vars PROVE IInv'
  BY PollIInv, LaunchIInv, DoneIInv, ExpireIInv, ReadIInv, MakeReportIInv, NoPacketIInv,
     ArriveIInv, StutterIInv
  DEF Next, Firmware, Bus

-----------------------------------------------------------------------------
(* The theorems *)

\* The invariant, when a report is one packet.
THEOREM SpecIInv == ASSUME OnePacket PROVE Spec => []IInv
<1>1. Init => IInv
  BY InitIInv
<1>2. IInv /\ [Next]_vars => IInv'
  BY NextIInv
<1> QED
  BY <1>1, <1>2, PTL DEF Spec

\* The counters of a poll never pass their limits, and its results are results.
THEOREM SpecTypeOK == ASSUME OnePacket PROVE Spec => []TypeOK
<1>1. IInv => TypeOK
  BY SizesAssumption
  DEF IInv, Types, DeviceTypes, ChipTypes, PollTypes, BufferTypes, TypeOK
<1> QED
  BY <1>1, SpecIInv, PTL

\* Between polls the saved toggle and the device's toggle agree, or the device
\* still holds the packet delivered last.
THEOREM SpecToggleAgrees == ASSUME OnePacket PROVE Spec => []ToggleAgrees
<1>1. IInv => ToggleAgrees
  BY DEF IInv, Waiting, Taken, Next1, ToggleAgrees
<1> QED
  BY <1>1, SpecIInv, PTL

\* The reports delivered are the reports made: each once, whole and in order.
THEOREM SpecInOrder == ASSUME OnePacket PROVE Spec => []InOrder
<1>1. IInv => InOrder
  BY DEF IInv
<1> QED
  BY <1>1, SpecIInv, PTL

\* The poll implements the stream of reports: every step is a report made, a
\* report received, or a stutter.
THEOREM SpecImplementsStream == ASSUME OnePacket PROVE Spec => ImplementsStream
<1>1. Init => Stream!Init
  BY DEF Init, Stream!Init
<1>2. IInv /\ [Next]_vars => [Stream!Next]_<<made, delivered>>
  <2> SUFFICES ASSUME IInv, [Next]_vars PROVE [Stream!Next]_<<made, delivered>>
    OBVIOUS
  <2>1. CASE Read
    BY <2>1, ReadEffect DEF Stream!Next, Stream!Receive, Next1, IInv, Types, BufferTypes,
       DeviceTypes
  <2>2. CASE MakeReport
    BY <2>2 DEF MakeReport, Stream!Next, Stream!Make
  <2>3. CASE Poll \/ Launch \/ Done \/ Expire \/ Bus \/ UNCHANGED vars
    <3>1. UNCHANGED <<made, delivered>>
      BY <2>3
      DEF Poll, Launch, Done, Expire, Bus, AnswerLost, AnswerNak, AnswerAcked, AnswerAckLost,
          Arrive, Advance, vars
    <3> QED
      BY <3>1
  <2> QED
    BY <2>1, <2>2, <2>3 DEF Next, Firmware
<1> QED
  BY <1>1, <1>2, SpecIInv, PTL DEF Spec, ImplementsStream, Stream!Spec
=============================================================================
