----------------------------- MODULE Enumeration -----------------------------
(***************************************************************************)
(* The enumeration of a device, packet by packet: the states of USB_Task   *)
(* from GET_DEVICE_DESCRIPTOR_SIZE on, the HID probes and their walk over  *)
(* the configuration descriptor (HID.c), and under them XferCtrlReq,       *)
(* XferCtrlData, XferCtrlND and XferDispatchPkt (transfer.c), against a    *)
(* device with a control pipe of its own and a bus that loses packets and  *)
(* handshakes.  Between two devices every variable of the firmware keeps   *)
(* what the first one left there, except for what USB_init clears.         *)
(*                                                                         *)
(* A descriptor is a record with its offset, its length and the fields the *)
(* probes read; a packet is the number of bytes in it.                     *)
(***************************************************************************)
EXTENDS Integers, FiniteSets

CONSTANTS
  NakLimit,      \* USB_NAK_LIMIT
  RetryLimit,    \* USB_RETRY_LIMIT
  Devices,       \* [mps, strings, total, value, conf]: what a device answers
  MaxFaults      \* bound: the packets lost or refused in one enumeration

ASSUME LimitsAssumption ==
  /\ NakLimit \in Nat \ {0} /\ RetryLimit \in Nat \ {0}
  /\ MaxFaults \in Nat

\* A configuration is read as descriptors one behind the other, as far as its
\* total length: descriptor by descriptor, in the order of their offsets.
\* A control endpoint takes packets of at least 8 bytes.
ASSUME DevicesAssumption ==
  \A k \in Devices :
    /\ k.mps \in Nat /\ k.mps >= 8 /\ k.value \in Nat
    /\ k.strings \in [1..2 -> Nat]
    /\ k.total \in Nat \ {0}
    /\ \A d \in k.conf : /\ d.at \in Nat /\ d.len \in Nat
                         /\ d.type = "endpoint" =>
                             {d.addr, d.attr, d.size, d.interval} \subseteq Nat
    /\ \A d, e \in k.conf : /\ d.at < e.at => d.at + d.len <= e.at
                            /\ d.at = e.at => d = e
    /\ \E d \in k.conf : d.at = 0
    /\ \A d \in k.conf : d.at + d.len < k.total => \E e \in k.conf : e.at = d.at + d.len

VARIABLES
  \* USB_Task
  task, usb_error,
  at,            \* the request whose result is awaited, or where the probe is
  strings,       \* the string descriptors still to be asked for
  \* the probe
  probe, total_length, byte_ptr,
  \* device table and endpoint records
  devtable,      \* devtable[1]: [epinfo, devclass]
  MaxPktSize,    \* MaxPktSize of endpoint 0 in dev0ep and hid_ep
  hid,           \* hid_ep[1] and hid_device
  \* the transfer under way, or the last one
  call,
  PERADDR, toggle,              \* the chip
  kind, dev, present,           \* the device
  faults                        \* how many of MaxFaults there were

taskvars == <<task, usb_error, at, strings, probe, total_length, byte_ptr>>
tables   == <<devtable, MaxPktSize, hid>>
vars     == <<taskvars, tables, call, PERADDR, toggle, kind, dev, present, faults>>

hrSUCCESS == 0
hrNAK     == 4
hrSTALL   == 5
hrTOGERR  == 6
hrCRCERR  == 11
hrTIMEOUT == 14
Expired   == 255

Least(a, b) == IF a < b THEN a ELSE b

Reads == {"devDescr", "string", "confDescr"}

\* The bytes the device has for a request that reads.
Has(c) == CASE c.what = "devDescr"  -> 18
            [] c.what = "confDescr" -> kind.total
            [] c.what = "string"    -> kind.strings[c.value]
            [] OTHER                -> 0

Idle == [what |-> "setProto", value |-> 0, n |-> 0, addr |-> 0, stage |-> "returned",
         heard |-> TRUE, xfrlen |-> 0, nak |-> 0, retry |-> 0, rcode |-> 0]

Fresh == [addr |-> 0, config |-> 0, proto |-> "report", stage |-> "idle", left |-> 0,
          more |-> FALSE, toggle |-> 0, pending |-> 0]

\* USB_init, when it is called the first time and after every detach.
Cleared == [epinfo |-> "none", devclass |-> "none"]

Init ==
  /\ task = "GET_DESCRIPTOR" /\ usb_error = 0 /\ at = "start" /\ strings = {}
  /\ probe = "mouse" /\ total_length = 0 /\ byte_ptr = 0
  /\ devtable = Cleared
  /\ MaxPktSize = [dev0ep |-> 0, hid_ep |-> 0]
  /\ hid = [addr |-> 0, epAddr |-> 0, Attr |-> 0, MaxPktSize |-> 0, Interval |-> 0]
  /\ call = Idle /\ PERADDR = 0 /\ toggle = 0
  /\ kind \in Devices /\ dev = Fresh /\ present = TRUE
  /\ faults = 0

-----------------------------------------------------------------------------
(* Control transfers *)

\* The entry of XferCtrlReq, with the request of one of the macros of transfer.h.
Ask(addr, what, value, n) ==
  /\ PERADDR' = addr
  /\ call' = [what |-> what, value |-> value, n |-> n, addr |-> addr, stage |-> "setup",
              heard |-> FALSE, xfrlen |-> 0, nak |-> 0, retry |-> 0, rcode |-> 0]

Reading == call.what \in Reads

Token == CASE call.stage = "setup" -> "SETUP"
           [] call.stage = "data"  -> "IN"
           [] OTHER                -> IF Reading THEN "OUTHS" ELSE "INHS"

\* epinfo[0].MaxPktSize of the device that is called.
PktSize == MaxPktSize[IF call.addr = 0 THEN "dev0ep" ELSE devtable.epinfo]

\* Fault: a transfer of whole packets waits for a short one.
CompletePast(got) == got < PktSize \/ call.xfrlen + got > call.n

Complete(got) == got < PktSize \/ call.xfrlen + got >= call.n

Returned(c, r) == [c EXCEPT !.stage = "returned", !.rcode = r]
Onward(c, s)    == [c EXCEPT !.stage = s, !.nak = 0, !.retry = 0]

\* A packet went through: the next one, the next stage, or the return.
StageDone(c, got) ==
  CASE c.stage = "setup"  -> Onward(c, IF Reading THEN "data" ELSE "status")
    [] c.stage = "data"   -> [Onward(c, IF Complete(got) THEN "status" ELSE "data")
                                EXCEPT !.xfrlen = @ + got]
    [] c.stage = "status" -> Returned(c, hrSUCCESS)

\* Fault: an error in the data stage is forgotten, the status stage follows.
ErrorIgnored(c, r) == IF c.stage = "data" THEN Onward(c, "status") ELSE Returned(c, r)

ErrorReturned(c, r) == Returned(c, r)

\* Fault: a packet that is not answered is sent again for ever.
TimeoutUncounted(c) == c

Timeout(c) ==
  IF c.retry + 1 = RetryLimit THEN ErrorReturned([c EXCEPT !.retry = RetryLimit], hrTIMEOUT)
                              ELSE [c EXCEPT !.retry = @ + 1]

Refused(c) ==
  IF c.nak + 1 = NakLimit THEN ErrorReturned([c EXCEPT !.nak = NakLimit], hrNAK)
                          ELSE [c EXCEPT !.nak = @ + 1]

\* XferDispatchPkt and its caller, when the chip reports r and a packet of got bytes.
Dispatched(c, r, got) ==
  CASE r = hrSUCCESS -> StageDone(c, got)
    [] r = hrNAK     -> Refused(c)
    [] r = hrTIMEOUT -> Timeout(c)
    [] OTHER         -> ErrorReturned(c, r)

-----------------------------------------------------------------------------
(* The device and the bus *)

Listens == present /\ dev.addr = PERADDR

\* SETUP is always taken and starts afresh; an address waits for the status stage.
Setup ==
  [dev EXCEPT !.stage = IF ~Reading \/ call.n = 0 THEN "in"
                        ELSE IF Has(call) = 0 THEN "stall" ELSE "data",
              !.left = Least(call.n, Has(call)), !.more = call.n > Has(call), !.toggle = 1,
              !.pending = IF call.what = "setAddr" THEN call.value ELSE @,
              !.config = IF call.what = "setConf" THEN call.value ELSE @,
              !.proto = IF call.what = "setProto" THEN "boot" ELSE @]

Chunk == Least(dev.left, kind.mps)

\* The packet is acknowledged.
Advanced ==
  [dev EXCEPT !.left = @ - Chunk, !.toggle = 1 - @,
              !.stage = IF Chunk < kind.mps \/ (dev.left = Chunk /\ ~dev.more)
                        THEN "out" ELSE "data"]

Finished ==
  [dev EXCEPT !.stage = "idle",
              !.addr = IF call.what = "setAddr" /\ dev.stage = "in" THEN dev.pending ELSE @]

\* What the device does with the token, were every packet to arrive.
Reaction ==
  CASE Token = "SETUP"                                    -> Setup
    [] Token = "IN" /\ dev.stage = "data"                 -> Advanced
    [] Token \in {"IN", "INHS"} /\ dev.stage = "in"       -> Finished
    [] Token = "OUTHS" /\ dev.stage \in {"data", "out"}   -> Finished
    [] OTHER                                              -> dev

\* What the chip makes of the answer.
Result ==
  CASE Token = "SETUP"                           -> hrSUCCESS
    [] Token = "IN" /\ dev.stage = "data"        -> IF dev.toggle = toggle THEN hrSUCCESS
                                                                           ELSE hrTOGERR
    [] Token \in {"IN", "INHS"} /\ dev.stage = "in" -> hrSUCCESS
    [] Token = "OUTHS" /\ dev.stage # "stall"    -> hrSUCCESS
    [] OTHER                                     -> hrSTALL

Got == IF Token = "IN" /\ dev.stage = "data" /\ Result = hrSUCCESS THEN Chunk ELSE 0

\* One packet: the chip reports r, the device is left in d.  The data stage
\* starts with toggle 1, which every packet taken flips.
Packet(r, d, arrives) ==
  /\ call.stage # "returned"
  /\ dev' = d
  /\ call' = Dispatched([call EXCEPT !.heard = @ \/ (Token = "SETUP" /\ arrives)], r, Got)
  /\ toggle' = IF Token = "SETUP" /\ r = hrSUCCESS /\ Reading THEN 1
               ELSE IF Token = "IN" /\ r = hrSUCCESS THEN 1 - toggle ELSE toggle
  /\ UNCHANGED <<taskvars, tables, PERADDR, kind, present>>

Exchange ==
  /\ IF Listens THEN Packet(Result, Reaction, TRUE) ELSE Packet(hrTIMEOUT, dev, FALSE)
  /\ UNCHANGED faults

Fault == faults < MaxFaults /\ faults' = faults + 1

\* The token or the packet does not reach the other side, or arrives garbled.
Lose == Fault /\ Listens /\ \E r \in {hrTIMEOUT, hrCRCERR} : Packet(r, dev, FALSE)

\* The handshake is lost: the side that sends it believes in what the other doubts.
LoseHandshake ==
  /\ Fault /\ Listens /\ Result = hrSUCCESS
  /\ IF Token \in {"IN", "INHS"} THEN Packet(hrSUCCESS, dev, TRUE)
                                ELSE Packet(hrTIMEOUT, Reaction, TRUE)

Refuse == Fault /\ Listens /\ Token # "SETUP" /\ Packet(hrNAK, dev, FALSE)

\* The deadline of XferDispatchPkt passes before the chip is done.
Expire == Fault /\ Packet(Expired, dev, FALSE)

Unplug ==
  /\ present
  /\ present' = FALSE
  /\ UNCHANGED <<taskvars, tables, call, PERADDR, toggle, kind, dev, faults>>

-----------------------------------------------------------------------------
(* USB_Task: one device descriptor, the strings, one address *)

Answered(state, point) == call.stage = "returned" /\ task = state /\ at = point

Fail(error) ==
  /\ usb_error' = error
  /\ task' = "ERROR"

\* Nothing but the state machine and the transfer it starts changes.
KeepTask == UNCHANGED <<probe, total_length, byte_ptr, toggle, kind, dev, present, faults>>

GetSize ==
  /\ Answered("GET_DESCRIPTOR", "start")
  /\ MaxPktSize' = [MaxPktSize EXCEPT !.dev0ep = 8]
  /\ Ask(0, "devDescr", 0, 8)
  /\ at' = "size"
  /\ UNCHANGED <<task, usb_error, strings, devtable, hid>> /\ KeepTask

GetDevice ==
  /\ Answered("GET_DESCRIPTOR", "size")
  /\ IF call.rcode = 0
     THEN /\ MaxPktSize' = [MaxPktSize EXCEPT !.dev0ep = kind.mps]
          /\ Ask(0, "devDescr", 0, 18)
          /\ at' = "device"
          /\ UNCHANGED <<task, usb_error>>
     ELSE /\ Fail(call.rcode)
          /\ UNCHANGED <<at, MaxPktSize, call, PERADDR>>
  /\ UNCHANGED <<strings, devtable, hid>> /\ KeepTask

\* The next string, or the address.
NextString(left) ==
  /\ strings' = left
  /\ IF left = {}
     THEN /\ task' = "ADDRESSING" /\ at' = "start"
          /\ UNCHANGED <<call, PERADDR>>
     ELSE /\ Ask(0, "string", CHOOSE i \in left : \A j \in left : i <= j, 2)
          /\ at' = "length"
          /\ UNCHANGED task
  /\ UNCHANGED usb_error

\* The result code is not looked at.  Which strings the device has is byte 14
\* and 15 of a buffer on the stack: what it holds when they did not arrive.
GetStrings ==
  /\ Answered("GET_DESCRIPTOR", "device")
  /\ IF call.xfrlen >= 16 THEN NextString({i \in 1..2 : kind.strings[i] > 0})
                          ELSE \E left \in SUBSET (1..2) : NextString(left)
  /\ UNCHANGED tables /\ KeepTask

\* Nor here: the length is whatever strDesc.bLength holds.
GetString ==
  /\ Answered("GET_DESCRIPTOR", "length")
  /\ \E n \in IF call.xfrlen > 0 THEN {kind.strings[call.value]} ELSE {0, 255} :
       Ask(0, "string", call.value, n)
  /\ at' = "string"
  /\ UNCHANGED <<task, usb_error, strings, tables>> /\ KeepTask

GotString ==
  /\ Answered("GET_DESCRIPTOR", "string")
  /\ NextString(strings \ {call.value})
  /\ UNCHANGED tables /\ KeepTask

\* Address 1 is the first free one: USB_init has cleared the table.
SetAddress ==
  /\ Answered("ADDRESSING", "start")
  /\ devtable' = [devtable EXCEPT !.epinfo = "dev0ep"]
  /\ Ask(0, "setAddr", 1, 0)
  /\ at' = "address"
  /\ UNCHANGED <<task, usb_error, strings, MaxPktSize, hid>> /\ KeepTask

GotAddress ==
  /\ Answered("ADDRESSING", "address")
  /\ IF call.rcode = 0 THEN task' = "CONFIGURING" /\ UNCHANGED usb_error ELSE Fail(call.rcode)
  /\ at' = "start" /\ probe' = "mouse"
  /\ UNCHANGED <<strings, total_length, byte_ptr, tables, call, PERADDR, toggle, kind, dev,
                 present, faults>>

-----------------------------------------------------------------------------
(* HIDMProbe and HIDKProbe, which differ in the protocol they look for *)

KeepProbe == UNCHANGED <<strings, toggle, kind, dev, present, faults>>

\* The probe returns FALSE: the next one, or no driver.
NoDriver ==
  /\ at' = "start"
  /\ IF probe = "mouse" THEN probe' = "keyboard" /\ UNCHANGED <<task, usb_error>>
                        ELSE Fail(253) /\ UNCHANGED probe

GetConfHead ==
  /\ Answered("CONFIGURING", "start")
  /\ Ask(1, "confDescr", 0, 9)
  /\ at' = "confHead"
  /\ UNCHANGED <<task, usb_error, probe, total_length, byte_ptr, tables>> /\ KeepProbe

\* Fault: the length is not cut to the size of the buffer.
LengthUncut == kind.total

LengthToRead == Least(kind.total, 256)

GetConf ==
  /\ Answered("CONFIGURING", "confHead")
  /\ IF call.rcode = 0
     THEN /\ total_length' = LengthToRead
          /\ Ask(1, "confDescr", 0, total_length')
          /\ at' = "conf"
          /\ UNCHANGED <<task, usb_error, probe>>
     ELSE NoDriver /\ UNCHANGED <<total_length, call, PERADDR>>
  /\ UNCHANGED <<byte_ptr, tables>> /\ KeepProbe

StartWalk ==
  /\ Answered("CONFIGURING", "conf")
  /\ IF call.rcode = 0
     THEN /\ byte_ptr' = 0 /\ at' = "interface"
          /\ UNCHANGED <<task, usb_error, probe>>
     ELSE NoDriver /\ UNCHANGED byte_ptr
  /\ UNCHANGED <<total_length, tables, call, PERADDR>> /\ KeepProbe

Walking(point) == Answered("CONFIGURING", point)

\* The descriptor byte_ptr points at.
Here == CHOOSE d \in kind.conf : d.at = byte_ptr

\* A descriptor of another type is skipped by its length.
Skip ==
  /\ \E wanted \in {"interface", "endpoint"} :
       Walking(wanted) /\ byte_ptr < total_length /\ Here.type # wanted
  /\ byte_ptr' = byte_ptr + Here.len
  /\ UNCHANGED <<task, usb_error, at, probe, total_length, tables, call, PERADDR>> /\ KeepProbe

\* The first interface is the one: another kind of device is not looked at further.
RejectInterface ==
  /\ Walking("interface") /\ byte_ptr < total_length
  /\ Here.type = "interface" /\ Here.protocol # probe
  /\ NoDriver
  /\ UNCHANGED <<total_length, byte_ptr, tables, call, PERADDR>> /\ KeepProbe

RunsOut ==
  /\ \E point \in {"interface", "endpoint"} : Walking(point)
  /\ byte_ptr >= total_length
  /\ NoDriver
  /\ UNCHANGED <<total_length, byte_ptr, tables, call, PERADDR>> /\ KeepProbe

ClaimInterface ==
  /\ Walking("interface") /\ byte_ptr < total_length
  /\ Here.type = "interface" /\ Here.protocol = probe
  /\ devtable' = [epinfo |-> "hid_ep", devclass |-> probe]
  /\ MaxPktSize' = [MaxPktSize EXCEPT !.hid_ep = MaxPktSize[devtable.epinfo]]
  /\ hid' = [hid EXCEPT !.addr = 1]
  /\ byte_ptr' = byte_ptr + Here.len
  /\ at' = "endpoint"
  /\ UNCHANGED <<task, usb_error, probe, total_length, call, PERADDR>> /\ KeepProbe

\* The size is a 16-bit load.  At an odd offset, where it lies in every usual
\* keyboard, what it reads is undefined: the word, or the bytes a load that
\* ignores the lowest bit of the address finds, the attributes and the low byte.
SizeRead(d) ==
  IF d.at % 2 = 0 THEN {d.size} ELSE {d.size, d.attr + 256 * (d.size % 256)}

TakeEndpoint ==
  /\ Walking("endpoint") /\ byte_ptr < total_length /\ Here.type = "endpoint"
  /\ \E size \in SizeRead(Here) :
       hid' = [hid EXCEPT !.epAddr = Here.addr, !.Attr = Here.attr, !.MaxPktSize = size,
                          !.Interval = Here.interval]
  /\ Ask(1, "setConf", kind.value, 0)
  /\ at' = "configure"
  /\ UNCHANGED <<task, usb_error, probe, total_length, byte_ptr, devtable, MaxPktSize>>
  /\ KeepProbe

\* Fault: the result of the request is not looked at.
ConfiguredAnyway == call.stage = "returned"

Configured == call.rcode = 0

SetProtocol ==
  /\ Answered("CONFIGURING", "configure")
  /\ IF Configured
     THEN Ask(1, "setProto", 0, 0) /\ at' = "protocol" /\ UNCHANGED <<task, usb_error, probe>>
     ELSE NoDriver /\ UNCHANGED <<call, PERADDR>>
  /\ UNCHANGED <<total_length, byte_ptr, tables>> /\ KeepProbe

Run ==
  /\ Answered("CONFIGURING", "protocol")
  /\ IF call.rcode = 0 THEN task' = "RUNNING" /\ UNCHANGED <<at, probe, usb_error>> ELSE NoDriver
  /\ UNCHANGED <<total_length, byte_ptr, tables, call, PERADDR>> /\ KeepProbe

-----------------------------------------------------------------------------
\* Another device: MAX3421E_Task and USB_init have brought the task back here.
\* The locals are gone; usb_error, hid_ep, hid_device and the chip are as they were.
Replug ==
  /\ task \in {"RUNNING", "ERROR"}
  /\ task' = "GET_DESCRIPTOR" /\ at' = "start" /\ strings' = {} /\ probe' = "mouse"
  /\ total_length' = 0 /\ byte_ptr' = 0 /\ call' = [Idle EXCEPT !.rcode = call.rcode]
  /\ devtable' = Cleared
  /\ MaxPktSize' = [MaxPktSize EXCEPT !.dev0ep = 0]
  /\ kind' \in Devices /\ dev' = Fresh /\ present' = TRUE /\ faults' = 0
  /\ UNCHANGED <<usb_error, hid, PERADDR, toggle>>

Host ==
  \/ GetSize \/ GetDevice \/ GetStrings \/ GetString \/ GotString \/ SetAddress \/ GotAddress
  \/ GetConfHead \/ GetConf \/ StartWalk \/ Skip \/ RejectInterface \/ RunsOut
  \/ ClaimInterface \/ TakeEndpoint \/ SetProtocol \/ Run

Bus == Exchange \/ Lose \/ LoseHandshake \/ Refuse \/ Expire

Next == Host \/ Bus \/ Unplug \/ Replug

\* The firmware is one loop that never blocks, and the chip answers every packet.
Spec == Init /\ [][Next]_vars /\ WF_vars(Host \/ Bus)

-----------------------------------------------------------------------------
States == {"GET_DESCRIPTOR", "ADDRESSING", "CONFIGURING", "RUNNING", "ERROR"}

\* The counters stop at their limits, the addresses and states are the known
\* ones, and a transfer holds no more bytes than were asked for.
TypeOK ==
  /\ task \in States /\ PERADDR \in 0..1 /\ toggle \in 0..1
  /\ call.nak \in 0..NakLimit /\ call.retry \in 0..RetryLimit /\ call.xfrlen <= call.n
  /\ call.stage \in {"setup", "data", "status", "returned"}
  /\ devtable.epinfo \in {"none", "dev0ep", "hid_ep"} /\ probe \in {"mouse", "keyboard"}
  /\ strings \subseteq 1..2 /\ faults \in 0..MaxFaults
  /\ dev.addr \in 0..1 /\ dev.left >= 0 /\ total_length <= 256

First(type, from) ==
  LET found == {d \in kind.conf : d.type = type /\ d.at >= from /\ d.at < Least(kind.total, 256)}
  IN  {d \in found : \A e \in found : d.at <= e.at}

\* The first interface of the configuration and the first endpoint after it.
Chosen == {c \in First("interface", 0) \X kind.conf : c[2] \in First("endpoint", c[1].at)}

\* A device that runs, runs on both sides: whatever was lost, refused or left
\* over from the device before, it has the address the host polls, the
\* configuration and the boot protocol, and the host the class of its first
\* interface and that interface's endpoint (HID.c, transfer.c: USB_Task).
RunningAgrees ==
  task = "RUNNING" =>
    /\ dev.addr = 1 /\ hid.addr = dev.addr
    /\ dev.config = kind.value /\ dev.proto = "boot"
    /\ devtable.epinfo = "hid_ep" /\ MaxPktSize["hid_ep"] = kind.mps
    /\ \E c \in Chosen : /\ devtable.devclass = c[1].protocol
                         /\ hid.epAddr = c[2].addr /\ hid.Attr = c[2].attr
                         /\ hid.MaxPktSize \in SizeRead(c[2]) /\ hid.Interval = c[2].interval

\* An error has a cause: a device whose first interface is a boot keyboard or
\* mouse with an endpoint is enumerated unless a packet was lost or refused or
\* it was pulled out (transfer.c: USB_Task, XferInTransfer's two conditions).
ErrorHasCause ==
  task = "ERROR" =>
    \/ faults > 0 \/ ~present
    \/ \A c \in Chosen : c[1].protocol \notin {"mouse", "keyboard"}

\* The walk that never ends: a descriptor of length 0 in the way.
Stuck == at \in {"interface", "endpoint"} /\ byte_ptr < total_length /\ Here.len = 0

\* An enumeration ends, in RUNNING or in ERROR, unless the device has sent a
\* descriptor of length 0 (XferDispatchPkt's limits; HID.c's walk).
Ends == task \notin {"RUNNING", "ERROR"} ~> task \in {"RUNNING", "ERROR"} \/ Stuck

Progress ==
  IF call.stage = "returned" THEN IF call.rcode = 0 THEN "ok" ELSE "error"
  ELSE IF ~call.heard THEN "asked"
  ELSE IF call.xfrlen = Least(call.n, Has(call)) THEN "whole" ELSE "heard"

Request == INSTANCE ControlRequest WITH progress <- Progress

\* Every control transfer keeps the promise of ControlRequest: no answer of 0
\* without the device, and without all it was asked to send.
ImplementsRequest == Request!Spec
=============================================================================
