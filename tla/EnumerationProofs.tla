------------------------- MODULE EnumerationProofs -------------------------
(***************************************************************************)
(* Proofs about Enumeration, for any devices that keep to the format of    *)
(* descriptors and any limits and number of faults: the type invariant,    *)
(* the agreement of host and device, the causes of an error, and that      *)
(* every control transfer implements ControlRequest.                       *)
(***************************************************************************)
EXTENDS Enumeration, TLAPS

-----------------------------------------------------------------------------
(* The invariant *)

Requests == {"devDescr", "string", "confDescr", "setAddr", "setConf", "setProto"}
Stages   == {"setup", "data", "status", "returned"}
Points   == {"start", "size", "device", "length", "string", "address", "confHead", "conf",
             "interface", "endpoint", "configure", "protocol"}
Sizes    == [dev0ep : Nat, hid_ep : Nat]
Table    == [epinfo : {"none", "dev0ep", "hid_ep"}, devclass : {"none", "mouse", "keyboard"}]
Endpoints == [addr : 0..1, epAddr : Nat, Attr : Nat, MaxPktSize : Nat, Interval : Nat]
Calls    == [what : Requests, value : Nat, n : Nat, addr : 0..1, stage : Stages,
             heard : BOOLEAN, xfrlen : Nat, nak : Nat, retry : Nat, rcode : Nat]
Pipes    == [addr : 0..1, config : Nat, proto : {"report", "boot"},
             stage : {"idle", "in", "data", "out", "stall"}, left : Nat, more : BOOLEAN,
             toggle : 0..1, pending : 0..1]

TaskTypes ==
  /\ task \in States /\ usb_error \in Nat /\ at \in Points /\ strings \subseteq 1..2
  /\ probe \in {"mouse", "keyboard"} /\ total_length \in 0..256 /\ byte_ptr \in Nat
  /\ devtable \in Table /\ MaxPktSize \in Sizes /\ hid \in Endpoints
CallTypes == call \in Calls /\ PERADDR \in 0..1 /\ toggle \in 0..1
DevTypes  == dev \in Pipes /\ kind \in Devices /\ present \in BOOLEAN /\ faults \in 0..MaxFaults

\* The counters of a transfer.
Counters == /\ call.nak <= NakLimit /\ call.retry <= RetryLimit
            /\ call.stage # "returned" => call.nak < NakLimit /\ call.retry < RetryLimit

Types == TaskTypes /\ CallTypes /\ DevTypes /\ Counters

Asks(what, n, addr) == call.what = what /\ call.n = n /\ call.addr = addr
Done == call.stage = "returned"

\* The request that was made last, at each point of the enumeration.
Order ==
  /\ task \in {"RUNNING", "ERROR"} => Done
  /\ task = "GET_DESCRIPTOR" =>
       /\ devtable.epinfo = "none"
       /\ \/ at = "start" /\ Done /\ call.n = 0 /\ call.xfrlen = 0
          \/ at = "size" /\ Asks("devDescr", 8, 0)
          \/ at = "device" /\ Asks("devDescr", 18, 0)
          \/ at \in {"length", "string"} /\ call.what = "string" /\ call.addr = 0
             /\ call.value \in 1..2 /\ (at = "length" => call.n = 2)
  /\ task = "ADDRESSING" =>
       \/ at = "start" /\ Done /\ devtable.epinfo = "none"
       \/ /\ at = "address" /\ Asks("setAddr", 0, 0) /\ call.value = 1
          /\ devtable.epinfo = "dev0ep"
  /\ task = "CONFIGURING" =>
       /\ devtable.epinfo # "none"
       /\ \/ at \in {"start", "interface", "endpoint"} /\ Done
          \/ at = "confHead" /\ Asks("confDescr", 9, 1)
          \/ at = "conf" /\ Asks("confDescr", total_length, 1)
             /\ total_length = Least(kind.total, 256)
          \/ at = "configure" /\ Asks("setConf", 0, 1) /\ call.value = kind.value
          \/ at = "protocol" /\ Asks("setProto", 0, 1)

\* The packets of the host are those of the device, but for the first request.
PacketSizes ==
  /\ task = "GET_DESCRIPTOR" /\ at = "size" => MaxPktSize.dev0ep = 8
  /\ \/ task = "GET_DESCRIPTOR" /\ at \notin {"start", "size"}
     \/ task \in {"ADDRESSING", "CONFIGURING", "RUNNING"}
     => /\ MaxPktSize.dev0ep = kind.mps
        /\ devtable.epinfo = "hid_ep" => MaxPktSize.hid_ep = kind.mps

\* All that the request is to bring.
Whole == Least(call.n, Has(call))

\* A transfer under way.  With the toggles in step, what the device has left to
\* send is what the host has still to get.
Transfer ==
  /\ call.xfrlen <= call.n
  /\ ~Done =>
       /\ call.addr = PERADDR
       /\ call.stage = "setup" => call.xfrlen = 0
       /\ call.stage \in {"data", "status"} => call.heard
       /\ call.stage = "data" => Reading
       /\ call.xfrlen <= Whole
       /\ call.stage = "status" => call.xfrlen = Whole
       /\ call.heard /\ Reading =>
            /\ dev.stage = "in" => call.n = 0
            /\ call.stage = "data" /\ dev.stage = "data" /\ dev.toggle = toggle =>
                 dev.left = Whole - call.xfrlen

\* What the device has done once it has taken a request.
Heard ==
  /\ Done /\ call.rcode = 0 => call.heard
  /\ call.heard /\ call.addr = 1 => dev.addr = 1
  /\ call.heard /\ call.what = "setConf" => dev.config = call.value
  /\ call.heard /\ call.what = "setProto" /\ call.addr = 1 => dev.proto = "boot"

\* How far the device is enumerated.
Reached ==
  /\ task = "CONFIGURING" /\ at \in {"conf", "interface", "endpoint", "configure", "protocol"}
       => dev.addr = 1
  /\ task = "CONFIGURING" /\ at = "protocol" => dev.config = kind.value
  /\ task = "RUNNING" => dev.addr = 1 /\ dev.config = kind.value /\ dev.proto = "boot"

Cut == Least(kind.total, 256)

\* The walk stands on a descriptor, or has run out of them.
Standing == byte_ptr >= Cut \/ \E d \in kind.conf : d.at = byte_ptr

\* No descriptor of the type between the offsets from and byte_ptr.
Passed(type, from) ==
  \A d \in kind.conf : d.type = type /\ d.at >= from /\ d.at < Cut => d.at >= byte_ptr

\* The endpoint record is that of the first endpoint of the first interface.
Taken == \E c \in Chosen : /\ devtable.devclass = c[1].protocol
                           /\ hid.epAddr = c[2].addr /\ hid.Attr = c[2].attr
                           /\ hid.MaxPktSize \in SizeRead(c[2]) /\ hid.Interval = c[2].interval

\* Where the walk over the configuration is.
Walk ==
  /\ task = "CONFIGURING" /\ at \in {"interface", "endpoint"} =>
       total_length = Cut /\ Standing
  /\ task = "CONFIGURING" /\ at = "interface" => Passed("interface", 0)
  /\ task = "CONFIGURING" /\ at = "endpoint" =>
       \E i \in First("interface", 0) :
         /\ i.protocol = probe /\ devtable.devclass = probe
         /\ i.at <= byte_ptr /\ Passed("endpoint", i.at)
  /\ \/ task = "CONFIGURING" /\ at \in {"endpoint", "configure", "protocol"}
     \/ task = "RUNNING"
     => hid.addr = 1 /\ devtable.epinfo = "hid_ep"
  /\ \/ task = "CONFIGURING" /\ at \in {"configure", "protocol"}
     \/ task = "RUNNING"
     => Taken

\* The device is there and nothing was lost or refused.
Quiet == faults = 0 /\ present

\* Then host and device are in step, and no transfer fails.
InStep ==
  Quiet =>
    /\ ~Done => /\ dev.addr = PERADDR
                /\ Reading => call.n > 0 /\ Has(call) > 0
                /\ call.stage \in {"data", "status"} /\ call.what = "setAddr" => dev.pending = 1
                /\ call.stage = "data" => /\ dev.stage = "data" /\ dev.toggle = toggle
                                          /\ dev.more = (call.n > Has(call))
                /\ call.stage = "status" =>
                     IF Reading THEN dev.stage # "stall" ELSE dev.stage = "in"
    /\ Done => \/ task = "GET_DESCRIPTOR" /\ at = "start"
               \/ call.rcode = 0
    /\ dev.addr = IF \/ task = "GET_DESCRIPTOR"
                     \/ task = "ADDRESSING" /\ (at = "start" \/ ~Done) THEN 0 ELSE 1

\* And every string that is asked for is one the device has.
Strings ==
  Quiet /\ task = "GET_DESCRIPTOR" =>
    /\ \A i \in strings : kind.strings[i] > 0
    /\ at \in {"length", "string"} => kind.strings[call.value] > 0
    /\ at \in {"device", "length"} /\ Done => call.xfrlen = Whole

\* And a probe gives up only where it finds no interface and endpoint of its own.
Causes ==
  Quiet =>
    /\ probe = "keyboard" => \A c \in Chosen : c[1].protocol # "mouse"
    /\ task = "ERROR" => \A c \in Chosen : c[1].protocol \notin {"mouse", "keyboard"}

EnumerationInv == Types /\ Order /\ PacketSizes /\ Transfer /\ Heard /\ Reached /\ Walk
                  /\ InStep /\ Strings /\ Causes

-----------------------------------------------------------------------------
(* Packets *)

USE DEF hrSUCCESS, hrNAK, hrSTALL, hrTOGERR, hrCRCERR, hrTIMEOUT, Expired

Codes == {0, 4, 5, 6, 11, 14, 255}

\* What the constants say of the device at hand.
LEMMA KindTypes ==
  ASSUME DevTypes
  PROVE  /\ kind.mps \in Nat /\ kind.mps >= 8 /\ kind.value \in Nat
         /\ kind.strings \in [1..2 -> Nat] /\ kind.total \in Nat \ {0}
         /\ Cut \in 1..256 /\ Cut <= kind.total
  BY DevicesAssumption DEF DevTypes, Cut, Least

LEMMA LeastOf ==
  ASSUME NEW a \in Nat, NEW b \in Nat
  PROVE  /\ Least(a, b) \in Nat /\ Least(a, b) <= a /\ Least(a, b) <= b
         /\ Least(a, b) \in {a, b}
  BY DEF Least

\* A string request names one of the two strings.
Names == call.what = "string" => call.value \in 1..2

LEMMA HasTypes ==
  ASSUME Types, Names
  PROVE  /\ Has(call) \in Nat /\ Whole \in Nat /\ Whole <= call.n /\ Whole <= Has(call)
         /\ ~Reading => Has(call) = 0 /\ Whole = 0
<1>1. Has(call) \in Nat
  BY KindTypes DEF Types, Names, Has
<1>2. ~Reading => Has(call) = 0
  BY DEF Reading, Reads, Has, Types, CallTypes, Calls, Requests
<1>3. call.n \in Nat
  BY DEF Types, CallTypes, Calls
<1> QED
  BY <1>1, <1>2, <1>3, LeastOf DEF Whole, Least

\* A packet brings no more than a packet holds, and no more than is left.
LEMMA GotTypes ==
  ASSUME Types
  PROVE  /\ Chunk \in Nat /\ Chunk <= dev.left /\ Chunk <= kind.mps
         /\ Chunk \in {dev.left, kind.mps}
         /\ Got \in Nat /\ Got \in {0, Chunk}
         /\ Got # 0 => Token = "IN" /\ dev.stage = "data" /\ dev.toggle = toggle
<1>1. dev.left \in Nat /\ kind.mps \in Nat
  BY KindTypes DEF Types, DevTypes, Pipes
<1>2. /\ Chunk \in Nat /\ Chunk <= dev.left /\ Chunk <= kind.mps /\ Chunk \in {dev.left, kind.mps}
  BY <1>1, LeastOf DEF Chunk
<1>3. Token = "IN" /\ dev.stage = "data" /\ Result = 0 => dev.toggle = toggle
  BY DEF Result
<1> QED
  BY <1>2, <1>3 DEF Got

LEMMA TokenOf ==
  ASSUME Types, ~Done
  PROVE  /\ Token = "SETUP" <=> call.stage = "setup"
         /\ Token = "IN" <=> call.stage = "data"
         /\ Token = "OUTHS" <=> call.stage = "status" /\ Reading
         /\ Token = "INHS" <=> call.stage = "status" /\ ~Reading
         /\ Token \in {"SETUP", "IN", "OUTHS", "INHS"}
  BY DEF Types, CallTypes, Calls, Stages, Done, Token

\* The stage that follows when a packet went through.
AfterStage == CASE call.stage = "setup"  -> IF Reading THEN "data" ELSE "status"
                [] call.stage = "data"   -> IF Complete(Got) THEN "status" ELSE "data"
                [] call.stage = "status" -> "returned"

\* The transfer after the chip has reported r.
LEMMA PacketCall ==
  ASSUME Types, NEW r \in Codes, NEW d, NEW a \in BOOLEAN, Packet(r, d, a)
  PROVE  /\ ~Done /\ dev' = d /\ call' \in Calls /\ Counters'
         /\ call'.what = call.what /\ call'.value = call.value /\ call'.n = call.n
         /\ call'.addr = call.addr
         /\ call'.heard = (call.heard \/ (call.stage = "setup" /\ a))
         /\ r # 0 => /\ call'.xfrlen = call.xfrlen
                     /\ call'.stage \in {call.stage, "returned"}
                     /\ call'.stage = "returned" => call'.rcode # 0
                     /\ r \notin {4, 14} => call'.stage = "returned"
         /\ r = 0 => /\ call'.xfrlen = IF call.stage = "data" THEN call.xfrlen + Got ELSE call.xfrlen
                     /\ call'.stage = AfterStage
                     /\ call'.rcode = IF call.stage = "status" THEN 0 ELSE call.rcode
<1> DEFINE h == call.heard \/ (Token = "SETUP" /\ a)
           c == [call EXCEPT !.heard = h]
<1>1. call \in Calls /\ call.stage # "returned"
  BY DEF Packet, Types, CallTypes
<1>2. h \in BOOLEAN /\ (h = (call.heard \/ (call.stage = "setup" /\ a)))
  BY <1>1, TokenOf DEF Done
<1>3. /\ c \in Calls /\ c.what = call.what /\ c.value = call.value /\ c.n = call.n
      /\ c.addr = call.addr /\ c.heard = h /\ c.stage = call.stage /\ c.xfrlen = call.xfrlen
      /\ c.nak = call.nak /\ c.retry = call.retry /\ c.rcode = call.rcode
  BY <1>1, <1>2 DEF Calls
<1>4. call' = Dispatched(c, r, Got) /\ dev' = d
  BY DEF Packet
<1> HIDE DEF c, h
<1>5. call.xfrlen \in Nat /\ call.nak \in Nat /\ call.retry \in Nat /\ call.stage \in Stages
  BY <1>1 DEF Calls
<1>6. NakLimit \in Nat \ {0} /\ RetryLimit \in Nat \ {0} /\ call.nak < NakLimit /\ call.retry < RetryLimit
  BY <1>1, LimitsAssumption DEF Types, Counters
<1> DEFINE Same(k) == /\ k \in Calls /\ k.what = c.what /\ k.value = c.value /\ k.n = c.n
                      /\ k.addr = c.addr /\ k.heard = c.heard
           Failed(k) == /\ k.xfrlen = c.xfrlen /\ k.stage \in {c.stage, "returned"}
                        /\ k.stage = "returned" => k.rcode # 0
                        /\ r \notin {4, 14} => k.stage = "returned"
           Counts(k) == /\ k.nak <= NakLimit /\ k.retry <= RetryLimit
                        /\ k.stage # "returned" => k.nak < NakLimit /\ k.retry < RetryLimit
           Sent(k, s, x, rc) == Same(k) /\ Counts(k) /\ k.stage = s /\ k.xfrlen = x /\ k.rcode = rc
<1> DEFINE Goal ==
             /\ r # 0 => /\ call'.xfrlen = call.xfrlen
                         /\ call'.stage \in {call.stage, "returned"}
                         /\ call'.stage = "returned" => call'.rcode # 0
                         /\ r \notin {4, 14} => call'.stage = "returned"
             /\ r = 0 => /\ call'.xfrlen = IF call.stage = "data" THEN call.xfrlen + Got
                                                                  ELSE call.xfrlen
                         /\ call'.stage = AfterStage
                         /\ call'.rcode = IF call.stage = "status" THEN 0 ELSE call.rcode
             /\ Same(call') /\ Counts(call')
<1>7. ASSUME r = 0 PROVE Goal
  <2>1. call' = StageDone(c, Got)
    BY <1>4, <1>7 DEF Dispatched
  <2>2. CASE call.stage = "setup"
    <3> DEFINE st == IF Reading THEN "data" ELSE "status"
    <3>1. call' = [c EXCEPT !.stage = st, !.nak = 0, !.retry = 0]
      BY <1>3, <2>1, <2>2 DEF StageDone, Onward
    <3>2. st \in {"data", "status"}
      OBVIOUS
    <3> HIDE DEF st
    <3>3. Sent(call', st, call.xfrlen, call.rcode)
      <4>1. Same(call')
        BY <1>3, <3>1, <3>2 DEF Calls, Stages
      <4>2. /\ call'.stage = st /\ call'.xfrlen = c.xfrlen /\ call'.rcode = c.rcode
            /\ call'.nak = 0 /\ call'.retry = 0
        BY <1>3, <3>1 DEF Calls
      <4>3. Counts(call')
        BY <1>6, <4>2
      <4> QED
        BY <1>3, <4>1, <4>2, <4>3
    <3> QED
      BY <1>3, <1>7, <2>2, <3>3 DEF st, AfterStage
  <2>3. CASE call.stage = "data"
    <3> DEFINE st == IF Complete(Got) THEN "status" ELSE "data"
               x == call.xfrlen + Got
    <3>1. call' = [[c EXCEPT !.stage = st, !.nak = 0, !.retry = 0] EXCEPT !.xfrlen = @ + Got]
      BY <1>3, <2>1, <2>3 DEF StageDone, Onward
    <3>2. st \in {"status", "data"}
      OBVIOUS
    <3>3. x \in Nat
      BY <1>5, GotTypes
    <3>4. call' = [[c EXCEPT !.stage = st, !.nak = 0, !.retry = 0] EXCEPT !.xfrlen = x]
      BY <1>3, <3>1 DEF Calls
    <3> HIDE DEF st, x
    <3>5. Sent(call', st, x, call.rcode)
      <4>1. Same(call')
        BY <1>3, <3>2, <3>3, <3>4 DEF Calls, Stages
      <4>2. /\ call'.stage = st /\ call'.xfrlen = x /\ call'.rcode = c.rcode
            /\ call'.nak = 0 /\ call'.retry = 0
        BY <1>3, <3>4 DEF Calls
      <4>3. Counts(call')
        BY <1>6, <4>2
      <4> QED
        BY <1>3, <4>1, <4>2, <4>3
    <3> QED
      BY <1>3, <1>7, <2>3, <3>5 DEF st, x, AfterStage
  <2>4. CASE call.stage = "status"
    <3>1. call' = [c EXCEPT !.stage = "returned", !.rcode = 0]
      BY <1>3, <2>1, <2>4 DEF StageDone, Returned
    <3>2. Sent(call', "returned", call.xfrlen, 0)
      <4>1. Same(call')
        BY <1>3, <3>1 DEF Calls, Stages
      <4>2. /\ call'.stage = "returned" /\ call'.xfrlen = c.xfrlen /\ call'.rcode = 0
            /\ call'.nak = c.nak /\ call'.retry = c.retry
        BY <1>3, <3>1 DEF Calls
      <4>3. Counts(call')
        BY <1>3, <1>5, <1>6, <4>2
      <4> QED
        BY <1>3, <4>1, <4>2, <4>3
    <3> QED
      BY <1>3, <1>7, <2>4, <3>2 DEF AfterStage
  <2> QED
    BY <1>1, <1>5, <2>2, <2>3, <2>4 DEF Stages
<1>8. ASSUME r # 0 PROVE Goal
  <2>1. Same(call') /\ Failed(call') /\ Counts(call')
    <3>1. CASE r = 4
      <4>1. call' = Refused(c)
        BY <1>4, <3>1 DEF Dispatched
      <4>2. CASE c.nak + 1 = NakLimit
        <5>1. call' = [[c EXCEPT !.nak = NakLimit] EXCEPT !.stage = "returned", !.rcode = 4]
          BY <4>1, <4>2 DEF Refused, ErrorReturned, Returned
        <5>2. Same(call')
          BY <1>3, <1>6, <5>1 DEF Calls, Stages
        <5>3. /\ call'.stage = "returned" /\ call'.xfrlen = c.xfrlen /\ call'.rcode = 4
              /\ call'.nak = NakLimit /\ call'.retry = c.retry
          BY <1>3, <5>1 DEF Calls
        <5> QED
          BY <1>3, <1>5, <1>6, <5>2, <5>3
      <4>3. CASE c.nak + 1 # NakLimit
        <5> DEFINE m == c.nak + 1
        <5>1. m \in Nat /\ m < NakLimit
          BY <1>3, <1>5, <1>6, <4>3
        <5>2. call' = [c EXCEPT !.nak = m]
          BY <1>3, <4>1, <4>3 DEF Refused, Calls
        <5> HIDE DEF m
        <5> QED
          BY <1>1, <1>3, <1>6, <3>1, <5>1, <5>2 DEF Calls, Stages
      <4> QED
        BY <4>2, <4>3
    <3>2. CASE r = 14
      <4>1. call' = Timeout(c)
        BY <1>4, <3>2 DEF Dispatched
      <4>2. CASE c.retry + 1 = RetryLimit
        <5>1. call' = [[c EXCEPT !.retry = RetryLimit] EXCEPT !.stage = "returned", !.rcode = 14]
          BY <4>1, <4>2 DEF Timeout, ErrorReturned, Returned
        <5>2. Same(call')
          BY <1>3, <1>6, <5>1 DEF Calls, Stages
        <5>3. /\ call'.stage = "returned" /\ call'.xfrlen = c.xfrlen /\ call'.rcode = 14
              /\ call'.retry = RetryLimit /\ call'.nak = c.nak
          BY <1>3, <5>1 DEF Calls
        <5> QED
          BY <1>3, <1>5, <1>6, <5>2, <5>3
      <4>3. CASE c.retry + 1 # RetryLimit
        <5> DEFINE m == c.retry + 1
        <5>1. m \in Nat /\ m < RetryLimit
          BY <1>3, <1>5, <1>6, <4>3
        <5>2. call' = [c EXCEPT !.retry = m]
          BY <1>3, <4>1, <4>3 DEF Timeout, Calls
        <5> HIDE DEF m
        <5> QED
          BY <1>1, <1>3, <1>6, <3>2, <5>1, <5>2 DEF Calls, Stages
      <4> QED
        BY <4>2, <4>3
    <3>3. CASE r \notin {4, 14}
      <4>1. call' = [c EXCEPT !.stage = "returned", !.rcode = r]
        BY <1>4, <1>8, <3>3 DEF Dispatched, ErrorReturned, Returned
      <4>2. r \in Nat
        BY DEF Codes
      <4>3. Same(call')
        BY <1>3, <4>1, <4>2 DEF Calls, Stages
      <4>4. /\ call'.stage = "returned" /\ call'.xfrlen = c.xfrlen /\ call'.rcode = r
            /\ call'.nak = c.nak /\ call'.retry = c.retry
        BY <1>3, <4>1 DEF Calls
      <4> QED
        BY <1>3, <1>5, <1>6, <1>8, <4>3, <4>4
    <3> QED
      BY <3>1, <3>2, <3>3
  <2> QED
    BY <1>3, <1>8, <2>1
<1>9. Goal
  BY <1>7, <1>8
<1>10. Same(call') /\ Counts(call')
  BY <1>9
<1>11. Counters'
  BY <1>10 DEF Counters
<1>12. call'.heard = (call.heard \/ (call.stage = "setup" /\ a))
  BY <1>2, <1>3, <1>10
<1>13. ~Done /\ dev' = d
  BY <1>1, <1>4 DEF Done
<1>14. /\ call'.what = call.what /\ call'.value = call.value /\ call'.n = call.n
       /\ call'.addr = call.addr /\ call' \in Calls
  BY <1>3, <1>10
<1> HIDE DEF Same, Counts
<1> QED
  BY <1>9, <1>11, <1>12, <1>13, <1>14, Zenon

\* The four things that can happen to a packet.
Delivered == Packet(Result, Reaction, TRUE) /\ Listens
Missed(r) == r # 0 /\ Packet(r, dev, FALSE)
AckLost   == Packet(0, dev, TRUE) /\ Listens /\ Result = 0 /\ Token \in {"IN", "INHS"}
AnswerLost == Packet(14, Reaction, TRUE) /\ Listens /\ Result = 0 /\ Token \in {"SETUP", "OUTHS"}

LEMMA BusPacket ==
  ASSUME Types, Bus
  PROVE  /\ ~Done /\ faults' \in 0..MaxFaults /\ (faults' = 0 => faults = 0)
         /\ \/ Delivered
            \/ \E r \in Codes \ {0} : Missed(r) /\ (faults' # 0 \/ ~Listens)
            \/ AckLost /\ faults' # 0
            \/ AnswerLost /\ faults' # 0
<1>1. faults \in 0..MaxFaults /\ MaxFaults \in Nat
  BY LimitsAssumption DEF Types, DevTypes
<1>2. Fault => faults' \in 0..MaxFaults /\ faults' # 0
  BY <1>1 DEF Fault
<1>3. CASE Exchange
  BY <1>1, <1>3 DEF Exchange, Delivered, Missed, Packet, Done, Codes
<1>4. CASE Lose
  BY <1>2, <1>4 DEF Lose, Missed, Packet, Done, Codes
<1>5. CASE LoseHandshake
  <2>1. Token \in {"SETUP", "IN", "OUTHS", "INHS"}
    BY <1>5, TokenOf DEF LoseHandshake, Packet, Done
  <2> QED
    BY <1>2, <1>5, <2>1 DEF LoseHandshake, AckLost, AnswerLost, Packet, Done
<1>6. CASE Refuse
  BY <1>2, <1>6 DEF Refuse, Missed, Packet, Done, Codes
<1>7. CASE Expire
  BY <1>2, <1>7 DEF Expire, Missed, Packet, Done, Codes
<1> QED
  BY <1>3, <1>4, <1>5, <1>6, <1>7 DEF Bus

LEMMA ResultCodes == Result \in {0, 5, 6}
  BY DEF Result

\* The requests of a transfer under way carry what Order says.
LEMMA Asked ==
  ASSUME Types, Order, ~Done
  PROVE  /\ Names /\ task \notin {"RUNNING", "ERROR"}
         /\ call.what = "setAddr" => call.value = 1 /\ task = "ADDRESSING" /\ at = "address"
         /\ call.addr = 1 => task = "CONFIGURING" /\ call.what # "setAddr"
         /\ task = "CONFIGURING" => call.addr = 1
         /\ ~Reading => call.n = 0
BY DEF Types, TaskTypes, States, Order, Asks, Names, Reading, Reads, Done

\* What the device does with a token.
LEMMA Reacts ==
  ASSUME Types, Order, ~Done
  PROVE  /\ Reaction \in Pipes
         /\ call.what # "setAddr" => Reaction.addr = dev.addr
         /\ Token # "SETUP" \/ call.what # "setConf" => Reaction.config = dev.config
         /\ Token = "SETUP" /\ call.what = "setConf" => Reaction.config = call.value
         /\ Token # "SETUP" \/ call.what # "setProto" => Reaction.proto = dev.proto
         /\ Token = "SETUP" /\ call.what = "setProto" => Reaction.proto = "boot"
         /\ Token = "SETUP" => /\ Reaction.left = Whole /\ Reaction.toggle = 1
                               /\ Reaction.more = (call.n > Has(call))
                               /\ Reaction.addr = dev.addr
                               /\ call.what = "setAddr" => Reaction.pending = 1
                               /\ Reaction.stage = IF ~Reading \/ call.n = 0 THEN "in"
                                                   ELSE IF Has(call) = 0 THEN "stall" ELSE "data"
         /\ Token # "SETUP" => Reaction.pending = dev.pending /\ Reaction.more = dev.more
         /\ Token = "IN" /\ dev.stage = "data" =>
              /\ Reaction.left = dev.left - Chunk /\ Reaction.toggle = 1 - dev.toggle
              /\ Reaction.stage = IF Chunk < kind.mps \/ (dev.left = Chunk /\ ~dev.more)
                                  THEN "out" ELSE "data"
         /\ Token \in {"IN", "INHS"} /\ dev.stage = "in" =>
              /\ Reaction.stage = "idle"
              /\ Reaction.addr = IF call.what = "setAddr" THEN dev.pending ELSE dev.addr
         /\ Token = "OUTHS" => Reaction.stage \in {dev.stage, "idle"} /\ Reaction.addr = dev.addr
         /\ Token = "IN" /\ dev.stage \notin {"data", "in"} => Reaction = dev
         /\ Token = "INHS" /\ dev.stage # "in" => Reaction = dev
<1>1. dev \in Pipes /\ call \in Calls
  BY DEF Types, DevTypes, CallTypes
<1>2. /\ Has(call) \in Nat /\ Whole \in Nat /\ Whole = Least(call.n, Has(call))
      /\ call.n \in Nat /\ call.value \in Nat
  BY <1>1, Asked, HasTypes DEF Whole, Calls
<1>3. CASE Token = "SETUP"
  <2> DEFINE s == IF ~Reading \/ call.n = 0 THEN "in"
                  ELSE IF Has(call) = 0 THEN "stall" ELSE "data"
             m == call.n > Has(call)
             p == IF call.what = "setAddr" THEN call.value ELSE dev.pending
             c == IF call.what = "setConf" THEN call.value ELSE dev.config
             b == IF call.what = "setProto" THEN "boot" ELSE dev.proto
  <2>1. Reaction = [dev EXCEPT !.stage = s, !.left = Whole, !.more = m, !.toggle = 1,
                               !.pending = p, !.config = c, !.proto = b]
    BY <1>1, <1>2, <1>3 DEF Reaction, Setup, Pipes
  <2>2. /\ s \in {"in", "stall", "data"} /\ m \in BOOLEAN /\ p \in 0..1 /\ c \in Nat
        /\ b \in {"report", "boot"}
    BY <1>1, <1>2, Asked DEF Pipes
  <2> HIDE DEF s, m, p, c, b
  <2>3. Whole \in Nat
    BY <1>2
  <2>4. Reaction \in Pipes
    <3> DEFINE t == 1
    <3>1. Reaction = [dev EXCEPT !.stage = s, !.left = Whole, !.more = m, !.toggle = t,
                                 !.pending = p, !.config = c, !.proto = b]
      BY <2>1
    <3>2. t \in 0..1
      OBVIOUS
    <3> HIDE DEF t
    <3> QED
      BY <1>1, <2>2, <2>3, <3>1, <3>2 DEF Pipes
  <2>5. /\ Reaction.stage = s /\ Reaction.left = Whole /\ Reaction.more = m
        /\ Reaction.toggle = 1 /\ Reaction.pending = p /\ Reaction.config = c
        /\ Reaction.proto = b /\ Reaction.addr = dev.addr
    BY <1>1, <2>1 DEF Pipes
  <2> QED
    BY <1>3, <2>4, <2>5, Asked DEF s, m, p, c, b
<1>4. CASE Token = "IN" /\ dev.stage = "data"
  <2> DEFINE s == IF Chunk < kind.mps \/ (dev.left = Chunk /\ ~dev.more) THEN "out" ELSE "data"
             x == dev.left - Chunk
             t == 1 - dev.toggle
  <2>1. Reaction = [dev EXCEPT !.left = x, !.toggle = t, !.stage = s]
    BY <1>1, <1>4 DEF Reaction, Advanced, Pipes
  <2>2. s \in {"out", "data"} /\ x \in Nat /\ t \in 0..1
    BY <1>1, GotTypes DEF Pipes
  <2> HIDE DEF s, x, t
  <2>3. /\ Reaction \in Pipes
        /\ Reaction.stage = s /\ Reaction.left = x /\ Reaction.toggle = t
        /\ Reaction.addr = dev.addr /\ Reaction.config = dev.config
        /\ Reaction.proto = dev.proto /\ Reaction.more = dev.more
        /\ Reaction.pending = dev.pending
    BY <1>1, <2>1, <2>2 DEF Pipes
  <2> QED
    BY <1>4, <2>3 DEF s, x, t
<1>5. CASE Token \in {"IN", "INHS"} /\ dev.stage = "in"
  <2> DEFINE a == IF call.what = "setAddr" THEN dev.pending ELSE dev.addr
  <2>1. Reaction = [dev EXCEPT !.stage = "idle", !.addr = a]
    BY <1>1, <1>5 DEF Reaction, Finished, Pipes
  <2>2. a \in 0..1
    BY <1>1 DEF Pipes
  <2> HIDE DEF a
  <2>3. /\ Reaction \in Pipes /\ Reaction.stage = "idle" /\ Reaction.addr = a
        /\ Reaction.config = dev.config /\ Reaction.proto = dev.proto
        /\ Reaction.more = dev.more /\ Reaction.pending = dev.pending
    BY <1>1, <2>1, <2>2 DEF Pipes
  <2> QED
    BY <1>5, <2>3 DEF a
<1>6. CASE Token = "OUTHS" /\ dev.stage \in {"data", "out"}
  <2>1. Reaction = [dev EXCEPT !.stage = "idle", !.addr = dev.addr]
    BY <1>1, <1>6 DEF Reaction, Finished, Pipes
  <2>2. /\ Reaction \in Pipes /\ Reaction.stage = "idle" /\ Reaction.addr = dev.addr
        /\ Reaction.config = dev.config /\ Reaction.proto = dev.proto
        /\ Reaction.more = dev.more /\ Reaction.pending = dev.pending
    BY <1>1, <2>1 DEF Pipes
  <2> QED
    BY <1>6, <2>2
<1>7. CASE /\ Token # "SETUP" /\ ~(Token = "IN" /\ dev.stage = "data")
           /\ ~(Token \in {"IN", "INHS"} /\ dev.stage = "in")
           /\ ~(Token = "OUTHS" /\ dev.stage \in {"data", "out"})
  <2>1. Reaction = dev
    BY <1>7 DEF Reaction
  <2> QED
    BY <1>1, <1>7, <2>1
<1> QED
  BY <1>3, <1>4, <1>5, <1>6, <1>7

\* In each of the four cases: what was reported, what the device did, and
\* whether it has taken the packet.
LEMMA BusCases ==
  ASSUME Types, Order, Bus
  PROVE  \E r \in Codes, d \in Pipes, a \in BOOLEAN :
           /\ Packet(r, d, a) /\ d \in {dev, Reaction} /\ (a => Listens)
           /\ ~a => d = dev /\ r # 0
           /\ a /\ Token \in {"SETUP", "OUTHS"} => d = Reaction
           /\ \/ r = Result /\ d = Reaction /\ Listens
              \/ r # 0 /\ d = dev /\ (faults' # 0 \/ ~Listens)
              \/ r = 0 /\ Result = 0 /\ d = dev /\ Token \in {"IN", "INHS"} /\ faults' # 0
              \/ r # 0 /\ Result = 0 /\ d = Reaction /\ Token \in {"SETUP", "OUTHS"} /\ faults' # 0
<1>1. ~Done
  BY BusPacket
<1>2. dev \in Pipes /\ Reaction \in Pipes /\ Result \in Codes
  BY <1>1, Reacts, ResultCodes DEF Types, DevTypes, Codes
<1>3. CASE Delivered
  BY <1>2, <1>3 DEF Delivered
<1>4. ASSUME NEW r \in Codes \ {0}, Missed(r), faults' # 0 \/ ~Listens
      PROVE  /\ r \in Codes /\ FALSE \in BOOLEAN /\ Packet(r, dev, FALSE) /\ r # 0
  BY <1>4 DEF Missed
<1>5. CASE AckLost /\ faults' # 0
  <2>1. 0 \in Codes /\ dev \in Pipes
    BY <1>2 DEF Codes
  <2>2. /\ 0 \in Codes /\ dev \in Pipes /\ TRUE \in BOOLEAN /\ faults' # 0
        /\ Packet(0, dev, TRUE) /\ Listens /\ Result = 0 /\ Token \in {"IN", "INHS"}
    BY <1>2, <1>5 DEF AckLost, Codes
  <2> USE <2>1
  <2> WITNESS 0 \in Codes, dev \in Pipes, TRUE \in BOOLEAN
  <2> QED
    BY <2>2
<1>6. CASE AnswerLost /\ faults' # 0
  <2>1. 14 \in Codes /\ Reaction \in Pipes
    BY <1>2 DEF Codes
  <2>2. /\ 14 \in Codes /\ Reaction \in Pipes /\ TRUE \in BOOLEAN /\ faults' # 0
        /\ Packet(14, Reaction, TRUE) /\ Listens /\ Result = 0 /\ Token \in {"SETUP", "OUTHS"}
    BY <1>2, <1>6 DEF AnswerLost, Codes
  <2> USE <2>1
  <2> WITNESS 14 \in Codes, Reaction \in Pipes, TRUE \in BOOLEAN
  <2> QED
    BY <2>2
<1> QED
  BY <1>2, <1>3, <1>4, <1>5, <1>6, BusPacket

\* What a packet leaves alone.
LEMMA BusKeeps ==
  ASSUME Types, Order, Bus
  PROVE  /\ UNCHANGED <<task, usb_error, at, strings, probe, total_length, byte_ptr>>
         /\ UNCHANGED <<devtable, MaxPktSize, hid, PERADDR, kind, present>>
         /\ call' \in Calls /\ Counters' /\ ~Done
         /\ call'.what = call.what /\ call'.value = call.value /\ call'.n = call.n
         /\ call'.addr = call.addr
         /\ faults' \in 0..MaxFaults /\ (faults' = 0 => faults = 0)
<1>1. PICK r \in Codes, d \in Pipes, a \in BOOLEAN : Packet(r, d, a)
  BY BusCases
<1>2. /\ call' \in Calls /\ Counters' /\ ~Done
      /\ call'.what = call.what /\ call'.value = call.value /\ call'.n = call.n
      /\ call'.addr = call.addr
  BY <1>1, PacketCall
<1>3. UNCHANGED <<taskvars, tables, PERADDR, kind, present>>
  BY <1>1 DEF Packet
<1> QED
  BY <1>2, <1>3, BusPacket DEF taskvars, tables

LEMMA BusTypes == ASSUME Types, Order, Bus PROVE Types'
<1>1. PICK r \in Codes, d \in Pipes, a \in BOOLEAN : Packet(r, d, a)
  BY BusCases
<1>2. dev' \in Pipes
  BY <1>1, PacketCall
<1>3. toggle' \in 0..1
  BY <1>1 DEF Packet, Types, CallTypes
<1> QED
  BY <1>2, <1>3, BusKeeps DEF Types, TaskTypes, CallTypes, DevTypes

\* A packet changes neither the point of the enumeration nor the tables.
LEMMA BusOrder ==
  ASSUME Types, Order, PacketSizes, Walk, Causes, Bus
  PROVE  Order' /\ PacketSizes' /\ Walk' /\ Causes'
<1>1. Order'
  BY BusKeeps DEF Types, TaskTypes, States, Order, Asks, Done
<1>2. PacketSizes'
  BY BusKeeps DEF PacketSizes
<1>3. Walk'
  BY BusKeeps DEF Walk, Standing, Passed, Taken, First, Chosen, Cut
<1>4. Causes'
  BY BusKeeps DEF Causes, Quiet, First, Chosen
<1> QED
  BY <1>1, <1>2, <1>3, <1>4

-----------------------------------------------------------------------------
(* A transfer *)

\* The host counts in packets of the device, or asks for less than one.
LEMMA PacketSize ==
  ASSUME Types, Order, PacketSizes, ~Done
  PROVE  /\ PktSize \in Nat /\ PktSize >= 8 /\ PktSize <= kind.mps
         /\ PktSize = kind.mps \/ (call.n = 8 /\ PktSize = 8)
<1>1. kind.mps \in Nat /\ kind.mps >= 8
  BY KindTypes DEF Types
<1>2. \/ PktSize = kind.mps
      \/ call.n = 8 /\ PktSize = 8
  <2>1. CASE task = "GET_DESCRIPTOR"
    BY <2>1 DEF Order, PacketSizes, PktSize, Asks, Done
  <2>2. CASE task = "ADDRESSING"
    BY <2>2 DEF Order, PacketSizes, PktSize, Asks, Done
  <2>3. CASE task = "CONFIGURING"
    <3>1. devtable.epinfo \in {"dev0ep", "hid_ep"}
      BY <2>3 DEF Types, TaskTypes, Table, Order
    <3>2. call.addr = 1
      BY <2>3, Asked
    <3> QED
      BY <2>3, <3>1, <3>2 DEF PacketSizes, PktSize
  <2> QED
    BY <2>1, <2>2, <2>3, Asked DEF Types, TaskTypes, States
<1> QED
  BY <1>1, <1>2

\* A packet that the chip takes in the data stage brings the transfer nearer to
\* its end, and the last one brings the rest.
LEMMA DataArrives ==
  ASSUME Types, Order, PacketSizes, Transfer, call.stage = "data", Result = 0
  PROVE  /\ call.xfrlen + Got \in Nat /\ call.xfrlen + Got <= Whole
         /\ Complete(Got) => call.xfrlen + Got = Whole
         /\ dev.stage \in {"data", "in"}
         /\ dev.stage = "data" =>
              /\ dev.toggle = toggle /\ Got = Chunk /\ dev.left = Whole - call.xfrlen
              /\ ~Complete(Got) => Got = kind.mps
<1>1. ~Done /\ Reading /\ call.heard /\ call.xfrlen <= Whole
  BY DEF Done, Transfer
<1>2. Token = "IN"
  BY <1>1, TokenOf
<1>3. /\ call.xfrlen \in Nat /\ call.n \in Nat /\ Whole \in Nat /\ Whole <= call.n
  BY <1>1, Asked, HasTypes DEF Types, CallTypes, Calls
<1>4. dev.stage \in {"data", "in"} /\ (dev.stage = "data" => dev.toggle = toggle)
  BY <1>2 DEF Result
<1>5. CASE dev.stage = "in"
  <2>1. call.n = 0 /\ Got = 0
    BY <1>1, <1>5, GotTypes DEF Transfer
  <2> QED
    BY <1>1, <1>3, <1>5, <2>1
<1>6. CASE dev.stage = "data"
  <2>1. Got = Chunk
    BY <1>2, <1>6 DEF Got
  <2>2. dev.left = Whole - call.xfrlen
    BY <1>1, <1>4, <1>6 DEF Transfer, Done
  <2>3. Complete(Got) <=> Got < PktSize \/ call.xfrlen + Got >= call.n
    BY DEF Complete
  <2>4. /\ Got \in Nat /\ Got <= dev.left /\ Got <= kind.mps /\ Got \in {dev.left, kind.mps}
    BY <2>1, GotTypes
  <2>5. kind.mps \in Nat /\ PktSize \in Nat /\ PktSize <= kind.mps
        /\ (PktSize = kind.mps \/ (call.n = 8 /\ PktSize = 8))
    BY <1>1, KindTypes, PacketSize DEF Types
  <2> QED
    BY <1>3, <1>4, <1>6, <2>1, <2>2, <2>3, <2>4, <2>5
<1> QED
  BY <1>4, <1>5, <1>6

\* A transfer under way stays one that loses nothing it has promised.
LEMMA BusTransfer ==
  ASSUME Types, Order, PacketSizes, Transfer, Bus
  PROVE  Transfer'
<1>1. PICK r \in Codes, d \in Pipes, a \in BOOLEAN :
         /\ Packet(r, d, a) /\ d \in {dev, Reaction}
         /\ ~a => d = dev /\ r # 0
         /\ a /\ Token \in {"SETUP", "OUTHS"} => d = Reaction
         /\ r = 0 => Result = 0
         /\ r = Result \/ d = dev \/ Token \in {"SETUP", "OUTHS"}
  BY BusCases
<1>2. /\ ~Done /\ dev' = d
      /\ call'.heard = (call.heard \/ (call.stage = "setup" /\ a))
      /\ r # 0 => /\ call'.xfrlen = call.xfrlen
                  /\ call'.stage \in {call.stage, "returned"}
                  /\ r \notin {4, 14} => call'.stage = "returned"
      /\ r = 0 => /\ call'.xfrlen = IF call.stage = "data" THEN call.xfrlen + Got ELSE call.xfrlen
                  /\ call'.stage = AfterStage
  BY <1>1, PacketCall
<1>3. UNCHANGED <<task, at, PERADDR, kind>> /\ call' \in Calls
      /\ call'.what = call.what /\ call'.value = call.value /\ call'.n = call.n
      /\ call'.addr = call.addr
  BY BusKeeps
<1>4. Has(call)' = Has(call) /\ Whole' = Whole /\ Reading' = Reading
  BY <1>3 DEF Has, Whole, Reading
<1>5. /\ call.xfrlen \in Nat /\ call.n \in Nat /\ Whole \in Nat /\ Whole <= call.n
      /\ (~Reading => Whole = 0) /\ call.stage \in {"setup", "data", "status"}
  BY <1>2, Asked, HasTypes DEF Types, CallTypes, Calls, Stages, Done
<1>6. toggle' = IF Token = "SETUP" /\ r = 0 /\ Reading THEN 1
                ELSE IF Token = "IN" /\ r = 0 THEN 1 - toggle ELSE toggle
  BY <1>1 DEF Packet
<1>7. CASE call.stage = "setup"
  <2>1. Token = "SETUP" /\ call.xfrlen = 0 /\ call'.xfrlen = 0
    BY <1>2, <1>7, TokenOf DEF Transfer
  <2>2. a => /\ dev'.left = Whole /\ dev'.toggle = 1
             /\ dev'.stage = "in" /\ Reading => call.n = 0
    BY <1>1, <1>2, <2>1, Reacts
  <2>3. r = 0 => a /\ call'.stage = IF Reading THEN "data" ELSE "status"
    BY <1>1, <1>2, <1>7 DEF AfterStage
  <2>4. r = 0 /\ Reading => toggle' = 1
    BY <1>6, <2>1
  <2>5. ~a => dev' = dev /\ r # 0
    BY <1>1, <1>2
  <2> QED
    BY <1>2, <1>3, <1>4, <1>5, <1>7, <2>1, <2>2, <2>3, <2>4, <2>5 DEF Transfer, Done
<1>8. CASE call.stage = "data"
  <2>1. Token = "IN" /\ Reading /\ call.heard /\ call'.heard
    BY <1>2, <1>8, TokenOf DEF Transfer
  <2>2. CASE r = 0
    <3>1. /\ call.xfrlen + Got \in Nat /\ call.xfrlen + Got <= Whole
          /\ Complete(Got) => call.xfrlen + Got = Whole
          /\ dev.stage \in {"data", "in"}
          /\ dev.stage = "data" =>
               dev.toggle = toggle /\ Got = Chunk /\ dev.left = Whole - call.xfrlen
      BY <1>1, <1>8, <2>2, DataArrives
    <3>2. /\ call'.xfrlen = call.xfrlen + Got
          /\ call'.stage = IF Complete(Got) THEN "status" ELSE "data"
          /\ toggle' = 1 - toggle /\ toggle \in 0..1
      BY <1>2, <1>6, <1>8, <2>1, <2>2 DEF AfterStage, Types, CallTypes
    <3>3. dev'.stage = "in" => call.n = 0
      <4>1. CASE dev' = dev
        BY <1>2, <2>1, <4>1 DEF Transfer
      <4>2. CASE dev' = Reaction
        BY <2>1, <3>1, <4>2, <1>2, Reacts
      <4> QED
        BY <1>1, <1>2, <4>1, <4>2
    <3>4. dev'.stage = "data" /\ dev'.toggle = toggle' => dev'.left = Whole - call'.xfrlen
      <4>1. CASE dev' = dev
        BY <3>1, <3>2, <4>1
      <4>2. CASE dev' = Reaction
        <5>1. CASE dev.stage = "in"
          BY <1>2, <2>1, <4>2, <5>1, Reacts
        <5>2. CASE dev.stage = "data"
          <6>1. dev'.left = dev.left - Chunk
            BY <1>2, <2>1, <4>2, <5>2, Reacts
          <6>2. Chunk \in Nat
            BY GotTypes
          <6> QED
            BY <1>5, <3>1, <3>2, <5>2, <6>1, <6>2
        <5> QED
          BY <3>1, <5>1, <5>2
      <4> QED
        BY <1>1, <1>2, <4>1, <4>2
    <3> QED
      BY <1>2, <1>3, <1>4, <1>5, <2>1, <3>1, <3>2, <3>3, <3>4 DEF Transfer, Done
  <2>3. CASE r # 0
    <3>1. call'.stage # "returned" => dev' = dev
      BY <1>1, <1>2, <2>1, <2>3, ResultCodes
    <3>2. toggle' = toggle /\ call'.xfrlen = call.xfrlen
      BY <1>2, <1>6, <2>1, <2>3
    <3> QED
      BY <1>2, <1>3, <1>4, <1>5, <1>8, <2>1, <2>3, <3>1, <3>2 DEF Transfer, Done
  <2> QED
    BY <2>2, <2>3
<1>9. CASE call.stage = "status"
  <2>1. call'.stage \in {"status", "returned"} /\ call'.xfrlen = call.xfrlen
    BY <1>2, <1>9 DEF AfterStage
  <2>2. Token = IF Reading THEN "OUTHS" ELSE "INHS"
    BY <1>2, <1>9, TokenOf
  <2>3. Reading => dev'.stage \in {dev.stage, "idle"}
    BY <1>1, <1>2, <2>2, Reacts
  <2> QED
    BY <1>2, <1>3, <1>4, <1>5, <1>9, <2>1, <2>3 DEF Transfer, Done
<1> QED
  BY <1>5, <1>7, <1>8, <1>9

\* A request is heard by the device at its address, and done when it is heard.
LEMMA BusHeard ==
  ASSUME Types, Order, Transfer, Heard, Reached, Bus
  PROVE  Heard' /\ Reached'
<1>1. PICK r \in Codes, d \in Pipes, a \in BOOLEAN :
         /\ Packet(r, d, a) /\ d \in {dev, Reaction} /\ (a => Listens)
         /\ ~a => d = dev /\ r # 0
         /\ a /\ Token \in {"SETUP", "OUTHS"} => d = Reaction
  BY BusCases
<1>2. /\ ~Done /\ dev' = d
      /\ call'.heard = (call.heard \/ (call.stage = "setup" /\ a))
      /\ r # 0 /\ call'.stage = "returned" => call'.rcode # 0
      /\ r = 0 => call'.stage = AfterStage
  BY <1>1, PacketCall
<1>3. UNCHANGED <<task, at, PERADDR, kind>>
      /\ call'.what = call.what /\ call'.value = call.value /\ call'.addr = call.addr
  BY BusKeeps
<1>4. call.stage \in {"setup", "data", "status"} /\ (Token = "SETUP" <=> call.stage = "setup")
  BY <1>2, TokenOf DEF Types, CallTypes, Calls, Stages, Done
<1>5. call.what # "setAddr" => dev'.addr = dev.addr
  BY <1>1, <1>2, Reacts
<1>6. /\ call.what # "setConf" => dev'.config = dev.config
      /\ call.what # "setProto" => dev'.proto = dev.proto
      /\ call.stage # "setup" => dev'.config = dev.config /\ dev'.proto = dev.proto
      /\ ~a => dev'.config = dev.config /\ dev'.proto = dev.proto
      /\ a /\ call.stage = "setup" => /\ call.what = "setConf" => dev'.config = call.value
                                      /\ call.what = "setProto" => dev'.proto = "boot"
  BY <1>1, <1>2, <1>4, Reacts
<1>7. call'.heard /\ ~call.heard => a /\ call.stage = "setup" /\ dev.addr = call.addr
  BY <1>1, <1>2 DEF Listens, Transfer
<1>8. /\ call.addr = 1 => task = "CONFIGURING" /\ call.what # "setAddr"
      /\ task = "CONFIGURING" => call.addr = 1
      /\ task # "RUNNING"
  BY <1>2, Asked
<1>9. Heard'
  <2>1. Done' /\ call'.rcode = 0 => call'.heard
    BY <1>2, <1>4 DEF Done, AfterStage, Transfer
  <2>2. call'.heard /\ call.addr = 1 => dev'.addr = 1
    BY <1>2, <1>5, <1>7, <1>8 DEF Heard
  <2>3. call'.heard /\ call.what = "setConf" => dev'.config = call.value
    BY <1>2, <1>6, <1>7 DEF Heard
  <2>4. call'.heard /\ call.what = "setProto" /\ call.addr = 1 => dev'.proto = "boot"
    BY <1>2, <1>6, <1>7 DEF Heard
  <2> QED
    BY <1>3, <2>1, <2>2, <2>3, <2>4 DEF Heard
<1>10. Reached'
  BY <1>2, <1>3, <1>5, <1>6, <1>8 DEF Reached, Order, Asks, Done
<1> QED
  BY <1>9, <1>10

\* With nothing lost or refused, host and device go through a transfer together.
LEMMA BusInStep ==
  ASSUME Types, Order, PacketSizes, Transfer, InStep, Strings, Bus
  PROVE  InStep' /\ Strings'
<1> SUFFICES ASSUME Quiet' PROVE InStep' /\ Strings'
  BY DEF InStep, Strings
<1>0. Quiet /\ ~Done
  BY BusKeeps DEF Quiet
<1>1. /\ dev.addr = PERADDR /\ present
      /\ Reading => call.n > 0 /\ Has(call) > 0
      /\ call.stage \in {"data", "status"} /\ call.what = "setAddr" => dev.pending = 1
      /\ call.stage = "data" => /\ dev.stage = "data" /\ dev.toggle = toggle
                                /\ dev.more = (call.n > Has(call))
      /\ call.stage = "status" => IF Reading THEN dev.stage # "stall" ELSE dev.stage = "in"
      /\ dev.addr = IF task = "GET_DESCRIPTOR" \/ task = "ADDRESSING" THEN 0 ELSE 1
  BY <1>0 DEF InStep, Quiet
<1>2. call.stage \in {"setup", "data", "status"}
      /\ (Token = "SETUP" <=> call.stage = "setup") /\ (Token = "IN" <=> call.stage = "data")
      /\ (call.stage = "status" => Token = IF Reading THEN "OUTHS" ELSE "INHS")
  BY <1>0, TokenOf DEF Types, CallTypes, Calls, Stages, Done
<1>3. Result = 0
  BY <1>1, <1>2 DEF Result
<1>4. Packet(0, Reaction, TRUE)
  <2>1. PICK r \in Codes, d \in Pipes, a \in BOOLEAN :
          /\ Packet(r, d, a) /\ (~a => r # 0)
          /\ r = Result /\ d = Reaction /\ Listens
    BY <1>0, <1>1, BusCases DEF Listens, Quiet
  <2> QED
    BY <1>3, <2>1
<1>5. /\ dev' = Reaction
      /\ call'.xfrlen = IF call.stage = "data" THEN call.xfrlen + Got ELSE call.xfrlen
      /\ call'.stage = AfterStage
      /\ call'.rcode = IF call.stage = "status" THEN 0 ELSE call.rcode
  BY <1>4, PacketCall DEF Codes
<1>6. UNCHANGED <<task, at, strings, PERADDR, kind>>
      /\ call'.what = call.what /\ call'.value = call.value /\ call'.n = call.n
      /\ call'.addr = call.addr
  BY BusKeeps
<1>7. Has(call)' = Has(call) /\ Whole' = Whole /\ Reading' = Reading
  BY <1>6 DEF Has, Whole, Reading
<1>8. toggle' = IF call.stage = "setup" /\ Reading THEN 1
                ELSE IF call.stage = "data" THEN 1 - toggle ELSE toggle
  BY <1>2, <1>4 DEF Packet
<1>9. /\ call.what = "setAddr" => task = "ADDRESSING" /\ at = "address"
      /\ task \notin {"RUNNING", "ERROR"}
  BY <1>0, Asked
<1>10. /\ task = "ADDRESSING" => at = "address" /\ call.what = "setAddr" /\ ~Reading
  BY <1>0 DEF Order, Asks, Reading, Reads
<1>11. Strings'
  <2>1. call'.stage = "returned" => call.stage = "status" /\ call'.xfrlen = call.xfrlen
    BY <1>2, <1>5 DEF AfterStage
  <2>2. call.stage = "status" => call.xfrlen = Whole
    BY <1>0 DEF Transfer
  <2> QED
    BY <1>0, <1>6, <1>7, <2>1, <2>2 DEF Strings, Done
<1>12. CASE call.stage = "setup"
  <2>1. /\ Reaction.addr = dev.addr /\ Reaction.toggle = 1
        /\ Reaction.more = (call.n > Has(call))
        /\ call.what = "setAddr" => Reaction.pending = 1
        /\ Reaction.stage = IF ~Reading \/ call.n = 0 THEN "in"
                            ELSE IF Has(call) = 0 THEN "stall" ELSE "data"
    BY <1>0, <1>2, <1>12, Reacts
  <2>2. call'.stage = IF Reading THEN "data" ELSE "status"
    BY <1>5, <1>12 DEF AfterStage
  <2>3. Reading => dev'.stage = "data"
    BY <1>1, <1>5, <2>1
  <2>4. ~Reading => dev'.stage = "in"
    BY <1>5, <2>1
  <2> QED
    BY <1>1, <1>5, <1>6, <1>7, <1>8, <1>9, <1>10, <1>11, <1>12, <2>1, <2>2, <2>3, <2>4 DEF InStep, Done
<1>13. CASE call.stage = "data"
  <2>1. Reading /\ dev.stage = "data" /\ Token = "IN" /\ dev.toggle = toggle
    BY <1>0, <1>1, <1>2, <1>13 DEF Transfer
  <2>2. /\ Reaction.toggle = 1 - dev.toggle /\ Reaction.more = dev.more
        /\ Reaction.addr = dev.addr
        /\ Reaction.stage = IF Chunk < kind.mps \/ (dev.left = Chunk /\ ~dev.more)
                            THEN "out" ELSE "data"
    BY <1>0, <1>9, <2>1, Reacts DEF Reading, Reads
  <2>3. /\ Got = Chunk /\ dev.left = Whole - call.xfrlen
        /\ ~Complete(Got) => Got = kind.mps
    BY <1>3, <1>13, <2>1, DataArrives
  <2>4. call'.stage = IF Complete(Got) THEN "status" ELSE "data"
    BY <1>5, <1>13 DEF AfterStage
  <2>5. ~Complete(Got) => Reaction.stage = "data"
    <3> SUFFICES ASSUME ~Complete(Got), dev.left = Chunk, ~dev.more PROVE FALSE
      <4>1. Chunk \in Nat /\ kind.mps \in Nat
        BY GotTypes, KindTypes DEF Types
      <4> QED
        BY <2>2, <2>3, <4>1
    <3>1. call.n \in Nat /\ Has(call) \in Nat /\ call.xfrlen \in Nat /\ Got \in Nat
      BY <1>0, Asked, HasTypes, GotTypes DEF Types, CallTypes, Calls
    <3>2. call.n <= Has(call)
      <4>1. ~(call.n > Has(call))
        BY <1>1, <1>13, Zenon
      <4> QED
        BY <3>1, <4>1
    <3>3. Whole = call.n
      BY <3>1, <3>2 DEF Whole, Least
    <3>4. call.xfrlen + Got >= call.n
      BY <2>3, <3>1, <3>3
    <3> QED
      BY <3>4 DEF Complete
  <2>6. Reaction.stage # "stall"
    BY <2>2
  <2> QED
    BY <1>1, <1>5, <1>6, <1>7, <1>8, <1>9, <1>10, <1>11, <1>13, <2>1, <2>2, <2>4, <2>5, <2>6
    DEF InStep, Done
<1>14. CASE call.stage = "status"
  <2>1. call'.stage = "returned" /\ call'.rcode = 0
    BY <1>5, <1>14 DEF AfterStage
  <2>2. Reaction.addr = IF call.what = "setAddr" THEN 1 ELSE dev.addr
    BY <1>0, <1>1, <1>2, <1>10, <1>14, Reacts DEF Reading, Reads
  <2> QED
    BY <1>1, <1>5, <1>6, <1>9, <1>10, <1>11, <1>14, <2>1, <2>2 DEF InStep, Done
<1> QED
  BY <1>2, <1>11, <1>12, <1>13, <1>14

\* The invariant but for the types, in two parts: what holds of any device, and
\* what holds while nothing is lost or refused.
Always  == Order /\ PacketSizes /\ Transfer /\ Heard /\ Reached /\ Walk
InQuiet == InStep /\ Strings /\ Causes

LEMMA BusStep == ASSUME EnumerationInv, Bus PROVE EnumerationInv'
  BY BusTypes, BusOrder, BusTransfer, BusHeard, BusInStep DEF EnumerationInv

LEMMA UnplugStep == ASSUME EnumerationInv, Unplug PROVE EnumerationInv'
<1>1. /\ present' = FALSE
      /\ UNCHANGED <<task, usb_error, at, strings, probe, total_length, byte_ptr, devtable,
                     MaxPktSize, hid, call, PERADDR, toggle, kind, dev, faults>>
  BY DEF Unplug, taskvars, tables
<1>2. Types'
  BY <1>1 DEF EnumerationInv, Types, TaskTypes, CallTypes, DevTypes, Counters
<1>3. Order' /\ PacketSizes'
  BY <1>1 DEF EnumerationInv, Order, PacketSizes, Asks, Done
<1>4. Transfer' /\ Heard' /\ Reached'
  BY <1>1 DEF EnumerationInv, Transfer, Heard, Reached, Done, Whole, Has, Reading
<1>5. Walk'
  BY <1>1 DEF EnumerationInv, Walk, Standing, Passed, Taken, First, Chosen, Cut
<1>6. InStep' /\ Strings' /\ Causes'
  BY <1>1 DEF InStep, Strings, Causes, Quiet
<1> QED
  BY <1>2, <1>3, <1>4, <1>5, <1>6 DEF EnumerationInv

\* Another device: nothing is left of the transfer.
LEMMA ReplugStep == ASSUME EnumerationInv, Replug PROVE EnumerationInv'
<1>1. /\ task' = "GET_DESCRIPTOR" /\ at' = "start" /\ strings' = {} /\ probe' = "mouse"
      /\ total_length' = 0 /\ byte_ptr' = 0 /\ devtable' = Cleared
      /\ MaxPktSize' = [MaxPktSize EXCEPT !.dev0ep = 0]
      /\ kind' \in Devices /\ dev' = Fresh /\ present' = TRUE /\ faults' = 0
      /\ UNCHANGED <<usb_error, hid, PERADDR, toggle>>
  BY DEF Replug
<1>2. call.rcode \in Nat
  BY DEF EnumerationInv, Types, CallTypes, Calls
<1>3. call' = [Idle EXCEPT !.rcode = call.rcode]
  BY DEF Replug
<1>4. /\ call' \in Calls /\ Done' /\ call'.n = 0 /\ call'.xfrlen = 0 /\ call'.heard
      /\ call'.what = "setProto" /\ call'.addr = 0 /\ call'.nak = 0 /\ call'.retry = 0
  <2>1. Idle \in Calls
    BY DEF Idle, Calls, Requests, Stages
  <2>2. call' \in Calls
    BY <1>2, <1>3, <2>1 DEF Calls
  <2>3. /\ call'.n = 0 /\ call'.xfrlen = 0 /\ call'.heard /\ call'.what = "setProto"
        /\ call'.addr = 0 /\ call'.nak = 0 /\ call'.retry = 0 /\ call'.stage = "returned"
    BY <1>3 DEF Idle
  <2> QED
    BY <2>2, <2>3 DEF Done
<1>5. Types'
  <2>1. MaxPktSize' \in Sizes
    BY <1>1 DEF EnumerationInv, Types, TaskTypes, Sizes
  <2>2. TaskTypes'
    BY <1>1, <2>1 DEF EnumerationInv, Types, TaskTypes, States, Points, Cleared, Table
  <2>3. CallTypes' /\ Counters'
    BY <1>1, <1>4, LimitsAssumption
    DEF EnumerationInv, Types, CallTypes, Counters, Done
  <2>4. DevTypes'
    <3>1. Fresh \in Pipes
      BY DEF Fresh, Pipes
    <3> QED
      BY <1>1, <3>1, LimitsAssumption DEF DevTypes
  <2> QED
    BY <2>2, <2>3, <2>4 DEF Types
<1>6. Order' /\ PacketSizes' /\ Walk' /\ Reached'
  BY <1>1, <1>4 DEF Order, PacketSizes, Walk, Reached, Cleared
<1>7. Transfer' /\ Heard'
  BY <1>4 DEF Transfer, Heard
<1>8. InStep' /\ Strings' /\ Causes'
  BY <1>1, <1>4 DEF InStep, Strings, Causes, Fresh
<1> QED
  BY <1>5, <1>6, <1>7, <1>8 DEF EnumerationInv

-----------------------------------------------------------------------------
(* The requests of the host *)

\* A new transfer has promised nothing yet.
LEMMA AskStep ==
  ASSUME Types, NEW addr \in 0..1, NEW what \in Requests, NEW value \in Nat, NEW n \in Nat,
         what = "string" => value \in 1..2, Ask(addr, what, value, n), kind' = kind
  PROVE  /\ CallTypes' <=> toggle' \in 0..1
         /\ Counters' /\ Transfer' /\ Heard' /\ ~Done'
         /\ call'.what = what /\ call'.value = value /\ call'.n = n /\ call'.addr = addr
         /\ call'.stage = "setup" /\ PERADDR' = addr
<1>1. PERADDR' = addr
      /\ call' = [what |-> what, value |-> value, n |-> n, addr |-> addr, stage |-> "setup",
                  heard |-> FALSE, xfrlen |-> 0, nak |-> 0, retry |-> 0, rcode |-> 0]
  BY DEF Ask
<1>2. /\ call' \in Calls /\ call'.what = what /\ call'.value = value /\ call'.n = n
      /\ call'.addr = addr /\ call'.stage = "setup" /\ call'.xfrlen = 0 /\ ~call'.heard
      /\ call'.nak = 0 /\ call'.retry = 0
  BY <1>1 DEF Calls, Stages
<1>3. (CallTypes' <=> toggle' \in 0..1) /\ Counters' /\ ~Done'
  BY <1>1, <1>2, LimitsAssumption DEF CallTypes, Counters, Done
<1>4. Has(call)' \in Nat
  BY <1>2, KindTypes DEF Types, Has
<1>5. Whole' \in Nat
  BY <1>2, <1>4 DEF Whole, Least
<1>6. Transfer' /\ Heard'
  BY <1>1, <1>2, <1>5 DEF Transfer, Heard, Done
<1> QED
  BY <1>1, <1>2, <1>3, <1>6

\* Steps between two requests leave the last one as it is.
LEMMA KeepStep ==
  ASSUME Types, Transfer, Heard, UNCHANGED <<call, PERADDR, toggle, kind, dev>>
  PROVE  CallTypes' /\ Counters' /\ Transfer' /\ Heard' /\ Done' = Done
<1>1. CallTypes' /\ Counters'
  BY DEF Types, CallTypes, Counters
<1> QED
  BY <1>1 DEF Transfer, Heard, Done, Whole, Has, Reading

\* What every step of the host leaves alone.
HostKeeps == UNCHANGED <<toggle, kind, dev, present, faults>>

LEMMA HostTypes ==
  ASSUME Types, HostKeeps
  PROVE  /\ DevTypes' /\ toggle' \in 0..1 /\ (Quiet' <=> Quiet) /\ Cut' = Cut
         /\ \A type, from : First(type, from)' = First(type, from)
         /\ Chosen' = Chosen
<1>1. DevTypes' /\ toggle' \in 0..1 /\ (Quiet' <=> Quiet) /\ Cut' = Cut
  BY DEF Types, CallTypes, DevTypes, HostKeeps, Quiet, Cut
<1>2. \A type, from : First(type, from)' = First(type, from)
  BY DEF HostKeeps, First
<1>3. Chosen' = Chosen
  BY DEF HostKeeps, First, Chosen
<1> QED
  BY <1>1, <1>2, <1>3

\* The states before the probe.
Unprobed == task' \in {"GET_DESCRIPTOR", "ADDRESSING"}

\* Nothing of the probe is touched there.
LEMMA UnprobedStep ==
  ASSUME EnumerationInv, HostKeeps, probe' = probe, Unprobed
  PROVE  Reached' /\ Walk' /\ Causes'
<1>1. Reached' /\ Walk'
  BY DEF Reached, Walk, Unprobed
<1>2. Causes'
  BY HostTypes DEF EnumerationInv, Causes, HostKeeps, Unprobed
<1> QED
  BY <1>1, <1>2

LEMMA GetSizeStep == ASSUME EnumerationInv, GetSize PROVE EnumerationInv'
<1>1. /\ Done /\ task = "GET_DESCRIPTOR" /\ at = "start" /\ at' = "size"
      /\ MaxPktSize' = [MaxPktSize EXCEPT !.dev0ep = 8] /\ Ask(0, "devDescr", 0, 8)
      /\ UNCHANGED <<task, usb_error, strings, probe, total_length, byte_ptr, devtable, hid>>
      /\ HostKeeps
  BY DEF GetSize, Answered, KeepTask, HostKeeps, Done
<1>2. Types /\ 0 \in 0..1 /\ 0 \in Nat /\ 8 \in Nat /\ "devDescr" \in Requests
  BY DEF EnumerationInv, Requests
<1>3. kind' = kind
  BY <1>1 DEF HostKeeps
<1>4. /\ CallTypes' <=> toggle' \in 0..1
      /\ Counters' /\ Transfer' /\ Heard' /\ ~Done'
      /\ call'.what = "devDescr" /\ call'.value = 0 /\ call'.n = 8 /\ call'.addr = 0
      /\ call'.stage = "setup" /\ PERADDR' = 0
  BY <1>1, <1>2, <1>3, AskStep
<1>5. Types'
  <2>1. TaskTypes'
    BY <1>1, <1>2 DEF Types, TaskTypes, Points, Sizes
  <2> QED
    BY <1>1, <1>2, <1>4, <2>1, HostTypes DEF Types
<1>6. Order'
  BY <1>1, <1>4 DEF EnumerationInv, Order, Asks
<1>7. PacketSizes'
  BY <1>1, <1>2 DEF PacketSizes, Types, TaskTypes, Sizes
<1>8. Reached' /\ Walk' /\ Causes'
  BY <1>1, UnprobedStep DEF Unprobed
<1>9. InStep'
  <2>1. Reading' => call'.n > 0 /\ Has(call)' > 0
    BY <1>4 DEF Has
  <2> QED
    BY <1>1, <1>2, <1>4, <2>1, HostTypes DEF EnumerationInv, InStep, HostKeeps
<1>10. Strings'
  BY <1>1, <1>2, HostTypes DEF EnumerationInv, Strings, HostKeeps
<1> QED
  BY <1>4, <1>5, <1>6, <1>7, <1>8, <1>9, <1>10 DEF EnumerationInv

LEMMA GetDeviceStep == ASSUME EnumerationInv, GetDevice PROVE EnumerationInv'
<1>1. /\ Done /\ task = "GET_DESCRIPTOR" /\ at = "size"
      /\ UNCHANGED <<strings, probe, total_length, byte_ptr, devtable, hid>> /\ HostKeeps
  BY DEF GetDevice, Answered, KeepTask, HostKeeps, Done
<1>2. Types /\ 0 \in 0..1 /\ 0 \in Nat /\ 18 \in Nat /\ "devDescr" \in Requests
  BY DEF EnumerationInv, Requests
<1>3. kind' = kind
  BY <1>1 DEF HostKeeps
<1>4. CASE call.rcode = 0
  <2>1. /\ MaxPktSize' = [MaxPktSize EXCEPT !.dev0ep = kind.mps] /\ Ask(0, "devDescr", 0, 18)
        /\ at' = "device" /\ UNCHANGED <<task, usb_error>>
    BY <1>4 DEF GetDevice
  <2>2. /\ CallTypes' <=> toggle' \in 0..1
        /\ Counters' /\ Transfer' /\ Heard' /\ ~Done'
        /\ call'.what = "devDescr" /\ call'.value = 0 /\ call'.n = 18 /\ call'.addr = 0
        /\ call'.stage = "setup" /\ PERADDR' = 0
    BY <1>2, <1>3, <2>1, AskStep
  <2>3. Types'
    <3>1. TaskTypes'
      BY <1>1, <1>2, <2>1, KindTypes DEF Types, TaskTypes, Points, Sizes
    <3> QED
      BY <1>1, <1>2, <2>2, <3>1, HostTypes DEF Types
  <2>4. Order'
    BY <1>1, <2>1, <2>2 DEF EnumerationInv, Order, Asks
  <2>5. PacketSizes'
    BY <1>1, <1>2, <1>3, <2>1 DEF EnumerationInv, Order, PacketSizes, Types, TaskTypes, Sizes
  <2>6. Reached' /\ Walk' /\ Causes'
    BY <1>1, <2>1, UnprobedStep DEF Unprobed
  <2>7. InStep'
    <3>1. Reading' => call'.n > 0 /\ Has(call)' > 0
      BY <2>2 DEF Has
    <3> QED
      BY <1>1, <1>2, <2>1, <2>2, <3>1, HostTypes DEF EnumerationInv, InStep, HostKeeps
  <2>8. Strings'
    BY <1>1, <1>2, <2>1, <2>2, HostTypes DEF EnumerationInv, Strings, HostKeeps
  <2> QED
    BY <2>2, <2>3, <2>4, <2>5, <2>6, <2>7, <2>8 DEF EnumerationInv
<1>5. CASE call.rcode # 0
  <2>1. /\ task' = "ERROR" /\ usb_error' = call.rcode /\ UNCHANGED <<at, MaxPktSize, call, PERADDR>>
    BY <1>5 DEF GetDevice, Fail
  <2>2. CallTypes' /\ Counters' /\ Transfer' /\ Heard' /\ Done'
    BY <1>1, <2>1, KeepStep DEF EnumerationInv, HostKeeps
  <2>3. Types'
    <3>1. TaskTypes'
      BY <1>1, <1>2, <2>1 DEF Types, TaskTypes, States, CallTypes, Calls
    <3> QED
      BY <1>1, <1>2, <2>2, <3>1, HostTypes DEF Types
  <2>4. Order' /\ PacketSizes' /\ Reached' /\ Walk'
    BY <2>1, <2>2 DEF Order, PacketSizes, Reached, Walk
  <2>5. ~Quiet'
    BY <1>1, <1>2, <1>5, HostTypes DEF EnumerationInv, InStep
  <2> QED
    BY <2>2, <2>3, <2>4, <2>5 DEF EnumerationInv, InStep, Strings, Causes
<1> QED
  BY <1>4, <1>5

\* The next string is asked for, or the address is next.
LEMMA NextStringStep ==
  ASSUME EnumerationInv, HostKeeps, Done, task = "GET_DESCRIPTOR", at \in {"device", "string"},
         UNCHANGED <<probe, total_length, byte_ptr, tables>>,
         NEW left \in SUBSET (1..2), NextString(left),
         Quiet => \A i \in left : kind.strings[i] > 0
  PROVE  EnumerationInv'
<1>1. Types /\ kind' = kind /\ strings' = left /\ usb_error' = usb_error
      /\ UNCHANGED <<devtable, MaxPktSize, hid>>
  BY DEF EnumerationInv, HostKeeps, NextString, tables
<1>2. CASE left = {}
  <2>1. task' = "ADDRESSING" /\ at' = "start" /\ UNCHANGED <<call, PERADDR>>
    BY <1>2 DEF NextString
  <2>2. CallTypes' /\ Counters' /\ Transfer' /\ Heard' /\ Done'
    BY <2>1, KeepStep DEF EnumerationInv, HostKeeps
  <2>3. Types'
    <3>1. TaskTypes'
      BY <1>1, <2>1 DEF Types, TaskTypes, States, Points
    <3> QED
      BY <1>1, <2>2, <3>1, HostTypes DEF Types
  <2>4. Order' /\ PacketSizes'
    BY <1>1, <2>1, <2>2 DEF EnumerationInv, Order, PacketSizes
  <2>5. Reached' /\ Walk' /\ Causes'
    BY <2>1, UnprobedStep DEF Unprobed
  <2>6. InStep' /\ Strings'
    BY <1>1, <2>1, <2>2, HostTypes DEF EnumerationInv, InStep, Strings, HostKeeps
  <2> QED
    BY <2>2, <2>3, <2>4, <2>5, <2>6 DEF EnumerationInv
<1>3. CASE left # {}
  <2> DEFINE i == CHOOSE i \in left : \A j \in left : i <= j
  <2>1. Ask(0, "string", i, 2) /\ at' = "length" /\ task' = task
    BY <1>3 DEF NextString
  <2>2. i \in left /\ i \in 1..2 /\ i \in Nat
    <3>1. \E k \in left : \A j \in left : k <= j
      <4>1. PICK x \in left : TRUE
        BY <1>3
      <4>2. \A j \in left : j = 1 \/ j = 2
        OBVIOUS
      <4>3. CASE 1 \in left
        <5>1. \A j \in left : 1 <= j
          BY <4>2
        <5> QED
          BY <4>3, <5>1
      <4>4. CASE 1 \notin left
        <5>1. x = 2 /\ \A j \in left : 2 <= j
          BY <4>1, <4>2, <4>4
        <5> QED
          BY <4>1, <5>1
      <4> QED
        BY <4>3, <4>4
    <3>2. i \in left
      BY <3>1, Zenon
    <3> HIDE DEF i
    <3> QED
      BY <3>2
  <2> HIDE DEF i
  <2>3. /\ CallTypes' <=> toggle' \in 0..1
        /\ Counters' /\ Transfer' /\ Heard' /\ ~Done'
        /\ call'.what = "string" /\ call'.value = i /\ call'.n = 2 /\ call'.addr = 0
        /\ call'.stage = "setup" /\ PERADDR' = 0
    <3>1. 0 \in 0..1 /\ 2 \in Nat /\ "string" \in Requests
      BY DEF Requests
    <3> QED
      BY <1>1, <2>1, <2>2, <3>1, AskStep
  <2>4. Types'
    <3>1. TaskTypes'
      BY <1>1, <2>1 DEF Types, TaskTypes, Points
    <3> QED
      BY <1>1, <2>3, <3>1, HostTypes DEF Types
  <2>5. Order' /\ PacketSizes'
    BY <1>1, <2>1, <2>2, <2>3 DEF EnumerationInv, Order, PacketSizes, Asks
  <2>6. Reached' /\ Walk' /\ Causes'
    BY <2>1, UnprobedStep DEF Unprobed
  <2>7. InStep'
    <3>1. Quiet => Has(call)' > 0
      BY <1>1, <2>2, <2>3 DEF Has
    <3> QED
      BY <1>1, <2>1, <2>3, <3>1, HostTypes DEF EnumerationInv, InStep, HostKeeps
  <2>8. Strings'
    BY <1>1, <2>1, <2>2, <2>3, HostTypes DEF Strings
  <2> QED
    BY <2>3, <2>4, <2>5, <2>6, <2>7, <2>8 DEF EnumerationInv
<1> QED
  BY <1>2, <1>3

LEMMA GetStringsStep == ASSUME EnumerationInv, GetStrings PROVE EnumerationInv'
<1>1. /\ Done /\ task = "GET_DESCRIPTOR" /\ at = "device" /\ HostKeeps
      /\ UNCHANGED <<probe, total_length, byte_ptr, tables>>
  BY DEF GetStrings, Answered, KeepTask, HostKeeps, Done, tables
<1>2. CASE call.xfrlen >= 16
  <2> DEFINE left == {i \in 1..2 : kind.strings[i] > 0}
  <2>1. NextString(left) /\ left \in SUBSET (1..2) /\ \A i \in left : kind.strings[i] > 0
    BY <1>2 DEF GetStrings
  <2> HIDE DEF left
  <2> QED
    BY <1>1, <2>1, NextStringStep
<1>3. CASE ~(call.xfrlen >= 16)
  <2>1. PICK left \in SUBSET (1..2) : NextString(left)
    BY <1>3 DEF GetStrings
  <2>2. ~Quiet
    <3> SUFFICES ASSUME Quiet PROVE FALSE
      OBVIOUS
    <3>1. call.n = 18 /\ call.what = "devDescr" /\ call.xfrlen = Whole
      BY <1>1 DEF EnumerationInv, Order, Asks, Strings
    <3>2. Whole = 18
      BY <3>1 DEF Whole, Has, Least
    <3> QED
      BY <1>3, <3>1, <3>2
  <2> QED
    BY <1>1, <2>1, <2>2, NextStringStep
<1> QED
  BY <1>2, <1>3

LEMMA GotStringStep == ASSUME EnumerationInv, GotString PROVE EnumerationInv'
<1> DEFINE left == strings \ {call.value}
<1>1. /\ Done /\ task = "GET_DESCRIPTOR" /\ at = "string" /\ HostKeeps /\ NextString(left)
      /\ UNCHANGED <<probe, total_length, byte_ptr, tables>>
  BY DEF GotString, Answered, KeepTask, HostKeeps, Done, tables
<1>2. left \in SUBSET (1..2)
  BY DEF EnumerationInv, Types, TaskTypes
<1>3. Quiet => \A i \in left : kind.strings[i] > 0
  BY <1>1 DEF EnumerationInv, Strings
<1> HIDE DEF left
<1> QED
  BY <1>1, <1>2, <1>3, NextStringStep

LEMMA GetStringStep == ASSUME EnumerationInv, GetString PROVE EnumerationInv'
<1>1. /\ Done /\ task = "GET_DESCRIPTOR" /\ at = "length" /\ at' = "string" /\ HostKeeps
      /\ UNCHANGED <<task, usb_error, strings, probe, total_length, byte_ptr, devtable,
                     MaxPktSize, hid>>
  BY DEF GetString, Answered, KeepTask, HostKeeps, Done, tables
<1>2. PICK n \in IF call.xfrlen > 0 THEN {kind.strings[call.value]} ELSE {0, 255} :
        Ask(0, "string", call.value, n)
  BY DEF GetString
<1>3. Types /\ kind' = kind /\ call.what = "string" /\ call.value \in 1..2 /\ call.value \in Nat
      /\ call.addr = 0
  BY <1>1 DEF EnumerationInv, HostKeeps, Order, Asks
<1>4. n \in Nat
  BY <1>2, <1>3, KindTypes DEF Types
<1>5. /\ CallTypes' <=> toggle' \in 0..1
      /\ Counters' /\ Transfer' /\ Heard' /\ ~Done'
      /\ call'.what = "string" /\ call'.value = call.value /\ call'.n = n /\ call'.addr = 0
      /\ call'.stage = "setup" /\ PERADDR' = 0
  <2>1. 0 \in 0..1 /\ "string" \in Requests
    BY DEF Requests
  <2> QED
    BY <1>2, <1>3, <1>4, <2>1, AskStep
<1>6. Types'
  <2>1. TaskTypes'
    BY <1>1, <1>3 DEF Types, TaskTypes, Points
  <2> QED
    BY <1>1, <1>3, <1>5, <2>1, HostTypes DEF Types
<1>7. Order' /\ PacketSizes'
  BY <1>1, <1>3, <1>5 DEF EnumerationInv, Order, PacketSizes, Asks
<1>8. Reached' /\ Walk' /\ Causes'
  BY <1>1, UnprobedStep DEF Unprobed
<1>9. Quiet => kind.strings[call.value] > 0 /\ n > 0
  <2> SUFFICES ASSUME Quiet PROVE kind.strings[call.value] > 0 /\ n > 0
    OBVIOUS
  <2>1. kind.strings[call.value] > 0 /\ call.xfrlen = Whole
    BY <1>1 DEF EnumerationInv, Strings
  <2>2. call.n = 2
    BY <1>1 DEF EnumerationInv, Order, Asks
  <2>3. Whole > 0
    BY <1>3, <2>1, <2>2 DEF Whole, Has, Least
  <2> QED
    BY <1>2, <2>1, <2>3
<1>10. InStep' /\ Strings'
  <2>1. Quiet => Has(call)' > 0
    BY <1>1, <1>3, <1>5, <1>9 DEF Has
  <2> QED
    BY <1>1, <1>3, <1>5, <1>9, <2>1, HostTypes
    DEF EnumerationInv, InStep, Strings, HostKeeps
<1> QED
  BY <1>5, <1>6, <1>7, <1>8, <1>10 DEF EnumerationInv

LEMMA SetAddressStep == ASSUME EnumerationInv, SetAddress PROVE EnumerationInv'
<1>1. /\ Done /\ task = "ADDRESSING" /\ at = "start" /\ at' = "address"
      /\ devtable' = [devtable EXCEPT !.epinfo = "dev0ep"] /\ Ask(0, "setAddr", 1, 0)
      /\ UNCHANGED <<task, usb_error, strings, probe, total_length, byte_ptr, MaxPktSize, hid>>
      /\ HostKeeps
  BY DEF SetAddress, Answered, KeepTask, HostKeeps, Done
<1>2. Types /\ 0 \in 0..1 /\ 0 \in Nat /\ 1 \in Nat /\ "setAddr" \in Requests /\ kind' = kind
  BY <1>1 DEF EnumerationInv, Requests, HostKeeps
<1>3. /\ CallTypes' <=> toggle' \in 0..1
      /\ Counters' /\ Transfer' /\ Heard' /\ ~Done'
      /\ call'.what = "setAddr" /\ call'.value = 1 /\ call'.n = 0 /\ call'.addr = 0
      /\ call'.stage = "setup" /\ PERADDR' = 0
  BY <1>1, <1>2, AskStep
<1>4. devtable' \in Table /\ devtable'.epinfo = "dev0ep"
  BY <1>1, <1>2 DEF Types, TaskTypes, Table
<1>5. Types'
  <2>1. TaskTypes'
    BY <1>1, <1>2, <1>4 DEF Types, TaskTypes, Points
  <2> QED
    BY <1>1, <1>2, <1>3, <2>1, HostTypes DEF Types
<1>6. Order' /\ PacketSizes'
  BY <1>1, <1>2, <1>3, <1>4 DEF EnumerationInv, Order, PacketSizes, Asks
<1>7. Reached' /\ Walk' /\ Causes'
  BY <1>1, UnprobedStep DEF Unprobed
<1>8. InStep' /\ Strings'
  <2>1. ~Reading'
    BY <1>3 DEF Reading, Reads
  <2> QED
    BY <1>1, <1>2, <1>3, <2>1, HostTypes DEF EnumerationInv, InStep, Strings, HostKeeps
<1> QED
  BY <1>3, <1>5, <1>6, <1>7, <1>8 DEF EnumerationInv

LEMMA GotAddressStep == ASSUME EnumerationInv, GotAddress PROVE EnumerationInv'
<1>1. /\ Done /\ task = "ADDRESSING" /\ at = "address" /\ at' = "start" /\ probe' = "mouse"
      /\ UNCHANGED <<strings, total_length, byte_ptr, devtable, MaxPktSize, hid, call, PERADDR>>
      /\ HostKeeps
  BY DEF GotAddress, Answered, HostKeeps, Done, tables
<1>2. IF call.rcode = 0 THEN task' = "CONFIGURING" /\ usb_error' = usb_error
      ELSE task' = "ERROR" /\ usb_error' = call.rcode
  BY DEF GotAddress, Fail
<1>3. CallTypes' /\ Counters' /\ Transfer' /\ Heard' /\ Done'
  BY <1>1, KeepStep DEF EnumerationInv, HostKeeps
<1>4. Types /\ kind' = kind
  BY <1>1 DEF EnumerationInv, HostKeeps
<1>5. Types'
  <2>1. TaskTypes'
    BY <1>1, <1>2, <1>4 DEF Types, TaskTypes, Points, States, CallTypes, Calls
  <2> QED
    BY <1>1, <1>3, <1>4, <2>1, HostTypes DEF Types
<1>6. Order' /\ PacketSizes'
  BY <1>1, <1>2, <1>3, <1>4 DEF EnumerationInv, Order, PacketSizes
<1>7. Reached' /\ Walk'
  BY <1>1, <1>2 DEF Reached, Walk
<1>8. task' = "ERROR" => ~Quiet'
  BY <1>1, <1>2, <1>4, HostTypes DEF EnumerationInv, InStep
<1>9. Causes'
  BY <1>1, <1>8 DEF Causes
<1>10. InStep' /\ Strings'
  BY <1>1, <1>2, <1>3, <1>4, <1>8, HostTypes DEF EnumerationInv, InStep, Strings, HostKeeps
<1> QED
  BY <1>3, <1>5, <1>6, <1>7, <1>9, <1>10 DEF EnumerationInv

-----------------------------------------------------------------------------
(* The walk over a configuration *)

\* What the constants say of the descriptors of the device at hand.
LEMMA Format ==
  ASSUME Types
  PROVE  /\ \A d \in kind.conf : d.at \in Nat /\ d.len \in Nat
         /\ \A d \in kind.conf : d.type = "endpoint" =>
              d.addr \in Nat /\ d.attr \in Nat /\ d.size \in Nat /\ d.interval \in Nat
         /\ \A d, e \in kind.conf : /\ d.at < e.at => d.at + d.len <= e.at
                                    /\ d.at = e.at => d = e
         /\ \E d \in kind.conf : d.at = 0
         /\ \A d \in kind.conf : d.at + d.len < kind.total =>
              \E e \in kind.conf : e.at = d.at + d.len
<1>1. kind \in Devices
  BY DEF Types, DevTypes
<1>2. \A d \in kind.conf : /\ d.at \in Nat /\ d.len \in Nat
                           /\ d.type = "endpoint" => {d.addr, d.attr, d.size, d.interval} \subseteq Nat
  BY <1>1, DevicesAssumption, Zenon
<1>3. \A d, e \in kind.conf : /\ d.at < e.at => d.at + d.len <= e.at
                              /\ d.at = e.at => d = e
  BY <1>1, DevicesAssumption, Zenon
<1>4. \E d \in kind.conf : d.at = 0
  BY <1>1, DevicesAssumption, Zenon
<1>5. \A d \in kind.conf : d.at + d.len < kind.total => \E e \in kind.conf : e.at = d.at + d.len
  BY <1>1, DevicesAssumption, Zenon
<1>6. \A d \in kind.conf : d.type = "endpoint" =>
        d.addr \in Nat /\ d.attr \in Nat /\ d.size \in Nat /\ d.interval \in Nat
  BY <1>2
<1> QED
  BY <1>2, <1>3, <1>4, <1>5, <1>6, Zenon

LEMMA FirstIs ==
  ASSUME NEW type, NEW from, NEW d
  PROVE  d \in First(type, from) <=>
           /\ d \in kind.conf /\ d.type = type /\ d.at >= from /\ d.at < Cut
           /\ \A e \in kind.conf : e.type = type /\ e.at >= from /\ e.at < Cut => d.at <= e.at
  BY Zenon DEF First, Cut

LEMMA ChosenIs ==
  ASSUME NEW c \in Chosen
  PROVE  c[1] \in First("interface", 0) /\ c[2] \in First("endpoint", c[1].at)
  BY DEF Chosen

\* There is one first descriptor at most.
LEMMA FirstOne ==
  ASSUME Types, NEW type, NEW from, NEW d \in First(type, from), NEW e \in First(type, from)
  PROVE  d = e
<1>1. d \in kind.conf /\ e \in kind.conf /\ d.at <= e.at /\ e.at <= d.at
  BY FirstIs
<1> QED
  BY <1>1, Format

LEMMA HereIs ==
  ASSUME Types, Standing, byte_ptr < Cut
  PROVE  /\ Here \in kind.conf /\ Here.at = byte_ptr
         /\ \A d \in kind.conf : d.at = byte_ptr => d = Here
<1>1. \E d \in kind.conf : d.at = byte_ptr
  BY KindTypes DEF Types, TaskTypes, Standing
<1>2. Here \in kind.conf /\ Here.at = byte_ptr
  BY <1>1, Zenon DEF Here
<1> QED
  BY <1>2, Format

\* From one descriptor to the next, past those that are not wanted.
LEMMA StepOver ==
  ASSUME Types, Standing, byte_ptr < Cut, byte_ptr' = byte_ptr + Here.len, HostKeeps
  PROVE  /\ byte_ptr' \in Nat /\ byte_ptr <= byte_ptr' /\ Standing'
         /\ \A type, from : Here.type # type /\ (Passed(type, from) \/ from = byte_ptr) =>
              Passed(type, from)'
<1>1. /\ Here \in kind.conf /\ Here.at = byte_ptr
      /\ \A d \in kind.conf : d.at = byte_ptr => d = Here
  BY HereIs
<1> DEFINE h == Here
<1>2. h \in kind.conf /\ h.at = byte_ptr /\ byte_ptr' = byte_ptr + h.len
      /\ \A d \in kind.conf : d.at = byte_ptr => d = h
  BY <1>1
<1>3. h.at \in Nat /\ h.len \in Nat
  BY <1>2, Format
<1>4. kind' = kind /\ Cut' = Cut /\ Cut \in Nat /\ Cut <= kind.total /\ kind.total \in Nat
  BY HostTypes, KindTypes DEF HostKeeps, Types
<1>5. \A d \in kind.conf : d.at > byte_ptr => d.at >= byte_ptr'
  <2> SUFFICES ASSUME NEW d \in kind.conf, d.at > byte_ptr PROVE d.at >= byte_ptr'
    OBVIOUS
  <2> HIDE DEF h
  <2>1. d.at \in Nat
    BY Format
  <2>2. h.at < d.at => h.at + h.len <= d.at
    BY <1>2, Format, Zenon
  <2> QED
    BY <1>2, <1>3, <2>1, <2>2
<1> HIDE DEF h
<1>6. byte_ptr \in Nat /\ byte_ptr' \in Nat /\ byte_ptr <= byte_ptr'
  BY <1>2, <1>3
<1>7. Standing'
  <2>1. byte_ptr' < Cut => \E e \in kind.conf : e.at = byte_ptr'
    BY <1>2, <1>3, <1>4, Format
  <2> QED
    BY <1>4, <1>6, <2>1 DEF Standing
<1>8. ASSUME NEW type, NEW from, h.type # type,
             Passed(type, from) \/ from = byte_ptr
      PROVE  Passed(type, from)'
  <2> SUFFICES ASSUME NEW d \in kind.conf, d.type = type, d.at >= from, d.at < Cut
               PROVE  d.at >= byte_ptr'
    BY <1>4 DEF Passed
  <2>1. d.at >= byte_ptr
    BY <1>8 DEF Passed
  <2>2. d.at # byte_ptr
    BY <1>2, <1>8
  <2>3. d.at \in Nat
    BY Format
  <2> QED
    BY <1>5, <1>6, <2>1, <2>2, <2>3
<1>9. \A type, from : h.type # type /\ (Passed(type, from) \/ from = byte_ptr) =>
        Passed(type, from)'
  BY <1>8
<1> QED
  BY <1>6, <1>7, <1>9, Zenon DEF h

-----------------------------------------------------------------------------
(* The probes *)

\* A probe gives up: the other one, or no driver.
LEMMA NoDriverStep ==
  ASSUME EnumerationInv, HostKeeps, Done, task = "CONFIGURING", NoDriver,
         UNCHANGED <<strings, total_length, byte_ptr, devtable, MaxPktSize, hid, call, PERADDR>>,
         Quiet => \A c \in Chosen : c[1].protocol # probe
  PROVE  EnumerationInv'
<1>1. /\ at' = "start"
      /\ IF probe = "mouse" THEN probe' = "keyboard" /\ task' = task /\ usb_error' = usb_error
         ELSE task' = "ERROR" /\ usb_error' = 253 /\ probe' = probe
  BY DEF NoDriver, Fail
<1>2. Types /\ kind' = kind /\ probe \in {"mouse", "keyboard"}
  BY DEF EnumerationInv, HostKeeps, Types, TaskTypes
<1>3. CallTypes' /\ Counters' /\ Transfer' /\ Heard' /\ Done'
  BY KeepStep DEF EnumerationInv, HostKeeps
<1>4. Types'
  <2>1. TaskTypes'
    BY <1>1, <1>2 DEF Types, TaskTypes, Points, States
  <2> QED
    BY <1>2, <1>3, <2>1, HostTypes DEF Types
<1>5. Order' /\ PacketSizes'
  BY <1>1, <1>2, <1>3 DEF EnumerationInv, Order, PacketSizes
<1>6. Reached' /\ Walk'
  BY <1>1 DEF Reached, Walk
<1>7. Causes'
  <2> SUFFICES ASSUME Quiet'
               PROVE  /\ probe' = "keyboard" => \A c \in Chosen : c[1].protocol # "mouse"
                      /\ task' = "ERROR" =>
                           \A c \in Chosen : c[1].protocol \notin {"mouse", "keyboard"}
    BY <1>2, HostTypes DEF Causes
  <2>1. Quiet /\ \A c \in Chosen : c[1].protocol # probe
    BY <1>2, HostTypes
  <2>2. probe = "keyboard" => \A c \in Chosen : c[1].protocol # "mouse"
    BY <2>1 DEF EnumerationInv, Causes
  <2> QED
    BY <1>1, <1>2, <2>1, <2>2
<1>8. InStep' /\ Strings'
  BY <1>1, <1>2, <1>3, HostTypes DEF EnumerationInv, InStep, Strings, HostKeeps
<1> QED
  BY <1>3, <1>4, <1>5, <1>6, <1>7, <1>8 DEF EnumerationInv

\* A request of a probe.
LEMMA ProbeAsks ==
  ASSUME EnumerationInv, HostKeeps, Done, task = "CONFIGURING",
         NEW what \in {"confDescr", "setConf", "setProto"}, NEW value \in Nat, NEW n \in Nat,
         what = "confDescr" => n > 0, Ask(1, what, value, n),
         UNCHANGED <<task, usb_error, probe, strings>>
  PROVE  /\ CallTypes' /\ Counters' /\ Transfer' /\ Heard' /\ ~Done' /\ DevTypes'
         /\ call'.what = what /\ call'.value = value /\ call'.n = n /\ call'.addr = 1
         /\ InStep' /\ Strings' /\ Causes'
<1>1. Types /\ 1 \in 0..1 /\ what \in Requests /\ (what = "string" => value \in 1..2) /\ kind' = kind
  BY DEF EnumerationInv, HostKeeps, Requests
<1>2. /\ CallTypes' <=> toggle' \in 0..1
      /\ Counters' /\ Transfer' /\ Heard' /\ ~Done'
      /\ call'.what = what /\ call'.value = value /\ call'.n = n /\ call'.addr = 1
      /\ call'.stage = "setup" /\ PERADDR' = 1
  BY <1>1, AskStep
<1>3. Reading' => what = "confDescr"
  BY <1>2 DEF Reading, Reads
<1>4. what = "confDescr" => Has(call)' > 0
  BY <1>1, <1>2, KindTypes DEF Has, Types
<1>5. InStep'
  BY <1>1, <1>2, <1>3, <1>4, HostTypes DEF EnumerationInv, InStep, HostKeeps
<1>6. Strings'
  BY DEF Strings
<1>7. Causes'
  BY <1>1, HostTypes DEF EnumerationInv, Causes
<1> QED
  BY <1>1, <1>2, <1>5, <1>6, <1>7, HostTypes

LEMMA GetConfHeadStep == ASSUME EnumerationInv, GetConfHead PROVE EnumerationInv'
<1>1. /\ Done /\ task = "CONFIGURING" /\ at = "start" /\ at' = "confHead" /\ HostKeeps
      /\ Ask(1, "confDescr", 0, 9)
      /\ UNCHANGED <<task, usb_error, probe, strings, total_length, byte_ptr, devtable,
                     MaxPktSize, hid>>
  BY DEF GetConfHead, Answered, KeepProbe, HostKeeps, Done, tables
<1>2. Types /\ kind' = kind
  BY <1>1 DEF EnumerationInv, HostKeeps
<1>3. /\ CallTypes' /\ Counters' /\ Transfer' /\ Heard' /\ ~Done' /\ DevTypes'
      /\ call'.what = "confDescr" /\ call'.value = 0 /\ call'.n = 9 /\ call'.addr = 1
      /\ InStep' /\ Strings' /\ Causes'
  BY <1>1, ProbeAsks
<1>4. Types'
  BY <1>1, <1>2, <1>3 DEF Types, TaskTypes, Points
<1>5. Order' /\ PacketSizes'
  BY <1>1, <1>2, <1>3 DEF EnumerationInv, Order, PacketSizes, Asks
<1>6. Reached' /\ Walk'
  BY <1>1 DEF Reached, Walk
<1> QED
  BY <1>3, <1>4, <1>5, <1>6 DEF EnumerationInv

LEMMA GetConfStep == ASSUME EnumerationInv, GetConf PROVE EnumerationInv'
<1>1. /\ Done /\ task = "CONFIGURING" /\ at = "confHead" /\ HostKeeps
      /\ UNCHANGED <<strings, byte_ptr, devtable, MaxPktSize, hid>>
  BY DEF GetConf, Answered, KeepProbe, HostKeeps, Done, tables
<1>2. Types /\ kind' = kind
  BY <1>1 DEF EnumerationInv, HostKeeps
<1>3. CASE call.rcode = 0
  <2>1. /\ total_length' = Cut /\ Ask(1, "confDescr", 0, Cut) /\ at' = "conf"
        /\ UNCHANGED <<task, usb_error, probe>>
    BY <1>3 DEF GetConf, LengthToRead, Cut
  <2>2. Cut \in 1..256 /\ Cut \in Nat /\ Cut > 0
    BY <1>2, KindTypes DEF Types
  <2>3. /\ CallTypes' /\ Counters' /\ Transfer' /\ Heard' /\ ~Done' /\ DevTypes'
        /\ call'.what = "confDescr" /\ call'.value = 0 /\ call'.n = Cut /\ call'.addr = 1
        /\ InStep' /\ Strings' /\ Causes'
    BY <1>1, <2>1, <2>2, ProbeAsks
  <2>4. Types'
    BY <1>1, <1>2, <2>1, <2>2, <2>3 DEF Types, TaskTypes, Points
  <2>5. Order'
    BY <1>1, <1>2, <2>1, <2>3 DEF EnumerationInv, Order, Asks, Cut
  <2>6. PacketSizes'
    BY <1>1, <1>2, <2>1 DEF EnumerationInv, PacketSizes
  <2>7. Reached' /\ Walk'
    <3>1. dev.addr = 1
      BY <1>1, <1>3 DEF EnumerationInv, Order, Asks, Heard
    <3> QED
      BY <1>1, <2>1, <3>1 DEF Reached, Walk, HostKeeps
  <2> QED
    BY <2>3, <2>4, <2>5, <2>6, <2>7 DEF EnumerationInv
<1>4. CASE call.rcode # 0
  <2>1. NoDriver /\ UNCHANGED <<total_length, call, PERADDR>>
    BY <1>4 DEF GetConf
  <2>2. ~Quiet
    BY <1>1, <1>4 DEF EnumerationInv, InStep
  <2> QED
    BY <1>1, <2>1, <2>2, NoDriverStep
<1> QED
  BY <1>3, <1>4

LEMMA StartWalkStep == ASSUME EnumerationInv, StartWalk PROVE EnumerationInv'
<1>1. /\ Done /\ task = "CONFIGURING" /\ at = "conf" /\ HostKeeps
      /\ UNCHANGED <<strings, total_length, devtable, MaxPktSize, hid, call, PERADDR>>
  BY DEF StartWalk, Answered, KeepProbe, HostKeeps, Done, tables
<1>2. Types /\ kind' = kind
  BY <1>1 DEF EnumerationInv, HostKeeps
<1>3. CASE call.rcode = 0
  <2>1. byte_ptr' = 0 /\ at' = "interface" /\ UNCHANGED <<task, usb_error, probe>>
    BY <1>3 DEF StartWalk
  <2>2. CallTypes' /\ Counters' /\ Transfer' /\ Heard' /\ Done'
    BY <1>1, KeepStep DEF EnumerationInv, HostKeeps
  <2>3. Types'
    <3>1. TaskTypes'
      BY <1>1, <1>2, <2>1 DEF Types, TaskTypes, Points
    <3> QED
      BY <1>1, <1>2, <2>2, <3>1, HostTypes DEF Types
  <2>4. Order' /\ PacketSizes' /\ Reached'
    BY <1>1, <1>2, <2>1, <2>2 DEF EnumerationInv, Order, PacketSizes, Reached, HostKeeps
  <2>5. Walk'
    <3>1. total_length' = Cut'
      BY <1>1, <1>2 DEF EnumerationInv, Order, Cut
    <3>2. Standing'
      BY <1>2, <2>1, Format DEF Standing
    <3>3. Passed("interface", 0)'
      BY <1>2, <2>1 DEF Passed
    <3> QED
      BY <1>1, <2>1, <3>1, <3>2, <3>3 DEF Walk
  <2>6. InStep' /\ Strings' /\ Causes'
    BY <1>1, <1>2, <2>1, <2>2, HostTypes
    DEF EnumerationInv, InStep, Strings, Causes, HostKeeps
  <2> QED
    BY <2>2, <2>3, <2>4, <2>5, <2>6 DEF EnumerationInv
<1>4. CASE call.rcode # 0
  <2>1. NoDriver /\ byte_ptr' = byte_ptr
    BY <1>4 DEF StartWalk
  <2>2. ~Quiet
    BY <1>1, <1>4 DEF EnumerationInv, InStep
  <2> QED
    BY <1>1, <2>1, <2>2, NoDriverStep
<1> QED
  BY <1>3, <1>4

\* The walk while it is under way.
LEMMA Walks ==
  ASSUME EnumerationInv, task = "CONFIGURING", at \in {"interface", "endpoint"}
  PROVE  /\ Types /\ total_length = Cut /\ Standing /\ Cut \in Nat /\ byte_ptr \in Nat
         /\ at = "interface" => Passed("interface", 0)
         /\ at = "endpoint" => \E i \in First("interface", 0) :
              /\ i.protocol = probe /\ devtable.devclass = probe
              /\ i.at <= byte_ptr /\ Passed("endpoint", i.at)
  BY KindTypes DEF EnumerationInv, Walk, Types, TaskTypes

LEMMA SkipStep == ASSUME EnumerationInv, Skip PROVE EnumerationInv'
<1>1. /\ Done /\ task = "CONFIGURING" /\ at \in {"interface", "endpoint"} /\ HostKeeps
      /\ byte_ptr < total_length /\ Here.type # at /\ byte_ptr' = byte_ptr + Here.len
      /\ UNCHANGED <<task, usb_error, at, probe, strings, total_length, devtable, MaxPktSize,
                     hid, call, PERADDR>>
  BY DEF Skip, Walking, Answered, KeepProbe, HostKeeps, Done, tables
<1>2. /\ Types /\ kind' = kind /\ total_length = Cut /\ Standing /\ byte_ptr < Cut
      /\ byte_ptr \in Nat
  BY <1>1, Walks DEF HostKeeps
<1>3. /\ byte_ptr' \in Nat /\ byte_ptr <= byte_ptr' /\ Standing'
      /\ \A type, from : Here.type # type /\ (Passed(type, from) \/ from = byte_ptr) =>
           Passed(type, from)'
  BY <1>1, <1>2, StepOver
<1>4. CallTypes' /\ Counters' /\ Transfer' /\ Heard' /\ Done'
  BY <1>1, KeepStep DEF EnumerationInv, HostKeeps
<1>5. Types'
  <2>1. TaskTypes'
    BY <1>1, <1>2, <1>3 DEF Types, TaskTypes
  <2> QED
    BY <1>1, <1>2, <1>4, <2>1, HostTypes DEF Types
<1>6. Order' /\ PacketSizes' /\ Reached'
  BY <1>1, <1>2, <1>4 DEF EnumerationInv, Order, PacketSizes, Reached, HostKeeps
<1>7. Walk'
  <2>1. at = "interface" => Passed("interface", 0)'
    BY <1>1, <1>3, Walks
  <2>2. ASSUME at = "endpoint"
        PROVE  \E i \in First("interface", 0) :
                 /\ i.protocol = probe /\ devtable.devclass = probe
                 /\ i.at <= byte_ptr' /\ Passed("endpoint", i.at)'
    <3>1. PICK i \in First("interface", 0) :
                 /\ i.protocol = probe /\ devtable.devclass = probe
                 /\ i.at <= byte_ptr /\ Passed("endpoint", i.at)
      BY <1>1, <2>2, Walks
    <3>2. i.at \in Nat
      BY <1>2, FirstIs, Format
    <3>3. i.at <= byte_ptr'
      BY <1>2, <1>3, <3>1, <3>2
    <3>4. Passed("endpoint", i.at)'
      BY <1>1, <1>3, <2>2, <3>1
    <3> QED
      BY <3>1, <3>3, <3>4
  <2>3. /\ First("interface", 0)' = First("interface", 0) /\ Cut' = Cut
        /\ at = "endpoint" => hid.addr = 1 /\ devtable.epinfo = "hid_ep"
    BY <1>1, <1>2, HostTypes DEF EnumerationInv, Walk
  <2> QED
    BY <1>1, <1>2, <1>3, <2>1, <2>2, <2>3 DEF Walk
<1>8. InStep' /\ Strings' /\ Causes'
  BY <1>1, <1>2, <1>4, HostTypes DEF EnumerationInv, InStep, Strings, Causes, HostKeeps
<1> QED
  BY <1>4, <1>5, <1>6, <1>7, <1>8 DEF EnumerationInv

\* What the walk stands on at its first interface, and at the endpoint after it.
LEMMA FirstInterface ==
  ASSUME EnumerationInv, task = "CONFIGURING", at = "interface", byte_ptr < total_length,
         Here.type = "interface"
  PROVE  Here \in First("interface", 0) /\ Here.at = byte_ptr
<1>1. /\ Types /\ Standing /\ byte_ptr < Cut /\ byte_ptr \in Nat /\ Cut \in Nat
      /\ Passed("interface", 0)
  BY Walks
<1>2. Here \in kind.conf /\ Here.at = byte_ptr
  BY <1>1, HereIs
<1> DEFINE h == Here
<1>3. h \in kind.conf /\ h.at = byte_ptr /\ h.type = "interface"
  BY <1>2
<1> HIDE DEF h
<1>4. \A e \in kind.conf : e.type = "interface" /\ e.at >= 0 /\ e.at < Cut => h.at <= e.at
  <2> SUFFICES ASSUME NEW e \in kind.conf, e.type = "interface", e.at >= 0, e.at < Cut
               PROVE  h.at <= e.at
    OBVIOUS
  <2>1. e.at >= byte_ptr
    BY <1>1 DEF Passed
  <2> QED
    BY <1>1, <1>3, <2>1, Format
<1>5. h.at >= 0 /\ h.at < Cut
  BY <1>1, <1>3
<1>6. h \in First("interface", 0)
  BY <1>3, <1>4, <1>5, FirstIs
<1> QED
  BY <1>2, <1>6 DEF h

LEMMA FirstEndpoint ==
  ASSUME EnumerationInv, task = "CONFIGURING", at = "endpoint", byte_ptr < total_length,
         Here.type = "endpoint", NEW i \in First("interface", 0), i.at <= byte_ptr,
         Passed("endpoint", i.at)
  PROVE  Here \in First("endpoint", i.at) /\ Here \in kind.conf
<1>1. Types /\ Standing /\ byte_ptr < Cut /\ byte_ptr \in Nat /\ Cut \in Nat
  BY Walks
<1> DEFINE h == Here
<1>2. h \in kind.conf /\ h.at = byte_ptr /\ h.type = "endpoint"
  BY <1>1, HereIs
<1> HIDE DEF h
<1>3. i.at \in Nat
  BY <1>1, FirstIs, Format
<1>4. \A e \in kind.conf : e.type = "endpoint" /\ e.at >= i.at /\ e.at < Cut => h.at <= e.at
  <2> SUFFICES ASSUME NEW e \in kind.conf, e.type = "endpoint", e.at >= i.at, e.at < Cut
               PROVE  h.at <= e.at
    OBVIOUS
  <2>1. e.at >= byte_ptr
    BY DEF Passed
  <2> QED
    BY <1>1, <1>2, <2>1, Format
<1>5. h.at >= i.at /\ h.at < Cut
  BY <1>1, <1>2, <1>3
<1>6. h \in First("endpoint", i.at)
  BY <1>2, <1>4, <1>5, FirstIs
<1> QED
  BY <1>2, <1>6 DEF h

LEMMA RejectInterfaceStep == ASSUME EnumerationInv, RejectInterface PROVE EnumerationInv'
<1>1. /\ Done /\ task = "CONFIGURING" /\ at = "interface" /\ HostKeeps /\ NoDriver
      /\ byte_ptr < total_length /\ Here.type = "interface" /\ Here.protocol # probe
      /\ UNCHANGED <<strings, total_length, byte_ptr, devtable, MaxPktSize, hid, call, PERADDR>>
  BY DEF RejectInterface, Walking, Answered, KeepProbe, HostKeeps, Done, tables
<1>2. \A c \in Chosen : c[1].protocol # probe
  <2> SUFFICES ASSUME NEW c \in Chosen PROVE c[1].protocol # probe
    OBVIOUS
  <2>1. Types /\ c[1] \in First("interface", 0) /\ Here \in First("interface", 0)
    BY <1>1, ChosenIs, FirstInterface DEF EnumerationInv
  <2>2. c[1] = Here
    BY <2>1, FirstOne
  <2> QED
    BY <1>1, <2>2
<1> QED
  BY <1>1, <1>2, NoDriverStep

LEMMA RunsOutStep == ASSUME EnumerationInv, RunsOut PROVE EnumerationInv'
<1>1. /\ Done /\ task = "CONFIGURING" /\ at \in {"interface", "endpoint"} /\ HostKeeps /\ NoDriver
      /\ byte_ptr >= total_length
      /\ UNCHANGED <<strings, total_length, byte_ptr, devtable, MaxPktSize, hid, call, PERADDR>>
  BY DEF RunsOut, Walking, Answered, KeepProbe, HostKeeps, Done, tables
<1>2. Types /\ byte_ptr >= Cut /\ Cut \in Nat /\ byte_ptr \in Nat
  BY <1>1, Walks
<1>3. ASSUME NEW type, NEW from, Passed(type, from) PROVE First(type, from) = {}
  <2> SUFFICES ASSUME NEW d \in First(type, from) PROVE FALSE
    OBVIOUS
  <2>1. d \in kind.conf /\ d.type = type /\ d.at >= from /\ d.at < Cut
    BY FirstIs
  <2>2. d.at >= byte_ptr
    BY <1>3, <2>1 DEF Passed
  <2>3. d.at \in Nat
    BY <1>2, <2>1, Format
  <2> QED
    BY <1>2, <2>1, <2>2, <2>3
<1>4. \A c \in Chosen : c[1].protocol # probe
  <2> SUFFICES ASSUME NEW c \in Chosen PROVE FALSE
    OBVIOUS
  <2>1. c[1] \in First("interface", 0) /\ c[2] \in First("endpoint", c[1].at)
    BY ChosenIs
  <2>2. CASE at = "interface"
    BY <1>1, <1>3, <2>1, <2>2, Walks
  <2>3. CASE at = "endpoint"
    <3>1. PICK i \in First("interface", 0) : Passed("endpoint", i.at)
      BY <1>1, <2>3, Walks
    <3>2. c[1] = i
      BY <1>2, <2>1, FirstOne
    <3> QED
      BY <1>3, <2>1, <3>1, <3>2
  <2> QED
    BY <1>1, <2>2, <2>3
<1> QED
  BY <1>1, <1>4, NoDriverStep

LEMMA ClaimInterfaceStep == ASSUME EnumerationInv, ClaimInterface PROVE EnumerationInv'
<1>1. /\ Done /\ task = "CONFIGURING" /\ at = "interface" /\ at' = "endpoint" /\ HostKeeps
      /\ byte_ptr < total_length /\ Here.type = "interface" /\ Here.protocol = probe
      /\ devtable' = [epinfo |-> "hid_ep", devclass |-> probe]
      /\ MaxPktSize' = [MaxPktSize EXCEPT !.hid_ep = MaxPktSize[devtable.epinfo]]
      /\ hid' = [hid EXCEPT !.addr = 1] /\ byte_ptr' = byte_ptr + Here.len
      /\ UNCHANGED <<task, usb_error, probe, strings, total_length, call, PERADDR>>
  BY DEF ClaimInterface, Walking, Answered, KeepProbe, HostKeeps, Done
<1>2. /\ Types /\ kind' = kind /\ total_length = Cut /\ Standing /\ byte_ptr < Cut
      /\ byte_ptr \in Nat
  BY <1>1, Walks DEF HostKeeps
<1>3. /\ byte_ptr' \in Nat /\ byte_ptr <= byte_ptr' /\ Standing'
      /\ \A from : from = byte_ptr => Passed("endpoint", from)'
  BY <1>1, <1>2, StepOver
<1>4. MaxPktSize[devtable.epinfo] = kind.mps /\ kind.mps \in Nat
  BY <1>1, <1>2, KindTypes
  DEF EnumerationInv, Order, PacketSizes, Types, TaskTypes, Table
<1>5. /\ MaxPktSize' \in Sizes /\ MaxPktSize'.hid_ep = kind.mps
      /\ MaxPktSize'.dev0ep = MaxPktSize.dev0ep
  BY <1>1, <1>2, <1>4 DEF Types, TaskTypes, Sizes
<1>6. CallTypes' /\ Counters' /\ Transfer' /\ Heard' /\ Done'
  BY <1>1, KeepStep DEF EnumerationInv, HostKeeps
<1>7. hid' \in Endpoints /\ hid'.addr = 1
  BY <1>1, <1>2 DEF Types, TaskTypes, Endpoints
<1>8. /\ devtable' \in Table /\ devtable'.epinfo = "hid_ep" /\ devtable'.devclass = probe
  BY <1>1, <1>2 DEF Types, TaskTypes, Table
<1>9. Types'
  <2>1. TaskTypes'
    BY <1>1, <1>2, <1>3, <1>5, <1>7, <1>8 DEF Types, TaskTypes, Points
  <2> QED
    BY <1>1, <1>2, <1>6, <2>1, HostTypes DEF Types
<1>10. Order' /\ PacketSizes' /\ Reached'
  BY <1>1, <1>2, <1>5, <1>6, <1>8
  DEF EnumerationInv, Order, PacketSizes, Reached, HostKeeps
<1>11. Walk'
  <2>1. Here \in First("interface", 0) /\ Here.at = byte_ptr
    BY <1>1, FirstInterface
  <2>2. \E i \in First("interface", 0) : i = Here
    BY <2>1
  <2>3. PICK i \in First("interface", 0) : i = Here
    BY <2>2
  <2>4. i.protocol = probe /\ i.at = byte_ptr /\ i.at <= byte_ptr'
    BY <1>1, <1>3, <2>1, <2>3
  <2>5. Passed("endpoint", i.at)'
    BY <1>3, <2>4
  <2>6. First("interface", 0)' = First("interface", 0) /\ Cut' = Cut
    BY <1>1, <1>2, HostTypes
  <2> QED
    BY <1>1, <1>2, <1>3, <1>7, <1>8, <2>4, <2>5, <2>6 DEF Walk
<1>12. InStep' /\ Strings' /\ Causes'
  BY <1>1, <1>2, <1>6, HostTypes DEF EnumerationInv, InStep, Strings, Causes, HostKeeps
<1> QED
  BY <1>6, <1>9, <1>10, <1>11, <1>12 DEF EnumerationInv

LEMMA TakeEndpointStep == ASSUME EnumerationInv, TakeEndpoint PROVE EnumerationInv'
<1>1. /\ Done /\ task = "CONFIGURING" /\ at = "endpoint" /\ at' = "configure" /\ HostKeeps
      /\ byte_ptr < total_length /\ Here.type = "endpoint" /\ Ask(1, "setConf", kind.value, 0)
      /\ UNCHANGED <<task, usb_error, probe, strings, total_length, byte_ptr, devtable, MaxPktSize>>
  BY DEF TakeEndpoint, Walking, Answered, KeepProbe, HostKeeps, Done
<1>2. PICK i \in First("interface", 0) :
        /\ i.protocol = probe /\ devtable.devclass = probe
        /\ i.at <= byte_ptr /\ Passed("endpoint", i.at)
  BY <1>1, Walks
<1>3. Here \in First("endpoint", i.at) /\ Here \in kind.conf
  BY <1>1, <1>2, FirstEndpoint
<1>4. PICK size \in SizeRead(Here) :
        hid' = [hid EXCEPT !.epAddr = Here.addr, !.Attr = Here.attr, !.MaxPktSize = size,
                           !.Interval = Here.interval]
  BY DEF TakeEndpoint
<1>5. PICK e \in kind.conf : e = Here
  BY <1>3
<1>6. /\ e \in First("endpoint", i.at) /\ e.type = "endpoint" /\ size \in SizeRead(e)
      /\ hid' = [hid EXCEPT !.epAddr = e.addr, !.Attr = e.attr, !.MaxPktSize = size,
                            !.Interval = e.interval]
  BY <1>1, <1>3, <1>4, <1>5
<1>7. Types /\ kind' = kind /\ kind.value \in Nat /\ 0 \in Nat
  BY <1>1, KindTypes DEF EnumerationInv, HostKeeps, Types
<1>8. e.addr \in Nat /\ e.attr \in Nat /\ e.size \in Nat /\ e.interval \in Nat /\ size \in Nat
  <2>1. e.addr \in Nat /\ e.attr \in Nat /\ e.size \in Nat /\ e.interval \in Nat
    BY <1>6, <1>7, Format
  <2> QED
    BY <1>6, <2>1 DEF SizeRead
<1>9. /\ hid' \in Endpoints /\ hid'.addr = hid.addr /\ hid'.epAddr = e.addr /\ hid'.Attr = e.attr
      /\ hid'.MaxPktSize = size /\ hid'.Interval = e.interval
  BY <1>6, <1>7, <1>8 DEF Types, TaskTypes, Endpoints
<1>10. Taken'
  <2> DEFINE c == <<i, e>>
  <2>1. c \in Chosen
    BY <1>6 DEF Chosen
  <2>2. /\ devtable'.devclass = c[1].protocol
        /\ hid'.epAddr = c[2].addr /\ hid'.Attr = c[2].attr
        /\ hid'.MaxPktSize \in SizeRead(c[2]) /\ hid'.Interval = c[2].interval
    BY <1>1, <1>2, <1>6, <1>9
  <2>3. c \in Chosen'
    BY <1>1, <1>7, <2>1, HostTypes
  <2> HIDE DEF c
  <2> QED
    BY <2>2, <2>3, Zenon DEF Taken, SizeRead
<1>11. /\ CallTypes' /\ Counters' /\ Transfer' /\ Heard' /\ ~Done' /\ DevTypes'
       /\ call'.what = "setConf" /\ call'.value = kind.value /\ call'.n = 0 /\ call'.addr = 1
       /\ InStep' /\ Strings' /\ Causes'
  BY <1>1, <1>7, ProbeAsks
<1>12. Types'
  BY <1>1, <1>7, <1>9, <1>11 DEF Types, TaskTypes, Points
<1>13. Order' /\ PacketSizes' /\ Reached'
  BY <1>1, <1>7, <1>11 DEF EnumerationInv, Order, PacketSizes, Reached, Asks, HostKeeps
<1>14. Walk'
  BY <1>1, <1>9, <1>10 DEF EnumerationInv, Walk
<1> QED
  BY <1>11, <1>12, <1>13, <1>14 DEF EnumerationInv

LEMMA SetProtocolStep == ASSUME EnumerationInv, SetProtocol PROVE EnumerationInv'
<1>1. /\ Done /\ task = "CONFIGURING" /\ at = "configure" /\ HostKeeps
      /\ UNCHANGED <<strings, total_length, byte_ptr, devtable, MaxPktSize, hid>>
  BY DEF SetProtocol, Answered, KeepProbe, HostKeeps, Done, tables
<1>2. Types /\ kind' = kind
  BY <1>1 DEF EnumerationInv, HostKeeps
<1>3. CASE call.rcode = 0
  <2>1. Ask(1, "setProto", 0, 0) /\ at' = "protocol" /\ UNCHANGED <<task, usb_error, probe>>
    BY <1>3 DEF SetProtocol, Configured
  <2>2. /\ CallTypes' /\ Counters' /\ Transfer' /\ Heard' /\ ~Done' /\ DevTypes'
        /\ call'.what = "setProto" /\ call'.value = 0 /\ call'.n = 0 /\ call'.addr = 1
        /\ InStep' /\ Strings' /\ Causes'
    BY <1>1, <2>1, ProbeAsks
  <2>3. Types'
    BY <1>1, <1>2, <2>1, <2>2 DEF Types, TaskTypes, Points
  <2>4. Order' /\ PacketSizes'
    BY <1>1, <1>2, <2>1, <2>2 DEF EnumerationInv, Order, PacketSizes, Asks
  <2>5. Reached'
    <3>1. dev.addr = 1 /\ dev.config = kind.value
      BY <1>1, <1>3 DEF EnumerationInv, Order, Asks, Heard
    <3> QED
      BY <1>1, <2>1, <3>1 DEF Reached, HostKeeps
  <2>6. Walk'
    BY <1>1, <2>1, HostTypes, <1>2 DEF EnumerationInv, Walk, Taken
  <2> QED
    BY <2>2, <2>3, <2>4, <2>5, <2>6 DEF EnumerationInv
<1>4. CASE call.rcode # 0
  <2>1. NoDriver /\ UNCHANGED <<call, PERADDR>>
    BY <1>4 DEF SetProtocol, Configured
  <2>2. ~Quiet
    BY <1>1, <1>4 DEF EnumerationInv, InStep
  <2> QED
    BY <1>1, <2>1, <2>2, NoDriverStep
<1> QED
  BY <1>3, <1>4

LEMMA RunStep == ASSUME EnumerationInv, Run PROVE EnumerationInv'
<1>1. /\ Done /\ task = "CONFIGURING" /\ at = "protocol" /\ HostKeeps
      /\ UNCHANGED <<strings, total_length, byte_ptr, devtable, MaxPktSize, hid, call, PERADDR>>
  BY DEF Run, Answered, KeepProbe, HostKeeps, Done, tables
<1>2. Types /\ kind' = kind
  BY <1>1 DEF EnumerationInv, HostKeeps
<1>3. CASE call.rcode = 0
  <2>1. task' = "RUNNING" /\ UNCHANGED <<at, probe, usb_error>>
    BY <1>3 DEF Run
  <2>2. CallTypes' /\ Counters' /\ Transfer' /\ Heard' /\ Done'
    BY <1>1, KeepStep DEF EnumerationInv, HostKeeps
  <2>3. Types'
    <3>1. TaskTypes'
      BY <1>1, <1>2, <2>1 DEF Types, TaskTypes, States
    <3> QED
      BY <1>1, <1>2, <2>2, <3>1, HostTypes DEF Types
  <2>4. Order' /\ PacketSizes'
    BY <1>1, <1>2, <2>1, <2>2 DEF EnumerationInv, Order, PacketSizes
  <2>5. Reached'
    <3>1. dev.addr = 1 /\ dev.config = kind.value /\ dev.proto = "boot"
      BY <1>1, <1>3 DEF EnumerationInv, Order, Asks, Heard, Reached
    <3> QED
      BY <1>1, <2>1, <3>1 DEF Reached, HostKeeps
  <2>6. Walk'
    BY <1>1, <2>1, HostTypes, <1>2 DEF EnumerationInv, Walk, Taken
  <2>7. InStep' /\ Strings' /\ Causes'
    BY <1>1, <1>2, <2>1, <2>2, HostTypes
    DEF EnumerationInv, InStep, Strings, Causes, HostKeeps
  <2> QED
    BY <2>2, <2>3, <2>4, <2>5, <2>6, <2>7 DEF EnumerationInv
<1>4. CASE call.rcode # 0
  <2>1. NoDriver
    BY <1>4 DEF Run
  <2>2. ~Quiet
    BY <1>1, <1>4 DEF EnumerationInv, InStep
  <2> QED
    BY <1>1, <2>1, <2>2, NoDriverStep
<1> QED
  BY <1>3, <1>4

-----------------------------------------------------------------------------
(* The theorems *)

LEMMA InitInv == Init => EnumerationInv
<1> SUFFICES ASSUME Init PROVE EnumerationInv
  OBVIOUS
<1>1. /\ call = Idle /\ Done /\ call.what = "setProto" /\ call.n = 0 /\ call.addr = 0
      /\ call.xfrlen = 0 /\ call.heard /\ call.nak = 0 /\ call.retry = 0 /\ call \in Calls
  BY DEF Init, Idle, Done, Calls, Requests, Stages
<1>2. Types
  <2>1. TaskTypes
    BY DEF Init, TaskTypes, States, Points, Cleared, Table, Sizes, Endpoints
  <2>2. CallTypes /\ Counters
    BY <1>1, LimitsAssumption DEF Init, CallTypes, Counters, Done
  <2>3. DevTypes
    BY LimitsAssumption DEF Init, DevTypes, Fresh, Pipes
  <2> QED
    BY <2>1, <2>2, <2>3 DEF Types
<1>3. Order /\ PacketSizes /\ Reached /\ Walk
  BY <1>1 DEF Init, Order, PacketSizes, Reached, Walk, Cleared
<1>4. Transfer /\ Heard
  BY <1>1 DEF Transfer, Heard
<1>5. InStep /\ Strings /\ Causes
  BY <1>1 DEF Init, InStep, Strings, Causes, Fresh
<1> QED
  BY <1>2, <1>3, <1>4, <1>5 DEF EnumerationInv

LEMMA HostStep == ASSUME EnumerationInv, Host PROVE EnumerationInv'
  BY GetSizeStep, GetDeviceStep, GetStringsStep, GetStringStep, GotStringStep, SetAddressStep,
     GotAddressStep, GetConfHeadStep, GetConfStep, StartWalkStep, SkipStep, RejectInterfaceStep,
     RunsOutStep, ClaimInterfaceStep, TakeEndpointStep, SetProtocolStep, RunStep
  DEF Host

LEMMA StutterStep == ASSUME EnumerationInv, UNCHANGED vars PROVE EnumerationInv'
<1>1. UNCHANGED <<task, usb_error, at, strings, probe, total_length, byte_ptr, devtable,
                  MaxPktSize, hid, call, PERADDR, toggle, kind, dev, present, faults>>
  BY DEF vars, taskvars, tables
<1>2. Types'
  BY <1>1 DEF EnumerationInv, Types, TaskTypes, CallTypes, DevTypes, Counters
<1>3. Order' /\ PacketSizes'
  BY <1>1 DEF EnumerationInv, Order, PacketSizes, Asks, Done
<1>4. Transfer' /\ Heard' /\ Reached'
  BY <1>1 DEF EnumerationInv, Transfer, Heard, Reached, Done, Whole, Has, Reading
<1>5. Walk'
  BY <1>1 DEF EnumerationInv, Walk, Standing, Passed, Taken, First, Chosen, Cut
<1>6. InStep' /\ Strings' /\ Causes'
  BY <1>1
  DEF EnumerationInv, InStep, Strings, Causes, Quiet, Done, Whole, Has, Reading, First, Chosen
<1> QED
  BY <1>2, <1>3, <1>4, <1>5, <1>6 DEF EnumerationInv

\* EnumerationInv is inductive.
THEOREM SpecInv == Spec => []EnumerationInv
<1>1. EnumerationInv /\ [Next]_vars => EnumerationInv'
  BY HostStep, BusStep, UnplugStep, ReplugStep, StutterStep DEF Next
<1> QED
  BY <1>1, InitInv, PTL DEF Spec

\* The counters of a transfer stop at their limits, and it holds no more bytes
\* than it was asked for (XferDispatchPkt, XferInTransfer).
THEOREM SpecTypeOK == Spec => []TypeOK
<1>1. EnumerationInv => TypeOK
  <2> SUFFICES ASSUME EnumerationInv PROVE TypeOK
    OBVIOUS
  <2>1. Types /\ Transfer
    BY DEF EnumerationInv
  <2>2. /\ task \in States /\ PERADDR \in 0..1 /\ toggle \in 0..1 /\ probe \in {"mouse", "keyboard"}
        /\ strings \subseteq 1..2 /\ faults \in 0..MaxFaults /\ total_length <= 256
    BY <2>1 DEF Types, TaskTypes, CallTypes, DevTypes
  <2>3. call.nak \in 0..NakLimit /\ call.retry \in 0..RetryLimit
    <3>1. call.nak \in Nat /\ call.retry \in Nat /\ NakLimit \in Nat /\ RetryLimit \in Nat
      BY <2>1, LimitsAssumption DEF Types, CallTypes, Calls
    <3> QED
      BY <2>1, <3>1 DEF Types, Counters
  <2>4. call.stage \in {"setup", "data", "status", "returned"} /\ call.xfrlen <= call.n
    BY <2>1 DEF Types, CallTypes, Calls, Stages, Transfer
  <2>5. devtable.epinfo \in {"none", "dev0ep", "hid_ep"} /\ dev.addr \in 0..1 /\ dev.left >= 0
    BY <2>1 DEF Types, TaskTypes, DevTypes, Table, Pipes
  <2> QED
    BY <2>2, <2>3, <2>4, <2>5 DEF TypeOK
<1> QED
  BY <1>1, SpecInv, PTL

\* A device that runs has the address, configuration and protocol the host
\* believes it has, and the host its first interface's class and endpoint
\* (USB_Task, HIDMProbe and HIDKProbe).
THEOREM SpecRunningAgrees == Spec => []RunningAgrees
<1>1. EnumerationInv => RunningAgrees
  <2> SUFFICES ASSUME EnumerationInv, task = "RUNNING"
               PROVE  /\ dev.addr = 1 /\ hid.addr = dev.addr
                      /\ dev.config = kind.value /\ dev.proto = "boot"
                      /\ devtable.epinfo = "hid_ep" /\ MaxPktSize["hid_ep"] = kind.mps
                      /\ Taken
    BY DEF RunningAgrees, Taken
  <2> QED
    BY DEF EnumerationInv, Reached, Walk, PacketSizes
<1> QED
  BY <1>1, SpecInv, PTL

\* An enumeration fails only if a packet was lost or refused, the device pulled
\* out, or its first interface with an endpoint is no boot keyboard or mouse.
THEOREM SpecErrorHasCause == Spec => []ErrorHasCause
<1>1. EnumerationInv => ErrorHasCause
  <2> SUFFICES ASSUME EnumerationInv, task = "ERROR", ~(faults > 0), present
               PROVE  \A c \in Chosen : c[1].protocol \notin {"mouse", "keyboard"}
    BY DEF ErrorHasCause
  <2>1. faults = 0
    BY LimitsAssumption DEF EnumerationInv, Types, DevTypes
  <2> QED
    BY <2>1 DEF EnumerationInv, Causes, Quiet
<1> QED
  BY <1>1, SpecInv, PTL

-----------------------------------------------------------------------------
(* Every transfer is a ControlRequest *)

LEMMA ProgressIs ==
  /\ Done => Progress = IF call.rcode = 0 THEN "ok" ELSE "error"
  /\ ~Done => Progress = IF ~call.heard THEN "asked"
                         ELSE IF call.xfrlen = Whole THEN "whole" ELSE "heard"
  BY DEF Progress, Done, Whole

\* The packets of a transfer move it forward.
LEMMA BusRequest == ASSUME EnumerationInv, Bus PROVE Request!Next \/ Progress' = Progress
<1>1. PICK r \in Codes, d \in Pipes, a \in BOOLEAN :
        Packet(r, d, a) /\ (~a => r # 0) /\ (r = 0 => Result = 0)
  BY BusCases DEF EnumerationInv
<1>2. /\ ~Done
      /\ call'.heard = (call.heard \/ (call.stage = "setup" /\ a))
      /\ r # 0 => /\ call'.xfrlen = call.xfrlen
                  /\ call'.stage \in {call.stage, "returned"}
                  /\ call'.stage = "returned" => call'.rcode # 0
      /\ r = 0 => /\ call'.xfrlen = IF call.stage = "data" THEN call.xfrlen + Got ELSE call.xfrlen
                  /\ call'.stage = AfterStage
                  /\ call'.rcode = IF call.stage = "status" THEN 0 ELSE call.rcode
  BY <1>1, PacketCall DEF EnumerationInv
<1>3. kind' = kind /\ call'.what = call.what /\ call'.value = call.value /\ call'.n = call.n
  BY BusKeeps DEF EnumerationInv
<1>4. Whole' = Whole
  BY <1>3 DEF Whole, Has
<1>5. /\ call.stage \in {"setup", "data", "status"}
      /\ call.stage \in {"data", "status"} => call.heard
      /\ call.stage = "status" => call.xfrlen = Whole
      /\ Types /\ Order /\ PacketSizes /\ Transfer
  BY <1>2 DEF EnumerationInv, Types, CallTypes, Calls, Stages, Transfer, Done
<1>6. Progress = IF ~call.heard THEN "asked"
                 ELSE IF call.xfrlen = Whole THEN "whole" ELSE "heard"
  BY <1>2, ProgressIs
<1>7. Progress' = IF Done' THEN IF call'.rcode = 0 THEN "ok" ELSE "error"
                  ELSE IF ~call'.heard THEN "asked"
                  ELSE IF call'.xfrlen = Whole THEN "whole" ELSE "heard"
  BY <1>4, Zenon DEF Progress, Done, Whole
<1>8. CASE r # 0
  BY <1>2, <1>5, <1>6, <1>7, <1>8
  DEF Done, Request!Next, Request!Hear, Request!AnswerError
<1>9. CASE r = 0
  <2>1. CASE call.stage = "setup"
    BY <1>1, <1>2, <1>5, <1>6, <1>7, <1>9, <2>1
    DEF AfterStage, Done, Request!Next, Request!Hear
  <2>2. CASE call.stage = "data"
    <3>1. Got \in Nat /\ call.xfrlen + Got <= Whole /\ Whole \in Nat /\ call.xfrlen \in Nat
      BY <1>1, <1>2, <1>5, <1>9, <2>2, DataArrives, GotTypes, Asked, HasTypes
      DEF Types, CallTypes, Calls
    <3>2. call'.stage \in {"data", "status"} /\ call'.heard /\ call'.xfrlen = call.xfrlen + Got
      BY <1>2, <1>5, <1>9, <2>2 DEF AfterStage
    <3>3. call.xfrlen = Whole => call'.xfrlen = Whole
      BY <3>1, <3>2
    <3> QED
      BY <1>5, <1>6, <1>7, <2>2, <3>2, <3>3 DEF Done, Request!Next, Request!Arrive
  <2>3. CASE call.stage = "status"
    BY <1>2, <1>5, <1>6, <1>7, <1>9, <2>3
    DEF AfterStage, Done, Request!Next, Request!AnswerOk
  <2> QED
    BY <1>5, <2>1, <2>2, <2>3
<1> QED
  BY <1>8, <1>9

\* The host asks when the last transfer is done, or leaves it as it is.
LEMMA HostAsks ==
  ASSUME Host
  PROVE  /\ Done /\ kind' = kind
         /\ \/ call' = call
            \/ call'.stage = "setup" /\ ~call'.heard
<1>1. Done /\ kind' = kind
  BY DEF Host, GetSize, GetDevice, GetStrings, GetString, GotString, SetAddress, GotAddress,
         GetConfHead, GetConf, StartWalk, Skip, RejectInterface, RunsOut, ClaimInterface,
         TakeEndpoint, SetProtocol, Run, Answered, Walking, KeepTask, KeepProbe, Done
<1>2. \A addr, what, value, n :
        Ask(addr, what, value, n) => call'.stage = "setup" /\ ~call'.heard
  BY DEF Ask
<1> DEFINE Anew == call'.stage = "setup" /\ ~call'.heard
<1>3. \A left : NextString(left) => call' = call \/ Anew
  BY <1>2, Zenon DEF NextString
<1>4. CASE GetSize \/ GetDevice \/ GetString \/ SetAddress \/ GotAddress
  BY <1>1, <1>2, <1>4 DEF GetSize, GetDevice, GetString, SetAddress, GotAddress
<1>5. CASE GetStrings \/ GotString
  BY <1>1, <1>3, <1>5 DEF GetStrings, GotString
<1>6. CASE GetConfHead \/ GetConf \/ StartWalk \/ Skip \/ RejectInterface
  BY <1>1, <1>2, <1>6 DEF GetConfHead, GetConf, StartWalk, Skip, RejectInterface
<1>7. CASE RunsOut \/ ClaimInterface \/ TakeEndpoint \/ SetProtocol \/ Run
  BY <1>1, <1>2, <1>7 DEF RunsOut, ClaimInterface, TakeEndpoint, SetProtocol, Run
<1> QED
  BY <1>1, <1>4, <1>5, <1>6, <1>7 DEF Host

LEMMA HostRequest == ASSUME Host PROVE Request!Next \/ Progress' = Progress
<1>1. /\ Done /\ kind' = kind
      /\ call' = call \/ (call'.stage = "setup" /\ ~call'.heard)
  BY HostAsks
<1>2. CASE call' = call
  <2>1. Progress' = Progress
    BY <1>1, <1>2 DEF Progress, Has
  <2> QED
    BY <2>1
<1>3. CASE call'.stage = "setup" /\ ~call'.heard
  <2>1. Progress' = "asked"
    BY <1>3 DEF Progress
  <2>2. Progress \in {"ok", "error"}
    BY <1>1, ProgressIs
  <2> QED
    BY <2>1, <2>2 DEF Request!Next, Request!Ask
<1> QED
  BY <1>1, <1>2, <1>3

\* A control transfer answers 0 only when the device has taken the request and
\* everything it was to send has arrived (XferCtrlReq, XferCtrlData, XferCtrlND).
THEOREM SpecImplementsRequest == Spec => ImplementsRequest
<1>1. Init => Request!Init
  BY DEF Init, Idle, Progress, Request!Init
<1>2. EnumerationInv /\ [Next]_vars => [Request!Next]_Progress
  <2> SUFFICES ASSUME EnumerationInv, [Next]_vars PROVE Request!Next \/ Progress' = Progress
    OBVIOUS
  <2>1. CASE Replug
    <3>1. Done
      BY <2>1 DEF Replug, EnumerationInv, Order
    <3>2. call' = [Idle EXCEPT !.rcode = call.rcode]
      BY <2>1 DEF Replug
    <3>3. call'.stage = "returned" /\ call'.rcode = call.rcode
      BY <3>2 DEF Idle
    <3> QED
      BY <3>1, <3>3 DEF Progress, Done
  <2>2. CASE Unplug
    BY <2>2 DEF Unplug, Progress, Has
  <2>3. CASE UNCHANGED vars
    BY <2>3 DEF vars, Progress, Has
  <2> QED
    BY HostRequest, BusRequest, <2>1, <2>2, <2>3 DEF Next
<1> QED
  BY <1>1, <1>2, SpecInv, PTL DEF Spec, ImplementsRequest, Request!Spec
=============================================================================
