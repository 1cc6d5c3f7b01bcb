--------------------------- MODULE JtagUartProofs ---------------------------
(***************************************************************************)
(* Proofs about JtagUart, for every length of the ring buffers and FIFOs.  *)
(*                                                                         *)
(* ConsoleInv is inductive.  A call reads a pointer once and copies        *)
(* between two steps in which the routines run: what makes the copy safe   *)
(* is WriteChunk and ReadChunk, that the run of places or of bytes the     *)
(* call measured is still free, or still there, when it moves the pointer. *)
(* The routine in turn reads the space of the write FIFO once and never    *)
(* looks again: SpaceIsFree.  SpecDriverSound takes DriverSound from it.   *)
(*                                                                         *)
(* SpecImplementsStream: Ring as a sequence is what RingSame, RingDrop and *)
(* RingGrow say of it, and each step lets bytes enter a stream             *)
(* (PublishEnters, SendsEnters), lets them leave (TakesLeaves,             *)
(* FreeLeaves) or hands one on (TransmitKeeps, ReceiveKeeps, FillKeeps).   *)
(***************************************************************************)
EXTENDS JtagUart, SequenceTheorems, TLAPS

Byte == 0..(Numbers - 1)

\* The bytes a ring buffer holds.
Held(in, out) == (in - out) % BufLen

Calls == [count : 0..MaxCount, moved : BOOLEAN, n : 0..MaxCount, seen : Index, got : Seq(Byte)]

\* The chunk alt_..._write copies fits behind the bytes in the buffer without
\* wrapping; the routine may take some of those meanwhile.
WriteChunk ==
  pc \in {"w_fill", "w_publish"} =>
    /\ call.n \in 1..call.count
    /\ tx_in + call.n <= BufLen /\ call.n + Held(tx_in, tx_out) < BufLen
    /\ pc = "w_publish" => \A k \in 0..(call.n - 1) : tx_buf[tx_in + k] = (nextOut + k) % Numbers

\* The chunk alt_..._read copies lies at the head of the buffer without wrapping;
\* the routine may put others behind it meanwhile.
ReadChunk ==
  pc \in {"r_take", "r_free"} =>
    /\ call.n \in 1..call.count
    /\ rx_out + call.n <= BufLen /\ call.n <= Held(rx_in, rx_out)
    /\ pc = "r_free" => call.got = [k \in 1..call.n |-> rx_buf[rx_out + k - 1]]

\* The space the routine read in the write FIFO is still there.
SpaceIsFree == isr.space + Len(wfifo) <= FifoDepth

ConsoleInv ==
  /\ TypeOK
  /\ app \in Applications
  /\ call \in Calls
  /\ rfifo \in Seq(Byte) /\ wfifo \in Seq(Byte)
  /\ WriteChunk /\ ReadChunk /\ SpaceIsFree /\ NeverSpurious

Types ==
  /\ TypeOK
  /\ app \in Applications
  /\ call \in Calls
  /\ rfifo \in Seq(Byte) /\ wfifo \in Seq(Byte)

-----------------------------------------------------------------------------
(* Arithmetic of the ring buffers *)

LEMMA Modulus ==
  /\ BufLen \in Nat /\ BufLen > 1 /\ 0 \in Index /\ Index \subseteq Nat
  /\ Numbers \in Nat /\ Numbers > BufLen + FifoDepth /\ FifoDepth \in Nat /\ FifoDepth > 0
  /\ 0 \in Byte
BY ConsoleAssumption DEF Index, Byte

\* One turn of the modulus at most.
LEMMA Wrapping ==
  ASSUME NEW z \in (-BufLen)..(2 * BufLen - 1)
  PROVE  z % BufLen = IF z < 0 THEN z + BufLen ELSE IF z < BufLen THEN z ELSE z - BufLen
<1>1. CASE z < 0  BY <1>1, Modulus
<1>2. CASE 0 <= z /\ z < BufLen  BY <1>2, Modulus
<1>3. CASE BufLen <= z  BY <1>3, Modulus
<1>4. QED  BY <1>1, <1>2, <1>3, Modulus

LEMMA SuccIs ==
  ASSUME NEW i \in Index, NEW n \in 0..BufLen
  PROVE  /\ Succ(i, n) \in Index
         /\ Succ(i, n) = IF i + n < BufLen THEN i + n ELSE i + n - BufLen
<1> DEFINE z == i + n
<1>1. z \in (-BufLen)..(2 * BufLen - 1) /\ z >= 0  BY Modulus DEF Index
<1>2. z % BufLen = IF z < 0 THEN z + BufLen ELSE IF z < BufLen THEN z ELSE z - BufLen
  BY <1>1, Wrapping, Zenon
<1> HIDE DEF z
<1>3. z % BufLen = IF z < BufLen THEN z ELSE z - BufLen  BY <1>1, <1>2
<1>4. (IF z < BufLen THEN z ELSE z - BufLen) \in Index  BY <1>1, Modulus DEF Index
<1>5. Succ(i, n) = IF z < BufLen THEN z ELSE z - BufLen  BY <1>3 DEF Succ, z
<1>6. Succ(i, n) \in Index  BY <1>4, <1>5, Zenon
<1>7. Succ(i, n) = IF i + n < BufLen THEN i + n ELSE i + n - BufLen  BY <1>5, Modulus DEF z, Index
<1>8. QED  BY <1>6, <1>7

LEMMA HeldIs ==
  ASSUME NEW in \in Index, NEW out \in Index
  PROVE  /\ Held(in, out) \in Index
         /\ Held(in, out) = IF in < out THEN in - out + BufLen ELSE in - out
<1> DEFINE z == in - out
<1>1. z \in (-BufLen)..(2 * BufLen - 1) /\ (in < out <=> z < 0) /\ z < BufLen /\ -BufLen < z
  BY Modulus DEF Index
<1>2. z % BufLen = IF z < 0 THEN z + BufLen ELSE IF z < BufLen THEN z ELSE z - BufLen
  BY <1>1, Wrapping, Zenon
<1>3. (IF z < 0 THEN z + BufLen ELSE z) \in Index  BY <1>1, Modulus DEF Index
<1> HIDE DEF z
<1>4. z % BufLen = IF z < 0 THEN z + BufLen ELSE z  BY <1>1, <1>2
<1>5. z % BufLen = IF in < out THEN z + BufLen ELSE z  BY <1>1, <1>4
<1>6. QED  BY <1>3, <1>4, <1>5 DEF Held, z

LEMMA SuccType == \A i \in Index : Succ(i, 1) \in Index
<1>1. 1 \in 0..BufLen  BY Modulus
<1>2. QED  BY <1>1, SuccIs

\* The in pointer moves over free places, the out pointer over bytes.
LEMMA HeldAfter ==
  ASSUME NEW in \in Index, NEW out \in Index, NEW n \in Nat
  PROVE  /\ Held(in, out) + n < BufLen =>
              Succ(in, n) \in Index /\ Held(Succ(in, n), out) = Held(in, out) + n
         /\ n <= Held(in, out) =>
              Succ(out, n) \in Index /\ Held(in, Succ(out, n)) = Held(in, out) - n
<1>1. Held(in, out) \in Index  BY HeldIs
<1>2. ASSUME Held(in, out) + n < BufLen
      PROVE  Succ(in, n) \in Index /\ Held(Succ(in, n), out) = Held(in, out) + n
  <2>1. n \in 0..BufLen  BY <1>1, <1>2, Modulus DEF Index
  <2>2. /\ Succ(in, n) \in Index
        /\ Succ(in, n) = IF in + n < BufLen THEN in + n ELSE in + n - BufLen
    BY <2>1, SuccIs
  <2>3. Held(Succ(in, n), out) = IF Succ(in, n) < out THEN Succ(in, n) - out + BufLen ELSE Succ(in, n) - out
    BY <2>2, HeldIs
  <2>4. Held(in, out) = IF in < out THEN in - out + BufLen ELSE in - out  BY HeldIs
  <2>5. QED  BY <1>2, <2>1, <2>2, <2>3, <2>4, Modulus DEF Index
<1>3. ASSUME n <= Held(in, out)
      PROVE  Succ(out, n) \in Index /\ Held(in, Succ(out, n)) = Held(in, out) - n
  <2>1. n \in 0..BufLen  BY <1>1, <1>3, Modulus DEF Index
  <2>2. /\ Succ(out, n) \in Index
        /\ Succ(out, n) = IF out + n < BufLen THEN out + n ELSE out + n - BufLen
    BY <2>1, SuccIs
  <2>3. Held(in, Succ(out, n)) = IF in < Succ(out, n) THEN in - Succ(out, n) + BufLen ELSE in - Succ(out, n)
    BY <2>2, HeldIs
  <2>4. Held(in, out) = IF in < out THEN in - out + BufLen ELSE in - out  BY HeldIs
  <2>5. QED  BY <1>3, <2>1, <2>2, <2>3, <2>4, Modulus DEF Index
<1>4. QED  BY <1>2, <1>3

\* The buffer is empty, and full, exactly when the driver thinks so.
LEMMA EmptyAndFull ==
  ASSUME NEW in \in Index, NEW out \in Index
  PROVE  /\ Held(in, out) = 0 <=> in = out
         /\ Held(in, out) = BufLen - 1 <=> Succ(in, 1) = out
<1>1. Held(in, out) = IF in < out THEN in - out + BufLen ELSE in - out  BY HeldIs
<1>2. Succ(in, 1) = IF in + 1 < BufLen THEN in + 1 ELSE in + 1 - BufLen  BY SuccIs, Modulus
<1>3. QED  BY <1>1, <1>2, Modulus DEF Index

\* What the driver takes for the free places, and the bytes, up to the wrap.
LEMMA Runs ==
  ASSUME NEW in \in Index, NEW out \in Index
  PROVE  /\ FreeRun(in, out) \in Nat /\ in + FreeRun(in, out) <= BufLen
         /\ FreeRun(in, out) + Held(in, out) < BufLen
         /\ FullRun(in, out) \in Nat /\ out + FullRun(in, out) <= BufLen
         /\ FullRun(in, out) <= Held(in, out)
<1>1. Held(in, out) = IF in < out THEN in - out + BufLen ELSE in - out  BY HeldIs
<1>2. FreeRun(in, out) = IF in < out THEN out - 1 - in
                         ELSE IF out > 0 THEN BufLen - in ELSE BufLen - 1 - in
  BY Modulus DEF FreeRun, Index
<1>3. FullRun(in, out) = IF in >= out THEN in - out ELSE BufLen - out  BY DEF FullRun
<1>4. QED  BY <1>1, <1>2, <1>3, Modulus DEF Index

-----------------------------------------------------------------------------
(* The types *)

LEMMA TypesInit == Init => Types
<1> SUFFICES ASSUME Init PROVE Types  OBVIOUS
<1>1. isr \in [at : IsrSteps, wi : BOOLEAN, space : 0..FifoDepth, avail : BOOLEAN]
  BY Modulus DEF Init, IsrAtStep, IsrSteps
<1>2. call \in Calls  BY ConsoleAssumption, Modulus DEF Init, NoCall, Calls
<1>3. rfifo \in Seq(Byte) /\ wfifo \in Seq(Byte) /\ Len(rfifo) = 0 /\ Len(wfifo) = 0
  BY DEF Init
<1>4. rx_buf \in [Index -> 0..(Numbers - 1)] /\ tx_buf \in [Index -> 0..(Numbers - 1)]
  BY Modulus DEF Init, Byte
<1>5. /\ timeout \in 2..(IntMax - 1) /\ host_inactive \in 0..(IntMax - 2)
      /\ nextOut \in 0..(Numbers - 1) /\ nextIn \in 0..(Numbers - 1)
  BY ConsoleAssumption, Modulus DEF Init
<1>6. handlers \subseteq {UART, TIMER} /\ irq_enable \subseteq {"RE", "WE"} /\ app \in Applications
  BY DEF Init
<1>7. {rx_in, rx_out, tx_in, tx_out} \subseteq Index /\ {pause_irq, ac, timer_irq, connected} \subseteq BOOLEAN
  BY Modulus DEF Init
<1>8. pc \in BootSteps  BY DEF Init, BootSteps
<1>9. call.count \in 0..MaxCount /\ call.moved \in BOOLEAN /\ call.n \in 0..MaxCount /\ call.seen \in Index
  BY <1>2 DEF Calls
<1>10. Len(rfifo) <= FifoDepth /\ Len(wfifo) <= FifoDepth  BY <1>3, Modulus
<1>11. QED
  BY <1>1, <1>2, <1>3, <1>4, <1>5, <1>6, <1>7, <1>8, <1>9, <1>10 DEF Types, TypeOK

LEMMA TypesBoot ==
  ASSUME Types, BootIrq \/ BootTimer \/ BootUart \/ BootRegister \/ BootAlarm
  PROVE  Types'
<1>1. /\ handlers' \subseteq {UART, TIMER} /\ irq_enable' \subseteq {"RE", "WE"}
      /\ pc' \in BootSteps \cup {"idle"}
  BY DEF Types, TypeOK, BootIrq, BootTimer, BootUart, BootRegister, BootAlarm, Boot, Register, driver, BootSteps
<1>3. host_inactive' \in 0..(IntMax - 2)
  <2>1. 0 \in 0..(IntMax - 2)  BY ConsoleAssumption
  <2>2. host_inactive' \in {0, host_inactive}
    BY DEF BootIrq, BootTimer, BootUart, BootRegister, BootAlarm, driver
  <2>3. QED  BY <2>1, <2>2 DEF Types, TypeOK
<1>2. UNCHANGED <<isr, timeout, rx_in, rx_out, rx_buf, tx_in, tx_out, tx_buf, call, device, timer_irq, connected, numbers>>
  BY DEF BootIrq, BootTimer, BootUart, BootRegister, BootAlarm, driver
<1>4. QED
  BY <1>1, <1>2, <1>3 DEF Types, TypeOK, device, numbers

LEMMA TypesIsr ==
  ASSUME Types, IsrNext PROVE Types'
<1> USE Modulus, ConsoleAssumption
<1> DEFINE Routines == [at : IsrSteps, wi : BOOLEAN, space : 0..FifoDepth, avail : BOOLEAN]
<1>1. \A s \in IsrSteps : IsrTo(s) => isr' \in Routines  BY DEF IsrTo, IsrAtStep
<1>2. isr \in Routines /\ Len(wfifo) \in 0..FifoDepth  BY DEF Types, TypeOK, Byte
<1>3. AfterReceive => isr' \in Routines  BY <1>1, <1>2 DEF AfterReceive, IsrSteps
<1>4. UNCHANGED <<handlers, timeout, pc, call, connected, app, nextOut, nextIn>>
  BY DEF IsrNext, Interrupted, Dispatch, IsrControl, IsrReceive, IsrReceiveFull, IsrTransmit, IsrTransmitEnd, IsrTick, ByIsr, numbers
<1>5. CASE Interrupted
  <2>1. isr' \in Routines  BY <1>1, <1>5 DEF Interrupted, IsrSteps
  <2>2. QED  BY <1>4, <1>5, <2>1 DEF Interrupted, Types, TypeOK, driver, device
<1>6. CASE Dispatch
  <2>1. isr' \in Routines  BY <1>1, <1>2, <1>6 DEF Dispatch, IsrSteps
  <2>2. QED  BY <1>4, <1>6, <2>1 DEF Dispatch, Types, TypeOK, driver, device
<1>7. CASE IsrControl
  <2>1. isr' \in Routines
    <3>1. ipen_AE \in BOOLEAN /\ ipen_AF \in BOOLEAN  BY DEF ipen_AE, ipen_AF, Types, TypeOK
    <3> HIDE DEF ipen_AE, ipen_AF
    <3>2. QED  BY <1>1, <1>2, <1>7, <3>1 DEF IsrControl, IsrSteps
  <2>2. QED  BY <1>4, <1>7, <2>1 DEF IsrControl, Types, TypeOK, driver, device
<1>8. CASE IsrReceive
  <2>1. isr' \in Routines
    <3>1. CASE rfifo = <<>>  BY <1>3, <1>8, <3>1 DEF IsrReceive
    <3>2. CASE rfifo # <<>>
      <4> DEFINE more == Len(rfifo) > 1
      <4>1. isr' = [isr EXCEPT !.avail = more]  BY <1>8, <3>2 DEF IsrReceive
      <4>2. more \in BOOLEAN  OBVIOUS
      <4> HIDE DEF more
      <4>3. QED  BY <1>2, <4>1, <4>2
    <3>3. QED  BY <3>1, <3>2
  <2>2. rfifo' \in Seq(Byte) /\ Len(rfifo') <= FifoDepth
    <3>1. CASE rfifo = <<>>  BY <1>8, <3>1 DEF IsrReceive, ReadData, Types, TypeOK
    <3>2. CASE rfifo # <<>>
      <4>1. rfifo' = Tail(rfifo)  BY <1>8, <3>2 DEF IsrReceive, ReadData
      <4>2. QED  BY <3>2, <4>1, HeadTailProperties DEF Types, TypeOK
    <3>3. QED  BY <3>1, <3>2
  <2>3. rx_in' \in Index /\ rx_buf' \in [Index -> 0..(Numbers - 1)]
    <3>1. CASE rfifo = <<>>  BY <1>8, <3>1 DEF IsrReceive, Types, TypeOK
    <3>2. CASE rfifo # <<>>
      <4>1. Head(rfifo) \in Byte  BY <3>2, HeadTailProperties DEF Types
      <4>2. rx_in' = Succ(rx_in, 1) /\ rx_buf' = [rx_buf EXCEPT ![rx_in] = Head(rfifo)]
        BY <1>8, <3>2 DEF IsrReceive
      <4>3. Succ(rx_in, 1) \in Index  BY SuccType DEF Types, TypeOK
      <4>4. QED  BY <4>1, <4>2, <4>3 DEF Types, TypeOK, Byte
    <3>3. QED  BY <3>1, <3>2
  <2>4. pause_irq' = FALSE  BY <1>8 DEF IsrReceive, ReadData
  <2>5. UNCHANGED <<irq_enable, host_inactive, rx_out, tx_in, tx_out, tx_buf, wfifo, ac, timer_irq>>
    BY <1>8 DEF IsrReceive
  <2>6. QED  BY <1>4, <2>1, <2>2, <2>3, <2>4, <2>5 DEF Types, TypeOK
<1>9. CASE IsrReceiveFull
  <2>1. isr' \in Routines  BY <1>3, <1>9 DEF IsrReceiveFull
  <2>2. irq_enable' \subseteq {"RE", "WE"}  BY <1>9 DEF IsrReceiveFull, Types, TypeOK
  <2>3. QED  BY <1>4, <1>9, <2>1, <2>2 DEF IsrReceiveFull, Types, TypeOK, device
<1>10. CASE IsrTransmit
  <2>1. isr' \in Routines
    <3>1. isr.space - 1 \in 0..FifoDepth /\ isr' = [isr EXCEPT !.space = isr.space - 1]
      BY <1>2, <1>10 DEF IsrTransmit
    <3>2. QED  BY <1>2, <3>1
  <2>2. wfifo' \in Seq(Byte) /\ Len(wfifo') <= FifoDepth
    <3>1. tx_buf[tx_out] \in Byte  BY DEF Types, TypeOK, Byte
    <3>2. wfifo' = IF Len(wfifo) < FifoDepth THEN Append(wfifo, tx_buf[tx_out]) ELSE wfifo
      BY <1>10 DEF IsrTransmit, WriteData
    <3>3. QED  BY <3>1, <3>2, AppendProperties DEF Types, TypeOK
  <2>3. tx_out' \in Index  BY <1>10, SuccType DEF IsrTransmit, Types, TypeOK
  <2>4. UNCHANGED <<irq_enable, host_inactive, rx_in, rx_out, rx_buf, tx_in, tx_buf, rfifo, pause_irq, ac, timer_irq>>
    BY <1>10 DEF IsrTransmit
  <2>5. QED  BY <1>4, <2>1, <2>2, <2>3, <2>4 DEF Types, TypeOK
<1>11. CASE IsrTransmitEnd
  <2>1. isr' \in Routines  BY <1>1, <1>11 DEF IsrTransmitEnd, IsrSteps
  <2>2. irq_enable' \subseteq {"RE", "WE"}  BY <1>11 DEF IsrTransmitEnd, Types, TypeOK
  <2>3. QED  BY <1>4, <1>11, <2>1, <2>2 DEF IsrTransmitEnd, Types, TypeOK, device
<1>12. CASE IsrTick
  <2>1. isr' \in Routines  BY <1>1, <1>12 DEF IsrTick, IsrSteps
  <2>2. timer_irq' = FALSE /\ ac' \in BOOLEAN  BY <1>12 DEF IsrTick, Types, TypeOK
  <2>3. host_inactive' \in 0..(IntMax - 2)  BY <1>12 DEF IsrTick, Types, TypeOK
  <2>4. UNCHANGED <<irq_enable, rx_in, rx_out, rx_buf, tx_in, tx_out, tx_buf, rfifo, wfifo, pause_irq>>
    BY <1>12 DEF IsrTick
  <2>5. QED  BY <1>4, <2>1, <2>2, <2>3, <2>4 DEF Types, TypeOK
<1>13. QED
  BY <1>5, <1>6, <1>7, <1>8, <1>9, <1>10, <1>11, <1>12 DEF IsrNext

LEMMA TypesHost ==
  ASSUME Types, HostSends \/ HostPauses \/ HostTakes \/ HostComesOrGoes \/ Second PROVE Types'
<1> USE Modulus
<1>1. UNCHANGED software /\ UNCHANGED <<app, nextOut>>
  BY DEF HostSends, HostPauses, HostTakes, HostComesOrGoes, Second, numbers
<1>2. {pause_irq', ac', timer_irq', connected'} \subseteq BOOLEAN
  BY DEF HostSends, HostPauses, HostTakes, HostComesOrGoes, Second, numbers, device, Types, TypeOK
<1>3. rfifo' \in Seq(Byte) /\ Len(rfifo') <= FifoDepth /\ nextIn' \in 0..(Numbers - 1)
  <2>1. CASE HostSends
    <3>1. rfifo' = Append(rfifo, nextIn) /\ Len(rfifo) < FifoDepth /\ nextIn \in Byte
      BY <2>1 DEF HostSends, Types, TypeOK, Byte
    <3>2. rfifo' \in Seq(Byte) /\ Len(rfifo') <= FifoDepth  BY <3>1, AppendProperties DEF Types
    <3>3. nextIn' \in 0..(Numbers - 1)
      <4>1. nextIn' = (nextIn + 1) % Numbers  BY <2>1 DEF HostSends
      <4>2. nextIn + 1 \in Int  BY DEF Types, TypeOK
      <4>3. QED  BY <4>1, <4>2
    <3>4. QED  BY <3>2, <3>3
  <2>2. CASE UNCHANGED <<rfifo, nextIn>>  BY <2>2 DEF Types, TypeOK
  <2>3. QED  BY <2>1, <2>2 DEF HostPauses, HostTakes, HostComesOrGoes, Second, numbers, device
<1>4. wfifo' \in Seq(Byte) /\ Len(wfifo') <= FifoDepth
  <2>1. CASE HostTakes
    <3>1. wfifo # <<>> /\ wfifo' = Tail(wfifo)  BY <2>1 DEF HostTakes
    <3>2. QED  BY <3>1, HeadTailProperties DEF Types, TypeOK
  <2>2. CASE UNCHANGED wfifo  BY <2>2 DEF Types, TypeOK
  <2>3. QED  BY <2>1, <2>2 DEF HostSends, HostPauses, HostComesOrGoes, Second, device
<1>5. QED  BY <1>1, <1>2, <1>3, <1>4 DEF Types, TypeOK, software, driver

\* What a step of a call leaves alone, and the rest of the types.
LEMMA TypesOfCall ==
  ASSUME Types, ByCall,
         call' \in Calls,
         pc' \in WriteSteps \cup ReadSteps \cup {"idle", "close"},
         irq_enable' \subseteq {"RE", "WE"}, timeout' \in 2..(IntMax - 1), host_inactive' = host_inactive,
         {rx_in', rx_out', tx_in', tx_out'} \subseteq Index,
         rx_buf' = rx_buf, tx_buf' \in [Index -> Byte], nextOut' \in Byte
  PROVE  Types'
<1>1. /\ call'.count \in 0..MaxCount /\ call'.moved \in BOOLEAN
      /\ call'.n \in 0..MaxCount /\ call'.seen \in Index
  BY DEF Calls
<1>2. QED  BY <1>1 DEF Types, TypeOK, ByCall, device, Byte

\* A call that only moves on.
LEMMA TypesOfStep ==
  ASSUME Types, ByCall, UNCHANGED <<driver, nextOut>>,
         call' \in Calls, pc' \in WriteSteps \cup ReadSteps \cup {"idle", "close"}
  PROVE  Types'
<1>1. {rx_in', rx_out', tx_in', tx_out'} \subseteq Index /\ tx_buf' \in [Index -> Byte] /\ nextOut' \in Byte
  BY DEF driver, Types, TypeOK, Byte
<1>2. /\ irq_enable' \subseteq {"RE", "WE"} /\ timeout' \in 2..(IntMax - 1)
      /\ host_inactive' = host_inactive /\ rx_buf' = rx_buf
  BY DEF driver, Types, TypeOK
<1>3. QED  BY <1>1, <1>2, TypesOfCall

LEMMA NoCallType == NoCall \in Calls
BY ConsoleAssumption, Modulus DEF NoCall, Calls

\* The fields of a call may be set one by one.
LEMMA CallFields ==
  ASSUME NEW c \in Calls
  PROVE  /\ c.count \in 0..MaxCount /\ c.moved \in BOOLEAN /\ c.n \in 0..MaxCount
         /\ c.seen \in Index /\ c.got \in Seq(Byte)
         /\ \A n \in 0..MaxCount : [c EXCEPT !.n = n] \in Calls
         /\ \A s \in Index : [c EXCEPT !.seen = s] \in Calls
         /\ \A n \in 0..MaxCount, s \in Index : [c EXCEPT !.n = n, !.seen = s] \in Calls
         /\ \A g \in Seq(Byte) : [c EXCEPT !.got = g] \in Calls
BY DEF Calls

\* The chunk is as long as it may be, and no longer than what was asked for.
LEMMA Shortest ==
  ASSUME NEW a \in Nat, NEW b \in 0..MaxCount
  PROVE  Min2(a, b) \in 0..b /\ Min2(a, b) \in 0..MaxCount /\ Min2(a, b) <= a
BY ConsoleAssumption DEF Min2

LEMMA BytesOf == \A z \in Int : z % Numbers \in Byte
BY Modulus DEF Byte

LEMMA TypesWrite ==
  ASSUME Types, WriteChunk, WriteLook \/ WriteFill \/ WritePublish \/ WriteKick \/ WriteSpin
  PROVE  Types'
<1> USE DEF WriteSteps, ReadSteps
<1>1. call \in Calls /\ tx_in \in Index /\ tx_out \in Index /\ nextOut \in Byte
  BY DEF Types, TypeOK, Byte
<1>f. call.count \in 0..MaxCount /\ call.n \in 0..MaxCount /\ MaxCount \in Nat
  BY <1>1, ConsoleAssumption DEF Calls
<1>2. CASE WriteLook
  <2> DEFINE n == Min2(FreeRun(tx_in, tx_out), call.count)
  <2>1. n \in 0..MaxCount
    <3>1. FreeRun(tx_in, tx_out) \in Nat /\ call.count \in 0..MaxCount  BY <1>1, <1>f, Runs
    <3>2. QED  BY <3>1, Shortest
  <2>2. \/ pc' = "w_fill" /\ call' = [call EXCEPT !.n = n]
        \/ pc' = "w_kick" /\ call' = [call EXCEPT !.seen = IF call.count > 0 THEN tx_out ELSE 0]
    BY <1>2 DEF WriteLook
  <2> HIDE DEF n
  <2>3. call' \in Calls  BY <1>1, <2>1, <2>2, CallFields, Modulus
  <2>4. QED  BY <1>2, <2>2, <2>3, TypesOfStep DEF WriteLook
<1>3. CASE WriteFill
  <2>1. tx_buf' \in [Index -> Byte]
    <3>1. \A i \in Index : (nextOut + i - tx_in) % Numbers \in Byte
      BY <1>1, BytesOf, Modulus DEF Byte, Index
    <3>2. tx_buf \in [Index -> Byte]  BY DEF Types, TypeOK, Byte
    <3>3. QED  BY <1>3, <3>1, <3>2 DEF WriteFill
  <2>2. call' = call /\ pc' = "w_publish"  BY <1>3 DEF WriteFill, Goto
  <2>3. UNCHANGED <<irq_enable, timeout, host_inactive, rx_in, rx_out, rx_buf, tx_in, tx_out, nextOut>> /\ ByCall
    BY <1>3 DEF WriteFill
  <2>4. /\ irq_enable' \subseteq {"RE", "WE"} /\ timeout' \in 2..(IntMax - 1)
        /\ {rx_in', rx_out', tx_in', tx_out'} \subseteq Index
    BY <2>3 DEF Types, TypeOK
  <2>5. QED  BY <1>1, <2>1, <2>2, <2>3, <2>4, TypesOfCall
<1>4. CASE WritePublish
  <2>1. call.n \in 1..call.count /\ call.n <= BufLen /\ call.n + Held(tx_in, tx_out) < BufLen
    BY <1>1, <1>f, <1>4, Modulus DEF WriteChunk, WritePublish, At, Index
  <2>2. call.n \in 0..BufLen  BY <1>f, <2>1, Modulus
  <2>8. tx_in' \in Index  BY <1>1, <1>4, <2>2, SuccIs DEF WritePublish
  <2>3. nextOut' \in Byte
    <3>1. nextOut + call.n \in Int  BY <1>1, <1>f, <2>1, Modulus DEF Byte
    <3>2. QED  BY <1>4, <3>1, BytesOf DEF WritePublish
  <2>4. call' \in Calls /\ pc' = "w_look"
    <3> DEFINE rest == call.count - call.n
    <3>1. call' = [call EXCEPT !.count = rest, !.moved = TRUE, !.n = 0]  BY <1>4 DEF WritePublish
    <3>2. rest \in 0..MaxCount /\ 0 \in 0..MaxCount  BY <1>f, <2>1
    <3> HIDE DEF rest
    <3>3. QED  BY <1>1, <1>4, <3>1, <3>2 DEF Calls, WritePublish
  <2>5. UNCHANGED <<irq_enable, timeout, host_inactive, rx_in, rx_out, rx_buf, tx_out, tx_buf>> /\ ByCall
    BY <1>4 DEF WritePublish
  <2>6. /\ irq_enable' \subseteq {"RE", "WE"} /\ timeout' \in 2..(IntMax - 1)
        /\ {rx_in', rx_out', tx_in', tx_out'} \subseteq Index /\ tx_buf' \in [Index -> Byte]
    BY <2>8, <2>5 DEF Types, TypeOK, Byte
  <2>7. QED  BY <2>3, <2>4, <2>5, <2>6, TypesOfCall
<1>5. CASE WriteKick
  <2>1. call' \in Calls /\ pc' \in {"idle", "w_spin"}  BY <1>1, <1>5, NoCallType DEF WriteKick, Return, Goto
  <2>2. UNCHANGED <<timeout, host_inactive, rx_in, rx_out, rx_buf, tx_in, tx_out, tx_buf, nextOut>> /\ ByCall
    BY <1>5 DEF WriteKick
  <2>3. /\ irq_enable' \subseteq {"RE", "WE"} /\ timeout' \in 2..(IntMax - 1) /\ nextOut' \in Byte
        /\ {rx_in', rx_out', tx_in', tx_out'} \subseteq Index /\ tx_buf' \in [Index -> Byte]
    BY <1>5, <2>2 DEF WriteKick, Types, TypeOK, Byte
  <2>4. QED  BY <2>1, <2>2, <2>3, TypesOfCall
<1>6. CASE WriteSpin
  <2>1. call' \in Calls /\ pc' \in {"idle", "w_look"}
    BY <1>1, <1>6, NoCallType, CallFields, Modulus DEF WriteSpin, Return
  <2>2. QED  BY <1>6, <2>1, TypesOfStep DEF WriteSpin
<1>7. QED  BY <1>2, <1>3, <1>4, <1>5, <1>6

LEMMA TypesRead ==
  ASSUME Types, ReadChunk,
         ReadLook \/ ReadTake \/ ReadFree \/ ReadDecide \/ ReadSpin \/ ReadEnable \/ Close
  PROVE  Types'
<1> USE DEF WriteSteps, ReadSteps
<1>1. call \in Calls /\ rx_in \in Index /\ rx_out \in Index  BY DEF Types, TypeOK
<1>f. call.count \in 0..MaxCount /\ call.n \in 0..MaxCount /\ MaxCount \in Nat
  BY <1>1, ConsoleAssumption DEF Calls
<1>2. CASE ReadLook
  <2> DEFINE n == Min2(FullRun(rx_in, rx_out), call.count)
  <2>1. n \in 0..MaxCount
    <3>1. FullRun(rx_in, rx_out) \in Nat /\ call.count \in 0..MaxCount  BY <1>1, <1>f, Runs
    <3>2. QED  BY <3>1, Shortest
  <2>2. call' = [call EXCEPT !.n = n, !.seen = rx_in] /\ pc' \in {"r_take", "r_decide"}
    BY <1>2 DEF ReadLook
  <2> HIDE DEF n
  <2>3. call' \in Calls  BY <1>1, <2>1, <2>2, CallFields
  <2>4. QED  BY <1>2, <2>2, <2>3, TypesOfStep DEF ReadLook
<1>3. CASE ReadTake
  <2> DEFINE g == [k \in 1..call.n |-> rx_buf[rx_out + k - 1]]
  <2>1. g \in Seq(Byte)
    <3>1. rx_out + call.n <= BufLen /\ call.n \in Nat
      BY <1>f, <1>3 DEF ReadTake, At, ReadChunk
    <3>2. \A k \in 1..call.n : rx_out + k - 1 \in Index  BY <1>1, <3>1, Modulus DEF Index
    <3>3. \A k \in 1..call.n : rx_buf[rx_out + k - 1] \in Byte  BY <3>2 DEF Types, TypeOK, Byte
    <3>4. QED  BY <3>1, <3>3
  <2>2. call' = [call EXCEPT !.got = g] /\ pc' = "r_free"  BY <1>3 DEF ReadTake
  <2> HIDE DEF g
  <2>3. call' \in Calls  BY <1>1, <2>1, <2>2, CallFields
  <2>4. QED  BY <1>3, <2>2, <2>3, TypesOfStep DEF ReadTake
<1>4. CASE ReadFree
  <2>0. Held(rx_in, rx_out) \in Index  BY <1>1, HeldIs
  <2>1. call.n \in 1..call.count /\ call.n <= Held(rx_in, rx_out) /\ call.n \in 0..BufLen
    BY <1>1, <1>f, <1>4, <2>0, Modulus DEF ReadChunk, ReadFree, At, Index
  <2>2. rx_out' \in Index  BY <1>1, <1>4, <2>1, SuccIs DEF ReadFree
  <2>3. call' \in Calls /\ pc' \in {"r_look", "r_decide"}
    <3> DEFINE rest == call.count - call.n
    <3>1. call' = [call EXCEPT !.count = rest, !.moved = TRUE, !.n = 0, !.got = <<>>]  BY <1>4 DEF ReadFree
    <3>2. rest \in 0..MaxCount /\ 0 \in 0..MaxCount  BY <1>f, <2>1
    <3>3. pc' \in {"r_look", "r_decide"}  BY <1>4 DEF ReadFree
    <3> DEFINE none == <<>>
    <3>5. none \in Seq(Byte)  OBVIOUS
    <3>6. call' = [call EXCEPT !.count = rest, !.moved = TRUE, !.n = 0, !.got = none]  BY <3>1
    <3> HIDE DEF rest, none
    <3>7. call' \in Calls  BY <1>1, <3>2, <3>5, <3>6 DEF Calls
    <3>8. QED  BY <3>3, <3>7
  <2>4. UNCHANGED <<irq_enable, timeout, host_inactive, rx_in, rx_buf, tx_in, tx_out, tx_buf, nextOut>> /\ ByCall
    BY <1>4 DEF ReadFree
  <2>5. /\ irq_enable' \subseteq {"RE", "WE"} /\ timeout' \in 2..(IntMax - 1) /\ nextOut' \in Byte
        /\ {rx_in', rx_out', tx_in', tx_out'} \subseteq Index /\ tx_buf' \in [Index -> Byte]
    BY <2>2, <2>4 DEF Types, TypeOK, Byte
  <2>6. QED  BY <2>3, <2>4, <2>5, TypesOfCall
<1>5. CASE ReadDecide
  <2>1. call' \in Calls /\ pc' \in {"idle", "r_enable", "r_spin"}
    BY <1>1, <1>5, NoCallType DEF ReadDecide, Return, Goto
  <2>2. QED  BY <1>5, <2>1, TypesOfStep DEF ReadDecide
<1>6. CASE ReadSpin
  <2>1. call' \in Calls /\ pc' \in {"idle", "r_look"}  BY <1>1, <1>6, NoCallType DEF ReadSpin, Return, Goto
  <2>2. QED  BY <1>6, <2>1, TypesOfStep DEF ReadSpin
<1>7. CASE ReadEnable
  <2>1. call' \in Calls /\ pc' = "idle"  BY <1>7, NoCallType DEF ReadEnable, Return
  <2>2. UNCHANGED <<timeout, host_inactive, rx_in, rx_out, rx_buf, tx_in, tx_out, tx_buf, nextOut>> /\ ByCall
    BY <1>7 DEF ReadEnable
  <2>3. /\ irq_enable' \subseteq {"RE", "WE"} /\ timeout' \in 2..(IntMax - 1) /\ nextOut' \in Byte
        /\ {rx_in', rx_out', tx_in', tx_out'} \subseteq Index /\ tx_buf' \in [Index -> Byte]
    BY <1>7, <2>2 DEF ReadEnable, Types, TypeOK, Byte
  <2>4. QED  BY <2>1, <2>2, <2>3, TypesOfCall
<1>8. CASE Close
  <2>1. call' \in Calls /\ pc' = "idle"  BY <1>8, NoCallType DEF Close, Return
  <2>2. QED  BY <1>8, <2>1, TypesOfStep DEF Close
<1>9. QED  BY <1>2, <1>3, <1>4, <1>5, <1>6, <1>7, <1>8

LEMMA TypesAsk == ASSUME Types, Ask PROVE Types'
<1> USE DEF WriteSteps, ReadSteps
<1>1. ASSUME NEW s \in {"w_look", "r_look", "close"}, NEW c \in 0..MaxCount, Begin(s, c) PROVE Types'
  <2>1. call' \in Calls  BY <1>1, NoCallType DEF Begin, Calls
  <2>2. QED  BY <1>1, <2>1, TypesOfStep DEF Begin
<1>2. ASSUME NEW t \in app.timeouts, SetTimeout(t) PROVE Types'
  <2>1. timeout' \in 2..(IntMax - 1)
    <3>1. t \in Int  BY ConsoleAssumption DEF Types
    <3>2. timeout' = IF t >= 2 /\ t < IntMax THEN t ELSE IntMax - 1  BY <1>2 DEF SetTimeout
    <3>3. QED  BY <3>1, <3>2, ConsoleAssumption
  <2>2. /\ UNCHANGED <<irq_enable, host_inactive, rx_in, rx_out, rx_buf, tx_in, tx_out, tx_buf, pc, call, nextOut>>
        /\ ByCall /\ pc = "idle"
    BY <1>2 DEF SetTimeout, At
  <2>3. /\ irq_enable' \subseteq {"RE", "WE"} /\ nextOut' \in Byte /\ call' \in Calls
        /\ {rx_in', rx_out', tx_in', tx_out'} \subseteq Index /\ tx_buf' \in [Index -> Byte]
    BY <2>2 DEF Types, TypeOK, Byte
  <2>4. QED  BY <2>1, <2>2, <2>3, TypesOfCall
<1>3. 1..MaxCount \subseteq 0..MaxCount /\ 0 \in 0..MaxCount  BY ConsoleAssumption
<1>4. QED  BY <1>1, <1>2, <1>3 DEF Ask

-----------------------------------------------------------------------------
(* The chunk of a write *)

\* The step does not concern a chunk.
LEMMA WriteChunkStays ==
  ASSUME WriteChunk,
         \/ pc' \notin {"w_fill", "w_publish"}
         \/ UNCHANGED <<pc, call, tx_in, tx_out, tx_buf, nextOut>>
  PROVE  WriteChunk'
<1>1. CASE pc' \notin {"w_fill", "w_publish"}  BY <1>1 DEF WriteChunk
<1>2. CASE UNCHANGED <<pc, call, tx_in, tx_out, tx_buf, nextOut>>  BY <1>2 DEF WriteChunk, Held
<1>3. QED  BY <1>1, <1>2

LEMMA WriteLookChunk == ASSUME Types, WriteLook PROVE WriteChunk'
<1> DEFINE n == Min2(FreeRun(tx_in, tx_out), call.count)
<1>1. call \in Calls /\ tx_in \in Index /\ tx_out \in Index  BY DEF Types, TypeOK
<1>2. CASE call.count > 0 /\ n > 0
  <2>1. call.count \in 0..MaxCount /\ MaxCount \in Nat  BY <1>1, ConsoleAssumption DEF Calls
  <2>2. /\ FreeRun(tx_in, tx_out) \in Nat /\ tx_in + FreeRun(tx_in, tx_out) <= BufLen
        /\ FreeRun(tx_in, tx_out) + Held(tx_in, tx_out) < BufLen
    BY <1>1, Runs
  <2>3. n \in 0..call.count /\ n \in 0..MaxCount /\ n <= FreeRun(tx_in, tx_out)  BY <2>1, <2>2, Shortest
  <2>4. pc' = "w_fill" /\ call' = [call EXCEPT !.n = n] /\ UNCHANGED <<tx_in, tx_out>>
    BY <1>2 DEF WriteLook, driver
  <2>5. Held(tx_in, tx_out) \in Index  BY <1>1, HeldIs
  <2> HIDE DEF n
  <2>6. call'.n = n /\ call'.count = call.count  BY <1>1, <2>4 DEF Calls
  <2>7. n \in 1..call.count  BY <1>2, <2>1, <2>3
  <2>8. tx_in + n <= BufLen /\ n + Held(tx_in, tx_out) < BufLen
    BY <1>1, <2>2, <2>3, <2>5, <2>7, Modulus DEF Index
  <2>9. Held(tx_in, tx_out)' = Held(tx_in, tx_out)  BY <2>4 DEF Held
  <2>10. QED  BY <2>4, <2>6, <2>7, <2>8, <2>9 DEF WriteChunk
<1>3. CASE ~(call.count > 0 /\ n > 0)
  <2>1. pc' = "w_kick"  BY <1>3 DEF WriteLook
  <2>2. QED  BY <2>1 DEF WriteChunk
<1>4. QED  BY <1>2, <1>3

LEMMA WriteFillChunk == ASSUME Types, WriteChunk, WriteFill PROVE WriteChunk'
<1>1. call \in Calls /\ tx_in \in Index /\ nextOut \in Byte  BY DEF Types, TypeOK, Byte
<1>2. call.n \in 1..call.count /\ tx_in + call.n <= BufLen /\ call.n + Held(tx_in, tx_out) < BufLen
  BY DEF WriteChunk, WriteFill, At
<1>3. UNCHANGED <<call, tx_in, tx_out, nextOut>>  BY DEF WriteFill, Goto
<1>4. ASSUME NEW k \in 0..(call.n - 1)
      PROVE  tx_buf'[tx_in + k] = (nextOut + k) % Numbers
  <2>1. call.n \in 0..MaxCount /\ MaxCount \in Nat  BY <1>1, ConsoleAssumption DEF Calls
  <2>2. tx_in + k \in Index /\ tx_in + k \in tx_in..(tx_in + call.n - 1)
    BY <1>1, <1>2, <2>1, Modulus DEF Index
  <2>3. tx_buf'[tx_in + k] = (nextOut + (tx_in + k) - tx_in) % Numbers  BY <2>2 DEF WriteFill
  <2>4. nextOut + (tx_in + k) - tx_in = nextOut + k  BY <1>1, <2>1, Modulus DEF Index, Byte
  <2>5. QED  BY <2>3, <2>4
<1>5. Held(tx_in, tx_out)' = Held(tx_in, tx_out)  BY <1>3 DEF Held
<1>6. QED  BY <1>2, <1>3, <1>4, <1>5 DEF WriteChunk

LEMMA TransmitChunk == ASSUME Types, WriteChunk, IsrTransmit PROVE WriteChunk'
<1>1. tx_in \in Index /\ tx_out \in Index /\ call \in Calls  BY DEF Types, TypeOK
<1>2. UNCHANGED <<pc, call, tx_in, tx_buf, nextOut>> /\ tx_out' = Succ(tx_out, 1) /\ tx_out # tx_in
  BY DEF IsrTransmit, ByIsr, numbers
<1>3. Held(tx_in, tx_out) \in Index /\ Held(tx_in, tx_out) # 0  BY <1>1, <1>2, HeldIs, EmptyAndFull
<1>4. Held(tx_in, Succ(tx_out, 1)) = Held(tx_in, tx_out) - 1
  BY <1>1, <1>3, HeldAfter, Modulus DEF Index
<1>5. Held(tx_in, tx_out)' = Held(tx_in, tx_out) - 1  BY <1>2, <1>4 DEF Held
<1>6. call.n \in 0..MaxCount /\ MaxCount \in Nat  BY <1>1, ConsoleAssumption DEF Calls
<1>7. call.n + Held(tx_in, tx_out) < BufLen => call.n + Held(tx_in, tx_out)' < BufLen
  BY <1>3, <1>5, <1>6, Modulus DEF Index
<1>8. QED  BY <1>2, <1>7 DEF WriteChunk

LEMMA WriteChunkStep == ASSUME Types, WriteChunk, [Next]_vars PROVE WriteChunk'
<1>1. CASE CallNext
  <2>1. CASE WriteLook  BY <2>1, WriteLookChunk
  <2>2. CASE WriteFill  BY <2>2, WriteFillChunk
  <2>3. CASE ~WriteLook /\ ~WriteFill
    <3>1. pc' \notin {"w_fill", "w_publish"}
      BY <1>1, <2>3 DEF CallNext, BootIrq, BootTimer, BootUart, BootRegister, BootAlarm, Boot,
         WritePublish, WriteKick, WriteSpin, ReadLook, ReadTake, ReadFree, ReadDecide, ReadSpin,
         ReadEnable, Close, Return, Goto, At
    <3>2. QED  BY <3>1, WriteChunkStays
  <2>4. QED  BY <2>1, <2>2, <2>3
<1>2. CASE Ask
  <2>1. pc' \notin {"w_fill", "w_publish"}  BY <1>2 DEF Ask, Begin, SetTimeout, At
  <2>2. QED  BY <2>1, WriteChunkStays
<1>3. CASE IsrNext
  <2>1. CASE IsrTransmit  BY <2>1, TransmitChunk
  <2>2. CASE ~IsrTransmit
    <3>1. UNCHANGED <<pc, call, tx_in, tx_out, tx_buf, nextOut>>
      BY <1>3, <2>2 DEF IsrNext, Interrupted, Dispatch, IsrControl, IsrReceive, IsrReceiveFull,
         IsrTransmitEnd, IsrTick, ByIsr, numbers, driver
    <3>2. QED  BY <3>1, WriteChunkStays
  <2>3. QED  BY <2>1, <2>2
<1>4. CASE HostSends \/ HostPauses \/ HostTakes \/ HostComesOrGoes \/ Second \/ UNCHANGED vars
  <2>1. UNCHANGED <<pc, call, tx_in, tx_out, tx_buf, nextOut>>
    BY <1>4 DEF HostSends, HostPauses, HostTakes, HostComesOrGoes, Second, vars, software, driver, numbers
  <2>2. QED  BY <2>1, WriteChunkStays
<1>5. QED  BY <1>1, <1>2, <1>3, <1>4 DEF Next

-----------------------------------------------------------------------------
(* The chunk of a read *)

LEMMA ReadChunkStays ==
  ASSUME ReadChunk,
         \/ pc' \notin {"r_take", "r_free"}
         \/ UNCHANGED <<pc, call, rx_in, rx_out, rx_buf>>
  PROVE  ReadChunk'
<1>1. CASE pc' \notin {"r_take", "r_free"}  BY <1>1 DEF ReadChunk
<1>2. CASE UNCHANGED <<pc, call, rx_in, rx_out, rx_buf>>  BY <1>2 DEF ReadChunk, Held
<1>3. QED  BY <1>1, <1>2

LEMMA ReadLookChunk == ASSUME Types, ReadLook PROVE ReadChunk'
<1> DEFINE n == Min2(FullRun(rx_in, rx_out), call.count)
<1>1. call \in Calls /\ rx_in \in Index /\ rx_out \in Index  BY DEF Types, TypeOK
<1>2. CASE n > 0
  <2>1. call.count \in 0..MaxCount /\ MaxCount \in Nat  BY <1>1, ConsoleAssumption DEF Calls
  <2>2. /\ FullRun(rx_in, rx_out) \in Nat /\ rx_out + FullRun(rx_in, rx_out) <= BufLen
        /\ FullRun(rx_in, rx_out) <= Held(rx_in, rx_out)
    BY <1>1, Runs
  <2>3. n \in 0..call.count /\ n \in 0..MaxCount /\ n <= FullRun(rx_in, rx_out)  BY <2>1, <2>2, Shortest
  <2>4. pc' = "r_take" /\ call' = [call EXCEPT !.n = n, !.seen = rx_in] /\ UNCHANGED <<rx_in, rx_out>>
    BY <1>2 DEF ReadLook, driver
  <2>5. Held(rx_in, rx_out) \in Index  BY <1>1, HeldIs
  <2> HIDE DEF n
  <2>6. call'.n = n /\ call'.count = call.count  BY <1>1, <2>4 DEF Calls
  <2>7. n \in 1..call.count  BY <1>2, <2>1, <2>3
  <2>8. rx_out + n <= BufLen /\ n <= Held(rx_in, rx_out)
    BY <1>1, <2>2, <2>3, <2>5, <2>7, Modulus DEF Index
  <2>9. Held(rx_in, rx_out)' = Held(rx_in, rx_out)  BY <2>4 DEF Held
  <2>10. QED  BY <2>4, <2>6, <2>7, <2>8, <2>9 DEF ReadChunk
<1>3. CASE ~(n > 0)
  <2>1. pc' = "r_decide"  BY <1>3 DEF ReadLook
  <2>2. QED  BY <2>1 DEF ReadChunk
<1>4. QED  BY <1>2, <1>3

LEMMA ReadTakeChunk == ASSUME Types, ReadChunk, ReadTake PROVE ReadChunk'
<1> DEFINE g == [k \in 1..call.n |-> rx_buf[rx_out + k - 1]]
<1>1. call \in Calls  BY DEF Types
<1>2. call.n \in 1..call.count /\ rx_out + call.n <= BufLen /\ call.n <= Held(rx_in, rx_out)
  BY DEF ReadChunk, ReadTake, At
<1>3. UNCHANGED <<rx_in, rx_out, rx_buf>> /\ call' = [call EXCEPT !.got = g]  BY DEF ReadTake, driver
<1>4. Held(rx_in, rx_out)' = Held(rx_in, rx_out)  BY <1>3 DEF Held
<1> HIDE DEF g
<1>5. call'.n = call.n /\ call'.count = call.count /\ call'.got = g  BY <1>1, <1>3 DEF Calls
<1>6. call'.got = [k \in 1..call'.n |-> rx_buf'[rx_out' + k - 1]]  BY <1>3, <1>5 DEF g
<1>7. QED  BY <1>2, <1>3, <1>4, <1>5, <1>6 DEF ReadChunk

\* The places of a chunk are not the one the routine writes next.
LEMMA BehindTheChunk ==
  ASSUME NEW in \in Index, NEW out \in Index, NEW n \in Nat, out + n <= BufLen, n <= Held(in, out),
         NEW k \in 1..n
  PROVE  out + k - 1 \in Index /\ out + k - 1 # in
<1>1. Held(in, out) = IF in < out THEN in - out + BufLen ELSE in - out  BY HeldIs
<1>2. QED  BY <1>1, Modulus DEF Index

LEMMA ReceiveChunk == ASSUME Types, ReadChunk, IsrReceive, rfifo # <<>> PROVE ReadChunk'
<1>1. rx_in \in Index /\ rx_out \in Index /\ call \in Calls /\ rx_buf \in [Index -> Byte]
  BY DEF Types, TypeOK, Byte
<1>2. /\ UNCHANGED <<pc, call, rx_out>> /\ rx_in' = Succ(rx_in, 1) /\ ~RxFull
      /\ rx_buf' = [rx_buf EXCEPT ![rx_in] = Head(rfifo)]
  BY DEF IsrReceive, ByIsr
<1>3. Held(rx_in, rx_out) \in Index /\ Held(rx_in, rx_out) + 1 < BufLen
  <2>1. Held(rx_in, rx_out) \in Index  BY <1>1, HeldIs
  <2>2. Held(rx_in, rx_out) # BufLen - 1  BY <1>1, <1>2, EmptyAndFull DEF RxFull
  <2>3. QED  BY <2>1, <2>2, Modulus DEF Index
<1>4. Held(Succ(rx_in, 1), rx_out) = Held(rx_in, rx_out) + 1  BY <1>1, <1>3, HeldAfter
<1>5. Held(rx_in, rx_out)' = Held(rx_in, rx_out) + 1  BY <1>2, <1>4 DEF Held
<1>6. call.n \in Nat  BY <1>1 DEF Calls
<1>7. CASE pc \in {"r_take", "r_free"}
  <2>1. /\ call.n \in 1..call.count /\ rx_out + call.n <= BufLen /\ call.n <= Held(rx_in, rx_out)
        /\ pc = "r_free" => call.got = [k \in 1..call.n |-> rx_buf[rx_out + k - 1]]
    BY <1>7 DEF ReadChunk
  <2>2. \A k \in 1..call.n : rx_buf'[rx_out + k - 1] = rx_buf[rx_out + k - 1]
    <3>1. \A k \in 1..call.n : rx_out + k - 1 \in Index /\ rx_out + k - 1 # rx_in
      BY <1>1, <1>6, <2>1, BehindTheChunk
    <3>2. QED  BY <1>1, <1>2, <3>1
  <2>3. pc = "r_free" => call.got = [k \in 1..call.n |-> rx_buf'[rx_out + k - 1]]  BY <2>1, <2>2
  <2>4. call.n <= Held(rx_in, rx_out)'  BY <1>3, <1>5, <1>6, <2>1, Modulus DEF Index
  <2>5. QED  BY <1>2, <2>1, <2>3, <2>4 DEF ReadChunk
<1>8. CASE pc \notin {"r_take", "r_free"}  BY <1>2, <1>8 DEF ReadChunk
<1>9. QED  BY <1>7, <1>8

LEMMA ReadChunkStep == ASSUME Types, ReadChunk, [Next]_vars PROVE ReadChunk'
<1>1. CASE CallNext
  <2>1. CASE ReadLook  BY <2>1, ReadLookChunk
  <2>2. CASE ReadTake  BY <2>2, ReadTakeChunk
  <2>3. CASE ~ReadLook /\ ~ReadTake
    <3>1. pc' \notin {"r_take", "r_free"}
      BY <1>1, <2>3 DEF CallNext, BootIrq, BootTimer, BootUart, BootRegister, BootAlarm, Boot,
         WriteLook, WriteFill, WritePublish, WriteKick, WriteSpin, ReadFree, ReadDecide, ReadSpin,
         ReadEnable, Close, Return, Goto, At
    <3>2. QED  BY <3>1, ReadChunkStays
  <2>4. QED  BY <2>1, <2>2, <2>3
<1>2. CASE Ask
  <2>1. pc' \notin {"r_take", "r_free"}  BY <1>2 DEF Ask, Begin, SetTimeout, At
  <2>2. QED  BY <2>1, ReadChunkStays
<1>3. CASE IsrNext
  <2>1. CASE IsrReceive /\ rfifo # <<>>  BY <2>1, ReceiveChunk
  <2>2. CASE ~(IsrReceive /\ rfifo # <<>>)
    <3>1. UNCHANGED <<pc, call, rx_in, rx_out, rx_buf>>
      BY <1>3, <2>2 DEF IsrNext, Interrupted, Dispatch, IsrControl, IsrReceive, IsrReceiveFull,
         IsrTransmit, IsrTransmitEnd, IsrTick, ByIsr, driver
    <3>2. QED  BY <3>1, ReadChunkStays
  <2>3. QED  BY <2>1, <2>2
<1>4. CASE HostSends \/ HostPauses \/ HostTakes \/ HostComesOrGoes \/ Second \/ UNCHANGED vars
  <2>1. UNCHANGED <<pc, call, rx_in, rx_out, rx_buf>>
    BY <1>4 DEF HostSends, HostPauses, HostTakes, HostComesOrGoes, Second, vars, software, driver
  <2>2. QED  BY <2>1, ReadChunkStays
<1>5. QED  BY <1>1, <1>2, <1>3, <1>4 DEF Next

-----------------------------------------------------------------------------
(* The write FIFO and the interrupts *)

LEMMA SpaceStep == ASSUME Types, SpaceIsFree, [Next]_vars, Types' PROVE SpaceIsFree'
<1>1. /\ Len(wfifo) \in Nat /\ isr.space \in 0..FifoDepth /\ FifoDepth \in Nat
      /\ Len(wfifo') \in Nat /\ Len(wfifo') <= FifoDepth /\ Len(wfifo) <= FifoDepth
  <2>1. wfifo \in Seq(Byte) /\ wfifo' \in Seq(Byte)  BY DEF Types
  <2>2. Len(wfifo) \in Nat /\ Len(wfifo') \in Nat  BY <2>1, LenProperties
  <2>3. isr.space \in 0..FifoDepth /\ Len(wfifo) <= FifoDepth  BY DEF Types, TypeOK
  <2>4. Len(wfifo') <= FifoDepth  BY DEF Types, TypeOK
  <2>5. QED  BY <2>2, <2>3, <2>4, Modulus
<1>2. ASSUME isr'.space = 0 PROVE SpaceIsFree'
  BY <1>1, <1>2 DEF SpaceIsFree
<1>3. ASSUME isr'.space = isr.space, Len(wfifo') <= Len(wfifo) PROVE SpaceIsFree'
  BY <1>1, <1>3 DEF SpaceIsFree
<1>4. \A s \in IsrSteps : IsrTo(s) => isr'.space = 0  BY DEF IsrTo, IsrAtStep
<1>5. isr \in [at : IsrSteps, wi : BOOLEAN, space : 0..FifoDepth, avail : BOOLEAN]  BY DEF Types, TypeOK
<1>6. AfterReceive => isr'.space \in {0, isr.space}  BY <1>4, <1>5 DEF AfterReceive, IsrSteps
<1>7. CASE CallNext \/ Ask \/ UNCHANGED vars
  <2>1. isr' = isr /\ wfifo' = wfifo
    BY <1>7 DEF CallNext, BootIrq, BootTimer, BootUart, BootRegister, BootAlarm,
       WriteLook, WriteFill, WritePublish, WriteKick, WriteSpin, ReadLook, ReadTake, ReadFree,
       ReadDecide, ReadSpin, ReadEnable, Close, Ask, Begin, SetTimeout, ByCall, device, vars, software
  <2>2. QED  BY <1>1, <1>3, <2>1
<1>8. CASE HostSends \/ HostPauses \/ HostComesOrGoes \/ Second
  <2>1. isr' = isr /\ wfifo' = wfifo
    BY <1>8 DEF HostSends, HostPauses, HostComesOrGoes, Second, device, software
  <2>2. QED  BY <1>1, <1>3, <2>1
<1>9. CASE HostTakes
  <2>1. isr' = isr /\ wfifo # <<>> /\ wfifo' = Tail(wfifo)  BY <1>9 DEF HostTakes, software
  <2>2. Len(wfifo') = Len(wfifo) - 1  BY <2>1, HeadTailProperties DEF Types
  <2>3. QED  BY <1>1, <1>3, <2>1, <2>2
<1>10. CASE IsrControl
  <2>1. isr'.space \in {0, FifoDepth - Len(wfifo)} /\ wfifo' = wfifo
    BY <1>4, <1>10 DEF IsrControl, IsrSteps, device
  <2>2. QED  BY <1>1, <2>1 DEF SpaceIsFree
<1>11. CASE IsrTransmit
  <2>1. isr.space > 0 /\ Len(wfifo) < FifoDepth  BY <1>1, <1>11 DEF IsrTransmit, SpaceIsFree
  <2>2. isr'.space = isr.space - 1  BY <1>5, <1>11 DEF IsrTransmit
  <2>3. Len(wfifo') = Len(wfifo) + 1
    <3>1. tx_buf[tx_out] \in Byte  BY DEF Types, TypeOK, Byte
    <3>2. wfifo' = Append(wfifo, tx_buf[tx_out])  BY <1>11, <2>1 DEF IsrTransmit, WriteData
    <3>3. QED  BY <3>1, <3>2, AppendProperties DEF Types
  <2>4. QED  BY <1>1, <2>1, <2>2, <2>3 DEF SpaceIsFree
<1>12. CASE IsrReceive
  <2>1. isr'.space \in {0, isr.space} /\ wfifo' = wfifo  BY <1>5, <1>6, <1>12 DEF IsrReceive
  <2>2. QED  BY <1>1, <1>2, <1>3, <2>1
<1>13. CASE IsrReceiveFull
  <2>1. isr'.space \in {0, isr.space} /\ wfifo' = wfifo  BY <1>6, <1>13 DEF IsrReceiveFull, device
  <2>2. QED  BY <1>1, <1>2, <1>3, <2>1
<1>14. CASE Dispatch
  <2>1. isr'.space \in {0, isr.space} /\ wfifo' = wfifo  BY <1>4, <1>14 DEF Dispatch, device, IsrSteps
  <2>2. QED  BY <1>1, <1>2, <1>3, <2>1
<1>15. CASE Interrupted \/ IsrTransmitEnd \/ IsrTick
  <2>1. isr'.space = 0  BY <1>4, <1>15 DEF Interrupted, IsrTransmitEnd, IsrTick, IsrSteps
  <2>2. QED  BY <1>2, <2>1
<1>16. QED
  BY <1>7, <1>8, <1>9, <1>10, <1>11, <1>12, <1>13, <1>14, <1>15 DEF Next, IsrNext

\* Between the exception and the search for the cause nothing takes a request
\* away: only the routines do, and the calls stand still.
LEMMA SpuriousStep == ASSUME Types, NeverSpurious, [Next]_vars PROVE NeverSpurious'
<1>1. ASSUME isr'.at # "entry" PROVE NeverSpurious'  BY <1>1 DEF NeverSpurious
<1>2. \A s \in IsrSteps : IsrTo(s) => isr'.at = s  BY DEF IsrTo, IsrAtStep
<1>3. isr \in [at : IsrSteps, wi : BOOLEAN, space : 0..FifoDepth, avail : BOOLEAN]  BY DEF Types, TypeOK
<1>4. ASSUME UNCHANGED <<isr, handlers, irq_enable, device, timer_irq>> PROVE NeverSpurious'
  BY <1>4 DEF NeverSpurious, Pending, ipen_AE, ipen_AF, device
<1>5. CASE CallNext \/ Ask
  <2>1. isr' = isr /\ isr.at = "none"
    BY <1>5 DEF CallNext, BootIrq, BootTimer, BootUart, BootRegister, BootAlarm, Boot, At,
       WriteLook, WriteFill, WritePublish, WriteKick, WriteSpin, ReadLook, ReadTake, ReadFree,
       ReadDecide, ReadSpin, ReadEnable, Close, Ask, Begin, SetTimeout, ByCall
  <2>2. QED  BY <1>1, <2>1
<1>6. CASE UNCHANGED vars  BY <1>4, <1>6 DEF vars, software, driver
<1>7. CASE HostSends \/ HostPauses \/ HostTakes \/ HostComesOrGoes
  <2>1. isr' = isr /\ handlers' = handlers /\ irq_enable' = irq_enable /\ timer_irq' = timer_irq
    BY <1>7 DEF HostSends, HostPauses, HostTakes, HostComesOrGoes, software, driver
  <2>2. ipen_AE => ipen_AE'
    <3>1. Len(wfifo') <= Len(wfifo) /\ Len(wfifo') \in Nat /\ Len(wfifo) \in Nat
      <4>1. CASE HostTakes
        <5>1. wfifo # <<>> /\ wfifo' = Tail(wfifo)  BY <4>1 DEF HostTakes
        <5>2. QED  BY <5>1, HeadTailProperties DEF Types
      <4>2. CASE wfifo' = wfifo  BY <4>2 DEF Types
      <4>3. QED  BY <1>7, <4>1, <4>2 DEF HostSends, HostPauses, HostComesOrGoes, device
    <3>2. QED  BY <2>1, <3>1, ConsoleAssumption DEF ipen_AE
  <2>3. ipen_AF => ipen_AF'
    <3>1. Len(rfifo') >= Len(rfifo) /\ Len(rfifo') \in Nat /\ Len(rfifo) \in Nat
      <4>1. CASE HostSends
        <5>1. rfifo' = Append(rfifo, nextIn) /\ nextIn \in Byte
          BY <4>1 DEF HostSends, Types, TypeOK, Byte
        <5>2. QED  BY <5>1, AppendProperties DEF Types
      <4>2. CASE rfifo' = rfifo  BY <4>2 DEF Types
      <4>3. QED  BY <1>7, <4>1, <4>2 DEF HostPauses, HostTakes, HostComesOrGoes, device
    <3>2. pause_irq => pause_irq'
      BY <1>7 DEF HostSends, HostPauses, HostTakes, HostComesOrGoes, device
    <3>3. QED  BY <2>1, <3>1, <3>2, Modulus, ConsoleAssumption DEF ipen_AF
  <2>4. Pending \subseteq Pending'
    <3> HIDE DEF ipen_AE, ipen_AF
    <3>1. QED  BY <2>1, <2>2, <2>3, Zenon DEF Pending
  <2>5. QED  BY <2>1, <2>4 DEF NeverSpurious
<1>8. CASE Second
  <2>1. isr' = isr /\ isr.at = "none"  BY <1>8 DEF Second, software
  <2>2. QED  BY <1>1, <2>1
<1>9. CASE Interrupted
  <2>1. Pending' = Pending
    BY <1>9 DEF Interrupted, Pending, ipen_AE, ipen_AF, ByIsr, driver, device
  <2>2. QED  BY <1>9, <2>1 DEF Interrupted, NeverSpurious
<1>10. CASE Dispatch
  <2>1. \/ isr'.at # "entry"
        \/ isr' = isr
    BY <1>2, <1>10 DEF Dispatch, IsrSteps
  <2>2. QED  BY <1>1, <1>4, <1>10, <2>1 DEF Dispatch, ByIsr, driver
<1>11. CASE IsrControl \/ IsrReceive \/ IsrReceiveFull \/ IsrTransmit \/ IsrTransmitEnd \/ IsrTick
  <2>1. isr'.at # "entry"
    <3>1. AfterReceive => isr'.at # "entry"  BY <1>2, <1>3 DEF AfterReceive, IsrSteps
    <3>2. CASE IsrControl  BY <1>2, <3>2 DEF IsrControl, IsrSteps
    <3>3. CASE IsrReceive  BY <1>3, <3>1, <3>3 DEF IsrReceive, IsrAt
    <3>4. CASE IsrReceiveFull  BY <3>1, <3>4 DEF IsrReceiveFull
    <3>5. CASE IsrTransmit  BY <1>3, <3>5 DEF IsrTransmit, IsrAt
    <3>6. CASE IsrTransmitEnd \/ IsrTick  BY <1>2, <3>6 DEF IsrTransmitEnd, IsrTick, IsrSteps
    <3>7. QED  BY <1>11, <3>2, <3>3, <3>4, <3>5, <3>6
  <2>2. QED  BY <1>1, <2>1
<1>12. QED
  BY <1>5, <1>6, <1>7, <1>8, <1>9, <1>10, <1>11 DEF Next, IsrNext

-----------------------------------------------------------------------------
\* ConsoleInv is inductive.
\* The chunk of a call, the space of the routine, the types and NeverSpurious hold
\* together: ConsoleInv is inductive.
THEOREM SpecInv == Spec => []ConsoleInv
<1>1. Init => ConsoleInv
  <2> SUFFICES ASSUME Init PROVE ConsoleInv  OBVIOUS
  <2>1. Types  BY TypesInit
  <2>2. WriteChunk /\ ReadChunk  BY DEF Init, WriteChunk, ReadChunk
  <2>3. isr.space = 0 /\ isr.at = "none" /\ Len(wfifo) = 0  BY DEF Init, IsrAtStep
  <2>4. QED  BY <2>1, <2>2, <2>3, Modulus DEF ConsoleInv, Types, SpaceIsFree, NeverSpurious
<1>2. ConsoleInv /\ [Next]_vars => ConsoleInv'
  <2> SUFFICES ASSUME ConsoleInv, [Next]_vars PROVE ConsoleInv'  OBVIOUS
  <2>1. Types /\ WriteChunk /\ ReadChunk  BY DEF ConsoleInv, Types
  <2>2. Types'
    <3>1. CASE UNCHANGED vars
      BY <2>1, <3>1 DEF vars, software, driver, device, numbers, Types, TypeOK
    <3>2. CASE Next
      BY <2>1, <3>2, TypesBoot, TypesWrite, TypesRead, TypesAsk, TypesIsr, TypesHost DEF Next, CallNext
    <3>3. QED  BY <3>1, <3>2
  <2>3. WriteChunk'  BY <2>1, WriteChunkStep
  <2>4. ReadChunk'  BY <2>1, ReadChunkStep
  <2>5. SpaceIsFree'  BY <2>1, <2>2, SpaceStep DEF ConsoleInv
  <2>6. NeverSpurious'  BY <2>1, SpuriousStep DEF ConsoleInv
  <2>7. QED  BY <2>2, <2>3, <2>4, <2>5, <2>6 DEF ConsoleInv, Types
<1>3. QED  BY <1>1, <1>2, PTL DEF Spec

-----------------------------------------------------------------------------
(* The ring buffers as sequences *)

LEMMA RingIs ==
  ASSUME NEW buf \in [Index -> Byte], NEW in \in Index, NEW out \in Index
  PROVE  /\ Ring(buf, in, out) \in Seq(Byte) /\ Len(Ring(buf, in, out)) = Held(in, out)
         /\ \A k \in 1..Held(in, out) :
              Succ(out, k - 1) \in Index /\ Ring(buf, in, out)[k] = buf[Succ(out, k - 1)]
<1> DEFINE h == Held(in, out)
<1>1. h \in Index /\ h \in Nat  BY HeldIs, Modulus DEF Index
<1>2. Ring(buf, in, out) = [k \in 1..h |-> buf[Succ(out, k - 1)]]  BY DEF Ring, Held
<1> HIDE DEF h
<1>3. \A k \in 1..h : Succ(out, k - 1) \in Index
  <2>1. \A k \in 1..h : k - 1 \in 0..BufLen  BY <1>1, Modulus DEF Index
  <2>2. QED  BY <2>1, SuccIs
<1>4. \A k \in 1..h : buf[Succ(out, k - 1)] \in Byte  BY <1>3
<1>5. [k \in 1..h |-> buf[Succ(out, k - 1)]] \in Seq(Byte)  BY <1>1, <1>4
<1>6. Len([k \in 1..h |-> buf[Succ(out, k - 1)]]) = h  BY <1>1
<1>7. QED  BY <1>2, <1>3, <1>5, <1>6 DEF h

\* DriverSound: the pointers stay in their buffers, the dispatcher never searches an
\* empty set of interrupts, and what read copied is the head of the buffer.
THEOREM SpecDriverSound == Spec => []DriverSound
<1>1. ConsoleInv => DriverSound
  <2> SUFFICES ASSUME ConsoleInv PROVE CopiedIsHead  BY DEF ConsoleInv, DriverSound
  <2> SUFFICES ASSUME pc = "r_free"
               PROVE  /\ call.n <= Len(Ring(rx_buf, rx_in, rx_out))
                      /\ call.got = SubSeq(Ring(rx_buf, rx_in, rx_out), 1, call.n)
    BY DEF CopiedIsHead
  <2> DEFINE head == Ring(rx_buf, rx_in, rx_out)  h == Held(rx_in, rx_out)  n == call.n
             g == [k \in 1..n |-> rx_buf[rx_out + k - 1]]
  <2>1. /\ rx_buf \in [Index -> Byte] /\ rx_in \in Index /\ rx_out \in Index /\ n \in Nat
    <3>1. TypeOK  BY DEF ConsoleInv
    <3>2. rx_buf \in [Index -> Byte] /\ rx_in \in Index /\ rx_out \in Index  BY <3>1 DEF TypeOK, Byte
    <3>3. call.n \in 0..MaxCount  BY <3>1 DEF TypeOK
    <3> HIDE DEF head, h, g
    <3>4. QED  BY <3>2, <3>3
  <2>2. rx_out + n <= BufLen /\ n <= h /\ call.got = g  BY DEF ConsoleInv, ReadChunk
  <2>3. /\ head \in Seq(Byte) /\ Len(head) = h
        /\ \A k \in 1..h : Succ(rx_out, k - 1) \in Index /\ head[k] = rx_buf[Succ(rx_out, k - 1)]
    BY <2>1, RingIs
  <2>4. h \in Nat /\ h \in Index  BY <2>1, HeldIs, Modulus
  <2>5. \A k \in 1..n : head[k] = rx_buf[rx_out + k - 1]
    <3> SUFFICES ASSUME NEW k \in 1..n PROVE head[k] = rx_buf[rx_out + k - 1]  OBVIOUS
    <3> HIDE DEF head, h, n, g
    <3>1. k \in 1..h /\ k - 1 \in 0..BufLen /\ rx_out + (k - 1) < BufLen
      BY <2>1, <2>2, <2>4, Modulus DEF Index
    <3>2. Succ(rx_out, k - 1) = rx_out + (k - 1)  BY <2>1, <3>1, SuccIs
    <3>3. rx_out + (k - 1) = rx_out + k - 1  BY <2>1, <2>4, <3>1, Modulus DEF Index
    <3>4. QED  BY <2>3, <3>1, <3>2, <3>3
  <2> HIDE DEF head, h, n
  <2>6. /\ SubSeq(head, 1, n) \in Seq(Byte) /\ Len(SubSeq(head, 1, n)) = n
        /\ \A k \in 1..n : SubSeq(head, 1, n)[k] = head[k]
    BY <2>1, <2>2, <2>3, <2>4, SubSeqProperties
  <2>7. g \in Seq(Byte) /\ Len(g) = n /\ \A k \in 1..n : g[k] = head[k]
    <3>1. \A k \in 1..n : rx_buf[rx_out + k - 1] \in Byte
      <4>1. \A k \in 1..n : head[k] \in Byte  BY <2>2, <2>3, <2>4, <2>1
      <4>2. QED  BY <4>1, <2>5
    <3>2. QED  BY <2>1, <2>5, <3>1
  <2> HIDE DEF g
  <2>8. g = SubSeq(head, 1, n)  BY <2>1, <2>6, <2>7, SeqEqual
  <2>9. QED  BY <2>2, <2>3, <2>8 DEF head, h, n
<1>2. QED  BY <1>1, SpecInv, PTL

LEMMA SuccSucc ==
  ASSUME NEW i \in Index, NEW a \in 0..BufLen, NEW b \in 0..BufLen, a + b <= BufLen
  PROVE  Succ(Succ(i, a), b) = Succ(i, a + b)
<1>1. Succ(i, a) \in Index /\ Succ(i, a) = IF i + a < BufLen THEN i + a ELSE i + a - BufLen  BY SuccIs
<1>2. Succ(Succ(i, a), b) =
        IF Succ(i, a) + b < BufLen THEN Succ(i, a) + b ELSE Succ(i, a) + b - BufLen
  BY <1>1, SuccIs
<1> DEFINE c == a + b
<1>3. c \in 0..BufLen  BY Modulus
<1>4. Succ(i, c) = IF i + c < BufLen THEN i + c ELSE i + c - BufLen  BY <1>3, SuccIs
<1>5. QED  BY <1>1, <1>2, <1>4, Modulus DEF Index

\* The places after the bytes held are those from the in pointer on.
LEMMA SuccHeld ==
  ASSUME NEW in \in Index, NEW out \in Index, NEW j \in Nat, Held(in, out) + j <= BufLen
  PROVE  Succ(out, Held(in, out) + j) = Succ(in, j)
<1> DEFINE h == Held(in, out)  c == h + j
<1>1. h \in Index /\ h = IF in < out THEN in - out + BufLen ELSE in - out  BY HeldIs
<1>2. c \in 0..BufLen /\ j \in 0..BufLen  BY <1>1, Modulus DEF Index
<1>3. Succ(out, c) = IF out + c < BufLen THEN out + c ELSE out + c - BufLen  BY <1>2, SuccIs
<1>4. Succ(in, j) = IF in + j < BufLen THEN in + j ELSE in + j - BufLen  BY <1>2, SuccIs
<1> HIDE DEF h
<1>5. Succ(out, c) = Succ(in, j)  BY <1>1, <1>2, <1>3, <1>4, Modulus DEF Index
<1>6. QED  BY <1>5 DEF h

\* No byte held lies in the places a write fills.
LEMMA HeldApart ==
  ASSUME NEW in \in Index, NEW out \in Index, NEW n \in Nat, in + n <= BufLen, n + Held(in, out) < BufLen,
         NEW k \in 1..Held(in, out)
  PROVE  Succ(out, k - 1) \notin in..(in + n - 1)
<1>1. Held(in, out) \in Index /\ Held(in, out) = IF in < out THEN in - out + BufLen ELSE in - out  BY HeldIs
<1> DEFINE j == k - 1
<1>2. j \in 0..BufLen /\ j < Held(in, out)  BY <1>1, Modulus DEF Index
<1>3. Succ(out, j) = IF out + j < BufLen THEN out + j ELSE out + j - BufLen  BY <1>2, SuccIs
<1>4. QED  BY <1>1, <1>2, <1>3, Modulus DEF Index

\* Only the places that hold bytes matter.
LEMMA RingSame ==
  ASSUME NEW b \in [Index -> Byte], NEW c \in [Index -> Byte], NEW in \in Index, NEW out \in Index,
         \A k \in 1..Held(in, out) : c[Succ(out, k - 1)] = b[Succ(out, k - 1)]
  PROVE  Ring(c, in, out) = Ring(b, in, out)
<1> DEFINE s == Ring(b, in, out)  t == Ring(c, in, out)
<1>1. /\ s \in Seq(Byte) /\ Len(s) = Held(in, out)
      /\ \A k \in 1..Held(in, out) : s[k] = b[Succ(out, k - 1)]
  BY RingIs
<1>2. /\ t \in Seq(Byte) /\ Len(t) = Held(in, out)
      /\ \A k \in 1..Held(in, out) : t[k] = c[Succ(out, k - 1)]
  BY RingIs
<1> HIDE DEF s, t
<1>3. \A k \in 1..Len(t) : t[k] = s[k]  BY <1>1, <1>2
<1>4. t = s  BY <1>1, <1>2, <1>3, SeqEqual
<1>5. QED  BY <1>4 DEF s, t

\* The out pointer moves past n bytes.
LEMMA RingDrop ==
  ASSUME NEW b \in [Index -> Byte], NEW in \in Index, NEW out \in Index, NEW n \in Nat, n <= Held(in, out)
  PROVE  /\ Succ(out, n) \in Index
         /\ Ring(b, in, Succ(out, n)) = SubSeq(Ring(b, in, out), n + 1, Len(Ring(b, in, out)))
<1> DEFINE h == Held(in, out)  s == Ring(b, in, out)  o == Succ(out, n)  t == Ring(b, in, o)
           u == SubSeq(s, n + 1, h)
<1>1. h \in Index /\ h \in Nat  BY HeldIs, Modulus DEF Index
<1>2. o \in Index /\ Held(in, o) = h - n  BY HeldAfter
<1>3. s \in Seq(Byte) /\ Len(s) = h /\ \A k \in 1..h : s[k] = b[Succ(out, k - 1)]  BY RingIs
<1>4. /\ t \in Seq(Byte) /\ Len(t) = Held(in, o)
      /\ \A k \in 1..Held(in, o) : t[k] = b[Succ(o, k - 1)]
  <2> HIDE DEF o
  <2>1. QED  BY <1>2, RingIs
<1> HIDE DEF s, t, h
<1>5. /\ u \in Seq(Byte) /\ Len(u) = h - n
      /\ \A k \in 1..(h - n) : u[k] = s[n + k]
  <2>1. \A i \in (n + 1)..h : s[i] \in Byte  BY <1>1, <1>3
  <2>2. /\ u \in Seq(Byte) /\ Len(u) = IF n + 1 <= h THEN h - (n + 1) + 1 ELSE 0
        /\ \A k \in 1..(h - (n + 1) + 1) : u[k] = s[n + 1 + k - 1]
    BY <1>1, <2>1, SubSeqProperties
  <2>3. n <= h  BY DEF h
  <2> HIDE DEF u
  <2>4. QED  BY <1>1, <2>2, <2>3
<1>6. ASSUME NEW k \in 1..(h - n) PROVE t[k] = u[k]
  <2>1. k - 1 \in 0..BufLen /\ n \in 0..BufLen /\ n + (k - 1) <= BufLen /\ n + k \in 1..h
    BY <1>1, <1>6, Modulus DEF Index
  <2>2. Succ(o, k - 1) = Succ(out, n + (k - 1))  BY <2>1, SuccSucc
  <2>3. n + (k - 1) = n + k - 1  BY <1>1
  <2>4. s[n + k] = b[Succ(out, n + k - 1)]  BY <1>3, <2>1
  <2> HIDE DEF o, u
  <2>5. QED  BY <1>2, <1>4, <1>5, <2>2, <2>3, <2>4
<1> HIDE DEF o, u
<1>7. t = u  BY <1>2, <1>4, <1>5, <1>6, SeqEqual
<1>8. QED  BY <1>2, <1>3, <1>7 DEF s, t, u, o

\* The in pointer moves past n places that were filled.
LEMMA RingGrow ==
  ASSUME NEW b \in [Index -> Byte], NEW in \in Index, NEW out \in Index, NEW n \in Nat,
         n + Held(in, out) < BufLen
  PROVE  /\ Succ(in, n) \in Index
         /\ [k \in 1..n |-> b[Succ(in, k - 1)]] \in Seq(Byte)
         /\ Ring(b, Succ(in, n), out) = Ring(b, in, out) \o [k \in 1..n |-> b[Succ(in, k - 1)]]
<1> DEFINE h == Held(in, out)  s == Ring(b, in, out)  i == Succ(in, n)  t == Ring(b, i, out)
           e == [k \in 1..n |-> b[Succ(in, k - 1)]]  u == s \o e
<1>1. h \in Index /\ h \in Nat  BY HeldIs, Modulus DEF Index
<1>2. i \in Index /\ Held(i, out) = h + n
  <2>1. h + n < BufLen  BY <1>1
  <2>2. QED  BY <2>1, HeldAfter
<1>3. s \in Seq(Byte) /\ Len(s) = h /\ \A k \in 1..h : s[k] = b[Succ(out, k - 1)]  BY RingIs
<1>4. /\ t \in Seq(Byte) /\ Len(t) = Held(i, out)
      /\ \A k \in 1..Held(i, out) : t[k] = b[Succ(out, k - 1)]
  <2> HIDE DEF i
  <2>1. QED  BY <1>2, RingIs
<1>5. e \in Seq(Byte) /\ Len(e) = n /\ \A k \in 1..n : e[k] = b[Succ(in, k - 1)]
  <2>1. \A k \in 1..n : k - 1 \in 0..BufLen  BY <1>1, Modulus DEF Index
  <2>2. \A k \in 1..n : Succ(in, k - 1) \in Index  BY <2>1, SuccIs
  <2>3. \A k \in 1..n : b[Succ(in, k - 1)] \in Byte  BY <2>2
  <2>4. QED  BY <2>3
<1> HIDE DEF s, t, e, h
<1>6. /\ u \in Seq(Byte) /\ Len(u) = h + n
      /\ \A k \in 1..(h + n) : u[k] = IF k <= h THEN s[k] ELSE e[k - h]
  <2>1. /\ u \in Seq(Byte) /\ Len(u) = Len(s) + Len(e)
        /\ \A k \in 1..(Len(s) + Len(e)) : u[k] = IF k <= Len(s) THEN s[k] ELSE e[k - Len(s)]
    BY <1>3, <1>5, ConcatProperties
  <2> HIDE DEF u
  <2>2. Len(s) = h /\ Len(e) = n  BY <1>3, <1>5
  <2>3. QED  BY <2>1, <2>2
<1>7. ASSUME NEW k \in 1..(h + n) PROVE t[k] = u[k]
  <2>1. t[k] = b[Succ(out, k - 1)]  BY <1>2, <1>4
  <2>2. CASE k <= h
    <3>1. k \in 1..h  BY <1>1, <2>2
    <3> HIDE DEF u
    <3>2. QED  BY <1>3, <1>6, <2>1, <2>2, <3>1
  <2>3. CASE ~(k <= h)
    <3> DEFINE j == k - h - 1
    <3>1. j \in Nat /\ h + j < BufLen /\ k - h \in 1..n /\ j = k - h - 1 /\ h + j = k - 1
      <4>1. h + n < BufLen /\ BufLen \in Nat  BY <1>1, Modulus DEF h
      <4>2. QED  BY <1>1, <2>3, <4>1
    <3> HIDE DEF j
    <3>2. Succ(out, h + j) = Succ(in, j)
      <4>1. Held(in, out) + j <= BufLen  BY <1>1, <3>1, Modulus DEF h
      <4>2. QED  BY <3>1, <4>1, SuccHeld DEF h
    <3>3. e[k - h] = b[Succ(in, j)]  BY <1>5, <3>1
    <3> HIDE DEF u
    <3>4. QED  BY <1>6, <2>1, <2>3, <3>1, <3>2, <3>3
  <2>4. QED  BY <2>2, <2>3
<1> HIDE DEF u
<1>8. t = u
  <2>1. Len(t) = Len(u)  BY <1>2, <1>4, <1>6
  <2>2. \A k \in 1..Len(t) : t[k] = u[k]  BY <1>6, <1>7, <2>1
  <2>3. QED  BY <1>4, <1>6, <2>1, <2>2, SeqEqual
<1>9. QED  BY <1>2, <1>5, <1>8 DEF s, t, e, u, i, h

-----------------------------------------------------------------------------
(* Sequences in a row *)

\* The first byte of s moves to the end of r.
LEMMA MoveOne ==
  ASSUME NEW r \in Seq(Byte), NEW s \in Seq(Byte), s # <<>>
  PROVE  Append(r, s[1]) \o Tail(s) = r \o s
<1> DEFINE u == Append(r, s[1])  v == Tail(s)
<1>1. Len(s) \in Nat /\ Len(s) > 0 /\ s[1] \in Byte /\ Len(r) \in Nat
  BY LenProperties, EmptySeq
<1>2. /\ u \in Seq(Byte) /\ Len(u) = Len(r) + 1
      /\ \A i \in 1..Len(r) : u[i] = r[i]
      /\ u[Len(r) + 1] = s[1]
  BY <1>1, AppendProperties
<1>3. v \in Seq(Byte) /\ Len(v) = Len(s) - 1 /\ \A i \in 1..Len(v) : v[i] = s[i + 1]
  BY HeadTailProperties
<1> HIDE DEF u, v
<1>4. /\ u \o v \in Seq(Byte) /\ Len(u \o v) = Len(u) + Len(v)
      /\ \A i \in 1..(Len(u) + Len(v)) : (u \o v)[i] = IF i <= Len(u) THEN u[i] ELSE v[i - Len(u)]
  BY <1>2, <1>3, ConcatProperties
<1>5. /\ r \o s \in Seq(Byte) /\ Len(r \o s) = Len(r) + Len(s)
      /\ \A i \in 1..(Len(r) + Len(s)) : (r \o s)[i] = IF i <= Len(r) THEN r[i] ELSE s[i - Len(r)]
  BY ConcatProperties
<1> DEFINE a == Len(r)  b == Len(s)
<1>6. a \in Nat /\ b \in Nat /\ b > 0 /\ Len(u) = a + 1 /\ Len(v) = b - 1 /\ Len(u \o v) = a + b
  BY <1>1, <1>2, <1>3, <1>4
<1>7. ASSUME NEW i \in 1..(a + b) PROVE (u \o v)[i] = (r \o s)[i]
  <2> HIDE DEF a, b
  <2>1. (r \o s)[i] = IF i <= a THEN r[i] ELSE s[i - a]  BY <1>5, <1>7 DEF a, b
  <2>2. (u \o v)[i] = IF i <= a + 1 THEN u[i] ELSE v[i - (a + 1)]
    <3>1. Len(u) + Len(v) = a + b  BY <1>6
    <3>2. QED  BY <1>4, <1>6, <1>7, <3>1
  <2>3. CASE i <= a
    <3>1. i \in 1..a  BY <1>6, <2>3
    <3>2. u[i] = r[i]  BY <1>2, <3>1 DEF a
    <3>3. QED  BY <1>6, <2>1, <2>2, <2>3, <3>2
  <2>4. CASE i = a + 1
    <3>1. u[i] = s[1] /\ i - a = 1  BY <1>2, <1>6, <2>4 DEF a
    <3>2. QED  BY <1>6, <2>1, <2>2, <2>4, <3>1
  <2>5. CASE i > a + 1
    <3> DEFINE j == i - (a + 1)
    <3>1. j \in 1..(b - 1) /\ j + 1 = i - a  BY <1>6, <2>5
    <3>2. v[j] = s[j + 1]  BY <1>3, <1>6, <3>1
    <3> HIDE DEF j
    <3>3. s[i - a] = v[j]  BY <3>1, <3>2
    <3>4. (u \o v)[i] = v[j]  BY <1>6, <2>2, <2>5 DEF j
    <3>5. (r \o s)[i] = s[i - a]  BY <1>6, <2>1, <2>5
    <3>6. QED  BY <3>3, <3>4, <3>5
  <2>6. i <= a \/ i = a + 1 \/ i > a + 1  BY <1>6
  <2>7. QED  BY <2>3, <2>4, <2>5, <2>6
<1>8. u \o v = r \o s
  <2>1. Len(u \o v) = Len(r \o s)  BY <1>5, <1>6
  <2>2. \A i \in 1..Len(u \o v) : (u \o v)[i] = (r \o s)[i]  BY <1>6, <1>7
  <2>3. QED  BY <1>4, <1>5, <2>1, <2>2, SeqEqual
<1>9. QED  BY <1>8 DEF u, v

\* What stays of a sequence without its first n.
LEMMA Rest ==
  ASSUME NEW w \in Seq(Byte), NEW c \in Nat, Len(w) = c, NEW n \in 0..c
  PROVE  /\ SubSeq(w, n + 1, c) \in Seq(Byte) /\ Len(SubSeq(w, n + 1, c)) = c - n
         /\ \A i \in 1..(c - n) : SubSeq(w, n + 1, c)[i] = w[n + i]
<1> DEFINE v == SubSeq(w, n + 1, c)
<1>1. \A i \in (n + 1)..c : w[i] \in Byte
  <2>1. \A i \in (n + 1)..c : i \in 1..Len(w)  OBVIOUS
  <2>2. QED  BY <2>1, ElementOfSeq
<1>2. /\ v \in Seq(Byte) /\ Len(v) = IF n + 1 <= c THEN c - (n + 1) + 1 ELSE 0
      /\ \A i \in 1..(c - (n + 1) + 1) : v[i] = w[n + 1 + i - 1]
  BY <1>1, SubSeqProperties
<1> HIDE DEF v
<1>3. v \in Seq(Byte) /\ Len(v) = c - n /\ \A i \in 1..(c - n) : v[i] = w[n + i]  BY <1>2
<1>4. QED  BY <1>3 DEF v

\* The first n bytes of r leave.
LEMMA DropFirst ==
  ASSUME NEW r \in Seq(Byte), NEW s \in Seq(Byte), NEW a \in Nat, NEW b \in Nat, NEW n \in 0..a,
         Len(r) = a, Len(s) = b
  PROVE  SubSeq(r, n + 1, a) \o s = SubSeq(r \o s, n + 1, a + b)
<1> DEFINE c == a + b  u == SubSeq(r, n + 1, a)  w == r \o s  v == SubSeq(w, n + 1, c)
<1>1. /\ w \in Seq(Byte) /\ Len(w) = c
      /\ \A i \in 1..c : w[i] = IF i <= a THEN r[i] ELSE s[i - a]
  BY ConcatProperties
<1>2. /\ u \in Seq(Byte) /\ Len(u) = a - n /\ \A i \in 1..(a - n) : u[i] = r[n + i]  BY Rest
<1>3. c \in Nat /\ n \in 0..c /\ c = a + b  OBVIOUS
<1> HIDE DEF c, u, w
<1>4. /\ v \in Seq(Byte) /\ Len(v) = c - n /\ \A i \in 1..(c - n) : v[i] = w[n + i]  BY <1>1, <1>3, Rest
<1> HIDE DEF v
<1>5. /\ u \o s \in Seq(Byte) /\ Len(u \o s) = Len(u) + b
      /\ \A i \in 1..(Len(u) + b) : (u \o s)[i] = IF i <= Len(u) THEN u[i] ELSE s[i - Len(u)]
  BY <1>2, ConcatProperties
<1> DEFINE x == u \o s
<1>6. /\ x \in Seq(Byte) /\ Len(x) = c - n
      /\ \A i \in 1..(c - n) : x[i] = IF i <= a - n THEN u[i] ELSE s[i - (a - n)]
  <2>1. Len(u) = a - n /\ Len(u) + b = c - n  BY <1>2, <1>3
  <2>2. QED  BY <1>5, <2>1
<1> HIDE DEF x
<1>7. ASSUME NEW i \in 1..(c - n) PROVE x[i] = v[i]
  <2> DEFINE j == n + i
  <2>1. j \in 1..c /\ j = n + i  BY <1>3
  <2>2. v[i] = w[j]  BY <1>4
  <2> HIDE DEF j
  <2>3. w[j] = IF j <= a THEN r[j] ELSE s[j - a]  BY <1>1, <2>1
  <2>4. x[i] = IF i <= a - n THEN u[i] ELSE s[i - (a - n)]  BY <1>6
  <2>5. CASE i <= a - n
    <3>1. i \in 1..(a - n) /\ j <= a  BY <1>3, <2>1, <2>5
    <3>2. u[i] = r[j]  BY <1>2, <2>1, <3>1
    <3>3. QED  BY <2>2, <2>3, <2>4, <2>5, <3>1, <3>2
  <2>6. CASE ~(i <= a - n)
    <3>1. ~(j <= a) /\ i - (a - n) = j - a  BY <1>3, <2>1, <2>6
    <3>2. QED  BY <2>2, <2>3, <2>4, <2>6, <3>1
  <2>7. QED  BY <2>5, <2>6
<1>8. x = v
  <2>1. \A i \in 1..Len(x) : x[i] = v[i]  BY <1>6, <1>7
  <2>2. Len(x) = Len(v)  BY <1>4, <1>6
  <2>3. QED  BY <1>4, <1>6, <2>1, <2>2, SeqEqual
<1>9. QED  BY <1>8 DEF u, v, w, x, c

-----------------------------------------------------------------------------
(* The two streams *)

\* The bytes on their way to the host and on their way to the firmware.
OutQ == wfifo \o Ring(tx_buf, tx_in, tx_out)
InQ  == Ring(rx_buf, rx_in, rx_out) \o rfifo

LEMMA QueueTypes ==
  ASSUME Types
  PROVE  /\ tx_buf \in [Index -> Byte] /\ tx_in \in Index /\ tx_out \in Index
         /\ rx_buf \in [Index -> Byte] /\ rx_in \in Index /\ rx_out \in Index
         /\ wfifo \in Seq(Byte) /\ Len(wfifo) \in 0..FifoDepth
         /\ rfifo \in Seq(Byte) /\ Len(rfifo) \in 0..FifoDepth
         /\ nextOut \in Byte /\ nextIn \in Byte
         /\ Ring(tx_buf, tx_in, tx_out) \in Seq(Byte)
         /\ Len(Ring(tx_buf, tx_in, tx_out)) = Held(tx_in, tx_out) /\ Held(tx_in, tx_out) \in Index
         /\ Ring(rx_buf, rx_in, rx_out) \in Seq(Byte)
         /\ Len(Ring(rx_buf, rx_in, rx_out)) = Held(rx_in, rx_out) /\ Held(rx_in, rx_out) \in Index
<1>1. /\ tx_buf \in [Index -> Byte] /\ tx_in \in Index /\ tx_out \in Index
      /\ rx_buf \in [Index -> Byte] /\ rx_in \in Index /\ rx_out \in Index
      /\ wfifo \in Seq(Byte) /\ rfifo \in Seq(Byte) /\ nextOut \in Byte /\ nextIn \in Byte
      /\ Len(wfifo) <= FifoDepth /\ Len(rfifo) <= FifoDepth
  BY DEF Types, TypeOK, Byte
<1>2. Len(wfifo) \in 0..FifoDepth /\ Len(rfifo) \in 0..FifoDepth  BY <1>1, Modulus, LenProperties
<1>3. /\ Ring(tx_buf, tx_in, tx_out) \in Seq(Byte)
      /\ Len(Ring(tx_buf, tx_in, tx_out)) = Held(tx_in, tx_out)
  BY <1>1, RingIs
<1>4. /\ Ring(rx_buf, rx_in, rx_out) \in Seq(Byte)
      /\ Len(Ring(rx_buf, rx_in, rx_out)) = Held(rx_in, rx_out)
  BY <1>1, RingIs
<1>5. Held(tx_in, tx_out) \in Index /\ Held(rx_in, rx_out) \in Index  BY <1>1, HeldIs
<1>6. QED  BY <1>1, <1>2, <1>3, <1>4, <1>5

LEMMA QueuesAre ==
  ASSUME Types
  PROVE  /\ OutQ \in Seq(Byte) /\ Len(OutQ) = Len(wfifo) + Held(tx_in, tx_out)
         /\ InQ \in Seq(Byte) /\ Len(InQ) = Held(rx_in, rx_out) + Len(rfifo)
<1>1. /\ wfifo \in Seq(Byte) /\ Ring(tx_buf, tx_in, tx_out) \in Seq(Byte)
      /\ Len(Ring(tx_buf, tx_in, tx_out)) = Held(tx_in, tx_out)
      /\ rfifo \in Seq(Byte) /\ Ring(rx_buf, rx_in, rx_out) \in Seq(Byte)
      /\ Len(Ring(rx_buf, rx_in, rx_out)) = Held(rx_in, rx_out)
  BY QueueTypes
<1>2. OutQ \in Seq(Byte) /\ Len(OutQ) = Len(wfifo) + Len(Ring(tx_buf, tx_in, tx_out))
  BY <1>1, ConcatProperties DEF OutQ
<1>3. InQ \in Seq(Byte) /\ Len(InQ) = Len(Ring(rx_buf, rx_in, rx_out)) + Len(rfifo)
  BY <1>1, ConcatProperties DEF InQ
<1>4. QED  BY <1>1, <1>2, <1>3

\* The bytes numbered from next on.
Numbered(next, n) == [i \in 1..n |-> (next + i - 1) % Numbers]

LEMMA OutEnters ==
  ASSUME NEW n \in 1..(Numbers - 1 - Len(OutQ)), nextOut' = (nextOut + n) % Numbers,
         OutQ' = OutQ \o Numbered(nextOut, n), UNCHANGED <<nextIn, InQ>>
  PROVE  Stream!Next
BY DEF Stream!Next, Stream!Enter, Stream!Longer, OutQ, InQ, Numbered

LEMMA OutLeaves ==
  ASSUME NEW n \in 1..Len(OutQ), OutQ' = SubSeq(OutQ, n + 1, Len(OutQ)), UNCHANGED <<nextOut, nextIn, InQ>>
  PROVE  Stream!Next
<1> DEFINE s == [next |-> nextOut, queue |-> OutQ]
<1>1. s' = [s EXCEPT !.queue = SubSeq(OutQ, n + 1, Len(OutQ))]
  <2> DEFINE rest == SubSeq(OutQ, n + 1, Len(OutQ))
  <2> HIDE DEF rest
  <2>1. s' = [next |-> nextOut, queue |-> rest]  BY DEF rest
  <2>2. [s EXCEPT !.queue = rest] = [next |-> nextOut, queue |-> rest]  OBVIOUS
  <2>3. QED  BY <2>1, <2>2 DEF rest
<1>2. s.queue = OutQ  OBVIOUS
<1> HIDE DEF s
<1>3. s' = [s EXCEPT !.queue = SubSeq(@, n + 1, Len(@))]  BY <1>1, <1>2
<1>4. \E m \in 1..Len(s.queue) : s' = [s EXCEPT !.queue = SubSeq(@, m + 1, Len(@))]  BY <1>2, <1>3
<1>5. Stream!Leave(s, s')  BY <1>4 DEF Stream!Leave, Stream!Shorter
<1>6. QED  BY <1>5 DEF Stream!Next, s, OutQ, InQ

LEMMA InEnters ==
  ASSUME NEW n \in 1..(Numbers - 1 - Len(InQ)), nextIn' = (nextIn + n) % Numbers,
         InQ' = InQ \o Numbered(nextIn, n), UNCHANGED <<nextOut, OutQ>>
  PROVE  Stream!Next
BY DEF Stream!Next, Stream!Enter, Stream!Longer, OutQ, InQ, Numbered

LEMMA InLeaves ==
  ASSUME NEW n \in 1..Len(InQ), InQ' = SubSeq(InQ, n + 1, Len(InQ)), UNCHANGED <<nextOut, nextIn, OutQ>>
  PROVE  Stream!Next
<1> DEFINE s == [next |-> nextIn, queue |-> InQ]
<1>1. s' = [s EXCEPT !.queue = SubSeq(InQ, n + 1, Len(InQ))]
  <2> DEFINE rest == SubSeq(InQ, n + 1, Len(InQ))
  <2> HIDE DEF rest
  <2>1. s' = [next |-> nextIn, queue |-> rest]  BY DEF rest
  <2>2. [s EXCEPT !.queue = rest] = [next |-> nextIn, queue |-> rest]  OBVIOUS
  <2>3. QED  BY <2>1, <2>2 DEF rest
<1>2. s.queue = InQ  OBVIOUS
<1> HIDE DEF s
<1>3. s' = [s EXCEPT !.queue = SubSeq(@, n + 1, Len(@))]  BY <1>1, <1>2
<1>4. \E m \in 1..Len(s.queue) : s' = [s EXCEPT !.queue = SubSeq(@, m + 1, Len(@))]  BY <1>2, <1>3
<1>5. Stream!Leave(s, s')  BY <1>4 DEF Stream!Leave, Stream!Shorter
<1>6. QED  BY <1>5 DEF Stream!Next, s, OutQ, InQ

\* The bytes a stream can hold and those of a chunk are fewer than Numbers.
LEMMA RoomForNumbers ==
  ASSUME Types, NEW n \in Nat \ {0}
  PROVE  /\ n + Held(tx_in, tx_out) < BufLen => n \in 1..(Numbers - 1 - Len(OutQ))
         /\ n + Len(rfifo) <= FifoDepth => n \in 1..(Numbers - 1 - Len(InQ))
<1>1. /\ Len(wfifo) \in 0..FifoDepth /\ Held(tx_in, tx_out) \in Index
      /\ Len(rfifo) \in 0..FifoDepth /\ Held(rx_in, rx_out) \in Index
  BY QueueTypes
<1>2. Len(OutQ) = Len(wfifo) + Held(tx_in, tx_out) /\ Len(InQ) = Held(rx_in, rx_out) + Len(rfifo)
  BY QueuesAre
<1>3. QED  BY <1>1, <1>2, Modulus DEF Index

\* WritePublish: the chunk enters the stream to the host.
LEMMA PublishEnters == ASSUME Types, WriteChunk, WritePublish PROVE Stream!Next
<1> DEFINE n == call.n  ring == Ring(tx_buf, tx_in, tx_out)
           chunk == [k \in 1..n |-> tx_buf[Succ(tx_in, k - 1)]]
<1>1. /\ tx_buf \in [Index -> Byte] /\ tx_in \in Index /\ tx_out \in Index /\ wfifo \in Seq(Byte)
      /\ nextOut \in Byte /\ ring \in Seq(Byte)
  BY QueueTypes
<1>2. /\ n \in 1..call.count /\ tx_in + n <= BufLen /\ n + Held(tx_in, tx_out) < BufLen
      /\ \A k \in 0..(n - 1) : tx_buf[tx_in + k] = (nextOut + k) % Numbers
  BY DEF WriteChunk, WritePublish, At
<1>3. n \in Nat \ {0}
  <2>1. call.count \in 0..MaxCount  BY DEF Types, TypeOK
  <2>2. QED  BY <1>2, <2>1
<1>4. /\ tx_in' = Succ(tx_in, n) /\ nextOut' = (nextOut + n) % Numbers
      /\ UNCHANGED <<tx_buf, tx_out, wfifo, rfifo, rx_buf, rx_in, rx_out, nextIn>>
  BY DEF WritePublish, ByCall, device
<1> HIDE DEF n
<1>5. chunk \in Seq(Byte) /\ Ring(tx_buf, Succ(tx_in, n), tx_out) = ring \o chunk
  BY <1>1, <1>2, <1>3, RingGrow
<1>6. chunk = Numbered(nextOut, n)
  <2>1. ASSUME NEW k \in 1..n PROVE tx_buf[Succ(tx_in, k - 1)] = (nextOut + k - 1) % Numbers
    <3> DEFINE j == k - 1
    <3>1. j \in 0..(n - 1) /\ j \in 0..BufLen /\ tx_in + j < BufLen  BY <1>1, <1>2, <1>3, Modulus DEF Index
    <3>2. nextOut + j = nextOut + k - 1  BY <1>1, <1>3, Modulus DEF Byte
    <3> HIDE DEF j
    <3>3. Succ(tx_in, j) = tx_in + j  BY <1>1, <3>1, SuccIs
    <3>4. tx_buf[tx_in + j] = (nextOut + j) % Numbers  BY <1>2, <3>1
    <3>5. tx_buf[Succ(tx_in, j)] = (nextOut + k - 1) % Numbers  BY <3>2, <3>3, <3>4
    <3>6. QED  BY <3>5 DEF j
  <2>2. QED  BY <2>1, Zenon DEF Numbered
<1> HIDE DEF chunk, ring
<1>7. OutQ' = wfifo \o (ring \o chunk)  BY <1>4, <1>5 DEF OutQ
<1>8. wfifo \o (ring \o chunk) = (wfifo \o ring) \o chunk  BY <1>1, <1>5, ConcatAssociative
<1>9. OutQ' = OutQ \o Numbered(nextOut, n)  BY <1>6, <1>7, <1>8 DEF OutQ, ring
<1>10. n \in 1..(Numbers - 1 - Len(OutQ))  BY <1>2, <1>3, RoomForNumbers
<1>11. UNCHANGED <<nextIn, InQ>>  BY <1>4 DEF InQ
<1>12. QED  BY <1>4, <1>9, <1>10, <1>11, OutEnters

\* WriteFill: only free places are written.
LEMMA FillKeeps == ASSUME Types, Types', WriteChunk, WriteFill PROVE UNCHANGED <<OutQ, InQ, nextOut, nextIn>>
<1> DEFINE n == call.n
<1>1. tx_buf \in [Index -> Byte] /\ tx_in \in Index /\ tx_out \in Index /\ tx_buf' \in [Index -> Byte]
  BY DEF Types, TypeOK, Byte
<1>2. n \in 1..call.count /\ tx_in + n <= BufLen /\ n + Held(tx_in, tx_out) < BufLen
  BY DEF WriteChunk, WriteFill, At
<1>3. n \in Nat
  <2>1. call.count \in 0..MaxCount  BY DEF Types, TypeOK
  <2>2. QED  BY <1>2, <2>1
<1>4. /\ \A i \in Index : i \notin tx_in..(tx_in + n - 1) => tx_buf'[i] = tx_buf[i]
      /\ UNCHANGED <<tx_in, tx_out, wfifo, rfifo, rx_buf, rx_in, rx_out, nextOut, nextIn>>
  BY DEF WriteFill, ByCall, device
<1> HIDE DEF n
<1>5. \A k \in 1..Held(tx_in, tx_out) : Succ(tx_out, k - 1) \notin tx_in..(tx_in + n - 1)
  BY <1>1, <1>2, <1>3, HeldApart
<1>6. \A k \in 1..Held(tx_in, tx_out) : Succ(tx_out, k - 1) \in Index  BY <1>1, RingIs
<1>7. \A k \in 1..Held(tx_in, tx_out) : tx_buf'[Succ(tx_out, k - 1)] = tx_buf[Succ(tx_out, k - 1)]
  BY <1>4, <1>5, <1>6, Zenon
<1>8. Ring(tx_buf', tx_in, tx_out) = Ring(tx_buf, tx_in, tx_out)  BY <1>1, <1>7, RingSame
<1>9. QED  BY <1>4, <1>8 DEF OutQ, InQ

\* HostTakes: the oldest byte leaves.
LEMMA TakesLeaves == ASSUME Types, HostTakes PROVE Stream!Next
<1> DEFINE ring == Ring(tx_buf, tx_in, tx_out)  a == Len(wfifo)  b == Held(tx_in, tx_out)
<1>1. wfifo \in Seq(Byte) /\ ring \in Seq(Byte) /\ Len(ring) = b /\ a \in Nat /\ b \in Nat
  BY QueueTypes, Modulus
<1>2. /\ wfifo # <<>> /\ wfifo' = Tail(wfifo)
      /\ UNCHANGED <<tx_buf, tx_in, tx_out, rfifo, rx_buf, rx_in, rx_out, nextOut, nextIn>>
  BY DEF HostTakes, software, driver, numbers
<1>3. Tail(wfifo) = SubSeq(wfifo, 1 + 1, a)  BY <1>1, <1>2, TailIsSubSeq
<1>4. 1 \in 0..a /\ 1 <= a  BY <1>1, <1>2, EmptySeq
<1>5. Len(OutQ) = a + b  BY QueuesAre
<1> HIDE DEF ring, b
<1>6. SubSeq(wfifo, 1 + 1, a) \o ring = SubSeq(wfifo \o ring, 1 + 1, a + b)  BY <1>1, <1>4, DropFirst
<1>7. OutQ' = SubSeq(OutQ, 1 + 1, Len(OutQ))  BY <1>2, <1>3, <1>5, <1>6 DEF OutQ, ring
<1>8. 1 \in 1..Len(OutQ)  BY <1>1, <1>4, <1>5
<1>9. UNCHANGED <<nextOut, nextIn, InQ>>  BY <1>2 DEF InQ
<1>10. QED  BY <1>7, <1>8, <1>9, OutLeaves

\* IsrTransmit: a byte goes from the buffer to the FIFO, which has room for it.
LEMMA TransmitKeeps ==
  ASSUME Types, SpaceIsFree, IsrTransmit PROVE UNCHANGED <<OutQ, InQ, nextOut, nextIn>>
<1> DEFINE ring == Ring(tx_buf, tx_in, tx_out)  h == Held(tx_in, tx_out)
<1>1. /\ tx_buf \in [Index -> Byte] /\ tx_in \in Index /\ tx_out \in Index /\ wfifo \in Seq(Byte)
      /\ Len(wfifo) \in 0..FifoDepth /\ ring \in Seq(Byte) /\ Len(ring) = h /\ h \in Nat
  BY QueueTypes, Modulus
<1>2. /\ isr.space > 0 /\ tx_out # tx_in /\ tx_out' = Succ(tx_out, 1)
      /\ wfifo' = IF Len(wfifo) < FifoDepth THEN Append(wfifo, tx_buf[tx_out]) ELSE wfifo
      /\ UNCHANGED <<tx_buf, tx_in, rfifo, rx_buf, rx_in, rx_out, nextOut, nextIn>>
  BY DEF IsrTransmit, WriteData, ByIsr, numbers
<1>3. wfifo' = Append(wfifo, tx_buf[tx_out])
  <2>1. isr.space \in 0..FifoDepth  BY DEF Types, TypeOK
  <2>2. Len(wfifo) < FifoDepth  BY <1>1, <1>2, <2>1, Modulus DEF SpaceIsFree
  <2>3. QED  BY <1>2, <2>2
<1>4. h > 0 /\ 1 \in 1..h /\ 1 <= h
  <2>1. h # 0  BY <1>1, <1>2, EmptyAndFull
  <2>2. QED  BY <1>1, <2>1
<1>5. ring # <<>>  BY <1>1, <1>4, EmptySeq
<1>6. ring[1] = tx_buf[tx_out]
  <2>1. ring[1] = tx_buf[Succ(tx_out, 1 - 1)]  BY <1>1, <1>4, RingIs
  <2>2. Succ(tx_out, 0) = tx_out  BY <1>1, SuccIs, Modulus DEF Index
  <2>3. QED  BY <2>1, <2>2
<1>7. Ring(tx_buf, tx_in, Succ(tx_out, 1)) = SubSeq(ring, 1 + 1, Len(ring))  BY <1>1, <1>4, RingDrop
<1> HIDE DEF ring, h
<1>8. Tail(ring) = SubSeq(ring, 1 + 1, Len(ring))  BY <1>1, <1>5, TailIsSubSeq
<1>9. Append(wfifo, ring[1]) \o Tail(ring) = wfifo \o ring  BY <1>1, <1>5, MoveOne
<1>10. OutQ' = Append(wfifo, ring[1]) \o Tail(ring)  BY <1>2, <1>3, <1>6, <1>7, <1>8 DEF OutQ
<1>11. QED  BY <1>2, <1>9, <1>10 DEF OutQ, InQ, ring

\* IsrReceive: a byte goes from the FIFO to the buffer, which has room for it.
LEMMA ReceiveKeeps ==
  ASSUME Types, Types', IsrReceive PROVE UNCHANGED <<OutQ, InQ, nextOut, nextIn>>
<1>1. UNCHANGED <<tx_buf, tx_in, tx_out, wfifo, rx_out, nextOut, nextIn>>
  BY DEF IsrReceive, ByIsr, numbers
<1>2. CASE rfifo = <<>>
  <2>1. UNCHANGED <<rfifo, rx_in, rx_buf>>  BY <1>2 DEF IsrReceive, ReadData
  <2>2. QED  BY <1>1, <2>1 DEF OutQ, InQ
<1>3. CASE rfifo # <<>>
  <2> DEFINE ring == Ring(rx_buf, rx_in, rx_out)  h == Held(rx_in, rx_out)  b == rx_buf'
             one == [k \in 1..1 |-> b[Succ(rx_in, k - 1)]]
  <2>1. /\ rx_buf \in [Index -> Byte] /\ rx_in \in Index /\ rx_out \in Index /\ rfifo \in Seq(Byte)
        /\ ring \in Seq(Byte) /\ h \in Index /\ h \in Nat
    BY QueueTypes, Modulus
  <2>2. b \in [Index -> Byte]  BY DEF Types, TypeOK, Byte
  <2>3. /\ ~RxFull /\ rfifo' = Tail(rfifo) /\ b = [rx_buf EXCEPT ![rx_in] = Head(rfifo)]
        /\ rx_in' = Succ(rx_in, 1)
    BY <1>3 DEF IsrReceive, ReadData
  <2>4. b[rx_in] = Head(rfifo) /\ \A i \in Index : i # rx_in => b[i] = rx_buf[i]  BY <2>1, <2>3
  <2> HIDE DEF b
  <2>5. 1 + h < BufLen
    <3>1. h # BufLen - 1  BY <2>1, <2>3, EmptyAndFull DEF RxFull
    <3>2. QED  BY <2>1, <3>1, Modulus DEF Index
  <2>6. Ring(b, rx_in, rx_out) = ring
    <3>1. rx_in + 1 <= BufLen  BY <2>1, Modulus DEF Index
    <3>2. \A k \in 1..h : Succ(rx_out, k - 1) \notin rx_in..(rx_in + 1 - 1)  BY <2>1, <2>5, <3>1, HeldApart
    <3>3. rx_in \in rx_in..(rx_in + 1 - 1)  BY <2>1, Modulus DEF Index
    <3>4. \A k \in 1..h : Succ(rx_out, k - 1) \in Index  BY <2>1, RingIs
    <3> HIDE DEF h
    <3>5. \A k \in 1..h : b[Succ(rx_out, k - 1)] = rx_buf[Succ(rx_out, k - 1)]  BY <2>4, <3>2, <3>3, <3>4, Zenon
    <3>6. QED  BY <2>1, <2>2, <3>5, RingSame DEF h
  <2>7. one \in Seq(Byte) /\ Ring(b, Succ(rx_in, 1), rx_out) = Ring(b, rx_in, rx_out) \o one
    <3>1. 1 \in Nat /\ 1 + Held(rx_in, rx_out) < BufLen  BY <2>5
    <3>2. /\ [k \in 1..1 |-> b[Succ(rx_in, k - 1)]] \in Seq(Byte)
          /\ Ring(b, Succ(rx_in, 1), rx_out) = Ring(b, rx_in, rx_out) \o [k \in 1..1 |-> b[Succ(rx_in, k - 1)]]
      BY <2>1, <2>2, <3>1, RingGrow
    <3>3. QED  BY <3>2
  <2>8. one = <<Head(rfifo)>>
    <3>1. Succ(rx_in, 1 - 1) = rx_in  BY <2>1, SuccIs, Modulus DEF Index
    <3>2. one[1] = Head(rfifo) /\ Len(one) = 1  BY <2>4, <3>1
    <3> HIDE DEF one
    <3>3. QED  BY <2>7, <3>2
  <2>9. Head(rfifo) \in Byte /\ Head(rfifo) = rfifo[1]  BY <1>3, <2>1, HeadTailProperties
  <2> HIDE DEF ring, h, one
  <2>10. Append(ring, rfifo[1]) = ring \o <<Head(rfifo)>>  BY <2>1, <2>9, AppendIsConcat
  <2>11. Append(ring, rfifo[1]) \o Tail(rfifo) = ring \o rfifo  BY <1>3, <2>1, MoveOne
  <2>12. InQ' = Append(ring, rfifo[1]) \o Tail(rfifo)
    BY <1>1, <2>3, <2>6, <2>7, <2>8, <2>10 DEF InQ, b
  <2>13. QED  BY <1>1, <2>11, <2>12 DEF OutQ, InQ, ring
<1>4. QED  BY <1>2, <1>3

\* HostSends: a byte enters the stream to the firmware.
LEMMA SendsEnters == ASSUME Types, HostSends PROVE Stream!Next
<1> DEFINE ring == Ring(rx_buf, rx_in, rx_out)
<1>1. rfifo \in Seq(Byte) /\ Len(rfifo) \in Nat /\ ring \in Seq(Byte) /\ nextIn \in Byte
  BY QueueTypes, Modulus
<1>2. /\ Len(rfifo) < FifoDepth /\ rfifo' = Append(rfifo, nextIn) /\ nextIn' = (nextIn + 1) % Numbers
      /\ UNCHANGED <<rx_buf, rx_in, rx_out, wfifo, tx_buf, tx_in, tx_out, nextOut>>
  BY DEF HostSends, software, driver
<1>3. 1 \in 1..(Numbers - 1 - Len(InQ))
  <2>1. 1 + Len(rfifo) <= FifoDepth  BY <1>1, <1>2, Modulus
  <2>2. QED  BY <2>1, RoomForNumbers
<1>4. Numbered(nextIn, 1) = <<nextIn>>
  <2>1. (nextIn + 1 - 1) % Numbers = nextIn
    <3>1. nextIn + 1 - 1 = nextIn /\ nextIn \in Nat /\ nextIn < Numbers  BY <1>1, Modulus DEF Byte
    <3>2. nextIn % Numbers = nextIn  BY <3>1, Modulus
    <3>3. QED  BY <3>1, <3>2
  <2>2. QED  BY <2>1 DEF Numbered
<1> HIDE DEF ring
<1>5. rfifo' = rfifo \o <<nextIn>>  BY <1>1, <1>2, AppendIsConcat
<1>6. <<nextIn>> \in Seq(Byte)  BY <1>1
<1>7. ring \o (rfifo \o <<nextIn>>) = (ring \o rfifo) \o <<nextIn>>  BY <1>1, <1>6, ConcatAssociative
<1>8. InQ' = InQ \o Numbered(nextIn, 1)  BY <1>2, <1>4, <1>5, <1>7 DEF InQ, ring
<1>9. UNCHANGED <<nextOut, OutQ>>  BY <1>2 DEF OutQ
<1>10. QED  BY <1>2, <1>3, <1>8, <1>9, InEnters

\* ReadFree: the chunk leaves.
LEMMA FreeLeaves == ASSUME Types, ReadChunk, ReadFree PROVE Stream!Next
<1> DEFINE ring == Ring(rx_buf, rx_in, rx_out)  a == Held(rx_in, rx_out)  b == Len(rfifo)  n == call.n
<1>1. /\ rx_buf \in [Index -> Byte] /\ rx_in \in Index /\ rx_out \in Index /\ rfifo \in Seq(Byte)
      /\ ring \in Seq(Byte) /\ Len(ring) = a /\ a \in Nat /\ b \in Nat /\ Len(rfifo) = b
  BY QueueTypes, Modulus
<1>2. n \in 1..call.count /\ n <= a  BY DEF ReadChunk, ReadFree, At
<1>3. n \in Nat /\ n \in 0..a /\ n \in 1..(a + b)
  <2>1. call.count \in 0..MaxCount  BY DEF Types, TypeOK
  <2> HIDE DEF a, b, n
  <2>2. QED  BY <1>1, <1>2, <2>1
<1>4. /\ rx_out' = Succ(rx_out, n)
      /\ UNCHANGED <<rx_buf, rx_in, rfifo, wfifo, tx_buf, tx_in, tx_out, nextOut, nextIn>>
  BY DEF ReadFree, ByCall, device
<1> HIDE DEF n
<1>5. Ring(rx_buf, rx_in, Succ(rx_out, n)) = SubSeq(ring, n + 1, Len(ring))  BY <1>1, <1>2, <1>3, RingDrop
<1>6. Len(InQ) = a + b  BY QueuesAre
<1> HIDE DEF ring, a, b
<1>7. SubSeq(ring, n + 1, a) \o rfifo = SubSeq(ring \o rfifo, n + 1, a + b)
  <2>1. /\ ring \in Seq(Byte) /\ rfifo \in Seq(Byte) /\ a \in Nat /\ b \in Nat
        /\ Len(ring) = a /\ Len(rfifo) = b
    BY <1>1
  <2>2. \A m \in 0..a : SubSeq(ring, m + 1, a) \o rfifo = SubSeq(ring \o rfifo, m + 1, a + b)
    BY <2>1, DropFirst
  <2>3. QED  BY <1>3, <2>2, Zenon
<1>8. InQ' = SubSeq(InQ, n + 1, Len(InQ))  BY <1>1, <1>4, <1>5, <1>6, <1>7 DEF InQ, ring
<1>9. UNCHANGED <<nextOut, nextIn, OutQ>>  BY <1>4 DEF OutQ
<1>10. QED  BY <1>3, <1>6, <1>8, <1>9, InLeaves

LEMMA QueuesKept ==
  ASSUME UNCHANGED <<wfifo, tx_buf, tx_in, tx_out, rfifo, rx_buf, rx_in, rx_out, nextOut, nextIn>>
  PROVE  UNCHANGED <<OutQ, InQ, nextOut, nextIn>>
BY DEF OutQ, InQ

LEMMA StreamStep ==
  ASSUME ConsoleInv, Types', [Next]_vars
  PROVE  Stream!Next \/ UNCHANGED <<OutQ, InQ, nextOut, nextIn>>
<1> DEFINE queues == <<wfifo, tx_buf, tx_in, tx_out, rfifo, rx_buf, rx_in, rx_out, nextOut, nextIn>>
<1>1. Types /\ WriteChunk /\ ReadChunk /\ SpaceIsFree  BY DEF ConsoleInv, Types
<1>2. CASE CallNext
  <2>1. CASE WritePublish  BY <1>1, <2>1, PublishEnters
  <2>2. CASE WriteFill  BY <1>1, <2>2, FillKeeps
  <2>3. CASE ReadFree  BY <1>1, <2>3, FreeLeaves
  <2>4. CASE ~WritePublish /\ ~WriteFill /\ ~ReadFree
    <3>1. UNCHANGED queues
      BY <1>2, <2>4 DEF CallNext, BootIrq, BootTimer, BootUart, BootRegister, BootAlarm,
         WriteLook, WriteKick, WriteSpin, ReadLook, ReadTake, ReadDecide, ReadSpin,
         ReadEnable, Close, ByCall, driver, device, numbers
    <3>2. QED  BY <3>1, QueuesKept
  <2>5. QED  BY <2>1, <2>2, <2>3, <2>4
<1>3. CASE Ask
  <2>1. UNCHANGED queues  BY <1>3 DEF Ask, Begin, SetTimeout, ByCall, driver, device
  <2>2. QED  BY <2>1, QueuesKept
<1>4. CASE IsrNext
  <2>1. CASE IsrTransmit  BY <1>1, <2>1, TransmitKeeps
  <2>2. CASE IsrReceive  BY <1>1, <2>2, ReceiveKeeps
  <2>3. CASE ~IsrTransmit /\ ~IsrReceive
    <3>1. UNCHANGED queues
      BY <1>4, <2>3 DEF IsrNext, Interrupted, Dispatch, IsrControl, IsrReceiveFull,
         IsrTransmitEnd, IsrTick, ByIsr, driver, device, numbers
    <3>2. QED  BY <3>1, QueuesKept
  <2>4. QED  BY <2>1, <2>2, <2>3
<1>5. CASE HostSends  BY <1>1, <1>5, SendsEnters
<1>6. CASE HostTakes  BY <1>1, <1>6, TakesLeaves
<1>7. CASE HostPauses \/ HostComesOrGoes \/ Second \/ UNCHANGED vars
  <2>1. UNCHANGED queues
    BY <1>7 DEF HostPauses, HostComesOrGoes, Second, vars, software, driver, device, numbers
  <2>2. QED  BY <2>1, QueuesKept
<1>8. QED  BY <1>2, <1>3, <1>4, <1>5, <1>6, <1>7 DEF Next

\* ImplementsStream: between the firmware and the host, in either direction, no byte
\* is lost, doubled or overtaken, for every length of the buffers and the FIFOs, in
\* whatever order the calls, the two interrupt routines, the UART and the host move.
THEOREM SpecImplementsStream == Spec => ImplementsStream
<1>1. Init => Stream!Init
  <2> SUFFICES ASSUME Init PROVE Stream!Init  OBVIOUS
  <2>1. wfifo = <<>> /\ rfifo = <<>> /\ nextOut = 0 /\ nextIn = 0  BY DEF Init
  <2>2. Types  BY TypesInit
  <2>3. Len(OutQ) = 0 /\ Len(InQ) = 0 /\ OutQ \in Seq(Byte) /\ InQ \in Seq(Byte)
    <3>1. Held(tx_in, tx_out) = 0 /\ Held(rx_in, rx_out) = 0
      <4>1. tx_in = 0 /\ tx_out = 0 /\ rx_in = 0 /\ rx_out = 0  BY DEF Init
      <4>2. QED  BY <4>1, EmptyAndFull, Modulus
    <3>2. Len(wfifo) = 0 /\ Len(rfifo) = 0  BY <2>1
    <3>3. QED  BY <2>2, <3>1, <3>2, QueuesAre
  <2>4. OutQ = <<>> /\ InQ = <<>>  BY <2>3, EmptySeq
  <2>5. QED  BY <2>1, <2>4 DEF Stream!Init, Stream!Empty, OutQ, InQ
<1>2. ConsoleInv /\ ConsoleInv' /\ [Next]_vars
        => [Stream!Next]_<<[next |-> nextOut, queue |-> wfifo \o Ring(tx_buf, tx_in, tx_out)],
                           [next |-> nextIn,  queue |-> Ring(rx_buf, rx_in, rx_out) \o rfifo]>>
  <2> SUFFICES ASSUME ConsoleInv, ConsoleInv', [Next]_vars
               PROVE  Stream!Next \/ UNCHANGED <<[next |-> nextOut, queue |-> OutQ],
                                                 [next |-> nextIn,  queue |-> InQ]>>
    BY DEF OutQ, InQ
  <2>1. Types'  BY DEF ConsoleInv, Types
  <2>2. Stream!Next \/ UNCHANGED <<OutQ, InQ, nextOut, nextIn>>  BY <2>1, StreamStep
  <2>3. QED  BY <2>2
<1>3. QED  BY <1>1, <1>2, SpecInv, PTL DEF Spec, ImplementsStream, Stream!Spec

=============================================================================
