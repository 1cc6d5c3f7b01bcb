------------------------------ MODULE UsbHost ------------------------------
(***************************************************************************)
(* The USB keyboard host: the main loop (main.c), the MAX3421E interrupt   *)
(* task (MAX3421E.c), the USB task state machine (transfer.c) and the HID  *)
(* probes (HID.c), against the host controller chip and a device that may  *)
(* be plugged and unplugged between any two register accesses.             *)
(*                                                                         *)
(* One action per stretch of code between two points where the chip is     *)
(* observed or acknowledged: a change of the bus can fall between them.    *)
(* A USB transfer is an outcome: it can succeed only if the device present *)
(* answers at the address and speed used.                                  *)
(***************************************************************************)
EXTENDS Integers, FiniteSets

CONSTANTS
  NumDevices,    \* USB_NUMDEVICES: slots 1 .. NumDevices - 1 are allocatable
  Devices,       \* the devices that may be plugged: [id, speed, class]
  NoDevice,      \* the bus is empty
  Keycodes,      \* what a boot keyboard may report
  Windows,       \* where the bus may change besides the open loop: "ack", "reset"
  Reliable,      \* a transfer to a device that answers always succeeds
  ResetDetects   \* a bus reset may raise a connection-detect interrupt

Speeds     == {"low", "full", "faulty"}
HID_K == 1
HID_M == 2
Classes    == {0, HID_K, HID_M, 3}

ASSUME ConstantsAssumption ==
  /\ NumDevices \in Nat /\ NumDevices >= 2
  /\ \A d \in Devices : d.speed \in Speeds /\ d.class \in Classes
  /\ NoDevice \notin Devices
  /\ 0 \in Keycodes /\ Keycodes \subseteq Nat
  /\ Windows \subseteq {"ack", "reset"}
  /\ Reliable \in BOOLEAN /\ ResetDetects \in BOOLEAN

VARIABLES
  \* the bus and the chip
  dev,           \* the device plugged, or NoDevice
  devAddr,       \* the address it answers at
  lowspeed,      \* rMODE.LOWSPEED
  condet, busevent, frame,  \* rHIRQ: CONDETIRQ, BUSEVENTIRQ, FRAMEIRQ
  busrst,        \* rHCTL.BUSRST: a bus reset is in progress
  \* the firmware
  pc,            \* where the main loop is
  hirq_busevent, hirq_frame,  \* MaxIntHandler's copy of rHIRQ
  usb_task_state, usb_error,
  epinfo, devclass,   \* devtable
  tmp_addr,      \* USB_Task's static
  hid_addr,      \* hid_device.addr
  delay_over,    \* the clock has passed usb_delay
  runningdebugflag, errorflag, device,  \* main's locals
  keycode, led9, \* the output ports
  \* history
  seen           \* the device on the bus at the last MAX_busprobe

bus      == <<dev, devAddr>>
chip     == <<lowspeed, condet, busevent, frame, busrst>>
table    == <<epinfo, devclass>>
hirq     == <<hirq_busevent, hirq_frame>>
task     == <<usb_task_state, usb_error, tmp_addr, hid_addr, delay_over>>
loop     == <<runningdebugflag, errorflag, device, keycode, led9>>
vars     == <<bus, chip, table, task, loop, pc, hirq, seen>>

-----------------------------------------------------------------------------
(* Task states (USB.h), in decimal *)

USB_DETACHED_SUBSTATE_INITIALIZE          == 1
USB_DETACHED_SUBSTATE_WAIT_FOR_DEVICE     == 3
USB_DETACHED_SUBSTATE_ILLEGAL             == 4
USB_STATE_ATTACHED                        == 16
USB_ATTACHED_SUBSTATE_SETTLE              == 17
USB_ATTACHED_SUBSTATE_RESET_DEVICE        == 18
USB_ATTACHED_SUBSTATE_WAIT_RESET_COMPLETE == 19
USB_ATTACHED_SUBSTATE_WAIT_SOF            == 20
USB_ATTACHED_SUBSTATE_GET_DEVICE_DESCRIPTOR_SIZE == 21
USB_STATE_ADDRESSING                      == 32
USB_STATE_CONFIGURING                     == 48
USB_STATE_RUNNING                         == 64
USB_STATE_ERROR                           == 255

\* 2 and 5 are no substate of USB.h: usb_task_state++ leads there.
TaskStates == 1..5 \cup 16..21 \cup {32, 48, 64, 255}

\* (state & USB_STATE_MASK) == USB_STATE_DETACHED
IsDetached(s) == s < 16

NULL   == "NULL"
Labels == {"chip", "init_probe", "init_ack", "task", "probe", "ack", "usb", "main"}

Slots     == 0..(NumDevices - 1)
Allocable == 1..(NumDevices - 1)
Allocated == {i \in Allocable : epinfo[i] # NULL}

NoAddressAvailable == 254   \* 0xfe
NoClientDriver     == 253   \* 0xfd
TransferError      == 1     \* any result code of a failed transfer

-----------------------------------------------------------------------------
(* The bus, as the chip shows it *)

\* rHRSL.J/KSTATUS: a device idles at J of its own speed.
BusSample ==
  IF dev = NoDevice THEN "SE0"
  ELSE IF dev.speed = "faulty" THEN "SE1"
  ELSE IF (dev.speed = "low") <=> lowspeed THEN "J" ELSE "K"

Answers(a) == /\ dev # NoDevice
              /\ devAddr = a
              /\ ~busrst
              /\ dev.speed = IF lowspeed THEN "low" ELSE "full"

\* The possible results of a transfer to address a.
Outcomes(a) == {ok \in BOOLEAN : /\ ok => Answers(a)
                                 /\ Reliable /\ Answers(a) => ok}

-----------------------------------------------------------------------------
Init ==
  /\ dev \in Devices \cup {NoDevice} /\ devAddr = 0
  /\ lowspeed = FALSE /\ condet = FALSE /\ busevent = FALSE
  /\ frame = FALSE /\ busrst = FALSE
  /\ pc = "chip"
  /\ hirq_busevent = FALSE /\ hirq_frame = FALSE
  /\ usb_task_state = USB_DETACHED_SUBSTATE_INITIALIZE /\ usb_error = 0
  /\ epinfo = [i \in Slots |-> NULL]
  /\ devclass = [i \in Slots |-> 0]
  /\ tmp_addr = 0 /\ hid_addr = 0 /\ delay_over = TRUE
  /\ runningdebugflag = FALSE /\ errorflag = FALSE /\ device = 0
  /\ keycode = 0 /\ led9 = FALSE
  /\ seen = NoDevice

-----------------------------------------------------------------------------
(* MAX3421E.c *)

\* Fault: an empty bus is noticed only in the detached states.
ProbedStateMissesUnplug(s) ==
  CASE BusSample \in {"J", "K"} ->
         IF s = USB_ATTACHED_SUBSTATE_WAIT_RESET_COMPLETE THEN s ELSE USB_STATE_ATTACHED
    [] BusSample = "SE1" -> USB_DETACHED_SUBSTATE_ILLEGAL
    [] BusSample = "SE0" ->
         IF IsDetached(s) THEN USB_DETACHED_SUBSTATE_WAIT_FOR_DEVICE ELSE s

\* MAX_busprobe: the state it signals, and the host speed it selects.
ProbedState(s) ==
  CASE BusSample \in {"J", "K"} ->
         IF s = USB_ATTACHED_SUBSTATE_WAIT_RESET_COMPLETE THEN s ELSE USB_STATE_ATTACHED
    [] BusSample = "SE1" -> USB_DETACHED_SUBSTATE_ILLEGAL
    [] BusSample = "SE0" ->
         IF IsDetached(s) THEN USB_DETACHED_SUBSTATE_WAIT_FOR_DEVICE
                          ELSE USB_DETACHED_SUBSTATE_INITIALIZE

\* Fault: K always means low speed, whatever the speed the host runs at.
ProbedSpeedIgnoresMode(s) ==
  IF BusSample = "K" /\ s # USB_ATTACHED_SUBSTATE_WAIT_RESET_COMPLETE THEN TRUE
  ELSE IF BusSample = "SE0" /\ IsDetached(s) THEN FALSE
  ELSE lowspeed

ProbedSpeed(s) ==
  IF BusSample = "K" /\ s # USB_ATTACHED_SUBSTATE_WAIT_RESET_COMPLETE THEN ~lowspeed
  ELSE IF BusSample = "SE0" /\ IsDetached(s) THEN FALSE
  ELSE lowspeed

\* MAX3421E_init up to the bus probe: MAX3421E_reset clears the chip, and host
\* mode detects a device that is already there.
ChipInit ==
  /\ pc = "chip"
  /\ pc' = "init_probe"
  /\ lowspeed' = FALSE /\ busevent' = FALSE /\ frame' = FALSE /\ busrst' = FALSE
  /\ condet' = (dev # NoDevice)
  /\ UNCHANGED <<bus, table, task, loop, hirq, seen>>

InitProbe ==
  /\ pc = "init_probe"
  /\ pc' = "init_ack"
  /\ usb_task_state' = ProbedState(usb_task_state)
  /\ lowspeed' = ProbedSpeed(usb_task_state)
  /\ seen' = dev
  /\ UNCHANGED <<bus, condet, busevent, frame, busrst, table, usb_error, tmp_addr, hid_addr,
                 delay_over, loop, hirq>>

\* USB_init: every slot cleared, slot 0 for the device without an address.
USB_init ==
  /\ epinfo' = [i \in Slots |-> IF i = 0 THEN "dev0ep" ELSE NULL]
  /\ devclass' = [i \in Slots |-> 0]

\* The rest of MAX3421E_init, USB_init, and the end of main's "else" branch
\* (at boot errorflag and LED 9 are still clear).
InitAck ==
  /\ pc = "init_ack"
  /\ pc' = "task"
  /\ condet' = FALSE
  /\ USB_init
  /\ errorflag' = FALSE /\ led9' = FALSE
  /\ UNCHANGED <<bus, lowspeed, busevent, frame, busrst, task, runningdebugflag, device,
                 keycode, hirq, seen>>

\* MAX3421E_Task: only CONDETIRQ is enabled to drive the INT pin.
NoInterrupt ==
  /\ pc = "task" /\ ~condet
  /\ pc' = "usb"
  /\ UNCHANGED <<bus, chip, table, task, loop, hirq, seen>>

\* MaxIntHandler, as far as the read of rHIRQ.
Interrupt ==
  /\ pc = "task" /\ condet
  /\ pc' = "probe"
  /\ hirq_busevent' = busevent /\ hirq_frame' = frame
  /\ UNCHANGED <<bus, chip, table, task, loop, seen>>

\* The bus probe and, for a bus event, usb_task_state++ on top of it.
Probe ==
  /\ pc = "probe"
  /\ pc' = "ack"
  /\ usb_task_state' = ProbedState(usb_task_state) + (IF hirq_busevent THEN 1 ELSE 0)
  /\ lowspeed' = ProbedSpeed(usb_task_state)
  /\ seen' = dev
  /\ UNCHANGED <<bus, condet, busevent, frame, busrst, table, usb_error, tmp_addr, hid_addr,
                 delay_over, loop, hirq>>

\* The write of HIRQ_sendback: what was serviced is cleared, whatever has
\* happened since.
Ack ==
  /\ pc = "ack"
  /\ pc' = "usb"
  /\ condet' = FALSE
  /\ busevent' = (busevent /\ ~hirq_busevent)
  /\ frame' = (frame /\ ~hirq_frame)
  /\ UNCHANGED <<bus, lowspeed, busrst, table, task, loop, hirq, seen>>

-----------------------------------------------------------------------------
(* USB_Task (transfer.c): one action per state that does something *)

InTask(s) == pc = "usb" /\ usb_task_state = s /\ pc' = "main"

Fail(e) == usb_task_state' = USB_STATE_ERROR /\ usb_error' = e

TaskInitialize ==
  /\ InTask(USB_DETACHED_SUBSTATE_INITIALIZE)
  /\ USB_init
  /\ usb_task_state' = USB_DETACHED_SUBSTATE_WAIT_FOR_DEVICE
  /\ UNCHANGED <<bus, chip, usb_error, tmp_addr, hid_addr, delay_over, loop, hirq, seen>>

\* WAIT_FOR_DEVICE, ILLEGAL, RUNNING, ERROR, and the values no case names.
TaskIdle ==
  /\ pc = "usb"
  /\ usb_task_state \in {2, 3, 4, 5, USB_STATE_RUNNING, USB_STATE_ERROR}
  /\ pc' = "main"
  /\ UNCHANGED <<bus, chip, table, task, loop, hirq, seen>>

TaskAttached ==
  /\ InTask(USB_STATE_ATTACHED)
  /\ delay_over' = FALSE
  /\ usb_task_state' = USB_ATTACHED_SUBSTATE_SETTLE
  /\ UNCHANGED <<bus, chip, table, usb_error, tmp_addr, hid_addr, loop, hirq, seen>>

TaskSettle ==
  /\ InTask(USB_ATTACHED_SUBSTATE_SETTLE)
  /\ usb_task_state' = IF delay_over THEN USB_ATTACHED_SUBSTATE_RESET_DEVICE
                                     ELSE usb_task_state
  /\ UNCHANGED <<bus, chip, table, usb_error, tmp_addr, hid_addr, delay_over, loop, hirq, seen>>

\* Fault: every pending interrupt is cleared before the reset, not only BUSEVENTIRQ.
TaskResetDeviceClearsAll ==
  /\ InTask(USB_ATTACHED_SUBSTATE_RESET_DEVICE)
  /\ busevent' = FALSE /\ condet' = FALSE /\ frame' = FALSE
  /\ busrst' = TRUE
  /\ devAddr' = 0
  /\ usb_task_state' = USB_ATTACHED_SUBSTATE_WAIT_RESET_COMPLETE
  /\ UNCHANGED <<dev, lowspeed, table, usb_error, tmp_addr, hid_addr, delay_over, loop,
                 hirq, seen>>

\* A device forgets its address when the reset begins.
TaskResetDevice ==
  /\ InTask(USB_ATTACHED_SUBSTATE_RESET_DEVICE)
  /\ busevent' = FALSE
  /\ busrst' = TRUE
  /\ devAddr' = 0
  /\ usb_task_state' = USB_ATTACHED_SUBSTATE_WAIT_RESET_COMPLETE
  /\ UNCHANGED <<dev, lowspeed, condet, frame, table, usb_error, tmp_addr, hid_addr,
                 delay_over, loop, hirq, seen>>

\* Fault: the end of the reset is not awaited.
TaskWaitResetAtOnce ==
  /\ InTask(USB_ATTACHED_SUBSTATE_WAIT_RESET_COMPLETE)
  /\ usb_task_state' = USB_ATTACHED_SUBSTATE_WAIT_SOF
  /\ UNCHANGED <<bus, chip, table, usb_error, tmp_addr, hid_addr, delay_over, loop, hirq, seen>>

TaskWaitReset ==
  /\ InTask(USB_ATTACHED_SUBSTATE_WAIT_RESET_COMPLETE)
  /\ usb_task_state' = IF busrst THEN usb_task_state ELSE USB_ATTACHED_SUBSTATE_WAIT_SOF
  /\ UNCHANGED <<bus, chip, table, usb_error, tmp_addr, hid_addr, delay_over, loop, hirq, seen>>

\* The test is "rHIRQ | bmFRAMEIRQ", which is never zero.
FrameTest == TRUE

TaskWaitSof ==
  /\ InTask(USB_ATTACHED_SUBSTATE_WAIT_SOF)
  /\ usb_task_state' = IF FrameTest THEN USB_ATTACHED_SUBSTATE_GET_DEVICE_DESCRIPTOR_SIZE
                                    ELSE usb_task_state
  /\ UNCHANGED <<bus, chip, table, usb_error, tmp_addr, hid_addr, delay_over, loop, hirq, seen>>

\* Only the first of the descriptor transfers decides.
TaskGetDescriptor ==
  /\ InTask(USB_ATTACHED_SUBSTATE_GET_DEVICE_DESCRIPTOR_SIZE)
  /\ \E ok \in Outcomes(0) :
       IF ok THEN usb_task_state' = USB_STATE_ADDRESSING /\ UNCHANGED usb_error
             ELSE Fail(TransferError)
  /\ UNCHANGED <<bus, chip, table, tmp_addr, hid_addr, delay_over, loop, hirq, seen>>

FirstFree(i) == /\ epinfo[i] = NULL
                /\ \A j \in Allocable : j < i => epinfo[j] # NULL

\* Fault: the slot that was given is not remembered.
TaskAddressingForgets ==
  /\ InTask(USB_STATE_ADDRESSING)
  /\ \E i \in Allocable, ok \in Outcomes(0) :
       /\ FirstFree(i)
       /\ epinfo' = [epinfo EXCEPT ![i] = epinfo[0]]
       /\ IF ok THEN usb_task_state' = USB_STATE_CONFIGURING /\ devAddr' = i /\ UNCHANGED usb_error
                ELSE Fail(TransferError) /\ UNCHANGED devAddr
  /\ UNCHANGED <<dev, chip, devclass, tmp_addr, hid_addr, delay_over, loop, hirq, seen>>

\* The device may take the address although the host misses the status stage.
TaskAddressing ==
  /\ InTask(USB_STATE_ADDRESSING)
  /\ \E i \in Allocable, ok \in Outcomes(0) :
       /\ FirstFree(i)
       /\ epinfo' = [epinfo EXCEPT ![i] = epinfo[0]]
       /\ IF ok THEN /\ usb_task_state' = USB_STATE_CONFIGURING
                     /\ tmp_addr' = i
                     /\ devAddr' = i
                     /\ UNCHANGED usb_error
                ELSE /\ Fail(TransferError)
                     /\ devAddr' \in {devAddr} \cup (IF Answers(0) THEN {i} ELSE {})
                     /\ UNCHANGED tmp_addr
  /\ UNCHANGED <<dev, chip, devclass, hid_addr, delay_over, loop, hirq, seen>>

TaskNoAddress ==
  /\ InTask(USB_STATE_ADDRESSING)
  /\ \A i \in Allocable : epinfo[i] # NULL
  /\ Fail(NoAddressAvailable)
  /\ UNCHANGED <<bus, chip, table, tmp_addr, hid_addr, delay_over, loop, hirq, seen>>

\* HIDMProbe / HIDKProbe once the interface descriptor matches.
Claim(a, c) == /\ devclass' = [devclass EXCEPT ![a] = c]
               /\ epinfo' = [epinfo EXCEPT ![a] = "hid_ep"]
               /\ hid_addr' = a

\* The probes in the order of ClientDriverTable.  MSDProbe and DummyProbe
\* always decline; a HID probe may read the configuration or not, and once it
\* has claimed the slot it may fail to configure the device.
TaskConfiguring ==
  /\ InTask(USB_STATE_CONFIGURING)
  /\ \E read, configured \in Outcomes(tmp_addr) :
       IF read /\ dev.class \in {HID_M, HID_K}
       THEN /\ Claim(tmp_addr, dev.class)
            /\ IF configured THEN usb_task_state' = USB_STATE_RUNNING /\ UNCHANGED usb_error
                             ELSE Fail(NoClientDriver)
       ELSE Fail(NoClientDriver) /\ UNCHANGED <<table, hid_addr>>
  /\ UNCHANGED <<bus, chip, tmp_addr, delay_over, loop, hirq, seen>>

UsbTask == \/ TaskInitialize \/ TaskIdle \/ TaskAttached \/ TaskSettle
           \/ TaskResetDevice \/ TaskWaitReset \/ TaskWaitSof \/ TaskGetDescriptor
           \/ TaskAddressing \/ TaskNoAddress \/ TaskConfiguring

-----------------------------------------------------------------------------
(* The rest of the loop body (main.c) *)

\* Fault: the class of the first slot in use.
FirstClass(c) == \/ Allocated = {} /\ c = 255
                 \/ \E i \in Allocated : /\ \A j \in Allocated : j >= i
                                         /\ c = devclass[i]

\* GetDriverandReport: the class of the last slot in use.
LastClass(c) == \/ Allocated = {} /\ c = 255
                \/ \E i \in Allocated : /\ \A j \in Allocated : j <= i
                                        /\ c = devclass[i]

MainStarts ==
  /\ pc = "main" /\ usb_task_state = USB_STATE_RUNNING /\ ~runningdebugflag
  /\ pc' = "task"
  /\ runningdebugflag' = TRUE
  /\ led9' = TRUE
  /\ LastClass(device')
  /\ UNCHANGED <<bus, chip, table, task, errorflag, keycode, hirq, seen>>

\* kbdPoll: a NAK or an error leaves the key code port alone.
MainPollsKeyboard ==
  /\ pc = "main" /\ usb_task_state = USB_STATE_RUNNING /\ runningdebugflag /\ device = HID_K
  /\ pc' = "task"
  /\ \/ UNCHANGED keycode
     \/ Answers(hid_addr) /\ keycode' \in Keycodes
  /\ UNCHANGED <<bus, chip, table, task, runningdebugflag, errorflag, device, led9, hirq, seen>>

\* mousePoll drives LEDs and the HEX digits only.
MainPollsOther ==
  /\ pc = "main" /\ usb_task_state = USB_STATE_RUNNING /\ runningdebugflag /\ device # HID_K
  /\ pc' = "task"
  /\ UNCHANGED <<bus, chip, table, task, loop, hirq, seen>>

MainError ==
  /\ pc = "main" /\ usb_task_state = USB_STATE_ERROR
  /\ pc' = "task"
  /\ errorflag' = TRUE
  /\ led9' = (led9 /\ errorflag)
  /\ UNCHANGED <<bus, chip, table, task, runningdebugflag, device, keycode, hirq, seen>>

\* Neither running nor in error; a host that was running is initialised again.
MainStopped ==
  /\ pc = "main" /\ usb_task_state \notin {USB_STATE_RUNNING, USB_STATE_ERROR}
  /\ runningdebugflag
  /\ pc' = "chip"
  /\ runningdebugflag' = FALSE
  /\ UNCHANGED <<bus, chip, table, task, errorflag, device, keycode, led9, hirq, seen>>

MainWaits ==
  /\ pc = "main" /\ usb_task_state \notin {USB_STATE_RUNNING, USB_STATE_ERROR}
  /\ ~runningdebugflag
  /\ pc' = "task"
  /\ errorflag' = FALSE /\ led9' = FALSE
  /\ UNCHANGED <<bus, chip, table, task, runningdebugflag, device, keycode, hirq, seen>>

Main == \/ MainStarts \/ MainPollsKeyboard \/ MainPollsOther
        \/ MainError \/ MainStopped \/ MainWaits

Firmware == \/ ChipInit \/ InitProbe \/ InitAck
            \/ NoInterrupt \/ Interrupt \/ Probe \/ Ack
            \/ UsbTask \/ Main

-----------------------------------------------------------------------------
(* The environment *)

\* The window between a probe and the write that clears CONDETIRQ.
BusMayChange == pc \in {"ack", "init_ack"} => "ack" \in Windows

\* The states in which a probe will take a swapped device for the one that is
\* being reset.
DeviceMayAppear ==
  usb_task_state \in {USB_ATTACHED_SUBSTATE_RESET_DEVICE,
                      USB_ATTACHED_SUBSTATE_WAIT_RESET_COMPLETE} => "reset" \in Windows

Plug ==
  /\ dev = NoDevice /\ BusMayChange /\ DeviceMayAppear
  /\ dev' \in Devices
  /\ devAddr' = 0
  /\ condet' = TRUE
  /\ UNCHANGED <<lowspeed, busevent, frame, busrst, table, task, loop, pc, hirq, seen>>

Unplug ==
  /\ dev # NoDevice /\ BusMayChange
  /\ dev' = NoDevice
  /\ condet' = TRUE
  /\ UNCHANGED <<devAddr, lowspeed, busevent, frame, busrst, table, task, loop, pc, hirq, seen>>

\* The chip ends the reset by itself and reports a bus event.
BusResetDone ==
  /\ busrst
  /\ busrst' = FALSE
  /\ busevent' = TRUE
  /\ UNCHANGED <<bus, lowspeed, condet, frame, table, task, loop, pc, hirq, seen>>

BusResetDetected ==
  /\ busrst /\ ResetDetects /\ dev # NoDevice
  /\ condet' = TRUE
  /\ UNCHANGED <<bus, lowspeed, busevent, frame, busrst, table, task, loop, pc, hirq, seen>>

StartOfFrame ==
  /\ ~busrst /\ dev # NoDevice
  /\ frame' = TRUE
  /\ UNCHANGED <<bus, lowspeed, condet, busevent, busrst, table, task, loop, pc, hirq, seen>>

DelayElapses ==
  /\ delay_over' = TRUE
  /\ UNCHANGED <<bus, chip, table, usb_task_state, usb_error, tmp_addr, hid_addr, loop, pc,
                 hirq, seen>>

Environment == \/ Plug \/ Unplug \/ BusResetDone \/ BusResetDetected
               \/ StartOfFrame \/ DelayElapses

Next == Firmware \/ Environment

\* The main loop never stops, a bus reset ends and time passes; nobody is
\* obliged to plug or unplug anything.
Fairness == WF_vars(Firmware) /\ WF_vars(BusResetDone) /\ WF_vars(DelayElapses)

Spec == Init /\ [][Next]_vars /\ Fairness

-----------------------------------------------------------------------------
(* Safety *)

\* usb_task_state is a substate of USB.h or one of the two nameless values its
\* increment reaches, and the tables and flags keep their ranges.
TypeOK ==
  /\ dev \in Devices \cup {NoDevice} /\ devAddr \in Slots
  /\ lowspeed \in BOOLEAN /\ condet \in BOOLEAN /\ busevent \in BOOLEAN
  /\ frame \in BOOLEAN /\ busrst \in BOOLEAN
  /\ pc \in Labels
  /\ hirq_busevent \in BOOLEAN /\ hirq_frame \in BOOLEAN
  /\ usb_task_state \in TaskStates
  /\ usb_error \in {0, TransferError, NoAddressAvailable, NoClientDriver}
  /\ epinfo \in [Slots -> {NULL, "dev0ep", "hid_ep"}]
  /\ devclass \in [Slots -> {0, HID_K, HID_M}]
  /\ tmp_addr \in Slots /\ hid_addr \in Slots
  /\ delay_over \in BOOLEAN
  /\ runningdebugflag \in BOOLEAN /\ errorflag \in BOOLEAN
  /\ device \in {0, HID_K, HID_M, 255}
  /\ keycode \in Keycodes /\ led9 \in BOOLEAN
  /\ seen \in Devices \cup {NoDevice}

\* The device that main polls is the one enumerated last: hid_device names the
\* slot just configured, that slot has the two-record endpoint table the poll
\* indexes, and main's copy of the class, taken once, is that slot's class.
\* It must survive every re-enumeration between two looks of main at the state.
PollsEnumeratedDevice ==
  usb_task_state = USB_STATE_RUNNING =>
    /\ hid_addr = tmp_addr
    /\ epinfo[hid_addr] = "hid_ep"
    /\ runningdebugflag => device = devclass[hid_addr]

\* A device that has been given an address and not yet lost it has the one the
\* firmware will use, although SET_ADDRESS may half fail, the device may be
\* swapped and the table may keep slots of devices that left.
DeviceAnswersAtItsAddress ==
  usb_task_state \in {USB_STATE_CONFIGURING, USB_STATE_RUNNING} =>
    devAddr \in {0, tmp_addr}

\* The states after the reset are not reached while the chip still drives it:
\* both ways out of WAIT_RESET_COMPLETE (the poll of BUSRST and the bus event
\* counted by the interrupt handler) wait for its end.
NoTransferDuringBusReset ==
  usb_task_state \in {USB_ATTACHED_SUBSTATE_WAIT_SOF,
                      USB_ATTACHED_SUBSTATE_GET_DEVICE_DESCRIPTOR_SIZE,
                      USB_STATE_ADDRESSING, USB_STATE_CONFIGURING, USB_STATE_RUNNING} => ~busrst

\* LED 9 tells the user that a device is running: at the top of the loop it is
\* lit exactly when the state machine runs and main has noticed.
Led9ShowsRunning ==
  pc = "task" => /\ led9 <=> (usb_task_state = USB_STATE_RUNNING)
                 /\ led9 <=> runningdebugflag

\* GetDriverandReport sends its requests through slot 1 whatever the slot of
\* the device: slots fill from 1 and empty together, so a running host always
\* has an endpoint record there to dereference.
SlotsFillFromOne ==
  /\ \A i, j \in Allocable : j < i /\ epinfo[i] # NULL => epinfo[j] # NULL
  /\ usb_task_state = USB_STATE_RUNNING => epinfo[1] # NULL
  /\ usb_task_state \in 16..64 /\ pc \in {"task", "usb"} => epinfo[0] = "dev0ep"

\* No change of the bus is lost: with no interrupt pending, the last probe saw
\* the device that is plugged.  The acknowledgement comes after the probe, so
\* this needs a bus that is quiet between the two.
NoUnseenChange == ~condet /\ pc \notin {"chip", "init_probe"} => seen = dev

\* The host speed is the speed of the device it enumerates.
SpeedMatches ==
  /\ usb_task_state \in 16..64
  /\ ~condet
  /\ pc \notin {"chip", "init_probe"}
  => dev # NoDevice /\ (dev.speed = "low") = lowspeed

-----------------------------------------------------------------------------
(* Action properties: what comments of the source say of a step *)

\* "initial settle 200ms": SETTLE is entered with the timer just started.
SettleStartsTimer ==
  [][usb_task_state # USB_ATTACHED_SUBSTATE_SETTLE
     /\ usb_task_state' = USB_ATTACHED_SUBSTATE_SETTLE => ~delay_over']_vars

\* "when first SOF received we can continue".
SofBeforeDescriptor ==
  [][usb_task_state = USB_ATTACHED_SUBSTATE_WAIT_SOF
     /\ usb_task_state' = USB_ATTACHED_SUBSTATE_GET_DEVICE_DESCRIPTOR_SIZE => frame]_vars

\* "clear device data structures": a new attachment starts with the table that
\* the disconnection before it cleared.
AttachStartsClear ==
  [][IsDetached(usb_task_state) /\ ~IsDetached(usb_task_state') => Allocated = {}]_vars

\* "hard-wired USB address": the requests of GetDriverandReport, all sent to
\* address 1, reach the device that has just been configured.
ReportReachesDevice ==
  [][~runningdebugflag /\ runningdebugflag' => hid_addr = 1]_vars

\* "write '1' to CONDETIRQ to ack bus state change": the change that MaxIntHandler
\* acknowledges is one its probe has seen.
AckedChangeWasSeen ==
  [][pc = "ack" /\ condet /\ ~condet' => seen = dev]_vars

-----------------------------------------------------------------------------
(* Liveness *)

\* An unplugged device is noticed for good, whatever the state machine was
\* doing and whatever its transfers returned.
UnplugNoticed ==
  <>[](dev = NoDevice) => <>[](IsDetached(usb_task_state) /\ ~led9)

\* "bus reset causes connection detect interrupt": the interrupt task probes the
\* bus for such an interrupt when the state machine has already left
\* WAIT_RESET_COMPLETE, the one state in which the probe disregards it, although
\* the device is the one that was there at the last probe.
LateDetect ==
  /\ pc = "probe" /\ seen = dev
  /\ usb_task_state # USB_ATTACHED_SUBSTATE_WAIT_RESET_COMPLETE

\* A keyboard or mouse that stays plugged ends up running and polled under its
\* own class, unless the table has no slot left for it, or the interrupt of its
\* bus reset comes too late again and again: each time the device is attached
\* and reset anew, and nothing in the code ends that.
PluggedRuns ==
  \A d \in Devices : d.class \in {HID_K, HID_M} =>
    (<>[](dev = d) =>
       \/ <>[](usb_task_state = USB_STATE_RUNNING /\ led9 /\ device = d.class)
       \/ <>[](usb_task_state = USB_STATE_ERROR /\ usb_error = NoAddressAvailable)
       \/ []<>LateDetect)
=============================================================================
