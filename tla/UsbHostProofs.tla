--------------------------- MODULE UsbHostProofs ---------------------------
(***************************************************************************)
(* Proofs about UsbHost, for any number of slots and any devices: the      *)
(* safety invariants of the USB host follow from the inductive invariant   *)
(* IInv below.                                                             *)
(***************************************************************************)
EXTENDS UsbHost, TLAPS

\* The type invariant, by owner.
BusTypes ==
  /\ dev \in Devices \cup {NoDevice} /\ devAddr \in Slots
  /\ seen \in Devices \cup {NoDevice}
ChipTypes ==
  /\ lowspeed \in BOOLEAN /\ condet \in BOOLEAN /\ busevent \in BOOLEAN
  /\ frame \in BOOLEAN /\ busrst \in BOOLEAN
  /\ hirq_busevent \in BOOLEAN /\ hirq_frame \in BOOLEAN /\ delay_over \in BOOLEAN
TaskTypes ==
  /\ pc \in Labels
  /\ usb_task_state \in TaskStates
  /\ usb_error \in {0, TransferError, NoAddressAvailable, NoClientDriver}
TableTypes ==
  /\ epinfo \in [Slots -> {NULL, "dev0ep", "hid_ep"}]
  /\ devclass \in [Slots -> {0, HID_K, HID_M}]
  /\ tmp_addr \in Slots /\ hid_addr \in Slots
MainTypes ==
  /\ runningdebugflag \in BOOLEAN /\ errorflag \in BOOLEAN
  /\ device \in {0, HID_K, HID_M, 255}
  /\ keycode \in Keycodes /\ led9 \in BOOLEAN

\* What a probe, with or without a bus event on top of it, can leave behind.
Where == pc \in {"init_ack", "ack"} => usb_task_state \in {1, 2, 3, 4, 5, 16, 17, 19, 20}

\* Once USB_init has run, slot 0 serves the device without an address.
Slot0 == pc \notin {"chip", "init_probe", "init_ack"} => epinfo[0] = "dev0ep"

Prefix == \A i, j \in Allocable : j < i /\ epinfo[i] # NULL => epinfo[j] # NULL

\* The slot that has just been given is the last one in use.
Last ==
  usb_task_state \in {USB_STATE_CONFIGURING, USB_STATE_RUNNING} =>
    /\ tmp_addr \in Allocable
    /\ epinfo[tmp_addr] # NULL
    /\ \A i \in Allocable : i > tmp_addr => epinfo[i] = NULL

Running == PollsEnumeratedDevice

\* The flag outlives RUNNING only until main looks at the state again.
Flag ==
  runningdebugflag =>
    \/ usb_task_state = USB_STATE_RUNNING /\ pc \in {"task", "probe", "usb", "main"}
    \/ pc \in {"ack", "usb"} /\ usb_task_state \in {1, 2, 4, 5, 16, 17}
    \/ pc = "main" /\ usb_task_state \in {2, 3, 4, 5, 17, 18}

Led ==
  /\ pc \in {"task", "probe", "ack", "usb", "main"} => led9 = runningdebugflag
  /\ pc \in {"task", "probe", "usb"} /\ usb_task_state = USB_STATE_RUNNING
     => runningdebugflag

\* While the chip drives a reset no bus event of that reset is around.
Reset ==
  busrst => /\ usb_task_state \notin {20, 21, 32, 48, 64}
            /\ usb_task_state = USB_ATTACHED_SUBSTATE_WAIT_RESET_COMPLETE =>
                 ~busevent /\ (pc = "probe" => ~hirq_busevent)

Address == DeviceAnswersAtItsAddress

Types   == BusTypes /\ ChipTypes /\ TaskTypes /\ TableTypes /\ MainTypes
Control == Where /\ Flag /\ Led /\ Reset
Tables  == Slot0 /\ Prefix /\ Last /\ Running /\ Address

IInv == Types /\ Control /\ Tables

\* The numbers of the task states and the tuples of variables are abbreviations.
USE DEF USB_DETACHED_SUBSTATE_INITIALIZE, USB_DETACHED_SUBSTATE_WAIT_FOR_DEVICE,
        USB_DETACHED_SUBSTATE_ILLEGAL, USB_STATE_ATTACHED, USB_ATTACHED_SUBSTATE_SETTLE,
        USB_ATTACHED_SUBSTATE_RESET_DEVICE, USB_ATTACHED_SUBSTATE_WAIT_RESET_COMPLETE,
        USB_ATTACHED_SUBSTATE_WAIT_SOF, USB_ATTACHED_SUBSTATE_GET_DEVICE_DESCRIPTOR_SIZE,
        USB_STATE_ADDRESSING, USB_STATE_CONFIGURING, USB_STATE_RUNNING, USB_STATE_ERROR,
        TaskStates, bus, chip, table, hirq, task, loop

-----------------------------------------------------------------------------
(* The bus probe *)

\* MAX_busprobe never goes forward from where the task is, except to ATTACHED.
LEMMA Probed ==
  ASSUME Types
  PROVE  /\ ProbedState(usb_task_state) \in {1, 3, 4, 16, 19}
         /\ ProbedState(usb_task_state) = 19 => usb_task_state = 19
         /\ usb_task_state = 64 => ProbedState(usb_task_state) \in {1, 4, 16}
         /\ ProbedSpeed(usb_task_state) \in BOOLEAN
<1>1. BusSample \in {"J", "K", "SE0", "SE1"}
  BY DEF BusSample
<1>2. ~IsDetached(64)
  BY DEF IsDetached
<1>3. ProbedState(usb_task_state) \in {1, 3, 4, 16, 19}
  BY <1>1 DEF ProbedState
<1>4. ProbedState(usb_task_state) = 19 => usb_task_state = 19
  BY <1>1 DEF ProbedState
<1>5. usb_task_state = 64 => ProbedState(usb_task_state) \in {1, 4, 16}
  BY <1>1, <1>2 DEF ProbedState
<1>6. ProbedSpeed(usb_task_state) \in BOOLEAN
  BY Zenon DEF ProbedSpeed, Types, ChipTypes
<1> QED
  BY <1>3, <1>4, <1>5, <1>6

\* A bus event counted on top of the probe goes one state further, and past
\* WAIT_RESET_COMPLETE only from there.
LEMMA ProbedInInterrupt ==
  ASSUME Types, Probe
  PROVE  /\ usb_task_state' \in {1, 2, 3, 4, 5, 16, 17, 19, 20}
         /\ usb_task_state' = 19 => usb_task_state = 19 /\ ~hirq_busevent
         /\ usb_task_state' = 20 => usb_task_state = 19 /\ hirq_busevent
         /\ usb_task_state = 64 => usb_task_state' \in {1, 2, 4, 5, 16, 17}
         /\ lowspeed' \in BOOLEAN
<1>1. CASE hirq_busevent
  <2>1. usb_task_state' = ProbedState(usb_task_state) + 1
    BY <1>1, Zenon DEF Probe
  <2> QED
    BY <1>1, <2>1, Probed DEF Probe
<1>2. CASE ~hirq_busevent
  <2>1. usb_task_state' = ProbedState(usb_task_state) + 0
    BY <1>2, Zenon DEF Probe
  <2> QED
    BY <1>2, <2>1, Probed DEF Probe
<1> QED
  BY <1>1, <1>2

\* A transfer succeeds or fails.
LEMMA OutcomesBoolean == ASSUME NEW a PROVE Outcomes(a) \subseteq BOOLEAN
  BY DEF Outcomes

\* USB_init leaves only slot 0 in use.
LEMMA CleanTable ==
  ASSUME USB_init
  PROVE  /\ epinfo' \in [Slots -> {NULL, "dev0ep", "hid_ep"}]
         /\ devclass' \in [Slots -> {0, HID_K, HID_M}]
         /\ epinfo'[0] = "dev0ep"
         /\ \A i \in Allocable : epinfo'[i] = NULL
  BY ConstantsAssumption DEF USB_init, Slots, Allocable

-----------------------------------------------------------------------------
(* Every step keeps the invariant *)

\* The initialisation of the chip and the interrupt task.
LEMMA HandlerIInv == ASSUME IInv, ChipInit \/ InitProbe \/ InitAck \/ NoInterrupt \/ Interrupt \/ Probe \/ Ack PROVE IInv'
<1>1. CASE ChipInit
  <2>1. ChipTypes'
    BY <1>1 DEF IInv, Types, ChipTypes, ChipInit
  <2>2. (BusTypes /\ TaskTypes /\ TableTypes /\ MainTypes)'
    BY <1>1 DEF IInv, Types, BusTypes, ChipTypes, TaskTypes, TableTypes, MainTypes, Labels,
       ChipInit
  <2>3. Control'
    BY <1>1 DEF IInv, Types, ChipTypes, TaskTypes, MainTypes, Control, Where, Flag, Led,
       Reset, Labels, ChipInit
  <2>4. Tables'
    BY <1>1 DEF IInv, Types, TaskTypes, TableTypes, Tables, Slot0, Prefix, Last, Running,
       Address, PollsEnumeratedDevice, DeviceAnswersAtItsAddress, ChipInit
  <2> QED
    BY <2>1, <2>2, <2>3, <2>4 DEF IInv, Types
<1>2. CASE InitProbe
  <2>1. /\ pc = "init_probe" /\ pc' = "init_ack" /\ seen' = dev
        /\ UNCHANGED <<bus, condet, busevent, frame, busrst, table, usb_error, tmp_addr,
                       hid_addr, delay_over, loop, hirq>>
    BY <1>2 DEF InitProbe
  <2>2. /\ usb_task_state' \in {1, 3, 4, 16, 19}
        /\ usb_task_state' = 19 => usb_task_state = 19
        /\ lowspeed' \in BOOLEAN
    BY <1>2, Probed DEF InitProbe, IInv
  <2>3. Types'
    BY <2>1, <2>2 DEF IInv, Types, BusTypes, ChipTypes, TaskTypes, TableTypes, MainTypes,
       Labels
  <2>4. Control'
    BY <2>1, <2>2 DEF IInv, Types, ChipTypes, TaskTypes, MainTypes, Control, Where, Flag, Led,
       Reset, Labels
  <2>5. Tables'
    BY <2>1, <2>2 DEF IInv, Types, TaskTypes, TableTypes, Tables, Slot0, Prefix, Last,
       Running, Address, PollsEnumeratedDevice, DeviceAnswersAtItsAddress
  <2> QED
    BY <2>3, <2>4, <2>5 DEF IInv
<1>3. CASE InitAck
  <2>1. /\ pc = "init_ack" /\ pc' = "task" /\ USB_init
        /\ led9' = FALSE /\ errorflag' = FALSE /\ condet' = FALSE
        /\ runningdebugflag' = runningdebugflag
        /\ UNCHANGED <<bus, lowspeed, busevent, frame, busrst, task, device, keycode, hirq,
                       seen>>
    BY <1>3 DEF InitAck
  <2>2. runningdebugflag = FALSE
    BY <2>1 DEF IInv, Types, MainTypes, Control, Flag
  <2>3. ChipTypes'
    BY <2>1 DEF IInv, Types, ChipTypes
  <2>4. (BusTypes /\ TaskTypes)'
    BY <2>1 DEF IInv, Types, BusTypes, TaskTypes, Labels
  <2>5. TableTypes'
    BY <2>1, CleanTable DEF IInv, Types, TableTypes
  <2>6. MainTypes'
    BY <2>1, <2>2 DEF IInv, Types, MainTypes
  <2>7. Control'
    <3>1. usb_task_state' = usb_task_state /\ usb_task_state # 64
      BY <2>1 DEF IInv, Control, Where
    <3>2. Where' /\ Flag' /\ Reset'
      BY <2>1, <2>2, <3>1 DEF IInv, Control, Where, Flag, Reset
    <3>3. Led'
      BY <2>1, <2>2, <3>1 DEF Led
    <3> QED
      BY <3>2, <3>3 DEF Control
  <2>8. Tables'
    BY <2>1, CleanTable
    DEF IInv, Control, Where, Tables, Slot0, Prefix, Last, Running, Address,
        PollsEnumeratedDevice, DeviceAnswersAtItsAddress
  <2> QED
    BY <2>3, <2>4, <2>5, <2>6, <2>7, <2>8 DEF IInv, Types
<1>4. CASE NoInterrupt
  <2>1. Types'
    BY <1>4 DEF IInv, Types, BusTypes, ChipTypes, TaskTypes, TableTypes, MainTypes, Labels,
       NoInterrupt
  <2>2. Control'
    BY <1>4 DEF IInv, Types, ChipTypes, TaskTypes, MainTypes, Control, Where, Flag, Led,
       Reset, Labels, NoInterrupt
  <2>3. Tables'
    BY <1>4 DEF IInv, Types, TaskTypes, TableTypes, Tables, Slot0, Prefix, Last, Running,
       Address, PollsEnumeratedDevice, DeviceAnswersAtItsAddress, NoInterrupt
  <2> QED
    BY <2>1, <2>2, <2>3 DEF IInv
<1>5. CASE Interrupt
  <2>1. Types'
    BY <1>5 DEF IInv, Types, BusTypes, ChipTypes, TaskTypes, TableTypes, MainTypes, Labels,
       Interrupt
  <2>2. Control'
    BY <1>5 DEF IInv, Types, ChipTypes, TaskTypes, MainTypes, Control, Where, Flag, Led,
       Reset, Labels, Interrupt
  <2>3. Tables'
    BY <1>5 DEF IInv, Types, TaskTypes, TableTypes, Tables, Slot0, Prefix, Last, Running,
       Address, PollsEnumeratedDevice, DeviceAnswersAtItsAddress, Interrupt
  <2> QED
    BY <2>1, <2>2, <2>3 DEF IInv
<1>6. CASE Probe
  <2>1. /\ pc = "probe" /\ pc' = "ack" /\ seen' = dev
        /\ UNCHANGED <<bus, condet, busevent, frame, busrst, table, usb_error, tmp_addr,
                       hid_addr, delay_over, loop, hirq>>
    BY <1>6 DEF Probe
  <2>2. /\ usb_task_state' \in {1, 2, 3, 4, 5, 16, 17, 19, 20}
        /\ usb_task_state' = 19 => usb_task_state = 19 /\ ~hirq_busevent
        /\ usb_task_state' = 20 => usb_task_state = 19 /\ hirq_busevent
        /\ usb_task_state = 64 => usb_task_state' \in {1, 2, 4, 5, 16, 17}
        /\ lowspeed' \in BOOLEAN
    BY <1>6, ProbedInInterrupt DEF IInv
  <2>3. Types'
    BY <2>1, <2>2 DEF IInv, Types, BusTypes, ChipTypes, TaskTypes, TableTypes, MainTypes,
       Labels
  <2>4. Control'
    BY <2>1, <2>2 DEF IInv, Types, ChipTypes, TaskTypes, MainTypes, Control, Where, Flag, Led,
       Reset, Labels
  <2>5. Tables'
    BY <2>1, <2>2 DEF IInv, Types, TaskTypes, TableTypes, Tables, Slot0, Prefix, Last,
       Running, Address, PollsEnumeratedDevice, DeviceAnswersAtItsAddress
  <2> QED
    BY <2>3, <2>4, <2>5 DEF IInv
<1>7. CASE Ack
  <2>1. ChipTypes'
    BY <1>7 DEF IInv, Types, ChipTypes, Ack
  <2>2. (BusTypes /\ TaskTypes /\ TableTypes /\ MainTypes)'
    BY <1>7 DEF IInv, Types, BusTypes, ChipTypes, TaskTypes, TableTypes, MainTypes, Labels,
       Ack
  <2>3. Control'
    BY <1>7 DEF IInv, Types, ChipTypes, TaskTypes, MainTypes, Control, Where, Flag, Led,
       Reset, Labels, Ack
  <2>4. Tables'
    BY <1>7 DEF IInv, Types, TaskTypes, TableTypes, Tables, Slot0, Prefix, Last, Running,
       Address, PollsEnumeratedDevice, DeviceAnswersAtItsAddress, Ack
  <2> QED
    BY <2>1, <2>2, <2>3, <2>4 DEF IInv, Types
<1> QED
  BY <1>1, <1>2, <1>3, <1>4, <1>5, <1>6, <1>7

\* USB_Task.
LEMMA TaskIInv == ASSUME IInv, UsbTask PROVE IInv'
<1>1. CASE TaskInitialize
  <2>1. Types'
    BY <1>1 DEF IInv, Types, BusTypes, ChipTypes, TaskTypes, TableTypes, MainTypes, Labels,
       TaskInitialize, InTask, USB_init, Slots, Allocable
  <2>2. Control'
    BY <1>1 DEF IInv, Types, ChipTypes, TaskTypes, MainTypes, Control, Where, Flag, Led,
       Reset, Labels, TaskInitialize, InTask, USB_init, Slots, Allocable
  <2>3. Tables'
    BY <1>1, CleanTable
    DEF IInv, Tables, Slot0, Prefix, Last, Running, Address, PollsEnumeratedDevice,
        DeviceAnswersAtItsAddress, TaskInitialize, InTask
  <2> QED
    BY <2>1, <2>2, <2>3 DEF IInv
<1>2. CASE TaskIdle
  <2>1. Types'
    BY <1>2 DEF IInv, Types, BusTypes, ChipTypes, TaskTypes, TableTypes, MainTypes, Labels,
       TaskIdle, InTask
  <2>2. Control'
    BY <1>2 DEF IInv, Types, ChipTypes, TaskTypes, MainTypes, Control, Where, Flag, Led,
       Reset, Labels, TaskIdle, InTask
  <2>3. Tables'
    BY <1>2 DEF IInv, Types, TaskTypes, TableTypes, Tables, Slot0, Prefix, Last, Running,
       Address, PollsEnumeratedDevice, DeviceAnswersAtItsAddress, TaskIdle, InTask
  <2> QED
    BY <2>1, <2>2, <2>3 DEF IInv
<1>3. CASE TaskAttached
  <2>1. ChipTypes'
    BY <1>3 DEF IInv, Types, ChipTypes, TaskAttached
  <2>2. (BusTypes /\ TaskTypes /\ TableTypes /\ MainTypes)'
    BY <1>3 DEF IInv, Types, BusTypes, ChipTypes, TaskTypes, TableTypes, MainTypes, Labels,
       TaskAttached, InTask
  <2>3. Control'
    BY <1>3 DEF IInv, Types, ChipTypes, TaskTypes, MainTypes, Control, Where, Flag, Led,
       Reset, Labels, TaskAttached, InTask
  <2>4. Tables'
    BY <1>3 DEF IInv, Types, TaskTypes, TableTypes, Tables, Slot0, Prefix, Last, Running,
       Address, PollsEnumeratedDevice, DeviceAnswersAtItsAddress, TaskAttached, InTask
  <2> QED
    BY <2>1, <2>2, <2>3, <2>4 DEF IInv, Types
<1>4. CASE TaskSettle
  <2>1. Types'
    BY <1>4 DEF IInv, Types, BusTypes, ChipTypes, TaskTypes, TableTypes, MainTypes, Labels,
       TaskSettle, InTask
  <2>2. Control'
    BY <1>4 DEF IInv, Types, ChipTypes, TaskTypes, MainTypes, Control, Where, Flag, Led,
       Reset, Labels, TaskSettle, InTask
  <2>3. Tables'
    BY <1>4 DEF IInv, Types, TaskTypes, TableTypes, Tables, Slot0, Prefix, Last, Running,
       Address, PollsEnumeratedDevice, DeviceAnswersAtItsAddress, TaskSettle, InTask
  <2> QED
    BY <2>1, <2>2, <2>3 DEF IInv
<1>5. CASE TaskResetDevice
  <2>1. ChipTypes'
    BY <1>5, ConstantsAssumption DEF IInv, Types, ChipTypes, TaskResetDevice, Slots
  <2>2. (BusTypes /\ TaskTypes /\ TableTypes /\ MainTypes)'
    BY <1>5, ConstantsAssumption DEF IInv, Types, BusTypes, ChipTypes, TaskTypes, TableTypes,
       MainTypes, Labels, TaskResetDevice, InTask, Slots
  <2>3. Control'
    BY <1>5 DEF IInv, Types, ChipTypes, TaskTypes, MainTypes, Control, Where, Flag, Led,
       Reset, Labels, TaskResetDevice, InTask
  <2>4. Tables'
    BY <1>5 DEF IInv, Types, TaskTypes, TableTypes, Tables, Slot0, Prefix, Last, Running,
       Address, PollsEnumeratedDevice, DeviceAnswersAtItsAddress, TaskResetDevice, InTask
  <2> QED
    BY <2>1, <2>2, <2>3, <2>4 DEF IInv, Types
<1>6. CASE TaskWaitReset
  <2>1. Types'
    BY <1>6 DEF IInv, Types, BusTypes, ChipTypes, TaskTypes, TableTypes, MainTypes, Labels,
       TaskWaitReset, InTask
  <2>2. Control'
    BY <1>6 DEF IInv, Types, ChipTypes, TaskTypes, MainTypes, Control, Where, Flag, Led,
       Reset, Labels, TaskWaitReset, InTask
  <2>3. Tables'
    BY <1>6 DEF IInv, Types, TaskTypes, TableTypes, Tables, Slot0, Prefix, Last, Running,
       Address, PollsEnumeratedDevice, DeviceAnswersAtItsAddress, TaskWaitReset, InTask
  <2> QED
    BY <2>1, <2>2, <2>3 DEF IInv
<1>7. CASE TaskWaitSof
  <2>1. Types'
    BY <1>7 DEF IInv, Types, BusTypes, ChipTypes, TaskTypes, TableTypes, MainTypes, Labels,
       TaskWaitSof, InTask, FrameTest
  <2>2. Control'
    BY <1>7 DEF IInv, Types, ChipTypes, TaskTypes, MainTypes, Control, Where, Flag, Led,
       Reset, Labels, TaskWaitSof, InTask, FrameTest
  <2>3. Tables'
    BY <1>7 DEF IInv, Types, TaskTypes, TableTypes, Tables, Slot0, Prefix, Last, Running,
       Address, PollsEnumeratedDevice, DeviceAnswersAtItsAddress, TaskWaitSof, InTask,
       FrameTest
  <2> QED
    BY <2>1, <2>2, <2>3 DEF IInv
<1>8. CASE TaskGetDescriptor
  <2>1. Types'
    BY <1>8 DEF IInv, Types, BusTypes, ChipTypes, TaskTypes, TableTypes, MainTypes, Labels,
       TaskGetDescriptor, InTask, Fail, TransferError
  <2>2. Control'
    BY <1>8 DEF IInv, Types, ChipTypes, TaskTypes, MainTypes, Control, Where, Flag, Led,
       Reset, Labels, TaskGetDescriptor, InTask, Fail, TransferError
  <2>3. Tables'
    BY <1>8 DEF IInv, Types, TaskTypes, TableTypes, Tables, Slot0, Prefix, Last, Running,
       Address, PollsEnumeratedDevice, DeviceAnswersAtItsAddress, TaskGetDescriptor, InTask,
       Fail, TransferError
  <2> QED
    BY <2>1, <2>2, <2>3 DEF IInv
<1>9. CASE TaskAddressing
  <2>1. Types'
    BY <1>9, ConstantsAssumption DEF IInv, Types, BusTypes, ChipTypes, TaskTypes, TableTypes,
       MainTypes, Labels, TaskAddressing, InTask, Fail, FirstFree, Slots, Allocable,
       TransferError, Tables, Slot0
  <2>2. Control'
    BY <1>9 DEF IInv, Types, ChipTypes, TaskTypes, MainTypes, Control, Where, Flag, Led,
       Reset, Labels, TaskAddressing, InTask, Fail, FirstFree, Slots, Allocable
  <2>3. Tables'
    BY <1>9, ConstantsAssumption, OutcomesBoolean DEF IInv, Types, TaskTypes, TableTypes,
       Tables, Slot0, Prefix, Last, Running, Address, PollsEnumeratedDevice,
       DeviceAnswersAtItsAddress, TaskAddressing, InTask, Fail, FirstFree, Slots, Allocable,
       NULL
  <2> QED
    BY <2>1, <2>2, <2>3 DEF IInv
<1>10. CASE TaskNoAddress
  <2>1. Types'
    BY <1>10 DEF IInv, Types, BusTypes, ChipTypes, TaskTypes, TableTypes, MainTypes, Labels,
       TaskNoAddress, InTask, Fail, NoAddressAvailable
  <2>2. Control'
    BY <1>10 DEF IInv, Types, ChipTypes, TaskTypes, MainTypes, Control, Where, Flag, Led,
       Reset, Labels, TaskNoAddress, InTask, Fail, NoAddressAvailable
  <2>3. Tables'
    BY <1>10 DEF IInv, Types, TaskTypes, TableTypes, Tables, Slot0, Prefix, Last, Running,
       Address, PollsEnumeratedDevice, DeviceAnswersAtItsAddress, TaskNoAddress, InTask, Fail,
       NoAddressAvailable
  <2> QED
    BY <2>1, <2>2, <2>3 DEF IInv
<1>11. CASE TaskConfiguring
  <2>1. Types'
    BY <1>11, ConstantsAssumption DEF IInv, Types, BusTypes, ChipTypes, TaskTypes, TableTypes,
       MainTypes, Labels, TaskConfiguring, InTask, Fail, NoClientDriver, Claim, HID_K, HID_M,
       Slots
  <2>2. Control'
    BY <1>11 DEF IInv, Types, ChipTypes, TaskTypes, MainTypes, Control, Where, Flag, Led,
       Reset, Labels, TaskConfiguring, InTask, Fail, NoClientDriver
  <2>3. Tables'
    BY <1>11, ConstantsAssumption DEF IInv, Types, TaskTypes, TableTypes, Tables, Slot0,
       Prefix, Last, Running, Address, PollsEnumeratedDevice, DeviceAnswersAtItsAddress,
       TaskConfiguring, InTask, Fail, NoClientDriver, Claim, NULL, Control, Flag, Slots,
       Allocable
  <2> QED
    BY <2>1, <2>2, <2>3 DEF IInv
<1> QED
  BY <1>1, <1>2, <1>3, <1>4, <1>5, <1>6, <1>7, <1>8, <1>9, <1>10, <1>11 DEF UsbTask

\* The rest of main's loop body.
LEMMA MainIInv == ASSUME IInv, Main PROVE IInv'
<1>1. CASE MainStarts
  <2>1. Types'
    BY <1>1, ConstantsAssumption DEF IInv, Types, BusTypes, ChipTypes, TaskTypes, TableTypes,
       MainTypes, Labels, MainStarts, LastClass, Allocated, Slots, Allocable
  <2>2. Control'
    BY <1>1 DEF IInv, Types, ChipTypes, TaskTypes, MainTypes, Control, Where, Flag, Led,
       Reset, Labels, MainStarts, LastClass, Allocated
  <2>3. Tables'
    BY <1>1, ConstantsAssumption DEF IInv, Types, TaskTypes, TableTypes, Tables, Slot0,
       Prefix, Last, Running, Address, PollsEnumeratedDevice, DeviceAnswersAtItsAddress,
       MainStarts, LastClass, Allocated, Allocable, Slots
  <2> QED
    BY <2>1, <2>2, <2>3 DEF IInv
<1>2. CASE MainPollsKeyboard
  <2>1. Types'
    BY <1>2 DEF IInv, Types, BusTypes, ChipTypes, TaskTypes, TableTypes, MainTypes, Labels,
       MainPollsKeyboard
  <2>2. Control'
    BY <1>2 DEF IInv, Types, ChipTypes, TaskTypes, MainTypes, Control, Where, Flag, Led,
       Reset, Labels, MainPollsKeyboard
  <2>3. Tables'
    BY <1>2 DEF IInv, Types, TaskTypes, TableTypes, Tables, Slot0, Prefix, Last, Running,
       Address, PollsEnumeratedDevice, DeviceAnswersAtItsAddress, MainPollsKeyboard
  <2> QED
    BY <2>1, <2>2, <2>3 DEF IInv
<1>3. CASE MainPollsOther
  <2>1. Types'
    BY <1>3 DEF IInv, Types, BusTypes, ChipTypes, TaskTypes, TableTypes, MainTypes, Labels,
       MainPollsOther
  <2>2. Control'
    BY <1>3 DEF IInv, Types, ChipTypes, TaskTypes, MainTypes, Control, Where, Flag, Led,
       Reset, Labels, MainPollsOther
  <2>3. Tables'
    BY <1>3 DEF IInv, Types, TaskTypes, TableTypes, Tables, Slot0, Prefix, Last, Running,
       Address, PollsEnumeratedDevice, DeviceAnswersAtItsAddress, MainPollsOther
  <2> QED
    BY <2>1, <2>2, <2>3 DEF IInv
<1>4. CASE MainError
  <2>1. Types'
    BY <1>4 DEF IInv, Types, BusTypes, ChipTypes, TaskTypes, TableTypes, MainTypes, Labels,
       MainError
  <2>2. Control'
    BY <1>4 DEF IInv, Types, ChipTypes, TaskTypes, MainTypes, Control, Where, Flag, Led,
       Reset, Labels, MainError
  <2>3. Tables'
    BY <1>4 DEF IInv, Types, TaskTypes, TableTypes, Tables, Slot0, Prefix, Last, Running,
       Address, PollsEnumeratedDevice, DeviceAnswersAtItsAddress, MainError
  <2> QED
    BY <2>1, <2>2, <2>3 DEF IInv
<1>5. CASE MainStopped
  <2>1. ChipTypes'
    BY <1>5 DEF IInv, Types, ChipTypes, MainStopped
  <2>2. (BusTypes /\ TaskTypes /\ TableTypes)'
    BY <1>5 DEF IInv, Types, BusTypes, TaskTypes, TableTypes, Labels, MainStopped
  <2>5. MainTypes'
    BY <1>5 DEF IInv, Types, MainTypes, MainStopped
  <2>3. Control'
    BY <1>5 DEF IInv, Types, ChipTypes, TaskTypes, MainTypes, Control, Where, Flag, Led,
       Reset, Labels, MainStopped
  <2>4. Tables'
    BY <1>5 DEF IInv, Types, TaskTypes, TableTypes, Tables, Slot0, Prefix, Last, Running,
       Address, PollsEnumeratedDevice, DeviceAnswersAtItsAddress, MainStopped
  <2> QED
    BY <2>1, <2>2, <2>3, <2>4, <2>5 DEF IInv, Types
<1>6. CASE MainWaits
  <2>1. ChipTypes'
    BY <1>6 DEF IInv, Types, ChipTypes, MainWaits
  <2>2. (BusTypes /\ TaskTypes /\ TableTypes)'
    BY <1>6 DEF IInv, Types, BusTypes, TaskTypes, TableTypes, Labels, MainWaits
  <2>5. MainTypes'
    BY <1>6 DEF IInv, Types, MainTypes, MainWaits
  <2>3. Control'
    BY <1>6 DEF IInv, Types, ChipTypes, TaskTypes, MainTypes, Control, Where, Flag, Led,
       Reset, Labels, MainWaits
  <2>4. Tables'
    BY <1>6 DEF IInv, Types, TaskTypes, TableTypes, Tables, Slot0, Prefix, Last, Running,
       Address, PollsEnumeratedDevice, DeviceAnswersAtItsAddress, MainWaits
  <2> QED
    BY <2>1, <2>2, <2>3, <2>4, <2>5 DEF IInv, Types
<1> QED
  BY <1>1, <1>2, <1>3, <1>4, <1>5, <1>6 DEF Main

\* The user, the chip and the clock.
LEMMA EnvironmentIInv == ASSUME IInv, Environment PROVE IInv'
<1>1. CASE Plug
  <2>1. Types'
    BY <1>1, ConstantsAssumption DEF IInv, Types, BusTypes, ChipTypes, TaskTypes, TableTypes,
       MainTypes, Labels, Plug, Slots
  <2>2. Control'
    BY <1>1 DEF IInv, Types, ChipTypes, TaskTypes, MainTypes, Control, Where, Flag, Led,
       Reset, Labels, Plug
  <2>3. Tables'
    BY <1>1 DEF IInv, Types, TaskTypes, TableTypes, Tables, Slot0, Prefix, Last, Running,
       Address, PollsEnumeratedDevice, DeviceAnswersAtItsAddress, Plug
  <2> QED
    BY <2>1, <2>2, <2>3 DEF IInv
<1>2. CASE Unplug
  <2>1. Types'
    BY <1>2 DEF IInv, Types, BusTypes, ChipTypes, TaskTypes, TableTypes, MainTypes, Labels,
       Unplug
  <2>2. Control'
    BY <1>2 DEF IInv, Types, ChipTypes, TaskTypes, MainTypes, Control, Where, Flag, Led,
       Reset, Labels, Unplug
  <2>3. Tables'
    BY <1>2 DEF IInv, Types, TaskTypes, TableTypes, Tables, Slot0, Prefix, Last, Running,
       Address, PollsEnumeratedDevice, DeviceAnswersAtItsAddress, Unplug
  <2> QED
    BY <2>1, <2>2, <2>3 DEF IInv
<1>3. CASE BusResetDone
  <2>1. ChipTypes'
    BY <1>3 DEF IInv, Types, ChipTypes, BusResetDone
  <2>2. (BusTypes /\ TaskTypes /\ TableTypes /\ MainTypes)'
    BY <1>3 DEF IInv, Types, BusTypes, ChipTypes, TaskTypes, TableTypes, MainTypes, Labels,
       BusResetDone
  <2>3. Control'
    BY <1>3 DEF IInv, Types, ChipTypes, TaskTypes, MainTypes, Control, Where, Flag, Led,
       Reset, Labels, BusResetDone
  <2>4. Tables'
    BY <1>3 DEF IInv, Types, TaskTypes, TableTypes, Tables, Slot0, Prefix, Last, Running,
       Address, PollsEnumeratedDevice, DeviceAnswersAtItsAddress, BusResetDone
  <2> QED
    BY <2>1, <2>2, <2>3, <2>4 DEF IInv, Types
<1>4. CASE BusResetDetected
  <2>1. Types'
    BY <1>4 DEF IInv, Types, BusTypes, ChipTypes, TaskTypes, TableTypes, MainTypes, Labels,
       BusResetDetected
  <2>2. Control'
    BY <1>4 DEF IInv, Types, ChipTypes, TaskTypes, MainTypes, Control, Where, Flag, Led,
       Reset, Labels, BusResetDetected
  <2>3. Tables'
    BY <1>4 DEF IInv, Types, TaskTypes, TableTypes, Tables, Slot0, Prefix, Last, Running,
       Address, PollsEnumeratedDevice, DeviceAnswersAtItsAddress, BusResetDetected
  <2> QED
    BY <2>1, <2>2, <2>3 DEF IInv
<1>5. CASE StartOfFrame
  <2>1. Types'
    BY <1>5 DEF IInv, Types, BusTypes, ChipTypes, TaskTypes, TableTypes, MainTypes, Labels,
       StartOfFrame
  <2>2. Control'
    BY <1>5 DEF IInv, Types, ChipTypes, TaskTypes, MainTypes, Control, Where, Flag, Led,
       Reset, Labels, StartOfFrame
  <2>3. Tables'
    BY <1>5 DEF IInv, Types, TaskTypes, TableTypes, Tables, Slot0, Prefix, Last, Running,
       Address, PollsEnumeratedDevice, DeviceAnswersAtItsAddress, StartOfFrame
  <2> QED
    BY <2>1, <2>2, <2>3 DEF IInv
<1>6. CASE DelayElapses
  <2>1. Types'
    BY <1>6 DEF IInv, Types, BusTypes, ChipTypes, TaskTypes, TableTypes, MainTypes, Labels,
       DelayElapses
  <2>2. Control'
    BY <1>6 DEF IInv, Types, ChipTypes, TaskTypes, MainTypes, Control, Where, Flag, Led,
       Reset, Labels, DelayElapses
  <2>3. Tables'
    BY <1>6 DEF IInv, Types, TaskTypes, TableTypes, Tables, Slot0, Prefix, Last, Running,
       Address, PollsEnumeratedDevice, DeviceAnswersAtItsAddress, DelayElapses
  <2> QED
    BY <2>1, <2>2, <2>3 DEF IInv
<1> QED
  BY <1>1, <1>2, <1>3, <1>4, <1>5, <1>6 DEF Environment

\* A step that changes nothing.
LEMMA StutterIInv == ASSUME IInv, UNCHANGED vars PROVE IInv'
<1>1. Types'
  BY DEF vars, IInv, Types, BusTypes, ChipTypes, TaskTypes, TableTypes, MainTypes
<1>2. Control'
  BY DEF vars, IInv, Control, Where, Flag, Led, Reset
<1>3. Tables'
  BY DEF vars, IInv, Tables, Slot0, Prefix, Last, Running, Address, PollsEnumeratedDevice,
     DeviceAnswersAtItsAddress
<1> QED
  BY <1>1, <1>2, <1>3 DEF IInv

\* Power-up satisfies the invariant.
LEMMA InitIInv == ASSUME Init PROVE IInv
<1>1. Types
  <2>1. 0 \in Slots
    BY ConstantsAssumption DEF Slots
  <2>2. BusTypes /\ TaskTypes /\ TableTypes
    BY <2>1 DEF Init, BusTypes, TaskTypes, TableTypes, Labels
  <2>3. ChipTypes
    BY DEF Init, ChipTypes
  <2>4. MainTypes
    BY ConstantsAssumption DEF Init, MainTypes
  <2> QED
    BY <2>2, <2>3, <2>4 DEF Types
<1>2. Control
  BY DEF Init, Control, Where, Flag, Led, Reset
<1>3. Tables
  BY DEF Init, Tables, Slot0, Prefix, Last, Running, Address, PollsEnumeratedDevice,
     DeviceAnswersAtItsAddress, Allocable, Slots
<1> QED
  BY <1>1, <1>2, <1>3 DEF IInv

-----------------------------------------------------------------------------
(* The theorems *)

\* The invariant holds in every reachable state, for any number of slots, any
\* devices and any of the windows in which the bus may change.
THEOREM SpecIInv == Spec => []IInv
<1>1. IInv /\ [Next]_vars => IInv'
  BY HandlerIInv, TaskIInv, MainIInv, EnvironmentIInv, StutterIInv DEF Next, Firmware
<1> QED
  BY InitIInv, <1>1, PTL DEF Spec

\* The variables of the host never leave their ranges: in particular
\* usb_task_state++ reaches no value but those of TaskStates.
THEOREM SpecTypeOK == Spec => []TypeOK
<1>1. IInv => TypeOK
  BY DEF IInv, Types, BusTypes, ChipTypes, TaskTypes, TableTypes, MainTypes, TypeOK
<1> QED
  BY <1>1, SpecIInv, PTL

\* The device main polls is the one the task has just configured.
THEOREM SpecPollsEnumeratedDevice == Spec => []PollsEnumeratedDevice
<1>1. IInv => PollsEnumeratedDevice
  BY DEF IInv, Tables, Running
<1> QED
  BY <1>1, SpecIInv, PTL

\* A configured device has the address the host uses, or has lost it.
THEOREM SpecDeviceAnswers == Spec => []DeviceAnswersAtItsAddress
<1>1. IInv => DeviceAnswersAtItsAddress
  BY DEF IInv, Tables, Address
<1> QED
  BY <1>1, SpecIInv, PTL

\* No transfer is attempted while the chip drives a bus reset.
THEOREM SpecNoTransferDuringBusReset == Spec => []NoTransferDuringBusReset
<1>1. IInv => NoTransferDuringBusReset
  BY DEF IInv, Control, Reset, NoTransferDuringBusReset
<1> QED
  BY <1>1, SpecIInv, PTL

\* LED 9 agrees with the state machine whenever main looks at it.
THEOREM SpecLed9ShowsRunning == Spec => []Led9ShowsRunning
<1>1. IInv => Led9ShowsRunning
  BY DEF IInv, Types, MainTypes, Control, Flag, Led, Led9ShowsRunning
<1> QED
  BY <1>1, SpecIInv, PTL

\* Slot 1 exists and is in use whenever the host runs.
THEOREM SpecSlotsFillFromOne == Spec => []SlotsFillFromOne
<1>1. IInv => SlotsFillFromOne
  <2>1. ASSUME IInv PROVE usb_task_state = USB_STATE_RUNNING => epinfo[1] # NULL
    <3>1. 1 \in Allocable
      BY ConstantsAssumption DEF Allocable
    <3> QED
      BY <2>1, <3>1, ConstantsAssumption DEF IInv, Tables, Prefix, Last, Allocable
  <2> QED
    BY <2>1 DEF IInv, Tables, Prefix, Slot0, SlotsFillFromOne
<1> QED
  BY <1>1, SpecIInv, PTL

-----------------------------------------------------------------------------
(* With a bus that is quiet while a change is acknowledged *)

Early == pc \in {"chip", "init_probe"}

\* The probe that a pending interrupt asks for has been made, and its
\* acknowledgement is still to come.
Probing == pc \in {"ack", "init_ack"}

\* What the last probe saw is there until the bus changes after the probe.
SeenIsPlugged == (Probing \/ (~condet /\ ~Early)) => seen = dev

Fits == dev # NoDevice /\ (dev.speed = "low") = lowspeed

\* The chip is initialised again only from a state the task has just left, or
\* at power-up: never while a bus reset is awaited.
Restart == Early => usb_task_state \in {1, 2, 3, 4, 5, 17, 18}

\* The host runs at the speed of the device the last probe saw.  A probe in the
\* middle of a reset does not correct the speed, so no other device may have
\* taken the place of the one that is reset.
SpeedFits ==
  /\ usb_task_state \in 16..64 /\ ~Early /\ (Probing \/ ~condet) => Fits
  /\ usb_task_state = 19 \/ (usb_task_state = 18 /\ pc = "usb") => dev = NoDevice \/ Fits

\* With no bus change between a probe and its acknowledgement, every change is
\* seen by some probe or still pending.
LEMMA SeenStep ==
  ASSUME "ack" \notin Windows, IInv, SeenIsPlugged, [Next]_vars
  PROVE  SeenIsPlugged'
<1> USE DEF SeenIsPlugged, Probing, Early
<1> condet \in BOOLEAN
  BY DEF IInv, Types, ChipTypes
<1>1. CASE ChipInit \/ InitProbe \/ InitAck
  BY <1>1 DEF ChipInit, InitProbe, InitAck
<1>2. CASE NoInterrupt \/ Interrupt \/ Probe \/ Ack
  BY <1>2 DEF NoInterrupt, Interrupt, Probe, Ack
<1>3. CASE UsbTask
  BY <1>3 DEF UsbTask, TaskInitialize, TaskIdle, TaskAttached, TaskSettle, TaskResetDevice,
     TaskWaitReset, TaskWaitSof, TaskGetDescriptor, TaskAddressing, TaskNoAddress,
     TaskConfiguring, InTask
<1>4. CASE Main
  BY <1>4 DEF Main, MainStarts, MainPollsKeyboard, MainPollsOther, MainError, MainStopped,
     MainWaits
<1>5. CASE Environment
  BY <1>5 DEF Environment, Plug, Unplug, BusMayChange, BusResetDone, BusResetDetected,
     StartOfFrame, DelayElapses
<1>6. CASE UNCHANGED vars
  BY <1>6 DEF vars
<1> QED
  BY <1>1, <1>2, <1>3, <1>4, <1>5, <1>6 DEF Next, Firmware

\* A probe outside a reset leaves the host at the speed of the device it finds,
\* and one during a reset leaves the speed alone.
LEMMA ProbedFits ==
  ASSUME Types, SpeedFits, dev' = dev, lowspeed' = ProbedSpeed(usb_task_state),
         ProbedState(usb_task_state) \in {16, 19}
  PROVE  Fits'
<1>1. BusSample \in {"J", "K"}
  BY DEF ProbedState, BusSample
<1>2. /\ dev # NoDevice /\ dev.speed # "faulty"
      /\ BusSample = "J" => (dev.speed = "low") = lowspeed
      /\ BusSample = "K" => (dev.speed = "low") # lowspeed
  BY <1>1, Zenon DEF BusSample, Types, ChipTypes
<1>3. CASE usb_task_state = 19
  BY <1>2, <1>3 DEF SpeedFits, Fits, ProbedSpeed, IsDetached
<1>4. CASE usb_task_state # 19
  <2>1. CASE BusSample = "J"
    <3>1. lowspeed' = lowspeed
      BY <2>1, Zenon DEF ProbedSpeed
    <3> QED
      BY <1>2, <2>1, <3>1, Zenon DEF Fits
  <2>2. CASE BusSample = "K"
    <3>1. lowspeed' = ~lowspeed
      BY <1>4, <2>2, Zenon DEF ProbedSpeed
    <3>2. lowspeed \in BOOLEAN
      BY DEF Types, ChipTypes
    <3>3. ((dev.speed = "low") = ~lowspeed)
      BY <1>2, <2>2, <3>2, Zenon
    <3> QED
      BY <1>2, <3>1, <3>3, Zenon DEF Fits
  <2> QED
    BY <1>1, <2>1, <2>2
<1> QED
  BY <1>3, <1>4

\* Only main's "else" branch goes back to the initialisation of the chip.
LEMMA RestartStep == ASSUME IInv, Restart, [Next]_vars PROVE Restart'
<1> USE DEF Restart, Early
<1>1. CASE ChipInit \/ InitProbe \/ InitAck
  BY <1>1 DEF ChipInit, InitProbe, InitAck
<1>2. CASE NoInterrupt \/ Interrupt \/ Probe \/ Ack
  BY <1>2 DEF NoInterrupt, Interrupt, Probe, Ack
<1>3. CASE UsbTask
  BY <1>3 DEF UsbTask, TaskInitialize, TaskIdle, TaskAttached, TaskSettle, TaskResetDevice,
     TaskWaitReset, TaskWaitSof, TaskGetDescriptor, TaskAddressing, TaskNoAddress,
     TaskConfiguring, InTask
<1>4. CASE Main
  BY <1>4 DEF Main, MainStarts, MainPollsKeyboard, MainPollsOther, MainError, MainStopped,
     MainWaits, IInv, Control, Flag
<1>5. CASE Environment
  BY <1>5 DEF Environment, Plug, Unplug, BusResetDone, BusResetDetected, StartOfFrame,
     DelayElapses
<1>6. CASE UNCHANGED vars
  BY <1>6 DEF vars
<1> QED
  BY <1>1, <1>2, <1>3, <1>4, <1>5, <1>6 DEF Next, Firmware

\* No step leaves the host at another speed than that of the device it has seen.
LEMMA SpeedStep ==
  ASSUME Windows = {}, IInv, Restart, SpeedFits, [Next]_vars
  PROVE  SpeedFits'
<1> DEFINE Quiet == dev' = dev /\ lowspeed' = lowspeed
<1>a. condet \in BOOLEAN /\ usb_task_state \in TaskStates
  BY DEF IInv, Types, ChipTypes, TaskTypes
<1>b. Quiet => (Fits => Fits')
  BY DEF Fits
<1>1. CASE ChipInit
  BY <1>1 DEF ChipInit, Restart, SpeedFits, Early, Probing
<1>2. CASE InitProbe
  <2>1. /\ pc = "init_probe" /\ pc' = "init_ack" /\ dev' = dev
        /\ usb_task_state' = ProbedState(usb_task_state)
        /\ lowspeed' = ProbedSpeed(usb_task_state)
    BY <1>2 DEF InitProbe
  <2>2. usb_task_state' \in {1, 3, 4, 16, 19}
    BY <2>1, Probed DEF IInv
  <2>3. usb_task_state' \in {16, 19} => Fits'
    BY <2>1, ProbedFits DEF IInv
  <2> QED
    BY <2>1, <2>2, <2>3 DEF SpeedFits
<1>3. CASE InitAck
  <2>1. /\ pc = "init_ack" /\ pc' = "task" /\ Quiet /\ usb_task_state' = usb_task_state
    BY <1>3 DEF InitAck
  <2> QED
    BY <1>b, <2>1 DEF SpeedFits, Early, Probing
<1>4. CASE NoInterrupt
  <2>1. /\ pc = "task" /\ pc' = "usb" /\ Quiet /\ usb_task_state' = usb_task_state /\ ~condet
    BY <1>4 DEF NoInterrupt
  <2> QED
    BY <1>b, <2>1 DEF SpeedFits, Early, Probing
<1>5. CASE Interrupt
  <2>1. /\ pc = "task" /\ pc' = "probe" /\ Quiet /\ usb_task_state' = usb_task_state
        /\ condet /\ condet' = condet
    BY <1>5 DEF Interrupt
  <2> QED
    BY <1>b, <2>1 DEF SpeedFits, Early, Probing
<1>6. CASE Probe
  <2>1. /\ pc = "probe" /\ pc' = "ack" /\ dev' = dev
        /\ usb_task_state' \in {ProbedState(usb_task_state), ProbedState(usb_task_state) + 1}
        /\ lowspeed' = ProbedSpeed(usb_task_state)
    <3>1. CASE hirq_busevent
      BY <1>6, <3>1 DEF Probe
    <3>2. CASE ~hirq_busevent
      <4>1. usb_task_state' = ProbedState(usb_task_state) + 0
        BY <1>6, <3>2, Zenon DEF Probe
      <4>2. ProbedState(usb_task_state) \in {1, 3, 4, 16, 19}
        BY Probed DEF IInv
      <4>3. usb_task_state' = ProbedState(usb_task_state)
        BY <4>1, <4>2
      <4> QED
        BY <1>6, <4>3 DEF Probe
    <3> QED
      BY <3>1, <3>2
  <2>2. ProbedState(usb_task_state) \in {1, 3, 4, 16, 19}
    BY Probed DEF IInv
  <2>3. ProbedState(usb_task_state) \in {16, 19} => Fits'
    BY <2>1, ProbedFits DEF IInv
  <2> QED
    BY <2>1, <2>2, <2>3 DEF SpeedFits
<1>7. CASE Ack
  <2>1. /\ pc = "ack" /\ pc' = "usb" /\ Quiet /\ usb_task_state' = usb_task_state
    BY <1>7 DEF Ack
  <2> QED
    BY <1>b, <2>1 DEF SpeedFits, Early, Probing
<1>8. CASE UsbTask
  <2>1. /\ pc = "usb" /\ pc' = "main" /\ Quiet
        /\ condet' = condet
    BY <1>8 DEF UsbTask, TaskInitialize, TaskIdle, TaskAttached, TaskSettle, TaskResetDevice,
       TaskWaitReset, TaskWaitSof, TaskGetDescriptor, TaskAddressing, TaskNoAddress,
       TaskConfiguring, InTask
  <2>2. usb_task_state' \in 16..64 => usb_task_state \in 16..64
    BY <1>8, <1>a DEF UsbTask, TaskInitialize, TaskIdle, TaskAttached, TaskSettle,
       TaskResetDevice, TaskWaitReset, TaskWaitSof, TaskGetDescriptor, TaskAddressing,
       TaskNoAddress, TaskConfiguring, InTask, Fail
  <2>3. usb_task_state' = 19 => usb_task_state \in {18, 19}
    BY <1>8, <1>a DEF UsbTask, TaskInitialize, TaskIdle, TaskAttached, TaskSettle,
       TaskResetDevice, TaskWaitReset, TaskWaitSof, TaskGetDescriptor, TaskAddressing,
       TaskNoAddress, TaskConfiguring, InTask, Fail
  <2> QED
    BY <1>a, <1>b, <2>1, <2>2, <2>3 DEF SpeedFits, Early, Probing
<1>9. CASE Main
  <2>1. /\ pc = "main" /\ pc' \in {"task", "chip"} /\ Quiet
        /\ condet' = condet /\ usb_task_state' = usb_task_state
    BY <1>9 DEF Main, MainStarts, MainPollsKeyboard, MainPollsOther, MainError, MainStopped,
       MainWaits
  <2> QED
    BY <1>a, <1>b, <2>1 DEF SpeedFits, Early, Probing
<1>10. CASE Plug
  <2>1. /\ pc' = pc /\ usb_task_state' = usb_task_state /\ condet'
        /\ ~Probing /\ usb_task_state \notin {18, 19}
    BY <1>10 DEF Plug, BusMayChange, DeviceMayAppear, Probing
  <2> QED
    BY <2>1 DEF SpeedFits, Probing
<1>11. CASE Unplug
  <2>1. /\ pc' = pc /\ usb_task_state' = usb_task_state /\ condet' /\ dev' = NoDevice
        /\ ~Probing
    BY <1>11 DEF Unplug, BusMayChange, Probing
  <2> QED
    BY <2>1 DEF SpeedFits, Probing
<1>12. CASE BusResetDone \/ BusResetDetected \/ StartOfFrame \/ DelayElapses \/ UNCHANGED vars
  <2>1. /\ pc' = pc /\ usb_task_state' = usb_task_state /\ Quiet
        /\ condet' = condet \/ condet'
    BY <1>12 DEF BusResetDone, BusResetDetected, StartOfFrame, DelayElapses, vars
  <2> QED
    BY <1>a, <1>b, <2>1 DEF SpeedFits, Early, Probing
<1> QED
  BY <1>1, <1>2, <1>3, <1>4, <1>5, <1>6, <1>7, <1>8, <1>9, <1>10, <1>11, <1>12
  DEF Next, Firmware, Environment

\* No change of the bus is lost if none falls between a probe and the write
\* that acknowledges it.
THEOREM SpecNoUnseenChange ==
  ASSUME "ack" \notin Windows
  PROVE  Spec => []NoUnseenChange
<1>1. Init => SeenIsPlugged
  BY DEF Init, SeenIsPlugged, Probing, Early
<1>2. IInv /\ SeenIsPlugged /\ [Next]_vars => SeenIsPlugged'
  BY SeenStep
<1>3. SeenIsPlugged => NoUnseenChange
  BY DEF SeenIsPlugged, NoUnseenChange, Early
<1> QED
  BY <1>1, <1>2, <1>3, SpecIInv, PTL DEF Spec

\* Under the same hypothesis the comment of the source on CONDETIRQ is true:
\* the change that is acknowledged is one the probe has seen.  The run usb_ack
\* shows that the hypothesis is needed.
THEOREM SpecAckedChangeWasSeen ==
  ASSUME "ack" \notin Windows
  PROVE  Spec => AckedChangeWasSeen
<1> DEFINE Acked == pc = "ack" /\ condet /\ ~condet' => seen = dev
<1>1. Init => SeenIsPlugged
  BY DEF Init, SeenIsPlugged, Probing, Early
<1>2. IInv /\ SeenIsPlugged /\ [Next]_vars => SeenIsPlugged'
  BY SeenStep
<1>3. SeenIsPlugged => Acked
  BY DEF SeenIsPlugged, Probing
<1> QED
  BY <1>1, <1>2, <1>3, SpecIInv, PTL DEF Spec, AckedChangeWasSeen

\* A device is enumerated at its own speed if, besides, no device takes the
\* place of another during a bus reset.
THEOREM SpecSpeedMatches ==
  ASSUME Windows = {}
  PROVE  Spec => []SpeedMatches
<1> DEFINE SInv == Restart /\ SpeedFits
<1>1. Init => SInv
  BY DEF Init, Restart, SpeedFits, Early, Probing
<1>2. IInv /\ SInv /\ [Next]_vars => SInv'
  BY RestartStep, SpeedStep
<1>3. SInv => SpeedMatches
  BY DEF SpeedFits, Fits, Early, SpeedMatches
<1> QED
  BY <1>1, <1>2, <1>3, SpecIInv, PTL DEF Spec
=============================================================================
