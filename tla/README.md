# Super ECE Bros: a specification

Super ECE Bros is a platform game on a DE10-Lite FPGA.  A USB keyboard hangs on
a MAX3421E host controller; a Nios II soft processor runs a small USB host
(`software/fp_pt2`) that reaches the chip through a polled SPI core and writes
the two keys held into a 16-bit port.  Under it lies the board support package
(`software/fp_pt2_bsp`): start-up, interrupts, the system clock, file
descriptors and the console on a JTAG UART.  SystemVerilog modules (`*.sv`) read
the port, move Mario and the enemy, scroll the world and draw it on a VGA screen.

This directory holds TLA+ modules of the parts with behaviour of their own, TLC
configurations that check them, and TLAPS proofs.  Paths below are relative to
the repository.

## 1. Inventory

| part | code | state | operations | modelled |
|---|---|---|---|---|
| SPI command routine and core | `fp_pt2_bsp/drivers/src/altera_avalon_spi.c`, `lab62_soc_spi_0.v` | loop counters and credit; holding, shift and receive registers, status bits | one call exchanges *w* bytes out, *r* bytes in | `SpiExchange`, `SpiCommand` |
| chip access | `MAX3421E.c` 30–95 | none | register and FIFO reads and writes, each one SPI call | the requests of `SpiExchange` |
| interrupt task, bus probe, chip init | `MAX3421E.c` 96–228 | `rHIRQ`, `rMODE`, `usb_task_state` | `MAX3421E_init`, `MAX3421E_Task`, `MaxIntHandler`, `MAX_busprobe` | `UsbHost` |
| USB task | `transfer.c` 228–385 | `usb_task_state`, `usb_error`, `devtable`, `tmp_addr`, `usb_delay` | `USB_init`, `USB_Task` | `UsbHost`; the states of an enumeration again in `Enumeration` |
| control transfers | `transfer.c` 72–227 | `devtable`, retry counters, the buffer | `XferCtrlReq`, `XferCtrlND`, `XferCtrlData`, `XferInTransfer`, `XferDispatchPkt` | `ControlRequest`, `Enumeration` |
| HID drivers | `HID.c` | `hid_device`, `hid_ep` | the two probes and their walk over the configuration, `HID_init`, the two polls | `Enumeration` (probes), `XferIn` (polls) |
| interrupt endpoint | `transfer.c` 100–227, `HID.c` polls | the toggle in `epinfo`, retry counters | `kbdPoll`, `mousePoll` | `ReportStream`, `XferIn` |
| main loop | `main.c` | `runningdebugflag`, `errorflag`, `device` | `main`, `GetDriverandReport` | `UsbHost` |
| output ports, reset of the chip | `main.c` 32–126, `MAX3421E.c` 98–116, `alt_busy_sleep.c` | LED, HEX and keycode ports, the reset pin | `setLED` to `setKeycode`, `MAX3421E_reset`, `usleep` | `Board` |
| JTAG UART driver | `altera_avalon_jtag_uart_*.c`, `lab62_soc_jtag_uart_0.v`, `alt_irq_handler.c` | two rings, `irq_enable`, `host_inactive`, FIFOs | read, write, close, ioctl, the interrupt routine, the alarm | `ConsoleStream`, `JtagUart` |
| system clock | `alt_tick.c`, `alt_alarm_start.c`, `alt_llist.h`, `alt_gettod.c`, `alt_settod.c` | `_alt_nticks`, the alarm list, the time of day | start, stop, the tick, both waits of the USB host | `Countdown`, `Clock` |
| file descriptors | `alt_open.c` … `alt_fd_lock.c`, `alt_io_redirect.c`, `alt_dev.c` | `alt_fd_list`, `alt_max_fd`, driver lists | every call that is vectored to a driver, locks, redirection | `Descriptors`, `Files` |
| interrupt interface | `alt_irq_handler.c`, `alt_iic.c`, `alt_legacy_irq.h` | handler table, `alt_irq_active`, mask, status | register, enable, critical sections, nested handlers | `Interrupts` |
| exception entry | `alt_exception_entry.S`, `alt_irq_entry.S`, `alt_instruction_exception_*.c` | the frames on the stack, `estatus`, `ea` | entry, dispatch, return | `Exceptions` |
| start and end | `crt0.S`, `alt_load.c`, `alt_main.c`, `alt_do_ctors.c`, `alt_do_dtors.c` | memory image | clear, copy, constructors, main, destructors, a debugger's reset | `Process` |
| profiler, heap | `alt_mcount.S`, `alt_gmon.c`, `alt_sbrk.c` | the call graph, slabs, the break | a call, a sample, an allocation | `Profile` |
| `alt_printf`, log | `alt_printf.c`, `alt_log_printf.c` | position in the format; log flags, the UART FIFO | formatting, echo, heartbeat, reports | `Text`, `Log` |
| timestamps | `altera_avalon_timer_ts.c` | the timer and its snapshot | start, read | `Timestamp` |
| Mario's state machine | `mario_fsm.sv` | `State`, velocities, directions | one tick of its 60 Hz clock | `MarioGame` |
| Mario's position | `mario.sv` | position, scroll offset, two dividers | one update per frame, reset | `MarioGame` |
| screens | `screenfsm.sv` | title, game, end | start, finish, reset | `MarioGame` |
| collider map | `world1_1_collider`, `collider_maker.py` | a ROM of 15 × 80 bits | lookup | the blocks of `Levels` |
| enemy | `goomba.sv` | position, direction, steps | step, turn, reset | `Goomba`; with Mario in `Game` |
| picture timing, painter, decoder, ROMs | `VGA_controller.sv`, `world1_1_example.sv`, `HexDriver.sv`, `*_rom.sv` | the pixel being drawn | – | no |
| wiring, processor, rest of the BSP | `lab62.sv`, `lab62_soc`, flash, DMA, caches | – | – | no |

**How they interact.**  `main` calls, in a loop with no other thread, the
interrupt task, the USB task and a poll.  The interrupts of the MAX3421E are
polled through a pin; those of the timer and the JTAG UART are real and come
between any two instructions.  The chip, the bus and the user change things
between any two register accesses.  Every access is an SPI call whose loop runs
against the SPI core.  Waits read the tick counter that the timer's routine
advances.  `printf` goes through a descriptor to the JTAG UART driver, which
shares its rings with two interrupt routines, its own and that of the clock,
which counts for it how long the host has been away.  The firmware and the game
share only the keycode port.  In the game the state machine reads the position,
the position register reads the velocities, each on its own clock derived from
the pixel clock; the screen module lets the position move and reads the scroll
offset; the reset button reaches all of them, and the state machine only on a
running clock.  It does not reach the processor (`lab62.sv` 119, 129): that starts
again only when a debugger asks for it.

**What is hard, and what makes it correct.**

* SPI: one byte of credit must keep both sides of the core from overrunning,
  with a status word that is stale by the time its second half is used.
  Correct: a call is one atomic exchange.
* Host: a device comes, goes or is swapped in any state; a bus reset raises
  interrupts of its own; the interrupt handler *increments* the task's state;
  transfers fail half-way.  Correct: what is polled is what was configured, at
  the address and speed of the device; a change of the bus is not lost; a device
  that stays is polled in the end.
* Enumeration: some results are overwritten before they are looked at; the
  tables still hold what the last device left; lengths come from the device.
  Correct: a device that runs, runs on both sides.
* IN transfers: packets and acknowledgements are lost; the toggle must survive
  from poll to poll.  Correct: each report once, whole and in order.
* Console: a call and two interrupt routines move the indices of the same rings
  and turn the same interrupts on and off; the host may never come.  Correct: a
  byte stream, and no call that hangs.
* Clock: a list walked while its elements remove themselves, and a counter that
  wraps.  Correct: every alarm at its tick, no wait cut short.
* Descriptors, interrupts, exceptions, profiler, start-up, log: sequences of
  calls, resets and nested routines that nobody writes tests for.
* Mario: two alternating clocks, a look-ahead for collisions, fixed point
  registers that wrap, a reset that reaches half of the state.  Correct: no
  walking through walls, no speed beyond the limit, every jump ends, the game can
  be won.  The second of these the code does not keep (`SpeedLimit` says how much
  of it).
* Enemy: a counter compared for equality, resets in mid-count.  Correct: it walks
  around the place where it started.

The hazards are listed one by one, at their lines, in `PROJECT.json`.  Left out
there, because no property here could watch them: the display of −128, whose
magnitude does not fit a signed char (`main.c:78`); `hid_device.epAddr`, stored
and never used; an alarm started twice, which ties the list into a knob that no
caller here ties; a call on a closed descriptor, which has no driver to call; a
log that waits for a host with interrupts on and for ever.

## 2. Modules

```
SpiExchange    <--implements-- SpiCommand   <-- SpiCommandProofs
UsbHost        <-- MCUsbHost (devices)          UsbHost     <-- UsbHostProofs
ControlRequest <--implements-- Enumeration  <-- EnumerationProofs
                               Enumeration  <-- MCEnumeration (devices)
ReportStream   <--implements-- XferIn       <-- XferInProofs
ConsoleStream  <--implements-- JtagUart     <-- JtagUartProofs
                               JtagUart     <-- MCJtagUart (applications)
Countdown      <--implements-- Clock        <-- ClockProofs
                               Clock        <-- MCClock
Descriptors    <--implements-- Files

MarioGame --+
Goomba -----+--> Game    <-- MCGame (levels)        Game    <-- GameProofs
Files, Profile, Exceptions, Board, Interrupts, Process, Text, Log, Timestamp
   ------------> Library <-- MCLibrary              Library <-- LibraryProofs
Powers --> Text, Log       Library, LogInvariant --> LibraryInvariants --> LibraryProofs
```

An arrow without a label is EXTENDS, from left to right the module extended.

### SpiExchange, SpiCommand
`SpiExchange` promises: a call sends exactly its bytes followed by zeros and
returns exactly the answers to those zeros.  `SpiCommand` is the loop of
`alt_avalon_spi_command`, an action for each stretch between two register
accesses (`Call`, `Discard`, `Poll`, `Transmit`, `Receive`, `Drain`), and the
core of `lab62_soc_spi_0.v` (`LoadShift`, `ByteDone`) in parallel.  A byte is
its index, so a shifted or doubled byte is visible.  The 16 clock phases of a
byte are one step; the 1-bit wires and the interrupt enables are left out.

### UsbHost
One action per stretch of code between two points where the chip is observed or
acknowledged: `ChipInit`, `InitProbe`, `InitAck` (`MAX3421E_init`, `USB_init`);
`NoInterrupt`, `Interrupt`, `Probe`, `Ack` (`MAX3421E_Task`, `MaxIntHandler`);
one `Task…` action per state of `USB_Task`; one `Main…` action per branch of
`main`.  The environment plugs and unplugs devices, ends bus resets, sends start
of frame and lets time pass, between any two of these.

Choices worth knowing.  The J/K status follows the current bus at every probe.
A transfer is an outcome that can be success only if the device on the bus
answers at that address and speed, outside a bus reset; SET_ADDRESS may take
effect although the host sees an error.  `usb_task_state` keeps the numbers of
`USB.h` because the handler increments it; 2 and 5 are not named there.  The
delay is one flag, "the clock has passed `usb_delay`".  `last_usb_task_state` is
never read and left out, as are LEDs 0–2 and the HEX digits.  `Windows` says
whether the bus may change between a probe and its acknowledgement (`"ack"`),
and whether a device may appear while a reset is under way (`"reset"`).

### ControlRequest, Enumeration
`ControlRequest` promises of one transfer: no answer of 0 unless the device
heard the request, and for a read unless all that was asked for and exists has
arrived.  `Enumeration` opens what `UsbHost` takes as outcomes: the states of
`USB_Task` from the first descriptor on (`GetSize` … `GotAddress`), the probes
and their walk (`GetConfHead` … `Run`), and below them each packet (`Exchange`),
with the device's control pipe, lost packets and handshakes (`Lose`,
`LoseHandshake`), refusals, the deadline (`Expire`) and the plug (`Unplug`,
`Replug`).  After a device has run or failed another one may follow, and what
`USB_init` does not clear is still there.  The result codes that
`transfer.c` 308–325 overwrites are overwritten here too; so are the four bytes
of `EndpointDescr.wMaxPacketSize` that the packed structure reads
(`SizeRead`).  A descriptor is a record with offset, length and the fields that
are read; a packet is the number of its bytes.

### ReportStream, XferIn
`XferIn` is `kbdPoll`/`mousePoll`: `Poll` (entry of `XferInTransfer`), `Launch`,
`Done` (with `CountNak`, `CountRetry`, `OtherResult`), `Expire`, `Read`, against
a chip with a toggle and a FIFO, a bus that loses, garbles and refuses, and a
device that makes reports at any time.  A packet is the number of its report and
its size.  External assumptions: the chip acknowledges a packet with the wrong
toggle and reports hrTOGERR; the deadline passes only while no answer is
pending; result codes that the code treats alike are one (`hrCRCERR`).

### ConsoleStream, JtagUart
`ConsoleStream` is two streams of numbered bytes.  `JtagUart` has start-up in
the order of `alt_sys_init` (`Boot…`), the calls (`Write…`, `Read…`, `Close`,
`SetTimeout`), the dispatcher and the routines (`Interrupted`, `Dispatch`,
`Isr…`), the UART and a host that comes, goes, pauses and takes.  A call steps
only while no routine runs; a routine may begin between any two of its steps.
What lies between `alt_irq_disable_all` and `alt_irq_enable_all` is one step.
An application is what it does with the device; the firmware is the writer.  A
byte is its number, modulo one more than the path can hold.

### Countdown, Clock
`Countdown` is alarms with ticks to go and no counter that wraps.  `Clock` walks
the linked list one alarm a step (`NotDue`, `CallAgain`, `CallLast`), with
interrupts off, as `alt_tick` does; `Start` and `Stop` are `alt_alarm_start` and
`alt_alarm_stop`.  `Await` and `Proceed` are the two waits of the USB host, with
the 32-bit product of `transfer.c:144` and `277`; `Reset` and `TimeOfDay` are
`settimeofday` and `gettimeofday` as functions of the counter.  Callbacks start
and stop no other alarms, as none here does.

### Descriptors, Files
`Descriptors` promises that a descriptor stays with its file, calls reach that
file's driver, failures leave nothing behind, and a locked device takes no new
descriptors.  `Files` has registration and redirection at start-up, `Open`,
`Close`, the calls vectored to drivers, `fcntl`, the lock and the end of the
program.  One thread: a call is a step, with every early return an action or a
disjunct of it.  A device is the set of functions its structure provides.

### Profile, Exceptions, Board, Interrupts, Process, Text, Log, Timestamp
Small modules, each about one service of the support package.

* `Profile`: `mcount` load by load, for the program and for an interrupt routine
  that calls functions of its own in between; `sbrk`, the slabs, the sampler.  A
  program whose memory a sample has changed is not followed further (`Overrun`).
  Linked only into builds with `-pg`.
* `Exceptions`: frames on a stack.  The program may raise exceptions, the
  interrupt routine and the handler may raise more.  This program registers no
  handler of instruction exceptions; a build that does is covered.
* `Board`: the read-modify-writes of the display; the wait for the oscillator with
  its warnings, before the loop of `main` and, whenever a device that was running
  has gone, in it (`InitAgain`, `main.c:221`); `usleep` with its calibration,
  `LoopsPerUs`, whose division truncates.  The value −128 is left out.
* `Interrupts`: registration, lines, sections, dispatch by priority, handlers
  that open themselves to others.  A handler that has opened itself enables and
  disables no line: `alt_irq_enable` would write a mask without the priority
  (`alt_legacy_irq.h:94`).  No handler here opens itself.
* `Process`: the memory image word by word, with a reset by the debugger
  (`DebugReset`, through `rst_controller` of `lab62_soc.v`) at any moment.  `Fork`,
  `Execve` and their like leave everything but `errno` as it is; they are there
  because the program may call them, and no property is about `errno`.
* `Text`, `Log`: the two formatters, character by character, against what the
  whole format should print.  The characters are members of a small set.  `Log`
  adds the echo of `write`, the heartbeat, the reports, and the test for space
  that handlers come between.  Built with `ALT_LOG_ENABLE` only.  `IsConversion`
  is what C makes a conversion of (no zero in front of a width, digits in the rest
  only after a point); its width is a number of any size, where an int holds those
  of nine digits.  A precision is read and ignored, as in the code, so the text that
  a run compares with is called `WithoutPrecision`.  Powers of a base are a recursive function (`Powers`), which a
  proof can unfold.
* `Timestamp`: two halves read from one snapshot register that handlers share.
  Histories hold when each snapshot was taken.
  Compiled only for systems with `ALT_TIMESTAMP_CLK`.

`Library` puts these and `Files` side by side: they share no state, so a
behaviour follows one (`part`) and the state space is a sum, not a product.
Each keeps its own specification; the theorems are about `LibrarySpec`, most of
them through that of the part.  `LibraryInvariants` and, for `Log`, `LogInvariant`
hold the inductive invariants of the parts.

### MarioGame, Goomba, Game
`Tick` is one clock of `mario_fsm` (one operator per state: `Idle`, `Run`,
`Jump`, `JumpTo`, `Fall`, `FallTo`; left and right share an operator where the
code duplicates it), `Move` one update of `mario.sv`, `Start` and `Finish` the
screens, `Reset` the button.  Both clocks have a period of 416668 pixel clocks,
so in the game they alternate, starting with either; on the other screens only
the state machine runs.  Velocities are in units of 0x400, of which every
constant of the code is a multiple; 10- and 20-bit registers wrap.  The `&&`/`||`
precedence is the code's (`Wanted`), and so is the 6-bit column (`Hit`).
`Reset` leaves the state machine alone: its reset is synchronous to a clock that
the button stops.  Left out: the ROM's one pixel clock of latency, and
`walking`, `walking_frame` and `in_air`, which only choose the picture.

`Levels` gives each level its blocks, the key pairs the player may hold, and
whether the enemy is followed on it; `level` is chosen once.  In a key pair the
first component is `keycode0`, the high byte of the port: the *second* key of the
report.  `Goomba` has one action per step, turn and reset of the enemy.  `Game`
is both, with one reset button.

## 3. Runs

| run | asks | answer |
|---|---|---|
| `spi` | is the core overrun, do loop and core stay in step, is a call `SpiExchange`'s (liveness included)? up to 4 bytes out, 3 in | holds |
| `usb_safety` | with changes of the bus anywhere and failing transfers: are the polled device, its address and the reset consistent? | holds |
| `usb_live` | if nothing changes between probe and acknowledgement, with three devices, one of which shorts the bus, bus resets that raise detect interrupts of their own, and transfers that succeed when they can: is every change seen, does the speed match, is one that stays away noticed, does a device that stays end up polled, unless its reset's interrupt comes too late for ever? | holds |
| `usb_clear` | "clear device data structures": does every new attachment start from an empty device table? | violated |
| `usb_ack` | is the change that is acknowledged always the change that was probed? | violated |
| `xfer_in` | one-packet reports over a lossy bus: `ReportStream`, toggles, return of every poll, arrival of every report | holds |
| `xfer_nak` | "NAK means no new data", for 4-byte reports on a 4-byte endpoint | violated |
| `enumeration` | five devices one after another: does a running device run on both sides, has an error a cause, does an enumeration end, does a transfer keep `ControlRequest`? | holds |
| `jtag_uart` | a writer, a reader and one that only closes: `ConsoleStream`, spurious interrupts, an interrupt left off with work to do, `printf` without a host | holds |
| `clock` | two alarms over a counter that wraps every 8 ticks: `Countdown`, the list, the waits, the time of day | holds |
| `library` | what each of its nine parts promises, and of what the code does not keep, how much is left | holds |
| `game` | six levels: walls, floor, ceiling, the enemy's walk; jumps and the game end; what alone takes Mario beyond the speed limit | holds |

Every violation is described in `PROJECT.json` under `findings`, with the line
that states what was expected.

A property of a run is often a conjunction of parts that are named and explained
in the module: `LockStep` (`NoOverrun`, `InStep`), `BodyClear` (`FeetClear`,
`HeadClear`, `SidesClear`), `DriverSound` (`TypeOK`, `NeverSpurious`,
`CopiedIsHead`), `NoneLeftOff` (`RingFeedsFifo`, `FifoIsFetched`), `ClockSound`
(`TypeOK`, `ListIsRing`, `SetThenGet`), `InTime` (`TickReturns`, `NeverEarly`,
`WaitEnds`), `StartedUp` (`StartsFresh`, `RunsOnce`, `StdHasDriver`),
`ProfilerSound`, `ExceptionsTransparent`, `BoardAsAsked`, `InterruptsSound` and
`LogSound`.  Invariants that are proved below and hold no surprise are in no run:
`TypeOK` of `UsbHost`, `XferIn`, `MarioGame` and `Files`, `EnemyTypeOK`,
`MarkIsHigh`, `Led9ShowsRunning`, `SlotsFillFromOne`.  `SpiCommand`'s `TypeOK` is
part of its inductive invariant.

**Bounds.**
* `spi`: four bytes out and three in exceed the pipeline of the core (one byte
  in each of three registers), and both phases of the loop are crossed; the
  proofs drop the bound.
* `usb_*`: `NumDevices = 3` gives two slots, enough to leak one and to run out.
  Two devices differ in speed and class; `usb_live` adds one that shorts the bus,
  and a bus reset may raise its detect interrupt as often as it likes.
* `xfer_in`: four reports, so both toggles come round twice, and limits of 3 NAKs
  and 2 time-outs.
* `enumeration`: limits of 2, and `MaxFaults = 2` per enumeration, enough
  to run into either limit, or to be retried twice in two places.  The devices: a keyboard, a
  mouse whose string ends on a packet boundary, a combination of 300 bytes cut
  at 256, a bare interface in whole packets, one with a descriptor of length 0.
* `jtag_uart`: rings of 3 (two bytes at most) and FIFOs of 2, so each of the four
  buffers is empty, part full and full, and every ring wraps in mid-call; time-outs
  of 2 alarms; 6 byte numbers for at most 4 bytes in flight.
* `clock`: `Wrap = 8` with rates of 3, which do not divide it, so that the
  millisecond clock wraps at another value in each of its rounds, as 2^32 and
  1000 do; alarms of up to 7 ticks, the longest that are not ambiguous.
* `library`: two descriptors beside the standard three and a console, a null
  device and a file system; a heap of three slabs and a bit, so that `sbrk`
  fails; nesting up to four exceptions; three interrupt lines and two nested
  sections; formats of up to four characters, `%` at the end included; every
  conversion of the log where no handler logs, one where two handlers come in
  between; delays below, at and above a chunk, a multiple of it among them, with an
  `INT_MAX` of 127, a clock rate of 50 and loops of 9 cycles, whose ratio is that of
  the board (a `Million` of 1).  A text of 132 bytes in buckets of 32 has four whole
  buckets and a partial one, the case in which a sample falls on the next block.
* `game`: real ground and small sets of blocks; the level ends after a few pixels
  of scroll (`FinishLine = 3`).  `MaxSpeed = 18`, two steps beyond `MAX_X_VEL`, is
  where a direction held second is let go; the proof holds for every `MaxSpeed`.  `MaxScroll = 12` stops the position, not the
  clocks, and is beyond the finish.  The enemy turns after `G_dist = 40` steps
  instead of 160 and is followed on the level where nobody plays: the two never
  meet.  The proof covers 160.

**What the levels do not claim.**  Directional jumps onto single blocks are not
covered by `SidesClear`: a straight jump clears `x_Vel` but not
`x_Vel_Collider`, so Mario can land in the corner of a block, and no comment
says how far he may.  Falling into the pit has no described outcome.

**Stated, in no run.**  Some definitions say what a comment or the layout of the
code leads one to expect, and TLC refutes them on short traces; they are kept in
the modules as a record of what the code does instead:

* `SettleStartsTimer` (constants of `usb_clear`): the handler's increment can
  reach SETTLE past the state that starts its timer.
* `SofBeforeDescriptor` (same): `rHIRQ | bmFRAMEIRQ` at `transfer.c:298` is true
  whatever arrived, so the first descriptor is asked for before the first start
  of frame.
* `ReportReachesDevice` (same): `main` sends its requests to address 1, also when
  the device was given the second slot.
* `LockIsExclusive` (`Files`, constants of `library`): `alt_fd_lock.c:43`
  speaks of the only user of a device; the loop at line 61 ends before the
  highest descriptor ever allocated.  `OneHolder` is what is left.
* `RunsFromFreeSide` on the levels `SecondRight` and `SecondLeft`: `&&` binds
  tighter than `||` in `mario_fsm.sv`, so a direction reported as the second key
  skips the test beside it.
* `SidesClear` on `SecondRight` with `MaxSpeed = 24`: a direction held second takes
  Mario so far beyond `MAX_X_VEL` that he stops more than one step inside a wall.
  `BodyClear` is a statement about speeds up to about the limit (18 in `game`).
* `TestsTheMap` on the level `Pit` with `FinishLine = 980` and
  `MaxScroll = 2047`: the column is six bits wide and the map has 80 columns.

**Comments that the code does not keep, modelled as the code is.**  The heartbeat
comes every `INTERVAL + 1` ticks, not every `INTERVAL` (`alt_log_printf.c:466` and
`471`), and its seconds fall behind accordingly.  A precision is parsed and ignored
(191): `%.2d` of 0 prints 0 and `%.1s` the whole text.  The echo of `write` shows
one character less than `ALT_LOG_WRITE_ECHO_LEN` of a longer text (437 and 449).  A
timestamp read after a full period is that of a fresh start, 0, not the −1 of
`altera_avalon_timer_ts.c` 92–94; the comment at 57 has it right.  `usleep` takes 5
loops of 9 cycles for the 50 cycles of a microsecond (`alt_busy_sleep.c:74`): by
that calibration the second in `MAX3421E_reset` is 0.9 s.  Of a multiple of its
chunk it goes on for 2^32 loops more (101).  A handler that returns 0 has its
instruction issued again, where `alt_exception_entry.S:276` says "Skip"
(`Verdict`).  Neither limit of Mario's speed is tested for a direction held second
(`mario_fsm.sv:324`).  A wait of the host that begins in the last milliseconds
before its clock wraps never ends (`WaitEnds` says which do).

**What the properties leave out or only bound.**  Each of these is a case in which
the code fails and the property says so, rather than a case that is caught:

* `PluggedRuns`: a detect interrupt that a bus reset raises and that is probed when
  the host has left WAIT_RESET_COMPLETE restarts the attachment, with a reset of its
  own (`MAX3421E.c` 132–144).  Nothing in the code bounds how often, so the property
  allows for it to happen for ever (`LateDetect`) and claims the poll otherwise.
* `SpeedLimit`: the limit is exceeded, by a direction held second and in no other way.
* `SampleInPlace`: the sample behind the histogram (`alt_gmon.c:266`) changes the
  first two bytes of the next block when the last bucket is partial and the whole
  ones are even in number; the property says that this is the only harm.
* `StampNearCall`: a stamp that a handler tore can be ahead of its return by up to
  2^16 clocks, and a later one smaller.
* `SleepsAsAsked`: delays are short by less than a loop per microsecond.
* `SetThenGet` holds for times set before the 32-bit product of `alt_settod.c:84`
  wraps, `WaitEnds` for waits that end before the clock of the host wraps, `Ends`
  where no descriptor has length 0 (`HID.c:140`), `ReturnsWhereItShould` where no
  nested exception has overwritten `ea` (`StaleEa`), `LossNeedsRace` allows one
  character lost for each race.
* `OneHolder` is what is left of the lock, which can be granted while another
  descriptor is open on the device (`LockIsExclusive`, above).
* `WritesReturn` rests on a host that is there again and again taking what it finds:
  one that polls for ever and takes nothing is not covered.

**Fairness.**  SPI: the processor keeps executing, the core keeps clocking; no
caller must call.  Host: the main loop never stops (weak fairness of the
firmware as a whole: it is one thread), a bus reset ends by itself, time passes;
nobody must plug or unplug, and a bus reset need not raise its interrupt nor stop
raising it.  Enumeration: the firmware and the chip, taken
together, go on (the chip answers every packet, if only with a time-out); which
packets are lost is bounded, not fair.  IN transfers: the loop runs on, and, for
the arrival of reports only, an attempt that is made again and again succeeds
sometimes (strong fairness of `AnswerAcked`); `PollReturns` does not rest on it,
because NAKs and time-outs are counted.  Console: the timer and the routines run
on (weak); a call makes progress again and again between interrupts, which is
strong because interrupts disable it; a host that is there again and again takes
what it finds, and one that stays polls.  No host ever has to come.  Clock: the
timer never stops, a routine ends, and the loop of a wait tests again and again
(strong: the walk comes between).  Game: the two clocks and the screen's run; no
key is ever owed.  `Finishes` is checked on the level where every key set
holds the right key, so that the player's will is in the constants.

**Deadlock** is checked in every run except `library`, whose parts may stop: main
returns, a formatter ends, a heap is used up, a chip has no more reads to count.

**Faults.**  The modules hold one faulty version of a definition per property,
marked "Fault"; no specification uses them.  `PROJECT.json` (`mutants`) pairs
each with the property that fails when it replaces the definition.

## 4. Proofs

The theorems hold for every value of the constants that the modules' assumptions
allow.  Where a theorem needs more, its own ASSUME says so; each of these cases
is named below.

| component | proved | only under |
|---|---|---|
| `SpiCommand` | `LockStep`; the safety part of `ImplementsExchange` | |
| `UsbHost` | `TypeOK`, `PollsEnumeratedDevice`, `DeviceAnswersAtItsAddress`, `NoTransferDuringBusReset`, `Led9ShowsRunning`, `SlotsFillFromOne` | |
| | `NoUnseenChange`, `AckedChangeWasSeen` (of `Ack`; `MAX3421E_init` is in `NoUnseenChange`) | `"ack" \notin Windows` |
| | `SpeedMatches` | `Windows = {}` |
| `Enumeration` | `TypeOK`, `RunningAgrees`, `ErrorHasCause`, `ImplementsRequest` | |
| `XferIn` | `TypeOK`, `ToggleAgrees`, `ImplementsStream` | `OnePacket` |
| `JtagUart` | `DriverSound`, `ImplementsStream` | |
| `Clock` | `ClockSound` (`TypeOK`, `ListIsRing`, `SetThenGet`), `ImplementsCountdown` | |
| | `NeverEarly` | `TickRate <= Milli` |
| `Library` | `OneHolder`, `ImplementsDescriptors`, `InterruptsSound`, `ExceptionsTransparent`, `BoardAsAsked`, `StampNearCall`, `ProfilerSound`, `PrintsFormat`, `LogSound` | |
| | `StartedUp` | `MAX_FD > 3` |
| `Game` | `TypeOK`, `EnemyTypeOK`, `NearTheStart`, `SpeedLimit` | |

**SPI** (`SpiCommandProofs`), for calls of any length.  Neither `NoOverrun` nor
`InStep` is inductive.  `IInv` adds where the one byte is at each label
(`OneByte`), the balance of bytes sent and received (`Counters`), and what remains
true of the stale status word: a bit that was set stays set until the loop acts
(`StatusHolds`).  `IInv` counts bytes; `DataInv` says which they are: the byte on
its way is the one the frame lacks, and what was stored answers the zeros from the
first one on.  With both, `Call` and `Drain` are the two steps of `SpiExchange` and
every other step is a stutter (`SpecExchanges`).

**Host** (`UsbHostProofs`), for any number of slots and any devices, with bus
changes anywhere and failing transfers.  `IInv` says at which labels which states
can be met (`Control`: the increment in the handler acts only on what the probe
left, which is why no state is skipped over into a transfer), and how the slots,
the endpoint record, the address and the class depend on the state (`Tables`).
`NoUnseenChange` rests on `SeenIsPlugged`: what the last probe saw is still there
while the change is being acknowledged, or while none is pending.  This fails for
`"ack"` in `Windows`, and `usb_ack` shows how.  `SpeedMatches` rests on
`SpeedFits`: a probe in the middle of a bus reset does not correct the speed, so
no other device may take the place of the one being reset (`"reset"`).

**Enumeration** (`EnumerationProofs`), for any limits and faults and any devices
that keep to the format (`DevicesAssumption`: descriptors lie one behind the
other, control packets have at least 8 bytes).  `EnumerationInv` follows a
transfer from its two ends.  `Order` says which request was the last at each point
of the state machine, `Transfer` that with the toggles in step the device has left
to send what the host still lacks, `Heard` and `Reached` what the device has done,
`Walk` that the walk stands on a descriptor and has passed none of the type it
looks for.  `ErrorHasCause` is an invariant about runs without faults: `InStep`
says that then no transfer can fail, and `Causes` that a probe gives up only where
there is nothing for it.

**IN transfers** (`XferInProofs`), for any limits, sizes and number of reports.
`OnePacket` says that a report is one packet which ends the transfer; `xfer_nak`
shows that it is needed.  The invariant says, at each label, which of the two cases
of `ToggleAgrees` holds and whether the packet in the FIFO is the next report.

**Console** (`JtagUartProofs`), for rings and FIFOs of any length.  A call reads a
pointer once, then copies in steps between which both interrupt routines may run.
`ConsoleInv` says why that is safe: the chunk that a write measured is still free
and does not wrap (`WriteChunk`), the chunk that a read measured is still there
(`ReadChunk`), and the routine's single look at the write FIFO is not outdated by
the host, who only takes (`SpaceIsFree`).  For the refinement the path of a byte
is one sequence: both the ring, unrolled from `out` to `in`, and the FIFO.  Each
step lets bytes enter it, lets them leave it, or hands one on inside it.

**Clock** (`ClockProofs`), for any number of alarms and any width of the tick
count.  `Links` describes the list as the ring of the nodes reached from its head,
on which `next` and `previous` undo each other.  Between two steps of `alt_tick`
the list is half done: `Walked` splits the ring into the stretch already passed,
whose alarms are ahead of this tick, and the rest, ahead of the tick before.  That
an alarm with a wrapped time is found at its tick, and at no other, is `Visited`, a
fact about words modulo `Wrap`.  `NeverEarly` follows from how far the
product that the host divides can have come since the wait began; ticks of a
millisecond or more are needed because the history `since` is counted only up to
`Long`.

**Library** (`LibraryProofs`).  `LibrarySpec` follows one part; each theorem is
proved of the part and carried over.

* `Files`, for any number of descriptors, drivers and flags.  The lock misses the
  descriptor at the mark, so a holder need not be alone.  `SharersAbove` says that
  whoever shares a locked device has a higher number than the holder, because only
  the highest was missed; a sharer that asks for the lock therefore sees the
  holder below the mark.  From this follows `OneHolder`, and from it the
  refinement: the holder that `Descriptors` names is the one descriptor with the
  flag, whichever way the pool changes.
* `StdHasDriver` is proved with `OthersFree` (before `main` only the standard
  descriptors are in use) for more than three descriptors.  With exactly three the
  pool is full at start-up, and the redirection, which opens before it copies,
  finds no slot.  `StartsFresh` and `RunsOnce` follow from how far each loop of
  `crt0.S`, `alt_load` and `alt_main` has come, whenever a debugger resets it.
* `Interrupts`, for any number of lines and depth of sections.  `Stack` says that
  the lines of running handlers fall towards the top, that all but the top are
  open, and that each holds the mask it has to put back.  The highest request is
  the least element of a set of numbers; that one exists is `Smallest`, from the
  library's theorem on well-founded relations.
* `Exceptions`, for any programs and nesting.  `Ordered` says which routine a
  frame may stop, `Running`, `Testing` and `Leaving` what `ea` and the top frame
  hold in each stretch of the entry.
* `Board`: the display's bits and the byte that counts the reads (`tmp`, modulo
  `ByteWrap`), for every order of calls and resets.  `SleepsAsAsked` is arithmetic on
  two divisions (`LoopsAsAsked`, `TimeAsAsked`): for every clock rate, loop cost and
  number of microseconds, with no delay excepted.
* `Timestamp`, for every width and period and any handlers.  `TimestampInv` says what
  the counter and the snapshot register hold at each moment of the histories
  (`After_`): a half read between two snapshots differs from both by what the counter
  borrowed in between, and from that alone follow both bounds of `StampNearCall`.
* *Induction.*  The library states its induction theorems for an operator, which
  no prover here can instantiate.  From `Smallest` follow `Induction`, about the set
  of the numbers for which something holds, and `Recursion`: a function with a given
  first value and a given step exists, and what satisfies the equation of a recursive
  function is that function.  With them powers, widths, numerals and texts of any
  length can be unfolded.
* `Text`, for every format and argument (`TextInv`).  Between two characters of the
  format, what stands before the place of the walk is printed (`Printed`), and the
  next one does not belong to an escape.  In the loop over hexadecimal digits the
  flag `digits` says whether the leading digit has been passed (`BetweenDigits`), so
  zeros inside a number are printed and those in front of it are not.
* `Profile`, for every call graph, size of heap, slabs and text, and any functions
  that the interrupt routine calls between two loads of a walk (`ProfileInv`).  What
  a walk has found stays where it is (`WalksFound`), because elements are linked in
  and never out.  A list gets a second copy of an element only from the one call
  that an interrupt came into (`CopiesKept`): nothing interrupts the interrupt
  routine.  `SamplerKept` says that interrupts are off until the sampler runs.  The
  blocks of the heap lie in front of its end, the elements in front of what is left
  of the current slab (`HeapKept`), and there are as many elements as the lists hold.
* `Log`, for every conversion, width, length of a word, text, size of the FIFO and
  order of handlers (`LogInv`).  What is printed, together with what the current step
  has still to give, is determined by the place of the walk in the format
  (`Printing`).  Inside a conversion the locals hold what was passed (`Parsing`): the
  flag, the value of the digits of the width so far, a precision once a point has
  come (the definitions are in `LogInvariant`).  The number of digits that the first
  loop counts is the only one that fits (`NumeralsAre`).  `SpaceSeen` carries
  `LossNeedsRace`: past the test there is space, or a handler has written.  `HeartbeatCounts` needs that the counter never
  exceeds `Interval`.  `ToString` means nothing to the provers; that it makes no
  percent sign and no Ctrl-D of a number is the assumption `NumbersPrinted`, which TLC
  evaluates.

TLC checked `TextInv`, `ProfileInv` and `LogInv` on the constants of `library`, or
smaller ones, before they were proved.

**Game** (`GameProofs`), for every level, set of keys and `G_dist` up to 280.
`GameSpec` is shown to be one of Mario's behaviours and one of the enemy's
(`GameIsMario`, `GameIsEnemy`), so the theorems about each hold of both together.
For `SpeedLimit` the invariant adds that in a jump `y_Vel` is an even number not
above the initial velocity, so the decrement cannot pass zero; beyond `MAX_X_VEL`
only an acceleration for the second key leads (`AcceleratedSpeed`), whatever the keys
and however fast he is by then.
The enemy's position alone is not inductive: a reset keeps the count, so `LegEnd`
speaks of where the current leg will end.

**Only model-checked:**

* all liveness (`UnplugNoticed`, `PluggedRuns`, `PollReturns`, `ReportsArrive`,
  `Ends`, `WritesReturn`, `NoneLeftOff`, `TickReturns` and `WaitEnds` of `InTime`,
  `Lands`, `Finishes`, and the fairness in `ImplementsExchange`), because the
  proof system has no rule for fairness and ENABLED;
* `BodyClear`, which is a statement about the blocks of each level and false for
  some that can be drawn.

## 5. Not modelled

* Painter, sprite ROMs, seven-segment decoder: pictures and tables.
* `VGA_controller.sv`: its counters run freely and nothing but the frame clock
  depends on them; the pulses are fixed functions of two counters.
* `lab62.sv`, the Platform Designer system: wiring and generated code.
* Of the support package: flash and DMA (no such device here), the legacy
  interrupt registration (compiled out), the functions that flush or bypass caches
  (the processor has none), the variants for direct drivers and small drivers
  (compiled out), the assembly start of the log, and the headers, which are
  register maps and tables.  `unlink`, `rename` and their like return an error
  and do nothing else.
* The composition of `XferIn` and `Enumeration` with `UsbHost`: `UsbHost` takes
  transfers as outcomes, and the other two say which outcomes there are.
* Reports of several packets, other than the one that `xfer_nak` shows to be lost.
* The 1200 words of the collider ROM: the levels have its ground rows.

## 6. Plan

Done: all modules and runs above, and the proofs of section 4.  They cover every
safety property that a run checks of the USB host, the enumeration, the IN
transfers, the SPI routine, the console, the clock, the descriptors, start-up,
interrupts, exceptions, ports, timestamps, the profiler, both formatters and the
log, every one of the game but `BodyClear`, and the six refinements
(`SpiExchange`'s up to its fairness).

Next:

1. `FeetClear` for every level whose ground has no gap narrower than Mario, and
   `SidesClear` for walls of full height.
2. `ErrorHasCause` with a bound on the faults that retries absorb, in place of none
   at all.
3. Multi-packet reports in `XferIn`; a composition of `XferIn` with `UsbHost` where
   a device is unplugged during a poll.
