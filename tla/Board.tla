------------------------------- MODULE Board -------------------------------
(***************************************************************************)
(* The output ports of the board: the LEDs and hexadecimal digits that     *)
(* show the mouse (setLED to printSignedHex1 in main.c), the keycode port, *)
(* and the reset of the MAX3421E (MAX3421E.c), which waits with the busy   *)
(* loop of the HAL (alt_busy_sleep.c).  main resets the chip before its    *)
(* loop, and again in it after a device that was running has gone.         *)
(***************************************************************************)
EXTENDS Integers

CONSTANTS
  Value,          \* what the mouse reports: -127 to 127
  Keycode,        \* what setKeycode is given
  LED,            \* the LEDs that main sets and clears itself: 8 and 9
  IntMax,         \* INT_MAX: 2^31 - 1
  CpuFreq,        \* ALT_CPU_FREQ: 50000000
  CyclesPerLoop,  \* cycles_per_loop of the processor "tiny": 9
  Million,        \* the microseconds of a second: 1000000
  Delays,         \* arguments of usleep
  ResetHold,      \* the argument in MAX3421E_reset: 1000000
  ByteWrap,       \* 2^8, the range of tmp
  MaxReads        \* bound on the reads of rUSBIRQ the oscillator needs

ASSUME BoardAssumption ==
  /\ Value \subseteq -127..127 /\ LED \cap 10..13 = {}
  /\ {CpuFreq, CyclesPerLoop, Million} \subseteq Nat \ {0}
  /\ CyclesPerLoop * Million <= CpuFreq
  /\ IntMax \in Nat /\ IntMax > CpuFreq \div (CyclesPerLoop * Million)
  /\ Delays \subseteq Nat /\ ResetHold \in Delays \ {0} /\ ByteWrap \in Nat \ {0}

VARIABLES
  leds,       \* the LEDs that are on
  hex,        \* HEX_DIGITS_PIO, 16 bits
  keycode,    \* KEYCODE_PIO
  stage,      \* the step of MAX3421E_reset, then "loop"
  rst,        \* USB_RST_PIO
  chip,       \* the MAX3421E: "held", "stopped" (CHIPRES), "starting", "stable"
  tmp,        \* the BYTE that counts the reads
  warned,     \* how often "reset timeout!" was printed in this reset
  slept,      \* [us, loops] of the last usleep
  shown,      \* history: the values last shown, <<X, Y>>
  reads       \* history: the reads of rUSBIRQ since the reset

display == <<leds, hex, keycode, shown>>
reset   == <<stage, rst, chip, tmp, warned, reads>>
board   == <<display, reset, slept>>

BoardInit ==
  /\ leds = {} /\ hex = 0 /\ keycode = 0 /\ shown = <<0, 0>>
  /\ stage = "low" /\ rst = 1 /\ chip = "stable" /\ tmp = 0 /\ warned = 0 /\ reads = 0
  /\ slept = [us |-> 0, loops |-> 1]

-----------------------------------------------------------------------------
(* alt_busy_sleep *)

\* Rounded down: 5 loops of 9 cycles for the 50 cycles of a microsecond.
LoopsPerUs == CpuFreq \div (CyclesPerLoop * Million)

Chunk == IntMax \div LoopsPerUs

\* Fault: the microseconds of the large loops are waited for once more.
LoopsTwice(us) == (us \div Chunk) * IntMax + us * LoopsPerUs

\* The last loop counts down to zero: at least once after no large loops (bgt),
\* once around all of 32 bits from zero after some (bne).
Loops(us) ==
  LET big  == us \div Chunk
      left == (us - big * Chunk) * LoopsPerUs
      last == CASE left > 0            -> left
                [] left = 0 /\ big = 0 -> 1
                [] left = 0 /\ big > 0 -> 2 * (IntMax + 1)
  IN  big * IntMax + last

Sleeps(us) == slept' = [us |-> us, loops |-> Loops(us)]

usleep(us) ==
  /\ stage = "loop" /\ Sleeps(us)
  /\ UNCHANGED <<display, reset>>

-----------------------------------------------------------------------------
(* MAX3421E_reset, called by MAX3421E_init *)

\* main, in its loop: the device that was running has gone.
InitAgain ==
  /\ stage = "loop" /\ stage' = "low"
  /\ warned' = 0 /\ reads' = 0
  /\ UNCHANGED <<display, rst, chip, tmp, slept>>

PullLow ==
  /\ stage = "low" /\ stage' = "high"
  /\ rst' = 0 /\ chip' = "held"
  /\ Sleeps(ResetHold)
  /\ UNCHANGED <<display, tmp, warned, reads>>

\* The pin goes up, then CHIPRES is set and cleared: the oscillator starts.
ChipReset ==
  /\ stage = "high" /\ stage' = "wait"
  /\ rst' = 1 /\ chip' = "starting" /\ tmp' = 0
  /\ UNCHANGED <<display, warned, slept, reads>>

OscillatorStarts ==
  /\ chip = "starting" /\ chip' = "stable"
  /\ UNCHANGED <<display, stage, rst, tmp, warned, slept, reads>>

\* OSCOKIRQ is not set: count, and say so each time the count wraps.
NotYet ==
  /\ stage = "wait" /\ chip # "stable" /\ reads < MaxReads
  /\ reads' = reads + 1
  /\ tmp' = (tmp + 1) % ByteWrap
  /\ warned' = IF tmp' = 0 THEN warned + 1 ELSE warned
  /\ UNCHANGED <<display, stage, rst, chip, slept>>

ResetEnds ==
  /\ stage = "wait" /\ chip = "stable" /\ stage' = "loop"
  /\ UNCHANGED <<display, rst, chip, tmp, warned, slept, reads>>

-----------------------------------------------------------------------------
(* The display *)

setLED(n)   == leds' = leds \cup {n}
clearLED(n) == leds' = leds \ {n}

Led(n) ==
  /\ stage = "loop"
  /\ setLED(n) \/ clearLED(n)
  /\ UNCHANGED <<hex, keycode, shown, reset, slept>>

Magnitude(v) == IF v < 0 THEN -v ELSE v

\* The LEDs of a number: the sign, and the hundreds.
Lit(v, sign, hundreds) ==
  (leds \ {sign, hundreds}) \cup (IF v < 0 THEN {sign} ELSE {})
                            \cup (IF Magnitude(v) >= 100 THEN {hundreds} ELSE {})

Tens(v) == (Magnitude(v) % 100) \div 10
Ones(v) == Magnitude(v) % 10

TwoDigits(v) == 16 * Tens(v) + Ones(v)

\* X in the upper byte of the port, Y in the lower one.  The digits fit their
\* places: | is +.
Hex0(v) == (hex % 256) + 256 * TwoDigits(v)
Hex1(v) == 256 * (hex \div 256) + TwoDigits(v)

printSignedHex0(v) ==
  /\ stage = "loop"
  /\ leds' = Lit(v, 11, 13) /\ hex' = Hex0(v) /\ shown' = <<v, shown[2]>>
  /\ UNCHANGED <<keycode, reset, slept>>

printSignedHex1(v) ==
  /\ stage = "loop"
  /\ leds' = Lit(v, 10, 12) /\ hex' = Hex1(v) /\ shown' = <<shown[1], v>>
  /\ UNCHANGED <<keycode, reset, slept>>

setKeycode(k) ==
  /\ stage = "loop"
  /\ keycode' = k
  /\ UNCHANGED <<leds, hex, shown, reset, slept>>

BoardNext ==
  \/ InitAgain \/ PullLow \/ ChipReset \/ OscillatorStarts \/ NotYet \/ ResetEnds
  \/ \E us \in Delays : usleep(us)
  \/ \E n \in LED : Led(n)
  \/ \E v \in Value : printSignedHex0(v) \/ printSignedHex1(v)
  \/ \E k \in Keycode : setKeycode(k)

BoardSpec == BoardInit /\ [][BoardNext]_board

-----------------------------------------------------------------------------
(* Properties *)

\* The display shows both numbers last printed, each with its sign, hundreds and
\* digits, although they share one port and one set of LEDs and each is written
\* by reading the other back (main.c:72-126).
ShowsBoth ==
  LET Digits(v) == 16 * ((Magnitude(v) \div 10) % 10) + (Magnitude(v) % 10) IN
  /\ hex = 256 * Digits(shown[1]) + Digits(shown[2])
  /\ \A n \in 1..2 : /\ 12 - n \in leds <=> shown[n] < 0
                     /\ 14 - n \in leds <=> Magnitude(shown[n]) > 99

\* The loop of main never talks to a MAX3421E whose oscillator is not stable,
\* however often it resets it, and whoever waits longer than 256 reads is told
\* each time (MAX3421E.c:104).
StableWhenUsed == stage = "loop" => rst = 1 /\ chip = "stable" /\ warned = reads \div ByteWrap

\* By the calibration of the HAL, 9 cycles a loop, a delay is short: the division
\* rounds the loops of a microsecond down (alt_busy_sleep.c:74-75, 112, 129), so
\* the second for which the chip is to be held in reset is 0.9 s.  It is short by
\* less than a loop for each microsecond and never by more.  Nor is it long by more
\* than the rounding of its chunks, a last loop for no time at all, and after a
\* multiple of the chunk 2^32 loops, 12 minutes (101-112).
SleepsAsAsked ==
  LET aLoop == CyclesPerLoop * Million      \* these three in cycles, times Million
      took  == slept.loops * aLoop
      due   == slept.us * CpuFreq
      extra == CASE slept.us % Chunk # 0 -> 0
                 [] slept.us = 0 -> 1
                 [] slept.us > 0 /\ slept.us % Chunk = 0 -> 2 * (IntMax + 1)
  IN  /\ took > due - slept.us * aLoop
      /\ took <= due + ((slept.us \div Chunk) * LoopsPerUs + extra) * aLoop

\* The display shows what it is given, the chip is used when it is stable, and
\* delays are wrong by what their rounding accounts for.
BoardAsAsked == ShowsBoth /\ StableWhenUsed /\ SleepsAsAsked
=============================================================================
