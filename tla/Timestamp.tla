------------------------------ MODULE Timestamp ------------------------------
(***************************************************************************)
(* The timestamp driver (altera_avalon_timer_ts.c), for systems that give  *)
(* it a timer: a counter that runs down once from full scale, read in two  *)
(* halves from a snapshot.  The program calls it step by step; a handler   *)
(* may read a timestamp of its own between any two steps.                  *)
(***************************************************************************)
EXTENDS Integers

CONSTANTS
  Half,       \* 2^16
  TimerFreq,  \* the frequency of the timer
  OwnPeriod   \* the period the core was generated with

FullScale == Half * Half - 1

ASSUME TimestampAssumption ==
  Half \in Nat \ {0, 1} /\ TimerFreq \in Nat \ {0} /\ OwnPeriod \in 1..FullScale

VARIABLES
  freq,             \* altera_avalon_timer_ts_freq, 0 where there is no timer
  writable,         \* the core has a period register that can be written
  counter, period, counting, latch,   \* the core
  doing,            \* the step that the program is at
  lower,            \* the half read already
  stamp,            \* the last result, -1 before the first
  elapsed,          \* history: the clocks since the timer was started, up to FullScale + 1
  asked, snapped, taken   \* history: elapsed at the snapshot of the program, at
                    \* the last of anyone, at that of the half read already

core      == <<counter, period, counting, latch>>
seen      == <<elapsed, asked, snapped, taken>>
timestamp == <<freq, writable, core, doing, lower, stamp, seen>>

TimestampInit ==
  /\ freq \in {0, TimerFreq} /\ writable \in BOOLEAN
  /\ counter = OwnPeriod /\ period = OwnPeriod /\ counting = FALSE /\ latch = 0
  /\ doing = "nothing" /\ lower = 0 /\ stamp = -1
  /\ elapsed = 0 /\ asked = 0 /\ snapped = 0 /\ taken = 0

At(step, after) == doing = step /\ doing' = after

-----------------------------------------------------------------------------
(* alt_timestamp_start *)

StopTimer ==
  /\ At("nothing", "stopped") /\ freq # 0
  /\ counting' = FALSE
  /\ UNCHANGED <<freq, writable, counter, period, latch, lower, stamp, seen>>

\* Both halves; a write to the period loads the counter.
SetPeriod ==
  /\ At("stopped", "set")
  /\ IF writable THEN period' = FullScale /\ counter' = FullScale
                 ELSE UNCHANGED <<counter, period>>
  /\ UNCHANGED <<freq, writable, counting, latch, lower, stamp, seen>>

\* Of a period that cannot be written, what was left of the last run goes on.
StartTimer ==
  /\ At("set", "nothing")
  /\ counting' = TRUE
  /\ elapsed' = period - counter
  /\ UNCHANGED <<freq, writable, counter, period, latch, lower, stamp, asked, snapped, taken>>

-----------------------------------------------------------------------------
(* alt_timestamp *)

NoTimestamp ==
  /\ At("nothing", "nothing") /\ freq = 0
  /\ stamp' = FullScale
  /\ UNCHANGED <<freq, writable, core, lower, seen>>

Snapshot ==
  /\ At("nothing", "snapped") /\ freq # 0
  /\ latch' = counter /\ asked' = elapsed /\ snapped' = elapsed
  /\ UNCHANGED <<freq, writable, counter, period, counting, lower, stamp, elapsed, taken>>

\* Fault: the lower half comes from the counter of now.
ReadCounterLower ==
  /\ At("snapped", "half")
  /\ lower' = counter % Half /\ taken' = snapped
  /\ UNCHANGED <<freq, writable, core, stamp, elapsed, asked, snapped>>

ReadLower ==
  /\ At("snapped", "half")
  /\ lower' = latch % Half /\ taken' = snapped
  /\ UNCHANGED <<freq, writable, core, stamp, elapsed, asked, snapped>>

ReadUpper ==
  /\ At("half", "nothing")
  /\ stamp' = FullScale - ((latch \div Half) * Half + lower)
  /\ UNCHANGED <<freq, writable, core, lower, seen>>

\* alt_timestamp in a handler.
HandlerSnapshot ==
  /\ freq # 0
  /\ latch' = counter /\ snapped' = elapsed
  /\ UNCHANGED <<freq, writable, counter, period, counting, doing, lower, stamp, elapsed, asked, taken>>

-----------------------------------------------------------------------------
\* A clock: at zero the counter is loaded again and, CONT being 0, stops.
Count_down ==
  /\ counting
  /\ IF counter = 0 THEN counter' = period /\ counting' = FALSE
                    ELSE counter' = counter - 1 /\ UNCHANGED counting
  /\ elapsed' = IF elapsed > period THEN elapsed ELSE elapsed + 1
  /\ UNCHANGED <<freq, writable, period, latch, doing, lower, stamp, asked, snapped, taken>>

TimestampNext ==
  \/ StopTimer \/ SetPeriod \/ StartTimer
  \/ NoTimestamp \/ Snapshot \/ ReadLower \/ ReadUpper \/ HandlerSnapshot \/ Count_down

TimestampSpec == TimestampInit /\ [][TimestampNext]_timestamp

-----------------------------------------------------------------------------
\* What the counter shows t clocks after the start, counted up: a period that
\* cannot be written starts later than 0, and once it has run out the counter is
\* loaded again and stops, which shows the start again: 0, as the comment of
\* alt_timestamp_start says (line 57), and not the -1 of alt_timestamp's (92-94).
Reading(t) == FullScale - period + (IF t > period THEN 0 ELSE t)

UpperHalf(t) == (FullScale - Reading(t)) \div Half

\* A timestamp is never before its call and less than 2^16 clocks ahead of its
\* return, whatever snapshots handlers take between the two halves; it is the
\* value of one moment, that of the snapshot its lower half was read from, unless
\* the counter borrowed from the upper half between that snapshot and the last.
\* A stamp torn in this way can be ahead of one taken later.  A period that runs
\* out within the call leaves only the upper bound, counted from the start again.
\* Without a timer it is -1.
StampNearCall ==
  [][stamp' # stamp \/ (doing = "half" /\ doing' = "nothing") =>
       IF freq = 0 THEN stamp' = FullScale
       ELSE /\ snapped <= period => Reading(asked) <= stamp'
            /\ stamp' < Reading(snapped) + Half
            /\ UpperHalf(taken) = UpperHalf(snapped) => stamp' = Reading(taken)]_timestamp
=============================================================================
