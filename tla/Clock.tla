------------------------------- MODULE Clock -------------------------------
(***************************************************************************)
(* The system clock: the 32-bit tick counter and the list of alarms        *)
(* (alt_tick.c, alt_alarm_start.c, alt_llist.h), the two waits the USB     *)
(* host takes from it (transfer.c:144 and 277) and the time of day         *)
(* (alt_gettod.c, alt_settod.c).                                           *)
(*                                                                         *)
(* alt_tick runs in an interrupt routine with interrupts off and walks the *)
(* list one alarm a step; everything else happens between two ticks.       *)
(* Callbacks neither start nor stop other alarms.                          *)
(***************************************************************************)
EXTENDS Integers

CONSTANTS
  Alarm,          \* the alt_alarm structures
  List,           \* alt_alarm_list, the head of the list
  Null,           \* the links of an alarm that was never started
  Wrap,           \* 2^32
  MaxTicks,       \* the largest number of ticks asked for
  TickRate,       \* ticks per second: alt_ticks_per_second, 1000 here
  Milli, Micro,   \* milliseconds and microseconds in a second: 1000 and 1000000
  Settle,         \* the settle delay of USB_Task in milliseconds: 200
  XferTimeout,    \* USB_XFER_TIMEOUT in milliseconds
  Moments         \* [sec, usec]: arguments of settimeofday

ASSUME ClockAssumption ==
  /\ List \notin Alarm /\ Null \notin Alarm \cup {List}
  /\ Wrap \in Nat /\ TickRate \in Nat \ {0} /\ Milli \in Nat \ {0} /\ Micro \in Nat \ {0}
  /\ MaxTicks \in Nat \ {0} /\ MaxTicks < Wrap
  /\ Settle \in Nat /\ XferTimeout \in Nat

\* A struct timeval is normalised, and a tick is a whole number of microseconds.
ASSUME DayAssumption ==
  Moments \subseteq [sec : Nat, usec : 0..(Micro - 1)] /\ Micro % TickRate = 0

VARIABLES
  rate,              \* _alt_tick_rate, 0 until the timer driver starts
  nticks,            \* _alt_nticks
  next, previous,    \* the links of the list
  time, rollover,    \* the fields of each alarm
  at,                \* the alarm alt_tick is about to visit, List when it is done
  wait,              \* [for, until]: the wait the USB host is in
  since              \* history: the ticks since it began, counted up to Long

list   == <<next, previous>>
fields == <<time, rollover>>
pause  == <<wait, since>>
vars   == <<rate, nticks, list, fields, at, pause>>

Nodes  == Alarm \cup {List}
Word   == 0..(Wrap - 1)
NoWait == [for |-> "nothing", until |-> 0]
Long   == Settle + XferTimeout + 1

Init ==
  /\ rate = 0 /\ nticks = 0
  /\ next = [n \in Nodes |-> IF n = List THEN List ELSE Null] /\ previous = next
  /\ time = [a \in Alarm |-> 0] /\ rollover = [a \in Alarm |-> FALSE]
  /\ at = List
  /\ wait = NoWait /\ since = 0

-----------------------------------------------------------------------------
(* alt_llist.h *)

Insert(a) ==
  /\ previous' = [previous EXCEPT ![a] = List, ![next[List]] = a]
  /\ next' = [next EXCEPT ![a] = next[List], ![List] = a]

\* The element is left pointing at itself.
Remove(a) ==
  /\ previous' = [[previous EXCEPT ![next[a]] = previous[a]] EXCEPT ![a] = a]
  /\ next' = [[next EXCEPT ![previous[a]] = next[a]] EXCEPT ![a] = a]

Listed(a) == next[a] \notin {a, Null}

-----------------------------------------------------------------------------
(* Alarms *)

\* Fault: a callback time is never of the next round.
WrappedNever(t) == FALSE

\* A callback time that lies before now is one of the next round.
Wrapped(t) == t < nticks

\* alt_avalon_timer_sc_init: the rate is set once, before the first interrupt.
SysclkInit ==
  /\ rate = 0 /\ rate' = TickRate
  /\ UNCHANGED <<nticks, list, fields, at, pause>>

\* alt_alarm_start of an alarm that is not running; without a clock it fails.
Start(a, n) ==
  /\ rate # 0 /\ at = List /\ ~Listed(a)
  /\ LET t == (n + nticks + 1) % Wrap IN
       time' = [time EXCEPT ![a] = t] /\ rollover' = [rollover EXCEPT ![a] = Wrapped(t)]
  /\ Insert(a)
  /\ UNCHANGED <<rate, nticks, at, pause>>

\* alt_alarm_stop, harmless on an alarm that has stopped.
Stop(a) ==
  /\ at = List /\ next[a] # Null
  /\ Remove(a)
  /\ UNCHANGED <<rate, nticks, fields, at, pause>>

\* alt_tick: the counter moves, the walk begins.
Tick ==
  /\ rate # 0 /\ at = List
  /\ nticks' = (nticks + 1) % Wrap
  /\ at' = next[List]
  /\ since' = IF since < Long THEN since + 1 ELSE Long
  /\ UNCHANGED <<rate, list, fields, wait>>

\* The flag of an alarm as alt_tick tests it: cleared when the counter wraps.
StillNextRound(a) == rollover[a] /\ nticks # 0

Due(a) == time[a] <= nticks /\ ~StillNextRound(a)

NotDue(a) ==
  /\ at = a /\ ~Due(a)
  /\ rollover' = [rollover EXCEPT ![a] = StillNextRound(a)]
  /\ at' = next[a]
  /\ UNCHANGED <<rate, nticks, list, time, pause>>

\* The callback returns n, the ticks to the next call.
CallAgain(a, n) ==
  /\ at = a /\ Due(a)
  /\ LET t == (time[a] + n) % Wrap IN
       time' = [time EXCEPT ![a] = t] /\ rollover' = [rollover EXCEPT ![a] = Wrapped(t)]
  /\ at' = next[a]
  /\ UNCHANGED <<rate, nticks, list, pause>>

\* Fault: the next alarm is read after this one was removed.
CallLastReadsLate(a) ==
  /\ at = a /\ Due(a)
  /\ rollover' = [rollover EXCEPT ![a] = FALSE]
  /\ Remove(a)
  /\ at' = next'[a]
  /\ UNCHANGED <<rate, nticks, time, pause>>

\* The callback returns 0.  The next alarm was read before.
CallLast(a) ==
  /\ at = a /\ Due(a)
  /\ rollover' = [rollover EXCEPT ![a] = FALSE]
  /\ Remove(a)
  /\ at' = next[a]
  /\ UNCHANGED <<rate, nticks, time, pause>>

-----------------------------------------------------------------------------
(* The millisecond clock of the USB host: a 32-bit product, then a division *)

Now == ((nticks * Milli) % Wrap) \div TickRate
Last == (Wrap - 1) \div TickRate

\* Fault: the end of a wait is counted from the reset of the clock.
AwaitFromZero(what, ms) ==
  /\ rate # 0 /\ at = List /\ wait = NoWait
  /\ wait' = [for |-> what, until |-> ms] /\ since' = 0
  /\ UNCHANGED <<rate, nticks, list, fields, at>>

Await(what, ms) ==
  /\ rate # 0 /\ at = List /\ wait = NoWait
  /\ wait' = [for |-> what, until |-> Now + ms] /\ since' = 0
  /\ UNCHANGED <<rate, nticks, list, fields, at>>

\* USB_ATTACHED_SUBSTATE_SETTLE asks for later than, XferDispatchPkt for not before.
Over == \/ wait.for = "settle" /\ Now > wait.until
        \/ wait.for = "transfer" /\ ~(Now < wait.until)

Proceed ==
  /\ at = List /\ Over
  /\ wait' = NoWait /\ since' = 0
  /\ UNCHANGED <<rate, nticks, list, fields, at>>

-----------------------------------------------------------------------------
(* The time of day, as functions of the counter *)

\* What settimeofday(t) at tick n stores in alt_resettime; the product has 32 bits.
Reset(n, t) ==
  [sec  |-> t.sec - n \div TickRate,
   usec |-> t.usec - (((n * (Micro \div TickRate)) % Wrap) % Micro)]

\* Microseconds borrowed from and carried to the seconds; no time before zero.
Normal(sec, usec) ==
  CASE usec < 0 /\ sec <= 0 -> [sec |-> 0, usec |-> 0]
    [] usec < 0 /\ sec > 0  -> [sec |-> sec - 1, usec |-> usec + Micro]
    [] usec >= Micro        -> [sec |-> sec + 1, usec |-> usec - Micro]
    [] OTHER                -> [sec |-> sec, usec |-> usec]

\* What gettimeofday returns at tick n; the product has 64 bits.
TimeOfDay(n, reset) ==
  Normal(reset.sec + n \div TickRate, reset.usec + ((n * (Micro \div TickRate)) % Micro))

-----------------------------------------------------------------------------
Next ==
  \/ SysclkInit \/ Tick \/ Proceed
  \/ \E a \in Alarm : Stop(a) \/ NotDue(a) \/ CallLast(a)
  \/ \E a \in Alarm, n \in 0..(MaxTicks - 1) : Start(a, n)
  \/ \E a \in Alarm, n \in 1..MaxTicks : CallAgain(a, n)
  \/ Await("settle", Settle) \/ Await("transfer", XferTimeout)

\* One turn of the loop of alt_tick.
Walk == \E a \in Alarm : NotDue(a) \/ CallLast(a) \/ \E n \in 1..MaxTicks : CallAgain(a, n)

\* The timer never stops, an interrupt routine runs to its end, and the loop of
\* the host tests its wait again and again.
Fairness == WF_vars(SysclkInit) /\ WF_vars(Tick) /\ WF_vars(Walk) /\ SF_vars(Proceed)

Spec == Init /\ [][Next]_vars /\ Fairness

-----------------------------------------------------------------------------
(* Properties *)

\* Every variable stays within its type: the counter and the alarm times are
\* 32-bit words, the links lead to alarms or to the head of the list.
TypeOK ==
  /\ rate \in {0, TickRate} /\ nticks \in Word
  /\ next \in [Nodes -> Nodes \cup {Null}] /\ previous \in [Nodes -> Nodes \cup {Null}]
  /\ time \in [Alarm -> Word] /\ rollover \in [Alarm -> BOOLEAN]
  /\ at \in Nodes
  /\ wait \in [for : {"nothing", "settle", "transfer"}, until : 0..(Last + Settle + XferTimeout)]
  /\ since \in 0..Long

\* The list is one ring (alt_llist.h): the running alarms and the head are
\* linked both ways and nothing else is, and the alarm that alt_tick is about
\* to visit is on it, although the one before it may just have been removed.
ListIsRing ==
  LET On == {a \in Alarm : Listed(a)} \cup {List} IN
  /\ \A n \in On : next[n] \in On /\ previous[next[n]] = n
  /\ \A S \in SUBSET On : (List \in S /\ \A n \in S : next[n] \in S) => S = On
  /\ at \in On

\* alt_tick calls each alarm back at the tick it was started for, never a tick
\* early or late, whenever the 32-bit counter wraps on the way (alt_tick.c:115,
\* the rollover flag); a running alarm is called at most once a tick.
Promise == INSTANCE Countdown WITH
  left <- [a \in Alarm |-> IF Listed(a) THEN (time[a] - nticks) % Wrap ELSE -1]

ImplementsCountdown == Promise!Spec

\* alt_tick comes to the end of the list: it is not caught in a loop in the
\* interrupt routine by an alarm that was removed under it (alt_tick.c:102).
TickReturns == []<>(at = List)

\* The settle delay of USB_Task and the time-out of XferDispatchPkt are never
\* cut short (transfer.c:144, 277), although the clock they read starts again
\* from zero each time the product of its ticks passes 2^32.
NeverEarly ==
  [][wait.for # "nothing" /\ wait'.for = "nothing"
       => since * Milli > (IF wait.for = "settle" THEN Settle ELSE XferTimeout - 1) * TickRate]_vars

\* A wait begun so early that the clock can still show its end does end.  The
\* others, begun in the last Settle or XferTimeout milliseconds before the
\* product wraps, never do: the clock goes back to zero below their end.
WaitEnds ==
  /\ (wait.for = "settle" /\ wait.until < Last) ~> (wait = NoWait)
  /\ (wait.for = "transfer" /\ wait.until <= Last) ~> (wait = NoWait)

\* Nothing takes too long or too short: the walk returns, and the waits of the USB
\* host end, and not before they should.
InTime == TickReturns /\ NeverEarly /\ WaitEnds

AsMicro(t) == t.sec * Micro + t.usec

\* An immediate gettimeofday returns what settimeofday set (alt_settod.c:61-63)
\* and a later one what was set plus the time of the ticks in between.  It holds
\* for a time set before the 32-bit product of alt_settod.c:84 wraps.
SetThenGet ==
  nticks * (Micro \div TickRate) < Wrap =>
    \A t \in Moments, m \in nticks..(Wrap - 1) :
      /\ TimeOfDay(m, Reset(nticks, t)).usec \in 0..(Micro - 1)
      /\ AsMicro(TimeOfDay(m, Reset(nticks, t))) = AsMicro(t) + (m - nticks) * (Micro \div TickRate)

\* The types, the list, and the time of day.
ClockSound == TypeOK /\ ListIsRing /\ SetThenGet
=============================================================================
