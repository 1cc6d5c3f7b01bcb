----------------------------- MODULE Countdown -----------------------------
(***************************************************************************)
(* What the alarms of the HAL promise, without a clock that wraps: each    *)
(* running alarm has a number of ticks to go, it goes off at the tick that *)
(* brings it to zero, before the next tick, and then stops or starts over. *)
(***************************************************************************)
EXTENDS Integers

CONSTANTS Alarm, MaxTicks

VARIABLE left      \* the ticks to go, Off for an alarm that is not running

Off == -1

Init == left = [a \in Alarm |-> Off]

Start(a) == left[a] = Off /\ \E n \in 1..MaxTicks : left' = [left EXCEPT ![a] = n]
Stop(a)  == left' = [left EXCEPT ![a] = Off]

GoesOff(a) ==
  /\ left[a] = 0
  /\ \E n \in 1..MaxTicks \cup {Off} : left' = [left EXCEPT ![a] = n]

Tick ==
  /\ \A a \in Alarm : left[a] # 0
  /\ left' = [a \in Alarm |-> IF left[a] = Off THEN Off ELSE left[a] - 1]

Next == Tick \/ \E a \in Alarm : Start(a) \/ Stop(a) \/ GoesOff(a)

Spec == Init /\ [][Next]_left
=============================================================================
