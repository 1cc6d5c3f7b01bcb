------------------------------ MODULE MCClock ------------------------------
(***************************************************************************)
(* Two alarms on a counter of three bits.  The rates are equal, as in the   *)
(* program (1000 ticks a second), and do not divide Wrap: the millisecond  *)
(* clock wraps at a different value in each of its rounds.                 *)
(***************************************************************************)
EXTENDS Clock

Times == [sec : 0..2, usec : 0..5]
=============================================================================
