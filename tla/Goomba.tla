------------------------------- MODULE Goomba -------------------------------
(***************************************************************************)
(* The enemy that walks to and fro (goomba.sv).                            *)
(*                                                                         *)
(* Every frame_rate + 1 pixel clocks it moves by Goomba_X_Motion and       *)
(* counts the step; on the clock after the G_dist-th step it turns.  The   *)
(* reset button restores position and motion, but not the count of steps.  *)
(***************************************************************************)
EXTENDS Integers

CONSTANT G_dist     \* the steps between two turns: 160 in the code

\* The walk fits to the left of the start, and in ten bits.
ASSUME DistanceAssumption == G_dist \in 1..280

VARIABLES Goomba_X_Pos, Goomba_X_Motion, counter

enemy == <<Goomba_X_Pos, Goomba_X_Motion, counter>>

Goomba_X_Center == 280

EnemyInit ==
  /\ Goomba_X_Pos = Goomba_X_Center
  /\ Goomba_X_Motion = 1
  /\ counter = 0

TurnDue == counter = G_dist

\* frame_counter reaches frame_rate: long after the turn that is due, if one is.
Frame ==
  /\ ~TurnDue
  /\ Goomba_X_Pos' = (Goomba_X_Pos + Goomba_X_Motion) % 1024
  /\ counter' = counter + 1
  /\ UNCHANGED Goomba_X_Motion

\* Fault: the count starts again, the direction stays.
TurnNever ==
  /\ TurnDue
  /\ counter' = 0
  /\ UNCHANGED <<Goomba_X_Pos, Goomba_X_Motion>>

Turn ==
  /\ TurnDue
  /\ Goomba_X_Motion' = IF Goomba_X_Motion = 1 THEN -1 ELSE 1
  /\ counter' = 0
  /\ UNCHANGED Goomba_X_Pos

EnemyReset ==
  /\ Goomba_X_Pos' = Goomba_X_Center
  /\ Goomba_X_Motion' = 1
  /\ UNCHANGED counter

EnemyNext == Frame \/ Turn \/ EnemyReset

EnemySpec == EnemyInit /\ [][EnemyNext]_enemy

-----------------------------------------------------------------------------
\* The count of steps never passes G_dist, with which it is compared for equality.
EnemyTypeOK ==
  /\ Goomba_X_Pos \in 0..1023
  /\ Goomba_X_Motion \in {1, -1}
  /\ counter \in 0..G_dist

\* However often the button is pressed, and although each press shifts the
\* walk by the steps already counted, it stays within G_dist of the start:
\* the shifts do not add up and the position never wraps.
NearTheStart ==
  Goomba_X_Pos \in (Goomba_X_Center - G_dist)..(Goomba_X_Center + G_dist)
=============================================================================
