-------------------------------- MODULE Game --------------------------------
(***************************************************************************)
(* The moving parts of the game together: Mario and the screens, the enemy *)
(* on a clock of its own, and the reset button, which all of them see.     *)
(***************************************************************************)
EXTENDS MarioGame, Goomba

all == <<vars, enemy>>

GameInit == Init /\ EnemyInit

MarioSteps == (Tick \/ Move \/ Start \/ Finish) /\ UNCHANGED enemy

\* Bound: the enemy is followed on the levels that say so; the two never meet.
EnemySteps == Levels[level].enemy /\ (Frame \/ Turn) /\ UNCHANGED vars

Button == Reset /\ EnemyReset

GameNext == MarioSteps \/ EnemySteps \/ Button

GameSpec ==
  GameInit /\ [][GameNext]_all /\ WF_vars(Tick) /\ WF_vars(Move) /\ WF_vars(Finish)
=============================================================================
