------------------------------ MODULE MarioGame ------------------------------
(***************************************************************************)
(* Mario's motion: the state machine that turns keys and collisions into   *)
(* velocities (mario_fsm.sv), the position and scroll registers that apply *)
(* them (mario.sv), and the screen that lets them (screenfsm.sv).          *)
(*                                                                         *)
(* The state machine and the position registers have clocks of their own   *)
(* of the same period, 416668 pixel clocks: during the game their ticks    *)
(* alternate.  The position is frozen on the other screens, the state      *)
(* machine is not.  Velocities are 20-bit fixed point in the code; every   *)
(* one of its constants is a multiple of 0x400, the unit here.             *)
(***************************************************************************)
EXTENDS Integers

CONSTANTS
  Levels,        \* names to what is fixed in a game: [blocks: the block numbers
                 \* at which the collider ROM holds a 1, keys: the <<keycode0,
                 \* keycode1>> reported, enemy: whether the enemy is followed]
  FinishLine,    \* screenfsm: x_offset[10:1] at which the game ends
  MaxScroll,     \* bound: the scroll the model follows
  MaxSpeed       \* bound: the speed at which a direction that comes second is let go

ASSUME GameAssumption ==
  /\ \A l \in DOMAIN Levels :
       /\ Levels[l].blocks \subseteq 0..1199
       /\ Levels[l].keys \subseteq (0..255) \X (0..255)
       /\ Levels[l].enemy \in BOOLEAN
  /\ FinishLine \in Nat /\ MaxScroll \in Nat /\ MaxSpeed \in Nat

VARIABLES
  screen,        \* screenfsm's State
  State,         \* mario_fsm's State
  x_Vel, y_Vel, x_Vel_Collider, y_Vel_Collider,
  xd, yd,        \* TRUE: right, up
  second,        \* history: at the last tick his direction was the second key
  X, Y, offset,  \* Mario_X_Pos, Mario_Y_Pos, offset
  turn,          \* whose tick is next during the game
  level,         \* the level played
  beyond         \* what the ROM returns past its last block

fsm      == <<State, x_Vel, y_Vel, x_Vel_Collider, y_Vel_Collider, xd, yd, second>>
position == <<X, Y, offset>>
world    == <<level, beyond>>
vars     == <<screen, fsm, position, turn, world>>

Blocks   == Levels[level].blocks
KeyPairs == Levels[level].keys

UP    == 13
LEFT  == 4
RIGHT == 7
ENTER == 40

X_ACCEL       == 1
Y_ACCEL       == 2
JUMP_INIT_VEL == 48
MAX_X_VEL     == 16
MAX_Y_VEL     == 16
Size          == 16    \* Mario_XSize and Mario_YSize

Pixels(v) == v \div 4          \* bits 19:12
Vel(v)    == v % 1024          \* 20 bits
Pos(p)    == p % 1024          \* 10 bits

Directions == {"Left", "Right"}
States == ({"Idle", "Jump", "Fall"} \X {"None"}) \cup ({"Run", "Jump", "Fall"} \X Directions)

-----------------------------------------------------------------------------
(* Collisions *)

\* The ROM is read beyond its 1200 words when a row is below the screen.
Solid(a) == IF a < 1200 THEN a \in Blocks ELSE beyond

\* The block under a pixel of the screen: 6 bits of column, 11 bits of address.
Hit(px, py) == Solid(((((px + offset) \div 32) % 64) + 80 * (py \div 32)) % 2048)

l_pix == Pos(X - Size)
r_pix == Pos(X + Size)
t_pix == Pos(Y - Size)
b_pix == Pos(Y + Size)

DX == IF xd THEN Pixels(x_Vel_Collider) ELSE -Pixels(x_Vel_Collider)
DY == IF yd THEN -Pixels(y_Vel_Collider) ELSE Pixels(y_Vel_Collider)

l_pix_vel == Pos(X - Size + DX)
r_pix_vel == Pos(X + Size + DX)
t_pix_vel == Pos(Y - Size + DY)
b_pix_vel == Pos(Y + Size + DY)

collide_bl == Hit(l_pix_vel, b_pix_vel)
collide_br == Hit(r_pix_vel, b_pix_vel)
collide_lu == Hit(l_pix, t_pix_vel)
collide_ru == Hit(r_pix, t_pix_vel)
collide_ld == Hit(l_pix, b_pix_vel)
collide_rd == Hit(r_pix, b_pix_vel)

\* Fault: the side is tested where Mario is, not where he will be.
SideHere(d) == Hit(IF d = "Left" THEN l_pix ELSE r_pix, t_pix)

\* collide_llu or collide_rru, collide_lld or collide_rrd.
SideUp(d)   == Hit(IF d = "Left" THEN l_pix_vel ELSE r_pix_vel, t_pix)
SideDown(d) == Hit(IF d = "Left" THEN l_pix_vel ELSE r_pix_vel, b_pix)

Grounded == collide_ld \/ collide_rd
Peak     == collide_lu \/ collide_ru \/ y_Vel = 0

-----------------------------------------------------------------------------
(* Keys *)

Key(d)      == IF d = "Left" THEN LEFT ELSE RIGHT
Opposite(d) == IF d = "Left" THEN "Right" ELSE "Left"
Pressed(k, c) == k[1] = c \/ k[2] = c

\* Fault: the limit on the velocity is not a condition.
WantedAnyway(k, c, condition) == Pressed(k, c)

\* k0 == c || k1 == c && condition: && binds tighter.
Wanted(k, c, condition) == k[1] = c \/ (k[2] = c /\ condition)

-----------------------------------------------------------------------------
(* The registers that several states of mario_fsm drive alike *)

Accelerated(k, d, v) ==
  IF Wanted(k, Key(d), x_Vel < MAX_X_VEL) THEN Vel(v + X_ACCEL)
  ELSE IF Pressed(k, Key(d)) THEN MAX_X_VEL
  ELSE IF x_Vel > 0 THEN Vel(v - X_ACCEL)
  ELSE v

\* Standing: a key for a jump gives the velocity at once.
Stand(k) ==
  IF Pressed(k, UP)
  THEN y_Vel' = JUMP_INIT_VEL /\ y_Vel_Collider' = JUMP_INIT_VEL /\ yd' = TRUE
  ELSE y_Vel' = 0 /\ y_Vel_Collider' = 4 /\ yd' = FALSE

Rise ==
  IF Peak
  THEN y_Vel' = 0 /\ y_Vel_Collider' = 0 /\ yd' = FALSE
  ELSE /\ y_Vel' = Vel(y_Vel - Y_ACCEL)
       /\ y_Vel_Collider' = Vel(y_Vel_Collider - Y_ACCEL)
       /\ yd' = TRUE

Drop ==
  IF y_Vel >= MAX_Y_VEL
  THEN y_Vel' = MAX_Y_VEL /\ y_Vel_Collider' = MAX_Y_VEL
  ELSE /\ y_Vel' = y_Vel + Y_ACCEL
       /\ y_Vel_Collider' = Vel(y_Vel_Collider + Y_ACCEL)

-----------------------------------------------------------------------------
(* One tick of mario_fsm in each of its states *)

Idle(k) ==
  /\ State = <<"Idle", "None">>
  /\ State' = IF ~Grounded THEN <<"Fall", "None">>
              ELSE IF Pressed(k, UP) THEN <<"Jump", "None">>
              ELSE IF Wanted(k, LEFT, ~SideUp("Left")) THEN <<"Run", "Left">>
              ELSE IF Wanted(k, RIGHT, ~SideUp("Right")) THEN <<"Run", "Right">>
              ELSE <<"Idle", "None">>
  /\ x_Vel' = 0 /\ x_Vel_Collider' = 0
  /\ Stand(k)
  /\ UNCHANGED xd

Run(k, d) ==
  /\ State = <<"Run", d>>
  /\ State' = IF ~collide_bl /\ ~collide_br THEN <<"Fall", "None">>
              ELSE IF Pressed(k, UP)
                   THEN IF Wanted(k, Key(d), ~SideUp(d)) THEN <<"Jump", d>> ELSE <<"Jump", "None">>
              ELSE IF SideUp(d) THEN <<"Idle", "None">>
              ELSE IF Wanted(k, Key(Opposite(d)), x_Vel = 0) THEN <<"Run", Opposite(d)>>
              ELSE State
  /\ x_Vel' = Accelerated(k, d, x_Vel)
  /\ x_Vel_Collider' = IF SideUp(d) THEN 8 ELSE Accelerated(k, d, x_Vel_Collider)
  /\ xd' = (d = "Right")
  /\ Stand(k)

Jump(k) ==
  /\ State = <<"Jump", "None">>
  /\ State' = IF Peak THEN <<"Fall", "None">>
              ELSE IF Wanted(k, RIGHT, ~SideUp("Right")) THEN <<"Jump", "Right">>
              ELSE IF Wanted(k, LEFT, ~SideUp("Left")) THEN <<"Jump", "Left">>
              ELSE <<"Jump", "None">>
  /\ x_Vel' = 0
  /\ Rise
  /\ UNCHANGED <<x_Vel_Collider, xd>>

JumpTo(k, d) ==
  /\ State = <<"Jump", d>>
  /\ State' = IF Peak THEN <<"Fall", d>>
              ELSE IF SideUp(d) \/ SideDown(d) THEN <<"Jump", "None">>
              ELSE IF x_Vel = 0 /\ Pressed(k, Key(Opposite(d))) THEN <<"Jump", Opposite(d)>>
              ELSE State
  /\ IF ~Peak /\ (SideUp(d) \/ SideDown(d))
     THEN x_Vel' = 0 /\ x_Vel_Collider' = 8
     ELSE /\ x_Vel' = Accelerated(k, d, x_Vel)
          /\ x_Vel_Collider' = Accelerated(k, d, x_Vel_Collider)
  /\ xd' = (d = "Right")
  /\ Rise

\* Landing: the pixels to the block below go to the collider's velocity.
Landed == Vel(4 * ((b_pix_vel - (b_pix_vel % 32) - (Y + Size)) % 256) + (y_Vel_Collider % 4))

Fall(k) ==
  /\ State = <<"Fall", "None">>
  /\ State' = IF Grounded THEN <<"Idle", "None">>
              ELSE IF Pressed(k, RIGHT)
                   THEN IF SideUp("Right") \/ SideDown("Right") THEN <<"Fall", "None">> ELSE <<"Fall", "Right">>
              ELSE IF Pressed(k, LEFT)
                   THEN IF SideUp("Left") \/ SideDown("Left") THEN <<"Fall", "None">> ELSE <<"Fall", "Left">>
              ELSE <<"Fall", "None">>
  /\ x_Vel' = 0
  /\ IF Grounded THEN y_Vel' = 0 /\ y_Vel_Collider' = Landed ELSE Drop
  /\ yd' = FALSE
  /\ UNCHANGED <<x_Vel_Collider, xd>>

FallTo(k, d) ==
  LET foot == IF d = "Left" THEN collide_rd ELSE collide_ld
      blocked == SideUp(d) \/ (SideDown(d) /\ ~foot)
  IN /\ State = <<"Fall", d>>
     /\ State' = IF blocked THEN <<"Fall", "None">>
                 ELSE IF Grounded THEN <<"Run", d>>
                 ELSE IF x_Vel = 0 /\ Pressed(k, Key(Opposite(d))) THEN <<"Fall", Opposite(d)>>
                 ELSE State
     /\ IF blocked THEN x_Vel' = 0 /\ x_Vel_Collider' = 8
                   ELSE /\ x_Vel' = Accelerated(k, d, x_Vel)
                        /\ x_Vel_Collider' = Accelerated(k, d, x_Vel_Collider)
     /\ IF Grounded /\ ~blocked THEN y_Vel' = 0 /\ y_Vel_Collider' = 8 ELSE Drop
     /\ xd' = (d = "Right") /\ yd' = FALSE

FsmTick(k) == \/ Idle(k) \/ Jump(k) \/ Fall(k)
              \/ \E d \in Directions : Run(k, d) \/ JumpTo(k, d) \/ FallTo(k, d)

\* The direction Mario moves in is the second of the keys.
ComesSecond(k) == \E d \in Directions : State[2] = d /\ k[1] = Key(d)

-----------------------------------------------------------------------------
(* mario.sv: one update of the position *)

\* Fault: the screen never scrolls.
MoveXStill ==
  /\ X' = IF ~xd THEN IF X - Size - Pixels(x_Vel) \in 0..638 THEN X - Pixels(x_Vel) ELSE Size
          ELSE IF X + Pixels(x_Vel) >= 320 THEN 319 ELSE X + Pixels(x_Vel)
  /\ UNCHANGED offset

MoveX ==
  IF xd
  THEN IF X + Pixels(x_Vel) >= 320
       THEN X' = 319 /\ offset' = (offset + Pixels(x_Vel)) % 2048
       ELSE X' = X + Pixels(x_Vel) /\ UNCHANGED offset
  ELSE /\ X' = IF X - Size - Pixels(x_Vel) \in 0..638 THEN X - Pixels(x_Vel) ELSE Size
       /\ UNCHANGED offset

\* Fault: only a jump moves Mario vertically.
MoveYUp == Y' = IF yd THEN Pos(Y - Pixels(y_Vel)) ELSE Y

MoveY == Y' = Pos(IF yd THEN Y - Pixels(y_Vel) ELSE Y + Pixels(y_Vel))

-----------------------------------------------------------------------------
\* The reset values; the state machine, which has none, powers up in Idle.
Init ==
  /\ screen = "TitleScreen"
  /\ State = <<"Idle", "None">> /\ x_Vel = 0 /\ y_Vel = 0 /\ x_Vel_Collider = 0 /\ y_Vel_Collider = 0
  /\ xd = FALSE /\ yd = FALSE /\ second = FALSE
  /\ X = 160 /\ Y = 399 /\ offset = 0
  /\ turn \in {"fsm", "position"}
  /\ level \in DOMAIN Levels /\ beyond \in BOOLEAN

\* The screen runs on the pixel clock: it has settled before the next tick.
Finished == screen = "Game" /\ offset \div 2 >= FinishLine

Tick ==
  /\ screen = "Game" => turn = "fsm" /\ ~Finished
  /\ \E k \in KeyPairs : /\ FsmTick(k)
                         /\ ComesSecond(k) => x_Vel < MaxSpeed
                         /\ second' = ComesSecond(k)
  /\ turn' = IF screen = "Game" THEN "position" ELSE turn
  /\ UNCHANGED <<screen, position, world>>

Move ==
  /\ screen = "Game" /\ turn = "position" /\ ~Finished
  /\ offset <= MaxScroll
  /\ MoveX /\ MoveY
  /\ turn' = "fsm"
  /\ UNCHANGED <<screen, fsm, world>>

Start ==
  /\ screen = "TitleScreen"
  /\ \E k \in KeyPairs : Pressed(k, ENTER)
  /\ screen' = "Game"
  /\ turn' \in {"fsm", "position"}
  /\ UNCHANGED <<fsm, position, world>>

Finish ==
  /\ Finished
  /\ screen' = "End"
  /\ UNCHANGED <<fsm, position, turn, world>>

\* The reset button: it stops the clock of the state machine, whose own reset
\* is synchronous and so never happens.
Reset ==
  /\ screen' = "TitleScreen"
  /\ X' = 160 /\ Y' = 399 /\ offset' = 0
  /\ UNCHANGED <<fsm, turn, world>>

Next == Tick \/ Move \/ Start \/ Finish \/ Reset

Spec == Init /\ [][Next]_vars /\ WF_vars(Tick) /\ WF_vars(Move) /\ WF_vars(Finish)

-----------------------------------------------------------------------------
\* The registers stay within their widths and Mario within the left half of
\* the screen, at every sequence of keys.
TypeOK ==
  /\ screen \in {"TitleScreen", "Game", "End"}
  /\ State \in States
  /\ x_Vel \in 0..1023 /\ y_Vel \in 0..1023
  /\ x_Vel_Collider \in 0..1023 /\ y_Vel_Collider \in 0..1023
  /\ xd \in BOOLEAN /\ yd \in BOOLEAN /\ second \in BOOLEAN
  /\ X \in Size..319 /\ Y \in 0..1023 /\ offset \in 0..2047
  /\ turn \in {"fsm", "position"} /\ level \in DOMAIN Levels /\ beyond \in BOOLEAN

-----------------------------------------------------------------------------
(* Properties of the game.  The bounds are in pixels of the screen. *)

Playing == screen = "Game"

\* Mario's feet never sink further into a block than one step of his fall:
\* the state machine looks one step ahead of the position register, which
\* moves between two of its ticks.
FeetClear == Playing => ~Hit(X, Pos(b_pix - Pixels(MAX_Y_VEL)))

\* His head never enters a block above him: the look-ahead of a jump is as
\* long as the step that follows it.
HeadClear == Playing => ~Hit(X, t_pix)

\* Running into a wall he overlaps it by no more than 5 pixels, although the
\* state machine leaves Run one step after it has seen the wall and the step it
\* looked ahead may be one unit shorter than the step he takes.
SidesClear ==
  Playing => ~Hit(Pos(l_pix + 5), Y) /\ ~Hit(Pos(r_pix - 5), Y)

\* Mario is never further inside a block than one step: floor, ceiling and walls,
\* with clocks that alternate between looking ahead and moving, and resets that
\* reach half of the state.  It is a statement about speeds up to MAX_X_VEL: a
\* direction that comes second takes him beyond (SpeedLimit), where a wall stops
\* him later than one step.
BodyClear == FeetClear /\ HeadClear /\ SidesClear

\* A jump starts no faster than JUMP_INIT_VEL and its decrement never passes
\* zero; and Mario gets faster than MAX_X_VEL in no other way than by a tick at
\* which his direction is the second key, where && binds tighter than || and the
\* limit is not tested.  Above the limit every other tick slows him down.
SpeedLimit ==
  [][/\ y_Vel' <= JUMP_INIT_VEL
     /\ x_Vel' > MAX_X_VEL => x_Vel' <= x_Vel \/ second']_vars

\* A jump ends: on every path Mario stands again, or the game is left.
Lands == (Playing /\ State[1] \in {"Jump", "Fall"})
            ~> (State[1] \in {"Idle", "Run"} \/ ~Playing)

\* A player who never lets the right key go reaches the end, or resets, where
\* no wall is in the way.
HoldsRight == /\ \A k \in KeyPairs : k[2] = RIGHT /\ k[1] \in {0, ENTER}
              /\ \A b \in Blocks : b \div 80 \in {13, 14}
Finishes == (Playing /\ HoldsRight) ~> ~Playing

\* "if not colliding and want to go left", mario_fsm.sv:135: Mario leaves
\* Idle to run only towards a side that is free.
RunsFromFreeSide ==
  [][\A d \in Directions :
       State = <<"Idle", "None">> /\ State' = <<"Run", d>> => ~SideUp(d)]_vars

\* "divide position by 32 to get block", mario_fsm.sv:86: the block tested
\* under his left foot is the block of the map at that place.
TestsTheMap ==
  Playing /\ b_pix_vel < 480
    => (collide_ld <=> 80 * (b_pix_vel \div 32) + (l_pix + offset) \div 32 \in Blocks)
=============================================================================
