------------------------------ MODULE GameProofs ------------------------------
(***************************************************************************)
(* Proofs about the game, for every world, set of keys, length of the      *)
(* level and distance of the enemy's walk: about Mario and the screens     *)
(* (MarioGame), about the enemy (Goomba), and about both with the button   *)
(* they share (Game), which takes a step of neither without being a step   *)
(* of one.                                                                 *)
(***************************************************************************)
EXTENDS Game, TLAPS

USE GameAssumption, DistanceAssumption

-----------------------------------------------------------------------------
(* Mario and the screens *)

\* An acceleration leaves both velocities in their registers.
LEMMA AcceleratedWidth ==
  ASSUME x_Vel \in 0..1023, x_Vel_Collider \in 0..1023, NEW k, NEW d
  PROVE  /\ Accelerated(k, d, x_Vel) \in 0..1023
         /\ Accelerated(k, d, x_Vel_Collider) \in 0..1023
<1>1. /\ Vel(x_Vel + X_ACCEL) \in 0..1023 /\ Vel(x_Vel - X_ACCEL) \in 0..1023
      /\ Vel(x_Vel_Collider + X_ACCEL) \in 0..1023
      /\ Vel(x_Vel_Collider - X_ACCEL) \in 0..1023
  BY DEF X_ACCEL, Vel
<1>2. Accelerated(k, d, x_Vel) \in 0..1023
  BY <1>1 DEF Accelerated, MAX_X_VEL
<1>3. Accelerated(k, d, x_Vel_Collider) \in 0..1023
  BY <1>1 DEF Accelerated, MAX_X_VEL
<1> QED
  BY <1>2, <1>3

\* The velocities of a Mario who stands, rises or drops fit their registers.
LEMMA VerticalWidth ==
  ASSUME NEW k, y_Vel \in 0..1023, y_Vel_Collider \in 0..1023, Stand(k) \/ Rise \/ Drop
  PROVE  y_Vel' \in 0..1023 /\ y_Vel_Collider' \in 0..1023
<1>1. /\ Vel(y_Vel - Y_ACCEL) \in 0..1023 /\ Vel(y_Vel_Collider - Y_ACCEL) \in 0..1023
      /\ Vel(y_Vel_Collider + Y_ACCEL) \in 0..1023
  BY DEF Y_ACCEL, Vel
<1>2. CASE Stand(k)
  BY <1>2 DEF Stand, JUMP_INIT_VEL
<1>3. CASE Rise
  BY <1>1, <1>3 DEF Rise
<1>4. CASE Drop
  <2>1. \/ y_Vel' = 16 /\ y_Vel_Collider' = 16
        \/ /\ y_Vel < 16 /\ y_Vel' = y_Vel + 2
           /\ y_Vel_Collider' = Vel(y_Vel_Collider + Y_ACCEL)
    BY <1>4 DEF Drop, MAX_Y_VEL, Y_ACCEL
  <2>2. y_Vel' \in 0..1023
    BY <2>1
  <2>3. y_Vel_Collider' \in 0..1023
    BY <2>1, <1>1
  <2> QED
    BY <2>2, <2>3
<1> QED
  BY <1>2, <1>3, <1>4

\* Standing and rising choose up or down.
LEMMA VerticalDirection == ASSUME NEW k, Stand(k) \/ Rise PROVE yd' \in BOOLEAN
<1>1. CASE Stand(k)
  <2>1. Pressed(k, UP) => yd' = TRUE
    BY <1>1, ZenonT(40) DEF Stand
  <2>2. ~Pressed(k, UP) => yd' = FALSE
    BY <1>1, ZenonT(40) DEF Stand
  <2> QED
    BY <2>1, <2>2, ZenonT(40)
<1>2. CASE Rise
  <2>1. Peak => yd' = FALSE
    BY <1>2, ZenonT(40) DEF Rise
  <2>2. ~Peak => yd' = TRUE
    BY <1>2, ZenonT(40) DEF Rise
  <2> QED
    BY <2>1, <2>2, ZenonT(40)
<1> QED
  BY <1>1, <1>2, ZenonT(40)

\* The landing writes eight bits of pixels and keeps the low bits.
LEMMA LandedWidth == ASSUME TypeOK PROVE Landed \in 0..1023
<1>1. Pixels(y_Vel_Collider) \in Int
  BY DEF TypeOK, Pixels
<1>2. Y + Size + DY \in Int
  BY <1>1 DEF TypeOK, Size, DY
<1>3. b_pix_vel \in 0..1023
  BY <1>2 DEF b_pix_vel, Pos
<1>4. b_pix_vel - (b_pix_vel % 32) - (Y + Size) \in Int
  BY <1>3 DEF TypeOK, Size
<1>5. 4 * ((b_pix_vel - (b_pix_vel % 32) - (Y + Size)) % 256) + (y_Vel_Collider % 4) \in Int
  BY <1>4 DEF TypeOK
<1> QED
  BY <1>5 DEF Landed, Vel

-----------------------------------------------------------------------------
(* Type correctness *)

\* What a tick of the state machine may change keeps its type.
FsmTypeOK ==
  /\ State \in States
  /\ x_Vel \in 0..1023 /\ y_Vel \in 0..1023
  /\ x_Vel_Collider \in 0..1023 /\ y_Vel_Collider \in 0..1023
  /\ xd \in BOOLEAN /\ yd \in BOOLEAN

\* Every state of the machine leaves its registers in their types.
LEMMA TickTypes ==
  ASSUME TypeOK, NEW k, FsmTick(k)
  PROVE  FsmTypeOK'
<1>1. /\ x_Vel \in 0..1023 /\ y_Vel \in 0..1023
      /\ x_Vel_Collider \in 0..1023 /\ y_Vel_Collider \in 0..1023
  BY DEF TypeOK
<1>0. State \in States /\ xd \in BOOLEAN
  BY DEF TypeOK
<1>2. /\ \A d \in Directions : Opposite(d) \in Directions
      /\ \A d : /\ Accelerated(k, d, x_Vel) \in 0..1023
               /\ Accelerated(k, d, x_Vel_Collider) \in 0..1023
  <2>1. \A d \in Directions : Opposite(d) \in Directions
    BY DEF Opposite, Directions
  <2>2. \A d : /\ Accelerated(k, d, x_Vel) \in 0..1023
              /\ Accelerated(k, d, x_Vel_Collider) \in 0..1023
    BY <1>1, AcceleratedWidth
  <2> QED
    BY <2>1, <2>2
<1>3. Landed \in 0..1023
  BY LandedWidth
<1>a. CASE Idle(k)
  <2>1. y_Vel' \in 0..1023 /\ y_Vel_Collider' \in 0..1023
    BY <1>1, <1>a, VerticalWidth DEF Idle
  <2>2. yd' \in BOOLEAN
    <3>1. Stand(k)
      BY <1>a, ZenonT(40) DEF Idle
    <3> QED
      BY <3>1, VerticalDirection, ZenonT(40)
  <2>3. x_Vel' \in 0..1023 /\ x_Vel_Collider' \in 0..1023
    BY <1>a DEF Idle
  <2>5. xd' \in BOOLEAN
    BY <1>0, <1>a, ZenonT(40) DEF Idle
  <2>4. State' \in States
    BY <1>a DEF Idle, States, Directions
  <2> QED
    BY <2>1, <2>2, <2>3, <2>4, <2>5 DEF FsmTypeOK
<1>b. CASE Jump(k)
  <2>1. y_Vel' \in 0..1023 /\ y_Vel_Collider' \in 0..1023
    BY <1>1, <1>b, VerticalWidth DEF Jump
  <2>2. yd' \in BOOLEAN
    <3>1. Rise
      BY <1>b DEF Jump
    <3> QED
      BY <3>1, VerticalDirection, ZenonT(40)
  <2>3. x_Vel' \in 0..1023 /\ x_Vel_Collider' \in 0..1023
    BY <1>1, <1>b DEF Jump
  <2>5. xd' \in BOOLEAN
    BY <1>0, <1>b, ZenonT(40) DEF Jump
  <2>4. State' \in States
    BY <1>b DEF Jump, States, Directions
  <2> QED
    BY <2>1, <2>2, <2>3, <2>4, <2>5 DEF FsmTypeOK
<1>c. CASE Fall(k)
  <2>1. y_Vel' \in 0..1023 /\ y_Vel_Collider' \in 0..1023
    <3>1. Drop \/ (y_Vel' = 0 /\ y_Vel_Collider' = Landed)
      BY <1>c DEF Fall
    <3>2. CASE Drop
      BY <1>1, <3>2, VerticalWidth
    <3>3. CASE y_Vel' = 0 /\ y_Vel_Collider' = Landed
      BY <1>3, <3>3
    <3> QED
      BY <3>1, <3>2, <3>3
  <2>2. yd' \in BOOLEAN
    BY <1>c, ZenonT(40) DEF Fall
  <2>3. x_Vel' \in 0..1023 /\ x_Vel_Collider' \in 0..1023
    BY <1>1, <1>c DEF Fall
  <2>5. xd' \in BOOLEAN
    BY <1>0, <1>c, ZenonT(40) DEF Fall
  <2>4. State' \in States
    BY <1>c DEF Fall, States, Directions
  <2> QED
    BY <2>1, <2>2, <2>3, <2>4, <2>5 DEF FsmTypeOK
<1>d. ASSUME NEW d \in Directions, Run(k, d) PROVE FsmTypeOK'
  <2>0. Stand(k)
    BY <1>d, ZenonT(40) DEF Run
  <2>1. y_Vel' \in 0..1023 /\ y_Vel_Collider' \in 0..1023
    BY <1>1, <2>0, VerticalWidth
  <2>2. yd' \in BOOLEAN
    BY <2>0, VerticalDirection, ZenonT(40)
  <2>3. x_Vel' \in 0..1023 /\ x_Vel_Collider' \in 0..1023
    <3>1. /\ x_Vel' = Accelerated(k, d, x_Vel)
          /\ x_Vel_Collider' = 8 \/ x_Vel_Collider' = Accelerated(k, d, x_Vel_Collider)
      BY <1>d, ZenonT(40) DEF Run
    <3> QED
      BY <1>2, <3>1
  <2>4. State' \in States
    BY <1>0, <1>2, <1>d DEF Run, States
  <2>5. xd' \in BOOLEAN
    BY <1>d DEF Run
  <2> QED
    BY <2>1, <2>2, <2>3, <2>4, <2>5 DEF FsmTypeOK
<1>e. ASSUME NEW d \in Directions, JumpTo(k, d) PROVE FsmTypeOK'
  <2>0. Rise
    BY <1>e, ZenonT(40) DEF JumpTo
  <2>1. y_Vel' \in 0..1023 /\ y_Vel_Collider' \in 0..1023
    BY <1>1, <2>0, VerticalWidth
  <2>2. yd' \in BOOLEAN
    BY <2>0, VerticalDirection, ZenonT(40)
  <2>3. x_Vel' \in 0..1023 /\ x_Vel_Collider' \in 0..1023
    <3>1. \/ x_Vel' = 0 /\ x_Vel_Collider' = 8
          \/ /\ x_Vel' = Accelerated(k, d, x_Vel)
             /\ x_Vel_Collider' = Accelerated(k, d, x_Vel_Collider)
      BY <1>e, ZenonT(40) DEF JumpTo
    <3> QED
      BY <1>2, <3>1
  <2>4. State' \in States
    BY <1>0, <1>2, <1>e DEF JumpTo, States
  <2>5. xd' \in BOOLEAN
    BY <1>e DEF JumpTo
  <2> QED
    BY <2>1, <2>2, <2>3, <2>4, <2>5 DEF FsmTypeOK
<1>f. ASSUME NEW d \in Directions, FallTo(k, d) PROVE FsmTypeOK'
  <2>1. y_Vel' \in 0..1023 /\ y_Vel_Collider' \in 0..1023
    <3>1. Drop \/ (y_Vel' = 0 /\ y_Vel_Collider' = 8)
      BY <1>f DEF FallTo
    <3>2. CASE Drop
      BY <1>1, <3>2, VerticalWidth
    <3>3. CASE y_Vel' = 0 /\ y_Vel_Collider' = 8
      BY <3>3
    <3> QED
      BY <3>1, <3>2, <3>3
  <2>2. yd' \in BOOLEAN
    BY <1>f, ZenonT(40) DEF FallTo
  <2>3. x_Vel' \in 0..1023 /\ x_Vel_Collider' \in 0..1023
    <3>1. \/ x_Vel' = 0 /\ x_Vel_Collider' = 8
          \/ /\ x_Vel' = Accelerated(k, d, x_Vel)
             /\ x_Vel_Collider' = Accelerated(k, d, x_Vel_Collider)
      BY <1>f DEF FallTo
    <3> QED
      BY <1>2, <3>1
  <2>4. State' \in States
    BY <1>0, <1>2, <1>f DEF FallTo, States
  <2>5. xd' \in BOOLEAN
    BY <1>f DEF FallTo
  <2> QED
    BY <2>1, <2>2, <2>3, <2>4, <2>5 DEF FsmTypeOK
<1> QED
  BY <1>a, <1>b, <1>c, <1>d, <1>e, <1>f DEF FsmTick

\* One update of the position keeps Mario between the left edge and the middle.
LEMMA MoveTypes ==
  ASSUME TypeOK, MoveX, MoveY
  PROVE  X' \in Size..319 /\ Y' \in 0..1023 /\ offset' \in 0..2047
<1>1. /\ x_Vel \in 0..1023 /\ y_Vel \in 0..1023 /\ X \in 16..319 /\ Y \in 0..1023
      /\ offset \in 0..2047
  BY DEF TypeOK, Size
<1>3. X' \in 16..319 /\ offset' \in 0..2047
  <2>1. CASE xd
    <3>1. IF X + Pixels(x_Vel) >= 320
          THEN X' = 319 /\ offset' = (offset + Pixels(x_Vel)) % 2048
          ELSE X' = X + Pixels(x_Vel) /\ UNCHANGED offset
      BY <2>1, ZenonT(40) DEF MoveX
    <3>2. CASE X + Pixels(x_Vel) >= 320
      <4>1. X' = 319 /\ offset' = (offset + Pixels(x_Vel)) % 2048
        BY <3>1, <3>2
      <4> QED
        BY <1>1, <4>1 DEF Pixels
    <3>3. CASE ~(X + Pixels(x_Vel) >= 320)
      <4>1. X' = X + Pixels(x_Vel) /\ offset' = offset
        BY <3>1, <3>3
      <4> QED
        BY <1>1, <3>3, <4>1 DEF Pixels
    <3> QED
      BY <3>2, <3>3
  <2>2. CASE ~xd
    <3>1. /\ X' = IF X - Size - Pixels(x_Vel) \in 0..638 THEN X - Pixels(x_Vel) ELSE Size
          /\ offset' = offset
      BY <2>2, ZenonT(40) DEF MoveX
    <3> QED
      BY <1>1, <3>1 DEF Pixels, Size
  <2> QED
    BY <2>1, <2>2
<1>4. Y' \in 0..1023
  BY <1>1 DEF MoveY, Pos, Pixels
<1> QED
  BY <1>3, <1>4 DEF Size

\* Registers, positions and screens never leave their ranges, for every world,
\* every set of keys and every length of the level.
THEOREM SpecTypeOK == Spec => []TypeOK
<1>1. Init => TypeOK
  <2>1. <<"Idle", "None">> \in States
    BY DEF States
  <2> SUFFICES ASSUME Init PROVE TypeOK
    OBVIOUS
  <2>2. xd \in BOOLEAN /\ yd \in BOOLEAN /\ beyond \in BOOLEAN /\ second \in BOOLEAN
    BY ZenonT(40) DEF Init
  <2>3. /\ x_Vel = 0 /\ y_Vel = 0 /\ x_Vel_Collider = 0 /\ y_Vel_Collider = 0
        /\ X = 160 /\ Y = 399 /\ offset = 0
    BY DEF Init
  <2>4. screen = "TitleScreen" /\ State \in States /\ turn \in {"fsm", "position"} /\ level \in DOMAIN Levels
    BY <2>1, ZenonT(40) DEF Init
  <2> QED
    BY <2>2, <2>3, <2>4 DEF TypeOK, Size
<1>2. TypeOK /\ [Next]_vars => TypeOK'
  <2> SUFFICES ASSUME TypeOK, [Next]_vars PROVE TypeOK'
    OBVIOUS
  <2>1. CASE Tick
    <3>1. PICK k \in KeyPairs : FsmTick(k)
      BY <2>1 DEF Tick
    <3>2. FsmTypeOK'
      BY <3>1, TickTypes
    <3>3. screen' = screen /\ X' = X /\ Y' = Y /\ offset' = offset /\ UNCHANGED world
      BY <2>1 DEF Tick, position
    <3>4. turn' \in {"fsm", "position"}
      BY <2>1 DEF Tick, TypeOK
    <3>5. second' \in BOOLEAN
      <4>1. PICK keys \in KeyPairs : second' = ComesSecond(keys)
        BY <2>1, Zenon DEF Tick
      <4> QED
        BY <4>1, Zenon DEF ComesSecond
    <3> QED
      BY <3>2, <3>3, <3>4, <3>5 DEF TypeOK, FsmTypeOK, world
  <2>2. CASE Move
    <3>1. X' \in Size..319 /\ Y' \in 0..1023 /\ offset' \in 0..2047
      BY <2>2, MoveTypes DEF Move
    <3> QED
      BY <2>2, <3>1 DEF Move, fsm, world, TypeOK
  <2>3. CASE Start
    BY <2>3 DEF Start, fsm, position, world, TypeOK
  <2>4. CASE Finish
    BY <2>4 DEF Finish, fsm, position, world, TypeOK
  <2>5. CASE Reset
    BY <2>5 DEF Reset, fsm, world, TypeOK, Size
  <2>6. CASE UNCHANGED vars
    BY <2>6 DEF vars, fsm, position, world, TypeOK
  <2> QED
    BY <2>1, <2>2, <2>3, <2>4, <2>5, <2>6 DEF Next
<1> QED
  BY <1>1, <1>2, PTL DEF Spec

-----------------------------------------------------------------------------
(* Speed *)

\* The range of the registers, and that a jump loses height in whole steps: an
\* odd velocity would miss zero and wrap.
SpeedInv == /\ x_Vel \in 0..1023 /\ y_Vel \in 0..48 /\ y_Vel % 2 = 0
            /\ level \in DOMAIN Levels

\* An acceleration goes beyond the limit only for the second key.
LEMMA AcceleratedSpeed ==
  ASSUME x_Vel \in 0..1023, NEW k, NEW d \in Directions
  PROVE  /\ Accelerated(k, d, x_Vel) \in 0..1023
         /\ Accelerated(k, d, x_Vel) > 16 => Accelerated(k, d, x_Vel) <= x_Vel \/ k[1] = Key(d)
<1>1. CASE Wanted(k, Key(d), x_Vel < MAX_X_VEL)
  <2>1. x_Vel < 16 \/ k[1] = Key(d)
    BY <1>1 DEF Wanted, MAX_X_VEL
  <2>2. Accelerated(k, d, x_Vel) = (x_Vel + 1) % 1024
    BY <1>1 DEF Accelerated, Vel, X_ACCEL
  <2> QED
    BY <2>1, <2>2
<1>2. CASE ~Wanted(k, Key(d), x_Vel < MAX_X_VEL)
  <2>1. \/ Accelerated(k, d, x_Vel) = 16
        \/ x_Vel > 0 /\ Accelerated(k, d, x_Vel) = (x_Vel - 1) % 1024
        \/ Accelerated(k, d, x_Vel) = x_Vel
    BY <1>2 DEF Accelerated, Vel, X_ACCEL, MAX_X_VEL
  <2> QED
    BY <2>1
<1> QED
  BY <1>1, <1>2

\* Standing, rising and dropping keep an even velocity within its limits.
LEMMA VerticalSpeed ==
  ASSUME SpeedInv, NEW k, Stand(k) \/ Rise \/ Drop
  PROVE  y_Vel' \in 0..48 /\ y_Vel' % 2 = 0
<1>1. CASE Stand(k)
  <2>1. y_Vel' = 48 \/ y_Vel' = 0
    BY <1>1 DEF Stand, JUMP_INIT_VEL
  <2> QED
    BY <2>1
<1>2. CASE Rise
  <2>1. y_Vel' = 0 \/ (y_Vel # 0 /\ y_Vel' = (y_Vel - 2) % 1024)
    BY <1>2 DEF Rise, Peak, Vel, Y_ACCEL
  <2> QED
    BY <2>1 DEF SpeedInv
<1>3. CASE Drop
  <2>1. y_Vel' = 16 \/ (y_Vel < 16 /\ y_Vel' = y_Vel + 2)
    BY <1>3 DEF Drop, Y_ACCEL, MAX_Y_VEL, SpeedInv
  <2> QED
    BY <2>1 DEF SpeedInv
<1> QED
  BY <1>1, <1>2, <1>3

\* A tick of the state machine keeps the registers in their range, and takes
\* Mario beyond the limit only if his direction comes second.
LEMMA TickSpeed ==
  ASSUME SpeedInv, NEW k, k \in KeyPairs, FsmTick(k), UNCHANGED level
  PROVE  /\ SpeedInv'
         /\ x_Vel' > 16 => x_Vel' <= x_Vel \/ ComesSecond(k)
<1>1. /\ x_Vel' \in 0..1023
      /\ x_Vel' > 16 => x_Vel' <= x_Vel \/ ComesSecond(k)
  <2>1. CASE Idle(k) \/ Jump(k) \/ Fall(k)
    <3>1. x_Vel' = 0
      BY <2>1 DEF Idle, Jump, Fall
    <3> QED
      BY <3>1
  <2>2. ASSUME NEW d \in Directions, Run(k, d) \/ JumpTo(k, d) \/ FallTo(k, d)
        PROVE  /\ x_Vel' \in 0..1023
               /\ x_Vel' > 16 => x_Vel' <= x_Vel \/ ComesSecond(k)
    <3>1. x_Vel' = 0 \/ x_Vel' = Accelerated(k, d, x_Vel)
      BY <2>2 DEF Run, JumpTo, FallTo
    <3>2. State[2] = d
      BY <2>2 DEF Run, JumpTo, FallTo
    <3>3. k[1] = Key(d) => ComesSecond(k)
      BY <3>2 DEF ComesSecond
    <3> QED
      BY <3>1, <3>3, AcceleratedSpeed DEF SpeedInv
  <2> QED
    BY <2>1, <2>2 DEF FsmTick
<1>3. y_Vel' \in 0..48 /\ y_Vel' % 2 = 0
  <2>1. Stand(k) \/ Rise \/ Drop \/ y_Vel' = 0
    <3>1. CASE Idle(k) \/ Jump(k)
      BY <3>1 DEF Idle, Jump
    <3>2. CASE Fall(k)
      BY <3>2 DEF Fall
    <3>3. ASSUME NEW d \in Directions, Run(k, d) \/ JumpTo(k, d) \/ FallTo(k, d)
          PROVE  Stand(k) \/ Rise \/ Drop \/ y_Vel' = 0
      BY <3>3 DEF Run, JumpTo, FallTo
    <3> QED
      BY <3>1, <3>2, <3>3 DEF FsmTick
  <2>2. CASE Stand(k) \/ Rise \/ Drop
    BY <2>2, VerticalSpeed
  <2>3. CASE y_Vel' = 0
    BY <2>3
  <2> QED
    BY <2>1, <2>2, <2>3
<1> QED
  BY <1>1, <1>3, ZenonT(40) DEF SpeedInv

\* In any world and whatever is pressed, Mario never rises faster than a jump
\* starts, and gets faster than MAX_X_VEL only with his direction as second key.
THEOREM SpecSpeedLimit == Spec => SpeedLimit
<1> DEFINE Limited == /\ y_Vel' <= JUMP_INIT_VEL
                      /\ x_Vel' > MAX_X_VEL => x_Vel' <= x_Vel \/ second'
<1>1. Init => SpeedInv
  BY DEF Init, SpeedInv
<1>2. SpeedInv /\ [Next]_vars => SpeedInv' /\ Limited
  <2> SUFFICES ASSUME SpeedInv, [Next]_vars PROVE SpeedInv' /\ Limited
    OBVIOUS
  <2>0. SpeedInv' => y_Vel' <= JUMP_INIT_VEL
    BY DEF SpeedInv, JUMP_INIT_VEL
  <2>1. CASE Tick
    <3>1. PICK k \in KeyPairs : FsmTick(k) /\ second' = ComesSecond(k)
      BY <2>1 DEF Tick
    <3>2. SpeedInv' /\ (x_Vel' > 16 => x_Vel' <= x_Vel \/ ComesSecond(k))
      BY <2>1, <3>1, TickSpeed DEF Tick, world
    <3> QED
      BY <2>0, <3>1, <3>2 DEF MAX_X_VEL
  <2>2. CASE UNCHANGED <<fsm, level>>
    <3>1. SpeedInv' /\ x_Vel' = x_Vel /\ x_Vel \in 0..1023
      BY <2>2 DEF fsm, SpeedInv
    <3> QED
      BY <2>0, <3>1
  <2>3. CASE ~Tick
    <3>1. UNCHANGED <<fsm, level>>
      BY <2>3 DEF Next, Move, Start, Finish, Reset, vars, world
    <3> QED
      BY <2>2, <3>1
  <2> QED
    BY <2>1, <2>3
<1>3. SpeedInv /\ [Next]_vars => [Limited]_vars
  BY <1>2
<1> QED
  BY <1>1, <1>2, <1>3, PTL DEF Spec, SpeedLimit

-----------------------------------------------------------------------------
(* The enemy *)

\* Where the current leg ends: to the right of the start when walking right,
\* to the left of it when walking left.
LegEnd ==
  /\ Goomba_X_Motion = 1 =>
       Goomba_X_Pos + (G_dist - counter) \in Goomba_X_Center..(Goomba_X_Center + G_dist)
  /\ Goomba_X_Motion = -1 =>
       Goomba_X_Pos - (G_dist - counter) \in (Goomba_X_Center - G_dist)..Goomba_X_Center

EnemyInv == EnemyTypeOK /\ LegEnd

-----------------------------------------------------------------------------

\* The walk near the start follows from the place where the current leg ends.
LEMMA LegNearStart == EnemyInv => NearTheStart
  BY DEF EnemyInv, EnemyTypeOK, LegEnd, NearTheStart, Goomba_X_Center

\* Every reset value and every step keeps the end of the leg on its side.
THEOREM SpecEnemyInv == EnemySpec => []EnemyInv
<1>1. EnemyInit => EnemyInv
  BY DEF EnemyInit, EnemyInv, EnemyTypeOK, LegEnd, Goomba_X_Center
<1>2. EnemyInv /\ [EnemyNext]_enemy => EnemyInv'
  <2> SUFFICES ASSUME EnemyInv, [EnemyNext]_enemy PROVE EnemyInv'
    OBVIOUS
  <2>0. NearTheStart
    BY LegNearStart
  <2>1. CASE Frame
    <3>1. Goomba_X_Pos + Goomba_X_Motion \in 0..1023
      BY <2>1 DEF Frame, TurnDue, EnemyInv, EnemyTypeOK, LegEnd, Goomba_X_Center
    <3>2. Goomba_X_Pos' = Goomba_X_Pos + Goomba_X_Motion
      BY <2>1, <3>1 DEF Frame, TurnDue
    <3> QED
      BY <2>1, <3>1, <3>2 DEF Frame, TurnDue, EnemyInv, EnemyTypeOK, LegEnd
  <2>2. CASE Turn
    BY <2>2 DEF Turn, TurnDue, EnemyInv, EnemyTypeOK, LegEnd, Goomba_X_Center
  <2>3. CASE EnemyReset
    BY <2>3 DEF EnemyReset, EnemyInv, EnemyTypeOK, LegEnd, Goomba_X_Center
  <2>4. CASE UNCHANGED enemy
    BY <2>4 DEF enemy, EnemyInv, EnemyTypeOK, LegEnd
  <2> QED
    BY <2>1, <2>2, <2>3, <2>4 DEF EnemyNext
<1> QED
  BY <1>1, <1>2, PTL DEF EnemySpec

\* For every G_dist the count of steps stops at G_dist, resets included.
THEOREM SpecEnemyTypeOK == EnemySpec => []EnemyTypeOK
  BY SpecEnemyInv, PTL DEF EnemyInv

\* For every G_dist the walk stays within G_dist of the start, resets included.
THEOREM SpecNearTheStart == EnemySpec => []NearTheStart
  BY SpecEnemyInv, LegNearStart, PTL

-----------------------------------------------------------------------------
(* The game *)

\* Every behaviour of the game is one of Mario's: what the enemy does between
\* his steps leaves his registers alone.
THEOREM GameIsMario == GameSpec => Spec
<1>1. GameInit => Init
  BY DEF GameInit
<1>2. [GameNext]_all => [Next]_vars
  <2> SUFFICES ASSUME [GameNext]_all PROVE [Next]_vars
    OBVIOUS
  <2>1. CASE MarioSteps
    BY <2>1 DEF MarioSteps, Next
  <2>2. CASE EnemySteps
    BY <2>2 DEF EnemySteps
  <2>3. CASE Button
    BY <2>3 DEF Button, Next
  <2>4. CASE UNCHANGED all
    BY <2>4 DEF all
  <2> QED
    BY <2>1, <2>2, <2>3, <2>4 DEF GameNext
<1> QED
  BY <1>1, <1>2, PTL DEF GameSpec, Spec

\* And one of the enemy's, whom the button resets together with Mario.
THEOREM GameIsEnemy == GameSpec => EnemySpec
<1>1. GameInit => EnemyInit
  BY DEF GameInit
<1>2. [GameNext]_all => [EnemyNext]_enemy
  <2> SUFFICES ASSUME [GameNext]_all PROVE [EnemyNext]_enemy
    OBVIOUS
  <2>1. CASE MarioSteps
    BY <2>1 DEF MarioSteps
  <2>2. CASE EnemySteps
    BY <2>2 DEF EnemySteps, EnemyNext
  <2>3. CASE Button
    BY <2>3 DEF Button, EnemyNext
  <2>4. CASE UNCHANGED all
    BY <2>4 DEF all
  <2> QED
    BY <2>1, <2>2, <2>3, <2>4 DEF GameNext
<1> QED
  BY <1>1, <1>2, PTL DEF GameSpec, EnemySpec

\* What was shown of the two holds in the game: registers in their ranges, the
\* enemy near its start.
THEOREM GameTypeOK == GameSpec => [](TypeOK /\ EnemyTypeOK)
BY GameIsMario, GameIsEnemy, SpecTypeOK, SpecEnemyTypeOK, PTL

\* The walk is bounded in the game too, where the button also restarts Mario.
THEOREM GameNearTheStart == GameSpec => []NearTheStart
BY GameIsEnemy, SpecNearTheStart, PTL

\* And Mario's speed is what his state machine alone allows.
THEOREM GameSpeedLimit == GameSpec => SpeedLimit
BY GameIsMario, SpecSpeedLimit, PTL
=============================================================================
