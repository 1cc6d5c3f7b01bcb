------------------------------- MODULE MCGame -------------------------------
(***************************************************************************)
(* Small levels for Game.                                                  *)
(*                                                                         *)
(* A world has the ground of the collider ROM, rows 13 and 14; Mario       *)
(* starts in columns 4 and 5.  A keyboard reports the first key it holds   *)
(* in the low byte of the keycode port: keycode1, the second of a pair.    *)
(***************************************************************************)
EXTENDS Game

Area(columns, rows) == {80 * r + c : c \in columns, r \in rows}
Ground == Area(0..79, {13, 14})

None      == <<0, 0>>
HoldRight == {<<0, RIGHT>>, <<ENTER, RIGHT>>}

Level(blocks, keys) == [blocks |-> blocks, keys |-> keys, enemy |-> FALSE]

\* Two pipes, two blocks high, to the left and to the right of the start.
Pipes == Level(Ground \cup Area({3, 6}, {11, 12}),
               {None, <<0, LEFT>>, <<0, RIGHT>>, <<0, ENTER>>})

\* The same two, too high to be jumped, and a player who runs and jumps.
Walls == Level(Ground \cup Area({3, 6}, 4..12), HoldRight \cup {<<UP, RIGHT>>})

\* A block over the start, low enough to stop a jump.
Ceiling == Level(Ground \cup Area({5}, {9}), {None, <<0, UP>>, <<0, ENTER>>})

\* Nothing in the way of a player who never lets the right key go.
Plain == Level(Ground, HoldRight)

\* Nobody plays: the enemy walks, the button is pressed.
Alone == [Level(Ground, {None}) EXCEPT !.enemy = TRUE]

\* A key held before the one for the right, which then comes second.
Second == Level(Ground, {None, <<RIGHT, ENTER>>})

AllLevels == [pipes |-> Pipes, walls |-> Walls, ceiling |-> Ceiling,
              plain |-> Plain, alone |-> Alone, second |-> Second]

-----------------------------------------------------------------------------
(* Levels on which the code is not what its comments say *)

\* The pit of the collider ROM: columns 69 and 70.
Pit == Level(Area((0..79) \ {69, 70}, {13, 14}), HoldRight)

\* A key the game ignores is held first.
DOWN == 34
SecondRight == [Pipes EXCEPT !.keys = {<<0, DOWN>>, <<RIGHT, DOWN>>, <<ENTER, DOWN>>}]
SecondLeft  == [Pipes EXCEPT !.keys = @ \cup {<<LEFT, DOWN>>}]
=============================================================================
