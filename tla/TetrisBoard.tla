---------------------------- MODULE TetrisBoard ----------------------------
(***************************************************************************)
(* libtetrisbrain: one player's board, as the room's authoritative tick    *)
(* and the player's actions drive it.  A game is a record; the filled      *)
(* cells are a set of <<x, y>>, y growing downwards from the top row 0     *)
(* (colours are left out, and so are the score and the statistics).        *)
(* rand() is a choice: an operator that draws a new bag, or the hole of a  *)
(* garbage row, gives the set of the games it may lead to.                 *)
(***************************************************************************)
EXTENDS Integers, Sequences, FiniteSets, FiniteSetsExt, SequencesExt

CONSTANTS
  BOARD_WIDTH, BOARD_HEIGHT,
  Kinds,          \* the pieces of a bag (1..7 in the code)
  GravityStart,   \* GRAVITY_THRESHOLD_START
  GravityStep,    \* what a level takes off it
  GravityFloor,   \* and the least that remains
  LockStart,      \* LOCK_THRESHOLD_START
  Gaps,           \* bound: the columns rand() leaves open in a garbage row
  Damages,        \* the attacks that may come from other players
  MaxPieces,      \* bound: pieces locked
  MaxInputs,      \* bound: actions of the player
  MaxHits         \* bound: attacks that come in

ASSUME BoardAssumption ==
  /\ BOARD_WIDTH \in Nat /\ BOARD_WIDTH >= 4 /\ BOARD_HEIGHT \in Nat \ {0}
  /\ Kinds # {} /\ Kinds \subseteq 1..7
  /\ {GravityStart, GravityStep, GravityFloor, LockStart} \subseteq Nat \ {0}
  /\ GravityFloor <= GravityStart
  /\ Gaps # {} /\ Gaps \subseteq 0..(BOARD_WIDTH - 1)
  /\ Damages \subseteq Nat \ {0}
  /\ {MaxPieces, MaxInputs, MaxHits} \subseteq Nat

BagSize == Cardinality(Kinds)
Columns == 0..(BOARD_WIDTH - 1)
Rows == 0..(BOARD_HEIGHT - 1)

-----------------------------------------------------------------------------
(* Pieces, board_control.c *)

\* The solid cells of each 4x4 grid
TETROMINOES == << {4, 5, 6, 7}, {5, 6, 9, 10}, {5, 8, 9, 10}, {6, 7, 9, 10},
                  {4, 5, 9, 10}, {7, 9, 10, 11}, {4, 8, 9, 10} >>

get_rotation_index(x, y, rot) ==
  CASE rot = 0 -> x + y * 4
    [] rot = 1 -> 12 + y - x * 4
    [] rot = 2 -> 15 - y * 4 - x
    [] rot = 3 -> 3 - y + x * 4

Shape == [type \in 1..7 |-> [rot \in 0..3 |->
  {p \in (0..3) \X (0..3) : get_rotation_index(p[1], p[2], rot) \in TETROMINOES[type]}]]

Cover(type, rot, x, y) == {<<x + p[1], y + p[2]>> : p \in Shape[type][rot]}

\* Cells above the board are free
is_valid_pos(g, type, rot, x, y) ==
  \A c \in Cover(type, rot, x, y) :
    c[1] \in Columns /\ c[2] < BOARD_HEIGHT /\ c \notin g.cells

Fits(g, dx, dy) == is_valid_pos(g, g.type, g.rot, g.x + dx, g.y + dy)

\* The two kick tables; each is made of four rows and their mirror images
KickJLSTZ(sx, sy) == << <<0, 0>>, <<sx, 0>>, <<sx, sy>>, <<0, -2 * sy>>, <<sx, -2 * sy>> >>
KickI(a, b, s) == << <<0, 0>>, <<s * a, 0>>, <<s * b, 0>>,
                     IF a = -2 THEN <<s * a, s>> ELSE <<s * a, -2 * s>>,
                     IF a = -2 THEN <<s * b, -2 * s>> ELSE <<s * b, s>> >>

KICKS_JLSTZ == << KickJLSTZ(-1, -1), KickJLSTZ(1, 1), KickJLSTZ(1, 1), KickJLSTZ(-1, -1),
                  KickJLSTZ(1, -1), KickJLSTZ(-1, 1), KickJLSTZ(-1, 1), KickJLSTZ(1, -1) >>
KICKS_I == << KickI(-2, 1, 1), KickI(-2, 1, -1), KickI(-1, 2, 1), KickI(-1, 2, -1),
              KickI(-2, 1, -1), KickI(-2, 1, 1), KickI(-1, 2, -1), KickI(-1, 2, 1) >>

get_transition_index(rot, next) ==
  IF next = (rot + 1) % 4 THEN 2 * rot ELSE (2 * rot + 7) % 8

Kicks(g, next) ==
  LET i == get_transition_index(g.rot, next) + 1
  IN  CASE g.type = 1 -> KICKS_I[i]
        [] g.type = 2 -> << <<0, 0>> >>
        [] OTHER      -> KICKS_JLSTZ[i]

\* The first of the five tests that succeeds, or nothing
test_rotate(g, next) ==
  LET kicks == Kicks(g, next)
      good  == {k \in 1..Len(kicks) :
                  is_valid_pos(g, g.type, next, g.x + kicks[k][1], g.y + kicks[k][2])}
  IN  IF good = {} THEN g
      ELSE [g EXCEPT !.x = @ + kicks[Min(good)][1], !.y = @ + kicks[Min(good)][2],
                     !.rot = next, !.last_action_rotation = TRUE]

rotate_current_piece(g) == test_rotate(g, (g.rot + 1) % 4)
rotate_counter_clockwise(g) == test_rotate(g, (g.rot + 3) % 4)

\* movement.c: one cell, if it is free
Move(g, dx, dy) ==
  IF Fits(g, dx, dy)
  THEN [g EXCEPT !.x = @ + dx, !.y = @ + dy, !.last_action_rotation = FALSE]
  ELSE g

hard_drop(g) ==
  LET blocked == {n \in 0..(BOARD_HEIGHT - g.y) : ~Fits(g, 0, n + 1)}
  IN  [g EXCEPT !.y = @ + Min(blocked)]

lock_piece(g) ==
  g.cells \cup {c \in Cover(g.type, g.rot, g.x, g.y) : c \in Columns \X Rows}

Full(cells, y) == \A x \in Columns : <<x, y>> \in cells

\* Row y goes and what is above it comes down by one
Dropped(cells, y) ==
  {c \in cells : c[2] > y} \cup {<<c[1], c[2] + 1>> : c \in {d \in cells : d[2] < y}}

NextRowSkips(s) ==
  IF Full(s.cells, s.y)
  THEN [y |-> s.y - 1, cells |-> Dropped(s.cells, s.y), cleared |-> s.cleared + 1]
  ELSE [s EXCEPT !.y = @ - 1]

\* The scan looks again at a row into which it has dropped the one above
NextRow(s) ==
  IF Full(s.cells, s.y)
  THEN [s EXCEPT !.cells = Dropped(@, s.y), !.cleared = @ + 1]
  ELSE [s EXCEPT !.y = @ - 1]

Scan == [cells : SUBSET (Columns \X Rows), y : -1..(BOARD_HEIGHT - 1), cleared : Nat]

scanned[s \in Scan] == IF s.y < 0 THEN s ELSE scanned[NextRow(s)]

\* From the bottom row to the top one
clear_lines(cells) == scanned[[cells |-> cells, y |-> BOARD_HEIGHT - 1, cleared |-> 0]]

-----------------------------------------------------------------------------
(* Bags, bag.c and hold.c *)

Shuffles == {p \in [1..BagSize -> Kinds] : \A i, j \in 1..BagSize : p[i] = p[j] => i = j}

Spawned(g) == [g EXCEPT !.rot = 0, !.x = (BOARD_WIDTH \div 2) - 2, !.y = -2]

RefillLate(g, new) ==
  IF g.bag_index > BagSize
  THEN [g EXCEPT !.bag = SubSeq(@, BagSize + 1, 2 * BagSize) \o new, !.bag_index = 0]
  ELSE g

\* The second bag moves to the front and a new one follows
refill_bag(g, new) ==
  [g EXCEPT !.bag = SubSeq(@, BagSize + 1, 2 * BagSize) \o new, !.bag_index = 0]

spawn_new_piece(g) ==
  LET drawn == [g EXCEPT !.type = g.bag[g.bag_index + 1], !.bag_index = @ + 1,
                         !.has_held = FALSE]
  IN  IF drawn.bag_index < BagSize THEN {Spawned(drawn)}
      ELSE {Spawned(refill_bag(drawn, new)) : new \in Shuffles}

\* A swapped piece goes back to the top, whatever is there
hold_piece(g) ==
  {[h EXCEPT !.has_held = TRUE] :
     h \in IF g.held_type = 0 THEN spawn_new_piece([g EXCEPT !.held_type = g.type])
           ELSE {Spawned([g EXCEPT !.type = g.held_type, !.held_type = g.type])}}

-----------------------------------------------------------------------------
(* Garbage, garbage.c *)

Clip(n) == IF n > BOARD_HEIGHT THEN BOARD_HEIGHT ELSE n

\* holes[y] is the gap of the new row y; rows pushed over the top are gone
Landed(cells, holes) ==
  LET rows == DOMAIN holes
      n    == Cardinality(rows)
  IN  {<<c[1], c[2] - n>> : c \in {d \in cells : d[2] >= n}}
      \cup {c \in Columns \X rows : c[1] # holes[c[2]]}

add_garbage(cells, lines) ==
  {Landed(cells, holes) :
     holes \in [(BOARD_HEIGHT - Clip(lines))..(BOARD_HEIGHT - 1) -> Gaps]}

queue_unclipped(g, lines) == [g EXCEPT !.pending_garbage = @ + lines]
queue_garbage(g, lines) == [g EXCEPT !.pending_garbage = Clip(@ + lines)]

COMBO_TABLE == <<0, 0, 1, 1, 2, 2, 3, 3, 4, 4, 4, 5>>
ComboBonus(combo) ==
  IF combo <= 0 THEN 0 ELSE IF combo < 12 THEN COMBO_TABLE[combo + 1] ELSE 5

BaseGarbage(cleared, tspin) ==
  IF tspin THEN 2 * cleared ELSE <<0, 1, 3, 4>>[cleared]

\* The attack of a lock that cleared lines; combo and back-to-back go on
calculate_garbage(g, cleared, tspin) ==
  LET hard == tspin \/ cleared = 4
  IN  IF cleared = 0 THEN [combo |-> -1, b2b |-> g.b2b, damage |-> 0]
      ELSE [combo |-> g.combo + 1, b2b |-> hard,
            damage |-> BaseGarbage(cleared, tspin)
                       + (IF hard /\ g.b2b THEN 1 ELSE 0) + ComboBonus(g.combo + 1)]

-----------------------------------------------------------------------------
(* The engine, engine.c *)

\* Three of the four cells diagonal to the middle of the grid's first three rows
check_t_spin(g) ==
  /\ g.type = 3
  /\ g.last_action_rotation
  /\ Cardinality({d \in {-1, 1} \X {-1, 1} :
       LET c == <<g.x + 1 + d[1], g.y + 1 + d[2]>>
       IN  c \notin Columns \X Rows \/ c \in g.cells}) >= 3

\* The piece stays where it is: lines, the attack, what it cancels
Locked(g) ==
  LET swept  == clear_lines(lock_piece(g))
      attack == calculate_garbage(g, swept.cleared, check_t_spin(g))
      cancel == Min({attack.damage, g.pending_garbage})
      lines  == g.lines_cleared + swept.cleared
  IN  [g EXCEPT !.cells = swept.cells,
                !.pieces_placed = @ + 1,
                !.lines_cleared = lines,
                !.level = IF swept.cleared > 0 THEN (lines \div 10) + 1 ELSE @,
                !.combo = attack.combo, !.b2b = attack.b2b,
                !.pending_garbage = @ - cancel,
                !.outgoing_garbage = attack.damage - cancel]

\* What is still pending lands if the lock cleared nothing
Settled(g, h) ==
  IF h.lines_cleared = g.lines_cleared /\ h.pending_garbage > 0
  THEN {[h EXCEPT !.cells = cells, !.pending_garbage = 0] :
          cells \in add_garbage(h.cells, h.pending_garbage)}
  ELSE {h}

TickSpawnsFirst(g) ==
  IF Fits(g, 0, 1) THEN {[g EXCEPT !.y = @ + 1]}
  ELSE IF g.y < 0 THEN {[g EXCEPT !.game_over = TRUE]}
  ELSE UNION {Settled(g, [next EXCEPT !.game_over = ~Fits(next, 0, 0)]) :
                next \in UNION {spawn_new_piece(locked) : locked \in {Locked(g)}}}

\* Lock Out, and Block Out when the next piece has no room
tick_game(g) ==
  IF Fits(g, 0, 1) THEN {[g EXCEPT !.y = @ + 1]}
  ELSE IF g.y < 0 THEN {[g EXCEPT !.game_over = TRUE]}
  ELSE {[next EXCEPT !.game_over = ~Fits(next, 0, 0)] :
          next \in UNION {spawn_new_piece(h) :
                            h \in UNION {Settled(g, locked) : locked \in {Locked(g)}}}}

Threshold(g) == Max({GravityStart - (g.level - 1) * GravityStep, GravityFloor})

LockTimerLost(g) ==
  IF ~Fits(g, 0, 1) THEN {[g EXCEPT !.lock_timer = 0]}
  ELSE IF g.gravity_timer + 1 < Threshold(g)
  THEN {[g EXCEPT !.lock_timer = 0, !.gravity_timer = @ + 1]}
  ELSE {[h EXCEPT !.lock_timer = 0, !.gravity_timer = 0] : h \in tick_game(g)}

\* One tick of gravity, or of the lock delay of a piece that rests
update_timers(g) ==
  LET resting == ~Fits(g, 0, 1)
  IN  IF resting /\ g.lock_timer + 1 < LockStart
      THEN {[g EXCEPT !.lock_timer = @ + 1]}
      ELSE IF ~resting /\ g.gravity_timer + 1 < Threshold(g)
      THEN {[g EXCEPT !.lock_timer = 0, !.gravity_timer = @ + 1]}
      ELSE {[h EXCEPT !.lock_timer = 0, !.gravity_timer = 0] : h \in tick_game(g)}

start_game(bag1, bag2) ==
  spawn_new_piece(
    [cells |-> {}, type |-> 0, rot |-> 0, x |-> 0, y |-> 0, gravity_timer |-> 0,
     lock_timer |-> 0, held_type |-> 0, has_held |-> FALSE, bag |-> bag1 \o bag2,
     bag_index |-> 0, pieces_placed |-> 0, last_action_rotation |-> FALSE,
     pending_garbage |-> 0, outgoing_garbage |-> 0, lines_cleared |-> 0, combo |-> -1,
     b2b |-> FALSE, level |-> 1, game_over |-> FALSE])

-----------------------------------------------------------------------------
(* The board under the room's ticks, the player's actions and attacks *)

VARIABLES
  game,
  inputs,     \* actions so far
  hits        \* attacks so far

vars == <<game, inputs, hits>>

Init ==
  /\ \E bag1, bag2 \in Shuffles : game \in start_game(bag1, bag2)
  /\ inputs = 0
  /\ hits = 0

Playing == ~game.game_over /\ game.pieces_placed < MaxPieces

\* tick_session, for this player
Tick ==
  /\ Playing
  /\ UNCHANGED <<inputs, hits>>
  /\ game' \in update_timers(game)

Input == Playing /\ inputs < MaxInputs /\ inputs' = inputs + 1 /\ UNCHANGED hits

\* ACTION_MOVE_LEFT, ACTION_MOVE_RIGHT, ACTION_SOFT_DROP: success restarts the
\* lock delay
MoveBy(dx, dy) ==
  /\ Input
  /\ game' = IF Fits(game, dx, dy) THEN [Move(game, dx, dy) EXCEPT !.lock_timer = 0] ELSE game

\* ACTION_ROTATE_CW, ACTION_ROTATE_CCW: the lock delay restarts in any case
Rotate(g) ==
  /\ Input
  /\ game' = [g EXCEPT !.lock_timer = 0]

\* ACTION_HARD_DROP
HardDrop ==
  /\ Input
  /\ \E g \in UNION {tick_game(h) : h \in {hard_drop(game)}} :
       game' = [g EXCEPT !.gravity_timer = 0, !.lock_timer = 0]

\* ACTION_HOLD
Hold ==
  /\ Input
  /\ ~game.has_held
  /\ \E g \in hold_piece(game) : game' = [g EXCEPT !.gravity_timer = 0]

\* The room routes an attack of another player here
Hit ==
  /\ Playing
  /\ hits < MaxHits
  /\ hits' = hits + 1
  /\ \E lines \in Damages : game' = queue_garbage(game, lines)
  /\ UNCHANGED inputs

Next ==
  \/ Tick
  \/ \E d \in {<<-1, 0>>, <<1, 0>>, <<0, 1>>} : MoveBy(d[1], d[2])
  \/ Rotate(rotate_current_piece(game)) \/ Rotate(rotate_counter_clockwise(game))
  \/ HardDrop \/ Hold \/ Hit

Spec == Init /\ [][Next]_vars

\* The room ticks for as long as the match runs
FairSpec == Spec /\ WF_vars(Tick)

-----------------------------------------------------------------------------
(* Properties *)

\* Cells, bag, timers and the pending meter stay in their ranges
TypeOK ==
  /\ game.cells \subseteq Columns \X Rows
  /\ game.type \in Kinds /\ game.held_type \in Kinds \cup {0} /\ game.rot \in 0..3
  /\ game.bag_index \in 0..(BagSize - 1) /\ game.bag \in [1..(2 * BagSize) -> Kinds]
  /\ game.lock_timer \in 0..(LockStart - 1) /\ game.gravity_timer \in 0..(GravityStart - 1)
  /\ game.pending_garbage \in 0..BOARD_HEIGHT /\ game.outgoing_garbage \in Nat

\* Kicks, swaps and garbage never put a piece that is inside the board over
\* cells that are filled, so that locking overwrites nothing
\* (board_control.c:65-121, hold.c:22-25, engine.c:94)
PieceNeverOverlaps ==
  ~game.game_over /\ (game.y >= 0 \/ ~game.has_held) => Fits(game, 0, 0)

\* Every full row goes, and the rows that are left keep their order and come down
\* (clear_lines, board_control.c:200-250)
ClearedReference(cells) ==
  {<<c[1], c[2] + Cardinality({y \in Rows : y > c[2] /\ Full(cells, y)})>> :
     c \in {d \in cells : ~Full(cells, d[2])}}

ClearsExactly ==
  LET locked == lock_piece(game)
      swept  == clear_lines(locked)
  IN  /\ swept.cells = ClearedReference(locked)
      /\ swept.cleared = Cardinality({y \in Rows : Full(locked, y)})

Upcoming == SubSeq(game.bag, game.bag_index + 1, 2 * BagSize)

\* The pieces shown as next are the pieces that come, in that order, across the
\* refill of the bag and whoever draws (bag.c:16-51, hold.c:12-15)
PreviewKept ==
  [][ \/ Upcoming' = Upcoming
      \/ /\ game'.type = Head(Upcoming)
         /\ IsPrefix(Tail(Upcoming), Upcoming') ]_vars

\* Gravity and the lock delay bring every piece down, whatever the actions that
\* restart the delay leave behind (engine.c:110-142): the game goes on to its end
GameGoesOn == <>(game.game_over \/ game.pieces_placed = MaxPieces)

=============================================================================
