----------------------------- MODULE BombArena -----------------------------
(***************************************************************************)
(* The Bomberman server and one of its clients: bombd's lobby and tick     *)
(* loop (bombd/main.c, bombd/session.c), the shared arena of libbombbrain  *)
(* (bombs, explosions, power-ups, inventories, collision), the packets of  *)
(* libbombprotocol, and the mirror bombapp keeps of the match (network.c). *)
(*                                                                         *)
(* Player ids are 1, 2, ... in the order of joining, which is the order of *)
(* the slots.  Time is counted in ticks.  A box position is a pair of      *)
(* thirds of a tile: 3t is inside tile t, 3t+1 and 3t+2 are astride t and  *)
(* t+1 with the centre in t or in t+1.  A moving box advances a third of a *)
(* tile per tick.  A tick's TILE_UPDATE packets are one packet here: they  *)
(* concern different tiles and follow each other in one stream.            *)
(***************************************************************************)
EXTENDS BombMap, Sequences, Functions

CONSTANTS MaxPlayers,     \* BOMBD_MAX_PLAYERS
          MAX_MAP_DIM,    \* BOMBD_MAX_MAP_DIM
          StateMaxPlayers, StateMaxBombs,  \* STATE_PACKET_MAX_*
          QueueSize,      \* of bombs_queue and explodes_queue
          MAX_MSGS_PER_TICK,
          BombTime, ExplodeTime, ReplenishTime,  \* in ticks
          Directions,     \* pairs <<dx, dy>> of MOVE packets
          Me,             \* the client whose mirror is modelled
          MaxMoves, MaxPlaced, MaxStops, MaxGone, \* bounds: MOVEs, bombs,
                          \* SIGINTs, lost connections
          MaxInFlight     \* bound: packets sent and not applied when a tick starts

ASSUME ArenaAssumption ==
    /\ MaxPlayers \in Nat \ {0} /\ Me \in 1 .. MaxPlayers
    /\ {MAX_MAP_DIM, StateMaxPlayers, StateMaxBombs, QueueSize,
        MAX_MSGS_PER_TICK, BombTime, ExplodeTime, ReplenishTime} \subseteq Nat \ {0}
    /\ BombTime <= ReplenishTime  \* BOMB_TIMER and BOMB_REPLENISH_TIME are both 1.0f
    /\ Directions \subseteq (-1 .. 1) \X (-1 .. 1)
    /\ {MaxMoves, MaxPlaced, MaxStops, MaxGone, MaxInFlight} \subseteq Nat

VARIABLES stage,     \* "lobby", "match", "over" or "closed" (left in the lobby)
          lobby,     \* number of clients in the server's list
          world,     \* map, powerups_to_spawn, bombs_queue, explodes_queue,
                     \* session.players and session.dirty
          prev,      \* prev_map: the map as it was last broadcast
          winner,    \* winner_id
          drained,   \* messages drained since the last tick
          connected, \* clients whose connection is up
          chan,      \* TCP stream to client Me
          mirror,    \* what client Me holds
          moves, placed, stops  \* bounds

vars == <<stage, lobby, world, prev, winner, drained, connected, chan, mirror,
          moves, placed, stops>>

MapSize == calc_map_size(lobby) + 2
(* The element of a singleton: {Op(v) : v \in {e}} evaluates e once. *)
Only(S) == CHOOSE x \in S : TRUE
Least(a, b) == IF a < b THEN a ELSE b
-----------------------------------------------------------------------------
(* Collision: the tiles under a box, its centre, and moving it. *)
Cover(c) == IF c % 3 = 0 THEN {c \div 3} ELSE {c \div 3, c \div 3 + 1}
Centre(c) == IF c % 3 = 2 THEN c \div 3 + 1 ELSE c \div 3

get_all_overlapping_tiles(pos) == Cover(pos[1]) \X Cover(pos[2])
get_center_box(pos) == <<Centre(pos[1]), Centre(pos[2])>>

tile_is_solid(map, t) == map[t] \in {"WALL", "BREAKABLE"}
aabb_collided(map, pos) ==
    \E t \in get_all_overlapping_tiles(pos) : tile_is_solid(map, t)

(* The horizontal and the vertical move are validated one after the other. *)
move_box(map, pos, dx, dy) ==
    LET x == IF aabb_collided(map, <<pos[1] + dx, pos[2]>>) THEN pos[1] ELSE pos[1] + dx
        y == IF aabb_collided(map, <<x, pos[2] + dy>>) THEN pos[2] ELSE pos[2] + dy
    IN  <<x, y>>

(* Inventory. *)
ConsumeKeepsTimer(p) == [p EXCEPT !.remaining = @ - 1]
consume_bomb(p) == [p EXCEPT !.remaining = @ - 1, !.replenish = ReplenishTime]

inventory_update(p) ==
    IF p.remaining >= p.num_bombs THEN p
    ELSE IF p.replenish - 1 > 0 THEN [p EXCEPT !.replenish = @ - 1]
    ELSE [p EXCEPT !.remaining = @ + 1, !.replenish = ReplenishTime]
-----------------------------------------------------------------------------
(* The session: a new match, and the messages a client may send. *)
NewPlayer(m, size, k) ==
    LET t == SpawnTile(m, size, k)
    IN  [alive |-> TRUE, pos |-> <<3 * t[1], 3 * t[2]>>, dx |-> 0, dy |-> 0,
         is_moving |-> FALSE, num_bombs |-> 2, remaining |-> 2, num_fires |-> 1,
         replenish |-> 0]

init_session(m) ==
    [map |-> [t \in DOMAIN m |-> IF m[t] = "PLAYER" THEN "EMPTY" ELSE m[t]],
     pending |-> [t \in DOMAIN m |-> "EMPTY"],
     bombs |-> <<>>, explodes |-> <<>>,
     players |-> [k \in 1 .. lobby |-> NewPlayer(m, MapSize, k)],
     dirty |-> TRUE]

apply_move(w, k, d) ==
    IF w.players[k].alive
    THEN [w EXCEPT !.players[k].dx = d[1], !.players[k].dy = d[2]]
    ELSE w

(* bombs_queue does not record who placed a bomb: "by" only serves BombBudget. *)
place_bomb(w, k) ==
    LET t == get_center_box(w.players[k].pos)
        bomb == [pos |-> t, spread |-> w.players[k].num_fires,
                 timer |-> BombTime, by |-> k]
    IN  IF w.map[t] \notin {"EMPTY", "PLAYER"} \/ w.players[k].remaining <= 0 THEN w
        ELSE [w EXCEPT !.map[t] = "BOMB",
                       !.bombs = IF Len(@) < QueueSize THEN Append(@, bomb) ELSE @,
                       !.players[k] = consume_bomb(@)]

apply_bomb_place(w, k) == IF w.players[k].alive THEN place_bomb(w, k) ELSE w
-----------------------------------------------------------------------------
(* tick_session, first part: movement and pickups, player by player. *)
MovePlayer(w, k) ==
    LET p == w.players[k]
        moving == p.dx # 0 \/ p.dy # 0
        at == IF moving THEN move_box(w.map, p.pos, p.dx, -p.dy) ELSE p.pos
        under == {t \in get_all_overlapping_tiles(at) : t \in DOMAIN w.map}
        fires == {t \in under : w.map[t] = "POWERUP_FIRE"}
        extra == {t \in under : w.map[t] = "POWERUP_BOMB"}
        got == [p EXCEPT !.pos = at, !.is_moving = moving,
                         !.num_fires = @ + Cardinality(fires),
                         !.num_bombs = @ + Cardinality(extra),
                         !.remaining = @ + Cardinality(extra)]
    IN  IF ~p.alive THEN w
        ELSE [w EXCEPT !.players[k] = inventory_update(got),
                       !.map = [t \in DOMAIN @ |-> IF t \in fires \cup extra
                                                   THEN "EMPTY" ELSE @[t]],
                       !.dirty = @ \/ moving \/ p.is_moving # moving
                                   \/ fires \cup extra # {}]

apply_movement_and_pickups(w) ==
    LET after[k \in 0 .. lobby] == IF k = 0 THEN w ELSE Only({MovePlayer(v, k) : v \in {after[k - 1]}})
    IN  after[lobby]

(* Bombs: how far a blast reaches, and what it does to the tiles it reaches. *)
(* drop[t] is what randomise_powerup leaves behind on a broken tile.        *)
Ray(map, t, d, spread) ==
    LET Tile(i) == <<t[1] + i * d[1], t[2] + i * d[2]>>
        Blocked(i) == \/ \E c \in 1 .. 2 : \/ d[c] < 0 /\ Tile(i)[c] <= 0
                                           \/ d[c] > 0 /\ Tile(i)[c] >= MapSize
                      \/ map[Tile(i)] = "WALL"
    IN  {Tile(i) : i \in {j \in 1 .. spread : \A l \in 1 .. j : ~Blocked(l)}}

Spread(map, bomb) ==
    UNION {Ray(map, bomb.pos, d, bomb.spread) :
              d \in {<<0, -1>>, <<0, 1>>, <<-1, 0>>, <<1, 0>>}}

handle_spread(w, tiles, drop) ==
    [w EXCEPT !.map = [t \in DOMAIN @ |-> IF t \in tiles THEN "EXPLOSION" ELSE @[t]],
              !.pending = [t \in DOMAIN @ |->
                              IF t \in tiles /\ w.map[t] = "BREAKABLE" /\ drop[t] # "EMPTY"
                              THEN drop[t] ELSE @[t]]]

ExplosionForgetsBroken(w, bomb, drop) ==
    LET tiles == Spread(w.map, bomb)
        explosion == [center |-> bomb.pos, timer |-> ExplodeTime,
                      spread |-> {t \in tiles : w.map[t] # "BREAKABLE"}]
    IN  [handle_spread(w, tiles, drop) EXCEPT
            !.explodes = IF Len(@) < QueueSize THEN Append(@, explosion) ELSE @]

trigger_explosion(w, bomb, drop) ==
    LET tiles == Spread(w.map, bomb)
        explosion == [center |-> bomb.pos, spread |-> tiles, timer |-> ExplodeTime]
    IN  [handle_spread(w, tiles, drop) EXCEPT
            !.explodes = IF Len(@) < QueueSize THEN Append(@, explosion) ELSE @]

BombExpiresLate(s, drop) ==
    LET i == s.i
        queue == [s.w.bombs EXCEPT ![i].timer = @ - 1]
        rear == Len(queue)
        left == SubSeq([queue EXCEPT ![i] = queue[rear]], 1, rear - 1)
        cleared == [s.w EXCEPT !.map[queue[i].pos] = "EMPTY", !.bombs = left]
    IN  IF queue[i].timer >= 0 THEN [i |-> i + 1, w |-> [s.w EXCEPT !.bombs = queue]]
        ELSE [i |-> i, w |-> trigger_explosion(cleared, queue[rear], drop)]

(* One turn of tick_bombs' loop.  An expired bomb is overwritten by the last *)
(* one of the queue, and what explodes is what the pointer then refers to.   *)
BombTurn(s, drop) ==
    LET i == s.i
        queue == [s.w.bombs EXCEPT ![i].timer = @ - 1]
        rear == Len(queue)
        left == SubSeq([queue EXCEPT ![i] = queue[rear]], 1, rear - 1)
        cleared == [s.w EXCEPT !.map[queue[i].pos] = "EMPTY", !.bombs = left]
    IN  IF queue[i].timer > 0 THEN [i |-> i + 1, w |-> [s.w EXCEPT !.bombs = queue]]
        ELSE [i |-> i, w |-> trigger_explosion(cleared, queue[rear], drop)]

tick_bombs(w, drop) ==
    LET after[n \in 0 .. Len(w.bombs)] ==
            IF n = 0 THEN [i |-> 1, w |-> w] ELSE Only({BombTurn(s, drop) : s \in {after[n - 1]}})
    IN  after[Len(w.bombs)].w

(* One turn of tick_explosions' loop: the fire goes out, power-ups appear. *)
spawn_pending_powerups(w, tiles) ==
    LET full == {t \in tiles : w.pending[t] # "EMPTY"}
    IN  [w EXCEPT !.map = [t \in DOMAIN @ |-> IF t \in full THEN w.pending[t] ELSE @[t]],
                  !.pending = [t \in DOMAIN @ |-> IF t \in full THEN "EMPTY" ELSE @[t]]]

ExplosionTurn(s) ==
    LET i == s.i
        queue == [s.w.explodes EXCEPT ![i].timer = @ - 1]
        rear == Len(queue)
        tiles == queue[i].spread
        out == [s.w EXCEPT
                  !.map = [t \in DOMAIN @ |-> IF t \in tiles \cup {queue[i].center}
                                              THEN "EMPTY" ELSE @[t]],
                  !.explodes = SubSeq([queue EXCEPT ![i] = queue[rear]], 1, rear - 1)]
    IN  IF queue[i].timer > 0 THEN [i |-> i + 1, w |-> [s.w EXCEPT !.explodes = queue]]
        ELSE [i |-> i, w |-> spawn_pending_powerups(out, tiles)]

tick_explosions(w) ==
    LET after[n \in 0 .. Len(w.explodes)] ==
            IF n = 0 THEN [i |-> 1, w |-> w] ELSE Only({ExplosionTurn(s) : s \in {after[n - 1]}})
    IN  after[Len(w.explodes)].w

Burns(w, k) ==
    w.players[k].alive /\ \E t \in get_all_overlapping_tiles(w.players[k].pos) :
                              t \in DOMAIN w.map /\ w.map[t] = "EXPLOSION"

kill_players_in_explosions(w) ==
    [w EXCEPT !.players = [k \in DOMAIN @ |->
                              [w.players[k] EXCEPT !.alive = @ /\ ~Burns(w, k)]],
              !.dirty = @ \/ \E k \in DOMAIN w.players : Burns(w, k)]

(* Tiles a bomb may break in this tick: the random draws that matter. *)
Breakable(w) ==
    IF \E b \in Range(w.bombs) : b.timer = 1
    THEN {t \in DOMAIN w.map : w.map[t] = "BREAKABLE"} ELSE {}
Draws(w) ==
    {[t \in DOMAIN w.map |-> IF t \in Breakable(w) THEN d[t] ELSE "EMPTY"] :
        d \in [Breakable(w) -> {"EMPTY", "POWERUP_FIRE", "POWERUP_BOMB"}]}
-----------------------------------------------------------------------------
(* Packets from the server. *)
Roster == [tag |-> "ROSTER", ids |-> 1 .. lobby]

InPacket(t) == t[1] < MAX_MAP_DIM /\ t[2] < MAX_MAP_DIM

MapInit(map) ==
    [tag |-> "MAP_INIT", map_size |-> MapSize,
     tiles |-> [t \in {u \in DOMAIN map : InPacket(u)} |-> map[t]]]

(* diff_and_broadcast_map: the tiles that changed, and the new prev_map. *)
Changed(map) == {t \in DOMAIN prev : map[t] # prev[t]}
DiffSkipsEmptied(map) ==
    LET part == {t \in Changed(map) : map[t] # "EMPTY"}
    IN  IF part = {} THEN <<>>
        ELSE <<[tag |-> "TILE_UPDATE", tiles |-> [t \in part |-> map[t]]]>>

diff_and_broadcast_map(map) ==
    IF Changed(map) = {} THEN <<>>
    ELSE <<[tag |-> "TILE_UPDATE", tiles |-> [t \in Changed(map) |-> map[t]]]>>

StateForgetsLast(w) ==
    <<[tag |-> "STATE",
       alive |-> [k \in 1 .. Least(lobby, StateMaxPlayers) - 1 |-> w.players[k].alive],
       bombs |-> {w.bombs[i].pos : i \in 1 .. Least(Len(w.bombs), StateMaxBombs)}]>>

(* pack_state and unpack_state clamp both counts: who is further back in   *)
(* the list is left out.                                                   *)
pack_state(alive, bombs) ==
    [tag |-> "STATE",
     alive |-> [k \in 1 .. Least(Len(alive), StateMaxPlayers) |-> alive[k]],
     bombs |-> {bombs[i] : i \in 1 .. Least(Len(bombs), StateMaxBombs)}]

broadcast_state(w) ==
    <<pack_state([k \in DOMAIN w.players |-> w.players[k].alive],
                 [i \in DOMAIN w.bombs |-> w.bombs[i].pos])>>

GameOver(id) == [tag |-> "GAME_OVER", winner |-> id]
-----------------------------------------------------------------------------
(* The client's mirror. *)
NoMirror == [has_map |-> FALSE, map |-> <<>>, alive |-> <<>>, bombs |-> {},
             over |-> FALSE, winner |-> 0, died |-> 0, won |-> 0]

(* find_or_add_slot: a slot is created alive. *)
Slot(alive, id) == IF id \in DOMAIN alive THEN alive[id] ELSE TRUE

apply_roster(m, p) ==
    [m EXCEPT !.alive = [id \in DOMAIN @ \cup p.ids |-> Slot(@, id)]]

(* Tiles the packet has no room for are EMPTY at the client. *)
apply_map_init(m, p) ==
    [m EXCEPT !.has_map = TRUE,
              !.map = [t \in Grid(p.map_size) |->
                          IF t \in DOMAIN p.tiles THEN p.tiles[t] ELSE "EMPTY"]]

apply_tile_update(m, p) ==
    IF ~m.has_map THEN m
    ELSE [m EXCEPT !.map = [t \in DOMAIN @ |-> IF t \in DOMAIN p.tiles
                                               THEN p.tiles[t] ELSE @[t]]]

apply_state(m, p) ==
    [m EXCEPT !.alive = [id \in DOMAIN @ \cup DOMAIN p.alive |->
                            IF id \in DOMAIN p.alive THEN p.alive[id] ELSE @[id]],
              !.bombs = p.bombs,
              !.died = @ + IF Me \in DOMAIN p.alive /\ Slot(m.alive, Me) /\ ~p.alive[Me]
                           THEN 1 ELSE 0]

apply_game_over(m, p) ==
    [m EXCEPT !.over = TRUE, !.winner = p.winner,
              !.won = @ + IF p.winner # 0 /\ p.winner = Me THEN 1 ELSE 0]

Apply(m, p) ==
    CASE p.tag = "ROSTER" -> apply_roster(m, p)
      [] p.tag = "MAP_INIT" -> apply_map_init(m, p)
      [] p.tag = "TILE_UPDATE" -> apply_tile_update(m, p)
      [] p.tag = "STATE" -> apply_state(m, p)
      [] p.tag = "GAME_OVER" -> apply_game_over(m, p)

Replay(m, packets) ==
    LET after[n \in 0 .. Len(packets)] ==
            IF n = 0 THEN m ELSE Only({Apply(v, packets[n]) : v \in {after[n - 1]}})
    IN  after[Len(packets)]
-----------------------------------------------------------------------------
Init ==
    /\ stage = "lobby" /\ lobby = 0
    /\ world = <<>> /\ prev = <<>>
    /\ winner = 0 /\ drained = 0
    /\ connected = {} /\ chan = <<>> /\ mirror = NoMirror
    /\ moves = 0 /\ placed = 0 /\ stops = 0

(* A client completes the room's handshake. *)
Join ==
    /\ stage = "lobby" /\ lobby < MaxPlayers
    /\ lobby' = lobby + 1
    /\ connected' = connected \cup {lobby + 1}
    /\ UNCHANGED <<stage, world, prev, winner, drained, chan, mirror, moves, placed, stops>>

(* ENTER, or a full lobby: the session is set up and announced. *)
StartMatch ==
    /\ stage = "lobby" /\ lobby > 0
    /\ stage' = "match"
    /\ \E m \in map_generate(lobby) : world' = init_session(m)
    /\ prev' = [t \in {u \in DOMAIN world'.map : InPacket(u)} |-> world'.map[t]]
    /\ chan' = IF Me <= lobby THEN <<Roster, MapInit(world'.map)>> ELSE <<>>
    /\ UNCHANGED <<lobby, winner, drained, connected, mirror, moves, placed, stops>>

(* ENTER in an empty lobby, or SIGINT in the lobby. *)
Leave ==
    /\ stage = "lobby"
    /\ \/ lobby = 0 /\ stops' = stops
       \/ stops < MaxStops /\ stops' = stops + 1
    /\ stage' = "closed"
    /\ UNCHANGED <<lobby, world, prev, winner, drained, connected, chan, mirror, moves, placed>>

Draining == stage = "match" /\ drained < MAX_MSGS_PER_TICK

(* A MOVE of player k is drained from the message queue. *)
DrainMove(k, d) ==
    /\ Draining /\ k \in connected /\ moves < MaxMoves
    /\ moves' = moves + 1 /\ drained' = drained + 1
    /\ world' = apply_move(world, k, d)
    /\ UNCHANGED <<stage, lobby, prev, winner, connected, chan, mirror, placed, stops>>

DrainBombPlace(k) ==
    /\ Draining /\ k \in connected /\ placed < MaxPlaced
    /\ placed' = placed + 1 /\ drained' = drained + 1
    /\ world' = apply_bomb_place(world, k)
    /\ UNCHANGED <<stage, lobby, prev, winner, connected, chan, mirror, moves, stops>>

(* A client's process ends or its connection drops.  libbattleroyale stops *)
(* polling the socket and records nothing: brserver_get_disconnected       *)
(* returns 0 ever after, so the tick loop never hears of it.               *)
Disconnect(k) ==
    /\ stage = "match" /\ k \in connected \ {Me}
    /\ lobby - Cardinality(connected) < MaxGone
    /\ connected' = connected \ {k}
    /\ UNCHANGED <<stage, lobby, world, prev, winner, drained, chan, mirror, moves, placed, stops>>

Alive(w) == {k \in DOMAIN w.players : w.players[k].alive}
MatchOver(w) ==
    \/ lobby > 1 /\ Cardinality(Alive(w)) <= 1
    \/ lobby = 1 /\ Alive(w) = {}

(* winner_id: the first survivor in slot order, 0 when there is none. *)
Winner(w) == IF lobby = 1 \/ Alive(w) = {} THEN 0
             ELSE CHOOSE k \in Alive(w) : \A j \in Alive(w) : k <= j

(* The part of the loop behind the drain, and what follows the loop when the   *)
(* match is over: GAME_OVER, free_session, brserver_end and the end of main. *)
Tick ==
    /\ stage = "match" /\ Len(chan) <= MaxInFlight
    /\ \E drop \in Draws(world) :
       \E moved \in {apply_movement_and_pickups(world)} :
       \E bombed \in {tick_bombs(moved, drop)} :
       \E calm \in {tick_explosions(bombed)} :
       \E w \in {kill_players_in_explosions(calm)} :
         LET dirty == w.dirty \/ w.bombs # <<>>
         IN /\ world' = [w EXCEPT !.dirty = FALSE]
            /\ prev' = [t \in DOMAIN prev |-> w.map[t]]
            /\ chan' = IF Me > lobby THEN chan
                       ELSE chan \o diff_and_broadcast_map(w.map)
                            \o (IF dirty THEN broadcast_state(w) ELSE <<>>)
                            \o (IF MatchOver(w) THEN <<GameOver(Winner(w))>> ELSE <<>>)
            /\ IF MatchOver(w) THEN stage' = "over" /\ winner' = Winner(w)
                               ELSE UNCHANGED <<stage, winner>>
    /\ drained' = 0
    /\ UNCHANGED <<lobby, connected, mirror, moves, placed, stops>>

(* SIGINT: the loop ends after the tick, without a winner. *)
Stop ==
    /\ stage = "match" /\ drained = 0 /\ stops < MaxStops
    /\ stops' = stops + 1 /\ stage' = "over"
    /\ chan' = IF Me > lobby THEN chan ELSE Append(chan, GameOver(0))
    /\ UNCHANGED <<lobby, world, prev, winner, drained, connected, mirror, moves, placed>>

(* network_poll: the client applies what has reached its queue. *)
Poll ==
    /\ \E n \in 1 .. Len(chan) :
         /\ mirror' = Replay(mirror, SubSeq(chan, 1, n))
         /\ chan' = SubSeq(chan, n + 1, Len(chan))
    /\ UNCHANGED <<stage, lobby, world, prev, winner, drained, connected, moves, placed, stops>>

Next ==
    \/ Join \/ StartMatch \/ Leave \/ Tick \/ Stop \/ Poll
    \/ \E k \in 1 .. lobby :
         \/ \E d \in Directions : DrainMove(k, d)
         \/ DrainBombPlace(k)
         \/ Disconnect(k)

Spec == Init /\ [][Next]_vars
-----------------------------------------------------------------------------
Players(w) ==
    [1 .. lobby -> [alive : BOOLEAN, pos : Nat \X Nat, dx : -1 .. 1, dy : -1 .. 1,
                    is_moving : BOOLEAN, num_bombs : Nat, remaining : Nat,
                    num_fires : Nat, replenish : 0 .. ReplenishTime]]

(* The variables have the types of the structs they stand for, and timers *)
(* of queued bombs and explosions are running.                            *)
TypeOK ==
    /\ stage \in {"lobby", "match", "over", "closed"}
    /\ lobby \in 0 .. MaxPlayers /\ connected \subseteq 1 .. lobby
    /\ winner \in 0 .. lobby /\ drained \in 0 .. MAX_MSGS_PER_TICK
    /\ world # <<>> =>
         /\ world.map \in [Grid(MapSize) -> TileType \ {"PLAYER"}]
         /\ world.pending \in [Grid(MapSize) -> {"EMPTY", "POWERUP_FIRE", "POWERUP_BOMB"}]
         /\ world.players \in Players(world)
         /\ Len(world.bombs) <= QueueSize /\ Len(world.explodes) <= QueueSize
         /\ \A i \in DOMAIN world.bombs : world.bombs[i].timer \in 1 .. BombTime
         /\ \A i \in DOMAIN world.explodes : world.explodes[i].timer \in 1 .. ExplodeTime
    /\ mirror.died \in 0 .. 1 /\ mirror.won \in 0 .. 1

(* Nobody has more bombs out than the inventory allows: bombs in the hand   *)
(* and on the floor never exceed num_bombs.  No line of the code compares   *)
(* the two: it rests on the replenish timer being restarted by every bomb   *)
(* and running as long as a fuse (inventory.c, tick_session's order).       *)
BombBudget ==
    stage # "lobby" /\ world # <<>> =>
        \A k \in 1 .. lobby :
            Cardinality({i \in DOMAIN world.bombs : world.bombs[i].by = k})
                + world.players[k].remaining <= world.players[k].num_bombs

(* Every burning tile and every power-up waiting to appear belongs to an    *)
(* explosion that has not expired (otherwise nothing would ever put it out  *)
(* or reveal it), and every BOMB tile to a bomb that is still ticking, in   *)
(* spite of overlapping blasts and of the swap-removals of tick_bombs and   *)
(* tick_explosions.                                                         *)
TilesAccounted ==
    world # <<>> =>
        \A t \in DOMAIN world.map :
            /\ world.map[t] = "EXPLOSION" \/ world.pending[t] # "EMPTY" =>
                  \E e \in Range(world.explodes) : t \in e.spread
            /\ world.map[t] = "BOMB" => \E b \in Range(world.bombs) : b.pos = t

(* With the code's own numbers, in every match this lobby can still grow    *)
(* into, players start on tiles of their own inside the border, so far      *)
(* apart that the '+' around one spawn never wipes out the marker of        *)
(* another (map.c, step 3): collect_spawns never falls back on the corner.  *)
SpawnsApart ==
    stage = "lobby" =>
        \A n \in lobby + 1 .. 25 :
            LET inner == Width(n, 10, 25)
                spawns == calc_player_spawns(n, inner)
            IN  \A k \in 1 .. n :
                  /\ spawns[k] \in (1 .. inner) \X (1 .. inner)
                  /\ \A j \in 1 .. n \ {k} :
                        spawns[j] \notin {spawns[k]} \cup Plus(spawns[k], inner + 2)

(* Between two ticks, a client that has applied everything sent to it shows *)
(* the server's map, knows who lives, and shows every bomb that still ticks *)
(* (bombd/main.c, step 3): no tile change falls between two diffs, and no   *)
(* death or bomb between two states.                                        *)
MirrorCurrent ==
    stage \in {"match", "over"} /\ drained = 0 /\ chan = <<>> /\ Me <= lobby =>
        /\ \A t \in DOMAIN prev : mirror.map[t] = world.map[t]
        /\ lobby <= StateMaxPlayers =>
              \A k \in 1 .. lobby : Slot(mirror.alive, k) = world.players[k].alive
        /\ Len(world.bombs) <= StateMaxBombs =>
              {b.pos : b \in Range(world.bombs)} \subseteq mirror.bombs

(* "Broadcast whatever changed: [...] player/bomb state is reliable"        *)
(* (bombd/main.c:347-348): the bombs a client draws when it has applied     *)
(* everything are the bombs there are.  It is not so after the last one     *)
(* has exploded: nothing marks the session dirty, and the client keeps it.  *)
BombsShown ==
    stage = "match" /\ drained = 0 /\ chan = <<>> /\ Me <= lobby
        /\ Len(world.bombs) <= StateMaxBombs =>
            mirror.bombs = {b.pos : b \in Range(world.bombs)}

(* When a client learns who won, it has already seen everybody else die and *)
(* the winner live; without a winner (and without SIGINT) it has seen all   *)
(* die.  STATE is sent before GAME_OVER, but only if a death set dirty.     *)
(* EVENT_PLAYER_DIED fires once, when the local player is first seen dead,  *)
(* however often the state is resent, and never for the winner.             *)
OutcomeAgrees ==
    /\ mirror.over /\ lobby <= StateMaxPlayers /\ stops = 0 =>
         LET alive == {k \in 1 .. lobby : Slot(mirror.alive, k)}
         IN  IF mirror.winner = 0 THEN alive = {} ELSE alive = {mirror.winner}
    /\ Me <= lobby => /\ mirror.died = IF Slot(mirror.alive, Me) THEN 0 ELSE 1
                      /\ mirror.won + mirror.died <= 1

(* "Explode bomb if timer is up!" (bomb_control.c:84): a bomb whose fuse    *)
(* runs out in a tick explodes in that tick, where it lies.                 *)
ExplodesWhereItLies ==
    [][world # <<>> /\ drained' = 0 /\ world' # world =>
          \A b \in Range(world.bombs) :
              b.timer = 1 /\ b \notin Range(world'.bombs) =>
                  \E e \in Range(world'.explodes) :
                      e.center = b.pos /\ e.timer = ExplodeTime - 1]_vars
=============================================================================
