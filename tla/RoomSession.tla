---------------------------- MODULE RoomSession ----------------------------
(***************************************************************************)
(* One room's match: the worker's tick loop (tetrisd/room.c) over the      *)
(* authoritative session (tetrisd/game.c, libtetrisbrain targeting), and   *)
(* the players' programs (tetrisu/main.c), which only show what the room   *)
(* pushes to them (libtetrisprotocol, HTTTP).                              *)
(*                                                                         *)
(* A board is a counter of its visible changes and what a lock does to it  *)
(* is a choice over what TetrisBoard can compute: lines cleared or not,    *)
(* the attack, and whether the next piece still fits.  The transport keeps *)
(* order (BRLink); a message to a player whose queue is full is lost.  The *)
(* master and the other rooms (TetrisHub) are an environment that answers  *)
(* eliminations and sends garbage; it outlives the room.                   *)
(***************************************************************************)
EXTENDS HTTTP

CONSTANTS
  Players,       \* the ids of the room's players, in order of joining
  Remote,        \* ids of the players of other rooms
  KILL_FEED_MAX,
  KEEPALIVE_TICKS,
  MAX_MSGS_PER_TICK,
  Damages,       \* lines an attack may have
  Locks,         \* bound: what a lock may do
  Pressing,      \* bound: the players who press keys
  MaxActions,    \* bound: keys pressed
  MaxMoves,      \* bound: changes of a board that no key causes
  Slow,          \* bound: the players whose queue may be full
  Struck,        \* bound: the players whom other rooms attack
  MaxTroubles,   \* bound: messages lost at a full queue and attacks from other rooms
  MaxDown        \* bound: messages a player's program is behind

Ids == Range(Players)

\* Lines cleared or not, the attack of cleared lines, and the end of the game; a
\* piece that comes to rest above the board settles nothing (lock out)
AllLocks == {l \in [settled : BOOLEAN, cleared : BOOLEAN, damage : Damages \cup {0}, over : BOOLEAN] :
               (l.damage > 0 => l.cleared) /\ (~l.settled => l.over /\ ~l.cleared)}

ASSUME RoomAssumption ==
  /\ IsInjective(Players) /\ Players # <<>> /\ Ids \cap Remote = {}
  /\ Ids \cup Remote \subseteq 1..MaxNumber
  /\ {KILL_FEED_MAX, MAX_MSGS_PER_TICK, MaxDown} \subseteq Nat \ {0}
  /\ Damages \subseteq 1..MaxNumber /\ Locks \subseteq AllLocks
  /\ Pressing \subseteq Ids /\ Struck \subseteq Ids /\ Slow \subseteq Ids
  /\ {MaxNumber, KEEPALIVE_TICKS, MaxActions, MaxMoves, MaxTroubles} \subseteq Nat

VARIABLES
  pc,           \* where the tick loop is: "drain", "hub", "route", "push", "ended"
  drained,      \* messages drained in this tick
  match_over,
  slots,        \* session.players
  eliminated,   \* session.roster.eliminated
  global,       \* the last HUB_ROSTER: the living of the whole match
  outcome,      \* winner_id, once the match is over
  up,           \* messages of the players, as the room's queue has them
  down,         \* down[p]: messages on their way to p's program
  hub_in,       \* the hub, from the master
  hub_out,      \* the hub, to the master
  alive,        \* the master's table
  view,         \* gamestate_player of each program
  ended,        \* programs that have left their loop
  feed,         \* killfeed.c, in each program
  (* history *)
  shown,        \* attacks each program was told of
  quits,        \* programs whose player has pressed 'q'
  missed,       \* programs whose last message of the match was lost
  (* bounds *)
  actions, moves, lost, hits

roomVars  == <<pc, drained, match_over, slots, eliminated, global, outcome>>
netVars   == <<up, down, hub_in, hub_out>>
userVars  == <<view, ended, feed, shown, quits>>
boundVars == <<actions, moves, lost, hits>>
vars == <<roomVars, netVars, alive, userVars, missed, boundVars>>

\* "move" stands for the six keys that move, turn or hold the piece
PlayerAction == <<"move", "drop", "mode", "target", "quit">>
Code(a) == CHOOSE i \in DOMAIN PlayerAction : PlayerAction[i] = a

\* The modes, in the order cycle_target_mode goes through
MANUAL == 0
RANDOM == 1
KO == 2

Flag(b) == IF b THEN 1 ELSE 0

-----------------------------------------------------------------------------
(* The session, game.c *)

FirstOther(p) == IF Ids = {p} THEN 0 ELSE SelectSeq(Players, LAMBDA r : r # p)[1]

init_session ==
  [p \in Ids |-> [active |-> TRUE, dirty |-> TRUE, reported |-> FALSE, idle |-> 0,
                  board |-> 0, pending |-> 0, outgoing |-> 0, game_over |-> FALSE,
                  winner |-> 0, mode |-> MANUAL, target |-> FirstOther(p),
                  last_attacker |-> 0]]

InGame(s) == s.active /\ ~s.game_over

\* tick_game, when the piece comes to rest: a lock out is only the end of the game
Lock(s, l) ==
  LET cancel == Min({l.damage, s.pending})
  IN  [s EXCEPT !.board = @ + 1, !.game_over = l.over,
                !.pending = IF ~l.settled THEN @ ELSE IF l.cleared THEN @ - cancel ELSE 0,
                !.outgoing = IF l.settled THEN l.damage - cancel ELSE @]

cycle_target_mode(s) == [s EXCEPT !.mode = (@ + 1) % 3]

\* The next of the room's players after the current target who is not the
\* attacker and not marked as eliminated
cycle_manual_target(s, p) ==
  LET n    == Len(Players)
      at   == {i \in 1..n : Players[i] = s.target}
      from == IF at = {} THEN 0 ELSE Min(at)
      good == {k \in 1..n : LET q == Players[((from + k - 1) % n) + 1]
                            IN  q # p /\ ~eliminated[q]}
  IN  IF n <= 1 \/ good = {} THEN s
      ELSE [s EXCEPT !.target = Players[((from + Min(good) - 1) % n) + 1]]

\* A lock matters to a drop only
Acted(s, p, a, l) ==
  CASE a = "move"   -> [s EXCEPT !.board = @ + 1]
    [] a = "drop"   -> Lock(s, l)
    [] a = "mode"   -> cycle_target_mode(s)
    [] a = "target" -> cycle_manual_target(s, p)
    [] a = "quit"   -> [s EXCEPT !.game_over = TRUE, !.active = FALSE]

NoLock == [settled |-> TRUE, cleared |-> FALSE, damage |-> 0, over |-> FALSE]
LocksOf(a) == IF a = "drop" THEN Locks ELSE {NoLock}

\* An action always leaves the slot dirty
apply_action(s, p, a, l) == [Acted(s, p, a, l) EXCEPT !.dirty = TRUE]

\* queue_garbage, whose cap (TetrisBoard) the bounds do not reach, and what the
\* room notes beside it
Hit(s, from, lines) ==
  [s EXCEPT !.pending = @ + lines, !.last_attacker = from, !.dirty = TRUE]

-----------------------------------------------------------------------------
(* Messages *)

\* brserver_send_to_all: every program still in its loop gets the message it has
\* use for (it skips the states of other players' boards, so "who" are the owners),
\* except the ones that meet a full queue
Broadcast(who, msg, full) ==
  /\ full \subseteq (Slow \cap who) \ ended
  /\ lost + hits + Cardinality(full) <= MaxTroubles
  /\ \A p \in who \ ended : Len(down[p]) < MaxDown
  /\ lost' = lost + Cardinality(full)
  /\ down' = [p \in Ids |-> IF p \in ended THEN <<>>
                            ELSE IF p \in who \ full THEN Append(down[p], msg[p]) ELSE down[p]]

build_state_payload(p, s) ==
  [player_id |-> p, board |-> s.board, pending |-> s.pending, target |-> s.target,
   mode |-> s.mode, game_over |-> Flag(s.game_over), winner |-> s.winner]

\* Messages are kept as what they say; WireFaithful is about the text they travel as
StateMsg(p, s) == [method |-> "STATE", id |-> p, payload |-> build_state_payload(p, s)]

\* broadcast_feed
AttackMsg(a) == [p \in Ids |-> [method |-> "ATTACK", id |-> a.from, payload |-> a]]

-----------------------------------------------------------------------------
(* The tick loop, room.c *)

\* A message of a player who is out, or of nobody here, changes nothing
drain ==
  /\ pc = "drain"
  /\ up # <<>>
  /\ drained < MAX_MSGS_PER_TICK
  /\ LET m == Head(up)
         a == PlayerAction[m.payload]
         p == m.id
     IN  IF m.method = "ACTION" /\ p \in Ids /\ InGame(slots[p])
         THEN \E l \in LocksOf(a) :
                /\ slots' = [slots EXCEPT ![p] = apply_action(@, p, a, l)]
                /\ eliminated' = [eliminated EXCEPT ![p] = @ \/ a = "quit"]
         ELSE UNCHANGED <<slots, eliminated>>
  /\ up' = Tail(up)
  /\ drained' = drained + 1
  /\ UNCHANGED <<pc, match_over, global, outcome, down, hub_in, hub_out, alive, userVars,
                 missed, boundVars>>

\* The players' messages are drained, now or earlier in this tick
AtHub == pc = "hub" \/ (pc = "drain" /\ (up = <<>> \/ drained = MAX_MSGS_PER_TICK))

FromHub(type) ==
  /\ AtHub
  /\ hub_in # <<>>
  /\ Head(hub_in).type = type
  /\ hub_in' = Tail(hub_in)
  /\ pc' = "hub"
  /\ drained' = 0
  /\ UNCHANGED <<eliminated, up, hub_out, alive, userVars, missed, actions, moves, hits>>

\* apply_remote_garbage: the victim may have died since
hub_garbage ==
  /\ FromHub("GARBAGE")
  /\ LET a == Head(hub_in).body
     IN  IF a.to \in Ids /\ InGame(slots[a.to])
         THEN /\ slots' = [slots EXCEPT ![a.to] = Hit(@, a.from, a.lines)]
              /\ \E full \in SUBSET Slow : Broadcast(Ids, AttackMsg(a), full)
         ELSE UNCHANGED <<slots, down, lost>>
  /\ UNCHANGED <<match_over, global, outcome>>

\* An attack elsewhere is only shown
hub_feed ==
  /\ FromHub("FEED")
  /\ \E full \in SUBSET Slow : Broadcast(Ids, AttackMsg(Head(hub_in).body), full)
  /\ UNCHANGED <<match_over, slots, global, outcome>>

hub_roster ==
  /\ FromHub("ROSTER")
  /\ global' = Head(hub_in).body
  /\ UNCHANGED <<match_over, slots, outcome, down, lost>>

\* The rest of the hub is still drained
hub_gameover ==
  /\ FromHub("GAMEOVER")
  /\ match_over' = TRUE
  /\ outcome' = Head(hub_in).body
  /\ UNCHANGED <<slots, global, down, lost>>

\* What a tick does to a board: nothing, a fall, or a lock
Ticks == {[kind |-> k, lock |-> NoLock] : k \in {"still", "falls"}}
           \cup {[kind |-> "locks", lock |-> l] : l \in Locks}

Moved(s, t) == IF t.kind = "locks" THEN Lock(s, t.lock) ELSE [s EXCEPT !.board = @ + 1]

tick_slotClean(s, t) == IF t.kind = "still" THEN s ELSE Moved(s, t)

\* tick_session for one player; update_timers reports a change
tick_slot(s, t) == IF t.kind = "still" THEN s ELSE [Moved(s, t) EXCEPT !.dirty = TRUE]

Gone(s) == (s.game_over \/ ~s.active) /\ ~s.reported

Reports(after) ==
  LET gone == SelectSeq(Players, LAMBDA p : Gone(after[p]))
  IN  [k \in DOMAIN gone |-> [type |-> "ELIMINATED", body |-> gone[k]]]

\* Those who have garbage to send, in order
Attackers(ss) == SelectSeq(Players, LAMBDA p : ss[p].outgoing > 0)

\* tick_session, then each elimination is reported once
tick_session ==
  /\ AtHub
  /\ hub_in = <<>>
  /\ ~match_over
  /\ \E t \in [Ids -> Ticks] :
       LET moved  == {p \in Ids : t[p].kind # "still"}
           ticked == [p \in Ids |-> tick_slot(slots[p], t[p])]
       IN  /\ \A p \in moved : InGame(slots[p])
           /\ moves + Cardinality(moved) <= MaxMoves
           /\ moves' = moves + Cardinality(moved)
           /\ slots' = [p \in Ids |-> [ticked[p] EXCEPT !.reported = @ \/ Gone(ticked[p])]]
           /\ hub_out' = hub_out \o Reports(ticked)
           /\ eliminated' = [p \in Ids |-> eliminated[p] \/ (p \in moved /\ ticked[p].game_over)]
  /\ pc' = IF Attackers(slots') = <<>> THEN "push" ELSE "route"
  /\ drained' = 0
  /\ UNCHANGED <<match_over, global, outcome, up, down, hub_in, alive, userVars, missed, actions,
                 lost, hits>>

\* resolve_target_id, against the room's own roster
resolve_target_id(p) ==
  LET s      == slots[p]
      living == {q \in Ids \ {p} : ~eliminated[q]}
  IN  CASE s.mode = RANDOM /\ living # {} -> living
        [] s.mode = KO /\ s.last_attacker \in living -> {s.last_attacker}
        [] OTHER -> {s.target}

\* resolve_victim, against the whole match first
resolve_victim(p) ==
  LET s      == slots[p]
      living == {q \in (Ids \cup Remote) \ {p} : global[q]}
  IN  CASE s.mode = RANDOM /\ living # {} -> living
        [] s.mode = KO /\ s.last_attacker \in living -> {s.last_attacker}
        [] OTHER -> resolve_target_id(p)

StrikesAnyone(p, v) == v \in Ids /\ v # p /\ slots[v].active

Strikes(p, v) == v \in Ids /\ v # p /\ InGame(slots[v])

\* No such player is here: the master will know (HUB_ATTACK)
Leaves(p, v) == v \notin {0, p} /\ (v \in Ids => ~slots[v].active)

\* What the room tells the master of an attack: to route it if the victim is not
\* here, and to show it to the other rooms
Tells(p, a) ==
  (IF Leaves(p, a.to) THEN <<[type |-> "ATTACK", body |-> a]>> ELSE <<>>)
    \o <<[type |-> "FEED", body |-> a]>>

\* A victim in this room is hit, and every attack is shown; a victim who is out, or
\* oneself, gets nothing
route_garbage ==
  /\ pc = "route"
  /\ LET p     == Head(Attackers(slots))
         taken == [slots EXCEPT ![p].outgoing = 0]
     IN  \E v \in resolve_victim(p) :
           LET a == [from |-> p, to |-> v, lines |-> slots[p].outgoing]
           IN  /\ slots' = IF Strikes(p, v) THEN [taken EXCEPT ![v] = Hit(@, p, a.lines)] ELSE taken
               /\ IF Strikes(p, v) \/ Leaves(p, v)
                  THEN /\ hub_out' = hub_out \o Tells(p, a)
                       /\ \E full \in SUBSET Slow : Broadcast(Ids, AttackMsg(a), full)
                  ELSE UNCHANGED <<hub_out, down, lost>>
  /\ pc' = IF Attackers(slots') = <<>> THEN "push" ELSE "route"
  /\ UNCHANGED <<drained, match_over, eliminated, global, outcome, up, hub_in, alive,
                 userVars, missed, actions, moves, hits>>

\* Something changed, or it has been too long
Due(s) == s.dirty \/ s.idle >= KEEPALIVE_TICKS

IdleNever(s) == IF Due(s) THEN [s EXCEPT !.dirty = FALSE] ELSE s

\* The flag and the idle counter after a tick's push
Pushed(s) == IF Due(s) THEN [s EXCEPT !.dirty = FALSE, !.idle = 0] ELSE [s EXCEPT !.idle = @ + 1]

push_state ==
  /\ pc = "push"
  /\ \E full \in SUBSET Slow :
       Broadcast({p \in Ids : Due(slots[p])}, [p \in Ids |-> StateMsg(p, slots[p])], full)
  /\ slots' = [p \in Ids |-> Pushed(slots[p])]
  /\ pc' = "drain"
  /\ UNCHANGED <<drained, match_over, eliminated, global, outcome, up, hub_in, hub_out, alive,
                 userVars, missed, actions, moves, hits>>

FinishedRunning(s) == IF s.active THEN [s EXCEPT !.winner = outcome] ELSE s

Finished(s) == IF s.active THEN [s EXCEPT !.game_over = TRUE, !.winner = outcome] ELSE s

\* One last state for each player who has not quit, and the room is gone
room_over ==
  /\ AtHub
  /\ hub_in = <<>>
  /\ match_over
  /\ slots' = [p \in Ids |-> Finished(slots[p])]
  /\ \E full \in SUBSET Slow :
       /\ Broadcast({p \in Ids : slots[p].active}, [p \in Ids |-> StateMsg(p, slots'[p])], full)
       /\ missed' = full
  /\ pc' = "ended"
  /\ UNCHANGED <<drained, match_over, eliminated, global, outcome, up, hub_in, hub_out, alive,
                 userVars, actions, moves, hits>>

-----------------------------------------------------------------------------
(* The players' programs, tetrisu *)

\* send_action; after 'q' no more keys are read, and the program leaves its loop
\* unless a state that is already there says that the game goes on
process_inputs(p, a) ==
  /\ p \in Pressing \ ended
  /\ view[p].game_over = 0
  /\ actions < MaxActions
  /\ actions' = actions + 1
  /\ up' = IF pc = "ended" THEN up
           ELSE Append(up, [method |-> "ACTION", id |-> p, payload |-> Code(a)])
  /\ IF a = "quit"
     THEN view' = [view EXCEPT ![p].game_over = 1] /\ quits' = quits \cup {p}
     ELSE UNCHANGED <<view, quits>>
  /\ UNCHANGED <<roomVars, down, hub_in, hub_out, alive, ended, feed, shown, missed, moves, lost,
                 hits>>

add_kill_feed_stuck(f, a) ==
  [entries |-> [f.entries EXCEPT ![f.head] = a],
   head |-> Min({f.head + 1, KILL_FEED_MAX - 1}),
   count |-> Min({f.count + 1, KILL_FEED_MAX})]

\* killfeed.c: a ring of the latest attacks
add_kill_feed(f, a) ==
  [entries |-> [f.entries EXCEPT ![f.head] = a],
   head |-> (f.head + 1) % KILL_FEED_MAX,
   count |-> Min({f.count + 1, KILL_FEED_MAX})]

\* From the oldest to the newest
draw_kill_feed(f) ==
  [i \in 1..f.count |->
     f.entries[(f.head - f.count + (i - 1) + KILL_FEED_MAX) % KILL_FEED_MAX]]

apply_state_payload(m) == m.payload

on_attack_generated(f, m) == add_kill_feed(f, m.payload)

\* What a message does to what the program u shows, and to the attacks it was told of
handle_msg(u, m) ==
  CASE m.method = "STATE"  -> [u EXCEPT !.view = apply_state_payload(m)]
    [] m.method = "ATTACK" -> [u EXCEPT !.feed = on_attack_generated(@, m),
                                        !.shown = Append(@, m.payload)]

\* What p's program shows once it has read all that is on its way
Read(p) ==
  FoldLeft(handle_msg, [view |-> view[p], feed |-> feed[p], shown |-> shown[p]], down[p])

\* The loop reads all that has come in and then looks whether the game is over
read_messages(p) ==
  /\ p \notin ended
  /\ down[p] # <<>> \/ view[p].game_over = 1
  /\ view' = [view EXCEPT ![p] = Read(p).view]
  /\ ended' = IF view'[p].game_over = 1 THEN ended \cup {p} ELSE ended
  /\ feed' = [feed EXCEPT ![p] = Read(p).feed]
  /\ shown' = [shown EXCEPT ![p] = Read(p).shown]
  /\ down' = [down EXCEPT ![p] = <<>>]
  /\ UNCHANGED <<roomVars, up, hub_in, hub_out, alive, quits, missed, boundVars>>

-----------------------------------------------------------------------------
(* The master and the other rooms *)

AliveNow(t) == {q \in DOMAIN t : t[q]}

\* The roster after an elimination, and the end of the match
Announce(t) ==
  <<[type |-> "ROSTER", body |-> t]>>
    \o IF Cardinality(AliveNow(t)) > 1 \/ Cardinality(AliveNow(alive)) <= 1 THEN <<>>
       ELSE <<[type |-> "GAMEOVER",
               body |-> IF AliveNow(t) = {} THEN 0 ELSE CHOOSE q \in AliveNow(t) : TRUE]>>

\* handle_hub_msg: an attack on a living player of this room comes back to it, and
\* the feed goes to the other rooms only
master_handles ==
  /\ hub_out # <<>>
  /\ LET m == Head(hub_out)
     IN  \/ /\ m.type = "ELIMINATED"
            /\ LET t == [alive EXCEPT ![m.body] = FALSE]
               IN  alive' = t /\ hub_in' = hub_in \o Announce(t)
         \/ /\ m.type = "ATTACK"
            /\ hub_in' = IF m.body.to \in Ids /\ alive[m.body.to]
                         THEN Append(hub_in, [type |-> "GARBAGE", body |-> m.body]) ELSE hub_in
            /\ UNCHANGED alive
         \/ m.type = "FEED" /\ UNCHANGED <<alive, hub_in>>
  /\ hub_out' = Tail(hub_out)
  /\ UNCHANGED <<roomVars, up, down, userVars, missed, boundVars>>

remote_dies(r) ==
  /\ ~match_over
  /\ alive[r]
  /\ LET t == [alive EXCEPT ![r] = FALSE]
     IN  alive' = t /\ hub_in' = hub_in \o Announce(t)
  /\ UNCHANGED <<roomVars, up, down, hub_out, userVars, missed, boundVars>>

\* The attacker's room reports the attack twice: to be routed, and to be shown to
\* every other room
remote_attacks(r, v) ==
  /\ ~match_over
  /\ lost + hits < MaxTroubles
  /\ alive[r] /\ alive[v]
  /\ hits' = hits + 1
  /\ \E n \in Damages :
       LET a == [from |-> r, to |-> v, lines |-> n]
       IN  hub_in' = hub_in \o <<[type |-> "GARBAGE", body |-> a], [type |-> "FEED", body |-> a]>>
  /\ UNCHANGED <<roomVars, up, down, hub_out, alive, userVars, missed, actions, moves, lost>>

-----------------------------------------------------------------------------
NoAttack == [from |-> 0, to |-> 0, lines |-> 0]

\* The clients have a game of their own until the first state comes
Init ==
  /\ pc = "drain" /\ drained = 0 /\ match_over = FALSE /\ outcome = 0
  /\ slots = init_session
  /\ eliminated = [p \in Ids |-> FALSE]
  /\ global = [q \in Ids \cup Remote |-> TRUE]
  /\ alive = global
  /\ up = <<>> /\ hub_in = <<>> /\ hub_out = <<>>
  /\ down = [p \in Ids |-> <<>>]
  /\ view = [p \in Ids |-> build_state_payload(p, [init_session[p] EXCEPT !.target = 0])]
  /\ ended = {}
  /\ feed = [p \in Ids |-> [entries |-> [i \in 0..(KILL_FEED_MAX - 1) |-> NoAttack],
                            head |-> 0, count |-> 0]]
  /\ shown = [p \in Ids |-> <<>>]
  /\ quits = {} /\ missed = {}
  /\ actions = 0 /\ moves = 0 /\ lost = 0 /\ hits = 0

RoomStep ==
  \/ drain
  \/ hub_garbage \/ hub_feed \/ hub_roster \/ hub_gameover
  \/ tick_session \/ route_garbage \/ push_state
  \/ room_over

Next ==
  \/ RoomStep
  \/ \E p \in Ids : read_messages(p) \/ \E a \in Range(PlayerAction) : process_inputs(p, a)
  \/ master_handles
  \/ \E r \in Remote : remote_dies(r) \/ \E v \in Struck : remote_attacks(r, v)

Spec == Init /\ [][Next]_vars

\* The room's loop, each program's loop and the master's go on
FairSpec ==
  /\ Spec
  /\ WF_vars(RoomStep)
  /\ \A p \in Ids : WF_vars(read_messages(p))
  /\ WF_vars(master_handles)

-----------------------------------------------------------------------------
(* Properties *)

Encode(m) ==
  CASE m.method = "ACTION" -> payload_encode_input(m.payload)
    [] m.method = "ATTACK" -> payload_encode_attack(m.payload)
    [] m.method = "STATE"  -> payload_encode_state(m.payload)

Decode(r) ==
  [method |-> r.method, id |-> r.id,
   payload |-> CASE r.method = "ACTION" -> payload_decode_input(r.body)
                 [] r.method = "ATTACK" -> payload_decode_attack(r.body)
                 [] r.method = "STATE"  -> payload_decode_state(r.body)]

Wired(m) == Decode(Received(m.method, m.id, Encode(m)))

WiredRoster ==
  payload_decode_roster(Received("ROSTER", 0, payload_encode_roster(Players)).body)

\* Every message that is sent, written out as a request with its headers, and the
\* roster of the room, come back from the parser as what they were: the delimiters
\* in the date and in the bodies do not mislead it (libhypertext.c:65-117,
\* payload.c:5-76)
WireFaithful ==
  [][ /\ Len(up') > Len(up) => Wired(Last(up')) = Last(up')
      /\ \A p \in Ids : Len(down'[p]) > Len(down[p]) => Wired(Last(down'[p])) = Last(down'[p])
      /\ WiredRoster = Players ]_vars

\* Whatever changes a board, its meter or its target marks the slot for a push
\* (game.c:59-168, room.c:54-72 and 324-328): a program behind which nothing is
\* pending shows what the room has, if no message was lost and its player has not
\* pressed 'q'
ViewCurrent ==
  \A p \in Ids \ (ended \cup quits) :
    lost = 0 /\ ~slots[p].dirty /\ pc # "ended"
      => Read(p).view = build_state_payload(p, slots[p])

\* The battle log shows the latest attacks the program was told of, oldest first,
\* also after the ring has wrapped (killfeed.c:12-40)
FeedKeepsLast ==
  \A p \in Ids :
    draw_kill_feed(feed[p])
      = SubSeq(shown[p], Max({1, Len(shown[p]) - KILL_FEED_MAX + 1}), Len(shown[p]))

\* Once a player is out, no late action, attack or tick touches their board
\* (game.c:61 and 148, room.c:59 and 323)
OutIsFrozen ==
  [][ \A p \in Ids : ~InGame(slots[p])
        => /\ ~InGame(slots'[p])
           /\ slots'[p].board = slots[p].board /\ slots'[p].pending = slots[p].pending ]_vars

\* A program that lost a state is repaired by the keepalive (room.c:353-360): the
\* match ends, or in the end everybody still playing sees the room's state
ViewRepaired ==
  <>[](\A p \in Ids \ ended : pc = "ended" \/ view[p] = build_state_payload(p, slots[p]))

\* After the end of the match the program of everyone who has neither quit nor been
\* reported out leaves its loop and names the winner, unless it lost the last state
\* (room.c:387-409), which is not sent again, or 'q' was pressed first
EveryoneTold ==
  match_over ~> \A p \in Ids :
    \/ slots[p].reported \/ ~slots[p].active
    \/ p \in missed
    \/ p \in ended /\ (p \notin quits => view[p].winner = outcome)

=============================================================================
