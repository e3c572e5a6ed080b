----------------------------- MODULE TetrisHub -----------------------------
(***************************************************************************)
(* The multi-process game server tetrisd: one master process               *)
(* (tetrisd/main.c) that deals players into rooms and referees the match,  *)
(* one worker process per room (tetrisd/room.c), and between the master    *)
(* and each worker a SOCK_SEQPACKET socketpair, the hub (tetrisd/hub.c).   *)
(*                                                                         *)
(* A step of the master is one handler of its poll loop: a connection on   *)
(* the public port, ENTER, one hub message, a closed hub, Ctrl-C.  A step  *)
(* of a worker is one half of a lobby pass or one tick.  A handler writes  *)
(* only to hubs, which the receiver reads later, so nothing can observe    *)
(* the inside of a handler; hubs deliver in order and do not block here    *)
(* (a full hub is outside this module).  Boards are abstracted to who is   *)
(* still playing: a tick may end a game or produce an attack.              *)
(***************************************************************************)
EXTENDS Integers, Sequences, FiniteSets

CONSTANTS
  Clients,      \* the people who run tetrisu
  MaxRooms,     \* MAX_ROOMS: room slots of the master
  MaxLobby,     \* MAX_LOBBY_SIZE: ids reserved per room, size of client_ids[]
  RoomSize,     \* room_size: clients dealt into one room
  MaxSpawns,    \* bound: workers forked in a behaviour
  MaxFaults,    \* bound: worker crashes, failed binds and failed handshakes
  MaxAttacks,   \* bound: attacks sent in a behaviour
  Interrupts    \* BOOLEAN: may the operator press Ctrl-C

ASSUME HubAssumption ==
  /\ MaxRooms \in Nat \ {0}
  /\ MaxLobby \in Nat \ {0}
  /\ RoomSize \in 1..MaxLobby
  /\ MaxSpawns \in Nat
  /\ MaxFaults \in Nat
  /\ MaxAttacks \in Nat
  /\ Interrupts \in BOOLEAN

Slots == 0..(MaxRooms - 1)
HubMaxPlayers == MaxRooms * MaxLobby

VARIABLES
  (* the master: main.c, static state *)
  rooms,             \* rooms[]: the master's record of each slot
  players,           \* players[0..player_count-1], never shortened
  room_seq,          \* workers forked so far
  any_room_started,
  match_ended,
  winner_id,         \* the winner check_global_end decided on, 0 for none
  master,            \* "run", "stopping" (Ctrl-C seen), "exited"
  (* the hubs *)
  m2w,               \* m2w[s]: messages on their way to the worker of slot s
  w2m,               \* w2m[s]: messages on their way to the master
  (* the workers: room.c, locals of room_worker_run *)
  wpc,               \* where the worker of each slot is
  next_id,           \* BRServer: the id the next connection gets
  handshake,         \* BRServer lobby thread: id being authenticated, 0 none
  conn,              \* BRServer client list, as ids in order of joining
  lobby,             \* lobby_size, reported, start_ordered, expected
  global,            \* the last HUB_ROSTER received
  session,           \* GameSession.players
  outcome,           \* winner_id the worker ended with
  feed,              \* attacks shown in the room's kill feed
  hits,              \* attacks whose garbage was queued on a board
  (* the outside world *)
  client,            \* what each person has been told
  faults,            \* faults so far
  attacks            \* attacks so far

masterVars == <<rooms, players, room_seq, any_room_started, match_ended,
                winner_id, master>>
serverVars == <<next_id, handshake, conn>>
gameVars   == <<session, outcome, feed, hits>>
workerVars == <<wpc, serverVars, lobby, global, gameVars>>
envVars    == <<client, faults, attacks>>
vars == <<masterVars, m2w, w2m, workerVars, envVars>>

-----------------------------------------------------------------------------
(* Records *)

NoRoom == [used |-> FALSE, ready |-> FALSE, started |-> FALSE,
           redirected |-> 0, joined |-> 0]

FreshLobby == [size |-> 0, reported |-> 0, start_ordered |-> FALSE,
               expected |-> 0]

\* A person: where they are, the slot they were dealt into, their player id, and
\* the workers that inherited their still unanswered connection over fork
Idle == [pc |-> "idle", slot |-> 0, id |-> 0, held |-> {}]

\* HubMsg: a type and a union
Msg(t, b) == [type |-> t, body |-> b]

\* The body of a HUB_ROSTER: who is in the match and who of them is alive
Roster(ps) == [i \in DOMAIN ps |-> [id |-> ps[i].id, alive |-> ps[i].alive]]

-----------------------------------------------------------------------------
(* Helpers *)

Used(rs)    == {s \in Slots : rs[s].used}
Running(rs) == {s \in Slots : rs[s].used /\ rs[s].started}

\* A process holds the worker's end of the hub of slot s
Live(s) == wpc[s] \notin {"none", "gone"}

\* hub_send to each slot of S; a send to a dead peer fails and is ignored
HubSend(q, S, msg) ==
  [s \in Slots |-> IF s \in S /\ Live(s) THEN Append(q[s], msg) ELSE q[s]]

\* A worker's hub_send; it fails silently once the master closed its end
Report(s, msgs) ==
  w2m' = [w2m EXCEPT ![s] = IF rooms[s].used THEN @ \o msgs ELSE @]

Copies(n, msg) == [i \in 1..n |-> msg]

Least(S) == CHOOSE x \in S : \A y \in S : x <= y

Parked(s) == {c \in Clients : client[c].pc = "parked" /\ client[c].slot = s}

-----------------------------------------------------------------------------
(* The master's match tracking *)

broadcast_roster(q, rs, ps) ==
  HubSend(q, Running(rs), Msg("ROSTER", Roster(ps)))

AliveAt(ps) == {i \in DOMAIN ps : ps[i].alive}


Over(ps) == IF Len(ps) >= 2 THEN Cardinality(AliveAt(ps)) <= 1
                            ELSE AliveAt(ps) = {}

Standing(ps) == IF Cardinality(AliveAt(ps)) = 1
                THEN ps[CHOOSE i \in AliveAt(ps) : TRUE].id
                ELSE 0

check_global_endAgain(q, rs, ps) ==
  IF ps # <<>> /\ Over(ps)
  THEN /\ match_ended' = TRUE
       /\ winner_id' = Standing(ps)
       /\ m2w' = HubSend(q, Used(rs), Msg("GAMEOVER", Standing(ps)))
  ELSE /\ m2w' = q
       /\ UNCHANGED <<match_ended, winner_id>>

\* Decides the match at most once; sends HUB_GAMEOVER after what is in q
check_global_end(q, rs, ps) ==
  IF ~match_ended /\ ps # <<>> /\ Over(ps)
  THEN /\ match_ended' = TRUE
       /\ winner_id' = Standing(ps)
       /\ m2w' = HubSend(q, Used(rs), Msg("GAMEOVER", Standing(ps)))
  ELSE /\ m2w' = q
       /\ UNCHANGED <<match_ended, winner_id>>

StartableEmpty(rs) == {s \in Slots : rs[s].used /\ ~rs[s].started}

\* The rooms start_room does not return early from
Startable(rs) ==
  {s \in Slots : rs[s].used /\ ~rs[s].started /\ rs[s].joined >= 1}

\* In slot order each startable room gets HUB_START and every running room,
\* the new one included, gets the roster again
start_all_rooms(q, rs, ps) ==
  LET E == Startable(rs)
      RosterCopies(n) == Copies(n, Msg("ROSTER", Roster(ps)))
  IN /\ rooms' = [s \in Slots |-> IF s \in E
                                  THEN [rs[s] EXCEPT !.started = TRUE]
                                  ELSE rs[s]]
     /\ any_room_started' = (any_room_started \/ E # {})
     /\ m2w' = [s \in Slots |->
          IF ~Live(s) THEN q[s]
          ELSE IF s \in E
          THEN q[s] \o <<Msg("START", rs[s].redirected)>>
                    \o RosterCopies(Cardinality({e \in E : e >= s}))
          ELSE IF s \in Running(rs) THEN q[s] \o RosterCopies(Cardinality(E))
          ELSE q[s]]

ExitDueByStart == any_room_started /\ \A s \in Slots : ~rooms[s].started

\* The daemon's job is done: checked at the end of every pass of the loop
ExitDue == any_room_started /\ Used(rooms) = {}

Serving == master = "run" /\ ~ExitDue

-----------------------------------------------------------------------------
(* The master's handlers *)

FillingOneMore == {s \in Slots : /\ rooms[s].used
                                 /\ ~rooms[s].started
                                 /\ rooms[s].redirected <= RoomSize}

Filling == {s \in Slots : /\ rooms[s].used
                          /\ ~rooms[s].started
                          /\ rooms[s].redirected < RoomSize}

accept_clientEager(c) ==
  /\ Serving
  /\ client[c].pc = "idle"
  /\ Filling # {}
  /\ LET s == Least(Filling)
     IN /\ client' = [client EXCEPT ![c] =
                        [pc |-> "redirected", slot |-> s, id |-> 0, held |-> {}]]
        /\ rooms' = [rooms EXCEPT ![s].redirected = @ + 1]
  /\ UNCHANGED <<players, room_seq, any_room_started, match_ended, winner_id,
                 master, m2w, w2m, workerVars, faults, attacks>>

\* filling_room found an open room: redirect there, or park until HUB_READY.
\* redirected < RoomSize <= MaxLobby, so pending_fds always has space.
accept_client(c) ==
  /\ Serving
  /\ client[c].pc = "idle"
  /\ Filling # {}
  /\ LET s == Least(Filling)
     IN /\ client' = [client EXCEPT ![c] =
             [pc |-> IF rooms[s].ready THEN "redirected" ELSE "parked",
              slot |-> s, id |-> 0, held |-> {}]]
        /\ rooms' = [rooms EXCEPT ![s].redirected = @ + 1]
  /\ UNCHANGED <<players, room_seq, any_room_started, match_ended, winner_id,
                 master, m2w, w2m, workerVars, faults, attacks>>

\* The first id of the room being spawned
IdBase(seq) == 1 + seq * MaxLobby

\* No room is open: spawn_room forks a worker into the first free slot and
\* the client is parked there.  The worker closes the listening socket and the
\* hubs it inherits, but not the connections of those who are parked.
accept_spawn(c) ==
  /\ Serving
  /\ client[c].pc = "idle"
  /\ Filling = {}
  /\ Slots \ Used(rooms) # {}
  /\ room_seq < MaxSpawns
  /\ LET s == Least(Slots \ Used(rooms))
     IN /\ rooms' = [rooms EXCEPT ![s] =
                       [NoRoom EXCEPT !.used = TRUE, !.redirected = 1]]
        /\ client' = [d \in Clients |->
             IF d = c
             THEN [pc |-> "parked", slot |-> s, id |-> 0, held |-> {s}]
             ELSE IF client[d].pc = "parked"
             THEN [client[d] EXCEPT !.held = @ \cup {s}]
             ELSE client[d]]
        /\ wpc' = [wpc EXCEPT ![s] = "init"]
        /\ next_id' = [next_id EXCEPT ![s] = IdBase(room_seq)]
        /\ lobby' = [lobby EXCEPT ![s] = FreshLobby]
        /\ m2w' = [m2w EXCEPT ![s] = <<>>]
        /\ w2m' = [w2m EXCEPT ![s] = <<>>]
  /\ room_seq' = room_seq + 1
  /\ UNCHANGED <<players, any_room_started, match_ended, winner_id, master,
                 handshake, conn, global, gameVars, faults, attacks>>

\* Every slot has a live room: the connection is closed
accept_refuse(c) ==
  /\ Serving
  /\ client[c].pc = "idle"
  /\ Filling = {}
  /\ Slots \subseteq Used(rooms)
  /\ client' = [client EXCEPT ![c].pc = "closed"]
  /\ UNCHANGED <<masterVars, m2w, w2m, workerVars, faults, attacks>>

press_enter ==
  /\ Serving
  /\ start_all_rooms(m2w, rooms, players)
  /\ UNCHANGED <<players, room_seq, match_ended, winner_id, master,
                 w2m, workerVars, envVars>>

\* The next message of the hub of slot s
Incoming(s, t) ==
  /\ Serving
  /\ rooms[s].used
  /\ w2m[s] # <<>>
  /\ Head(w2m[s]).type = t
  /\ w2m' = [w2m EXCEPT ![s] = Tail(@)]

handle_readyUnflushed(s) ==
  /\ Incoming(s, "READY")
  /\ rooms' = [rooms EXCEPT ![s].ready = TRUE]
  /\ UNCHANGED <<players, room_seq, any_room_started, match_ended, winner_id,
                 master, m2w, workerVars, envVars>>

handle_ready(s) ==
  /\ Incoming(s, "READY")
  /\ rooms' = [rooms EXCEPT ![s].ready = TRUE]
  /\ client' = [c \in Clients |-> IF c \in Parked(s)
                                  THEN [client[c] EXCEPT !.pc = "redirected",
                                                         !.held = {}]
                                  ELSE client[c]]
  /\ UNCHANGED <<players, room_seq, any_room_started, match_ended, winner_id,
                 master, m2w, workerVars, faults, attacks>>

add_player(ps, rec) ==
  IF Len(ps) < HubMaxPlayers THEN Append(ps, rec) ELSE ps

\* A full table forgets the player but still counts the arrival; at capacity
\* every waiting room starts
handle_joined(s) ==
  /\ Incoming(s, "JOINED")
  /\ LET ps == add_player(players,
                          [id |-> Head(w2m[s]).body, room |-> s, alive |-> TRUE])
         rs == [rooms EXCEPT ![s].joined = @ + 1]
         q  == broadcast_roster(m2w, rs, ps)
     IN /\ players' = ps
        /\ IF Len(ps) >= RoomSize * MaxRooms
           THEN start_all_rooms(q, rs, ps)
           ELSE /\ rooms' = rs
                /\ m2w' = q
                /\ UNCHANGED any_room_started
  /\ UNCHANGED <<room_seq, match_ended, winner_id, master, workerVars, envVars>>

\* The table with the entries in D marked dead
CountOut(ps, D) ==
  [i \in DOMAIN ps |-> IF i \in D THEN [ps[i] EXCEPT !.alive = FALSE] ELSE ps[i]]

Entries(ps, id) == {i \in DOMAIN ps : ps[i].id = id}

handle_eliminatedSilent(s) ==
  /\ Incoming(s, "ELIMINATED")
  /\ players' = CountOut(players, Entries(players, Head(w2m[s]).body))
  /\ check_global_end(m2w, rooms, players')
  /\ UNCHANGED <<rooms, room_seq, any_room_started, master, workerVars, envVars>>

handle_eliminated(s) ==
  /\ Incoming(s, "ELIMINATED")
  /\ LET ps == CountOut(players, Entries(players, Head(w2m[s]).body))
     IN /\ players' = ps
        /\ check_global_end(broadcast_roster(m2w, rooms, ps), rooms, ps)
  /\ UNCHANGED <<rooms, room_seq, any_room_started, master, workerVars, envVars>>

\* Table entries an attack can be routed to; the loop takes the first
Routable(att) == {i \in DOMAIN players : players[i].id = att.to
                                         /\ players[i].alive}

handle_attack(s) ==
  /\ Incoming(s, "ATTACK")
  /\ LET att == Head(w2m[s]).body
         R   == Routable(att)
         T   == IF R = {} THEN {} ELSE {players[Least(R)].room}
     IN m2w' = HubSend(m2w, T \cap Running(rooms), Msg("GARBAGE", att))
  /\ UNCHANGED <<masterVars, workerVars, envVars>>

handle_feed(s) ==
  /\ Incoming(s, "FEED")
  /\ m2w' = HubSend(m2w, Running(rooms) \ {s}, Head(w2m[s]))
  /\ UNCHANGED <<masterVars, workerVars, envVars>>

\* The living players a closing room takes with it
LostWithEverywhere(s) == {i \in DOMAIN players : players[i].alive}

LostWith(s) == {i \in DOMAIN players : players[i].room = s /\ players[i].alive}

\* close_room: free the slot, close what was parked (the person notices once no
\* process holds the connection), and unless the match is decided count the
\* room's players out
CloseRoom(s) ==
  LET rs == [rooms EXCEPT ![s].used = FALSE]
      ps == CountOut(players, LostWith(s))
  IN /\ rooms' = rs
     /\ client' = [c \in Clients |->
          IF c \in Parked(s)
          THEN [client[c] EXCEPT !.pc = IF client[c].held = {} THEN "closed"
                                                               ELSE "abandoned"]
          ELSE client[c]]
     /\ IF match_ended \/ LostWith(s) = {}
        THEN UNCHANGED <<players, m2w, match_ended, winner_id>>
        ELSE /\ players' = ps
             /\ check_global_end(broadcast_roster(m2w, rs, ps), rs, ps)
     /\ UNCHANGED <<room_seq, any_room_started, faults, attacks>>

\* hub_recv reports the end of the hub once everything sent before is read
hub_closed(s) ==
  /\ Serving
  /\ rooms[s].used
  /\ wpc[s] = "gone"
  /\ w2m[s] = <<>>
  /\ CloseRoom(s)
  /\ UNCHANGED <<master, w2m, workerVars>>

loop_exit ==
  /\ master = "run"
  /\ ExitDue
  /\ master' = "exited"
  /\ UNCHANGED <<rooms, players, room_seq, any_room_started, match_ended,
                 winner_id, m2w, w2m, workerVars, envVars>>

on_sigint ==
  /\ Interrupts
  /\ Serving
  /\ master' = "stopping"
  /\ UNCHANGED <<rooms, players, room_seq, any_room_started, match_ended,
                 winner_id, m2w, w2m, workerVars, envVars>>

\* The shutdown loop closes the open rooms in slot order, then exits
shutdown ==
  /\ master = "stopping"
  /\ IF Used(rooms) = {}
     THEN /\ master' = "exited"
          /\ UNCHANGED <<rooms, players, room_seq, any_room_started, m2w,
                         match_ended, winner_id, envVars>>
     ELSE /\ CloseRoom(Least(Used(rooms)))
          /\ UNCHANGED master
  /\ UNCHANGED <<w2m, workerVars>>

\* The kernel resets a socket that is closed with unread messages in it: the
\* worker then gets an error and never reads what the master had sent
hub_reset(s) ==
  /\ ~rooms[s].used
  /\ Live(s)
  /\ w2m[s] # <<>>
  /\ m2w[s] # <<>>
  /\ m2w' = [m2w EXCEPT ![s] = <<>>]
  /\ UNCHANGED <<masterVars, w2m, workerVars, envVars>>

-----------------------------------------------------------------------------
(* The workers: start-up and lobby *)

\* The end of the hub, as the worker sees it: drained and the master is gone
Eof(s) == ~rooms[s].used

\* The connections inherited by the worker of slot s are closed with it
HungUp(s) ==
  [c \in Clients |->
     IF s \in client[c].held
     THEN [client[c] EXCEPT
             !.held = @ \ {s},
             !.pc = IF @ = "abandoned" /\ client[c].held = {s} THEN "closed" ELSE @]
     ELSE client[c]]

\* The process of slot s is gone; its locals die with it.  Unread messages in its end
\* reset the hub, and then the master reads nothing of what was still in flight.
Vanish(s) ==
  /\ wpc' = [wpc EXCEPT ![s] = "gone"]
  /\ m2w' = [m2w EXCEPT ![s] = <<>>]
  /\ w2m' \in {w2m} \cup
       (IF m2w[s] = <<>> THEN {} ELSE {[w2m EXCEPT ![s] = <<>>]})
  /\ next_id' = [next_id EXCEPT ![s] = 0]
  /\ handshake' = [handshake EXCEPT ![s] = 0]
  /\ conn' = [conn EXCEPT ![s] = <<>>]
  /\ lobby' = [lobby EXCEPT ![s] = FreshLobby]
  /\ global' = [global EXCEPT ![s] = <<>>]
  /\ session' = [session EXCEPT ![s] = <<>>]
  /\ outcome' = [outcome EXCEPT ![s] = 0]
  /\ client' = HungUp(s)
  /\ UNCHANGED <<feed, hits>>

\* brserver_init_room and brserver_open succeeded: the port is bound
bind_port(s) ==
  /\ wpc[s] = "init"
  /\ wpc' = [wpc EXCEPT ![s] = "poll"]
  /\ Report(s, <<Msg("READY", 0)>>)
  /\ UNCHANGED <<masterVars, m2w, serverVars, lobby, global, gameVars, envVars>>

\* The worker dies: a failed bind or brserver_start (exit(1)), or a crash at
\* any point
crash(s) ==
  /\ faults < MaxFaults
  /\ Live(s)
  /\ faults' = faults + 1
  /\ Vanish(s)
  /\ UNCHANGED <<masterVars, attacks>>

\* The BRServer is in its LOBBY state: the worker has not called brserver_start
Accepting(s) == wpc[s] \in {"poll", "drain"}

\* The lobby thread accepts a redirected client and assigns its id; it serves
\* one handshake at a time
lobby_accept(s, c) ==
  /\ Accepting(s)
  /\ handshake[s] = 0
  /\ client[c].pc = "redirected"
  /\ client[c].slot = s
  /\ client' = [client EXCEPT ![c].pc = "connected", ![c].id = next_id[s]]
  /\ handshake' = [handshake EXCEPT ![s] = next_id[s]]
  /\ next_id' = [next_id EXCEPT ![s] = @ + 1]
  /\ UNCHANGED <<masterVars, m2w, w2m, wpc, conn, lobby, global, gameVars,
                 faults, attacks>>

\* The session key arrived: the client enters the list.  The thread finishes
\* this even if the worker has called brserver_start in the meantime.
handshake_done(s) ==
  /\ handshake[s] # 0
  /\ conn' = [conn EXCEPT ![s] = Append(@, handshake[s])]
  /\ handshake' = [handshake EXCEPT ![s] = 0]
  /\ UNCHANGED <<masterVars, m2w, w2m, wpc, next_id, lobby, global, gameVars,
                 envVars>>

\* The client dropped in the middle of the handshake: its id is spent
handshake_fail(s) ==
  /\ handshake[s] # 0
  /\ faults < MaxFaults
  /\ faults' = faults + 1
  /\ handshake' = [handshake EXCEPT ![s] = 0]
  /\ UNCHANGED <<masterVars, m2w, w2m, wpc, next_id, conn, lobby, global,
                 gameVars, client, attacks>>

\* First half of a lobby pass: read the client list, report the new arrivals
lobby_poll(s) ==
  /\ wpc[s] = "poll"
  /\ LET n == Len(conn[s])
         r == lobby[s].reported
     IN /\ Report(s, [i \in 1..(n - r) |-> Msg("JOINED", conn[s][r + i])])
        /\ lobby' = [lobby EXCEPT ![s].size = n, ![s].reported = n]
  /\ wpc' = [wpc EXCEPT ![s] = "drain"]
  /\ UNCHANGED <<masterVars, m2w, serverVars, global, gameVars, envVars>>

OfType(q, t) == {i \in DOMAIN q : q[i].type = t}

\* The body of the last message of type t in q, or the default
LastOf(q, t, default) ==
  LET I == OfType(q, t)
  IN IF I = {} THEN default
     ELSE q[CHOOSE i \in I : \A j \in I : j <= i].body

\* What the lobby makes of the hub messages: only HUB_START and HUB_ROSTER are
\* looked at, anything else is dropped
Drained(s) ==
  [lobby[s] EXCEPT
     !.start_ordered = @ \/ OfType(m2w[s], "START") # {},
     !.expected = LastOf(m2w[s], "START", @)]

\* Second half of a lobby pass, without a start: next pass in 100 ms
lobby_drain(s) ==
  /\ wpc[s] = "drain"
  /\ ~Eof(s)
  /\ ~(Drained(s).start_ordered /\ Drained(s).size >= Drained(s).expected)
  /\ lobby' = [lobby EXCEPT ![s] = Drained(s)]
  /\ global' = [global EXCEPT ![s] = LastOf(m2w[s], "ROSTER", @)]
  /\ m2w' = [m2w EXCEPT ![s] = <<>>]
  /\ wpc' = [wpc EXCEPT ![s] = "poll"]
  /\ UNCHANGED <<masterVars, w2m, serverVars, gameVars, envVars>>

lobby_eof(s) ==
  /\ wpc[s] = "drain"
  /\ Eof(s)
  /\ Vanish(s)
  /\ UNCHANGED <<masterVars, faults, attacks>>

\* Second half of a lobby pass that leaves the lobby: everyone expected is
\* here, or the grace period is over (it may be over at any pass).  The boards
\* are built from the list read in the first half.
lobby_start(s) ==
  /\ wpc[s] = "drain"
  /\ ~Eof(s)
  /\ Drained(s).start_ordered
  /\ lobby[s].size > 0
  /\ lobby' = [lobby EXCEPT ![s] = Drained(s)]
  /\ global' = [global EXCEPT ![s] = LastOf(m2w[s], "ROSTER", @)]
  /\ m2w' = [m2w EXCEPT ![s] = <<>>]
  /\ session' = [session EXCEPT ![s] =
       [i \in 1..lobby[s].size |->
          [id |-> conn[s][i], state |-> "alive"]]]
  /\ wpc' = [wpc EXCEPT ![s] = "run"]
  /\ UNCHANGED <<masterVars, w2m, serverVars, outcome, feed, hits, envVars>>

-----------------------------------------------------------------------------
(* The workers: the match *)

\* Slots of the session whose game is still on
Playing(ss) == {i \in DOMAIN ss : ss[i].state = "alive"}

\* find_player: a player who quit is not found, one who topped out is
Found(ss, id) == {i \in DOMAIN ss : ss[i].id = id /\ ss[i].state # "quit"}

\* apply_remote_garbage: ignored unless the victim's game is still on
Lands(ss, att) == \E i \in Playing(ss) : ss[i].id = att.to

FromHub(s, t, n) == {i \in OfType(m2w[s], t) : m2w[s][i].body.n = n}
HubHitsFeed(s, ss, n) ==
  {i \in FromHub(s, "GARBAGE", n) \cup FromHub(s, "FEED", n) :
     Lands(ss, m2w[s][i].body)}

HubHits(s, ss, n) == {i \in FromHub(s, "GARBAGE", n) : Lands(ss, m2w[s][i].body)}

\* Drain the hub into the boards of session ss and the kill feed; shown and hit
\* are the attacks the tick itself adds to them
DrainHub(s, ss, shown, hit) ==
  /\ feed' = [feed EXCEPT ![s] = [n \in DOMAIN @ |->
       @[n] + Cardinality(HubHits(s, ss, n) \cup FromHub(s, "FEED", n))
            + (IF n \in shown THEN 1 ELSE 0)]]
  /\ hits' = [hits EXCEPT ![s] = [n \in DOMAIN @ |->
       @[n] + Cardinality(HubHits(s, ss, n)) + (IF n \in hit THEN 1 ELSE 0)]]
  /\ global' = [global EXCEPT ![s] = LastOf(m2w[s], "ROSTER", @)]
  /\ m2w' = [m2w EXCEPT ![s] = <<>>]

\* The session after slot d has topped out or quit (nobody if d = 0)
After(s, d, how) ==
  IF d = 0 THEN session[s] ELSE [session[s] EXCEPT ![d].state = how]

\* Everyone who is still there is marked finished when the room is over
Finished(ss) ==
  [i \in DOMAIN ss |-> IF ss[i].state = "alive"
                       THEN [ss[i] EXCEPT !.state = "topped"] ELSE ss[i]]

tick_overEofOnly(s) ==
  /\ wpc[s] = "run"
  /\ Eof(s)
  /\ \E d \in {0} \cup Playing(session[s]), how \in {"topped", "quit"} :
       /\ session' = [session EXCEPT ![s] = Finished(After(s, d, how))]
       /\ DrainHub(s, After(s, d, how), {}, {})
  /\ outcome' = [outcome EXCEPT ![s] = LastOf(m2w[s], "GAMEOVER", 0)]
  /\ wpc' = [wpc EXCEPT ![s] = "over"]
  /\ UNCHANGED <<masterVars, w2m, serverVars, lobby, envVars>>

\* A tick that finds HUB_GAMEOVER or the end of the hub, after the inputs: the
\* room ends with the winner it was told, marks everyone finished and reports
\* nothing any more
tick_over(s) ==
  /\ wpc[s] = "run"
  /\ OfType(m2w[s], "GAMEOVER") # {} \/ Eof(s)
  /\ \E d \in {0} \cup Playing(session[s]), how \in {"topped", "quit"} :
       /\ session' = [session EXCEPT ![s] = Finished(After(s, d, how))]
       /\ DrainHub(s, After(s, d, how), {}, {})
  /\ outcome' = [outcome EXCEPT ![s] = LastOf(m2w[s], "GAMEOVER", 0)]
  /\ wpc' = [wpc EXCEPT ![s] = "over"]
  /\ UNCHANGED <<masterVars, w2m, serverVars, lobby, envVars>>

TickGoesOn(s) == wpc[s] = "run" /\ OfType(m2w[s], "GAMEOVER") = {} /\ ~Eof(s)

\* resolve_victim: with the global roster any living player (random) or the
\* last attacker (KO); otherwise the target locked in the room's own roster,
\* which may be dead by now
Victims(s, attacker) ==
  LET view == LastOf(m2w[s], "ROSTER", global[s])
  IN ({view[i].id : i \in {j \in DOMAIN view : view[j].alive}}
      \cup {session[s][i].id : i \in DOMAIN session[s]}) \ {attacker}

EliminatedSlot(s, d) ==
  IF d = 0 THEN <<>> ELSE <<Msg("ELIMINATED", d)>>

Eliminated(s, d) ==
  IF d = 0 THEN <<>> ELSE <<Msg("ELIMINATED", session[s][d].id)>>

\* The session as the hub messages find it.  Inputs come before them (a player
\* quits or tops out with a hard drop), gravity after.
DrainedInto(s, d, how) ==
  {After(s, d, how)} \cup (IF how = "topped" THEN {session[s]} ELSE {})

\* A tick without garbage.  At most one game ends per tick here: several in
\* one tick send the same messages as several ticks with nothing to drain.
tick(s) ==
  /\ TickGoesOn(s)
  /\ \E d \in {0} \cup Playing(session[s]), how \in {"topped", "quit"} :
       /\ session' = [session EXCEPT ![s] = After(s, d, how)]
       /\ Report(s, Eliminated(s, d))
       /\ \E ss \in DrainedInto(s, d, how) : DrainHub(s, ss, {}, {})
  /\ UNCHANGED <<masterVars, wpc, serverVars, lobby, outcome, envVars>>

\* A tick in which slot a's board produced garbage (a may top out with the same
\* move), routed after the eliminations are reported
tick_attack(s) ==
  /\ TickGoesOn(s)
  /\ attacks < MaxAttacks
  /\ attacks' = attacks + 1
  /\ \E d \in {0} \cup Playing(session[s]), how \in {"topped", "quit"},
        a \in Playing(session[s]) :
     \E v \in Victims(s, session[s][a].id), at \in DrainedInto(s, d, how) :
       LET ss    == After(s, d, how)
           n     == attacks + 1
           att   == [n |-> n, from |-> session[s][a].id, to |-> v]
           V     == Found(ss, v)
           local == V # {} /\ \E i \in V : ss[i].state = "alive"
       IN /\ session' = [session EXCEPT ![s] = ss]
          /\ \/ /\ local
                /\ DrainHub(s, at, {n}, {n})
                /\ Report(s, Eliminated(s, d) \o <<Msg("FEED", att)>>)
             \/ /\ V = {}
                /\ DrainHub(s, at, {n}, {})
                /\ Report(s, Eliminated(s, d)
                             \o <<Msg("ATTACK", att), Msg("FEED", att)>>)
             \/ /\ V # {}
                /\ ~local
                /\ DrainHub(s, at, {}, {})
                /\ Report(s, Eliminated(s, d))
  /\ UNCHANGED <<masterVars, wpc, serverVars, lobby, outcome, client, faults>>

\* The final states are pushed, the sockets closed, the process exits
room_exit(s) ==
  /\ wpc[s] = "over"
  /\ Vanish(s)
  /\ UNCHANGED <<masterVars, faults, attacks>>

\* The room a client was sent to does not listen (any more)
connect_refused(c) ==
  /\ client[c].pc = "redirected"
  /\ wpc[client[c].slot] \in {"none", "init", "gone"}
  /\ client' = [client EXCEPT ![c].pc = "closed"]
  /\ UNCHANGED <<masterVars, m2w, w2m, workerVars, faults, attacks>>

-----------------------------------------------------------------------------

Init ==
  /\ rooms = [s \in Slots |-> NoRoom]
  /\ players = <<>>
  /\ room_seq = 0
  /\ any_room_started = FALSE
  /\ match_ended = FALSE
  /\ winner_id = 0
  /\ master = "run"
  /\ m2w = [s \in Slots |-> <<>>]
  /\ w2m = [s \in Slots |-> <<>>]
  /\ wpc = [s \in Slots |-> "none"]
  /\ next_id = [s \in Slots |-> 0]
  /\ handshake = [s \in Slots |-> 0]
  /\ conn = [s \in Slots |-> <<>>]
  /\ lobby = [s \in Slots |-> FreshLobby]
  /\ global = [s \in Slots |-> <<>>]
  /\ session = [s \in Slots |-> <<>>]
  /\ outcome = [s \in Slots |-> 0]
  /\ feed = [s \in Slots |-> [n \in 1..MaxAttacks |-> 0]]
  /\ hits = [s \in Slots |-> [n \in 1..MaxAttacks |-> 0]]
  /\ client = [c \in Clients |-> Idle]
  /\ faults = 0
  /\ attacks = 0

MasterHandles(s) ==
  \/ handle_ready(s)
  \/ handle_joined(s)
  \/ handle_eliminated(s)
  \/ handle_attack(s)
  \/ handle_feed(s)
  \/ hub_closed(s)

WorkerSteps(s) ==
  \/ bind_port(s)
  \/ lobby_poll(s)
  \/ lobby_drain(s)
  \/ lobby_start(s)
  \/ lobby_eof(s)
  \/ tick(s)
  \/ tick_over(s)
  \/ room_exit(s)

Next ==
  \/ \E c \in Clients : accept_client(c) \/ accept_spawn(c) \/ accept_refuse(c)
                        \/ connect_refused(c)
  \/ press_enter
  \/ on_sigint
  \/ loop_exit
  \/ shutdown
  \/ \E s \in Slots : MasterHandles(s) \/ WorkerSteps(s)
  \/ \E s \in Slots : \/ tick_attack(s)
                      \/ crash(s)
                      \/ hub_reset(s)
                      \/ handshake_done(s)
                      \/ handshake_fail(s)
                      \/ \E c \in Clients : lobby_accept(s, c)

Spec == Init /\ [][Next]_vars

-----------------------------------------------------------------------------
(* Types *)

RosterEntry == [id : Nat, alive : BOOLEAN]
Attack == [n : Nat, from : Nat, to : Nat]

ToWorker == [type : {"START", "GAMEOVER"}, body : Nat]
            \cup [type : {"ROSTER"}, body : Seq(RosterEntry)]
            \cup [type : {"GARBAGE", "FEED"}, body : Attack]
ToMaster == [type : {"READY", "JOINED", "ELIMINATED"}, body : Nat]
            \cup [type : {"ATTACK", "FEED"}, body : Attack]

RoomRec == [used : BOOLEAN, ready : BOOLEAN, started : BOOLEAN,
            redirected : 0..MaxLobby, joined : Nat]
PlayerRec == [id : Nat, room : Slots, alive : BOOLEAN]
WorkerPc == {"none", "init", "poll", "drain", "run", "over", "gone"}
LobbyRec == [size : Nat, reported : Nat, start_ordered : BOOLEAN, expected : Nat]
PlayerSlot == [id : Nat, state : {"alive", "topped", "quit"}]
ClientRec == [pc : {"idle", "parked", "redirected", "connected", "closed",
                    "abandoned"},
              slot : Slots, id : Nat, held : SUBSET Slots]

\* Every variable has the type of the C object it stands for, the player table stays
\* inside players[HUB_MAX_PLAYERS] although it is never shortened, and no room is
\* dealt more people than client_ids[] and pending_fds[] have places for
TypeOK ==
  /\ rooms \in [Slots -> RoomRec]
  /\ players \in Seq(PlayerRec)
  /\ Len(players) <= HubMaxPlayers
  /\ room_seq \in Nat
  /\ any_room_started \in BOOLEAN
  /\ match_ended \in BOOLEAN
  /\ winner_id \in Nat
  /\ master \in {"run", "stopping", "exited"}
  /\ m2w \in [Slots -> Seq(ToWorker)]
  /\ w2m \in [Slots -> Seq(ToMaster)]
  /\ wpc \in [Slots -> WorkerPc]
  /\ next_id \in [Slots -> Nat]
  /\ handshake \in [Slots -> Nat]
  /\ conn \in [Slots -> Seq(Nat)]
  /\ lobby \in [Slots -> LobbyRec]
  /\ global \in [Slots -> Seq(RosterEntry)]
  /\ session \in [Slots -> Seq(PlayerSlot)]
  /\ outcome \in [Slots -> Nat]
  /\ feed \in [Slots -> [1..MaxAttacks -> Nat]]
  /\ hits \in [Slots -> [1..MaxAttacks -> Nat]]
  /\ client \in [Clients -> ClientRec]
  /\ faults \in Nat
  /\ attacks \in Nat

-----------------------------------------------------------------------------
(* Safety *)

\* Once a running room has read its hub, its copy of the global roster is the
\* master's table: a join, an elimination or a crash that start_room,
\* handle_hub_msg or close_room forgets to broadcast leaves a room aiming at
\* the dead, or blind to a newcomer
RosterCurrent ==
  \A s \in Running(rooms) :
    Live(s) => LastOf(m2w[s], "ROSTER", global[s]) = Roster(players)

\* The match has one outcome.  Every HUB_GAMEOVER on its way, and every room
\* that ended because of one, carries the winner the master announced, although
\* eliminations and closing rooms keep reaching check_global_end afterwards
OneOutcome ==
  \A s \in Slots :
    /\ \A i \in OfType(m2w[s], "GAMEOVER") :
         match_ended /\ m2w[s][i].body = winner_id
    /\ outcome[s] # 0 => match_ended /\ outcome[s] = winner_id

\* Nobody is counted out while still in the game: a player the master's table
\* has as dead is neither waiting in a lobby nor playing in any room, whatever
\* slot was freed and reused in between (until Ctrl-C, which closes all rooms)
NoFalseDeath ==
  \A i \in DOMAIN players : ~players[i].alive /\ master = "run" =>
    \A s \in Slots :
      /\ \A j \in Playing(session[s]) : session[s][j].id # players[i].id
      /\ Accepting(s) => \A j \in DOMAIN conn[s] : conn[s][j] # players[i].id

\* No elimination is lost: if a player's game is over in a playing room, the
\* table says so or the report is still in the hub
EliminationNotLost ==
  \A s \in Slots : wpc[s] = "run" =>
    \A j \in DOMAIN session[s] \ Playing(session[s]) :
      LET id == session[s][j].id
      IN \/ Msg("ELIMINATED", id) \in {w2m[s][i] : i \in DOMAIN w2m[s]}
         \/ \A i \in DOMAIN players : players[i].id = id => ~players[i].alive
         \/ ~rooms[s].used

\* A start order only reaches a room whose lobby has already reported someone,
\* so the worker never gets to "Failed to start game" with an empty lobby
NoEmptyMatch ==
  \A s \in Slots :
    Accepting(s) /\ Drained(s).start_ordered => lobby[s].reported >= 1

\* "A forever-growing base keeps ids unique even when slots are reused"
\* (tetrisd/main.c:143): no two people ever hold the same player id.  It is not
\* so when a client of a closed room comes late to its successor on the same port
IdsUnique ==
  \A c, d \in Clients : c # d /\ client[c].id # 0 => client[c].id # client[d].id

\* An attack puts garbage on at most one board, although it travels both as
\* HUB_ATTACK / HUB_GARBAGE and as HUB_FEED
GarbageLandsOnce ==
  \A n \in 1..MaxAttacks :
    LET Hit == {s \in Slots : hits[s][n] > 0}
    IN Cardinality(Hit) <= 1 /\ \A s \in Hit : hits[s][n] = 1

-----------------------------------------------------------------------------
(* Steps *)

\* A client is given the port of a room only when the room's worker has bound
\* it: the redirect never races the worker's start-up
RedirectAfterBind ==
  [][\A c \in Clients :
       client[c].pc # "redirected" /\ client'[c].pc = "redirected"
         => wpc[client'[c].slot] \notin {"none", "init"}]_vars

-----------------------------------------------------------------------------
(* Progress.  The master serves every hub in each pass of its loop, a worker   *)
(* passes through its lobby or tick loop for ever, and the grace period ends:  *)
(* these steps are fair.  Nothing is assumed of people, of handshakes, of      *)
(* games ever ending, or of crashes.                                           *)

Fairness ==
  /\ WF_vars(loop_exit)
  /\ WF_vars(shutdown)
  /\ \A s \in Slots :
       /\ WF_vars(MasterHandles(s))
       /\ WF_vars(WorkerSteps(s))
       /\ SF_vars(lobby_start(s))

FairSpec == Spec /\ Fairness

\* The master does not forget a parked connection (main.c:213-217, 349): it sends
\* it on once the worker is ready, or drops it when the worker dies first
ParkedIsSettled ==
  \A c \in Clients : client[c].pc = "parked" ~> client[c].pc # "parked"

\* A room that is playing when the master announces the end stops playing
GameOverStopsRoom ==
  \A s \in Slots :
    (wpc[s] = "run" /\ OfType(m2w[s], "GAMEOVER") # {}) ~> wpc[s] = "gone"

\* "The daemon's job is done once a match ran and every room wound down"
\* (main.c:522): once the match is decided every room does, and the daemon exits.
\* It is not so when a room gets HUB_GAMEOVER in its lobby
DaemonStops == match_ended ~> master = "exited"

InGame == \E s \in Slots : Playing(session[s]) # {}


\* The room is on its way out, or the end of the match is in its hub
KnowsEnd(s) == wpc[s] \in {"over", "gone"} \/ OfType(m2w[s], "GAMEOVER") # {}

Gathering == \E s \in Used(rooms) : wpc[s] = "init" \/ Accepting(s)

\* Once every open room has been told the outcome, and none is still gathering
\* players, the daemon exits, unless somebody who comes now opens another room
ToldDaemonStops ==
  (match_ended /\ any_room_started /\ ~Gathering /\ \A s \in Used(rooms) : KnowsEnd(s))
    ~> (master = "exited" \/ Gathering)

=============================================================================
