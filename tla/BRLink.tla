------------------------------- MODULE BRLink -------------------------------
(***************************************************************************)
(* libbattleroyale: one server process (an application thread and the      *)
(* library's background thread) and its clients (each an application       *)
(* thread and a background thread), from the handshake to MSG_END.         *)
(*                                                                         *)
(* The two threads of the server write to the same TCP sockets without a   *)
(* lock, and a frame is written in several calls: a stream to a client is  *)
(* therefore a sequence of half frames, the 12 bytes of the header and the *)
(* 2048 of the content.  All other writers are alone on their socket.      *)
(*                                                                         *)
(* Cryptography is symbolic: a session key is named after the client that  *)
(* drew it, a ciphertext opens only with its key, a signature is the text  *)
(* that was signed.  Allocation, socket creation and the OpenSSL calls are *)
(* taken not to fail.                                                      *)
(***************************************************************************)
EXTENDS Integers, Sequences, FiniteSets, FiniteSetsExt

CONSTANTS
  Clients,     \* the processes that join this server
  MaxSize,     \* the capacity of a Message queue
  MaxSend,     \* bound: messages the clients send, by TCP or UDP
  MaxPush,     \* bound: messages the server's application sends
  MaxFaults    \* bound: clients that leave, zero bytes in a nonce, lost datagrams

ASSUME LinkAssumption ==
  /\ MaxSize \in Nat \ {0}
  /\ {MaxSend, MaxPush, MaxFaults} \subseteq Nat

NoKey == "no key"
Garbled == [tag |-> "garbled", via |-> "tcp"]

Q == INSTANCE BoundedQueue WITH Items <- {}, Zeroed <- Garbled

VARIABLES
  state,      \* server->self->state
  thread,     \* the server's background thread: where it is and with whom
  clients,    \* server->clients, in the order of the list
  next_id,    \* server->next_id
  backlog,    \* connections not yet accepted
  polled,     \* the clients whose descriptor is still in listen_fd_tcp
  server_messages,
  app,        \* the server's application thread
  up,         \* client -> server, TCP: the frames in flight
  down,       \* server -> client, TCP: the half frames in flight
  udp,        \* datagrams on their way to the server
  casts,      \* datagrams broadcast to the clients and not yet read
  peer,       \* the client processes
  client_messages,
  faults,
  sent,       \* history: messages sent by TCP and by UDP, per client
  pushed,     \* history: messages of the application written to a client, by TCP
  early,      \* history: clients the application wrote to before MSG_START was out
  taken,      \* history: what the server's application was given
  shown,      \* history: what a client's application was given
  refused     \* history: messages a full queue refused, per client

serverVars == <<state, thread, clients, next_id, polled>>
netVars == <<backlog, up, down, udp, casts>>
history == <<sent, pushed, early, taken, shown, refused>>
vars == <<serverVars, netVars, server_messages, app, peer, client_messages,
          faults, history>>

-----------------------------------------------------------------------------
(* crypto.c *)

session_encrypt(key, plain) == [tag |-> "token", key |-> key, plain |-> plain]

\* HMAC first: a token of another key, or no token at all, does not open
Opens(key, m) == m.content.tag = "token" /\ m.content.key = key

sign_message_pss(text) == [tag |-> "signature", text |-> text]

verify_message_pss(sig, text) == sig.tag = "signature" /\ sig.text = text

rsa_encrypt_block(key) == [tag |-> "wrapped", key |-> key]
rsa_decrypt_block(x) == x.key

-----------------------------------------------------------------------------
(* message.c *)

Message(type, source, content) ==
  [type |-> type, source_id |-> source, content |-> content]

Nothing == [tag |-> "empty"]
Plain(p) == [tag |-> "plain", plain |-> p]

\* The payload of the n-th message of the server's application, by TCP or UDP
Push(n) == [via |-> "tcp", push |-> n]
Cast(n) == [via |-> "udp", push |-> n]

Half(part, m) == [part |-> part, msg |-> m]
send_message_tcp(m) == <<Half("head", m), Half("body", m)>>
IdWord(id) == Half("id", Message("none", id, Nothing))

\* receive_message_tcp blocks until 12 + 2048 bytes are there
Complete(s) == Len(s) >= 2 /\ (s[2].part = "head" => Len(s) >= 3)

\* Two halves make a frame.  After a header that was overtaken by another the
\* content is shifted by 12 bytes, and the next frame starts in the zeros at
\* the end of a content: type 0, MSG_CERT
receive_message_tcp(s) ==
  IF s[1].part = "body" THEN Message("CERT", 0, Garbled)
  ELSE IF s[2].part = "body" THEN s[1].msg
  ELSE [s[1].msg EXCEPT !.content = Garbled]

RestOfHeader(s) == SubSeq(s, 2, Len(s))

Rest(s) == SubSeq(s, 3, Len(s))

\* What decryption and the two listeners make of an application message
Accepted(key, m) ==
  \/ m.type = "APP"
  \/ m.type = "APP_ENC" /\ Opens(key, m)

Payload(m) == IF m.content.tag = "garbled" THEN m.content ELSE m.content.plain

-----------------------------------------------------------------------------
(* clientll.c *)

add_to_list(list, client) == Append(list, client)

Listed(id) == {k \in 1..Len(clients) : clients[k].id = id}
get_from_list(id) == clients[CHOOSE k \in Listed(id) : \A j \in Listed(id) : k <= j]

Members == {clients[k].who : k \in 1..Len(clients)}

-----------------------------------------------------------------------------
(* Processes *)

Running(c) == peer[c].at \notin {"out", "gone"}
At(where) == thread.at = where
Idle == [at |-> "free", turn |-> 1, half |-> "head", to |-> {}, n |-> 0]

\* The process ends and the kernel closes its socket
Exit(p) == [p EXCEPT !.at = "gone"]

Init ==
  /\ state = "IDLE"
  /\ thread = [at |-> "idle", who |-> "nobody", id |-> 0, turn |-> 1, half |-> "head"]
  /\ clients = << >>
  /\ next_id = 1
  /\ polled = {}
  /\ backlog = << >>
  /\ up = [c \in Clients |-> << >>]
  /\ down = [c \in Clients |-> << >>]
  /\ udp = {}
  /\ casts = [c \in Clients |-> {}]
  /\ server_messages = Q!queue_init
  /\ app = Idle
  /\ peer = [c \in Clients |-> [at |-> "out", state |-> "IDLE", id |-> 0,
                                nonce |-> "clean", sesskey |-> NoKey, polls |-> TRUE]]
  /\ client_messages = [c \in Clients |-> Q!queue_init]
  /\ faults = 0
  /\ sent = [c \in Clients |-> [tcp |-> 0, udp |-> 0]]
  /\ pushed = [c \in Clients |-> << >>]
  /\ early = {}
  /\ taken = << >>
  /\ shown = [c \in Clients |-> << >>]
  /\ refused = [c \in Clients |-> [up |-> 0, down |-> 0]]

-----------------------------------------------------------------------------
(* brclient_join, in the client's application thread *)

\* The redirect has been followed: the room's port takes the connection
connect_on_tcp(c) ==
  /\ peer[c].at = "out"
  /\ app.at # "exited"
  /\ backlog' = Append(backlog, c)
  /\ peer' = [peer EXCEPT ![c].at = "cert"]
  /\ UNCHANGED <<serverVars, up, down, udp, casts, server_messages, app, client_messages,
                 faults, history>>

\* snprintf copies the nonce up to its first zero byte; what follows in the
\* buffer is the certificate that was received into it
NonceText(nonce) == IF nonce = "has zero" THEN "cut nonce" ELSE nonce

\* The id, the certificate, and the nonce that answers it
join_nonce(c) ==
  /\ peer[c].at = "cert"
  /\ Len(down[c]) >= 3
  /\ LET s == Tail(down[c])
         m == receive_message_tcp(s)
     IN  /\ m.type = "CERT"
         /\ \E nonce \in {"clean", "has zero"} :
              /\ nonce = "has zero" => faults < MaxFaults
              /\ faults' = faults + (IF nonce = "clean" THEN 0 ELSE 1)
              /\ peer' = [peer EXCEPT ![c].at = "auth", ![c].nonce = nonce,
                                      ![c].id = Head(down[c]).msg.source_id]
              /\ up' = [up EXCEPT ![c] = Append(@,
                   Message("AUTH", Head(down[c]).msg.source_id,
                           [tag |-> "text", text |-> NonceText(nonce)]))]
         /\ down' = [down EXCEPT ![c] = Rest(s)]
  /\ UNCHANGED <<serverVars, backlog, udp, casts, server_messages, app, client_messages, history>>

KeyWithoutCheck(c) ==
  /\ peer[c].at = "auth"
  /\ Complete(down[c])
  /\ down' = [down EXCEPT ![c] = Rest(@)]
  /\ peer' = [peer EXCEPT ![c].at = "joined", ![c].sesskey = c]
  /\ up' = [up EXCEPT ![c] = Append(@, Message("KEY", peer[c].id, rsa_encrypt_block(c)))]
  /\ UNCHANGED <<serverVars, backlog, udp, casts, server_messages, app, client_messages,
                 faults, history>>

\* The signed nonce; a signature that does not verify ends the client
join_key(c) ==
  /\ peer[c].at = "auth"
  /\ Complete(down[c])
  /\ LET m == receive_message_tcp(down[c])
     IN  IF m.type = "AUTH" /\ verify_message_pss(m.content, peer[c].nonce)
         THEN /\ peer' = [peer EXCEPT ![c].at = "joined", ![c].sesskey = c]
              /\ up' = [up EXCEPT ![c] =
                   Append(@, Message("KEY", peer[c].id, rsa_encrypt_block(c)))]
         ELSE /\ peer' = [peer EXCEPT ![c] = IF m.type = "AUTH" THEN Exit(@) ELSE @]
              /\ UNCHANGED up
  /\ down' = [down EXCEPT ![c] = Rest(@)]
  /\ UNCHANGED <<serverVars, backlog, udp, casts, server_messages, app, client_messages,
                 faults, history>>

\* The UDP sockets are ready: the background thread leaves its busy wait
join_lobby(c) ==
  /\ peer[c].at = "joined"
  /\ peer[c].state = "IDLE"
  /\ peer' = [peer EXCEPT ![c].state = "LOBBY"]
  /\ UNCHANGED <<serverVars, netVars, server_messages, app, client_messages,
                 faults, history>>

\* A receive that fails leaves the message as it was: the second loop of the
\* join ends on the client's own MSG_AUTH, which is no signature; the first
\* reads a type that was never written, and may also spin
join_fails(c) ==
  /\ peer[c].at \in {"cert", "auth"}
  /\ app.at = "exited"
  /\ ~Complete(down[c])
  /\ peer' = [peer EXCEPT ![c] = Exit(@)]
  /\ UNCHANGED <<serverVars, netVars, server_messages, app, client_messages,
                 faults, history>>

-----------------------------------------------------------------------------
(* The client's background thread *)

\* In the lobby everything but MSG_START is thrown away
client_lobby_state(c) ==
  /\ Running(c)
  /\ peer[c].state = "LOBBY"
  /\ Complete(down[c])
  /\ peer' = [peer EXCEPT ![c].state =
                IF receive_message_tcp(down[c]).type = "START" THEN "GAME" ELSE @]
  /\ down' = [down EXCEPT ![c] = Rest(@)]
  /\ UNCHANGED <<serverVars, backlog, up, udp, casts, server_messages, app, client_messages,
                 faults, history>>

client_game_state(c) ==
  /\ Running(c)
  /\ peer[c].state = "GAME"
  /\ Complete(down[c])
  /\ LET m    == receive_message_tcp(down[c])
         ours == Accepted(peer[c].sesskey, m)
     IN  /\ peer' = [peer EXCEPT ![c].state = IF m.type = "END" THEN "END" ELSE @]
         /\ client_messages' = IF ~ours THEN client_messages
              ELSE [client_messages EXCEPT ![c] = Q!enqueue(@, Payload(m))]
         /\ refused' = [refused EXCEPT ![c].down =
              IF ours /\ Q!full(client_messages[c]) THEN @ + 1 ELSE @]
  /\ down' = [down EXCEPT ![c] = Rest(@)]
  /\ UNCHANGED <<serverVars, backlog, up, udp, casts, server_messages, app, faults,
                 sent, pushed, early, taken, shown>>

\* A broadcast datagram, in plain text, goes into the same queue
client_game_udp(c) ==
  /\ Running(c)
  /\ peer[c].state = "GAME"
  /\ \E d \in casts[c] :
       /\ client_messages' = [client_messages EXCEPT ![c] = Q!enqueue(@, d)]
       /\ casts' = [casts EXCEPT ![c] = @ \ {d}]
  /\ UNCHANGED <<serverVars, backlog, up, down, udp, server_messages, app, peer, faults,
                 history>>

\* The server has closed the connection: its descriptor is polled no more and
\* the client stays in GAME
client_game_eof(c) ==
  /\ Running(c)
  /\ peer[c].state = "GAME"
  /\ peer[c].polls
  /\ app.at = "exited"
  /\ ~Complete(down[c])
  /\ peer' = [peer EXCEPT ![c].polls = FALSE]
  /\ UNCHANGED <<serverVars, netVars, server_messages, app, client_messages,
                 faults, history>>

-----------------------------------------------------------------------------
(* The client's application thread *)

App(c, via, n) == [from |-> c, via |-> via, n |-> n]

Sealed(c, via) ==
  Message("APP_ENC", peer[c].id,
          session_encrypt(peer[c].sesskey, App(c, via, sent[c][via] + 1)))

SendsLeft == FoldSet(LAMBDA c, k : k + sent[c].tcp + sent[c].udp, 0, Clients) < MaxSend

brclient_send_msg(c) ==
  /\ Running(c)
  /\ peer[c].state = "GAME"
  /\ SendsLeft
  /\ up' = [up EXCEPT ![c] = Append(@, Sealed(c, "tcp"))]
  /\ sent' = [sent EXCEPT ![c].tcp = @ + 1]
  /\ UNCHANGED <<serverVars, backlog, down, udp, casts, server_messages, app, peer,
                 client_messages, faults, pushed, early, taken, shown, refused>>

brclient_send_msg_udp(c) ==
  /\ Running(c)
  /\ peer[c].state = "GAME"
  /\ SendsLeft
  /\ udp' = udp \cup {Sealed(c, "udp")}
  /\ sent' = [sent EXCEPT ![c].udp = @ + 1]
  /\ UNCHANGED <<serverVars, backlog, up, down, casts, server_messages, app, peer,
                 client_messages, faults, pushed, early, taken, shown, refused>>

\* Only this thread removes: what it saw before it locked is still there
brclient_get_app_msg(c) ==
  /\ Running(c)
  /\ ~Q!empty(client_messages[c])
  /\ shown' = [shown EXCEPT ![c] = Append(@, Q!peek(client_messages[c]))]
  /\ client_messages' = [client_messages EXCEPT ![c] = Q!dequeue(@)]
  /\ UNCHANGED <<serverVars, netVars, server_messages, app, peer, faults, sent, pushed,
                 early, taken, refused>>

\* A person leaves, a wait times out, or the process dies
Leave(c) ==
  /\ Running(c)
  /\ faults < MaxFaults
  /\ faults' = faults + 1
  /\ peer' = [peer EXCEPT ![c] = Exit(@)]
  /\ UNCHANGED <<serverVars, netVars, server_messages, app, client_messages, history>>

LoseDatagram ==
  /\ faults < MaxFaults
  /\ faults' = faults + 1
  /\ \E d \in udp : udp' = udp \ {d}
  /\ UNCHANGED <<serverVars, backlog, up, down, casts, server_messages, app, peer,
                 client_messages, history>>

-----------------------------------------------------------------------------
(* The server's background thread *)

server_idle_state ==
  /\ At("idle")
  /\ state # "IDLE"
  /\ thread' = [thread EXCEPT !.at = "lobby"]
  /\ UNCHANGED <<state, clients, next_id, polled, netVars, server_messages, app, peer,
                 client_messages, faults, history>>

\* One connection is accepted, gets an id and the certificate
lobby_accept ==
  /\ At("lobby")
  /\ state = "LOBBY"
  /\ backlog # << >>
  /\ LET c == Head(backlog)
     IN  /\ thread' = [thread EXCEPT !.at = "nonce", !.who = c, !.id = next_id]
         /\ down' = [down EXCEPT ![c] = @ \o <<IdWord(next_id)>> \o
                        send_message_tcp(Message("CERT", 0, Nothing))]
  /\ next_id' = next_id + 1
  /\ backlog' = Tail(backlog)
  /\ UNCHANGED <<state, clients, polled, up, udp, casts, server_messages, app, peer,
                 client_messages, faults, history>>

\* The thread waits here for this client alone, whatever state becomes
lobby_sign ==
  /\ At("nonce")
  /\ up[thread.who] # << >>
  /\ LET m == Head(up[thread.who])
     IN  IF m.type # "AUTH" THEN UNCHANGED <<thread, down>>
         ELSE /\ down' = [down EXCEPT ![thread.who] = @ \o
                   send_message_tcp(Message("AUTH", 0, sign_message_pss(m.content.text)))]
              /\ thread' = [thread EXCEPT !.at = "key"]
  /\ up' = [up EXCEPT ![thread.who] = Tail(@)]
  /\ UNCHANGED <<state, clients, next_id, polled, backlog, udp, casts, server_messages, app, peer,
                 client_messages, faults, history>>

lobby_add ==
  /\ At("key")
  /\ up[thread.who] # << >>
  /\ LET m == Head(up[thread.who])
     IN  IF m.type # "KEY" THEN UNCHANGED <<thread, clients>>
         ELSE /\ clients' = add_to_list(clients, [id |-> thread.id, who |-> thread.who,
                                                  sesskey |-> rsa_decrypt_block(m.content)])
              /\ thread' = [thread EXCEPT !.at = "lobby"]
  /\ up' = [up EXCEPT ![thread.who] = Tail(@)]
  /\ UNCHANGED <<state, next_id, polled, backlog, down, udp, casts, server_messages, app, peer,
                 client_messages, faults, history>>


\* The client is gone: the id is spent and the lobby goes on
lobby_cleanup ==
  /\ thread.at \in {"nonce", "key"}
  /\ up[thread.who] = << >>
  /\ ~Running(thread.who)
  /\ thread' = [thread EXCEPT !.at = "lobby"]
  /\ UNCHANGED <<state, clients, next_id, polled, netVars, server_messages, app, peer,
                 client_messages, faults, history>>

\* Entering the game: the descriptors to poll are those of the list, and without
\* clients the server goes back to its lobby
server_game_state ==
  /\ At("lobby")
  /\ state = "GAME"
  /\ IF clients = << >> THEN state' = "LOBBY" /\ UNCHANGED thread
     ELSE /\ thread' = [thread EXCEPT !.at = "start", !.turn = 1, !.half = "head"]
          /\ UNCHANGED state
  /\ polled' = Members
  /\ UNCHANGED <<clients, next_id, netVars, server_messages, app, peer,
                 client_messages, faults, history>>

\* Writing a frame to the members of a list, one send_bytes at a time
Flip(half) == IF half = "head" THEN "body" ELSE "head"
NextTurn(p) == IF p.half = "body" THEN p.turn + 1 ELSE p.turn
Write(c, half, m) == [down EXCEPT ![c] = Append(@, Half(half, m))]

send_start ==
  /\ At("start")
  /\ down' = Write(clients[thread.turn].who, thread.half, Message("START", 0, Nothing))
  /\ LET next == [thread EXCEPT !.turn = NextTurn(thread), !.half = Flip(@)]
     IN  thread' = [next EXCEPT !.at = IF next.turn > Len(clients) THEN "game" ELSE @]
  /\ UNCHANGED <<state, clients, next_id, polled, backlog, up, udp, casts, server_messages, app,
                 peer, client_messages, faults, history>>

\* An application message goes into the queue, if it opens with the key of the
\* client its source_id names; the result of Message_enqueue is not looked at
Enqueue(m) ==
  LET known == Listed(m.source_id) # {}
      c     == get_from_list(m.source_id).who
      ours  == known /\ Accepted(get_from_list(m.source_id).sesskey, m)
  IN  /\ server_messages' = IF ours THEN Q!enqueue(server_messages, Payload(m))
                            ELSE server_messages
      /\ refused' = IF ours /\ Q!full(server_messages) /\ Payload(m).via = "tcp"
                    THEN [refused EXCEPT ![c].up = @ + 1] ELSE refused

game_tcp(c) ==
  /\ At("game")
  /\ state = "GAME"
  /\ c \in polled
  /\ up[c] # << >>
  /\ Enqueue(Head(up[c]))
  /\ up' = [up EXCEPT ![c] = Tail(@)]
  /\ UNCHANGED <<serverVars, backlog, down, udp, casts, app, peer, client_messages, faults,
                 sent, pushed, early, taken, shown>>

\* The end of a client's stream: it is polled no more, and nobody is told
game_eof(c) ==
  /\ At("game")
  /\ state = "GAME"
  /\ c \in polled
  /\ up[c] = << >>
  /\ ~Running(c)
  /\ polled' = polled \ {c}
  /\ UNCHANGED <<state, thread, clients, next_id, netVars, server_messages, app, peer,
                 client_messages, faults, history>>

game_udp ==
  /\ At("game")
  /\ state = "GAME"
  /\ \E d \in udp : Enqueue(d) /\ udp' = udp \ {d}
  /\ UNCHANGED <<serverVars, backlog, up, down, casts, app, peer, client_messages, faults,
                 sent, pushed, early, taken, shown>>

\* MSG_END to everyone, then the thread frees the server and ends
server_end_state ==
  /\ thread.at \in {"lobby", "game"}
  /\ state = "END"
  /\ down' = [c \in Clients |-> IF c \in Members
                THEN down[c] \o send_message_tcp(Message("END", 0, Nothing)) ELSE down[c]]
  /\ thread' = [thread EXCEPT !.at = "done"]
  /\ UNCHANGED <<state, clients, next_id, polled, backlog, up, udp, casts, server_messages, app,
                 peer, client_messages, faults, history>>

-----------------------------------------------------------------------------
(* The server's application thread *)

brserver_open ==
  /\ app.at = "free"
  /\ state = "IDLE"
  /\ state' = "LOBBY"
  /\ UNCHANGED <<thread, clients, next_id, polled, netVars, server_messages, app, peer,
                 client_messages, faults, history>>

brserver_start ==
  /\ app.at = "free"
  /\ state = "LOBBY"
  /\ state' = "GAME"
  /\ UNCHANGED <<thread, clients, next_id, polled, netVars, server_messages, app, peer,
                 client_messages, faults, history>>

MayPush ==
  /\ app.at = "free"
  /\ state = "GAME"
  /\ app.n < MaxPush

\* brserver_send_to_all writes in plain text to the whole list
brserver_send_to_all ==
  /\ MayPush
  /\ app' = [app EXCEPT !.at = IF clients = << >> THEN "free" ELSE "push",
                        !.turn = 1, !.half = "head", !.to = {}, !.n = @ + 1]
  /\ UNCHANGED <<serverVars, netVars, server_messages, peer, client_messages, faults,
                 history>>

\* brserver_send_to_target encrypts for one client
brserver_send_to_target ==
  /\ MayPush
  /\ \E id \in {clients[k].id : k \in 1..Len(clients)} :
       app' = [app EXCEPT !.at = "push", !.turn = CHOOSE k \in Listed(id) : TRUE,
                          !.half = "head", !.to = {get_from_list(id).who}, !.n = @ + 1]
  /\ UNCHANGED <<serverVars, netVars, server_messages, peer, client_messages, faults,
                 history>>

\* brserver_send_broadcast: one datagram in plain text; it reaches some of those
\* who have opened their UDP port, whether they are in the lobby or the game
brserver_send_broadcast ==
  /\ MayPush
  /\ app' = [app EXCEPT !.n = @ + 1]
  /\ \E R \in SUBSET {c \in Clients : peer[c].at = "joined"} :
       casts' = [c \in Clients |-> IF c \in R THEN casts[c] \cup {Cast(app.n + 1)}
                                               ELSE casts[c]]
  /\ UNCHANGED <<serverVars, backlog, up, down, udp, server_messages, peer,
                 client_messages, faults, history>>

\* The library's thread has written MSG_START to the k-th client of the list
StartSent(k) == At("game") \/ (At("start") /\ k < thread.turn)

\* One half frame of the message being sent; then the next client, or done.  A
\* list that has grown in the meantime is walked to its new end
push_half ==
  /\ app.at = "push"
  /\ app.turn <= Len(clients)
  /\ LET to   == clients[app.turn]
         m    == IF app.to = {} THEN Message("APP", 0, Plain(Push(app.n)))
                 ELSE Message("APP_ENC", 0, session_encrypt(to.sesskey, Push(app.n)))
         next == [app EXCEPT !.turn = NextTurn(app), !.half = Flip(@)]
     IN  /\ down' = Write(to.who, app.half, m)
         /\ pushed' = IF app.half = "head" THEN pushed
                      ELSE [pushed EXCEPT ![to.who] = Append(@, Push(app.n))]
         /\ early' = IF StartSent(app.turn) THEN early ELSE early \cup {to.who}
         /\ app' = IF next.half = "head" /\ (app.to # {} \/ next.turn > Len(clients))
                   THEN [next EXCEPT !.at = "free", !.turn = 1, !.to = {}] ELSE next
  /\ UNCHANGED <<serverVars, backlog, up, udp, casts, server_messages, peer,
                 client_messages, faults, sent, taken, shown, refused>>

\* The test for emptiness, outside the lock
brserver_get_app_msg ==
  /\ app.at = "free"
  /\ ~Q!empty(server_messages)
  /\ app' = [app EXCEPT !.at = "take"]
  /\ UNCHANGED <<serverVars, netVars, server_messages, peer, client_messages, faults,
                 history>>

TakeTwice ==
  /\ app.at = "take"
  /\ taken' = Append(taken, Q!peek(server_messages))
  /\ server_messages' = Q!dequeue(server_messages)
  /\ UNCHANGED <<serverVars, netVars, app, peer, client_messages, faults,
                 sent, pushed, early, shown, refused>>

\* The copy and the removal, inside it
take_locked ==
  /\ app.at = "take"
  /\ taken' = Append(taken, Q!peek(server_messages))
  /\ server_messages' = Q!dequeue(server_messages)
  /\ app' = [app EXCEPT !.at = "free"]
  /\ UNCHANGED <<serverVars, netVars, peer, client_messages, faults,
                 sent, pushed, early, shown, refused>>

brserver_end ==
  /\ app.at = "free"
  /\ state = "GAME"
  /\ state' = "END"
  /\ UNCHANGED <<thread, clients, next_id, polled, netVars, server_messages, app, peer,
                 client_messages, faults, history>>

\* Both daemons return from main right after brserver_end, whatever the
\* background thread is doing
exit_process ==
  /\ state = "END"
  /\ app.at = "free"
  /\ app' = [app EXCEPT !.at = "exited"]
  /\ thread' = [thread EXCEPT !.at = "done"]
  /\ UNCHANGED <<state, clients, next_id, polled, netVars, server_messages, peer,
                 client_messages, faults, history>>

-----------------------------------------------------------------------------
ServerThread ==
  \/ server_idle_state \/ lobby_accept \/ lobby_sign \/ lobby_add \/ lobby_cleanup
  \/ server_game_state \/ send_start \/ game_udp \/ server_end_state
  \/ \E c \in Clients : game_tcp(c) \/ game_eof(c)

Join(c) == join_nonce(c) \/ join_key(c) \/ join_lobby(c) \/ join_fails(c)
ClientThread(c) ==
  client_lobby_state(c) \/ client_game_state(c) \/ client_game_udp(c) \/ client_game_eof(c)

Next ==
  \/ ServerThread
  \/ brserver_open \/ brserver_start \/ brserver_send_to_all \/ brserver_send_to_target
  \/ brserver_send_broadcast \/ push_half \/ brserver_get_app_msg \/ take_locked
  \/ brserver_end \/ exit_process \/ LoseDatagram
  \/ \E c \in Clients :
       \/ connect_on_tcp(c) \/ Join(c) \/ ClientThread(c)
       \/ brclient_send_msg(c) \/ brclient_send_msg_udp(c) \/ brclient_get_app_msg(c)
       \/ Leave(c)

Spec == Init /\ [][Next]_vars

\* Threads that are not waiting run; nothing is assumed of applications, of
\* people or of the network
FairSpec ==
  /\ Spec
  /\ WF_vars(ServerThread)
  /\ WF_vars(push_half)
  /\ \A c \in Clients : WF_vars(Join(c)) /\ WF_vars(ClientThread(c))

-----------------------------------------------------------------------------
(* Properties *)

Held(q) == [k \in 1..Q!Size(q) |-> q.items[q.front + k]]

\* The two ends of a session agree (server.c:265-298, client.c:361-416): a client
\* is on the list once, under the id and the session key it holds itself, and
\* only when it has checked the server's signature of its own nonce
SessionsAgree ==
  /\ \A k \in 1..Len(clients) :
       LET e == clients[k]
       IN  /\ peer[e.who].id = e.id
           /\ peer[e.who].sesskey = e.sesskey
           /\ peer[e.who].nonce = NonceText(peer[e.who].nonce)
  /\ \A j, k \in 1..Len(clients) :
       clients[j].id = clients[k].id \/ clients[j].who = clients[k].who => j = k

\* The emptiness test of brserver_get_app_msg is outside the lock (server.c:776);
\* when the queue is read inside it there is still a message
TakeFindsMessage == app.at = "take" => ~Q!empty(server_messages)

\* The places of a client's TCP messages in a sequence of payloads
Own(c, s) == {k \in 1..Len(s) : s[k].from = c /\ s[k].via = "tcp"}

InFlight(c) == {k \in 1..Len(up[c]) : up[c][k].type = "APP_ENC"}

\* Every TCP message a client sends reaches the server's application once and in
\* the order sent, or is in flight, or was refused by a full queue
\* (server.c:362-404)
UpExact ==
  \A c \in Clients :
    LET s == taken \o Held(server_messages)
    IN  /\ \A j, k \in Own(c, s) : j < k => s[j].n < s[k].n
        /\ Cardinality(Own(c, s)) + Cardinality(InFlight(c)) + refused[c].up = sent[c].tcp

\* The payloads of the application in a stream of half frames
IsApp(h) == h.part = "body" /\ h.msg.type \in {"APP", "APP_ENC"}

Pushes(s) ==
  LET upTo[k \in 0..Len(s)] ==
        IF k = 0 THEN << >>
        ELSE IF IsApp(s[k]) THEN Append(upTo[k - 1], s[k].msg.content.plain)
        ELSE upTo[k - 1]
  IN  upTo[Len(s)]

\* The payloads that came by TCP in a sequence of payloads
ByTcp(s) ==
  LET upTo[k \in 0..Len(s)] ==
        IF k = 0 THEN << >>
        ELSE IF s[k].via = "tcp" THEN Append(upTo[k - 1], s[k]) ELSE upTo[k - 1]
  IN  upTo[Len(s)]

\* What a client's application was shown, will be shown and will receive by TCP
Arriving(c) == ByTcp(shown[c] \o Held(client_messages[c])) \o Pushes(down[c])

\* The client is still there and its queue has refused nothing
Attentive(c) == Running(c) /\ peer[c].state # "END" /\ refused[c].down = 0

\* What the application sends by TCP to a client to whom it has not written before
\* MSG_START was out (server.c:329-334) comes in order and completely, unless the
\* client's queue refused some: the two threads write without a lock and a list may
\* grow while it is walked, but no frame is torn, dropped in the lobby
\* (client.c:108-119) or overtaken, and datagrams in the same queue take no place
DownInOrder ==
  \A c \in Clients \ early : Attentive(c) => Arriving(c) = pushed[c]


=============================================================================
