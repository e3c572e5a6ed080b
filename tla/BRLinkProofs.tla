---------------------------- MODULE BRLinkProofs ----------------------------
(***************************************************************************)
(* Proofs about libbattleroyale, for any number of clients: the handshake  *)
(* leaves the two ends of every session in agreement, and the emptiness    *)
(* test outside the lock is safe.                                          *)
(***************************************************************************)
EXTENDS BRLink, SequenceTheorems, TLAPS

-----------------------------------------------------------------------------
(* What is on the wire during a handshake *)

IdAndCert(id) == <<IdWord(id)>> \o send_message_tcp(Message("CERT", 0, Nothing))
Nonce(id, nonce) == Message("AUTH", id, [tag |-> "text", text |-> NonceText(nonce)])
Signed(text) == send_message_tcp(Message("AUTH", 0, sign_message_pss(text)))
Key(id, c) == Message("KEY", id, rsa_encrypt_block(c))

LEMMA OneAndTwo ==
  ASSUME NEW x, NEW y, NEW z
  PROVE  << >> \o <<x>> \o <<y, z>> = <<x>> \o <<y, z>> /\ <<x>> \o <<y, z>> = <<x, y, z>>
<1> DEFINE S == {x, y, z}
           r == <<x>>
           s == <<y, z>>
           t == <<x, y, z>>
<1>1. r \in Seq(S) /\ s \in Seq(S) /\ t \in Seq(S)
      /\ Len(r) = 1 /\ Len(s) = 2 /\ Len(t) = 3
  OBVIOUS
<1>2. r[1] = x /\ s[1] = y /\ s[2] = z /\ t[1] = x /\ t[2] = y /\ t[3] = z
  OBVIOUS
<1> HIDE DEF r, s, t, S
<1>3. << >> \o r = r
  BY <1>1, ConcatEmptySeq
<1>4. r \o s = t
  <2> DEFINE u == r \o s
  <2>1. u \in Seq(S) /\ Len(u) = Len(r) + Len(s)
        /\ \A i \in 1..(Len(r) + Len(s)) : u[i] = IF i <= Len(r) THEN r[i] ELSE s[i - Len(r)]
    BY <1>1, ConcatProperties
  <2> HIDE DEF u
  <2>2. Len(u) = Len(t) /\ u[1] = t[1] /\ u[2] = t[2] /\ u[3] = t[3]
    BY <1>1, <1>2, <2>1
  <2>3. \A i \in 1..Len(u) : i = 1 \/ i = 2 \/ i = 3
    BY <1>1, <2>2
  <2>4. \A i \in 1..Len(u) : u[i] = t[i]
    BY <2>2, <2>3
  <2> QED
    BY <1>1, <2>1, <2>2, <2>4, SeqEqual DEF u
<1> QED
  BY <1>3, <1>4 DEF r, s, t

LEMMA IdAndCertFacts ==
  ASSUME NEW id
  PROVE  /\ Len(IdAndCert(id)) >= 3 /\ Head(IdAndCert(id)).msg.source_id = id
         /\ receive_message_tcp(Tail(IdAndCert(id))).type = "CERT"
         /\ Rest(Tail(IdAndCert(id))) = << >>
         /\ << >> \o <<IdWord(id)>> \o send_message_tcp(Message("CERT", 0, Nothing))
              = IdAndCert(id)
<1> DEFINE a == IdWord(id)
           m == Message("CERT", 0, Nothing)
           b == Half("head", m)
           e == Half("body", m)
<1>1. a.msg.source_id = id
  BY DEF IdWord, Half, Message
<1>2. b.part = "head" /\ e.part = "body" /\ b.msg = m /\ m.type = "CERT"
  BY DEF Half, Message
<1>3. send_message_tcp(m) = <<b, e>>
  BY DEF send_message_tcp
<1> HIDE DEF a, m, b, e
<1>4. IdAndCert(id) = <<a, b, e>> /\ << >> \o <<a>> \o <<b, e>> = <<a, b, e>>
  BY <1>3, OneAndTwo DEF IdAndCert, a, m
<1>5. Tail(<<a, b, e>>) = <<b, e>> /\ Head(<<a, b, e>>) = a /\ Len(<<a, b, e>>) = 3
  OBVIOUS
<1>6. receive_message_tcp(<<b, e>>) = m
  BY <1>2 DEF receive_message_tcp
<1>7. Rest(<<b, e>>) = << >>
  BY DEF Rest
<1>8. /\ Len(IdAndCert(id)) >= 3 /\ Head(IdAndCert(id)) = a
      /\ receive_message_tcp(Tail(IdAndCert(id))) = m
      /\ Rest(Tail(IdAndCert(id))) = << >>
  BY <1>4, <1>5, <1>6, <1>7
<1>9. << >> \o <<a>> \o send_message_tcp(m) = IdAndCert(id)
  BY <1>3, <1>4
<1> QED
  BY <1>1, <1>2, <1>8, <1>9 DEF a, m

LEMMA SignedFacts ==
  ASSUME NEW text
  PROVE  /\ receive_message_tcp(Signed(text)).type = "AUTH"
         /\ receive_message_tcp(Signed(text)).content = sign_message_pss(text)
         /\ Rest(Signed(text)) = << >>
         /\ << >> \o Signed(text) = Signed(text)
<1> DEFINE m == Message("AUTH", 0, sign_message_pss(text))
           b == Half("head", m)
           e == Half("body", m)
<1>1. b.part = "head" /\ e.part = "body" /\ b.msg = m
  BY DEF Half
<1>2. m.type = "AUTH" /\ m.content = sign_message_pss(text)
  BY DEF Message
<1>3. Signed(text) = <<b, e>>
  BY DEF send_message_tcp, Signed
<1> HIDE DEF m, b, e
<1>4. receive_message_tcp(<<b, e>>) = m
  BY <1>1 DEF receive_message_tcp
<1>5. Rest(<<b, e>>) = << >> /\ << >> \o <<b, e>> = <<b, e>>
  BY DEF Rest
<1> QED
  BY <1>2, <1>3, <1>4, <1>5

LEMMA EmptyIncomplete == ~Complete(<< >>)
  BY DEF Complete

-----------------------------------------------------------------------------
(* The stages of a client's session, as functions of its process p, what is *)
(* in flight (u and d), the server's thread, its list and its backlog       *)

Peers == [at : {"out", "cert", "auth", "joined", "gone"},
          state : {"IDLE", "LOBBY", "GAME", "END"}, id : Nat,
          nonce : {"clean", "has zero"}, sesskey : Clients \cup {NoKey}, polls : BOOLEAN]

Places == {"idle", "lobby", "nonce", "key", "start", "game", "done"}
Entries == [id : Nat, who : Clients, sesskey : Clients]

Threads == [at : Places, who : Clients \cup {"nobody"}, id : Nat, turn : Nat \ {0},
            half : {"head", "body"}]
Apps == [at : {"free", "push", "take", "exited"}, turn : Nat \ {0}, half : {"head", "body"},
         to : SUBSET Clients, n : Nat]

\* What a handshake puts on the wire, in either direction
Texts == {NonceText(x) : x \in {"clean", "has zero"}}
HandshakeUp == {Nonce(i, "clean") : i \in Nat} \cup {Nonce(i, "has zero") : i \in Nat}
               \cup UNION {{Key(i, c) : i \in Nat} : c \in Clients}
HandshakeDown == {IdWord(i) : i \in Nat}
                 \cup {Half(part, Message("CERT", 0, Nothing)) : part \in {"head", "body"}}
                 \cup {Half("head", Message("AUTH", 0, sign_message_pss(text))) : text \in Texts}
                 \cup {Half("body", Message("AUTH", 0, sign_message_pss(text))) : text \in Texts}

\* The client in the handshake
Served(t) == IF t.at \in {"nonce", "key"} THEN {t.who} ELSE {}
Who(list) == {list[k].who : k \in 1..Len(list)}
Waiters(queue) == {queue[k] : k \in 1..Len(queue)}

\* Before it is served, a client has exchanged nothing
Unserved(c, p, u, d, t, list, queue) ==
  /\ p.at = "out" => c \notin Waiters(queue)
  /\ p.at = "out" \/ c \in Waiters(queue) =>
       /\ p.at \in {"out", "cert", "gone"}
       /\ c \notin Who(list) /\ c \notin Served(t)
       /\ u = << >> /\ d = << >>

\* The server waits for the nonce
AtNonce(c, p, u, d, t) ==
  /\ p.at \in {"cert", "auth", "gone"}
  /\ p.at = "cert" => u = << >> /\ d = IdAndCert(t.id)
  /\ p.at = "auth" => u # << >> /\ d = << >>
  /\ u = << >> \/ u = <<Nonce(t.id, p.nonce)>>
  /\ u # << >> => p.id = t.id

\* The server waits for the key
AtKey(c, p, u, d, t) ==
  /\ p.at \in {"auth", "joined", "gone"}
  /\ p.at = "auth" => u = << >> /\ d = Signed(NonceText(p.nonce)) /\ p.id = t.id
  /\ p.at = "joined" => d = << >>
  /\ u = << >> \/ u = <<Key(t.id, c)>>
  /\ u # << >> => p.id = t.id /\ p.sesskey = c /\ p.nonce = "clean"

\* On the list
Agreed(c, p, e) ==
  /\ p.at \in {"joined", "gone"}
  /\ p.id = e.id /\ p.sesskey = e.sesskey /\ p.nonce = "clean"

Stage(c, p, u, d, t, list, queue) ==
  /\ p \in Peers
  /\ p.at \in {"out", "cert", "auth"} => p.state = "IDLE"
  /\ Unserved(c, p, u, d, t, list, queue)
  /\ c \in Served(t) =>
       /\ c \notin Who(list)
       /\ t.at = "nonce" => AtNonce(c, p, u, d, t)
       /\ t.at = "key" => AtKey(c, p, u, d, t)
  /\ c \notin Who(list) => /\ p.state \in {"IDLE", "LOBBY"}
                          /\ u \in Seq(HandshakeUp) /\ d \in Seq(HandshakeDown)
  /\ \A k \in 1..Len(list) : list[k].who = c => Agreed(c, p, list[k])

StageOf(c) == Stage(c, peer[c], up[c], down[c], thread, clients, backlog)

Typed ==
  /\ thread \in Threads /\ app \in Apps /\ clients \in Seq(Entries) /\ next_id \in Nat
  /\ backlog \in Seq(Clients)
  /\ DOMAIN peer = Clients /\ DOMAIN up = Clients /\ DOMAIN down = Clients

\* Clients wait, and are listed, once; ids are given out once
Ordered ==
  /\ \A j, k \in 1..Len(backlog) : backlog[j] = backlog[k] => j = k
  /\ \A j, k \in 1..Len(clients) :
       clients[j].id = clients[k].id \/ clients[j].who = clients[k].who => j = k
  /\ \A k \in 1..Len(clients) : clients[k].id < next_id
  /\ Served(thread) # {} => /\ thread.who \in Clients /\ thread.id < next_id
                            /\ \A k \in 1..Len(clients) : clients[k].id # thread.id

Turns == thread.at = "start" => thread.turn <= Len(clients)

SessionInv == Typed /\ Ordered /\ Turns /\ \A c \in Clients : StageOf(c)

-----------------------------------------------------------------------------
(* Steps of one client *)

LEMMA PeerFields ==
  ASSUME NEW p \in Peers
  PROVE  /\ p.at \in {"out", "cert", "auth", "joined", "gone"}
         /\ p.state \in {"IDLE", "LOBBY", "GAME", "END"} /\ p.id \in Nat
         /\ p.nonce \in {"clean", "has zero"}
  BY DEF Peers

\* The process ends
LEMMA StageExit ==
  ASSUME NEW c, NEW p, NEW u, NEW d, NEW t, NEW list, NEW queue,
         Stage(c, p, u, d, t, list, queue), p.at # "out"
  PROVE  Stage(c, Exit(p), u, d, t, list, queue)
<1> DEFINE e == Exit(p)
<1>1. /\ e \in Peers /\ e.at = "gone" /\ e.state = p.state /\ e.id = p.id
      /\ e.nonce = p.nonce /\ e.sesskey = p.sesskey
  BY DEF Stage, Exit, Peers
<1> HIDE DEF e
<1>2. Stage(c, e, u, d, t, list, queue)
  BY <1>1 DEF Stage, Unserved, AtNonce, AtKey, Agreed
<1> QED
  BY <1>2 DEF e

\* A member may read and write its stream, and go on from one state to the next
LEMMA StageMember ==
  ASSUME NEW c, NEW p, NEW u, NEW d, NEW t, NEW list, NEW queue,
         Stage(c, p, u, d, t, list, queue), c \in Who(list),
         NEW e \in Peers, e.at = p.at, e.id = p.id, e.nonce = p.nonce, e.sesskey = p.sesskey,
         NEW v, NEW f
  PROVE  Stage(c, e, v, f, t, list, queue)
<1>1. p.at \in {"joined", "gone"}
  BY DEF Stage, Agreed, Who
<1>2. c \notin Waiters(queue) /\ c \notin Served(t)
  BY DEF Stage, Unserved
<1> QED
  BY <1>1, <1>2 DEF Stage, Unserved, Agreed

\* The handshake of another client begins, goes on or ends
LEMMA StageOther ==
  ASSUME NEW c, NEW p, NEW u, NEW d, NEW t, NEW list, NEW queue,
         Stage(c, p, u, d, t, list, queue),
         NEW t2, c \notin Served(t2), NEW queue2, Waiters(queue2) \subseteq Waiters(queue)
  PROVE  Stage(c, p, u, d, t2, list, queue2)
  BY DEF Stage, Unserved

LEMMA HandshakeDownFacts ==
  ASSUME NEW h \in HandshakeDown
  PROVE  /\ h.msg.source_id \in Nat
         /\ h.msg.type \in {"none", "CERT", "AUTH"}
<1>1. CASE \E i \in Nat : h = IdWord(i)
  BY <1>1 DEF IdWord, Half, Message
<1>2. CASE \E part \in {"head", "body"} : h = Half(part, Message("CERT", 0, Nothing))
  BY <1>2 DEF Half, Message
<1>3. CASE \E part \in {"head", "body"}, text \in Texts :
             h = Half(part, Message("AUTH", 0, sign_message_pss(text)))
  BY <1>3 DEF Half, Message
<1> QED
  BY <1>1, <1>2, <1>3 DEF HandshakeDown

LEMMA IdAndCertSeq == \A id \in Nat : IdAndCert(id) \in Seq(HandshakeDown)
<1> SUFFICES ASSUME NEW id \in Nat PROVE IdAndCert(id) \in Seq(HandshakeDown)
  OBVIOUS
<1> DEFINE a == IdWord(id)
           b == Half("head", Message("CERT", 0, Nothing))
           e == Half("body", Message("CERT", 0, Nothing))
<1>1. a \in HandshakeDown /\ b \in HandshakeDown /\ e \in HandshakeDown
  BY DEF HandshakeDown
<1>2. IdAndCert(id) = <<a>> \o <<b, e>>
  BY DEF IdAndCert, send_message_tcp
<1> HIDE DEF a, b, e
<1>3. <<a>> \in Seq(HandshakeDown) /\ <<b, e>> \in Seq(HandshakeDown)
  BY <1>1
<1> QED
  BY <1>2, <1>3, ConcatProperties

LEMMA TwoSeq == ASSUME NEW S, NEW b \in S, NEW e \in S PROVE <<b, e>> \in Seq(S)
  OBVIOUS

\* Records with some fields replaced, the sets the fields range over left opaque
LEMMA FiveFields ==
  ASSUME NEW A, NEW B, NEW C, NEW D, NEW E,
         NEW r \in [at : A, turn : B, half : C, to : D, n : E],
         NEW a \in A, NEW b \in B, NEW c \in C, NEW d \in D, NEW e \in E
  PROVE  /\ [r EXCEPT !.at = a, !.turn = b, !.half = c, !.to = d, !.n = e]
              \in [at : A, turn : B, half : C, to : D, n : E]
         /\ [r EXCEPT !.at = a, !.turn = b, !.to = d]
              \in [at : A, turn : B, half : C, to : D, n : E]
  OBVIOUS

LEMMA ThreeFields ==
  ASSUME NEW A, NEW B, NEW C, NEW D, NEW E,
         NEW r \in [at : A, who : D, id : E, turn : B, half : C],
         NEW a \in A, NEW b \in B, NEW c \in C
  PROVE  /\ [r EXCEPT !.at = a, !.turn = b, !.half = c]
              \in [at : A, who : D, id : E, turn : B, half : C]
         /\ [r EXCEPT !.at = a, !.turn = b, !.half = c].turn = b
         /\ [r EXCEPT !.at = a, !.turn = b, !.half = c].at = a
  OBVIOUS

LEMMA AppMoved ==
  ASSUME NEW r \in Apps, NEW a \in {"free", "push", "take", "exited"}, NEW b \in Nat \ {0},
         NEW c \in {"head", "body"}, NEW d \in SUBSET Clients, NEW e \in Nat
  PROVE  /\ [r EXCEPT !.at = a, !.turn = b, !.half = c, !.to = d, !.n = e] \in Apps
         /\ [r EXCEPT !.at = a, !.turn = b, !.to = d] \in Apps
  BY FiveFields, Zenon DEF Apps

LEMMA ThreadMoved ==
  ASSUME NEW r \in Threads, NEW a \in Places, NEW b \in Nat \ {0}, NEW c \in {"head", "body"}
  PROVE  /\ [r EXCEPT !.at = a, !.turn = b, !.half = c] \in Threads
         /\ [r EXCEPT !.at = a, !.turn = b, !.half = c].turn = b
         /\ [r EXCEPT !.at = a, !.turn = b, !.half = c].at = a
  BY ThreeFields, Zenon DEF Threads

LEMMA AppFields ==
  ASSUME NEW r \in Apps
  PROVE  r.n \in Nat /\ r.turn \in Nat \ {0} /\ r.half \in {"head", "body"} /\ r.to \in SUBSET Clients
  BY DEF Apps

LEMMA SignedSeq == \A x \in {"clean", "has zero"} : Signed(NonceText(x)) \in Seq(HandshakeDown)
<1> SUFFICES ASSUME NEW x \in {"clean", "has zero"}
             PROVE  Signed(NonceText(x)) \in Seq(HandshakeDown)
  OBVIOUS
<1> DEFINE m == Message("AUTH", 0, sign_message_pss(NonceText(x)))
           b == Half("head", m)
           e == Half("body", m)
<1>1. NonceText(x) \in Texts
  BY DEF Texts
<1>2. b \in HandshakeDown /\ e \in HandshakeDown
  BY <1>1 DEF HandshakeDown
<1>3. Signed(NonceText(x)) = <<b, e>>
  BY DEF Signed, send_message_tcp
<1> HIDE DEF b, e, m
<1>4. <<b, e>> \in Seq(HandshakeDown)
  BY <1>2, TwoSeq, Zenon
<1> QED
  BY <1>3, <1>4, Zenon

LEMMA RestSeq ==
  ASSUME NEW S, NEW s \in Seq(S)
  PROVE  /\ Rest(s) \in Seq(S)
         /\ s # << >> => Tail(s) \in Seq(S) /\ Head(s) \in S
<1>1. Len(s) \in Nat /\ \A i \in 3..Len(s) : s[i] \in S
  BY ElementOfSeq, LenProperties
<1>2. Rest(s) \in Seq(S)
  BY <1>1, SubSeqProperties DEF Rest
<1> QED
  BY <1>2, HeadTailProperties

\* While only the handshake has written to it, a client is told no start
LEMMA NoStart ==
  ASSUME NEW s \in Seq(HandshakeDown), Len(s) >= 2
  PROVE  receive_message_tcp(s).type \in {"none", "CERT", "AUTH"}
<1>1. s[1] \in HandshakeDown
  BY ElementOfSeq, LenProperties
<1>2. s[1].msg.type \in {"none", "CERT", "AUTH"}
  BY <1>1, HandshakeDownFacts
<1>3. s[1].msg.type = [s[1].msg EXCEPT !.content = Garbled].type
  OBVIOUS
<1>4. Message("CERT", 0, Garbled).type = "CERT"
  BY DEF Message
<1> QED
  BY <1>2, <1>3, <1>4 DEF receive_message_tcp

LEMMA HandshakeUpHas ==
  /\ \A i \in Nat, x \in {"clean", "has zero"} : Nonce(i, x) \in HandshakeUp
  /\ \A i \in Nat, c \in Clients : Key(i, c) \in HandshakeUp
<1>1. ASSUME NEW i \in Nat, NEW x \in {"clean", "has zero"} PROVE Nonce(i, x) \in HandshakeUp
  <2>1. CASE x = "clean"
    BY <2>1 DEF HandshakeUp
  <2>2. CASE x = "has zero"
    BY <2>2 DEF HandshakeUp
  <2> QED
    BY <2>1, <2>2
<1>2. ASSUME NEW i \in Nat, NEW c \in Clients PROVE Key(i, c) \in HandshakeUp
  <2>1. Key(i, c) \in {Key(n, c) : n \in Nat}
    OBVIOUS
  <2>2. Key(i, c) \in UNION {{Key(n, x) : n \in Nat} : x \in Clients}
    BY <2>1
  <2> QED
    BY <2>2 DEF HandshakeUp
<1> QED
  BY <1>1, <1>2

LEMMA FirstMessage == \A m : Append(<< >>, m) = <<m>> /\ <<m>> # << >> /\ Len(<< >>) = 0
  OBVIOUS

LEMMA LongSeq == \A s : Len(s) >= 3 => s # << >>
<1> SUFFICES ASSUME NEW s, Len(s) >= 3, s = << >> PROVE FALSE
  OBVIOUS
<1>1. Len(s) = 0
  OBVIOUS
<1> QED
  BY <1>1

\* The certificate is answered with a nonce
LEMMA StageNonce ==
  ASSUME NEW c \in Clients, NEW p, NEW u, NEW d, NEW t, NEW list, NEW queue,
         Stage(c, p, u, d, t, list, queue), p.at = "cert", Len(d) >= 3,
         NEW nonce \in {"clean", "has zero"}, NEW id, id = Head(d).msg.source_id,
         NEW e, e = [p EXCEPT !.at = "auth", !.nonce = nonce, !.id = id]
  PROVE  Stage(c, e, Append(u, Nonce(id, nonce)), Rest(Tail(d)), t, list, queue)
<1> DEFINE v == Append(u, Nonce(id, nonce))
           f == Rest(Tail(d))
<1>1. c \notin Who(list) /\ u \in Seq(HandshakeUp) /\ d \in Seq(HandshakeDown)
  BY DEF Stage, Agreed, Who
<1>2. d # << >>
  BY LongSeq
<1>3. id \in Nat /\ f \in Seq(HandshakeDown) /\ v \in Seq(HandshakeUp)
  <2>1. Head(d) \in HandshakeDown /\ Tail(d) \in Seq(HandshakeDown)
    BY <1>1, <1>2, RestSeq
  <2>2. id \in Nat
    BY <2>1, HandshakeDownFacts
  <2>3. f \in Seq(HandshakeDown)
    BY <2>1, RestSeq
  <2>4. Nonce(id, nonce) \in HandshakeUp
    BY <2>2, HandshakeUpHas
  <2>5. v \in Seq(HandshakeUp)
    BY <1>1, <2>4, AppendProperties
  <2> QED
    BY <2>2, <2>3, <2>5
<1>4. p \in Peers /\ p.state = "IDLE"
  BY DEF Stage
<1>5. e \in Peers /\ e.at = "auth" /\ e.nonce = nonce /\ e.id = id /\ e.state = "IDLE"
  BY <1>3, <1>4 DEF Peers
<1>6. c \notin Waiters(queue)
  BY <1>2 DEF Stage, Unserved
<1>7. ASSUME c \in Served(t)
      PROVE  t.at = "nonce" /\ v = <<Nonce(t.id, nonce)>> /\ f = << >> /\ id = t.id
  <2>1. t.at = "nonce" /\ u = << >> /\ d = IdAndCert(t.id)
    BY <1>7 DEF Stage, AtNonce, AtKey, Served
  <2>2. id = t.id /\ f = << >>
    BY <2>1, IdAndCertFacts
  <2>3. Append(<< >>, Nonce(id, nonce)) = <<Nonce(id, nonce)>>
    BY FirstMessage
  <2> QED
    BY <2>1, <2>2, <2>3
<1> HIDE DEF v, f
<1>8. c \in Served(t) => AtNonce(c, e, v, f, t) /\ t.at # "key"
  <2>1. <<Nonce(t.id, nonce)>> # << >>
    BY FirstMessage
  <2> QED
    BY <1>5, <1>7, <2>1 DEF AtNonce
<1>9. c \in Served(t) => c \notin Who(list)
  BY <1>1
<1>10. \A k \in 1..Len(list) : list[k].who # c
  BY <1>1 DEF Who
<1>11. Unserved(c, e, v, f, t, list, queue)
  BY <1>5, <1>6 DEF Unserved
<1>12. Stage(c, e, v, f, t, list, queue)
  BY <1>1, <1>3, <1>5, <1>8, <1>10, <1>11 DEF Stage
<1> QED
  BY <1>12 DEF v, f

\* A signature that was checked is answered with the key
LEMMA StageKey ==
  ASSUME NEW c \in Clients, NEW p, NEW u, NEW d, NEW t, NEW list, NEW queue,
         Stage(c, p, u, d, t, list, queue), p.at = "auth", Complete(d),
         receive_message_tcp(d).type = "AUTH",
         verify_message_pss(receive_message_tcp(d).content, p.nonce),
         NEW e, e = [p EXCEPT !.at = "joined", !.sesskey = c]
  PROVE  Stage(c, e, Append(u, Key(p.id, c)), Rest(d), t, list, queue)
<1> DEFINE v == Append(u, Key(p.id, c))
           f == Rest(d)
<1>1. c \notin Who(list) /\ u \in Seq(HandshakeUp) /\ d \in Seq(HandshakeDown)
  BY DEF Stage, Agreed, Who
<1>2. d # << >>
  BY EmptyIncomplete
<1>3. p \in Peers /\ p.state = "IDLE" /\ p.id \in Nat /\ p.nonce \in {"clean", "has zero"}
  BY PeerFields DEF Stage
<1>4. /\ e \in Peers /\ e.at = "joined" /\ e.nonce = p.nonce /\ e.id = p.id
      /\ e.state = "IDLE" /\ e.sesskey = c
  BY <1>3 DEF Peers
<1>5. f \in Seq(HandshakeDown) /\ v \in Seq(HandshakeUp)
  <2>1. Key(p.id, c) \in HandshakeUp
    BY <1>3, HandshakeUpHas
  <2> QED
    BY <1>1, <2>1, RestSeq, AppendProperties
<1>6. c \notin Waiters(queue)
  BY <1>2 DEF Stage, Unserved
<1>7. ASSUME c \in Served(t)
      PROVE  /\ t.at = "key" /\ v = <<Key(t.id, c)>> /\ f = << >> /\ p.id = t.id
             /\ p.nonce = "clean"
  <2>1. t.at = "key" /\ u = << >> /\ d = Signed(NonceText(p.nonce)) /\ p.id = t.id
    BY <1>2, <1>7 DEF Stage, AtNonce, AtKey, Served
  <2>2. receive_message_tcp(d).content = sign_message_pss(NonceText(p.nonce)) /\ f = << >>
    BY <2>1, SignedFacts
  <2>3. NonceText(p.nonce) = p.nonce
    BY <2>2 DEF verify_message_pss, sign_message_pss
  <2>4. p.nonce = "clean"
    BY <1>3, <2>3 DEF NonceText
  <2>5. Append(<< >>, Key(p.id, c)) = <<Key(p.id, c)>>
    BY FirstMessage
  <2> QED
    BY <2>1, <2>2, <2>4, <2>5
<1> HIDE DEF v, f
<1>8. c \in Served(t) => AtKey(c, e, v, f, t) /\ t.at # "nonce"
  BY <1>4, <1>7 DEF AtKey
<1>9. \A k \in 1..Len(list) : list[k].who # c
  BY <1>1 DEF Who
<1>10. Unserved(c, e, v, f, t, list, queue)
  BY <1>4, <1>6 DEF Unserved
<1>11. Stage(c, e, v, f, t, list, queue)
  BY <1>1, <1>4, <1>5, <1>8, <1>9, <1>10 DEF Stage
<1> QED
  BY <1>11 DEF v, f

\* Any other answer to the nonce is read and the client leaves, or reads on
LEMMA StageRefused ==
  ASSUME NEW c \in Clients, NEW p, NEW u, NEW d, NEW t, NEW list, NEW queue,
         Stage(c, p, u, d, t, list, queue), p.at = "auth", Complete(d),
         NEW e, e = IF receive_message_tcp(d).type = "AUTH" THEN Exit(p) ELSE p
  PROVE  Stage(c, e, u, Rest(d), t, list, queue)
<1>1. c \notin Who(list) /\ d \in Seq(HandshakeDown)
  BY DEF Stage, Agreed, Who
<1>2. Rest(d) \in Seq(HandshakeDown) /\ d # << >>
  BY <1>1, RestSeq, EmptyIncomplete
<1>3. c \notin Waiters(queue)
  BY <1>2 DEF Stage, Unserved
<1>4. /\ Exit(p) \in Peers /\ Exit(p).at = "gone" /\ Exit(p).state = p.state
      /\ Exit(p).id = p.id /\ Exit(p).nonce = p.nonce /\ Exit(p).sesskey = p.sesskey
  BY DEF Stage, Exit, Peers
<1>5. CASE c \in Served(t)
  <2>1. t.at = "key" /\ u = << >> /\ d = Signed(NonceText(p.nonce))
    BY <1>2, <1>5 DEF Stage, AtNonce, AtKey, Served
  <2>2. e = Exit(p)
    BY <2>1, SignedFacts
  <2> QED
    BY <1>1, <1>2, <1>3, <1>4, <2>1, <2>2 DEF Stage, Unserved, AtKey, Agreed
<1>6. CASE c \notin Served(t)
  <2>1. e \in Peers /\ e.at \in {"auth", "gone"} /\ e.state = p.state
    BY <1>4 DEF Stage
  <2>2. \A k \in 1..Len(list) : list[k].who # c
    BY <1>1 DEF Who
  <2> QED
    BY <1>1, <1>2, <1>3, <1>6, <2>1, <2>2 DEF Stage, Unserved
<1> QED
  BY <1>5, <1>6

\* In the lobby: what is read before the client is on the list is no start
LEMMA StageLobby ==
  ASSUME NEW c \in Clients, NEW p, NEW u, NEW d, NEW t, NEW list, NEW queue,
         Stage(c, p, u, d, t, list, queue), p.at # "gone", p.state = "LOBBY", Complete(d),
         NEW e, e = [p EXCEPT !.state = IF receive_message_tcp(d).type = "START"
                                        THEN "GAME" ELSE @]
  PROVE  Stage(c, e, u, Rest(d), t, list, queue)
<1>1. p.at = "joined" /\ p \in Peers
  BY PeerFields DEF Stage
<1>2. /\ e \in Peers /\ e.at = p.at /\ e.id = p.id /\ e.nonce = p.nonce
      /\ e.sesskey = p.sesskey
      /\ e.state = IF receive_message_tcp(d).type = "START" THEN "GAME" ELSE "LOBBY"
  BY <1>1 DEF Peers
<1>3. CASE c \in Who(list)
  <2>1. c \notin Waiters(queue) /\ c \notin Served(t)
    BY <1>3 DEF Stage, Unserved
  <2> QED
    BY <1>1, <1>2, <1>3, <2>1 DEF Stage, Unserved, Agreed
<1>4. CASE c \notin Who(list)
  <2>1. d \in Seq(HandshakeDown) /\ Len(d) >= 2
    BY <1>4 DEF Stage, Complete
  <2>2. e.state = "LOBBY" /\ Rest(d) \in Seq(HandshakeDown)
    BY <1>2, <2>1, NoStart, RestSeq
  <2>3. c \notin Served(t) /\ c \notin Waiters(queue)
    BY <1>1, EmptyIncomplete DEF Stage, Unserved, AtNonce, AtKey, Served
  <2>4. \A k \in 1..Len(list) : list[k].who # c
    BY <1>4 DEF Who
  <2> QED
    BY <1>1, <1>2, <1>4, <2>2, <2>3, <2>4 DEF Stage, Unserved
<1> QED
  BY <1>3, <1>4

-----------------------------------------------------------------------------
(* The steps of the clients *)

\* A step that concerns one client and leaves the server alone
LEMMA LocalStep ==
  ASSUME SessionInv, NEW c \in Clients,
         UNCHANGED <<thread, app, clients, next_id, backlog>>,
         DOMAIN peer' = Clients, DOMAIN up' = Clients, DOMAIN down' = Clients,
         \A x \in Clients : x # c => peer'[x] = peer[x] /\ up'[x] = up[x] /\ down'[x] = down[x],
         Stage(c, peer'[c], up'[c], down'[c], thread, clients, backlog)
  PROVE  SessionInv'
<1>1. Typed' /\ Ordered' /\ Turns'
  BY DEF SessionInv, Typed, Ordered, Turns, Served
<1>2. ASSUME NEW x \in Clients PROVE StageOf(x)'
  <2>1. CASE x = c
    BY <2>1 DEF StageOf
  <2>2. CASE x # c
    <3>1. Stage(x, peer[x], up[x], down[x], thread, clients, backlog)
      BY DEF SessionInv, StageOf
    <3> QED
      BY <2>2, <3>1 DEF StageOf
  <2> QED
    BY <2>1, <2>2
<1> QED
  BY <1>1, <1>2 DEF SessionInv

\* A step that changes nothing the sessions are about
LEMMA SilentStep ==
  ASSUME SessionInv, UNCHANGED <<thread, app, clients, next_id, backlog, peer, up, down>>
  PROVE  SessionInv'
  BY DEF SessionInv, Typed, Ordered, Turns, Served, StageOf

LEMMA PeerOf ==
  ASSUME SessionInv, NEW c \in Clients
  PROVE  /\ peer[c] \in Peers /\ DOMAIN peer = Clients /\ DOMAIN up = Clients
         /\ DOMAIN down = Clients
         /\ Stage(c, peer[c], up[c], down[c], thread, clients, backlog)
  BY DEF SessionInv, Typed, StageOf, Stage

LEMMA JoinNonceStep == ASSUME SessionInv, NEW c \in Clients, join_nonce(c) PROVE SessionInv'
<1> USE PeerOf
<1>1. PICK nonce \in {"clean", "has zero"} :
        /\ peer' = [peer EXCEPT ![c].at = "auth", ![c].nonce = nonce,
                                ![c].id = Head(down[c]).msg.source_id]
        /\ up' = [up EXCEPT ![c] = Append(@, Nonce(Head(down[c]).msg.source_id, nonce))]
  BY DEF join_nonce, Nonce
<1>2. /\ peer[c].at = "cert" /\ Len(down[c]) >= 3
      /\ down' = [down EXCEPT ![c] = Rest(Tail(down[c]))]
      /\ UNCHANGED <<thread, app, clients, next_id, backlog>>
  BY DEF join_nonce, serverVars
<1> DEFINE id == Head(down[c]).msg.source_id
           e == [peer[c] EXCEPT !.at = "auth", !.nonce = nonce, !.id = id]
<1>3. /\ peer'[c] = e /\ up'[c] = Append(up[c], Nonce(id, nonce))
      /\ down'[c] = Rest(Tail(down[c]))
      /\ DOMAIN peer' = Clients /\ DOMAIN up' = Clients /\ DOMAIN down' = Clients
      /\ \A x \in Clients : x # c => peer'[x] = peer[x] /\ up'[x] = up[x] /\ down'[x] = down[x]
  BY <1>1, <1>2
<1>4. Stage(c, e, Append(up[c], Nonce(id, nonce)), Rest(Tail(down[c])), thread, clients, backlog)
  BY <1>2, StageNonce
<1> HIDE DEF e, id
<1> QED
  BY <1>2, <1>3, <1>4, LocalStep

LEMMA JoinKeyStep == ASSUME SessionInv, NEW c \in Clients, join_key(c) PROVE SessionInv'
<1> USE PeerOf
<1> DEFINE m == receive_message_tcp(down[c])
           good == m.type = "AUTH" /\ verify_message_pss(m.content, peer[c].nonce)
<1>1. /\ peer[c].at = "auth" /\ Complete(down[c])
      /\ down' = [down EXCEPT ![c] = Rest(down[c])]
      /\ UNCHANGED <<thread, app, clients, next_id, backlog>>
  BY DEF join_key, serverVars
<1>2. CASE good
  <2> DEFINE e == [peer[c] EXCEPT !.at = "joined", !.sesskey = c]
  <2>1. /\ peer' = [peer EXCEPT ![c].at = "joined", ![c].sesskey = c]
        /\ up' = [up EXCEPT ![c] = Append(up[c], Key(peer[c].id, c))]
    BY <1>2 DEF join_key, Key
  <2>2. /\ peer'[c] = e /\ up'[c] = Append(up[c], Key(peer[c].id, c))
        /\ down'[c] = Rest(down[c])
        /\ DOMAIN peer' = Clients /\ DOMAIN up' = Clients /\ DOMAIN down' = Clients
        /\ \A x \in Clients : x # c => peer'[x] = peer[x] /\ up'[x] = up[x] /\ down'[x] = down[x]
    BY <1>1, <2>1
  <2>3. Stage(c, e, Append(up[c], Key(peer[c].id, c)), Rest(down[c]), thread, clients, backlog)
    BY <1>1, <1>2, StageKey
  <2> HIDE DEF e
  <2> QED
    BY <1>1, <2>2, <2>3, LocalStep
<1>3. CASE ~good
  <2> DEFINE e == IF m.type = "AUTH" THEN Exit(peer[c]) ELSE peer[c]
  <2>1. peer' = [peer EXCEPT ![c] = e] /\ up' = up
    BY <1>3 DEF join_key
  <2>2. /\ peer'[c] = e /\ up'[c] = up[c] /\ down'[c] = Rest(down[c])
        /\ DOMAIN peer' = Clients /\ DOMAIN up' = Clients /\ DOMAIN down' = Clients
        /\ \A x \in Clients : x # c => peer'[x] = peer[x] /\ up'[x] = up[x] /\ down'[x] = down[x]
    BY <1>1, <2>1
  <2>3. Stage(c, e, up[c], Rest(down[c]), thread, clients, backlog)
    BY <1>1, <1>3, StageRefused
  <2> HIDE DEF e
  <2> QED
    BY <1>1, <2>2, <2>3, LocalStep
<1> QED
  BY <1>2, <1>3

LEMMA ClientThreadStep == ASSUME SessionInv, NEW c \in Clients, ClientThread(c) PROVE SessionInv'
<1> USE PeerOf
<1>1. CASE client_lobby_state(c)
  <2> DEFINE e == [peer[c] EXCEPT !.state = IF receive_message_tcp(down[c]).type = "START"
                                            THEN "GAME" ELSE @]
  <2>1. /\ peer[c].at # "gone" /\ peer[c].state = "LOBBY" /\ Complete(down[c])
        /\ down' = [down EXCEPT ![c] = Rest(down[c])] /\ up' = up
        /\ peer' = [peer EXCEPT ![c].state = IF receive_message_tcp(down[c]).type = "START"
                                             THEN "GAME" ELSE @]
        /\ UNCHANGED <<thread, app, clients, next_id, backlog>>
    BY <1>1 DEF client_lobby_state, Running, serverVars
  <2>2. /\ peer'[c] = e /\ up'[c] = up[c] /\ down'[c] = Rest(down[c])
        /\ DOMAIN peer' = Clients /\ DOMAIN up' = Clients /\ DOMAIN down' = Clients
        /\ \A x \in Clients : x # c => peer'[x] = peer[x] /\ up'[x] = up[x] /\ down'[x] = down[x]
    BY <2>1
  <2>3. Stage(c, e, up[c], Rest(down[c]), thread, clients, backlog)
    BY <2>1, StageLobby
  <2> HIDE DEF e
  <2> QED
    BY <2>1, <2>2, <2>3, LocalStep
<1>2. ASSUME NEW e \in Peers, e.at = peer[c].at, e.id = peer[c].id, e.nonce = peer[c].nonce,
             e.sesskey = peer[c].sesskey, peer[c].state = "GAME", NEW f,
             peer' = [peer EXCEPT ![c] = e], up' = up,
             down'[c] = f, DOMAIN down' = Clients, \A x \in Clients : x # c => down'[x] = down[x],
             UNCHANGED <<thread, app, clients, next_id, backlog>>
      PROVE  SessionInv'
  <2>1. c \in Who(clients)
    BY <1>2 DEF Stage
  <2>2. /\ peer'[c] = e /\ up'[c] = up[c] /\ down'[c] = f
        /\ DOMAIN peer' = Clients /\ DOMAIN up' = Clients /\ DOMAIN down' = Clients
        /\ \A x \in Clients : x # c => peer'[x] = peer[x] /\ up'[x] = up[x] /\ down'[x] = down[x]
    BY <1>2
  <2>3. Stage(c, e, up[c], f, thread, clients, backlog)
    BY <1>2, <2>1, StageMember, Zenon
  <2> QED
    BY <1>2, <2>2, <2>3, LocalStep
<1>3. CASE client_game_state(c)
  <2> DEFINE e == [peer[c] EXCEPT !.state = IF receive_message_tcp(down[c]).type = "END"
                                            THEN "END" ELSE @]
  <2>1. /\ peer[c].state = "GAME" /\ down' = [down EXCEPT ![c] = Rest(down[c])] /\ up' = up
        /\ peer' = [peer EXCEPT ![c] = e]
        /\ UNCHANGED <<thread, app, clients, next_id, backlog>>
    BY <1>3 DEF client_game_state, serverVars
  <2>2. /\ e \in Peers /\ e.at = peer[c].at /\ e.id = peer[c].id /\ e.nonce = peer[c].nonce
        /\ e.sesskey = peer[c].sesskey
    BY DEF Peers
  <2> HIDE DEF e
  <2> QED
    BY <1>2, <2>1, <2>2
<1>4. CASE client_game_eof(c)
  <2> DEFINE e == [peer[c] EXCEPT !.polls = FALSE]
  <2>1. /\ peer[c].state = "GAME" /\ down' = down /\ up' = up
        /\ peer' = [peer EXCEPT ![c] = e]
        /\ UNCHANGED <<thread, app, clients, next_id, backlog>>
    BY <1>4 DEF client_game_eof, serverVars, netVars
  <2>2. /\ e \in Peers /\ e.at = peer[c].at /\ e.id = peer[c].id /\ e.nonce = peer[c].nonce
        /\ e.sesskey = peer[c].sesskey
    BY DEF Peers
  <2> HIDE DEF e
  <2> QED
    BY <1>2, <2>1, <2>2
<1>5. CASE client_game_udp(c)
  BY <1>5, SilentStep DEF client_game_udp, serverVars
<1> QED
  BY <1>1, <1>3, <1>4, <1>5 DEF ClientThread

\* The rest of a client's steps
LEMMA ClientStep ==
  ASSUME SessionInv, NEW c \in Clients,
         \/ connect_on_tcp(c) \/ join_lobby(c) \/ join_fails(c) \/ Leave(c)
         \/ brclient_send_msg(c) \/ brclient_send_msg_udp(c) \/ brclient_get_app_msg(c)
  PROVE  SessionInv'
<1> USE PeerOf
<1>1. CASE connect_on_tcp(c)
  <2> DEFINE e == [peer[c] EXCEPT !.at = "cert"]
  <2>1. /\ peer[c].at = "out" /\ backlog' = Append(backlog, c)
        /\ peer' = [peer EXCEPT ![c].at = "cert"]
        /\ UNCHANGED <<thread, app, clients, next_id, up, down>>
    BY <1>1 DEF connect_on_tcp, serverVars
  <2>2. /\ e \in Peers /\ e.at = "cert" /\ e.state = peer[c].state
        /\ peer'[c] = e /\ DOMAIN peer' = Clients
        /\ \A x \in Clients : x # c => peer'[x] = peer[x]
    BY <2>1 DEF Peers
  <2>3. backlog \in Seq(Clients)
    BY DEF SessionInv, Typed
  <2>4. /\ backlog' \in Seq(Clients) /\ Len(backlog') = Len(backlog) + 1 /\ Len(backlog) \in Nat
        /\ \A k \in 1..Len(backlog) : backlog'[k] = backlog[k]
        /\ backlog'[Len(backlog) + 1] = c
    BY <2>1, <2>3, AppendProperties
  <2>5. Waiters(backlog') = Waiters(backlog) \cup {c}
    <3>1. \A k \in 1..Len(backlog') : k \in 1..Len(backlog) \/ k = Len(backlog) + 1
      BY <2>4
    <3>2. \A k \in 1..Len(backlog) : k \in 1..Len(backlog')
      BY <2>4
    <3>3. Len(backlog) + 1 \in 1..Len(backlog')
      BY <2>4
    <3> QED
      BY <2>4, <3>1, <3>2, <3>3 DEF Waiters
  <2>6. /\ c \notin Waiters(backlog) /\ c \notin Who(clients) /\ c \notin Served(thread)
        /\ up[c] = << >> /\ down[c] = << >>
    BY <2>1 DEF Stage, Unserved
  <2> HIDE DEF e
  <2>7. ASSUME NEW x \in Clients PROVE StageOf(x)'
    <3>1. Stage(x, peer[x], up[x], down[x], thread, clients, backlog)
      OBVIOUS
    <3>2. CASE x = c
      <4>1. \A k \in 1..Len(clients) : clients[k].who # c
        BY <2>6 DEF Who
      <4>2. Stage(c, e, up[c], down[c], thread, clients, backlog')
        BY <2>1, <2>2, <2>6, <3>1, <3>2, <4>1 DEF Stage, Unserved
      <4> QED
        BY <2>1, <2>2, <3>2, <4>2 DEF StageOf
    <3>3. CASE x # c
      <4>1. x \in Waiters(backlog') => x \in Waiters(backlog)
        BY <2>5, <3>3
      <4>2. Stage(x, peer[x], up[x], down[x], thread, clients, backlog')
        BY <3>1, <4>1 DEF Stage, Unserved
      <4> QED
        BY <2>1, <2>2, <3>3, <4>2 DEF StageOf
    <3> QED
      BY <3>2, <3>3
  <2>8. Ordered'
    <3>1. ASSUME NEW j \in 1..Len(backlog'), NEW k \in 1..Len(backlog'), backlog'[j] = backlog'[k]
          PROVE  j = k
      <4>1. \A i \in 1..Len(backlog) : backlog[i] # c
        BY <2>6 DEF Waiters
      <4> QED
        BY <2>4, <3>1, <4>1 DEF SessionInv, Ordered
    <3> QED
      BY <2>1, <3>1 DEF SessionInv, Ordered, Served
  <2> QED
    BY <2>1, <2>2, <2>4, <2>7, <2>8 DEF SessionInv, Typed, Turns
<1>2. CASE join_lobby(c)
  <2> DEFINE e == [peer[c] EXCEPT !.state = "LOBBY"]
  <2>1. /\ peer[c].at = "joined" /\ peer[c].state = "IDLE" /\ peer' = [peer EXCEPT ![c].state = "LOBBY"]
        /\ UNCHANGED <<thread, app, clients, next_id, backlog, up, down>>
    BY <1>2 DEF join_lobby, serverVars, netVars
  <2>2. /\ e \in Peers /\ e.at = peer[c].at /\ e.id = peer[c].id /\ e.nonce = peer[c].nonce
        /\ e.sesskey = peer[c].sesskey /\ e.state = "LOBBY"
        /\ peer'[c] = e /\ DOMAIN peer' = Clients
        /\ \A x \in Clients : x # c => peer'[x] = peer[x]
    BY <2>1 DEF Peers
  <2> HIDE DEF e
  <2>3. Stage(c, e, up[c], down[c], thread, clients, backlog)
    BY <2>1, <2>2 DEF Stage, Unserved, AtNonce, AtKey, Agreed
  <2> QED
    BY <2>1, <2>2, <2>3, LocalStep
<1>3. CASE join_fails(c) \/ Leave(c)
  <2>1. /\ peer[c].at # "out" /\ peer' = [peer EXCEPT ![c] = Exit(peer[c])]
        /\ UNCHANGED <<thread, app, clients, next_id, backlog, up, down>>
    BY <1>3 DEF join_fails, Leave, Running, serverVars, netVars
  <2>2. /\ peer'[c] = Exit(peer[c]) /\ DOMAIN peer' = Clients
        /\ \A x \in Clients : x # c => peer'[x] = peer[x]
    BY <2>1
  <2>3. Stage(c, Exit(peer[c]), up[c], down[c], thread, clients, backlog)
    BY <2>1, StageExit
  <2> QED
    BY <2>1, <2>2, <2>3, LocalStep
<1>4. CASE brclient_send_msg(c)
  <2>1. /\ peer[c].state = "GAME" /\ up' = [up EXCEPT ![c] = Append(up[c], Sealed(c, "tcp"))]
        /\ UNCHANGED <<thread, app, clients, next_id, backlog, peer, down>>
    BY <1>4 DEF brclient_send_msg, serverVars
  <2>2. c \in Who(clients)
    BY <2>1 DEF Stage
  <2>3. Stage(c, peer[c], up'[c], down[c], thread, clients, backlog)
    BY <2>2, StageMember, Zenon
  <2>4. DOMAIN up' = Clients /\ \A x \in Clients : x # c => up'[x] = up[x]
    BY <2>1
  <2> QED
    BY <2>1, <2>3, <2>4, LocalStep
<1>5. CASE brclient_send_msg_udp(c) \/ brclient_get_app_msg(c)
  BY <1>5, SilentStep DEF brclient_send_msg_udp, brclient_get_app_msg, serverVars, netVars
<1> QED
  BY <1>1, <1>2, <1>3, <1>4, <1>5

-----------------------------------------------------------------------------
(* The steps of the server *)

LEMMA ThreadFields ==
  ASSUME SessionInv
  PROVE  /\ thread.at \in Places /\ thread.id \in Nat /\ thread.turn \in Nat \ {0}
         /\ thread.half \in {"head", "body"} /\ thread \in Threads
         /\ clients \in Seq(Entries) /\ backlog \in Seq(Clients) /\ next_id \in Nat
         /\ app \in Apps /\ app.turn \in Nat \ {0} /\ app.n \in Nat
         /\ app.half \in {"head", "body"} /\ app.at \in {"free", "push", "take", "exited"}
  BY DEF SessionInv, Typed, Threads, Apps

LEMMA EntryFields ==
  ASSUME SessionInv, NEW k \in 1..Len(clients)
  PROVE  clients[k].id \in Nat /\ clients[k].who \in Clients /\ clients[k].sesskey \in Clients
<1>1. clients \in Seq(Entries)
  BY ThreadFields
<1>2. clients[k] \in Entries
  BY <1>1, ElementOfSeq
<1> QED
  BY <1>2 DEF Entries

\* A connection is accepted: the first of the backlog is served
LEMMA AcceptStep == ASSUME SessionInv, lobby_accept PROVE SessionInv'
<1> USE PeerOf, ThreadFields
<1> DEFINE c == Head(backlog)
<1>1. /\ thread.at = "lobby" /\ backlog # << >>
      /\ thread' = [thread EXCEPT !.at = "nonce", !.who = c, !.id = next_id]
      /\ down' = [down EXCEPT ![c] = down[c] \o <<IdWord(next_id)>> \o
                     send_message_tcp(Message("CERT", 0, Nothing))]
      /\ next_id' = next_id + 1 /\ backlog' = Tail(backlog)
      /\ UNCHANGED <<clients, up, peer, app>>
  BY DEF lobby_accept, At
<1>2. /\ c \in Clients /\ Tail(backlog) \in Seq(Clients)
      /\ Len(backlog) \in Nat /\ Len(backlog) >= 1 /\ Len(Tail(backlog)) = Len(backlog) - 1
      /\ \A k \in 1..Len(Tail(backlog)) : Tail(backlog)[k] = backlog[k + 1]
      /\ c = backlog[1]
  BY <1>1, HeadTailProperties, EmptySeq, LenProperties
<1>3. /\ thread' \in Threads /\ thread'.at = "nonce" /\ thread'.who = c /\ thread'.id = next_id
  BY <1>1, <1>2 DEF Threads, Places
<1>4. c \in Waiters(backlog)
  BY <1>2 DEF Waiters
<1>5. /\ peer[c].at \in {"cert", "gone"} /\ c \notin Who(clients)
      /\ up[c] = << >> /\ down[c] = << >>
  BY <1>2, <1>4 DEF Stage, Unserved
<1>6. down'[c] = IdAndCert(next_id) /\ DOMAIN down' = Clients
      /\ \A x \in Clients : x # c => down'[x] = down[x]
  BY <1>1, <1>2, <1>5, IdAndCertFacts
<1>7. /\ Waiters(backlog') \subseteq Waiters(backlog) /\ c \notin Waiters(backlog')
  <2>1. \A k \in 1..Len(Tail(backlog)) : k + 1 \in 1..Len(backlog) /\ k + 1 # 1
    BY <1>2
  <2>2. \A k \in 1..Len(Tail(backlog)) : backlog[k + 1] # backlog[1]
    BY <1>2, <2>1 DEF SessionInv, Ordered
  <2> QED
    BY <1>1, <1>2, <2>1, <2>2 DEF Waiters
<1>8. Served(thread') = {c}
  BY <1>3 DEF Served
<1> HIDE DEF c
<1>9. ASSUME NEW x \in Clients PROVE StageOf(x)'
  <2>1. CASE x = c
    <3>1. \A k \in 1..Len(clients) : clients[k].who # c
      BY <1>5 DEF Who
    <3>2. IdAndCert(next_id) \in Seq(HandshakeDown)
      BY IdAndCertSeq
    <3>3. AtNonce(c, peer[c], up[c], IdAndCert(next_id), thread')
      BY <1>3, <1>5 DEF AtNonce
    <3>4. Stage(c, peer[c], up[c], IdAndCert(next_id), thread', clients, backlog')
      <4>1. Stage(c, peer[c], up[c], down[c], thread, clients, backlog)
        BY <1>2
      <4> QED
        BY <1>3, <1>5, <1>7, <3>1, <3>2, <3>3, <4>1 DEF Stage, Unserved
    <3> QED
      BY <1>1, <1>6, <2>1, <3>4 DEF StageOf
  <2>2. CASE x # c
    <3>1. Stage(x, peer[x], up[x], down[x], thread', clients, backlog')
      BY <1>7, <1>8, <2>2, StageOther
    <3> QED
      BY <1>1, <1>6, <2>2, <3>1 DEF StageOf
  <2> QED
    BY <2>1, <2>2
<1>10. Ordered'
  <2>1. ASSUME NEW j \in 1..Len(backlog'), NEW k \in 1..Len(backlog'), backlog'[j] = backlog'[k]
        PROVE  j = k
    <3>1. j + 1 \in 1..Len(backlog) /\ k + 1 \in 1..Len(backlog) /\ backlog[j + 1] = backlog[k + 1]
      BY <1>1, <1>2, <2>1
    <3>2. j + 1 = k + 1
      BY <3>1 DEF SessionInv, Ordered
    <3> QED
      BY <1>1, <1>2, <3>2
  <2>2. \A k \in 1..Len(clients) : clients[k].id \in Nat /\ clients[k].id < next_id
    BY EntryFields DEF SessionInv, Ordered
  <2>3. \A k \in 1..Len(clients) : clients[k].id < next_id + 1 /\ clients[k].id # next_id
    BY <2>2
  <2>4. next_id < next_id + 1
    OBVIOUS
  <2> QED
    BY <1>1, <1>2, <1>3, <2>1, <2>3, <2>4 DEF SessionInv, Ordered
<1> QED
  BY <1>1, <1>2, <1>3, <1>6, <1>9, <1>10 DEF SessionInv, Typed, Turns

\* The nonce comes in: it is signed
LEMMA SignStep == ASSUME SessionInv, lobby_sign PROVE SessionInv'
<1> USE PeerOf, ThreadFields
<1> DEFINE c == thread.who
           text == NonceText(peer[c].nonce)
<1>1. /\ thread.at = "nonce" /\ up[c] # << >>
      /\ UNCHANGED <<clients, next_id, backlog, peer, app>>
      /\ up' = [up EXCEPT ![c] = Tail(up[c])]
  BY DEF lobby_sign, At
<1>2. c \in Clients /\ c \in Served(thread)
  BY <1>1 DEF Served, SessionInv, Ordered
<1>3. /\ up[c] = <<Nonce(thread.id, peer[c].nonce)>> /\ peer[c].id = thread.id
      /\ c \notin Who(clients) /\ peer[c].at \in {"auth", "gone"}
      /\ peer[c].at = "auth" => down[c] = << >>
      /\ down[c] \in Seq(HandshakeDown)
  BY <1>1, <1>2 DEF Stage, AtNonce
<1>4. Head(up[c]) = Nonce(thread.id, peer[c].nonce) /\ Tail(up[c]) = << >>
  BY <1>3
<1>5. Head(up[c]).type = "AUTH" /\ Head(up[c]).content.text = text
  BY <1>4 DEF Nonce, Message
<1>6. /\ down' = [down EXCEPT ![c] = down[c] \o Signed(text)]
      /\ thread' = [thread EXCEPT !.at = "key"]
  BY <1>5 DEF lobby_sign, Signed
<1>7. /\ thread' \in Threads /\ thread'.at = "key" /\ thread'.who = c /\ thread'.id = thread.id
  BY <1>6 DEF Threads, Places
<1>8. /\ Served(thread') = {c} /\ Served(thread) = {c}
  BY <1>1, <1>7 DEF Served
<1>9. /\ up'[c] = << >> /\ down'[c] = down[c] \o Signed(text)
      /\ DOMAIN up' = Clients /\ DOMAIN down' = Clients
      /\ \A x \in Clients : x # c => up'[x] = up[x] /\ down'[x] = down[x]
  BY <1>1, <1>2, <1>4, <1>6
<1>10. /\ down'[c] \in Seq(HandshakeDown)
       /\ peer[c].at = "auth" => down'[c] = Signed(text)
  <2>1. peer[c] \in Peers
    BY <1>2
  <2>2. Signed(text) \in Seq(HandshakeDown)
    BY <2>1, PeerFields, SignedSeq
  <2>3. down[c] \o Signed(text) \in Seq(HandshakeDown)
    BY <1>3, <2>2, ConcatProperties
  <2> QED
    BY <1>3, <1>9, <2>3, SignedFacts
<1>11. c \notin Waiters(backlog) /\ peer[c].at # "out"
  BY <1>2 DEF Stage, Unserved
<1>12. Stage(c, peer[c], up[c], down[c], thread, clients, backlog)
  BY <1>2
<1> HIDE DEF c
<1>13. ASSUME NEW x \in Clients PROVE StageOf(x)'
  <2>1. CASE x = c
    <3>1. \A k \in 1..Len(clients) : clients[k].who # c
      BY <1>3 DEF Who
    <3>2. AtKey(c, peer[c], up'[c], down'[c], thread')
      BY <1>3, <1>7, <1>9, <1>10 DEF AtKey
    <3>3. << >> \in Seq(HandshakeUp)
      OBVIOUS
    <3>4. Stage(c, peer[c], up'[c], down'[c], thread', clients, backlog)
      BY <1>3, <1>7, <1>9, <1>10, <1>11, <1>12, <3>1, <3>2, <3>3 DEF Stage, Unserved
    <3> QED
      BY <1>1, <2>1, <3>4 DEF StageOf
  <2>2. CASE x # c
    <3>1. Stage(x, peer[x], up[x], down[x], thread', clients, backlog)
      BY <1>8, <2>2, StageOther
    <3> QED
      BY <1>1, <1>9, <2>2, <3>1 DEF StageOf
  <2> QED
    BY <2>1, <2>2
<1>14. Ordered'
  BY <1>1, <1>7, <1>8, <1>2 DEF SessionInv, Ordered, c
<1> QED
  BY <1>1, <1>7, <1>9, <1>13, <1>14 DEF SessionInv, Typed, Turns

\* The key comes in: the client is on the list
LEMMA AddStep == ASSUME SessionInv, lobby_add PROVE SessionInv'
<1> USE PeerOf, ThreadFields
<1> DEFINE c == thread.who
           new == [id |-> thread.id, who |-> c, sesskey |-> c]
<1>1. /\ thread.at = "key" /\ up[c] # << >>
      /\ UNCHANGED <<next_id, backlog, down, peer, app>>
      /\ up' = [up EXCEPT ![c] = Tail(up[c])]
  BY DEF lobby_add, At
<1>2. c \in Clients /\ c \in Served(thread) /\ Served(thread) = {c}
  BY <1>1 DEF Served, SessionInv, Ordered
<1>3. /\ up[c] = <<Key(thread.id, c)>> /\ c \notin Who(clients)
      /\ peer[c].id = thread.id /\ peer[c].sesskey = c /\ peer[c].nonce = "clean"
      /\ peer[c].at \in {"joined", "gone"}
  BY <1>1, <1>2 DEF Stage, AtKey
<1>4. Head(up[c]) = Key(thread.id, c)
  BY <1>3
<1>5. Head(up[c]).type = "KEY" /\ rsa_decrypt_block(Head(up[c]).content) = c
  BY <1>4 DEF Key, Message, rsa_decrypt_block, rsa_encrypt_block
<1>6. clients' = Append(clients, new) /\ thread' = [thread EXCEPT !.at = "lobby"]
  BY <1>5 DEF lobby_add, add_to_list
<1>7. thread' \in Threads /\ thread'.at = "lobby" /\ Served(thread') = {}
  BY <1>6 DEF Threads, Places, Served
<1>8. DOMAIN up' = Clients /\ \A x \in Clients : x # c => up'[x] = up[x]
  BY <1>1, <1>2
<1>9. new \in Entries /\ new.id = thread.id /\ new.who = c /\ new.sesskey = c
  BY <1>2 DEF Entries
<1> HIDE DEF new
<1>10. /\ clients' \in Seq(Entries) /\ Len(clients') = Len(clients) + 1 /\ Len(clients) \in Nat
       /\ \A k \in 1..Len(clients) : clients'[k] = clients[k]
       /\ clients'[Len(clients) + 1] = new
  BY <1>6, <1>9, AppendProperties
<1>11. \A k \in 1..Len(clients') : k \in 1..Len(clients) \/ k = Len(clients) + 1
  BY <1>10
<1>12. Who(clients') = Who(clients) \cup {c}
  <2>1. \A k \in 1..Len(clients) : k \in 1..Len(clients')
    BY <1>10
  <2>2. Len(clients) + 1 \in 1..Len(clients')
    BY <1>10
  <2> QED
    BY <1>9, <1>10, <1>11, <2>1, <2>2 DEF Who
<1>13. c \notin Waiters(backlog) /\ peer[c].at # "out" /\ peer[c] \in Peers
  BY <1>2 DEF Stage, Unserved
<1>14. \A k \in 1..Len(clients) : clients[k].who # c
  BY <1>3 DEF Who
<1> HIDE DEF c
<1>15. ASSUME NEW x \in Clients PROVE StageOf(x)'
  <2>1. CASE x = c
    <3>1. \A k \in 1..Len(clients') : clients'[k].who = c => Agreed(c, peer[c], clients'[k])
      BY <1>3, <1>9, <1>10, <1>11, <1>14 DEF Agreed
    <3>2. c \in Who(clients') /\ c \notin Served(thread')
      BY <1>7, <1>12
    <3>3. Stage(c, peer[c], up'[c], down[c], thread', clients', backlog)
      BY <1>3, <1>13, <3>1, <3>2 DEF Stage, Unserved
    <3> QED
      BY <1>1, <2>1, <3>3 DEF StageOf
  <2>2. CASE x # c
    <3>1. Stage(x, peer[x], up[x], down[x], thread, clients, backlog)
      OBVIOUS
    <3>2. x \in Who(clients') <=> x \in Who(clients)
      BY <1>12, <2>2
    <3>3. \A k \in 1..Len(clients') : clients'[k].who = x => Agreed(x, peer[x], clients'[k])
      BY <1>9, <1>10, <1>11, <2>2, <3>1 DEF Stage
    <3>4. Stage(x, peer[x], up[x], down[x], thread', clients', backlog)
      BY <1>7, <3>1, <3>2, <3>3 DEF Stage, Unserved
    <3> QED
      BY <1>1, <1>8, <2>2, <3>4 DEF StageOf
  <2> QED
    BY <2>1, <2>2
<1>16. Ordered'
  <2>1. thread.id < next_id /\ \A k \in 1..Len(clients) : clients[k].id # thread.id
    BY <1>2 DEF SessionInv, Ordered
  <2>2. ASSUME NEW j \in 1..Len(clients'), NEW k \in 1..Len(clients'),
               clients'[j].id = clients'[k].id \/ clients'[j].who = clients'[k].who
        PROVE  j = k
    BY <1>9, <1>10, <1>11, <1>14, <2>1, <2>2, SMTT(30) DEF SessionInv, Ordered
  <2>3. \A k \in 1..Len(clients') : clients'[k].id < next_id
    BY <1>9, <1>10, <1>11, <2>1 DEF SessionInv, Ordered
  <2> QED
    BY <1>1, <1>7, <2>2, <2>3 DEF SessionInv, Ordered
<1> QED
  BY <1>1, <1>7, <1>8, <1>10, <1>15, <1>16 DEF SessionInv, Typed, Turns

\* The thread goes on outside a handshake: a client it served is gone, or the
\* server is
LEMMA ThreadStep ==
  ASSUME SessionInv, thread' \in Threads, Served(thread') = {},
         thread'.at = "start" => thread'.turn <= Len(clients),
         app' \in Apps, UNCHANGED <<clients, next_id, backlog, peer, up>>,
         DOMAIN down' = Clients, \A x \in Clients : x \in Who(clients) \/ down'[x] = down[x]
  PROVE  SessionInv'
<1> USE PeerOf
<1>1. Typed' /\ Ordered' /\ Turns'
  BY DEF SessionInv, Typed, Ordered, Turns
<1>2. ASSUME NEW x \in Clients PROVE StageOf(x)'
  <2>1. Stage(x, peer[x], up[x], down[x], thread', clients, backlog)
    BY StageOther
  <2>2. Stage(x, peer[x], up[x], down'[x], thread', clients, backlog)
    <3>1. CASE x \in Who(clients)
      BY <2>1, <3>1, StageMember, Zenon
    <3>2. CASE down'[x] = down[x]
      BY <2>1, <3>2
    <3> QED
      BY <3>1, <3>2
  <2> QED
    BY <2>2 DEF StageOf
<1> QED
  BY <1>1, <1>2 DEF SessionInv

\* A step that only writes to members, or takes from them
LEMMA MemberStep ==
  ASSUME SessionInv, app' \in Apps, UNCHANGED <<thread, clients, next_id, backlog, peer>>,
         DOMAIN down' = Clients, DOMAIN up' = Clients,
         \A x \in Clients : x \in Who(clients) \/ (down'[x] = down[x] /\ up'[x] = up[x])
  PROVE  SessionInv'
<1> USE PeerOf
<1>1. Typed' /\ Ordered' /\ Turns'
  BY DEF SessionInv, Typed, Ordered, Turns, Served
<1>2. ASSUME NEW x \in Clients PROVE StageOf(x)'
  <2>1. Stage(x, peer[x], up[x], down[x], thread, clients, backlog)
    OBVIOUS
  <2>2. Stage(x, peer[x], up'[x], down'[x], thread, clients, backlog)
    <3>1. CASE x \in Who(clients)
      BY <2>1, <3>1, StageMember, Zenon
    <3>2. CASE down'[x] = down[x] /\ up'[x] = up[x]
      BY <2>1, <3>2
    <3> QED
      BY <3>1, <3>2
  <2> QED
    BY <2>2 DEF StageOf
<1> QED
  BY <1>1, <1>2 DEF SessionInv

\* The rest of the background thread's steps
LEMMA ServerThreadStep == ASSUME SessionInv, ServerThread PROVE SessionInv'
<1> USE PeerOf, ThreadFields
<1>0. DOMAIN down = Clients /\ DOMAIN up = Clients
  BY DEF SessionInv, Typed
<1>1. CASE server_idle_state
  <2>1. thread' \in Threads /\ thread'.at = "lobby" /\ Served(thread') = {}
    BY <1>1 DEF server_idle_state, Threads, Places, Served
  <2> QED
    BY <1>0, <1>1, <2>1, ThreadStep DEF server_idle_state, netVars
<1>2. CASE lobby_cleanup
  <2>1. thread' \in Threads /\ thread'.at = "lobby" /\ Served(thread') = {}
    BY <1>2 DEF lobby_cleanup, Threads, Places, Served
  <2> QED
    BY <1>0, <1>2, <2>1, ThreadStep DEF lobby_cleanup, netVars
<1>3. CASE server_game_state
  <2>1. CASE clients = << >>
    BY <1>3, <2>1, SilentStep DEF server_game_state, netVars
  <2>2. CASE clients # << >>
    <3>1. thread' = [thread EXCEPT !.at = "start", !.turn = 1, !.half = "head"]
      BY <1>3, <2>2 DEF server_game_state
    <3>2. thread' \in Threads /\ thread'.turn = 1 /\ Served(thread') = {}
      <4>1. "start" \in Places /\ 1 \in Nat \ {0} /\ "head" \in {"head", "body"}
        BY DEF Places
      <4>2. thread \in Threads
        OBVIOUS
      <4>3. [thread EXCEPT !.at = "start", !.turn = 1, !.half = "head"] \in Threads
        BY ONLY <4>1, <4>2, ThreadMoved
      <4>4. thread' \in Threads /\ thread'.turn = 1 /\ thread'.at = "start"
        <5>1. DOMAIN thread = {"at", "who", "id", "turn", "half"}
          BY DEF Threads
        <5> QED
          BY ONLY <3>1, <4>3, <5>1
      <4> QED
        BY <4>4 DEF Served
    <3>3. Len(clients) \in Nat /\ Len(clients) >= 1
      BY <2>2, EmptySeq, LenProperties
    <3> QED
      BY <1>0, <1>3, <3>2, <3>3, ThreadStep DEF server_game_state, netVars
  <2> QED
    BY <2>1, <2>2
<1>4. CASE send_start
  <2> DEFINE who == clients[thread.turn].who
             next == [thread EXCEPT !.turn = NextTurn(thread), !.half = Flip(@)]
  <2>1. thread.at = "start" /\ thread.turn \in 1..Len(clients)
    <3>1. Len(clients) \in Nat
      BY LenProperties
    <3> QED
      BY <1>4, <3>1 DEF send_start, At, SessionInv, Turns
  <2>2. who \in Who(clients) /\ who \in Clients
    BY <2>1, EntryFields DEF Who
  <2>3. next \in Threads /\ next.turn \in Nat \ {0}
    <3>1. NextTurn(thread) \in Nat \ {0} /\ Flip(thread.half) \in {"head", "body"}
      BY DEF NextTurn, Flip
    <3> QED
      BY <3>1 DEF Threads
  <2> HIDE DEF next
  <2>4. thread' = [next EXCEPT !.at = IF next.turn > Len(clients) THEN "game" ELSE @]
    BY <1>4 DEF send_start, next
  <2>5. next.at = "start"
    BY <2>1 DEF next, Threads
  <2>6. /\ thread' \in Threads /\ thread'.turn = next.turn
        /\ thread'.at = IF next.turn > Len(clients) THEN "game" ELSE "start"
    BY <2>3, <2>4, <2>5 DEF Threads, Places
  <2>7. Served(thread') = {} /\ (thread'.at = "start" => thread'.turn <= Len(clients))
    <3>1. Len(clients) \in Nat
      BY LenProperties
    <3> QED
      BY <2>3, <2>6, <3>1 DEF Served
  <2>8. DOMAIN down' = Clients /\ \A x \in Clients : x \in Who(clients) \/ down'[x] = down[x]
    BY <1>0, <1>4, <2>2 DEF send_start, Write
  <2> QED
    BY <1>4, <2>6, <2>7, <2>8, ThreadStep DEF send_start
<1>5. CASE server_end_state
  <2>1. thread' \in Threads /\ thread'.at = "done" /\ Served(thread') = {}
    BY <1>5 DEF server_end_state, Threads, Places, Served
  <2>2. Members = Who(clients)
    BY DEF Members, Who
  <2>3. DOMAIN down' = Clients /\ \A x \in Clients : x \in Who(clients) \/ down'[x] = down[x]
    BY <1>5, <2>2 DEF server_end_state
  <2> QED
    BY <1>5, <2>1, <2>3, ThreadStep DEF server_end_state
<1>6. CASE game_udp
  BY <1>6, SilentStep DEF game_udp, serverVars
<1>7. ASSUME NEW c \in Clients, game_tcp(c) PROVE SessionInv'
  <2>1. /\ up' = [up EXCEPT ![c] = Tail(up[c])] /\ up[c] # << >> /\ thread.at = "game"
        /\ UNCHANGED <<thread, app, clients, next_id, backlog, peer, down>>
    BY <1>7 DEF game_tcp, serverVars, At
  <2>2. DOMAIN up' = Clients /\ up'[c] = Tail(up[c]) /\ \A x \in Clients : x # c => up'[x] = up[x]
    BY <1>0, <2>1
  <2>3. c \notin Waiters(backlog) /\ peer[c].at # "out" /\ c \notin Served(thread)
    BY <2>1 DEF Stage, Unserved, Served
  <2>4. c \notin Who(clients) => Tail(up[c]) \in Seq(HandshakeUp)
    BY <2>1, RestSeq DEF Stage
  <2>5. Stage(c, peer[c], Tail(up[c]), down[c], thread, clients, backlog)
    BY <2>3, <2>4 DEF Stage, Unserved
  <2> QED
    BY <1>0, <2>1, <2>2, <2>5, LocalStep
<1>8. ASSUME NEW c \in Clients, game_eof(c) PROVE SessionInv'
  BY <1>8, SilentStep DEF game_eof, netVars
<1> QED
  BY <1>1, <1>2, <1>3, <1>4, <1>5, <1>6, <1>7, <1>8, AcceptStep, SignStep, AddStep
  DEF ServerThread

\* The steps of the application thread
LEMMA AppStep ==
  ASSUME SessionInv,
         \/ brserver_open \/ brserver_start \/ brserver_send_to_all \/ brserver_send_to_target
         \/ brserver_send_broadcast \/ push_half \/ brserver_get_app_msg \/ take_locked
         \/ brserver_end \/ exit_process \/ LoseDatagram
  PROVE  SessionInv'
<1> USE PeerOf, ThreadFields
<1>0. DOMAIN down = Clients /\ DOMAIN up = Clients
  BY DEF SessionInv, Typed
<1>1. CASE brserver_open \/ brserver_start \/ brserver_end \/ LoseDatagram
  BY <1>1, SilentStep DEF brserver_open, brserver_start, brserver_end, LoseDatagram,
                          serverVars, netVars
<1>2. ASSUME app' \in Apps, UNCHANGED <<thread, clients, next_id, backlog, peer, up, down>>
      PROVE  SessionInv'
  BY <1>0, <1>2, MemberStep
<1>3. CASE brserver_send_broadcast
  <2>1. app' = [app EXCEPT !.n = app.n + 1] /\ app \in Apps
    BY <1>3 DEF brserver_send_broadcast
  <2>2. app' \in Apps
    BY ONLY <2>1 DEF Apps
  <2> QED
    BY <1>2, <1>3, <2>2 DEF brserver_send_broadcast, serverVars
<1>4. CASE brserver_send_to_all
  <2> DEFINE at == IF clients = << >> THEN "free" ELSE "push"
  <2>1. app' = [app EXCEPT !.at = at, !.turn = 1, !.half = "head", !.to = {}, !.n = @ + 1]
    BY <1>4 DEF brserver_send_to_all
  <2>2. app' \in Apps
    <3>1. at \in {"free", "push", "take", "exited"} /\ "head" \in {"head", "body"}
      OBVIOUS
    <3> HIDE DEF at
    <3>2. 1 \in Nat \ {0} /\ app.n + 1 \in Nat /\ {} \in SUBSET Clients
      BY AppFields
    <3> QED
      BY <2>1, <3>1, <3>2, AppMoved, Zenon
  <2> QED
    BY <1>2, <1>4, <2>2 DEF brserver_send_to_all, serverVars, netVars
<1>5. CASE brserver_send_to_target
  <2>1. PICK id \in {clients[k].id : k \in 1..Len(clients)} :
          app' = [app EXCEPT !.at = "push", !.turn = CHOOSE k \in Listed(id) : TRUE,
                             !.half = "head", !.to = {get_from_list(id).who}, !.n = @ + 1]
    BY <1>5 DEF brserver_send_to_target
  <2>2. Listed(id) # {} /\ Listed(id) \subseteq 1..Len(clients)
    BY DEF Listed
  <2> DEFINE turn == CHOOSE k \in Listed(id) : TRUE
             who == get_from_list(id).who
  <2>3. turn \in 1..Len(clients)
    BY <2>2
  <2>4. who \in Clients
    <3>1. \A j, k \in Listed(id) : j = k
      BY DEF Listed, SessionInv, Ordered
    <3>2. \E k \in Listed(id) : \A j \in Listed(id) : k <= j
      BY <2>2, <3>1
    <3>3. PICK k \in Listed(id) : get_from_list(id) = clients[k]
      BY <3>2 DEF get_from_list
    <3> QED
      BY <2>2, <3>3, EntryFields
  <2>5. turn \in Nat \ {0} /\ {who} \in SUBSET Clients
    <3>1. Len(clients) \in Nat
      BY LenProperties
    <3> HIDE DEF turn, who
    <3> QED
      BY <2>3, <2>4, <3>1
  <2> HIDE DEF turn, who
  <2>6. app' = [app EXCEPT !.at = "push", !.turn = turn, !.half = "head", !.to = {who},
                           !.n = @ + 1]
    BY <2>1 DEF turn, who
  <2>7. app' \in Apps
    <3>1. "push" \in {"free", "push", "take", "exited"} /\ "head" \in {"head", "body"}
      OBVIOUS
    <3>2. app.n + 1 \in Nat
      BY AppFields
    <3> QED
      BY <2>5, <2>6, <3>1, <3>2, AppMoved, Zenon
  <2> QED
    BY <1>2, <1>5, <2>7 DEF brserver_send_to_target, serverVars, netVars
<1>6. CASE push_half
  <2> DEFINE to == clients[app.turn]
             m == IF app.to = {} THEN Message("APP", 0, Plain(Push(app.n)))
                  ELSE Message("APP_ENC", 0, session_encrypt(to.sesskey, Push(app.n)))
             next == [app EXCEPT !.turn = NextTurn(app), !.half = Flip(@)]
  <2>1. app.turn \in 1..Len(clients)
    <3>1. Len(clients) \in Nat
      BY LenProperties
    <3> QED
      BY <1>6, <3>1 DEF push_half
  <2>2. to.who \in Who(clients) /\ to.who \in Clients
    BY <2>1, EntryFields DEF Who
  <2>3. down' = [down EXCEPT ![to.who] = Append(down[to.who], Half(app.half, m))]
    BY <1>6 DEF push_half, Write
  <2>4. DOMAIN down' = Clients /\ \A x \in Clients : x \in Who(clients) \/ down'[x] = down[x]
    <3> HIDE DEF m, to
    <3> QED
      BY <1>0, <2>2, <2>3
  <2>5. next \in Apps
    <3>1. NextTurn(app) \in Nat \ {0} /\ Flip(app.half) \in {"head", "body"}
      BY DEF NextTurn, Flip
    <3> QED
      BY <3>1 DEF Apps
  <2>6. app' = [next EXCEPT !.at = "free", !.turn = 1, !.to = {}] \/ app' = next
    BY <1>6 DEF push_half
  <2> HIDE DEF next
  <2>7. app' \in Apps
    <3>1. "free" \in {"free", "push", "take", "exited"} /\ "head" \in {"head", "body"}
      OBVIOUS
    <3>2. 0 \in Nat /\ 1 \in Nat \ {0} /\ {} \in SUBSET Clients
      OBVIOUS
    <3>3. [next EXCEPT !.at = "free", !.turn = 1, !.to = {}] \in Apps
      BY ONLY <2>5, <3>1, <3>2, AppMoved, Zenon
    <3> QED
      BY ONLY <2>5, <2>6, <3>3, Zenon
  <2> QED
    BY <1>0, <1>6, <2>4, <2>7, MemberStep DEF push_half, serverVars
<1>7. CASE brserver_get_app_msg
  <2>1. app' \in Apps
    BY <1>7 DEF brserver_get_app_msg, Apps
  <2> QED
    BY <1>2, <1>7, <2>1 DEF brserver_get_app_msg, serverVars, netVars
<1>8. CASE take_locked
  <2>1. app' \in Apps
    BY <1>8 DEF take_locked, Apps
  <2> QED
    BY <1>2, <1>8, <2>1 DEF take_locked, serverVars, netVars
<1>9. CASE exit_process
  <2>1. app' \in Apps
    BY <1>9 DEF exit_process, Apps
  <2>2. thread' \in Threads /\ thread'.at = "done" /\ Served(thread') = {}
    BY <1>9 DEF exit_process, Threads, Places, Served
  <2> QED
    BY <1>0, <1>9, <2>1, <2>2, ThreadStep DEF exit_process, netVars
<1> QED
  BY <1>1, <1>3, <1>4, <1>5, <1>6, <1>7, <1>8, <1>9

LEMMA SessionInit == Init => SessionInv
<1> SUFFICES ASSUME Init PROVE SessionInv
  OBVIOUS
<1>1. Typed
  BY DEF Init, Idle, Typed, Threads, Apps, Places
<1>2. Ordered /\ Turns
  BY DEF Init, Ordered, Turns, Served
<1>3. ASSUME NEW c \in Clients PROVE StageOf(c)
  <2>1. /\ peer[c] = [at |-> "out", state |-> "IDLE", id |-> 0, nonce |-> "clean",
                      sesskey |-> NoKey, polls |-> TRUE]
        /\ up[c] = << >> /\ down[c] = << >> /\ clients = << >> /\ backlog = << >>
        /\ thread.at = "idle"
    BY DEF Init
  <2>2. peer[c] \in Peers /\ peer[c].at = "out" /\ peer[c].state = "IDLE"
    BY <2>1 DEF Peers
  <2>3. Who(clients) = {} /\ Waiters(backlog) = {} /\ Served(thread) = {}
    BY <2>1 DEF Who, Waiters, Served
  <2>4. \A k \in 1..Len(clients) : FALSE
    BY <2>1
  <2> QED
    BY <2>1, <2>2, <2>3, <2>4 DEF StageOf, Stage, Unserved
<1> QED
  BY <1>1, <1>2, <1>3 DEF SessionInv

\* The stages of all the sessions form an inductive invariant
THEOREM SessionStages == Spec => []SessionInv
<1>1. SessionInv /\ [Next]_vars => SessionInv'
  <2> SUFFICES ASSUME SessionInv, [Next]_vars PROVE SessionInv'
    OBVIOUS
  <2>1. CASE ServerThread
    BY <2>1, ServerThreadStep
  <2>2. CASE \/ brserver_open \/ brserver_start \/ brserver_send_to_all \/ brserver_send_to_target
             \/ brserver_send_broadcast \/ push_half \/ brserver_get_app_msg \/ take_locked
             \/ brserver_end \/ exit_process \/ LoseDatagram
    BY <2>2, AppStep
  <2>3. ASSUME NEW c \in Clients, Join(c) PROVE SessionInv'
    BY <2>3, JoinNonceStep, JoinKeyStep, ClientStep DEF Join
  <2>4. ASSUME NEW c \in Clients, ClientThread(c) PROVE SessionInv'
    BY <2>4, ClientThreadStep
  <2>5. ASSUME NEW c \in Clients,
               \/ connect_on_tcp(c) \/ Leave(c) \/ brclient_send_msg(c)
               \/ brclient_send_msg_udp(c) \/ brclient_get_app_msg(c)
        PROVE  SessionInv'
    BY <2>5, ClientStep
  <2>6. CASE UNCHANGED vars
    BY <2>6, SilentStep DEF vars, serverVars, netVars
  <2> QED
    BY <2>1, <2>2, <2>3, <2>4, <2>5, <2>6 DEF Next
<1> QED
  BY <1>1, SessionInit, PTL DEF Spec

\* However joins, departures, pushes and the end of the server interleave, a
\* client on the list is there once, under the id and the key it holds itself,
\* and it has checked the server's signature of its own nonce (server.c:265-298,
\* client.c:361-416)
THEOREM SessionsAlwaysAgree == Spec => []SessionsAgree
<1>1. SessionInv => SessionsAgree
  <2> SUFFICES ASSUME SessionInv PROVE SessionsAgree
    OBVIOUS
  <2>1. ASSUME NEW k \in 1..Len(clients)
        PROVE  /\ peer[clients[k].who].id = clients[k].id
               /\ peer[clients[k].who].sesskey = clients[k].sesskey
               /\ peer[clients[k].who].nonce = NonceText(peer[clients[k].who].nonce)
    <3>1. clients[k].who \in Clients
      BY EntryFields
    <3>2. Agreed(clients[k].who, peer[clients[k].who], clients[k])
      BY <3>1, PeerOf DEF Stage
    <3> QED
      BY <3>2 DEF Agreed, NonceText
  <2> QED
    BY <2>1 DEF SessionsAgree, SessionInv, Ordered
<1> QED
  BY <1>1, SessionStages, PTL

-----------------------------------------------------------------------------
(* The queue of the server, between its two threads *)

\* The indices are in order, and what the application saw before it locked is
\* still there
Bounds(q) == q.front \in Int /\ q.rear \in Int /\ q.front < q.rear
HeldInv == Bounds(server_messages) /\ (app.at = "take" => ~Q!empty(server_messages))

\* The only item taken out empties the queue; the rest leave it in order
LEMMA BoundsKept ==
  ASSUME NEW q, Bounds(q), NEW v
  PROVE  /\ Bounds(Q!enqueue(q, v)) /\ Bounds(Q!dequeue(q))
         /\ ~Q!empty(q) => ~Q!empty(Q!enqueue(q, v))
<1>1. Bounds(Q!dequeue(q))
  BY DEF Bounds, Q!dequeue, Q!empty
<1>2. Q!enqueue(q, v) = q \/ (Q!enqueue(q, v).front = q.front /\ Q!enqueue(q, v).rear = q.rear + 1)
  BY DEF Q!enqueue
<1> QED
  BY <1>1, <1>2 DEF Bounds, Q!empty

\* Only the background thread adds and only the application removes
LEMMA HeldStep == ASSUME SessionInv, HeldInv, [Next]_vars PROVE HeldInv'
<1>1. app \in Apps
  BY ThreadFields
<1>2. ASSUME app'.at = "take" => app.at = "take", UNCHANGED server_messages PROVE HeldInv'
  BY <1>2 DEF HeldInv, Bounds, Q!empty
<1>3. ASSUME UNCHANGED app, UNCHANGED server_messages PROVE HeldInv'
  BY <1>2, <1>3
<1>4. ASSUME NEW m, Enqueue(m), UNCHANGED app PROVE HeldInv'
  <2>1. server_messages' = server_messages \/ server_messages' = Q!enqueue(server_messages, Payload(m))
    BY <1>4 DEF Enqueue
  <2>2. Bounds(server_messages') /\ (~Q!empty(server_messages) => ~Q!empty(server_messages'))
    BY <2>1, BoundsKept DEF HeldInv
  <2> QED
    BY <1>4, <2>2 DEF HeldInv, Bounds, Q!empty
<1>5. CASE ServerThread
  <2>1. CASE game_udp
    BY <1>4, <2>1 DEF game_udp
  <2>2. ASSUME NEW c \in Clients, game_tcp(c) PROVE HeldInv'
    BY <1>4, <2>2 DEF game_tcp
  <2> QED
    BY <1>3, <1>5, <2>1, <2>2
    DEF ServerThread, server_idle_state, lobby_accept, lobby_sign, lobby_add, lobby_cleanup,
        server_game_state, send_start, server_end_state, game_eof
<1>6. CASE \/ brserver_open \/ brserver_start \/ brserver_end \/ LoseDatagram \/ UNCHANGED vars
  BY <1>3, <1>6 DEF brserver_open, brserver_start, brserver_end, LoseDatagram, vars
<1>7. CASE \/ brserver_send_to_all \/ brserver_send_to_target \/ brserver_send_broadcast
           \/ exit_process
  <2>1. UNCHANGED server_messages
    BY <1>7 DEF brserver_send_to_all, brserver_send_to_target, brserver_send_broadcast,
                exit_process
  <2>2. app'.at # "take"
    BY <1>1, <1>7 DEF brserver_send_to_all, brserver_send_to_target, brserver_send_broadcast,
                      exit_process, MayPush, Apps
  <2> QED
    BY <1>2, <2>1, <2>2
<1>8. CASE push_half
  <2>1. UNCHANGED server_messages /\ app.at = "push"
    BY <1>8 DEF push_half
  <2> DEFINE next == [app EXCEPT !.turn = NextTurn(app), !.half = Flip(@)]
  <2>2. app' = [next EXCEPT !.at = "free", !.turn = 1, !.to = {}] \/ app' = next
    BY <1>8 DEF push_half
  <2>3. next.at = "push" /\ DOMAIN next = {"at", "turn", "half", "to", "n"}
    BY <1>1, <2>1 DEF Apps
  <2> HIDE DEF next
  <2>4. app'.at # "take"
    BY <2>2, <2>3
  <2> QED
    BY <1>2, <2>1, <2>4
<1>9. CASE brserver_get_app_msg
  BY <1>9 DEF brserver_get_app_msg, HeldInv, Bounds, Q!empty
<1>10. CASE take_locked
  <2>1. app'.at = "free"
    BY <1>1, <1>10 DEF take_locked, Apps
  <2>2. Bounds(server_messages')
    BY <1>10, BoundsKept DEF take_locked, HeldInv
  <2> QED
    BY <2>1, <2>2 DEF HeldInv, Bounds
<1>11. ASSUME NEW c \in Clients,
              \/ connect_on_tcp(c) \/ Join(c) \/ ClientThread(c) \/ brclient_send_msg(c)
              \/ brclient_send_msg_udp(c) \/ brclient_get_app_msg(c) \/ Leave(c)
       PROVE  HeldInv'
  BY <1>3, <1>11
  DEF connect_on_tcp, Join, join_nonce, join_key, join_lobby, join_fails, ClientThread,
      client_lobby_state, client_game_state, client_game_udp, client_game_eof, brclient_send_msg,
      brclient_send_msg_udp, brclient_get_app_msg, Leave
<1> QED
  BY <1>5, <1>6, <1>7, <1>8, <1>9, <1>10, <1>11 DEF Next

\* The emptiness test of brserver_get_app_msg is made outside the lock, and is
\* still true inside it: the background thread only adds, and a queue that is
\* full keeps what it has (server.c:770-791, utils/queue.h)
THEOREM TakeAlwaysFinds == Spec => []TakeFindsMessage
<1>1. Init => HeldInv
  BY DEF Init, Idle, HeldInv, Bounds, Q!queue_init
<1>2. HeldInv => TakeFindsMessage
  BY DEF HeldInv, TakeFindsMessage
<1> QED
  BY <1>1, <1>2, HeldStep, SessionStages, PTL DEF Spec
=============================================================================
