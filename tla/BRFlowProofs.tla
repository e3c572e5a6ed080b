---------------------------- MODULE BRFlowProofs ----------------------------
(*************************************************************************)
(* The way of the application messages over TCP, proved of BRLink.  Up:  *)
(* each message of a client is given to the server's application once    *)
(* and in the order sent, or is in flight, or was refused by a full      *)
(* queue. Down: what the server's application sends comes to a client in *)
(* order and, unless its queue refused some, completely.  Both rest on   *)
(* the stages of BRLinkProofs: only a client on the list has application *)
(* messages in flight, and they open with the key the two ends agree on. *)
(*************************************************************************)
EXTENDS BRLinkProofs, NatFacts, FiniteSetTheorems

\* What the application is given, and what is on its way to it
Notes == [from : Clients, via : {"tcp", "udp"}, n : Nat]
TcpNotes == [from : Clients, via : {"tcp"}, n : Nat]
UdpNotes == [from : Clients, via : {"udp"}, n : Nat]
Keys == Clients \cup {NoKey}
Contents == [tag : {"token"}, key : Keys, plain : TcpNotes]
            \cup [tag : {"text"}, text : {"clean", "cut nonce"}]
            \cup [tag : {"wrapped"}, key : Clients]
Frames == [type : {"AUTH", "KEY", "APP_ENC"}, source_id : Nat, content : Contents]
Datagrams == [type : {"APP_ENC"}, source_id : Nat,
              content : [tag : {"token"}, key : Keys, plain : UdpNotes]]

\* The indices of the queue, and items of S between them
Filled(q, S) ==
  /\ q.front \in Int /\ q.rear \in Int /\ -1 <= q.front /\ q.front < q.rear /\ q.rear <= MaxSize
  /\ DOMAIN q.items = 0..(MaxSize - 1)
  /\ \A k \in (q.front + 1)..(q.rear - 1) : q.items[k] \in S

Shaped(q) == Filled(q, Notes)

Sealeds(u) == {k \in 1..Len(u) : u[k].type = "APP_ENC"}
Num(m) == m.content.plain.n

\* A message of client c, which is process p
Carried(c, p, m) ==
  /\ m.source_id = p.id /\ m.content.tag = "token" /\ m.content.key = p.sesskey
  /\ m.content.plain \in Notes /\ m.content.plain.from = c /\ m.content.plain.via = "tcp"

\* The messages of client c in flight (u) and given out (s): their numbers rise
\* along both, up to n, and r of them are missing
Flow(c, p, u, s, n, r) ==
  /\ u \in Seq(Frames) /\ n \in Nat /\ r \in Nat
  /\ \A k \in Sealeds(u) : Carried(c, p, u[k]) /\ Num(u[k]) <= n
  /\ \A j, k \in Sealeds(u) : j < k => Num(u[j]) < Num(u[k])
  /\ \A j \in Own(c, s) : s[j].n <= n /\ \A k \in Sealeds(u) : s[j].n < Num(u[k])
  /\ \A j, k \in Own(c, s) : j < k => s[j].n < s[k].n
  /\ Cardinality(Own(c, s)) + Cardinality(Sealeds(u)) + r = n

Given == taken \o Held(server_messages)

FlowInv ==
  /\ Shaped(server_messages) /\ taken \in Seq(Notes) /\ udp \subseteq Datagrams
  /\ sent \in [Clients -> [tcp : Nat, udp : Nat]]
  /\ refused \in [Clients -> [up : Nat, down : Nat]]
  /\ \A c \in Clients : Flow(c, peer[c], up[c], Given, sent[c].tcp, refused[c].up)

-----------------------------------------------------------------------------
(* Sequences and places in them *)

LEMMA AppendPlaces ==
  ASSUME NEW S, NEW s \in Seq(S), NEW v \in S
  PROVE  /\ Append(s, v) \in Seq(S) /\ Len(s) \in Nat /\ Len(Append(s, v)) = Len(s) + 1
         /\ \A k \in 1..Len(s) : Append(s, v)[k] = s[k]
         /\ Append(s, v)[Len(s) + 1] = v
  OBVIOUS

LEMMA TailPlaces ==
  ASSUME NEW S, NEW s \in Seq(S), s # << >>
  PROVE  /\ Tail(s) \in Seq(S) /\ Len(s) \in Nat /\ Len(s) >= 1 /\ Len(Tail(s)) = Len(s) - 1
         /\ \A k \in 1..(Len(s) - 1) : Tail(s)[k] = s[k + 1]
         /\ Head(s) = s[1] /\ Head(s) \in S
  OBVIOUS

LEMMA ConcatAppend ==
  ASSUME NEW S, NEW s \in Seq(S), NEW t \in Seq(S), NEW v \in S
  PROVE  s \o Append(t, v) = Append(s \o t, v)
  OBVIOUS

LEMMA ConcatMove ==
  ASSUME NEW S, NEW s \in Seq(S), NEW t \in Seq(S), t # << >>
  PROVE  Append(s, Head(t)) \o Tail(t) = s \o t
  OBVIOUS

\* One place more
LEMMA AddPlace ==
  ASSUME NEW n \in Nat, NEW A, A \subseteq 1..n
  PROVE  Cardinality(A) \in Nat /\ Cardinality(A \cup {n + 1}) = Cardinality(A) + 1
<1>1. n + 1 \notin A
  OBVIOUS
<1>2. IsFiniteSet(A) /\ Cardinality(A) \in Nat
  <2>1. 1 \in Int /\ n \in Int
    OBVIOUS
  <2> QED
    BY <2>1, IntervalSubset, Zenon
<1> QED
  BY <1>1, <1>2, FS_AddElement

\* The places B are the places A without the first, counted from there
Shifted(A, B) == B \subseteq Int /\ \A k \in Int : k \in B <=> k + 1 \in A \ {1}

\* The first place gone
LEMMA DropPlace ==
  ASSUME NEW n \in Nat, NEW A, A \subseteq 1..n, NEW B, Shifted(A, B)
  PROVE  /\ Cardinality(B) \in Nat
         /\ 1 \notin A => Cardinality(A) = Cardinality(B)
         /\ 1 \in A => Cardinality(A) = Cardinality(B) + 1
<1>1. IsFiniteSet(A) /\ Cardinality(A) \in Nat
  <2>1. 1 \in Int /\ n \in Int
    OBVIOUS
  <2> QED
    BY <2>1, IntervalSubset, Zenon
<1>2. IsFiniteSet(A \ {1}) /\ A \ {1} \subseteq Int /\ -1 \in Int
  BY <1>1, FS_Subset
<1>3. \A k \in Int : k \in B <=> k - (-1) \in A \ {1}
  <2>1. \A k \in Int : k - (-1) = k + 1
    OBVIOUS
  <2> QED
    BY <2>1 DEF Shifted
<1>4. Cardinality(B) = Cardinality(A \ {1})
  <2>1. B \subseteq Int
    BY DEF Shifted
  <2> QED
    BY ONLY <1>2, <1>3, <2>1, ShiftCardinality
<1>5. Cardinality(A \ {1}) = IF 1 \in A THEN Cardinality(A) - 1 ELSE Cardinality(A)
  BY <1>1, FS_RemoveElement
<1>6. Cardinality(A \ {1}) \in Nat
  BY <1>2, FS_CardinalityType
<1> QED
  BY <1>1, <1>4, <1>5, <1>6

LEMMA SealedAppend ==
  ASSUME NEW u \in Seq(Frames), NEW m \in Frames
  PROVE  /\ Append(u, m) \in Seq(Frames)
         /\ \A k \in Sealeds(u) : k \in 1..Len(u) /\ Append(u, m)[k] = u[k]
         /\ Append(u, m)[Len(u) + 1] = m /\ Len(u) \in Nat
         /\ m.type = "APP_ENC" =>
              /\ Sealeds(Append(u, m)) = Sealeds(u) \cup {Len(u) + 1}
              /\ Cardinality(Sealeds(Append(u, m))) = Cardinality(Sealeds(u)) + 1
         /\ m.type # "APP_ENC" => Sealeds(Append(u, m)) = Sealeds(u)
         /\ Cardinality(Sealeds(u)) \in Nat
<1> DEFINE w == Append(u, m)
           n == Len(u)
<1>1. /\ w \in Seq(Frames) /\ n \in Nat /\ Len(w) = n + 1 /\ w[n + 1] = m
      /\ \A k \in 1..n : w[k] = u[k]
  BY AppendPlaces
<1> HIDE DEF w, n
<1>2. Sealeds(u) = {k \in 1..n : u[k].type = "APP_ENC"} /\ Sealeds(u) \subseteq 1..n
  BY DEF Sealeds, n
<1>3. Sealeds(w) = {k \in 1..(n + 1) : w[k].type = "APP_ENC"}
  BY <1>1 DEF Sealeds
<1>4. m.type = "APP_ENC" => Sealeds(w) = Sealeds(u) \cup {n + 1}
  BY <1>1, <1>2, <1>3
<1>5. m.type # "APP_ENC" => Sealeds(w) = Sealeds(u)
  BY <1>1, <1>2, <1>3
<1>6. /\ Cardinality(Sealeds(u)) \in Nat
      /\ m.type = "APP_ENC" => Cardinality(Sealeds(w)) = Cardinality(Sealeds(u)) + 1
  <2> DEFINE A == Sealeds(u)
  <2>1. n \in Nat /\ A \subseteq 1..n
    BY <1>1, <1>2
  <2> HIDE DEF A
  <2>2. Cardinality(A) \in Nat /\ Cardinality(A \cup {n + 1}) = Cardinality(A) + 1
    BY <2>1, AddPlace, Zenon
  <2> QED
    BY <1>4, <2>2 DEF A
<1> QED
  BY <1>1, <1>2, <1>4, <1>5, <1>6 DEF w, n

LEMMA SealedTail ==
  ASSUME NEW u \in Seq(Frames), u # << >>
  PROVE  /\ Tail(u) \in Seq(Frames) /\ Head(u) = u[1] /\ Head(u) \in Frames
         /\ \A k \in Sealeds(Tail(u)) :
              k \in Int /\ k + 1 \in Sealeds(u) /\ 1 < k + 1 /\ Tail(u)[k] = u[k + 1]
         /\ Cardinality(Sealeds(Tail(u))) \in Nat
         /\ Head(u).type = "APP_ENC" =>
              /\ 1 \in Sealeds(u)
              /\ Cardinality(Sealeds(u)) = Cardinality(Sealeds(Tail(u))) + 1
         /\ Head(u).type # "APP_ENC" =>
              Cardinality(Sealeds(u)) = Cardinality(Sealeds(Tail(u)))
<1> DEFINE w == Tail(u)
           n == Len(u)
<1>1. /\ w \in Seq(Frames) /\ n \in Nat /\ n >= 1 /\ Len(w) = n - 1
      /\ \A k \in 1..(n - 1) : w[k] = u[k + 1]
      /\ Head(u) = u[1] /\ Head(u) \in Frames
  BY TailPlaces
<1> HIDE DEF w, n
<1>2. Sealeds(u) = {k \in 1..n : u[k].type = "APP_ENC"} /\ Sealeds(u) \subseteq 1..n
  BY DEF Sealeds, n
<1>3. Sealeds(w) = {k \in 1..(n - 1) : w[k].type = "APP_ENC"}
  BY <1>1 DEF Sealeds
<1>4. \A k \in Sealeds(w) : k \in Int /\ k + 1 \in Sealeds(u) /\ 1 < k + 1 /\ w[k] = u[k + 1]
  BY <1>1, <1>2, <1>3
<1>5. Sealeds(w) \subseteq Int /\ \A k \in Int : k \in Sealeds(w) <=> k + 1 \in Sealeds(u) \ {1}
  BY <1>1, <1>2, <1>3
<1>6. /\ Cardinality(Sealeds(w)) \in Nat
      /\ 1 \notin Sealeds(u) => Cardinality(Sealeds(u)) = Cardinality(Sealeds(w))
      /\ 1 \in Sealeds(u) => Cardinality(Sealeds(u)) = Cardinality(Sealeds(w)) + 1
  <2> DEFINE A == Sealeds(u)
             B == Sealeds(w)
  <2>1. n \in Nat /\ A \subseteq 1..n
    BY <1>1, <1>2
  <2>2. Shifted(A, B)
    BY <1>5 DEF Shifted
  <2> HIDE DEF A, B
  <2>3. /\ Cardinality(B) \in Nat
        /\ 1 \notin A => Cardinality(A) = Cardinality(B)
        /\ 1 \in A => Cardinality(A) = Cardinality(B) + 1
    BY <2>1, <2>2, DropPlace, Zenon
  <2> QED
    BY <2>3 DEF A, B
<1>7. 1 \in Sealeds(u) <=> Head(u).type = "APP_ENC"
  BY <1>1, <1>2
<1> QED
  BY <1>1, <1>4, <1>6, <1>7 DEF w

LEMMA OwnAppend ==
  ASSUME NEW c \in Clients, NEW s \in Seq(Notes), NEW v \in Notes
  PROVE  /\ Append(s, v) \in Seq(Notes)
         /\ \A k \in Own(c, s) : k \in 1..Len(s) /\ Append(s, v)[k] = s[k] /\ s[k].n \in Nat
         /\ Append(s, v)[Len(s) + 1] = v /\ Len(s) \in Nat
         /\ v.from = c /\ v.via = "tcp" =>
              /\ Own(c, Append(s, v)) = Own(c, s) \cup {Len(s) + 1}
              /\ Cardinality(Own(c, Append(s, v))) = Cardinality(Own(c, s)) + 1
         /\ v.from # c \/ v.via # "tcp" => Own(c, Append(s, v)) = Own(c, s)
         /\ Cardinality(Own(c, s)) \in Nat
<1> DEFINE w == Append(s, v)
           n == Len(s)
<1>0. \A k \in 1..Len(s) : s[k].n \in Nat
  <2>1. \A k \in 1..Len(s) : s[k] \in Notes
    BY ElementOfSeq
  <2> QED
    BY <2>1 DEF Notes
<1>1. /\ w \in Seq(Notes) /\ n \in Nat /\ Len(w) = n + 1 /\ w[n + 1] = v
      /\ \A k \in 1..n : w[k] = s[k]
  BY AppendPlaces
<1> HIDE DEF w, n
<1>2. Own(c, s) = {k \in 1..n : s[k].from = c /\ s[k].via = "tcp"} /\ Own(c, s) \subseteq 1..n
  BY DEF Own, n
<1>3. Own(c, w) = {k \in 1..(n + 1) : w[k].from = c /\ w[k].via = "tcp"}
  BY <1>1 DEF Own
<1>4. v.from = c /\ v.via = "tcp" => Own(c, w) = Own(c, s) \cup {n + 1}
  BY <1>1, <1>2, <1>3
<1>5. v.from # c \/ v.via # "tcp" => Own(c, w) = Own(c, s)
  BY <1>1, <1>2, <1>3
<1>6. /\ Cardinality(Own(c, s)) \in Nat
      /\ v.from = c /\ v.via = "tcp" => Cardinality(Own(c, w)) = Cardinality(Own(c, s)) + 1
  <2> DEFINE A == Own(c, s)
  <2>1. n \in Nat /\ A \subseteq 1..n
    BY <1>1, <1>2
  <2> HIDE DEF A
  <2>2. Cardinality(A) \in Nat /\ Cardinality(A \cup {n + 1}) = Cardinality(A) + 1
    BY <2>1, AddPlace, Zenon
  <2> QED
    BY <1>4, <2>2 DEF A
<1> QED
  BY <1>0, <1>1, <1>2, <1>4, <1>5, <1>6 DEF w, n

-----------------------------------------------------------------------------
(* What a step does to the flow of one client *)

\* The numbers in flight are naturals
LEMMA FlowNumbers ==
  ASSUME NEW c \in Clients, NEW p, NEW u, NEW s, NEW n, NEW r, Flow(c, p, u, s, n, r)
  PROVE  \A k \in Sealeds(u) : Num(u[k]) \in Nat /\ k \in Int
<1>1. ASSUME NEW k \in Sealeds(u) PROVE Num(u[k]) \in Nat /\ k \in Int
  <2>1. u[k].content.plain \in Notes
    BY DEF Flow, Carried
  <2> QED
    BY <2>1 DEF Notes, Num, Sealeds
<1> QED
  BY <1>1

\* The client sends
LEMMA FlowSend ==
  ASSUME NEW c \in Clients, NEW p, NEW u, NEW s \in Seq(Notes), NEW n, NEW r,
         Flow(c, p, u, s, n, r),
         NEW m \in Frames, m.type = "APP_ENC", Carried(c, p, m), Num(m) = n + 1
  PROVE  Flow(c, p, Append(u, m), s, n + 1, r)
<1> DEFINE w == Append(u, m)
<1>1. /\ w \in Seq(Frames) /\ \A k \in Sealeds(u) : k \in 1..Len(u) /\ w[k] = u[k]
      /\ w[Len(u) + 1] = m /\ Len(u) \in Nat
      /\ Sealeds(w) = Sealeds(u) \cup {Len(u) + 1}
      /\ Cardinality(Sealeds(w)) = Cardinality(Sealeds(u)) + 1 /\ Cardinality(Sealeds(u)) \in Nat
  BY SealedAppend DEF Flow
<1>2. n \in Nat /\ r \in Nat /\ n + 1 \in Nat
  BY DEF Flow
<1>3. \A k \in Sealeds(u) : Num(u[k]) \in Nat /\ k \in Int
  BY FlowNumbers
<1>4. \A j \in Own(c, s) : s[j].n \in Nat
  <2>1. \A k \in 1..Len(s) : s[k] \in Notes
    BY ElementOfSeq
  <2> QED
    BY <2>1 DEF Notes, Own
<1>5. Cardinality(Own(c, s)) \in Nat
  <2>1. Own(c, s) \subseteq 1..Len(s) /\ 1 \in Int /\ Len(s) \in Int
    BY LenProperties DEF Own
  <2> QED
    BY <2>1, IntervalSubset, Zenon
<1> HIDE DEF w
<1>6. \A k \in Sealeds(w) : Carried(c, p, w[k]) /\ Num(w[k]) <= n + 1
  BY <1>1, <1>2, <1>3 DEF Flow
<1>7. \A j, k \in Sealeds(w) : j < k => Num(w[j]) < Num(w[k])
  BY <1>1, <1>2, <1>3, SMTT(30) DEF Flow
<1>8. \A j \in Own(c, s) : s[j].n <= n + 1 /\ \A k \in Sealeds(w) : s[j].n < Num(w[k])
  BY <1>1, <1>2, <1>3, <1>4 DEF Flow
<1>9. Cardinality(Own(c, s)) + Cardinality(Sealeds(w)) + r = n + 1
  BY <1>1, <1>2, <1>5 DEF Flow
<1> QED
  BY <1>1, <1>2, <1>6, <1>7, <1>8, <1>9 DEF Flow, w

\* Handshake messages do not count
LEMMA FlowHandshake ==
  ASSUME NEW c \in Clients, NEW p, NEW q, NEW u, NEW s, NEW n, NEW r,
         Flow(c, p, u, s, n, r), Sealeds(u) = {}, NEW m \in Frames, m.type # "APP_ENC"
  PROVE  Flow(c, q, Append(u, m), s, n, r)
<1>1. Append(u, m) \in Seq(Frames) /\ Sealeds(Append(u, m)) = Sealeds(u)
  BY SealedAppend DEF Flow
<1> QED
  BY <1>1 DEF Flow

\* The process changes, not what it sends
LEMMA FlowRenamed ==
  ASSUME NEW c \in Clients, NEW p, NEW q, NEW u, NEW s, NEW n, NEW r,
         Flow(c, p, u, s, n, r), Sealeds(u) = {} \/ (p.id = q.id /\ p.sesskey = q.sesskey)
  PROVE  Flow(c, q, u, s, n, r)
  BY DEF Flow, Carried

\* The next frame is read and is no message, a refused message, or a message
\* that is given out
LEMMA FlowRead ==
  ASSUME NEW c \in Clients, NEW p, NEW u, NEW s \in Seq(Notes), NEW n, NEW r,
         Flow(c, p, u, s, n, r), u # << >>
  PROVE  /\ Head(u).type # "APP_ENC" => Flow(c, p, Tail(u), s, n, r)
         /\ Head(u).type = "APP_ENC" =>
              /\ Flow(c, p, Tail(u), s, n, r + 1)
              /\ Carried(c, p, Head(u))
              /\ Flow(c, p, Tail(u), Append(s, Head(u).content.plain), n, r)
<1> DEFINE w == Tail(u)
           m == Head(u)
<1>1. /\ w \in Seq(Frames) /\ m = u[1] /\ m \in Frames
      /\ \A k \in Sealeds(w) : k \in Int /\ k + 1 \in Sealeds(u) /\ 1 < k + 1 /\ w[k] = u[k + 1]
      /\ Cardinality(Sealeds(w)) \in Nat
      /\ m.type = "APP_ENC" =>
           1 \in Sealeds(u) /\ Cardinality(Sealeds(u)) = Cardinality(Sealeds(w)) + 1
      /\ m.type # "APP_ENC" => Cardinality(Sealeds(u)) = Cardinality(Sealeds(w))
  BY SealedTail DEF Flow
<1>2. n \in Nat /\ r \in Nat /\ r + 1 \in Nat
  BY DEF Flow
<1>3. \A k \in Sealeds(u) : Num(u[k]) \in Nat /\ k \in Int
  BY FlowNumbers
<1>4. Cardinality(Own(c, s)) \in Nat
  <2>1. Own(c, s) \subseteq 1..Len(s) /\ 1 \in Int /\ Len(s) \in Int
    BY LenProperties DEF Own
  <2> QED
    BY <2>1, IntervalSubset, Zenon
<1> HIDE DEF w, m
<1>5. \A k \in Sealeds(w) : Carried(c, p, w[k]) /\ Num(w[k]) <= n
  BY <1>1 DEF Flow
<1>6. \A j, k \in Sealeds(w) : j < k => Num(w[j]) < Num(w[k])
  <2> SUFFICES ASSUME NEW j \in Sealeds(w), NEW k \in Sealeds(w), j < k
               PROVE  Num(w[j]) < Num(w[k])
    OBVIOUS
  <2>1. j + 1 < k + 1 /\ j + 1 \in Sealeds(u) /\ k + 1 \in Sealeds(u)
    BY <1>1
  <2> QED
    BY <1>1, <2>1 DEF Flow
<1>7. \A j \in Own(c, s) : s[j].n <= n /\ \A k \in Sealeds(w) : s[j].n < Num(w[k])
  BY <1>1 DEF Flow
<1>8. m.type # "APP_ENC" => Flow(c, p, w, s, n, r)
  BY <1>1, <1>2, <1>5, <1>6, <1>7 DEF Flow
<1>9. ASSUME m.type = "APP_ENC"
      PROVE  /\ Flow(c, p, w, s, n, r + 1) /\ Carried(c, p, m)
             /\ Flow(c, p, w, Append(s, m.content.plain), n, r)
  <2>1. Cardinality(Own(c, s)) + Cardinality(Sealeds(w)) + (r + 1) = n
    BY <1>1, <1>2, <1>4, <1>9 DEF Flow
  <2>2. Flow(c, p, w, s, n, r + 1)
    BY <1>1, <1>2, <1>5, <1>6, <1>7, <2>1 DEF Flow
  <2>3. Carried(c, p, m) /\ 1 \in Sealeds(u) /\ Num(m) <= n
    BY <1>1, <1>9 DEF Flow
  <2> DEFINE v == m.content.plain
             t == Append(s, v)
  <2>4. v \in Notes /\ v.from = c /\ v.via = "tcp" /\ v.n = Num(m) /\ v.n \in Nat
    BY <2>3 DEF Carried, Num, Notes
  <2>5. /\ \A k \in Own(c, s) : k \in 1..Len(s) /\ t[k] = s[k] /\ s[k].n \in Nat
        /\ t[Len(s) + 1] = v /\ Len(s) \in Nat
        /\ Own(c, t) = Own(c, s) \cup {Len(s) + 1}
        /\ Cardinality(Own(c, t)) = Cardinality(Own(c, s)) + 1
    BY <2>4, OwnAppend
  <2> HIDE DEF v, t
  <2>6. \A j \in Own(c, s) : s[j].n < v.n
    BY <1>1, <2>3, <2>4 DEF Flow
  <2>7. \A k \in Sealeds(w) : v.n < Num(w[k])
    BY <1>1, <2>3, <2>4 DEF Flow
  <2>8. \A j \in Own(c, t) : t[j].n <= n /\ \A k \in Sealeds(w) : t[j].n < Num(w[k])
    BY <1>7, <2>3, <2>4, <2>5, <2>7
  <2>9. \A j, k \in Own(c, t) : j < k => t[j].n < t[k].n
    BY <2>5, <2>6 DEF Flow
  <2>10. Cardinality(Own(c, t)) + Cardinality(Sealeds(w)) + r = n
    BY <1>1, <1>2, <1>4, <2>1, <2>5
  <2>11. Flow(c, p, w, t, n, r)
    BY <1>1, <1>2, <1>5, <1>6, <2>8, <2>9, <2>10 DEF Flow
  <2> QED
    BY <2>2, <2>3, <2>11 DEF v, t
<1> QED
  BY <1>8, <1>9 DEF w, m

\* Something else is given out
LEMMA FlowOther ==
  ASSUME NEW c \in Clients, NEW p, NEW u, NEW s \in Seq(Notes), NEW n, NEW r,
         Flow(c, p, u, s, n, r), NEW v \in Notes, v.from # c \/ v.via # "tcp"
  PROVE  Flow(c, p, u, Append(s, v), n, r)
<1>1. /\ \A k \in Own(c, s) : k \in 1..Len(s) /\ Append(s, v)[k] = s[k]
      /\ Own(c, Append(s, v)) = Own(c, s)
  BY OwnAppend
<1> QED
  BY <1>1 DEF Flow

-----------------------------------------------------------------------------
(* The queue as a sequence *)

LEMMA FilledSeq ==
  ASSUME NEW S, NEW q, Filled(q, S)
  PROVE  /\ Held(q) \in Seq(S) /\ Len(Held(q)) = q.rear - q.front - 1
         /\ q.rear - q.front - 1 \in Nat
         /\ \A k \in 1..(q.rear - q.front - 1) : Held(q)[k] = q.items[q.front + k]
<1> DEFINE n == q.rear - q.front - 1
<1>1. n \in Nat
  BY DEF Filled
<1>2. \A k \in 1..n : q.items[q.front + k] \in S
  <2> SUFFICES ASSUME NEW k \in 1..n PROVE q.items[q.front + k] \in S
    OBVIOUS
  <2>1. q.front + k \in (q.front + 1)..(q.rear - 1)
    BY <1>1 DEF Filled
  <2> QED
    BY <2>1 DEF Filled
<1>3. Held(q) = [k \in 1..n |-> q.items[q.front + k]]
  BY DEF Held, Q!Size
<1> HIDE DEF n
<1>4. Held(q) \in [1..n -> S]
  BY <1>2, <1>3
<1>5. Held(q) \in Seq(S) /\ Len(Held(q)) = n
  BY <1>1, <1>4
<1> QED
  BY <1>1, <1>3, <1>5 DEF n

\* A queue that is not full takes the item at its end
LEMMA FilledEnqueue ==
  ASSUME NEW S, NEW q, Filled(q, S), NEW v \in S
  PROVE  /\ Filled(Q!enqueue(q, v), S)
         /\ Q!full(q) => Q!enqueue(q, v) = q
         /\ ~Q!full(q) => Held(Q!enqueue(q, v)) = Append(Held(q), v)
<1>0. MaxSize \in Nat
  BY LinkAssumption
<1>1. CASE Q!full(q)
  BY <1>1 DEF Q!enqueue
<1>2. CASE ~Q!full(q)
  <2> DEFINE f == [q.items EXCEPT ![q.rear] = v]
             w == [items |-> f, front |-> q.front, rear |-> q.rear + 1]
  <2>1. Q!enqueue(q, v) = w
    BY <1>2 DEF Q!enqueue
  <2>2. q.rear \in 0..(MaxSize - 1)
    BY <1>0, <1>2 DEF Q!full, Filled
  <2>3. DOMAIN f = 0..(MaxSize - 1) /\ f[q.rear] = v /\ \A k \in 0..(MaxSize - 1) : k # q.rear => f[k] = q.items[k]
    BY <2>2 DEF Filled
  <2> HIDE DEF f
  <2>4. w.front = q.front /\ w.rear = q.rear + 1 /\ w.items = f
    OBVIOUS
  <2> HIDE DEF w
  <2>5. \A k \in (q.front + 1)..(q.rear - 1) : k \in 0..(MaxSize - 1) /\ k # q.rear
    BY <1>0, <2>2 DEF Filled
  <2>6. \A k \in (q.front + 1)..((q.rear + 1) - 1) : k \in (q.front + 1)..(q.rear - 1) \/ k = q.rear
    BY <2>2 DEF Filled
  <2>7. Filled(w, S)
    <3>1. \A k \in (q.front + 1)..((q.rear + 1) - 1) : f[k] \in S
      BY <2>3, <2>5, <2>6 DEF Filled
    <3>2. q.front < q.rear + 1 /\ q.rear + 1 \in Int /\ q.rear + 1 <= MaxSize
      BY <1>0, <2>2 DEF Filled
    <3> QED
      BY <2>3, <2>4, <3>1, <3>2 DEF Filled
  <2> DEFINE n == q.rear - q.front - 1
  <2>8. /\ Held(q) \in Seq(S) /\ Len(Held(q)) = n /\ n \in Nat
        /\ \A k \in 1..n : Held(q)[k] = q.items[q.front + k]
    BY FilledSeq
  <2>9. /\ Held(w) \in Seq(S) /\ Len(Held(w)) = n + 1
        /\ \A k \in 1..(n + 1) : Held(w)[k] = f[q.front + k]
    <3>1. (q.rear + 1) - q.front - 1 = n + 1
      BY DEF Filled
    <3> QED
      BY <2>4, <2>7, <3>1, FilledSeq
  <2>10. \A k \in 1..n : f[q.front + k] = q.items[q.front + k]
    <3> SUFFICES ASSUME NEW k \in 1..n PROVE f[q.front + k] = q.items[q.front + k]
      OBVIOUS
    <3>1. q.front + k \in (q.front + 1)..(q.rear - 1)
      BY DEF Filled
    <3> QED
      BY <2>3, <2>5, <3>1
  <2>11. q.front + (n + 1) = q.rear
    BY DEF Filled
  <2> HIDE DEF n
  <2>12. /\ Append(Held(q), v) \in Seq(S) /\ Len(Append(Held(q), v)) = n + 1
         /\ \A k \in 1..n : Append(Held(q), v)[k] = Held(q)[k]
         /\ Append(Held(q), v)[n + 1] = v
    BY <2>8
  <2>13. \A k \in 1..(n + 1) : Held(w)[k] = Append(Held(q), v)[k]
    <3>1. \A k \in 1..(n + 1) : k \in 1..n \/ k = n + 1
      BY <2>8
    <3>2. \A k \in 1..n : Held(w)[k] = Append(Held(q), v)[k]
      BY <2>8, <2>9, <2>10, <2>12
    <3>3. n + 1 \in 1..(n + 1)
      BY <2>8
    <3>4. Held(w)[n + 1] = v
      BY <2>3, <2>9, <2>11, <3>3
    <3> QED
      BY <2>12, <3>1, <3>2, <3>4
  <2>14. Held(w) = Append(Held(q), v)
    BY <2>9, <2>12, <2>13, SeqEqual
  <2> QED
    BY <1>2, <2>1, <2>7, <2>14
<1> QED
  BY <1>1, <1>2

\* A queue that is not empty gives out the item at its front
LEMMA FilledDequeue ==
  ASSUME NEW S, NEW q, Filled(q, S), ~Q!empty(q)
  PROVE  /\ Filled(Q!dequeue(q), S) /\ Held(q) # << >>
         /\ Q!peek(q) = Head(Held(q)) /\ Held(Q!dequeue(q)) = Tail(Held(q))
<1>0. MaxSize \in Nat
  BY LinkAssumption
<1> DEFINE n == q.rear - q.front - 1
           w == Q!dequeue(q)
<1>1. /\ Held(q) \in Seq(S) /\ Len(Held(q)) = n /\ n \in Nat
      /\ \A k \in 1..n : Held(q)[k] = q.items[q.front + k]
  BY FilledSeq
<1>2. n >= 1
  BY <1>1 DEF Q!empty, Filled
<1>3. Held(q) # << >> /\ Head(Held(q)) = Held(q)[1]
  BY <1>1, <1>2
<1>4. Q!peek(q) = Head(Held(q))
  <2>1. 1 \in 1..n
    BY <1>1, <1>2
  <2> QED
    BY <1>1, <1>3, <2>1 DEF Q!peek
<1>5. /\ Filled(w, S) /\ w.rear - w.front - 1 = n - 1
      /\ \A k \in 1..(n - 1) : w.items[w.front + k] = q.items[q.front + (k + 1)]
  <2>1. CASE q.front + 1 = q.rear - 1
    <3>1. w.front = -1 /\ w.rear = 0 /\ w.items = q.items /\ n = 1
      BY <2>1 DEF Q!dequeue, Filled, Q!empty
    <3> HIDE DEF w, n
    <3> QED
      BY <1>0, <3>1 DEF Filled
  <2>2. CASE q.front + 1 # q.rear - 1
    <3>1. w.front = q.front + 1 /\ w.rear = q.rear /\ w.items = q.items
      BY <2>2 DEF Q!dequeue
    <3>2. q.front + 1 < q.rear /\ q.front + 1 \in Int /\ -1 <= q.front + 1 /\ q.rear \in Int
      BY <1>2 DEF Filled
    <3> HIDE DEF w
    <3>3. \A k \in ((q.front + 1) + 1)..(q.rear - 1) : k \in (q.front + 1)..(q.rear - 1)
      BY DEF Filled
    <3>4. Filled(w, S)
      BY <3>1, <3>2, <3>3 DEF Filled
    <3>5. q.rear - (q.front + 1) - 1 = n - 1
      BY DEF Filled
    <3>6. \A k \in 1..(n - 1) : (q.front + 1) + k = q.front + (k + 1)
      BY SMTT(30) DEF Filled
    <3> QED
      BY <3>1, <3>4, <3>5, <3>6
  <2> QED
    BY <2>1, <2>2
<1> HIDE DEF w
<1>6. /\ Held(w) \in Seq(S) /\ Len(Held(w)) = n - 1
      /\ \A k \in 1..(n - 1) : Held(w)[k] = w.items[w.front + k]
  BY <1>5, FilledSeq
<1> HIDE DEF n
<1>7. /\ Tail(Held(q)) \in Seq(S) /\ Len(Tail(Held(q))) = n - 1
      /\ \A k \in 1..(n - 1) : Tail(Held(q))[k] = Held(q)[k + 1]
  BY <1>1, <1>3, TailPlaces
<1>8. \A k \in 1..(n - 1) : Held(w)[k] = Tail(Held(q))[k]
  <2> SUFFICES ASSUME NEW k \in 1..(n - 1) PROVE Held(w)[k] = Tail(Held(q))[k]
    OBVIOUS
  <2>1. k + 1 \in 1..n
    BY <1>1
  <2> QED
    BY <1>1, <1>5, <1>6, <1>7, <2>1
<1>9. Held(w) = Tail(Held(q))
  BY <1>6, <1>7, <1>8, SeqEqual
<1> QED
  BY <1>3, <1>4, <1>5, <1>9 DEF w

LEMMA HeldSeq ==
  ASSUME NEW q, Shaped(q)
  PROVE  Held(q) \in Seq(Notes)
  BY FilledSeq DEF Shaped

LEMMA HeldEnqueue ==
  ASSUME NEW q, Shaped(q), NEW v \in Notes
  PROVE  /\ Shaped(Q!enqueue(q, v))
         /\ Q!full(q) => Q!enqueue(q, v) = q
         /\ ~Q!full(q) => Held(Q!enqueue(q, v)) = Append(Held(q), v)
  BY FilledEnqueue DEF Shaped

LEMMA HeldDequeue ==
  ASSUME NEW q, Shaped(q), ~Q!empty(q)
  PROVE  /\ Shaped(Q!dequeue(q)) /\ Held(q) # << >>
         /\ Q!peek(q) = Head(Held(q)) /\ Held(Q!dequeue(q)) = Tail(Held(q))
  BY FilledDequeue DEF Shaped

-----------------------------------------------------------------------------
(* The steps of the system *)

LEMMA GivenSeq ==
  ASSUME FlowInv
  PROVE  Given \in Seq(Notes) /\ taken \in Seq(Notes) /\ Held(server_messages) \in Seq(Notes)
<1>1. taken \in Seq(Notes) /\ Held(server_messages) \in Seq(Notes)
  BY HeldSeq DEF FlowInv
<1> QED
  BY <1>1, ConcatProperties DEF Given

\* The client's own flow and counters
LEMMA FlowOf ==
  ASSUME FlowInv, NEW c \in Clients
  PROVE  /\ Flow(c, peer[c], up[c], Given, sent[c].tcp, refused[c].up)
         /\ up[c] \in Seq(Frames)
         /\ sent[c].tcp \in Nat /\ sent[c].udp \in Nat /\ refused[c].up \in Nat
  BY DEF FlowInv, Flow

LEMMA HandshakeSilent ==
  ASSUME NEW u \in Seq(HandshakeUp)
  PROVE  Sealeds(u) = {} /\ (u # << >> => Head(u).type # "APP_ENC")
<1>1. ASSUME NEW m \in HandshakeUp PROVE m.type # "APP_ENC"
  <2>1. \/ \E i \in Nat : m = Nonce(i, "clean") \/ m = Nonce(i, "has zero")
        \/ \E i \in Nat : \E c \in Clients : m = Key(i, c)
    BY DEF HandshakeUp
  <2>2. \A i, x : Nonce(i, x).type = "AUTH" /\ Key(i, x).type = "KEY"
    BY DEF Nonce, Key, Message
  <2> QED
    BY <2>1, <2>2
<1>2. \A k \in 1..Len(u) : u[k] \in HandshakeUp
  BY ElementOfSeq
<1>3. u # << >> => Head(u) \in HandshakeUp
  BY TailPlaces
<1> QED
  BY <1>1, <1>2, <1>3 DEF Sealeds

\* A client that is not on the list has none of its messages in flight
LEMMA StrangerSilent ==
  ASSUME SessionInv, NEW c \in Clients, c \notin Who(clients)
  PROVE  Sealeds(up[c]) = {} /\ (up[c] # << >> => Head(up[c]).type # "APP_ENC")
<1>1. up[c] \in Seq(HandshakeUp)
  BY PeerOf DEF Stage
<1> QED
  BY <1>1, HandshakeSilent

LEMMA NotListed ==
  ASSUME SessionInv, NEW c \in Clients, peer[c].at \in {"out", "cert", "auth"}
  PROVE  c \notin Who(clients)
<1> SUFFICES ASSUME NEW k \in 1..Len(clients), clients[k].who = c PROVE FALSE
  BY DEF Who
<1>1. Agreed(c, peer[c], clients[k])
  BY PeerOf DEF Stage
<1> QED
  BY <1>1 DEF Agreed

\* A step that neither sends, reads nor gives out anything
LEMMA QuietFlow ==
  ASSUME FlowInv, UNCHANGED <<server_messages, taken, sent, up>>, udp' \subseteq udp,
         refused' \in [Clients -> [up : Nat, down : Nat]],
         \A x \in Clients : refused'[x].up = refused[x].up,
         \A x \in Clients : peer'[x].id = peer[x].id /\ peer'[x].sesskey = peer[x].sesskey
  PROVE  FlowInv'
<1>1. ASSUME NEW x \in Clients
      PROVE  Flow(x, peer'[x], up[x], Given, sent[x].tcp, refused[x].up)
  BY FlowOf, FlowRenamed
<1>2. Given' = Given
  BY DEF Given
<1>3. \A x \in Clients : Flow(x, peer'[x], up'[x], Given', sent'[x].tcp, refused'[x].up)
  BY <1>1, <1>2
<1> QED
  BY <1>3 DEF FlowInv

\* A step of the handshake with c: a message more or less, none of them c's own
LEMMA HandshakeFlow ==
  ASSUME FlowInv, NEW c \in Clients, UNCHANGED <<server_messages, taken, sent, udp, refused>>,
         \A x \in Clients : x # c => peer'[x] = peer[x] /\ up'[x] = up[x],
         Flow(c, peer'[c], up'[c], Given, sent[c].tcp, refused[c].up)
  PROVE  FlowInv'
<1>2. Given' = Given
  BY DEF Given
<1>3. \A x \in Clients : Flow(x, peer'[x], up'[x], Given', sent'[x].tcp, refused'[x].up)
  <2> SUFFICES ASSUME NEW x \in Clients
               PROVE  Flow(x, peer'[x], up'[x], Given, sent[x].tcp, refused[x].up)
    BY <1>2
  <2>1. Flow(x, peer[x], up[x], Given, sent[x].tcp, refused[x].up)
    BY FlowOf
  <2>2. x # c => peer'[x] = peer[x] /\ up'[x] = up[x]
    OBVIOUS
  <2> QED
    BY <2>1, <2>2
<1> QED
  BY <1>3 DEF FlowInv

LEMMA HandshakeFrames ==
  ASSUME NEW id \in Nat, NEW c \in Clients, NEW x \in {"clean", "has zero"}
  PROVE  /\ Nonce(id, x) \in Frames /\ Nonce(id, x).type # "APP_ENC"
         /\ Key(id, c) \in Frames /\ Key(id, c).type # "APP_ENC"
<1>1. [tag |-> "text", text |-> NonceText(x)] \in Contents
  BY DEF Contents, NonceText
<1>2. rsa_encrypt_block(c) \in Contents
  BY DEF Contents, rsa_encrypt_block
<1> QED
  BY <1>1, <1>2 DEF Nonce, Key, Message, Frames

LEMMA JoinFlow == ASSUME SessionInv, FlowInv, NEW c \in Clients, Join(c) PROVE FlowInv'
<1> USE PeerOf
<1>0. /\ DOMAIN peer = Clients /\ DOMAIN up = Clients /\ peer[c] \in Peers /\ peer[c].id \in Nat
      /\ DOMAIN peer[c] = {"at", "state", "id", "nonce", "sesskey", "polls"}
      /\ \A x \in Clients : DOMAIN peer[x] = {"at", "state", "id", "nonce", "sesskey", "polls"}
  BY DEF Peers
<1>1. CASE join_nonce(c)
  <2>1. peer[c].at = "cert"
    BY <1>1 DEF join_nonce
  <2>2. PICK nonce \in {"clean", "has zero"} :
          /\ peer' = [peer EXCEPT ![c].at = "auth", ![c].nonce = nonce,
                                  ![c].id = Head(down[c]).msg.source_id]
          /\ up' = [up EXCEPT ![c] = Append(@, Nonce(Head(down[c]).msg.source_id, nonce))]
    BY <1>1 DEF join_nonce, Nonce
  <2> DEFINE id == Head(down[c]).msg.source_id
  <2>3. id \in Nat
    <3>1. down[c] # << >> /\ Head(down[c]).msg.source_id \in Nat
      <4>1. down[c] \in Seq(HandshakeDown) /\ Len(down[c]) >= 3
        BY <1>1, <2>1, NotListed DEF join_nonce, Stage
      <4>2. Head(down[c]) \in HandshakeDown
        BY <4>1, LongSeq, RestSeq
      <4> QED
        BY <4>1, <4>2, LongSeq, HandshakeDownFacts
    <3> QED
      BY <3>1
  <2> HIDE DEF id
  <2>4. Sealeds(up[c]) = {}
    BY <2>1, NotListed, StrangerSilent
  <2>5. Nonce(id, nonce) \in Frames /\ Nonce(id, nonce).type # "APP_ENC"
    BY <2>3, HandshakeFrames
  <2>6. up'[c] = Append(up[c], Nonce(id, nonce)) /\ \A x \in Clients : x # c => up'[x] = up[x]
    BY <1>0, <2>2 DEF id
  <2>7. \A x \in Clients : x # c => peer'[x] = peer[x]
    BY <1>0, <2>2
  <2>8. Flow(c, peer'[c], up'[c], Given, sent[c].tcp, refused[c].up)
    BY <2>4, <2>5, <2>6, FlowOf, FlowHandshake
  <2> QED
    BY <1>1, <2>6, <2>7, <2>8, HandshakeFlow DEF join_nonce, history
<1>2. CASE join_key(c)
  <2>1. peer[c].at = "auth"
    BY <1>2 DEF join_key
  <2>2. Sealeds(up[c]) = {}
    BY <2>1, NotListed, StrangerSilent
  <2>3. \A x \in Clients : x # c => peer'[x] = peer[x]
    BY <1>0, <1>2 DEF join_key
  <2>4. up' = up \/ up' = [up EXCEPT ![c] = Append(@, Key(peer[c].id, c))]
    BY <1>2 DEF join_key, Key
  <2>5. Key(peer[c].id, c) \in Frames /\ Key(peer[c].id, c).type # "APP_ENC"
    BY <1>0, HandshakeFrames
  <2>6. /\ up'[c] = up[c] \/ up'[c] = Append(up[c], Key(peer[c].id, c))
        /\ \A x \in Clients : x # c => up'[x] = up[x]
    BY <1>0, <2>4
  <2>7. Flow(c, peer'[c], up'[c], Given, sent[c].tcp, refused[c].up)
    <3>1. Flow(c, peer'[c], up[c], Given, sent[c].tcp, refused[c].up)
      BY <2>2, FlowOf, FlowRenamed
    <3>2. Flow(c, peer'[c], Append(up[c], Key(peer[c].id, c)), Given, sent[c].tcp, refused[c].up)
      BY <2>2, <2>5, FlowOf, FlowHandshake
    <3> QED
      BY <2>6, <3>1, <3>2
  <2> QED
    BY <1>2, <2>3, <2>6, <2>7, HandshakeFlow DEF join_key, history
<1>3. CASE join_lobby(c) \/ join_fails(c)
  <2>1. peer' = [peer EXCEPT ![c].state = "LOBBY"] \/ peer' = [peer EXCEPT ![c] = [@ EXCEPT !.at = "gone"]]
    BY <1>3 DEF join_lobby, join_fails, Exit
  <2>2. \A x \in Clients : peer'[x].id = peer[x].id /\ peer'[x].sesskey = peer[x].sesskey
    BY <1>0, <2>1
  <2> QED
    BY <1>3, <2>2, QuietFlow DEF join_lobby, join_fails, netVars, history, FlowInv
<1> QED
  BY <1>1, <1>2, <1>3 DEF Join

\* The server reads the next handshake message of the client it serves
LEMMA LobbyFlow == ASSUME SessionInv, FlowInv, lobby_sign \/ lobby_add PROVE FlowInv'
<1> DEFINE c == thread.who
<1>1. /\ thread.at \in {"nonce", "key"} /\ up[c] # << >>
      /\ up' = [up EXCEPT ![c] = Tail(@)]
      /\ UNCHANGED <<server_messages, taken, sent, udp, refused, peer>>
  BY DEF lobby_sign, lobby_add, At, history
<1>2. c \in Clients /\ c \in Served(thread)
  BY <1>1 DEF Served, SessionInv, Ordered
<1>3. c \notin Who(clients)
  BY <1>2, PeerOf DEF Stage
<1>4. DOMAIN up = Clients
  BY DEF SessionInv, Typed
<1> HIDE DEF c
<1>5. up'[c] = Tail(up[c]) /\ \A x \in Clients : x # c => up'[x] = up[x]
  BY <1>1, <1>2, <1>4
<1>6. Head(up[c]).type # "APP_ENC"
  BY <1>1, <1>2, <1>3, StrangerSilent
<1>7. Flow(c, peer[c], Tail(up[c]), Given, sent[c].tcp, refused[c].up)
  <2>1. Flow(c, peer[c], up[c], Given, sent[c].tcp, refused[c].up) /\ Given \in Seq(Notes)
    BY <1>2, FlowOf, GivenSeq
  <2> QED
    BY <1>1, <1>2, <1>6, <2>1, FlowRead
<1> QED
  BY <1>1, <1>2, <1>5, <1>7, HandshakeFlow

\* A message of the client's application
LEMMA SealedFacts ==
  ASSUME SessionInv, FlowInv, NEW c \in Clients
  PROVE  /\ Sealed(c, "tcp") \in Frames /\ Sealed(c, "tcp").type = "APP_ENC"
         /\ Carried(c, peer[c], Sealed(c, "tcp")) /\ Num(Sealed(c, "tcp")) = sent[c].tcp + 1
         /\ Sealed(c, "udp") \in Datagrams
<1>1. peer[c].id \in Nat /\ peer[c].sesskey \in Keys
  BY PeerOf DEF Peers, Keys
<1>2. sent[c].tcp + 1 \in Nat /\ sent[c].udp + 1 \in Nat
  BY FlowOf
<1>3. App(c, "tcp", sent[c].tcp + 1) \in TcpNotes /\ App(c, "tcp", sent[c].tcp + 1) \in Notes
  BY <1>2 DEF App, TcpNotes, Notes
<1>4. App(c, "udp", sent[c].udp + 1) \in UdpNotes
  BY <1>2 DEF App, UdpNotes
<1>5. session_encrypt(peer[c].sesskey, App(c, "tcp", sent[c].tcp + 1)) \in Contents
  BY <1>1, <1>3 DEF session_encrypt, Contents
<1>6. Sealed(c, "tcp") \in Frames
  BY <1>1, <1>5 DEF Sealed, Message, Frames
<1>7. Sealed(c, "udp") \in Datagrams
  BY <1>1, <1>4 DEF Sealed, Message, Datagrams, session_encrypt
<1> DEFINE m == Sealed(c, "tcp")
<1>8. /\ m.type = "APP_ENC" /\ m.source_id = peer[c].id /\ m.content.tag = "token"
      /\ m.content.key = peer[c].sesskey
      /\ m.content.plain = App(c, "tcp", sent[c].tcp + 1)
  BY DEF Sealed, Message, session_encrypt
<1>9. /\ App(c, "tcp", sent[c].tcp + 1).from = c /\ App(c, "tcp", sent[c].tcp + 1).via = "tcp"
      /\ App(c, "tcp", sent[c].tcp + 1).n = sent[c].tcp + 1
  BY DEF App
<1> HIDE DEF m
<1>10. Carried(c, peer[c], m) /\ Num(m) = sent[c].tcp + 1
  BY <1>3, <1>8, <1>9 DEF Carried, Num
<1> QED
  BY <1>6, <1>7, <1>8, <1>10 DEF m

LEMMA SendFlow ==
  ASSUME SessionInv, FlowInv, NEW c \in Clients, brclient_send_msg(c) \/ brclient_send_msg_udp(c)
  PROVE  FlowInv'
<1>0. DOMAIN up = Clients /\ sent \in [Clients -> [tcp : Nat, udp : Nat]]
  BY DEF SessionInv, Typed, FlowInv
<1>1. CASE brclient_send_msg(c)
  <2> DEFINE m == Sealed(c, "tcp")
  <2>1. /\ up' = [up EXCEPT ![c] = Append(@, m)] /\ sent' = [sent EXCEPT ![c].tcp = @ + 1]
        /\ UNCHANGED <<server_messages, taken, udp, refused, peer>>
    BY <1>1 DEF brclient_send_msg
  <2>2. /\ m \in Frames /\ m.type = "APP_ENC" /\ Carried(c, peer[c], m)
        /\ Num(m) = sent[c].tcp + 1
    BY SealedFacts
  <2> HIDE DEF m
  <2>3. /\ up'[c] = Append(up[c], m) /\ sent'[c].tcp = sent[c].tcp + 1
        /\ \A x \in Clients : x # c => up'[x] = up[x] /\ sent'[x] = sent[x]
    BY <1>0, <2>1
  <2>4. sent' \in [Clients -> [tcp : Nat, udp : Nat]]
    BY <1>0, <2>1, SMTT(30)
  <2>5. Flow(c, peer[c], Append(up[c], m), Given, sent[c].tcp + 1, refused[c].up)
    <3>1. Flow(c, peer[c], up[c], Given, sent[c].tcp, refused[c].up) /\ Given \in Seq(Notes)
      BY FlowOf, GivenSeq
    <3> QED
      BY <2>2, <3>1, FlowSend
  <2>6. Given' = Given
    BY <2>1 DEF Given
  <2>7. ASSUME NEW x \in Clients
        PROVE  Flow(x, peer'[x], up'[x], Given', sent'[x].tcp, refused'[x].up)
    <3>1. CASE x = c
      BY <2>1, <2>3, <2>5, <2>6, <3>1
    <3>2. CASE x # c
      BY <2>1, <2>3, <2>6, <3>2, FlowOf
    <3> QED
      BY <3>1, <3>2
  <2> QED
    BY <2>1, <2>4, <2>7 DEF FlowInv
<1>2. CASE brclient_send_msg_udp(c)
  <2>1. /\ udp' = udp \cup {Sealed(c, "udp")} /\ sent' = [sent EXCEPT ![c].udp = @ + 1]
        /\ UNCHANGED <<server_messages, taken, up, refused, peer>>
    BY <1>2 DEF brclient_send_msg_udp
  <2>2. udp' \subseteq Datagrams
    BY <2>1, SealedFacts DEF FlowInv
  <2>3. sent' \in [Clients -> [tcp : Nat, udp : Nat]]
    BY <1>0, <2>1
  <2>4. \A x \in Clients : sent'[x].tcp = sent[x].tcp
    BY <1>0, <2>1
  <2>5. Given' = Given
    BY <2>1 DEF Given
  <2>6. ASSUME NEW x \in Clients
        PROVE  Flow(x, peer'[x], up'[x], Given', sent'[x].tcp, refused'[x].up)
    BY <2>1, <2>4, <2>5, FlowOf
  <2> QED
    BY <2>1, <2>2, <2>3, <2>6 DEF FlowInv
<1> QED
  BY <1>1, <1>2

\* A message goes into the queue, or the queue is full
LEMMA Delivered ==
  ASSUME FlowInv, NEW v \in Notes, server_messages' = Q!enqueue(server_messages, v),
         UNCHANGED taken
  PROVE  /\ Shaped(server_messages') /\ taken' \in Seq(Notes)
         /\ Q!full(server_messages) => Given' = Given
         /\ ~Q!full(server_messages) => Given' = Append(Given, v)
<1>1. Shaped(server_messages) /\ taken \in Seq(Notes) /\ Held(server_messages) \in Seq(Notes)
  BY GivenSeq DEF FlowInv
<1>2. /\ Shaped(server_messages')
      /\ Q!full(server_messages) => server_messages' = server_messages
      /\ ~Q!full(server_messages) => Held(server_messages') = Append(Held(server_messages), v)
  BY <1>1, HeldEnqueue
<1>3. taken \o Append(Held(server_messages), v) = Append(taken \o Held(server_messages), v)
  BY <1>1, ConcatAppend
<1> QED
  BY <1>1, <1>2, <1>3 DEF Given

\* The id of an entry finds that entry
LEMMA EntryFound ==
  ASSUME SessionInv, NEW k \in 1..Len(clients)
  PROVE  Listed(clients[k].id) # {} /\ get_from_list(clients[k].id) = clients[k]
<1> DEFINE id == clients[k].id
<1>1. Listed(id) = {k}
  BY DEF Listed, SessionInv, Ordered
<1>2. k \in Int
  BY LenProperties, ThreadFields
<1> HIDE DEF id
<1>3. (CHOOSE i \in Listed(id) : \A j \in Listed(id) : i <= j) = k
  BY <1>1, <1>2
<1> QED
  BY <1>1, <1>3 DEF get_from_list, id

\* What the server makes of a frame of client c
LEMMA FrameAccepted ==
  ASSUME SessionInv, FlowInv, NEW c \in Clients, up[c] # << >>, Enqueue(Head(up[c]))
  PROVE  LET m == Head(up[c])
         IN  /\ m.type # "APP_ENC" => UNCHANGED <<server_messages, refused>>
             /\ m.type = "APP_ENC" =>
                  /\ server_messages' = Q!enqueue(server_messages, m.content.plain)
                  /\ refused' = IF Q!full(server_messages)
                                THEN [refused EXCEPT ![c].up = @ + 1] ELSE refused
<1> DEFINE m == Head(up[c])
<1>1. m \in Frames /\ Flow(c, peer[c], up[c], Given, sent[c].tcp, refused[c].up)
  BY FlowOf, TailPlaces
<1>2. CASE m.type # "APP_ENC"
  <2>1. m.type \in {"AUTH", "KEY", "APP_ENC"}
    BY <1>1 DEF Frames
  <2>2. \A key : ~Accepted(key, m)
    BY <1>2, <2>1 DEF Accepted
  <2> QED
    BY <1>2, <2>2 DEF Enqueue
<1>3. CASE m.type = "APP_ENC"
  <2>1. Carried(c, peer[c], m)
    <3>1. Given \in Seq(Notes)
      BY GivenSeq
    <3> QED
      BY <1>1, <1>3, <3>1, FlowRead
  <2>2. c \in Who(clients)
    BY <1>3, StrangerSilent
  <2>3. PICK k \in 1..Len(clients) : clients[k].who = c
    BY <2>2 DEF Who
  <2>4. Agreed(c, peer[c], clients[k])
    BY <2>3, PeerOf DEF Stage
  <2>5. m.source_id = clients[k].id /\ m.content.key = clients[k].sesskey
        /\ m.content.tag = "token" /\ m.content.plain.via = "tcp"
    BY <2>1, <2>4 DEF Agreed, Carried
  <2>6. Listed(m.source_id) # {} /\ get_from_list(m.source_id) = clients[k]
    BY <2>5, EntryFound
  <2>7. Accepted(clients[k].sesskey, m) /\ Payload(m) = m.content.plain
    BY <1>3, <2>5 DEF Accepted, Opens, Payload
  <2> HIDE DEF m
  <2>8. Enqueue(m)
    BY DEF m
  <2>9. /\ server_messages' = Q!enqueue(server_messages, m.content.plain)
        /\ refused' = IF Q!full(server_messages) THEN [refused EXCEPT ![c].up = @ + 1] ELSE refused
    BY <2>3, <2>5, <2>6, <2>7, <2>8 DEF Enqueue
  <2> QED
    BY <1>3, <2>9 DEF m
<1> QED
  BY <1>2, <1>3

LEMMA TcpFlow == ASSUME SessionInv, FlowInv, NEW c \in Clients, game_tcp(c) PROVE FlowInv'
<1>0. DOMAIN up = Clients /\ refused \in [Clients -> [up : Nat, down : Nat]]
  BY DEF SessionInv, Typed, FlowInv
<1>1. /\ up[c] # << >> /\ Enqueue(Head(up[c])) /\ up' = [up EXCEPT ![c] = Tail(@)]
      /\ UNCHANGED <<udp, peer, sent, taken>>
  BY DEF game_tcp
<1>2. up'[c] = Tail(up[c]) /\ \A x \in Clients : x # c => up'[x] = up[x]
  BY <1>0, <1>1
<1> DEFINE m == Head(up[c])
           v == m.content.plain
<1>3. /\ Given \in Seq(Notes)
      /\ \A x \in Clients : Flow(x, peer[x], up[x], Given, sent[x].tcp, refused[x].up)
  BY FlowOf, GivenSeq
<1>4. /\ m.type # "APP_ENC" => Flow(c, peer[c], Tail(up[c]), Given, sent[c].tcp, refused[c].up)
      /\ m.type = "APP_ENC" =>
           /\ Flow(c, peer[c], Tail(up[c]), Given, sent[c].tcp, refused[c].up + 1)
           /\ Carried(c, peer[c], m)
           /\ Flow(c, peer[c], Tail(up[c]), Append(Given, v), sent[c].tcp, refused[c].up)
  BY <1>1, <1>3, FlowRead
<1>5. /\ m.type # "APP_ENC" => UNCHANGED <<server_messages, refused>>
      /\ m.type = "APP_ENC" =>
           /\ server_messages' = Q!enqueue(server_messages, v)
           /\ refused' = IF Q!full(server_messages)
                         THEN [refused EXCEPT ![c].up = @ + 1] ELSE refused
  BY <1>1, FrameAccepted
<1> HIDE DEF m, v
<1>6. CASE m.type # "APP_ENC"
  BY <1>1, <1>2, <1>4, <1>5, <1>6, HandshakeFlow
<1>7. CASE m.type = "APP_ENC"
  <2>1. v \in Notes /\ v.from = c
    BY <1>4, <1>7 DEF Carried, v
  <2>2. /\ Shaped(server_messages') /\ taken' \in Seq(Notes)
        /\ Q!full(server_messages) => Given' = Given
        /\ ~Q!full(server_messages) => Given' = Append(Given, v)
    BY <1>1, <1>5, <1>7, <2>1, Delivered
  <2>3. CASE Q!full(server_messages)
    <3>1. refused' = [refused EXCEPT ![c].up = @ + 1] /\ Given' = Given
      BY <1>5, <1>7, <2>2, <2>3
    <3>2. /\ refused' \in [Clients -> [up : Nat, down : Nat]] /\ refused'[c].up = refused[c].up + 1
          /\ \A x \in Clients : x # c => refused'[x] = refused[x]
      BY <1>0, <3>1
    <3>3. ASSUME NEW x \in Clients
          PROVE  Flow(x, peer'[x], up'[x], Given', sent'[x].tcp, refused'[x].up)
      <4>1. CASE x = c
        BY <1>1, <1>2, <1>4, <1>7, <3>1, <3>2, <4>1
      <4>2. CASE x # c
        BY <1>1, <1>2, <1>3, <3>1, <3>2, <4>2
      <4> QED
        BY <4>1, <4>2
    <3> QED
      BY <1>1, <2>2, <3>2, <3>3 DEF FlowInv
  <2>4. CASE ~Q!full(server_messages)
    <3>1. refused' = refused /\ Given' = Append(Given, v)
      BY <1>5, <1>7, <2>2, <2>4
    <3>3. ASSUME NEW x \in Clients
          PROVE  Flow(x, peer'[x], up'[x], Given', sent'[x].tcp, refused'[x].up)
      <4>1. CASE x = c
        BY <1>1, <1>2, <1>4, <1>7, <3>1, <4>1
      <4>2. CASE x # c
        <5>1. Flow(x, peer[x], up[x], Append(Given, v), sent[x].tcp, refused[x].up)
          BY <1>3, <2>1, <4>2, FlowOther
        <5> QED
          BY <1>1, <1>2, <3>1, <4>2, <5>1
      <4> QED
        BY <4>1, <4>2
    <3> QED
      BY <1>0, <1>1, <2>2, <3>1, <3>3 DEF FlowInv
  <2> QED
    BY <2>3, <2>4
<1> QED
  BY <1>6, <1>7

LEMMA UdpFlow == ASSUME SessionInv, FlowInv, game_udp PROVE FlowInv'
<1>1. UNCHANGED <<up, peer, sent, taken>>
  BY DEF game_udp
<1>2. PICK d \in udp : Enqueue(d) /\ udp' = udp \ {d}
  BY DEF game_udp
<1> DEFINE v == d.content.plain
<1>3. d.content.tag = "token" /\ v \in UdpNotes
  BY <1>2 DEF FlowInv, Datagrams
<1>4. v \in Notes /\ v.via = "udp"
  BY <1>3 DEF UdpNotes, Notes
<1>5. Payload(d) = v
  BY <1>3 DEF Payload
<1> HIDE DEF v
<1>6. /\ server_messages' = server_messages \/ server_messages' = Q!enqueue(server_messages, v)
      /\ refused' = refused
  BY <1>2, <1>4, <1>5 DEF Enqueue
<1>7. CASE server_messages' = server_messages
  BY <1>1, <1>2, <1>6, <1>7, QuietFlow DEF FlowInv
<1>8. CASE server_messages' = Q!enqueue(server_messages, v)
  <2>1. Given' = Given \/ Given' = Append(Given, v)
    BY <1>1, <1>4, <1>8, Delivered
  <2>2. Shaped(server_messages') /\ taken' \in Seq(Notes)
    BY <1>1, <1>4, <1>8, Delivered
  <2>3. ASSUME NEW x \in Clients
        PROVE  Flow(x, peer'[x], up'[x], Given', sent'[x].tcp, refused'[x].up)
    <3>1. Flow(x, peer[x], up[x], Given, sent[x].tcp, refused[x].up) /\ Given \in Seq(Notes)
      BY FlowOf, GivenSeq
    <3>2. Flow(x, peer[x], up[x], Append(Given, v), sent[x].tcp, refused[x].up)
      BY <1>4, <3>1, FlowOther
    <3> QED
      BY <1>1, <1>6, <2>1, <3>1, <3>2
  <2> QED
    BY <1>1, <1>2, <1>6, <2>2, <2>3 DEF FlowInv
<1> QED
  BY <1>6, <1>7, <1>8

LEMMA TakeFlow == ASSUME HeldInv, FlowInv, take_locked PROVE FlowInv'
<1> DEFINE h == Held(server_messages)
<1>1. /\ UNCHANGED <<up, udp, peer, sent, refused>>
      /\ taken' = Append(taken, Q!peek(server_messages))
      /\ server_messages' = Q!dequeue(server_messages)
      /\ ~Q!empty(server_messages)
  BY DEF take_locked, netVars, HeldInv
<1>2. taken \in Seq(Notes) /\ h \in Seq(Notes) /\ Shaped(server_messages)
  BY GivenSeq DEF FlowInv
<1>3. /\ Shaped(server_messages') /\ h # << >> /\ Q!peek(server_messages) = Head(h)
      /\ Held(server_messages') = Tail(h)
  BY <1>1, <1>2, HeldDequeue
<1> HIDE DEF h
<1>4. Append(taken, Head(h)) \o Tail(h) = taken \o h
  BY <1>2, <1>3, ConcatMove
<1>5. Head(h) \in Notes
  BY <1>2, <1>3, TailPlaces
<1>6. taken' \in Seq(Notes)
  BY <1>1, <1>2, <1>3, <1>5, AppendPlaces
<1>7. Given' = Given
  BY <1>1, <1>3, <1>4 DEF Given, h
<1>8. ASSUME NEW x \in Clients
      PROVE  Flow(x, peer'[x], up'[x], Given', sent'[x].tcp, refused'[x].up)
  BY <1>1, <1>7, FlowOf
<1> QED
  BY <1>1, <1>3, <1>6, <1>8 DEF FlowInv

\* Steps that leave the processes' ids and keys, and all counters of this flow
LEMMA StillFlow ==
  ASSUME FlowInv, UNCHANGED <<server_messages, taken, sent, up, udp, refused, peer>>
  PROVE  FlowInv'
  BY QuietFlow DEF FlowInv

LEMMA ClientFlow ==
  ASSUME SessionInv, FlowInv, NEW c \in Clients,
         connect_on_tcp(c) \/ ClientThread(c) \/ brclient_get_app_msg(c) \/ Leave(c)
  PROVE  FlowInv'
<1>0. /\ DOMAIN peer = Clients
      /\ \A x \in Clients : DOMAIN peer[x] = {"at", "state", "id", "nonce", "sesskey", "polls"}
      /\ refused \in [Clients -> [up : Nat, down : Nat]]
  BY PeerOf DEF Peers, FlowInv
<1>1. CASE brclient_get_app_msg(c)
  BY <1>1, StillFlow DEF brclient_get_app_msg, netVars
<1>2. CASE client_game_state(c)
  <2>1. UNCHANGED <<server_messages, taken, sent, up, udp>>
    BY <1>2 DEF client_game_state
  <2>2. \E s : peer' = [peer EXCEPT ![c].state = s]
    BY <1>2 DEF client_game_state
  <2>3. \A x \in Clients : peer'[x].id = peer[x].id /\ peer'[x].sesskey = peer[x].sesskey
    BY <1>0, <2>2
  <2>4. PICK n \in {refused[c].down, refused[c].down + 1} :
          refused' = [refused EXCEPT ![c].down = n]
    BY <1>2 DEF client_game_state
  <2>5. n \in Nat
    BY <1>0
  <2>6. /\ refused' \in [Clients -> [up : Nat, down : Nat]]
        /\ \A x \in Clients : refused'[x].up = refused[x].up
    BY <1>0, <2>4, <2>5
  <2> QED
    BY <2>1, <2>3, <2>6, QuietFlow
<1>3. CASE connect_on_tcp(c) \/ client_lobby_state(c) \/ client_game_eof(c) \/ Leave(c)
  <2>1. UNCHANGED <<server_messages, taken, sent, up, udp, refused>>
    BY <1>3 DEF connect_on_tcp, client_lobby_state, client_game_eof, Leave, netVars, history
  <2>2. \/ \E s : peer' = [peer EXCEPT ![c].at = s]
        \/ \E s : peer' = [peer EXCEPT ![c].state = s]
        \/ \E s : peer' = [peer EXCEPT ![c].polls = s]
        \/ peer' = [peer EXCEPT ![c] = [@ EXCEPT !.at = "gone"]]
    BY <1>3 DEF connect_on_tcp, client_lobby_state, client_game_eof, Leave, Exit
  <2>3. \A x \in Clients : peer'[x].id = peer[x].id /\ peer'[x].sesskey = peer[x].sesskey
    BY <1>0, <2>2
  <2> QED
    BY <1>0, <2>1, <2>3, QuietFlow
<1>4. CASE client_game_udp(c)
  BY <1>4, StillFlow DEF client_game_udp, history
<1> QED
  BY <1>1, <1>2, <1>3, <1>4 DEF ClientThread

LEMMA FlowStep == ASSUME SessionInv, HeldInv, FlowInv, [Next]_vars PROVE FlowInv'
<1>1. CASE ServerThread
  <2>1. CASE \/ server_idle_state \/ lobby_accept \/ lobby_cleanup \/ server_game_state
             \/ send_start \/ server_end_state
    BY <2>1, StillFlow
    DEF server_idle_state, lobby_accept, lobby_cleanup, server_game_state, send_start,
        server_end_state, netVars, history
  <2>2. ASSUME NEW c \in Clients, game_eof(c) PROVE FlowInv'
    BY <2>2, StillFlow DEF game_eof, netVars, history
  <2> QED
    BY <1>1, <2>1, <2>2, LobbyFlow, UdpFlow, TcpFlow DEF ServerThread
<1>2. CASE \/ brserver_open \/ brserver_start \/ brserver_send_to_all \/ brserver_send_to_target
           \/ brserver_send_broadcast \/ push_half \/ brserver_get_app_msg \/ brserver_end
           \/ exit_process \/ UNCHANGED vars
  BY <1>2, StillFlow
  DEF brserver_open, brserver_start, brserver_send_to_all, brserver_send_to_target,
      brserver_send_broadcast, push_half,
      brserver_get_app_msg, brserver_end, exit_process, vars, netVars, history
<1>3. CASE LoseDatagram
  BY <1>3, QuietFlow DEF LoseDatagram, history, FlowInv
<1>4. CASE take_locked
  BY <1>4, TakeFlow
<1>5. ASSUME NEW c \in Clients,
             \/ connect_on_tcp(c) \/ Join(c) \/ ClientThread(c) \/ brclient_send_msg(c)
             \/ brclient_send_msg_udp(c) \/ brclient_get_app_msg(c) \/ Leave(c)
      PROVE  FlowInv'
  BY <1>5, JoinFlow, ClientFlow, SendFlow
<1> QED
  BY <1>1, <1>2, <1>3, <1>4, <1>5 DEF Next

LEMMA FlowInit == Init => FlowInv
<1> SUFFICES ASSUME Init PROVE FlowInv
  OBVIOUS
<1>0. MaxSize \in Nat
  BY LinkAssumption
<1>1. server_messages.front = -1 /\ server_messages.rear = 0
      /\ DOMAIN server_messages.items = 0..(MaxSize - 1)
  BY DEF Init, Q!queue_init
<1>2. Shaped(server_messages)
  BY <1>0, <1>1 DEF Shaped, Filled
<1>3. Held(server_messages) = << >> /\ taken = << >>
  <2>1. Held(server_messages) \in Seq(Notes) /\ Len(Held(server_messages)) = 0
    BY <1>1, <1>2, FilledSeq DEF Shaped
  <2> QED
    BY <2>1, EmptySeq DEF Init
<1>4. Given = << >>
  BY <1>3 DEF Given
<1>5. ASSUME NEW c \in Clients
      PROVE  Flow(c, peer[c], up[c], Given, sent[c].tcp, refused[c].up)
  <2>1. up[c] = << >> /\ sent[c].tcp = 0 /\ refused[c].up = 0
    BY DEF Init
  <2>2. Sealeds(<< >>) = {} /\ Own(c, << >>) = {}
    BY DEF Sealeds, Own
  <2>3. Cardinality({}) = 0
    BY FS_EmptySet
  <2>4. << >> \in Seq(Frames) /\ 0 \in Nat /\ 0 + 0 + 0 = 0
    OBVIOUS
  <2>5. Flow(c, peer[c], << >>, << >>, 0, 0)
    BY ONLY <2>2, <2>3, <2>4, Zenon DEF Flow
  <2> QED
    BY <1>4, <2>1, <2>5
<1>6. /\ sent \in [Clients -> [tcp : Nat, udp : Nat]] /\ udp \subseteq Datagrams
      /\ refused \in [Clients -> [up : Nat, down : Nat]]
  BY DEF Init
<1>7. taken \in Seq(Notes)
  BY <1>3
<1> QED
  BY ONLY <1>2, <1>5, <1>6, <1>7, Zenon DEF FlowInv

\* Messages go up in order (inductive invariant): what is in flight, in the queue
\* and given out are the numbers sent, rising, but for the refused ones
THEOREM FlowKept == Spec => [](SessionInv /\ HeldInv /\ FlowInv)
<1>1. Init => HeldInv
  BY DEF Init, Idle, HeldInv, Bounds, Q!queue_init
<1> QED
  BY <1>1, FlowInit, FlowStep, HeldStep, SessionStages, PTL DEF Spec

\* Every TCP message of a client reaches the server's application once and in the
\* order sent, or is in flight, or was refused by a full queue; whoever else joins,
\* sends, leaves or is lost (server.c:362-404)
THEOREM UpAlwaysExact == Spec => []UpExact
<1>1. FlowInv => UpExact
  <2> SUFFICES ASSUME FlowInv, NEW c \in Clients
               PROVE  /\ \A j, k \in Own(c, Given) : j < k => Given[j].n < Given[k].n
                      /\ Cardinality(Own(c, Given)) + Cardinality(InFlight(c)) + refused[c].up
                           = sent[c].tcp
    BY DEF UpExact, Given
  <2>1. InFlight(c) = Sealeds(up[c])
    BY DEF InFlight, Sealeds
  <2> QED
    BY <2>1, FlowOf DEF Flow
<1> QED
  BY <1>1, FlowKept, PTL

-----------------------------------------------------------------------------
(***************************************************************************)
(* The way back: what the server's application sends, as the client's is   *)
(* given it.  Two threads write to a client's socket without a lock, half  *)
(* a frame at a time; that the halves pair up is shown for the clients the *)
(* application has not written to before MSG_START was out (not in early). *)
(***************************************************************************)

(* Pushes, half by half *)

Payloads == {Push(n) : n \in Nat}
Carry(x, h) == IF IsApp(h) THEN Append(x, h.msg.content.plain) ELSE x
IsCount(f, s) == f = [k \in 0..Len(s) |-> IF k = 0 THEN << >> ELSE Carry(f[k - 1], s[k])]

LEMMA CountExists ==
  ASSUME NEW s, Len(s) \in Nat
  PROVE  \E f : IsCount(f, s)
<1> DEFINE Loop(f, N) == f = [k \in 0..N |-> IF k = 0 THEN << >> ELSE Carry(f[k - 1], s[k])]
           S == {N \in Nat : \E f : Loop(f, N)}
<1>1. 0 \in S
  <2>1. Loop([k \in 0..0 |-> << >>], 0)
    OBVIOUS
  <2> QED
    BY <2>1
<1>2. ASSUME NEW n \in Nat, n \in S PROVE n + 1 \in S
  <2>1. PICK f : Loop(f, n)
    BY <1>2
  <2>2. PICK g : g = [k \in 0..(n + 1) |-> IF k = n + 1 THEN Carry(f[n], s[k]) ELSE f[k]]
    OBVIOUS
  <2>3. ASSUME NEW k \in 0..(n + 1)
        PROVE  g[k] = IF k = 0 THEN << >> ELSE Carry(g[k - 1], s[k])
    <3>1. CASE k = n + 1
      <4>1. g[k] = Carry(f[n], s[k]) /\ k - 1 = n /\ k # 0
        BY <2>2, <3>1
      <4>2. g[n] = f[n]
        BY <2>2
      <4> QED
        BY <4>1, <4>2
    <3>2. CASE k # n + 1
      <4>1. k \in 0..n /\ (k # 0 => k - 1 \in 0..n)
        BY <3>2
      <4>2. f[k] = IF k = 0 THEN << >> ELSE Carry(f[k - 1], s[k])
        BY <2>1, <4>1
      <4>3. g[k] = f[k] /\ (k # 0 => g[k - 1] = f[k - 1])
        BY <2>2, <4>1
      <4> QED
        BY <4>2, <4>3
    <3> QED
      BY <3>1, <3>2
  <2>4. g = [k \in 0..(n + 1) |-> g[k]]
    BY <2>2
  <2>5. Loop(g, n + 1)
    BY <2>3, <2>4
  <2> HIDE DEF Loop
  <2> QED
    BY <2>5
<1>3. \E f : Loop(f, Len(s))
  <2> HIDE DEF S
  <2>1. Nat \subseteq S
    BY <1>1, <1>2, SetInduction
  <2> QED
    BY <2>1 DEF S
<1> QED
  BY <1>3 DEF IsCount

\* Counting is unique, and Pushes is where it ends
LEMMA PushesCount ==
  ASSUME NEW s, Len(s) \in Nat, NEW f, IsCount(f, s)
  PROVE  Pushes(s) = f[Len(s)]
<1> DEFINE Loop(g) == g = [k \in 0..Len(s) |->
             IF k = 0 THEN << >>
             ELSE IF IsApp(s[k]) THEN Append(g[k - 1], s[k].msg.content.plain) ELSE g[k - 1]]
<1>1. Loop(f)
  BY DEF IsCount, Carry
<1>2. PICK g : Loop(g) /\ Pushes(s) = g[Len(s)]
  BY <1>1 DEF Pushes
<1> DEFINE T == {k \in Nat : k <= Len(s) => g[k] = f[k]}
<1>3. 0 \in T
  <2>1. g[0] = << >> /\ f[0] = << >>
    BY <1>2 DEF IsCount
  <2> QED
    BY <2>1
<1>4. ASSUME NEW n \in Nat, n \in T PROVE n + 1 \in T
  <2> SUFFICES ASSUME n + 1 <= Len(s) PROVE g[n + 1] = f[n + 1]
    OBVIOUS
  <2>1. n <= Len(s) /\ n + 1 \in 0..Len(s) /\ n + 1 # 0 /\ (n + 1) - 1 = n
    OBVIOUS
  <2>2. g[n + 1] = Carry(g[n], s[n + 1])
    BY <1>2, <2>1 DEF Carry
  <2>3. f[n + 1] = Carry(f[n], s[n + 1])
    BY <2>1 DEF IsCount
  <2>4. g[n] = f[n]
    BY <1>4, <2>1
  <2> QED
    BY <2>2, <2>3, <2>4
<1>5. g[Len(s)] = f[Len(s)]
  <2> HIDE DEF T
  <2>1. Nat \subseteq T
    BY <1>3, <1>4, SetInduction
  <2> QED
    BY <2>1 DEF T
<1> QED
  BY <1>2, <1>5

\* Only payloads are carried
Plainly(s) ==
  /\ Len(s) \in Nat
  /\ \A k \in 1..Len(s) : IsApp(s[k]) => s[k].msg.content.plain \in Payloads

LEMMA CarrySeq ==
  ASSUME NEW x \in Seq(Payloads), NEW h, IsApp(h) => h.msg.content.plain \in Payloads
  PROVE  Carry(x, h) \in Seq(Payloads)
  BY DEF Carry

LEMMA CountSeq ==
  ASSUME NEW s, Plainly(s), NEW f, IsCount(f, s)
  PROVE  \A k \in 0..Len(s) : f[k] \in Seq(Payloads)
<1>0. Len(s) \in Nat
  BY DEF Plainly
<1> DEFINE T == {k \in Nat : k <= Len(s) => f[k] \in Seq(Payloads)}
<1>1. 0 \in T
  <2>1. f[0] = << >> /\ << >> \in Seq(Payloads)
    BY <1>0 DEF IsCount
  <2> QED
    BY <2>1
<1>2. ASSUME NEW n \in Nat, n \in T PROVE n + 1 \in T
  <2> SUFFICES ASSUME n + 1 <= Len(s) PROVE f[n + 1] \in Seq(Payloads)
    OBVIOUS
  <2>1. n <= Len(s) /\ n + 1 \in 0..Len(s) /\ n + 1 \in 1..Len(s) /\ n + 1 # 0 /\ (n + 1) - 1 = n
    BY <1>0
  <2>2. f[n + 1] = Carry(f[n], s[n + 1])
    BY <2>1 DEF IsCount
  <2>3. f[n] \in Seq(Payloads)
    BY <1>2, <2>1
  <2>4. IsApp(s[n + 1]) => s[n + 1].msg.content.plain \in Payloads
    BY <2>1 DEF Plainly
  <2>5. Carry(f[n], s[n + 1]) \in Seq(Payloads)
    BY ONLY <2>3, <2>4, CarrySeq
  <2> QED
    BY <2>2, <2>5
<1>3. Nat \subseteq T
  <2> HIDE DEF T
  <2> QED
    BY <1>1, <1>2, SetInduction
<1> QED
  BY <1>0, <1>3

LEMMA PushesSeq ==
  ASSUME NEW s, Plainly(s)
  PROVE  Pushes(s) \in Seq(Payloads)
<1>1. Len(s) \in Nat /\ Len(s) \in 0..Len(s)
  BY DEF Plainly
<1>2. PICK f : IsCount(f, s)
  BY <1>1, CountExists
<1> QED
  BY <1>1, <1>2, CountSeq, PushesCount

LEMMA PushesNone ==
  ASSUME NEW s, Len(s) \in Nat, \A k \in 1..Len(s) : ~IsApp(s[k])
  PROVE  Pushes(s) = << >>
<1>1. PICK f : IsCount(f, s)
  BY CountExists
<1> DEFINE T == {k \in Nat : k <= Len(s) => f[k] = << >>}
<1>2. 0 \in T
  BY <1>1 DEF IsCount
<1>3. ASSUME NEW n \in Nat, n \in T PROVE n + 1 \in T
  <2> SUFFICES ASSUME n + 1 <= Len(s) PROVE f[n + 1] = << >>
    OBVIOUS
  <2>1. n <= Len(s) /\ n + 1 \in 0..Len(s) /\ n + 1 \in 1..Len(s) /\ n + 1 # 0 /\ (n + 1) - 1 = n
    OBVIOUS
  <2>2. f[n + 1] = Carry(f[n], s[n + 1])
    BY <1>1, <2>1 DEF IsCount
  <2>3. f[n] = << >> /\ ~IsApp(s[n + 1])
    BY <1>3, <2>1
  <2> QED
    BY <2>2, <2>3 DEF Carry
<1>4. Nat \subseteq T
  <2> HIDE DEF T
  <2> QED
    BY <1>2, <1>3, SetInduction
<1>5. f[Len(s)] = << >>
  BY <1>4
<1> QED
  BY <1>1, <1>5, PushesCount

\* A half more
LEMMA PushesAppend ==
  ASSUME NEW S, NEW s \in Seq(S), NEW h \in S
  PROVE  Pushes(Append(s, h)) = Carry(Pushes(s), h)
<1>1. PICK r : r = Append(s, h)
  OBVIOUS
<1>2. PICK n : n = Len(s)
  OBVIOUS
<1>3. n \in Nat /\ Len(r) = n + 1 /\ r[n + 1] = h /\ \A k \in 1..n : r[k] = s[k]
  BY <1>1, <1>2, AppendPlaces
<1>4. PICK f : IsCount(f, s)
  BY <1>2, <1>3, CountExists
<1>5. PICK g : g = [k \in 0..(n + 1) |-> IF k = n + 1 THEN Carry(f[n], h) ELSE f[k]]
  OBVIOUS
<1>6. ASSUME NEW k \in 0..(n + 1)
      PROVE  g[k] = IF k = 0 THEN << >> ELSE Carry(g[k - 1], r[k])
  <2>1. CASE k = n + 1
    <3>1. g[k] = Carry(f[n], h) /\ k - 1 = n /\ k # 0 /\ g[n] = f[n]
      BY <1>3, <1>5, <2>1
    <3> QED
      BY <1>3, <2>1, <3>1
  <2>2. CASE k # n + 1
    <3>1. k \in 0..n /\ (k # 0 => k - 1 \in 0..n /\ k \in 1..n)
      BY <1>3, <2>2
    <3>2. f[k] = IF k = 0 THEN << >> ELSE Carry(f[k - 1], s[k])
      BY <1>2, <1>4, <3>1 DEF IsCount
    <3>3. g[k] = f[k] /\ (k # 0 => g[k - 1] = f[k - 1] /\ r[k] = s[k])
      BY <1>3, <1>5, <3>1
    <3> QED
      BY <3>2, <3>3
  <2> QED
    BY <2>1, <2>2
<1>7. IsCount(g, r)
  <2>1. g = [k \in 0..(n + 1) |-> g[k]]
    BY <1>5
  <2> QED
    BY <1>3, <1>6, <2>1 DEF IsCount
<1>8. Pushes(r) = g[n + 1]
  <2>1. Len(r) \in Nat
    BY <1>3
  <2> QED
    BY <1>3, <1>7, <2>1, PushesCount
<1>9. Pushes(s) = f[n]
  BY <1>2, <1>3, <1>4, PushesCount
<1>10. g[n + 1] = Carry(f[n], h)
  BY <1>3, <1>5
<1> QED
  BY <1>1, <1>8, <1>9, <1>10

LEMMA CarryConcat ==
  ASSUME NEW x \in Seq(Payloads), NEW y \in Seq(Payloads), NEW h,
         IsApp(h) => h.msg.content.plain \in Payloads
  PROVE  Carry(x \o y, h) = x \o Carry(y, h)
<1>1. CASE IsApp(h)
  <2>1. PICK v : v = h.msg.content.plain
    OBVIOUS
  <2>2. v \in Payloads
    BY <1>1, <2>1
  <2>3. x \o Append(y, v) = Append(x \o y, v)
    BY <2>2, ConcatAppend
  <2> QED
    BY <1>1, <2>1, <2>3 DEF Carry
<1>2. CASE ~IsApp(h)
  BY <1>2 DEF Carry
<1> QED
  BY <1>1, <1>2

LEMMA RestPlaces ==
  ASSUME NEW S, NEW s \in Seq(S), Len(s) >= 2
  PROVE  /\ Rest(s) \in Seq(S) /\ Len(s) \in Nat /\ Len(Rest(s)) = Len(s) - 2
         /\ \A k \in 1..(Len(s) - 2) : Rest(s)[k] = s[k + 2]
<1>1. PICK n : n = Len(s)
  OBVIOUS
<1>2. n \in Nat /\ n >= 2
  BY <1>1
<1>3. PICK r : r = SubSeq(s, 3, n)
  OBVIOUS
<1>4. r \in Seq(S) /\ Len(r) = n - 2 /\ \A k \in 1..(n - 2) : r[k] = s[k + 2]
  BY <1>1, <1>2, <1>3
<1> QED
  BY <1>1, <1>2, <1>3, <1>4 DEF Rest

\* A frame less
LEMMA PushesRest ==
  ASSUME NEW S, NEW s \in Seq(S), Plainly(s), Len(s) >= 2, ~IsApp(s[1])
  PROVE  /\ Plainly(Rest(s))
         /\ Pushes(s) = Carry(<< >>, s[2]) \o Pushes(Rest(s))
<1>1. PICK r : r = Rest(s)
  OBVIOUS
<1>2. PICK n : n = Len(s) - 2
  OBVIOUS
<1>3. /\ n \in Nat /\ Len(s) = n + 2 /\ Len(r) = n /\ \A k \in 1..n : r[k] = s[k + 2]
      /\ Len(s) \in Nat /\ r \in Seq(S)
  BY <1>1, <1>2, RestPlaces
<1>4. Plainly(r)
  <2>1. \A k \in 1..n : k + 2 \in 1..(n + 2)
    BY <1>3
  <2> QED
    BY <1>3, <2>1 DEF Plainly
<1>5. PICK f : IsCount(f, s)
  BY <1>3, CountExists
<1>6. PICK g : IsCount(g, r)
  BY <1>3, CountExists
<1>7. /\ \A k \in 0..(n + 2) : f[k] \in Seq(Payloads)
      /\ \A k \in 0..n : g[k] \in Seq(Payloads)
  BY <1>3, <1>4, <1>5, <1>6, CountSeq
<1>8. /\ f[0] = << >> /\ g[0] = << >>
      /\ \A k \in 1..(n + 2) : f[k] = Carry(f[k - 1], s[k])
      /\ \A k \in 1..n : g[k] = Carry(g[k - 1], r[k])
  BY <1>3, <1>5, <1>6 DEF IsCount
<1>9. f[2] = Carry(<< >>, s[2])
  <2>1. f[1] = Carry(f[0], s[1]) /\ f[2] = Carry(f[1], s[2])
    BY <1>3, <1>8
  <2> QED
    BY <1>8, <2>1 DEF Carry
<1> DEFINE T == {k \in Nat : k <= n => f[k + 2] = f[2] \o g[k]}
<1>10. 0 \in T
  <2>1. f[2] \o << >> = f[2]
    BY <1>3, <1>7, ConcatEmptySeq
  <2>2. 0 + 2 = 2
    OBVIOUS
  <2> QED
    BY <1>8, <2>1, <2>2
<1>11. ASSUME NEW k \in Nat, k \in T PROVE k + 1 \in T
  <2>0. k + 1 \in Nat
    OBVIOUS
  <2> SUFFICES ASSUME k + 1 <= n PROVE f[(k + 1) + 2] = f[2] \o g[k + 1]
    BY <2>0, Zenon
  <2>1. /\ k <= n /\ k + 1 \in 1..n /\ (k + 1) - 1 = k /\ (k + 1) + 2 \in 1..(n + 2)
        /\ ((k + 1) + 2) - 1 = k + 2 /\ k \in 0..n /\ 2 \in 0..(n + 2) /\ k + 2 \in 0..(n + 2)
    BY <1>3
  <2>2. f[(k + 1) + 2] = Carry(f[k + 2], s[(k + 1) + 2]) /\ g[k + 1] = Carry(g[k], r[k + 1])
    BY <1>8, <2>1
  <2>3. f[k + 2] = f[2] \o g[k] /\ r[k + 1] = s[(k + 1) + 2]
    BY <1>3, <1>11, <2>1
  <2>4. f[2] \in Seq(Payloads) /\ g[k] \in Seq(Payloads)
    BY <1>7, <2>1
  <2>5. IsApp(r[k + 1]) => r[k + 1].msg.content.plain \in Payloads
    BY <1>3, <1>4, <2>1 DEF Plainly
  <2>6. Carry(f[2] \o g[k], r[k + 1]) = f[2] \o Carry(g[k], r[k + 1])
    BY ONLY <2>4, <2>5, CarryConcat
  <2> QED
    BY <2>2, <2>3, <2>6
<1>12. f[n + 2] = f[2] \o g[n]
  <2> HIDE DEF T
  <2>1. Nat \subseteq T
    BY <1>10, <1>11, SetInduction
  <2>2. n \in T /\ n <= n
    BY <1>3, <2>1
  <2> QED
    BY <2>2, Zenon DEF T
<1>13. Pushes(s) = f[n + 2] /\ Pushes(r) = g[n]
  BY <1>3, <1>5, <1>6, PushesCount
<1> QED
  BY <1>1, <1>4, <1>9, <1>12, <1>13

-----------------------------------------------------------------------------
(* The payloads that came by TCP are counted as the ones of a stream *)

Casts == {Cast(n) : n \in Nat}
Shows == Payloads \cup Casts

Notice == Message("START", 0, Nothing)
Wrapped(v) == Half("body", IF v.via = "tcp" THEN Message("APP", 0, Plain(v)) ELSE Notice)
Wrap(s) == [k \in 1..Len(s) |-> Wrapped(s[k])]

LEMMA WrappedFacts ==
  ASSUME NEW v
  PROVE  /\ IsApp(Wrapped(v)) <=> v.via = "tcp"
         /\ v.via = "tcp" => Wrapped(v).msg.content.plain = v
<1>1. CASE v.via = "tcp"
  <2>1. Wrapped(v) = Half("body", Message("APP", 0, Plain(v)))
    BY <1>1 DEF Wrapped
  <2> QED
    BY <1>1, <2>1 DEF IsApp, Half, Message, Plain
<1>2. CASE v.via # "tcp"
  <2>1. Wrapped(v) = Half("body", Notice)
    BY <1>2 DEF Wrapped
  <2> QED
    BY <1>2, <2>1 DEF IsApp, Half, Notice, Message
<1> QED
  BY <1>1, <1>2

LEMMA ShowsVia ==
  ASSUME NEW v \in Shows
  PROVE  v \in Payloads <=> v.via = "tcp"
<1>1. ASSUME NEW n, v = Push(n) PROVE v.via = "tcp"
  BY <1>1 DEF Push
<1>2. ASSUME NEW n, v = Cast(n) PROVE v.via # "tcp"
  BY <1>2 DEF Cast
<1> QED
  BY <1>1, <1>2 DEF Shows, Payloads, Casts

LEMMA ByTcpWrap ==
  ASSUME NEW s, Len(s) \in Nat
  PROVE  ByTcp(s) = Pushes(Wrap(s)) /\ Len(Wrap(s)) = Len(s)
<1>1. PICK w : w = Wrap(s)
  OBVIOUS
<1>2. w = [k \in 1..Len(s) |-> Wrapped(s[k])]
  BY <1>1 DEF Wrap
<1>3. Len(w) = Len(s)
  <2>1. DOMAIN w = 1..Len(s)
    BY <1>2
  <2>2. w \in Seq({Wrapped(s[k]) : k \in 1..Len(s)})
    BY <1>2
  <2> QED
    BY <2>1, <2>2
<1> DEFINE Loop(g) == g = [k \in 0..Len(s) |->
             IF k = 0 THEN << >>
             ELSE IF s[k].via = "tcp" THEN Append(g[k - 1], s[k]) ELSE g[k - 1]]
<1>4. ASSUME NEW x, NEW k \in 1..Len(s)
      PROVE  Carry(x, w[k]) = IF s[k].via = "tcp" THEN Append(x, s[k]) ELSE x
  <2>1. PICK v : v = s[k]
    OBVIOUS
  <2>2. w[k] = Wrapped(v)
    BY <1>2, <2>1
  <2>3. Carry(x, Wrapped(v)) = IF v.via = "tcp" THEN Append(x, v) ELSE x
    BY WrappedFacts DEF Carry
  <2> QED
    BY <2>1, <2>2, <2>3
<1>5. ASSUME NEW g PROVE Loop(g) <=> IsCount(g, w)
  <2>1. \A k \in 0..Len(s) : k # 0 => k \in 1..Len(s)
    OBVIOUS
  <2>2. [k \in 0..Len(s) |-> IF k = 0 THEN << >>
                             ELSE IF s[k].via = "tcp" THEN Append(g[k - 1], s[k]) ELSE g[k - 1]]
        = [k \in 0..Len(s) |-> IF k = 0 THEN << >> ELSE Carry(g[k - 1], w[k])]
    BY <1>4, <2>1
  <2> QED
    BY <1>3, <2>2 DEF IsCount
<1>6. PICK f : IsCount(f, w)
  BY <1>3, CountExists
<1>7. Loop(f)
  BY <1>5, <1>6
<1>8. PICK g : Loop(g) /\ ByTcp(s) = g[Len(s)]
  BY <1>7 DEF ByTcp
<1>9. IsCount(g, w)
  BY <1>5, <1>8
<1>10. Pushes(w) = g[Len(s)]
  BY <1>3, <1>9, PushesCount
<1> QED
  BY <1>1, <1>3, <1>8, <1>10

LEMMA ByTcpNone == ByTcp(<< >>) = << >>
<1>1. PICK z : z = << >>
  OBVIOUS
<1>2. Len(z) = 0
  BY <1>1
<1>3. ByTcp(z) = Pushes(Wrap(z)) /\ Len(Wrap(z)) = 0
  BY <1>2, ByTcpWrap
<1>4. Pushes(Wrap(z)) = << >>
  BY <1>3, PushesNone
<1> QED
  BY <1>1, <1>3, <1>4

LEMMA ByTcpSeq ==
  ASSUME NEW s \in Seq(Shows)
  PROVE  ByTcp(s) \in Seq(Payloads)
<1>1. Len(s) \in Nat /\ \A k \in 1..Len(s) : s[k] \in Shows
  BY ElementOfSeq
<1>2. PICK w : w = Wrap(s)
  OBVIOUS
<1>3. ByTcp(s) = Pushes(w) /\ Len(w) = Len(s)
  BY <1>1, <1>2, ByTcpWrap
<1>4. ASSUME NEW k \in 1..Len(w), IsApp(w[k]) PROVE w[k].msg.content.plain \in Payloads
  <2>1. PICK v : v = s[k]
    OBVIOUS
  <2>2. v \in Shows /\ w[k] = Wrapped(v)
    BY <1>1, <1>2, <1>3, <2>1 DEF Wrap
  <2> QED
    BY <1>4, <2>2, WrappedFacts, ShowsVia
<1>5. Plainly(w)
  BY <1>1, <1>3, <1>4 DEF Plainly
<1> QED
  BY <1>3, <1>5, PushesSeq

LEMMA ByTcpAppend ==
  ASSUME NEW s \in Seq(Shows), NEW v \in Shows
  PROVE  ByTcp(Append(s, v)) = IF v \in Payloads THEN Append(ByTcp(s), v) ELSE ByTcp(s)
<1>1. PICK t, n : t = Append(s, v) /\ n = Len(s)
  OBVIOUS
<1>2. n \in Nat /\ Len(t) = n + 1 /\ t[n + 1] = v /\ \A k \in 1..n : t[k] = s[k]
  BY <1>1, AppendPlaces
<1>3. PICK w, u, h : w = Wrap(s) /\ u = Wrap(t) /\ h = Wrapped(v)
  OBVIOUS
<1>4. /\ w = [k \in 1..n |-> Wrapped(s[k])]
      /\ u = [k \in 1..(n + 1) |-> Wrapped(t[k])]
  BY <1>1, <1>2, <1>3 DEF Wrap
<1>5. PICK S : S = {Wrapped(t[k]) : k \in 1..(n + 1)}
  OBVIOUS
<1>6. w \in Seq(S) /\ h \in S /\ u \in Seq(S) /\ Len(w) = n /\ Len(u) = n + 1
  <2>1. \A k \in 1..n : Wrapped(s[k]) = Wrapped(t[k]) /\ k \in 1..(n + 1)
    BY <1>2
  <2>2. w \in [1..n -> S] /\ u \in [1..(n + 1) -> S]
    BY <1>4, <1>5, <2>1
  <2>3. h \in S
    BY <1>2, <1>3, <1>5
  <2> QED
    BY <1>2, <2>2, <2>3
<1>7. u = Append(w, h)
  <2>1. Append(w, h) \in Seq(S) /\ Len(Append(w, h)) = n + 1 /\ Append(w, h)[n + 1] = h
        /\ \A k \in 1..n : Append(w, h)[k] = w[k]
    BY <1>6, AppendPlaces
  <2>2. \A k \in 1..(n + 1) : u[k] = Append(w, h)[k]
    <3> SUFFICES ASSUME NEW k \in 1..(n + 1) PROVE u[k] = Append(w, h)[k]
      OBVIOUS
    <3>1. CASE k = n + 1
      BY <1>2, <1>3, <1>4, <2>1, <3>1
    <3>2. CASE k # n + 1
      <4>1. k \in 1..n
        BY <1>2, <3>2
      <4> QED
        BY <1>2, <1>4, <2>1, <4>1
    <3> QED
      BY <3>1, <3>2
  <2> QED
    BY <1>6, <2>1, <2>2, SeqEqual
<1>8. Pushes(u) = Carry(Pushes(w), h)
  BY <1>6, <1>7, PushesAppend
<1>9. ByTcp(t) = Pushes(u) /\ ByTcp(s) = Pushes(w)
  BY <1>1, <1>2, <1>3, ByTcpWrap
<1>10. Carry(Pushes(w), h) = IF v.via = "tcp" THEN Append(Pushes(w), v) ELSE Pushes(w)
  BY <1>3, WrappedFacts DEF Carry
<1> QED
  BY <1>1, <1>8, <1>9, <1>10, ShowsVia

-----------------------------------------------------------------------------
(* Frames and their halves *)

StartMsg == Message("START", 0, Nothing)
EndMsg == Message("END", 0, Nothing)
PlainPush(n) == Message("APP", 0, Plain(Push(n)))
SealedPush(key, n) == Message("APP_ENC", 0, session_encrypt(key, Push(n)))

\* What is written to a client on the list
Told(key) == {StartMsg, EndMsg} \cup {PlainPush(n) : n \in Nat}
             \cup {SealedPush(key, n) : n \in Nat}
Halves(key) == [part : {"head", "body"}, msg : Told(key)]

\* Heads and bodies alternate, and a body follows its own head
Framed(d) ==
  /\ Len(d) > 0 => d[1].part = "head"
  /\ \A i \in 1..(Len(d) - 1) :
       /\ d[i].part = "head" => d[i + 1].part = "body" /\ d[i + 1].msg = d[i].msg
       /\ d[i].part = "body" => d[i + 1].part = "head"

\* No frame is half written
Whole(d) == Len(d) > 0 => d[Len(d)].part = "body"

\* The head of m is written, and its body is not
Open(d, m) == Len(d) > 0 /\ d[Len(d)] = Half("head", m)

StartsFirst(d) == Len(d) >= 2 /\ d[1].msg.type = "START"

LEMMA ToldFacts ==
  ASSUME NEW key, NEW m \in Told(key)
  PROVE  /\ m.type \in {"START", "END", "APP", "APP_ENC"}
         /\ m.type \in {"APP", "APP_ENC"} =>
              /\ Accepted(key, m) /\ m.content.plain \in Payloads /\ Payload(m) = m.content.plain
         /\ m.type \in {"START", "END"} => ~Accepted(key, m)
<1>1. CASE m = StartMsg \/ m = EndMsg
  BY <1>1 DEF StartMsg, EndMsg, Message, Accepted
<1>2. ASSUME NEW n \in Nat, m = PlainPush(n)
      PROVE  /\ m.type = "APP" /\ Accepted(key, m) /\ m.content.plain \in Payloads
             /\ Payload(m) = m.content.plain
  BY <1>2 DEF PlainPush, Message, Plain, Accepted, Payload, Payloads
<1>3. ASSUME NEW n \in Nat, m = SealedPush(key, n)
      PROVE  /\ m.type = "APP_ENC" /\ Accepted(key, m) /\ m.content.plain \in Payloads
             /\ Payload(m) = m.content.plain
  BY <1>3 DEF SealedPush, Message, session_encrypt, Accepted, Opens, Payload, Payloads
<1> QED
  BY <1>1, <1>2, <1>3 DEF Told

LEMMA HalvesPlainly ==
  ASSUME NEW key, NEW d \in Seq(Halves(key))
  PROVE  /\ Plainly(d) /\ Pushes(d) \in Seq(Payloads) /\ Len(d) \in Nat
         /\ \A k \in 1..Len(d) : d[k] \in Halves(key) /\ d[k].msg \in Told(key)
                                 /\ d[k].part \in {"head", "body"}
<1>1. Len(d) \in Nat /\ \A k \in 1..Len(d) : d[k] \in Halves(key)
  BY ElementOfSeq
<1>2. \A k \in 1..Len(d) : d[k].msg \in Told(key) /\ d[k].part \in {"head", "body"}
  BY <1>1 DEF Halves
<1>3. Plainly(d)
  BY <1>1, <1>2, ToldFacts DEF Plainly, IsApp
<1> QED
  BY <1>1, <1>2, <1>3, PushesSeq

LEMMA HalfFacts ==
  ASSUME NEW key, NEW m \in Told(key), NEW part \in {"head", "body"}
  PROVE  Half(part, m) \in Halves(key) /\ Half(part, m).part = part /\ Half(part, m).msg = m
  BY DEF Half, Halves

LEMMA FramedHead ==
  ASSUME NEW key, NEW d \in Seq(Halves(key)), Framed(d), Whole(d), NEW m \in Told(key)
  PROVE  LET e == Append(d, Half("head", m))
         IN  /\ e \in Seq(Halves(key)) /\ Framed(e) /\ Open(e, m) /\ Pushes(e) = Pushes(d)
             /\ StartsFirst(d) => StartsFirst(e)
<1>1. PICK h : h = Half("head", m)
  OBVIOUS
<1>2. h \in Halves(key) /\ h.part = "head" /\ h.msg = m
  BY <1>1, HalfFacts
<1>3. PICK e : e = Append(d, h)
  OBVIOUS
<1>4. PICK n : n = Len(d)
  OBVIOUS
<1>5. /\ e \in Seq(Halves(key)) /\ n \in Nat /\ Len(e) = n + 1
      /\ \A k \in 1..n : e[k] = d[k]
      /\ e[n + 1] = h
  BY <1>2, <1>3, <1>4, AppendPlaces
<1>6. Framed(e)
  <2>1. e[1].part = "head"
    BY <1>2, <1>4, <1>5 DEF Framed
  <2>2. ASSUME NEW i \in 1..n
        PROVE  /\ e[i].part = "head" => e[i + 1].part = "body" /\ e[i + 1].msg = e[i].msg
               /\ e[i].part = "body" => e[i + 1].part = "head"
    <3>1. CASE i = n
      BY <1>2, <1>4, <1>5, <3>1 DEF Whole
    <3>2. CASE i # n
      <4>1. i \in 1..(n - 1) /\ i + 1 \in 1..n
        BY <1>5, <3>2
      <4> QED
        BY <1>4, <1>5, <4>1 DEF Framed
    <3> QED
      BY <3>1, <3>2
  <2>3. Len(e) - 1 = n
    BY <1>5
  <2> QED
    BY <2>1, <2>2, <2>3 DEF Framed
<1>7. Open(e, m)
  BY <1>1, <1>5 DEF Open
<1>8. Pushes(e) = Pushes(d)
  BY <1>2, <1>3, PushesAppend DEF Carry, IsApp
<1>9. StartsFirst(d) => StartsFirst(e)
  BY <1>4, <1>5 DEF StartsFirst
<1> QED
  BY <1>1, <1>3, <1>5, <1>6, <1>7, <1>8, <1>9

LEMMA FramedBody ==
  ASSUME NEW key, NEW d \in Seq(Halves(key)), Framed(d), NEW m \in Told(key), Open(d, m)
  PROVE  LET e == Append(d, Half("body", m))
         IN  /\ e \in Seq(Halves(key)) /\ Framed(e) /\ Whole(e)
             /\ m.type \in {"START", "END"} => Pushes(e) = Pushes(d)
             /\ m.type \in {"APP", "APP_ENC"} => Pushes(e) = Append(Pushes(d), m.content.plain)
             /\ StartsFirst(d) => StartsFirst(e)
<1>1. PICK h : h = Half("body", m)
  OBVIOUS
<1>2. h \in Halves(key) /\ h.part = "body" /\ h.msg = m
  BY <1>1, HalfFacts
<1>3. PICK e : e = Append(d, h)
  OBVIOUS
<1>4. PICK n : n = Len(d)
  OBVIOUS
<1>5. /\ e \in Seq(Halves(key)) /\ n \in Nat /\ Len(e) = n + 1
      /\ \A k \in 1..n : e[k] = d[k]
      /\ e[n + 1] = h
  BY <1>2, <1>3, <1>4, AppendPlaces
<1>6. n > 0 /\ d[n].part = "head" /\ d[n].msg = m
  BY <1>4, HalfFacts DEF Open
<1>7. Framed(e)
  <2>1. e[1].part = "head"
    BY <1>4, <1>5, <1>6 DEF Framed
  <2>2. ASSUME NEW i \in 1..n
        PROVE  /\ e[i].part = "head" => e[i + 1].part = "body" /\ e[i + 1].msg = e[i].msg
               /\ e[i].part = "body" => e[i + 1].part = "head"
    <3>1. CASE i = n
      BY <1>2, <1>5, <1>6, <3>1
    <3>2. CASE i # n
      <4>1. i \in 1..(n - 1) /\ i + 1 \in 1..n
        BY <1>5, <3>2
      <4> QED
        BY <1>4, <1>5, <4>1 DEF Framed
    <3> QED
      BY <3>1, <3>2
  <2>3. Len(e) - 1 = n
    BY <1>5
  <2> QED
    BY <2>1, <2>2, <2>3 DEF Framed
<1>8. Whole(e)
  BY <1>2, <1>5 DEF Whole
<1>9. Pushes(e) = Carry(Pushes(d), h)
  BY <1>2, <1>3, PushesAppend
<1>10. /\ m.type \in {"START", "END"} => Pushes(e) = Pushes(d)
       /\ m.type \in {"APP", "APP_ENC"} => Pushes(e) = Append(Pushes(d), m.content.plain)
  BY <1>2, <1>9 DEF Carry, IsApp
<1>11. StartsFirst(d) => StartsFirst(e)
  BY <1>4, <1>5 DEF StartsFirst
<1> QED
  BY <1>1, <1>3, <1>5, <1>7, <1>8, <1>10, <1>11

\* The next frame is read: it is the message that was written
LEMMA FramedRead ==
  ASSUME NEW key, NEW d \in Seq(Halves(key)), Framed(d), Complete(d)
  PROVE  LET m == receive_message_tcp(d)
             e == Rest(d)
         IN  /\ m \in Told(key) /\ m = d[1].msg
             /\ e \in Seq(Halves(key)) /\ Framed(e) /\ (Whole(d) => Whole(e))
             /\ \A x : Open(d, x) => Open(e, x)
             /\ m.type \in {"START", "END"} => Pushes(d) = Pushes(e)
             /\ m.type \in {"APP", "APP_ENC"} => Pushes(d) = <<m.content.plain>> \o Pushes(e)
<1>0. PICK n : n = Len(d) - 2
  OBVIOUS
<1>1. PICK e : e = Rest(d)
  OBVIOUS
<1>2. Len(d) \in Nat /\ Len(d) >= 2
  BY HalvesPlainly DEF Complete
<1>3. /\ e \in Seq(Halves(key)) /\ Len(d) = n + 2 /\ n \in Nat /\ Len(e) = n
      /\ \A k \in 1..n : e[k] = d[k + 2]
  BY <1>0, <1>1, <1>2, RestPlaces
<1>4. /\ d[1].part = "head" /\ d[2].part = "body" /\ d[2].msg = d[1].msg /\ d[1].msg \in Told(key)
      /\ n > 0 => d[3].part = "head"
  <2>1. 1 \in 1..(Len(d) - 1) /\ 1 \in 1..Len(d) /\ 1 + 1 = 2 /\ (n > 0 => 2 \in 1..(Len(d) - 1)) /\ 2 + 1 = 3
    BY <1>3
  <2>2. d[1].part = "head" /\ d[1 + 1].part = "body" /\ d[1 + 1].msg = d[1].msg
    BY <1>3, <2>1 DEF Framed
  <2>3. n > 0 => d[2 + 1].part = "head"
    BY <2>1, <2>2 DEF Framed
  <2> QED
    BY <2>1, <2>2, <2>3, HalvesPlainly
<1>5. PICK m : m = receive_message_tcp(d)
  OBVIOUS
<1>6. m = d[1].msg /\ m \in Told(key)
  BY <1>4, <1>5 DEF receive_message_tcp
<1>7. Framed(e)
  <2>1. Len(e) > 0 => e[1].part = "head"
    <3>1. n > 0 => e[1] = d[1 + 2] /\ 1 + 2 = 3
      BY <1>3
    <3> QED
      BY <1>3, <1>4, <3>1
  <2>2. ASSUME NEW i \in 1..(n - 1)
        PROVE  /\ e[i].part = "head" => e[i + 1].part = "body" /\ e[i + 1].msg = e[i].msg
               /\ e[i].part = "body" => e[i + 1].part = "head"
    <3>1. i + 2 \in 1..(Len(d) - 1) /\ (i + 2) + 1 = (i + 1) + 2 /\ i \in 1..n /\ i + 1 \in 1..n
      BY <1>3
    <3>2. e[i] = d[i + 2] /\ e[i + 1] = d[(i + 2) + 1]
      BY <1>3, <3>1
    <3> QED
      BY <3>1, <3>2 DEF Framed
  <2> QED
    BY <1>3, <2>1, <2>2 DEF Framed
<1>8. n > 0 => e[n] = d[Len(d)]
  BY <1>3
<1>9. Whole(d) => Whole(e)
  BY <1>3, <1>8 DEF Whole
<1>10. ASSUME NEW x, Open(d, x) PROVE Open(e, x)
  <2>1. d[Len(d)].part = "head" /\ Len(d) > 0
    BY <1>10 DEF Open, Half
  <2>2. n > 0
    BY <1>3, <1>4, <2>1
  <2> QED
    BY <1>3, <1>8, <1>10, <2>2 DEF Open
<1>11. Pushes(d) = Carry(<< >>, d[2]) \o Pushes(e) /\ Pushes(e) \in Seq(Payloads)
  <2>1. Plainly(d) /\ ~IsApp(d[1])
    BY <1>4, HalvesPlainly DEF IsApp
  <2>2. Pushes(e) \in Seq(Payloads)
    BY <1>3, HalvesPlainly
  <2> QED
    BY <1>1, <1>2, <2>1, <2>2, PushesRest
<1>12. m.type \in {"START", "END"} => Pushes(d) = Pushes(e)
  <2> SUFFICES ASSUME m.type \in {"START", "END"} PROVE Pushes(d) = Pushes(e)
    OBVIOUS
  <2>1. Carry(<< >>, d[2]) = << >>
    BY <1>4, <1>6 DEF Carry, IsApp
  <2>2. << >> \o Pushes(e) = Pushes(e)
    BY <1>11, ConcatEmptySeq
  <2> QED
    BY <1>11, <2>1, <2>2
<1>13. m.type \in {"APP", "APP_ENC"} => Pushes(d) = <<m.content.plain>> \o Pushes(e)
  <2> SUFFICES ASSUME m.type \in {"APP", "APP_ENC"}
               PROVE  Pushes(d) = <<m.content.plain>> \o Pushes(e)
    OBVIOUS
  <2>1. Carry(<< >>, d[2]) = Append(<< >>, m.content.plain)
    BY <1>4, <1>6 DEF Carry, IsApp
  <2> QED
    BY <1>11, <2>1, FirstMessage
<1> QED
  BY <1>1, <1>3, <1>5, <1>6, <1>7, <1>9, <1>10, <1>12, <1>13

-----------------------------------------------------------------------------
(* The books of one client on the list: its key and state, its stream d, its *)
(* queue q, what it was shown (sh), what was pushed to it (pu), refusals (r)  *)

BeforeGame == {"IDLE", "LOBBY"}

Books(key, st, d, q, sh, pu, r) ==
  /\ d \in Seq(Halves(key)) /\ Framed(d)
  /\ Filled(q, Shows) /\ sh \in Seq(Shows) /\ pu \in Seq(Payloads) /\ r \in Nat
  /\ st # "END" /\ r = 0 => ByTcp(sh \o Held(q)) \o Pushes(d) = pu
  /\ st \in BeforeGame => sh = << >> /\ Held(q) = << >>
  /\ st \in BeforeGame /\ ~StartsFirst(d) => Pushes(d) = << >> /\ pu = << >>

LEMMA BooksSeqs ==
  ASSUME NEW key, NEW st, NEW d, NEW q, NEW sh, NEW pu, NEW r, Books(key, st, d, q, sh, pu, r)
  PROVE  /\ Held(q) \in Seq(Shows) /\ Pushes(d) \in Seq(Payloads)
         /\ sh \in Seq(Shows) /\ sh \o Held(q) \in Seq(Shows)
         /\ ByTcp(sh \o Held(q)) \in Seq(Payloads)
<1>1. Held(q) \in Seq(Shows) /\ Pushes(d) \in Seq(Payloads) /\ sh \in Seq(Shows)
  BY FilledSeq, HalvesPlainly DEF Books
<1>2. sh \o Held(q) \in Seq(Shows)
  BY <1>1
<1> QED
  BY <1>1, <1>2, ByTcpSeq

LEMMA AppendThen ==
  ASSUME NEW S, NEW s \in Seq(S), NEW t \in Seq(S), NEW v \in S
  PROVE  Append(s, v) \o t = s \o (<<v>> \o t)
<1>1. PICK o, l, a : o = <<v>> /\ l = Append(s, v) \o t /\ a = s \o (o \o t)
  OBVIOUS
<1>2. o \in Seq(S) /\ Append(s, v) = s \o o
  BY <1>1
<1>3. (s \o o) \o t = s \o (o \o t)
  BY <1>2, ConcatAssociative
<1> QED
  BY <1>1, <1>2, <1>3

LEMMA BooksHead ==
  ASSUME NEW key, NEW st, NEW d, NEW q, NEW sh, NEW pu, NEW r, Books(key, st, d, q, sh, pu, r),
         Whole(d), NEW m \in Told(key)
  PROVE  LET e == Append(d, Half("head", m))
         IN  Books(key, st, e, q, sh, pu, r) /\ Open(e, m) /\ (StartsFirst(d) => StartsFirst(e))
<1>1. PICK e : e = Append(d, Half("head", m))
  OBVIOUS
<1>2. d \in Seq(Halves(key)) /\ Framed(d)
  BY DEF Books
<1>3. /\ e \in Seq(Halves(key)) /\ Framed(e) /\ Open(e, m) /\ Pushes(e) = Pushes(d)
      /\ StartsFirst(d) => StartsFirst(e)
  BY ONLY <1>1, <1>2, m \in Told(key), Whole(d), FramedHead
<1>4. Books(key, st, e, q, sh, pu, r)
  BY <1>3 DEF Books
<1> QED
  BY <1>1, <1>3, <1>4

\* The body of MSG_START or MSG_END
LEMMA BooksNotice ==
  ASSUME NEW key, NEW st, NEW d, NEW q, NEW sh, NEW pu, NEW r, Books(key, st, d, q, sh, pu, r),
         NEW m \in Told(key), Open(d, m), m.type \in {"START", "END"}
  PROVE  LET e == Append(d, Half("body", m))
         IN  Books(key, st, e, q, sh, pu, r) /\ Whole(e) /\ (StartsFirst(d) => StartsFirst(e))
<1>1. PICK e : e = Append(d, Half("body", m))
  OBVIOUS
<1>2. d \in Seq(Halves(key)) /\ Framed(d)
  BY DEF Books
<1>3. /\ e \in Seq(Halves(key)) /\ Framed(e) /\ Whole(e) /\ (StartsFirst(d) => StartsFirst(e))
      /\ m.type \in {"START", "END"} => Pushes(e) = Pushes(d)
  BY ONLY <1>1, <1>2, m \in Told(key), Open(d, m), FramedBody
<1>4. Books(key, st, e, q, sh, pu, r)
  BY <1>3 DEF Books
<1> QED
  BY <1>1, <1>3, <1>4

\* The body of a message of the application: the push is complete
LEMMA BooksPush ==
  ASSUME NEW key, NEW st, NEW d, NEW q, NEW sh, NEW pu, NEW r, Books(key, st, d, q, sh, pu, r),
         NEW m \in Told(key), Open(d, m), m.type \in {"APP", "APP_ENC"},
         st \in BeforeGame => StartsFirst(d)
  PROVE  LET e == Append(d, Half("body", m))
         IN  /\ Books(key, st, e, q, sh, Append(pu, m.content.plain), r)
             /\ Whole(e) /\ (StartsFirst(d) => StartsFirst(e))
<1>1. PICK e : e = Append(d, Half("body", m))
  OBVIOUS
<1>2. d \in Seq(Halves(key)) /\ Framed(d)
  BY DEF Books
<1>3. /\ e \in Seq(Halves(key)) /\ Framed(e) /\ Whole(e) /\ (StartsFirst(d) => StartsFirst(e))
      /\ m.type \in {"APP", "APP_ENC"} => Pushes(e) = Append(Pushes(d), m.content.plain)
  BY ONLY <1>1, <1>2, m \in Told(key), Open(d, m), FramedBody
<1>4. PICK v : v = m.content.plain
  OBVIOUS
<1>5. v \in Payloads /\ Pushes(e) = Append(Pushes(d), v)
  BY <1>3, <1>4, ToldFacts
<1>6. PICK H, P : H = ByTcp(sh \o Held(q)) /\ P = Pushes(d)
  OBVIOUS
<1>7. H \in Seq(Payloads) /\ P \in Seq(Payloads)
  BY <1>6, BooksSeqs
<1>8. H \o Append(P, v) = Append(H \o P, v)
  BY <1>5, <1>7, ConcatAppend
<1>9. st # "END" /\ r = 0 => H \o Pushes(e) = Append(pu, v)
  BY <1>5, <1>6, <1>8 DEF Books
<1>10. Append(pu, v) \in Seq(Payloads)
  BY <1>5 DEF Books
<1>11. Books(key, st, e, q, sh, Append(pu, v), r)
  BY <1>3, <1>6, <1>9, <1>10 DEF Books
<1> QED
  BY <1>1, <1>3, <1>4, <1>11

\* In the lobby, what is thrown away is no message of the application
LEMMA BooksLobby ==
  ASSUME NEW key, NEW d, NEW q, NEW sh, NEW pu, NEW r, Books(key, "LOBBY", d, q, sh, pu, r),
         Complete(d)
  PROVE  LET e == Rest(d)
             m == receive_message_tcp(d)
         IN  /\ m.type = "START" => Books(key, "GAME", e, q, sh, pu, r)
             /\ m.type # "START" => Books(key, "LOBBY", e, q, sh, pu, r) /\ ~StartsFirst(d)
             /\ Whole(d) => Whole(e)
             /\ \A x : Open(d, x) => Open(e, x)
<1>1. PICK e, m : e = Rest(d) /\ m = receive_message_tcp(d)
  OBVIOUS
<1>2. d \in Seq(Halves(key)) /\ Framed(d)
  BY DEF Books
<1>3. /\ m \in Told(key) /\ m = d[1].msg
      /\ e \in Seq(Halves(key)) /\ Framed(e) /\ (Whole(d) => Whole(e))
      /\ \A x : Open(d, x) => Open(e, x)
      /\ m.type \in {"START", "END"} => Pushes(d) = Pushes(e)
      /\ m.type \in {"APP", "APP_ENC"} => Pushes(d) = <<m.content.plain>> \o Pushes(e)
  BY ONLY <1>1, <1>2, Complete(d), FramedRead
<1>4. m.type = "START" => Books(key, "GAME", e, q, sh, pu, r)
  BY <1>3 DEF Books, BeforeGame
<1>5. ASSUME m.type # "START" PROVE Books(key, "LOBBY", e, q, sh, pu, r) /\ ~StartsFirst(d)
  <2>1. ~StartsFirst(d)
    BY <1>3, <1>5 DEF StartsFirst
  <2>2. Pushes(d) = << >> /\ pu = << >> /\ sh = << >> /\ Held(q) = << >>
    BY <2>1 DEF Books, BeforeGame
  <2>3. m.type \notin {"APP", "APP_ENC"}
    <3> SUFFICES ASSUME m.type \in {"APP", "APP_ENC"} PROVE FALSE
      OBVIOUS
    <3>1. PICK v, P : v = m.content.plain /\ P = Pushes(e)
      OBVIOUS
    <3>2. v \in Payloads /\ P \in Seq(Payloads)
      BY <1>3, <3>1, ToldFacts, HalvesPlainly
    <3>3. Len(<<v>> \o P) >= 1
      BY <3>2
    <3>4. <<v>> \o P = << >>
      BY <1>3, <2>2, <3>1
    <3> QED
      BY <3>3, <3>4
  <2>4. Pushes(e) = << >>
    BY <1>3, <1>5, <2>2, <2>3, ToldFacts
  <2>5. Pushes(e) = Pushes(d)
    BY <2>2, <2>4
  <2> QED
    BY <1>3, <2>1, <2>2, <2>4, <2>5 DEF Books
<1> QED
  BY <1>1, <1>3, <1>4, <1>5

\* In the game, a message of the application goes into the queue or is refused
LEMMA BooksGame ==
  ASSUME NEW key, NEW d, NEW q, NEW sh, NEW pu, NEW r, Books(key, "GAME", d, q, sh, pu, r),
         Complete(d)
  PROVE  LET e == Rest(d)
             m == receive_message_tcp(d)
         IN  /\ ~Accepted(key, m) =>
                  Books(key, IF m.type = "END" THEN "END" ELSE "GAME", e, q, sh, pu, r)
             /\ Accepted(key, m) =>
                  /\ m.type # "END"
                  /\ Books(key, "GAME", e, Q!enqueue(q, Payload(m)), sh, pu,
                           IF Q!full(q) THEN r + 1 ELSE r)
             /\ Whole(d) => Whole(e)
             /\ \A x : Open(d, x) => Open(e, x)
<1>1. PICK e, m : e = Rest(d) /\ m = receive_message_tcp(d)
  OBVIOUS
<1>2. d \in Seq(Halves(key)) /\ Framed(d)
  BY DEF Books
<1>3. /\ m \in Told(key) /\ m = d[1].msg
      /\ e \in Seq(Halves(key)) /\ Framed(e) /\ (Whole(d) => Whole(e))
      /\ \A x : Open(d, x) => Open(e, x)
      /\ m.type \in {"START", "END"} => Pushes(d) = Pushes(e)
      /\ m.type \in {"APP", "APP_ENC"} => Pushes(d) = <<m.content.plain>> \o Pushes(e)
  BY ONLY <1>1, <1>2, Complete(d), FramedRead
<1>4. /\ Accepted(key, m) <=> m.type \in {"APP", "APP_ENC"}
      /\ Accepted(key, m) => m.content.plain \in Payloads /\ Payload(m) = m.content.plain
      /\ m.type \in {"START", "END", "APP", "APP_ENC"}
  BY <1>3, ToldFacts
<1>5. ASSUME ~Accepted(key, m)
      PROVE  Books(key, IF m.type = "END" THEN "END" ELSE "GAME", e, q, sh, pu, r)
  <2>1. Pushes(d) = Pushes(e)
    BY <1>3, <1>4, <1>5
  <2> QED
    BY <1>3, <2>1 DEF Books, BeforeGame
<1>6. ASSUME Accepted(key, m)
      PROVE  Books(key, "GAME", e, Q!enqueue(q, Payload(m)), sh, pu,
                   IF Q!full(q) THEN r + 1 ELSE r)
  <2>1. PICK v, P, H, w : /\ v = m.content.plain /\ P = Pushes(e) /\ H = Held(q)
                          /\ w = Q!enqueue(q, Payload(m))
    OBVIOUS
  <2>2. /\ v \in Payloads /\ v \in Shows /\ P \in Seq(Payloads) /\ H \in Seq(Shows)
        /\ sh \in Seq(Shows)
    <3>1. v \in Payloads /\ v \in Shows /\ P \in Seq(Payloads)
      BY <1>3, <1>4, <1>6, <2>1, HalvesPlainly DEF Shows
    <3> QED
      BY <2>1, <3>1, BooksSeqs
  <2>3. /\ Filled(w, Shows) /\ (Q!full(q) => w = q)
        /\ ~Q!full(q) => Held(w) = Append(H, v)
    <3>1. Filled(q, Shows) /\ Payload(m) = v /\ v \in Shows
      BY <1>4, <1>6, <2>1, <2>2 DEF Books
    <3> QED
      BY <2>1, <3>1, FilledEnqueue
  <2>4. ByTcp(sh \o Append(H, v)) \o P = ByTcp(sh \o H) \o (<<v>> \o P)
    <3>1. PICK X, Y : X = sh \o H /\ Y = ByTcp(X)
      OBVIOUS
    <3>2. X \in Seq(Shows) /\ sh \o Append(H, v) = Append(X, v)
      BY <2>2, <3>1, ConcatAppend
    <3>3. Y \in Seq(Payloads) /\ ByTcp(Append(X, v)) = Append(Y, v)
      BY <2>2, <3>1, <3>2, ByTcpSeq, ByTcpAppend
    <3>4. Append(Y, v) \o P = Y \o (<<v>> \o P)
      BY <2>2, <3>3, AppendThen
    <3> QED
      BY ONLY <3>1, <3>2, <3>3, <3>4, Zenon
  <2>5. r \in Nat /\ r + 1 \in Nat /\ r + 1 # 0
    BY DEF Books
  <2>6. CASE Q!full(q)
    BY <1>3, <2>1, <2>3, <2>5, <2>6 DEF Books, BeforeGame
  <2>7. CASE ~Q!full(q)
    <3>1. Pushes(d) = <<v>> \o P
      BY <1>3, <1>4, <1>6, <2>1
    <3>2. r = 0 => ByTcp(sh \o Held(w)) \o Pushes(e) = pu
      BY <2>1, <2>3, <2>4, <2>7, <3>1 DEF Books
    <3> QED
      BY <1>3, <2>1, <2>3, <2>5, <2>7, <3>2 DEF Books, BeforeGame
  <2> QED
    BY <2>6, <2>7
<1> QED
  BY <1>1, <1>3, <1>4, <1>5, <1>6

\* A datagram takes a place in the queue, and none among the messages by TCP
LEMMA BooksCast ==
  ASSUME NEW key, NEW d, NEW q, NEW sh, NEW pu, NEW r, Books(key, "GAME", d, q, sh, pu, r),
         NEW v \in Casts
  PROVE  Books(key, "GAME", d, Q!enqueue(q, v), sh, pu, r)
<1>1. PICK H, w : H = Held(q) /\ w = Q!enqueue(q, v)
  OBVIOUS
<1>2. v \in Shows /\ v \notin Payloads
  <2>1. v \in Shows
    BY DEF Shows
  <2>2. v.via = "udp"
    BY DEF Casts, Cast
  <2> QED
    BY <2>1, <2>2, ShowsVia
<1>3. H \in Seq(Shows) /\ sh \in Seq(Shows) /\ Filled(q, Shows)
  <2>1. Filled(q, Shows)
    BY DEF Books
  <2> QED
    BY <1>1, <2>1, BooksSeqs
<1>4. Filled(w, Shows) /\ (Q!full(q) => w = q) /\ (~Q!full(q) => Held(w) = Append(H, v))
  BY <1>1, <1>2, <1>3, FilledEnqueue
<1>5. ByTcp(sh \o Append(H, v)) = ByTcp(sh \o H)
  <2>1. PICK X : X = sh \o H
    OBVIOUS
  <2>2. X \in Seq(Shows) /\ sh \o Append(H, v) = Append(X, v)
    BY <1>2, <1>3, <2>1, ConcatAppend
  <2>3. ByTcp(Append(X, v)) = ByTcp(X)
    BY <1>2, <2>2, ByTcpAppend
  <2> QED
    BY ONLY <2>1, <2>2, <2>3, Zenon
<1>6. ByTcp(sh \o Held(w)) = ByTcp(sh \o Held(q))
  BY <1>1, <1>4, <1>5
<1>7. Books(key, "GAME", d, w, sh, pu, r)
  BY <1>4, <1>6 DEF Books, BeforeGame
<1> QED
  BY <1>1, <1>7

\* The application takes from its queue
LEMMA BooksTake ==
  ASSUME NEW key, NEW st, NEW d, NEW q, NEW sh, NEW pu, NEW r, Books(key, st, d, q, sh, pu, r),
         ~Q!empty(q)
  PROVE  Books(key, st, d, Q!dequeue(q), Append(sh, Q!peek(q)), pu, r)
<1>1. PICK H, w, v : H = Held(q) /\ w = Q!dequeue(q) /\ v = Q!peek(q)
  OBVIOUS
<1>2. Filled(w, Shows) /\ H # << >> /\ v = Head(H) /\ Held(w) = Tail(H)
  <2>1. Filled(q, Shows)
    BY DEF Books
  <2> QED
    BY <1>1, <2>1, FilledDequeue
<1>3. H \in Seq(Shows) /\ sh \in Seq(Shows)
  <2>1. sh \in Seq(Shows)
    BY DEF Books
  <2> QED
    BY <1>1, <2>1, BooksSeqs
<1>4. v \in Shows /\ Append(sh, v) \in Seq(Shows)
  BY <1>2, <1>3
<1>5. Append(sh, v) \o Held(w) = sh \o H
  BY <1>2, <1>3, ConcatMove
<1>6. Books(key, st, d, w, Append(sh, v), pu, r)
  BY <1>1, <1>2, <1>4, <1>5 DEF Books
<1> QED
  BY <1>1, <1>6

-----------------------------------------------------------------------------
(* Where the two writers are with client k of the list *)

Unstarted(t, k) ==
  \/ t.at \in {"idle", "lobby", "nonce", "key"}
  \/ t.at = "start" /\ (t.turn < k \/ (t.turn = k /\ t.half = "head"))
Starting(t, k) == t.at = "start" /\ t.turn = k /\ t.half = "body"
Started(t, k) == t.at = "game" \/ (t.at = "start" /\ k < t.turn)

\* The application has written the head of its message to client k
Writing(a, k) == a.at = "push" /\ a.half = "body" /\ a.turn = k
BeingPushed(a, list) ==
  IF a.to = {} THEN PlainPush(a.n) ELSE SealedPush(list[a.turn].sesskey, a.n)

\* Before its turn nothing is on the client's stream, in its turn the head of
\* MSG_START; afterwards MSG_START comes first, and only the application writes
Place(k, st, d, t, a, list) ==
  /\ Writing(a, k) => Started(t, k)
  /\ Unstarted(t, k) => d = << >> /\ st \in BeforeGame
  /\ Starting(t, k) => d = <<Half("head", StartMsg)>> /\ st \in BeforeGame
  /\ Started(t, k) => /\ st \in BeforeGame => StartsFirst(d)
                      /\ Writing(a, k) => Open(d, BeingPushed(a, list))
                      /\ ~Writing(a, k) => Whole(d)

Stream(c, p, d, q, sh, pu, r, t, a, list) ==
  /\ c \notin Who(list) =>
       Filled(q, Shows) /\ Held(q) = << >> /\ sh = << >> /\ pu = << >> /\ r \in Nat
  /\ \A k \in 1..Len(list) : list[k].who = c =>
       Books(p.sesskey, p.state, d, q, sh, pu, r) /\ Place(k, p.state, d, t, a, list)

Down(c) ==
  peer[c].at # "gone" /\ c \notin early =>
    Stream(c, peer[c], down[c], client_messages[c], shown[c], pushed[c], refused[c].down,
           thread, app, clients)

\* The application pushes only in the game, and to a client of the list
Pushing(a, st, list) == a.at = "push" => st = "GAME" /\ a.turn \in 1..Len(list)

DownInv ==
  /\ DOMAIN client_messages = Clients /\ DOMAIN shown = Clients /\ DOMAIN pushed = Clients
  /\ Pushing(app, state, clients)
  /\ \A c \in Clients : Down(c)

\* Datagrams hold what brserver_send_broadcast put in them
CastsInv == casts \in [Clients -> SUBSET Casts]

\* What the writers may do without touching the stream of client k
Moved(t, a, t2, a2, list, k) ==
  /\ Unstarted(t2, k) => Unstarted(t, k)
  /\ Starting(t2, k) => Starting(t, k)
  /\ Writing(a2, k) => Writing(a, k) /\ (Started(t, k) => Started(t2, k))
  /\ Started(t2, k) => /\ Started(t, k)
                       /\ Writing(a2, k) <=> Writing(a, k)
                       /\ Writing(a2, k) => BeingPushed(a2, list) = BeingPushed(a, list)

\* The client may go from IDLE to LOBBY, which is the same here
Alike(st, st2) == st2 = st \/ (st \in BeforeGame /\ st2 \in BeforeGame)

LEMMA PlaceKept ==
  ASSUME NEW k, NEW st, NEW st2, NEW d, NEW t, NEW a, NEW t2, NEW a2, NEW list,
         Place(k, st, d, t, a, list), Moved(t, a, t2, a2, list, k), Alike(st, st2)
  PROVE  Place(k, st2, d, t2, a2, list)
<1>1. st2 \in BeforeGame <=> st \in BeforeGame
  BY DEF Alike
<1>2. /\ Unstarted(t2, k) => Unstarted(t, k)
      /\ Starting(t2, k) => Starting(t, k)
      /\ Writing(a2, k) => Writing(a, k) /\ (Started(t, k) => Started(t2, k))
      /\ Started(t2, k) => /\ Started(t, k)
                           /\ Writing(a2, k) <=> Writing(a, k)
                           /\ Writing(a2, k) => BeingPushed(a2, list) = BeingPushed(a, list)
  BY DEF Moved
<1> QED
  BY <1>1, <1>2 DEF Place

LEMMA BooksAlike ==
  ASSUME NEW key, NEW st, NEW st2, NEW d, NEW q, NEW sh, NEW pu, NEW r,
         Books(key, st, d, q, sh, pu, r), Alike(st, st2)
  PROVE  Books(key, st2, d, q, sh, pu, r)
<1>1. (st2 \in BeforeGame <=> st \in BeforeGame) /\ (st = "END" => st2 = "END")
  BY DEF Alike, BeforeGame
<1> QED
  BY <1>1 DEF Books

LEMMA DownOf ==
  ASSUME DownInv, NEW c \in Clients, peer[c].at # "gone", c \notin early
  PROVE  Stream(c, peer[c], down[c], client_messages[c], shown[c], pushed[c], refused[c].down,
                thread, app, clients)
  BY DEF DownInv, Down

\* A step that leaves the books of client c as they are
Untouched(c) ==
  /\ c \notin early' => c \notin early
  /\ peer'[c].at # "gone" => peer[c].at # "gone"
  /\ client_messages'[c] = client_messages[c] /\ shown'[c] = shown[c] /\ pushed'[c] = pushed[c]
  /\ refused'[c].down = refused[c].down
  /\ c \in Who(clients) =>
       /\ down'[c] = down[c] /\ peer'[c].sesskey = peer[c].sesskey
       /\ Alike(peer[c].state, peer'[c].state)
       /\ \A k \in 1..Len(clients) :
            clients[k].who = c => Moved(thread, app, thread', app', clients, k)

LEMMA DownUntouched ==
  ASSUME DownInv, clients' = clients, NEW c \in Clients, Untouched(c)
  PROVE  Down(c)'
<1> SUFFICES ASSUME peer'[c].at # "gone", c \notin early'
             PROVE  Stream(c, peer'[c], down'[c], client_messages'[c], shown'[c], pushed'[c],
                           refused'[c].down, thread', app', clients)
  BY DEF Down
<1>1. Stream(c, peer[c], down[c], client_messages[c], shown[c], pushed[c], refused[c].down,
             thread, app, clients)
  BY DownOf DEF Untouched
<1>2. CASE c \notin Who(clients)
  <2>1. \A k \in 1..Len(clients) : clients[k].who # c
    BY <1>2 DEF Who
  <2> QED
    BY <1>1, <1>2, <2>1 DEF Stream, Untouched
<1>3. CASE c \in Who(clients)
  <2>1. ASSUME NEW k \in 1..Len(clients), clients[k].who = c
        PROVE  /\ Books(peer'[c].sesskey, peer'[c].state, down'[c], client_messages'[c],
                        shown'[c], pushed'[c], refused'[c].down)
               /\ Place(k, peer'[c].state, down'[c], thread', app', clients)
    <3>1. /\ Books(peer[c].sesskey, peer[c].state, down[c], client_messages[c],
                   shown[c], pushed[c], refused[c].down)
          /\ Place(k, peer[c].state, down[c], thread, app, clients)
      BY <1>1, <2>1 DEF Stream
    <3>2. /\ Moved(thread, app, thread', app', clients, k)
          /\ Alike(peer[c].state, peer'[c].state) /\ down'[c] = down[c]
          /\ peer'[c].sesskey = peer[c].sesskey
      BY <1>3, <2>1 DEF Untouched
    <3>3. PICK s1, s2, d, t1, t2, a1, a2, list :
             /\ s1 = peer[c].state /\ s2 = peer'[c].state /\ d = down[c] /\ list = clients
             /\ t1 = thread /\ t2 = thread' /\ a1 = app /\ a2 = app'
      OBVIOUS
    <3>4. Place(k, s2, d, t2, a2, list)
      BY <3>1, <3>2, <3>3, PlaceKept
    <3>5. Books(peer[c].sesskey, s2, d, client_messages[c], shown[c], pushed[c], refused[c].down)
      BY <3>1, <3>2, <3>3, BooksAlike
    <3> QED
      BY <3>2, <3>3, <3>4, <3>5 DEF Untouched
  <2> QED
    BY <1>3, <2>1 DEF Stream
<1> QED
  BY <1>2, <1>3

LEMMA MovedSame ==
  ASSUME NEW t, NEW a, NEW list, NEW k
  PROVE  Moved(t, a, t, a, list, k)
  BY DEF Moved

LEMMA AlikeSame == \A st : Alike(st, st)
  BY DEF Alike

\* The domains, and the application pushing only in the game
Frame ==
  /\ DOMAIN client_messages' = Clients /\ DOMAIN shown' = Clients /\ DOMAIN pushed' = Clients
  /\ Pushing(app', state', clients')

LEMMA DownNext ==
  ASSUME Frame, \A c \in Clients : Down(c)'
  PROVE  DownInv'
  BY DEF Frame, DownInv

\* A step of the server's threads that writes nothing
LEMMA QuietDown ==
  ASSUME DownInv, UNCHANGED <<clients, down, client_messages, shown, pushed, early>>,
         \A c \in Clients : /\ refused'[c].down = refused[c].down
                            /\ peer'[c].at # "gone" => peer[c].at # "gone"
                            /\ peer'[c].sesskey = peer[c].sesskey
                            /\ Alike(peer[c].state, peer'[c].state),
         \A k \in 1..Len(clients) : Moved(thread, app, thread', app', clients, k),
         Pushing(app', state', clients)
  PROVE  DownInv'
<1>1. \A c \in Clients : Untouched(c)
  BY DEF Untouched
<1>2. \A c \in Clients : Down(c)'
  BY <1>1, DownUntouched
<1>3. Frame
  BY DEF Frame, DownInv
<1> QED
  BY <1>2, <1>3, DownNext

\* Steps of the server that write nothing to a client
LEMMA ServerQuiet ==
  ASSUME SessionInv, FlowInv, DownInv,
         \/ server_idle_state \/ lobby_cleanup \/ server_game_state \/ game_udp
         \/ \E c \in Clients : game_tcp(c) \/ game_eof(c)
         \/ brserver_open \/ brserver_start \/ brserver_end \/ exit_process
         \/ brserver_send_to_all \/ brserver_send_to_target \/ brserver_send_broadcast
         \/ brserver_get_app_msg \/ take_locked
  PROVE  DownInv'
<1> USE ThreadFields
<1>1. UNCHANGED <<clients, down, client_messages, shown, pushed, peer, early>>
  BY DEF server_idle_state, lobby_cleanup, server_game_state, game_udp, game_tcp, game_eof,
         brserver_open, brserver_start, brserver_end, exit_process, brserver_send_to_all,
         brserver_send_to_target, brserver_send_broadcast, brserver_get_app_msg, take_locked,
         netVars, serverVars, history
<1>2. \A c \in Clients : refused'[c].down = refused[c].down
  <2>1. ASSUME NEW m, Enqueue(m) PROVE \A c \in Clients : refused'[c].down = refused[c].down
    <3>1. refused' = refused \/ \E c : refused' = [refused EXCEPT ![c].up = @ + 1]
      BY <2>1 DEF Enqueue
    <3>2. refused \in [Clients -> [up : Nat, down : Nat]]
      BY DEF FlowInv
    <3>3. ASSUME NEW x, refused' = [refused EXCEPT ![x].up = @ + 1], NEW c \in Clients
          PROVE  refused'[c].down = refused[c].down
      <4>1. refused[c] \in [up : Nat, down : Nat] /\ DOMAIN refused = Clients
        BY <3>2
      <4>2. refused'[c] = IF c = x THEN [refused[c] EXCEPT !.up = refused[c].up + 1] ELSE refused[c]
        BY <3>3, <4>1
      <4> QED
        BY ONLY <4>1, <4>2
    <3> QED
      BY <3>1, <3>3
  <2>2. CASE game_udp
    BY <2>1, <2>2 DEF game_udp
  <2>3. CASE \E c \in Clients : game_tcp(c)
    BY <2>1, <2>3 DEF game_tcp
  <2>4. CASE \/ server_idle_state \/ lobby_cleanup \/ server_game_state
             \/ \E c \in Clients : game_eof(c)
             \/ brserver_open \/ brserver_start \/ brserver_end \/ exit_process
             \/ brserver_send_to_all \/ brserver_send_to_target \/ brserver_send_broadcast
             \/ brserver_get_app_msg \/ take_locked
    <3>1. refused' = refused
      BY <2>4 DEF server_idle_state, lobby_cleanup, server_game_state, game_eof,
         brserver_open, brserver_start, brserver_end, exit_process, brserver_send_to_all,
         brserver_send_to_target, brserver_send_broadcast, brserver_get_app_msg, take_locked,
         history
    <3> QED
      BY <3>1
  <2> QED
    BY <2>2, <2>3, <2>4
<1>3. /\ \A k \in 1..Len(clients) : Moved(thread, app, thread', app', clients, k)
      /\ Pushing(app', state', clients)
  <2>0. Pushing(app, state, clients)
    BY DEF DownInv
  <2>1. CASE server_idle_state \/ lobby_cleanup
    <3>1. /\ thread' = [thread EXCEPT !.at = "lobby"] /\ thread.at \in {"idle", "nonce", "key"}
          /\ app' = app /\ state' = state
      BY <2>1 DEF server_idle_state, lobby_cleanup, At
    <3>2. thread'.at = "lobby"
      BY <3>1 DEF Threads
    <3> QED
      BY <2>0, <3>1, <3>2 DEF Moved, Unstarted, Starting, Started
  <2>2. CASE server_game_state
    <3>1. /\ thread.at = "lobby" /\ app' = app
          /\ state' = state \/ clients = << >>
          /\ \/ thread' = thread
             \/ thread' = [thread EXCEPT !.at = "start", !.turn = 1, !.half = "head"]
      BY <2>2 DEF server_game_state, At
    <3>2. Pushing(app', state', clients)
      <4>1. CASE state' = state
        BY <2>0, <3>1, <4>1
      <4>2. CASE clients = << >>
        <5>1. 1..Len(clients) = {}
          BY <4>2
        <5> QED
          BY <2>0, <3>1, <5>1 DEF Pushing
      <4> QED
        BY <3>1, <4>1, <4>2
    <3>3. CASE thread' = thread
      BY <3>1, <3>2, <3>3, MovedSame
    <3>4. CASE thread' = [thread EXCEPT !.at = "start", !.turn = 1, !.half = "head"]
      <4>1. thread'.at = "start" /\ thread'.turn = 1 /\ thread'.half = "head"
        BY <3>4 DEF Threads
      <4>2. ASSUME NEW k \in 1..Len(clients) PROVE Moved(thread, app, thread', app', clients, k)
        <5>1. ~(k < 1) /\ k >= 1
          OBVIOUS
        <5> QED
          BY <3>1, <4>1, <5>1 DEF Moved, Unstarted, Starting, Started
      <4> QED
        BY <3>2, <4>2
    <3> QED
      BY <3>1, <3>3, <3>4
  <2>3. CASE game_udp \/ \E c \in Clients : game_tcp(c) \/ game_eof(c)
    <3>1. UNCHANGED <<state, thread, app>>
      BY <2>3 DEF game_udp, game_tcp, game_eof, serverVars
    <3> QED
      BY <2>0, <3>1, MovedSame
  <2>4. CASE brserver_open \/ brserver_start \/ brserver_end
    <3>1. UNCHANGED <<thread, app>> /\ app.at = "free"
      BY <2>4 DEF brserver_open, brserver_start, brserver_end
    <3> QED
      BY <3>1, MovedSame DEF Pushing
  <2>5. CASE exit_process
    <3>1. /\ app.at = "free" /\ app' = [app EXCEPT !.at = "exited"]
          /\ thread' = [thread EXCEPT !.at = "done"]
      BY <2>5 DEF exit_process
    <3>2. app'.at = "exited" /\ thread'.at = "done"
      BY <3>1 DEF Apps, Threads
    <3> QED
      BY <3>2 DEF Moved, Unstarted, Starting, Started, Writing, Pushing
  <2>6. ASSUME MayPush, UNCHANGED <<state, thread>>, app'.half = "head" \/ app'.at # "push",
               app'.at = "push" => app'.turn \in 1..Len(clients)
        PROVE  /\ \A k \in 1..Len(clients) : Moved(thread, app, thread', app', clients, k)
               /\ Pushing(app', state', clients)
    <3>1. app.at = "free" /\ state = "GAME"
      BY <2>6 DEF MayPush
    <3>2. \A k : ~Writing(app, k) /\ ~Writing(app', k)
      BY <2>6, <3>1 DEF Writing
    <3> QED
      BY <2>6, <3>1, <3>2 DEF Moved, Pushing
  <2>7. CASE brserver_send_to_all
    <3>1. /\ MayPush /\ UNCHANGED <<state, thread>>
          /\ app' = [app EXCEPT !.at = IF clients = << >> THEN "free" ELSE "push",
                                !.turn = 1, !.half = "head", !.to = {}, !.n = @ + 1]
      BY <2>7 DEF brserver_send_to_all, serverVars
    <3>2. app'.half = "head" /\ app'.turn = 1 /\ (app'.at = "push" => clients # << >>)
      BY <3>1 DEF Apps
    <3>3. clients # << >> => 1 \in 1..Len(clients)
      OBVIOUS
    <3> QED
      BY <2>6, <3>1, <3>2, <3>3
  <2>8. CASE brserver_send_to_target
    <3>1. PICK id \in {clients[k].id : k \in 1..Len(clients)} :
            app' = [app EXCEPT !.at = "push", !.turn = CHOOSE k \in Listed(id) : TRUE,
                               !.half = "head", !.to = {get_from_list(id).who}, !.n = @ + 1]
      BY <2>8 DEF brserver_send_to_target
    <3>2. Listed(id) # {} /\ Listed(id) \subseteq 1..Len(clients)
      BY DEF Listed
    <3>3. app'.half = "head" /\ app'.turn = CHOOSE k \in Listed(id) : TRUE
      BY <3>1 DEF Apps
    <3>4. app'.turn \in 1..Len(clients)
      BY <3>2, <3>3
    <3> QED
      BY <2>6, <2>8, <3>3, <3>4 DEF brserver_send_to_target, serverVars
  <2>9. CASE brserver_send_broadcast
    <3>1. MayPush /\ UNCHANGED <<state, thread>> /\ app' = [app EXCEPT !.n = @ + 1]
      BY <2>9 DEF brserver_send_broadcast, serverVars
    <3>2. app'.at # "push"
      BY <3>1 DEF MayPush, Apps
    <3> QED
      BY <2>6, <3>1, <3>2
  <2>10. CASE brserver_get_app_msg \/ take_locked
    <3>1. /\ UNCHANGED <<state, thread>> /\ app.at \in {"free", "take"}
          /\ app' = [app EXCEPT !.at = "take"] \/ app' = [app EXCEPT !.at = "free"]
      BY <2>10 DEF brserver_get_app_msg, take_locked, serverVars
    <3>2. app'.at \in {"free", "take"}
      BY <3>1 DEF Apps
    <3>3. \A k : ~Writing(app, k) /\ ~Writing(app', k)
      BY <3>1, <3>2 DEF Writing
    <3> QED
      BY <3>1, <3>2, <3>3 DEF Moved, Pushing
  <2> QED
    BY <2>1, <2>2, <2>3, <2>4, <2>5, <2>7, <2>8, <2>9, <2>10
<1>4. \A c \in Clients : /\ refused'[c].down = refused[c].down
                         /\ peer'[c].at # "gone" => peer[c].at # "gone"
                         /\ peer'[c].sesskey = peer[c].sesskey
                         /\ Alike(peer[c].state, peer'[c].state)
  BY <1>1, <1>2, AlikeSame
<1> QED
  BY <1>1, <1>3, <1>4, QuietDown

LEMMA HandshakeDownQuiet ==
  ASSUME DownInv,
         UNCHANGED <<clients, client_messages, shown, pushed, refused, early, app, state>>,
         \A k \in 1..Len(clients) : Moved(thread, app, thread', app', clients, k),
         NEW c \in Clients, c \notin Who(clients),
         peer'[c].at # "gone" => peer[c].at # "gone",
         \A x \in Clients : x # c => peer'[x] = peer[x] /\ down'[x] = down[x]
  PROVE  DownInv'
<1>1. \A x \in Clients : Untouched(x)
  BY AlikeSame DEF Untouched
<1>2. \A x \in Clients : Down(x)'
  BY <1>1, DownUntouched
<1>3. Frame
  BY DEF Frame, DownInv
<1> QED
  BY <1>2, <1>3, DownNext

\* The handshake is with clients that are not on the list
LEMMA HandshakeQuiet ==
  ASSUME SessionInv, DownInv,
         lobby_accept \/ lobby_sign \/ \E c \in Clients : join_nonce(c) \/ join_key(c)
  PROVE  DownInv'
<1> USE ThreadFields, PeerOf
<1>1. UNCHANGED <<clients, client_messages, shown, pushed, refused, early, app, state>>
  BY DEF lobby_accept, lobby_sign, join_nonce, join_key, serverVars, history
<1>2. CASE lobby_accept
  <2> DEFINE c == Head(backlog)
  <2>1. /\ thread.at = "lobby" /\ backlog # << >>
        /\ thread' = [thread EXCEPT !.at = "nonce", !.who = c, !.id = next_id]
        /\ \E e : down' = [down EXCEPT ![c] = e]
        /\ peer' = peer
    BY <1>2 DEF lobby_accept, At
  <2>2. c \in Clients /\ c \in Waiters(backlog)
    <3>1. backlog \in Seq(Clients) /\ Len(backlog) \in Nat /\ Len(backlog) >= 1 /\ c = backlog[1] /\ c \in Clients
      BY <2>1, TailPlaces
    <3> QED
      BY <3>1 DEF Waiters
  <2>3. c \notin Who(clients)
    BY <2>2 DEF Stage, Unserved
  <2>4. thread'.at = "nonce"
    BY <2>1 DEF Threads
  <2> HIDE DEF c
  <2>5. \A x \in Clients : x # c => peer'[x] = peer[x] /\ down'[x] = down[x]
    BY <2>1, <2>2
  <2>6. peer'[c].at # "gone" => peer[c].at # "gone"
    BY <2>1
  <2>7. \A k \in 1..Len(clients) : Moved(thread, app, thread', app', clients, k)
    BY <1>1, <2>1, <2>4 DEF Moved, Unstarted, Starting, Started
  <2> QED
    BY <1>1, <2>2, <2>3, <2>5, <2>6, <2>7, HandshakeDownQuiet
<1>3. CASE lobby_sign
  <2> DEFINE c == thread.who
  <2>1. /\ thread.at = "nonce"
        /\ \/ thread' = thread /\ down' = down
           \/ thread' = [thread EXCEPT !.at = "key"] /\ \E e : down' = [down EXCEPT ![c] = e]
        /\ peer' = peer
    BY <1>3 DEF lobby_sign, At
  <2>2. c \in Clients /\ c \in Served(thread)
    BY <2>1 DEF SessionInv, Ordered, Served
  <2>3. c \notin Who(clients)
    BY <2>2 DEF Stage
  <2>4. thread'.at \in {"nonce", "key"}
    BY <2>1 DEF Threads
  <2> HIDE DEF c
  <2>5. \A x \in Clients : x # c => peer'[x] = peer[x] /\ down'[x] = down[x]
    BY <2>1, <2>2
  <2>6. peer'[c].at # "gone" => peer[c].at # "gone"
    BY <2>1
  <2>7. \A k \in 1..Len(clients) : Moved(thread, app, thread', app', clients, k)
    BY <1>1, <2>1, <2>4 DEF Moved, Unstarted, Starting, Started
  <2> QED
    BY <1>1, <2>2, <2>3, <2>5, <2>6, <2>7, HandshakeDownQuiet
<1>4. ASSUME NEW c \in Clients, join_nonce(c) \/ join_key(c) PROVE DownInv'
  <2>1. /\ peer[c].at \in {"cert", "auth"} /\ thread' = thread
        /\ \E e : down' = [down EXCEPT ![c] = e]
        /\ \A x \in Clients : x # c => peer'[x] = peer[x]
    <3>1. CASE join_nonce(c)
      <4>1. PICK nonce : peer' = [peer EXCEPT ![c].at = "auth", ![c].nonce = nonce,
                                              ![c].id = Head(down[c]).msg.source_id]
        BY <3>1 DEF join_nonce
      <4> QED
        BY <3>1, <4>1 DEF join_nonce, serverVars
    <3>2. CASE join_key(c)
      <4>1. \/ peer' = [peer EXCEPT ![c].at = "joined", ![c].sesskey = c]
            \/ \E e : peer' = [peer EXCEPT ![c] = e]
        BY <3>2 DEF join_key
      <4>2. \A x \in Clients : x # c => peer'[x] = peer[x]
        BY <4>1
      <4> QED
        BY <3>2, <4>2 DEF join_key, serverVars
    <3> QED
      BY <1>4, <3>1, <3>2
  <2>2. c \notin Who(clients)
    BY <2>1, NotListed
  <2>3. \A x \in Clients : x # c => peer'[x] = peer[x] /\ down'[x] = down[x]
    BY <2>1
  <2>4. \A k \in 1..Len(clients) : Moved(thread, app, thread', app', clients, k)
    BY <1>1, <2>1, MovedSame
  <2> QED
    BY <1>1, <2>1, <2>2, <2>3, <2>4, HandshakeDownQuiet
<1> QED
  BY <1>2, <1>3, <1>4

\* Steps of a client that neither read its stream nor its queue
LEMMA ClientQuiet ==
  ASSUME SessionInv, DownInv,
         \/ LoseDatagram
         \/ \E c \in Clients : \/ connect_on_tcp(c) \/ join_lobby(c) \/ join_fails(c)
                               \/ client_game_eof(c) \/ Leave(c)
                               \/ brclient_send_msg(c) \/ brclient_send_msg_udp(c)
  PROVE  DownInv'
<1> USE PeerOf
<1>1. /\ UNCHANGED <<clients, down, client_messages, shown, pushed, refused, early>>
      /\ UNCHANGED <<thread, app, state>>
  BY DEF LoseDatagram, connect_on_tcp, join_lobby, join_fails, client_game_eof, Leave,
         brclient_send_msg, brclient_send_msg_udp, serverVars, netVars, history
<1>2. ASSUME NEW x \in Clients
      PROVE  /\ peer'[x].at # "gone" => peer[x].at # "gone"
             /\ peer'[x].sesskey = peer[x].sesskey
             /\ Alike(peer[x].state, peer'[x].state)
  <2>0. peer[x] \in Peers /\ x \in DOMAIN peer
    OBVIOUS
  <2>1. CASE peer' = peer
    BY <2>1, AlikeSame
  <2>2. ASSUME NEW c \in Clients, connect_on_tcp(c)
        PROVE  /\ peer'[x].at # "gone" => peer[x].at # "gone"
               /\ peer'[x].sesskey = peer[x].sesskey /\ peer'[x].state = peer[x].state
    <3>1. peer'[x] = IF x = c THEN [peer[x] EXCEPT !.at = "cert"] ELSE peer[x]
      BY <2>0, <2>2 DEF connect_on_tcp
    <3>2. x = c => peer[x].at = "out"
      BY <2>2 DEF connect_on_tcp
    <3> QED
      BY ONLY <2>0, <3>1, <3>2 DEF Peers
  <2>3. ASSUME NEW c \in Clients, join_fails(c) \/ Leave(c)
        PROVE  /\ peer'[x].at # "gone" => peer[x].at # "gone"
               /\ peer'[x].sesskey = peer[x].sesskey /\ peer'[x].state = peer[x].state
    <3>1. peer'[x] = IF x = c THEN [peer[x] EXCEPT !.at = "gone"] ELSE peer[x]
      BY <2>0, <2>3 DEF join_fails, Leave, Exit
    <3> QED
      BY ONLY <2>0, <3>1 DEF Peers
  <2>4. ASSUME NEW c \in Clients, client_game_eof(c)
        PROVE  /\ peer'[x].at # "gone" => peer[x].at # "gone"
               /\ peer'[x].sesskey = peer[x].sesskey /\ peer'[x].state = peer[x].state
    <3>1. peer'[x] = IF x = c THEN [peer[x] EXCEPT !.polls = FALSE] ELSE peer[x]
      BY <2>0, <2>4 DEF client_game_eof
    <3> QED
      BY ONLY <2>0, <3>1 DEF Peers
  <2>5. ASSUME NEW c \in Clients, join_lobby(c)
        PROVE  /\ peer'[x].at # "gone" => peer[x].at # "gone"
               /\ peer'[x].sesskey = peer[x].sesskey /\ Alike(peer[x].state, peer'[x].state)
    <3>1. peer'[x] = IF x = c THEN [peer[x] EXCEPT !.state = "LOBBY"] ELSE peer[x]
      BY <2>0, <2>5 DEF join_lobby
    <3>2. x = c => peer[x].state = "IDLE"
      BY <2>5 DEF join_lobby
    <3> QED
      BY ONLY <2>0, <3>1, <3>2 DEF Peers, Alike, BeforeGame
  <2>6. CASE LoseDatagram \/ \E c \in Clients : brclient_send_msg(c) \/ brclient_send_msg_udp(c)
    BY <2>1, <2>6 DEF LoseDatagram, brclient_send_msg, brclient_send_msg_udp
  <2> QED
    BY <2>2, <2>3, <2>4, <2>5, <2>6, AlikeSame
<1>3. \A k \in 1..Len(clients) : Moved(thread, app, thread', app', clients, k)
  BY <1>1, MovedSame
<1>4. Pushing(app', state', clients)
  BY <1>1 DEF DownInv
<1> QED
  BY <1>1, <1>2, <1>3, <1>4, QuietDown

\* A list with one more client, while nobody writes to those who are on it
LEMMA StreamLonger ==
  ASSUME NEW c, NEW p, NEW d, NEW q, NEW sh, NEW pu, NEW r, NEW t, NEW a, NEW t2,
         NEW list \in Seq(Entries), NEW e \in Entries, e.who # c, t.at = "key", t2.at = "lobby",
         Stream(c, p, d, q, sh, pu, r, t, a, list)
  PROVE  Stream(c, p, d, q, sh, pu, r, t2, a, Append(list, e))
<1>1. PICK more : more = Append(list, e)
  OBVIOUS
<1>2. /\ Len(more) = Len(list) + 1 /\ Len(list) \in Nat
      /\ \A k \in 1..Len(list) : more[k] = list[k]
      /\ more[Len(list) + 1] = e
  BY <1>1, AppendProperties
<1>3. \A k \in 1..Len(more) : k \in 1..Len(list) \/ k = Len(list) + 1
  BY <1>2
<1>4. \A k \in 1..Len(list) : k \in 1..Len(more)
  BY <1>2
<1>5. c \in Who(list) => c \in Who(more)
  BY <1>2, <1>4 DEF Who
<1>6. ASSUME NEW k \in 1..Len(more), more[k].who = c
      PROVE  Books(p.sesskey, p.state, d, q, sh, pu, r) /\ Place(k, p.state, d, t2, a, more)
  <2>1. k \in 1..Len(list) /\ list[k].who = c
    BY <1>2, <1>3, <1>6
  <2>2. Books(p.sesskey, p.state, d, q, sh, pu, r) /\ Place(k, p.state, d, t, a, list)
    BY <2>1 DEF Stream
  <2>3. Unstarted(t, k) /\ ~Starting(t2, k) /\ ~Started(t2, k)
    BY DEF Unstarted, Starting, Started
  <2>4. ~Writing(a, k)
    BY <2>2 DEF Place, Started
  <2>5. Place(k, p.state, d, t2, a, more)
    BY <2>2, <2>3, <2>4 DEF Place
  <2> QED
    BY <2>2, <2>5
<1>7. Stream(c, p, d, q, sh, pu, r, t2, a, more)
  BY <1>5, <1>6 DEF Stream
<1> QED
  BY <1>1, <1>7

\* A client joins the list: nothing is on its stream and it has seen nothing
LEMMA BooksOpened ==
  ASSUME NEW key, NEW st \in BeforeGame, NEW q, Filled(q, Shows), Held(q) = << >>, NEW r \in Nat
  PROVE  Books(key, st, << >>, q, << >>, << >>, r)
<1>1. PICK z : z = << >>
  OBVIOUS
<1>2. Len(z) = 0 /\ z \in Seq(Halves(key)) /\ z \in Seq(Payloads) /\ z \in Seq(Shows)
  BY <1>1
<1>3. Pushes(z) = << >>
  BY <1>2, PushesNone
<1>4. Framed(z)
  BY <1>2 DEF Framed
<1>5. ByTcp(z \o Held(q)) \o Pushes(z) = z
  <2>1. z \o Held(q) = z
    BY <1>1
  <2>2. ByTcp(z) = z
    BY <1>1, ByTcpNone
  <2> QED
    BY <1>1, <1>3, <2>1, <2>2
<1> QED
  BY <1>1, <1>2, <1>3, <1>4, <1>5 DEF Books

LEMMA AddDown == ASSUME SessionInv, DownInv, lobby_add PROVE DownInv'
<1> USE PeerOf, ThreadFields
<1> DEFINE c == thread.who
           new == [id |-> thread.id, who |-> c, sesskey |-> c]
<1>1. /\ thread.at = "key" /\ up[c] # << >>
      /\ UNCHANGED <<down, peer, app, state, client_messages, shown, pushed, refused, early>>
  BY DEF lobby_add, At, history
<1>2. c \in Clients /\ c \in Served(thread)
  BY <1>1 DEF Served, SessionInv, Ordered
<1>3. /\ up[c] = <<Key(thread.id, c)>> /\ c \notin Who(clients)
      /\ peer[c].at # "gone" => down[c] = << >>
      /\ peer[c].state \in BeforeGame
  BY <1>1, <1>2 DEF Stage, AtKey, BeforeGame
<1>4. Head(up[c]) = Key(thread.id, c)
  BY <1>3
<1>5. Head(up[c]).type = "KEY" /\ rsa_decrypt_block(Head(up[c]).content) = c
  BY <1>4 DEF Key, Message, rsa_decrypt_block, rsa_encrypt_block
<1>6. clients' = Append(clients, new) /\ thread' = [thread EXCEPT !.at = "lobby"]
  BY <1>5 DEF lobby_add, add_to_list
<1>7. thread'.at = "lobby"
  BY <1>6 DEF Threads
<1>8. new \in Entries /\ new.who = c
  BY <1>2 DEF Entries
<1> HIDE DEF new, c
<1>9. /\ Len(clients') = Len(clients) + 1 /\ Len(clients) \in Nat
      /\ clients'[Len(clients) + 1] = new /\ \A k \in 1..Len(clients) : clients'[k] = clients[k]
  BY <1>6, <1>8, AppendProperties
<1>10. ASSUME NEW x \in Clients, peer[x].at # "gone", x \notin early
       PROVE  Stream(x, peer[x], down[x], client_messages[x], shown[x], pushed[x],
                     refused[x].down, thread', app, clients')
  <2>1. Stream(x, peer[x], down[x], client_messages[x], shown[x], pushed[x], refused[x].down,
               thread, app, clients)
    BY <1>10, DownOf
  <2>2. PICK t2 : t2 = thread'
    OBVIOUS
  <2>3. CASE x # c
    <3>1. Stream(x, peer[x], down[x], client_messages[x], shown[x], pushed[x], refused[x].down,
                 t2, app, Append(clients, new))
      BY <1>1, <1>7, <1>8, <2>1, <2>2, <2>3, StreamLonger
    <3> QED
      BY <1>6, <2>2, <3>1
  <2>4. CASE x = c
    <3>1. /\ Filled(client_messages[x], Shows) /\ Held(client_messages[x]) = << >>
          /\ shown[x] = << >> /\ pushed[x] = << >> /\ refused[x].down \in Nat
      BY <1>3, <2>1, <2>4 DEF Stream
    <3>2. down[x] = << >> /\ peer[x].state \in BeforeGame
      BY <1>3, <1>10, <2>4
    <3>3. Books(peer[x].sesskey, peer[x].state, down[x], client_messages[x], shown[x], pushed[x],
                refused[x].down)
      BY <3>1, <3>2, BooksOpened
    <3>4. ASSUME NEW k \in 1..Len(clients'), clients'[k].who = x
          PROVE  Place(k, peer[x].state, down[x], thread', app, clients')
      <4>1. k = Len(clients) + 1
        <5>1. k \in 1..Len(clients) \/ k = Len(clients) + 1
          BY <1>9
        <5>2. k \notin 1..Len(clients)
          BY <1>3, <1>9, <2>4, <3>4 DEF Who
        <5> QED
          BY <5>1, <5>2
      <4>2. ~Writing(app, k)
        BY <1>9, <4>1 DEF Writing, DownInv, Pushing
      <4> QED
        BY <1>7, <3>2, <4>2 DEF Place, Unstarted, Starting, Started
    <3>5. x \in Who(clients')
      BY <1>8, <1>9, <2>4 DEF Who
    <3> QED
      BY <3>3, <3>4, <3>5 DEF Stream
  <2> QED
    BY <2>3, <2>4
<1>11. \A x \in Clients : Down(x)'
  BY <1>1, <1>10 DEF Down
<1>12. Frame
  BY <1>1, <1>9 DEF Frame, DownInv, Pushing
<1> QED
  BY <1>11, <1>12, DownNext

\* A step that writes to the client at place j
LEMMA DownWritten ==
  ASSUME SessionInv, clients' = clients, NEW j \in 1..Len(clients), NEW c, c = clients[j].who,
         peer'[c].at # "gone" /\ c \notin early' =>
           /\ Books(peer'[c].sesskey, peer'[c].state, down'[c], client_messages'[c],
                    shown'[c], pushed'[c], refused'[c].down)
           /\ Place(j, peer'[c].state, down'[c], thread', app', clients)
  PROVE  Down(c)'
<1> SUFFICES ASSUME peer'[c].at # "gone", c \notin early'
             PROVE  Stream(c, peer'[c], down'[c], client_messages'[c], shown'[c], pushed'[c],
                           refused'[c].down, thread', app', clients)
  BY DEF Down
<1>1. c \in Who(clients)
  BY DEF Who
<1>2. \A k \in 1..Len(clients) : clients[k].who = c => k = j
  BY DEF SessionInv, Ordered
<1> QED
  BY <1>1, <1>2 DEF Stream

\* The client at place j and what is known of it
LEMMA DownPlace ==
  ASSUME SessionInv, DownInv, NEW j \in 1..Len(clients), NEW c, c = clients[j].who,
         peer[c].at # "gone", c \notin early
  PROVE  /\ c \in Clients /\ peer[c].sesskey = clients[j].sesskey
         /\ Books(peer[c].sesskey, peer[c].state, down[c], client_messages[c],
                  shown[c], pushed[c], refused[c].down)
         /\ Place(j, peer[c].state, down[c], thread, app, clients)
<1>1. c \in Clients
  BY EntryFields
<1>2. Agreed(c, peer[c], clients[j])
  BY <1>1, PeerOf DEF Stage
<1>3. Stream(c, peer[c], down[c], client_messages[c], shown[c], pushed[c], refused[c].down,
             thread, app, clients)
  BY <1>1, DownOf
<1> QED
  BY <1>1, <1>2, <1>3 DEF Stream, Agreed

LEMMA StartTold == \A key : StartMsg \in Told(key) /\ StartMsg.type = "START"
  BY DEF Told, StartMsg, Message

LEMMA StartHead ==
  ASSUME NEW key, NEW st \in BeforeGame, NEW q, NEW sh, NEW pu, NEW r,
         Books(key, st, << >>, q, sh, pu, r)
  PROVE  LET e == Append(<< >>, Half("head", StartMsg))
         IN  Books(key, st, e, q, sh, pu, r) /\ e = <<Half("head", StartMsg)>>
<1>1. PICK z, h : z = << >> /\ h = Half("head", StartMsg)
  OBVIOUS
<1>2. Whole(z)
  BY <1>1 DEF Whole
<1>3. Books(key, st, z, q, sh, pu, r)
  BY <1>1
<1>4. Books(key, st, Append(z, Half("head", StartMsg)), q, sh, pu, r)
  BY <1>2, <1>3, StartTold, BooksHead
<1>5. Append(z, h) = <<h>>
  BY <1>1
<1> QED
  BY <1>1, <1>4, <1>5

LEMMA StartBody ==
  ASSUME NEW key, NEW st, NEW d, NEW q, NEW sh, NEW pu, NEW r,
         Books(key, st, d, q, sh, pu, r), d = <<Half("head", StartMsg)>>
  PROVE  LET e == Append(d, Half("body", StartMsg))
         IN  Books(key, st, e, q, sh, pu, r) /\ Whole(e) /\ StartsFirst(e)
<1>1. PICK h, b : h = Half("head", StartMsg) /\ b = Half("body", StartMsg)
  OBVIOUS
<1>2. d = <<h>> /\ Len(d) = 1 /\ d[1] = h
  BY <1>1
<1>3. Open(d, StartMsg)
  BY <1>1, <1>2 DEF Open
<1>4. Books(key, st, Append(d, Half("body", StartMsg)), q, sh, pu, r)
      /\ Whole(Append(d, Half("body", StartMsg)))
  BY <1>3, StartTold, BooksNotice
<1>5. Len(Append(d, b)) = 2 /\ Append(d, b)[1] = h
  <2>1. d \in Seq(Halves(key)) /\ b \in Halves(key)
    BY <1>1, StartTold, HalfFacts DEF Books
  <2> QED
    BY <1>2, <2>1, AppendProperties
<1>6. h.msg.type = "START"
  BY <1>1, StartTold DEF Half
<1>7. StartsFirst(Append(d, b))
  BY <1>5, <1>6 DEF StartsFirst
<1> QED
  BY <1>1, <1>4, <1>7

LEMMA StartDown == ASSUME SessionInv, DownInv, send_start PROVE DownInv'
<1> USE PeerOf, ThreadFields
<1>0. PICK j, c : j = thread.turn /\ c = clients[j].who
  OBVIOUS
<1>1. /\ thread.at = "start" /\ down' = [down EXCEPT ![c] = Append(@, Half(thread.half, StartMsg))]
      /\ UNCHANGED <<peer, clients, app, state, client_messages, shown, pushed, refused, early>>
  BY <1>0 DEF send_start, At, history, Write, StartMsg
<1>2. j \in 1..Len(clients) /\ c \in Clients /\ Len(clients) \in Nat
  BY <1>0, <1>1, EntryFields DEF SessionInv, Turns
<1>3. ~Started(thread, j)
  BY <1>0, <1>1, <1>2 DEF Started
<1>4. PICK n, h : n = NextTurn(thread) /\ h = Flip(thread.half)
  OBVIOUS
<1>5. PICK a : /\ a = IF n > Len(clients) THEN "game" ELSE "start"
               /\ a \in Places
  BY DEF Places
<1>6. /\ n \in Nat \ {0} /\ h \in {"head", "body"}
      /\ thread.half = "head" => n = j /\ h = "body"
      /\ thread.half = "body" => n = j + 1 /\ h = "head"
  BY <1>0, <1>4 DEF NextTurn, Flip
<1>7. thread'.at = a /\ thread'.turn = n /\ thread'.half = h
  <2>1. thread' = [[thread EXCEPT !.turn = n, !.half = h]
                     EXCEPT !.at = IF [thread EXCEPT !.turn = n, !.half = h].turn > Len(clients)
                                   THEN "game" ELSE @]
    BY <1>4 DEF send_start
  <2> QED
    BY <1>1, <1>5, <2>1 DEF Threads
<1>8. \A x \in Clients : down'[x] = IF x = c THEN Append(down[x], Half(thread.half, StartMsg)) ELSE down[x]
  BY <1>1
<1>9. \A k \in 1..Len(clients) : k # j => Moved(thread, app, thread', app', clients, k)
  <2> SUFFICES ASSUME NEW k \in 1..Len(clients), k # j
               PROVE  Moved(thread, app, thread', app', clients, k)
    OBVIOUS
  <2>1. thread.turn = j /\ thread.half \in {"head", "body"}
    BY <1>0
  <2>2. k \in Nat /\ j \in Nat /\ k <= Len(clients) /\ j <= Len(clients)
    BY <1>2
  <2>3. Started(thread, k) => Started(thread', k)
    <3>1. Started(thread, k) => k < j
      BY <1>0, <1>1 DEF Started
    <3>2. k < j => k < n
      BY <1>6, <2>1, <2>2
    <3> QED
      BY <1>5, <1>7, <3>1, <3>2 DEF Started
  <2>4. Unstarted(thread', k) => Unstarted(thread, k)
    <3>1. Unstarted(thread', k) => n <= k
      BY <1>5, <1>6, <1>7, <2>2 DEF Unstarted
    <3>2. n <= k => j < k
      BY <1>6, <2>1, <2>2
    <3> QED
      BY <1>1, <2>1, <3>1, <3>2 DEF Unstarted
  <2>5. ~Starting(thread', k)
    BY <1>6, <1>7, <2>1 DEF Starting
  <2>6. Started(thread', k) => Started(thread, k)
    <3>1. Started(thread', k) => n > k
      BY <1>5, <1>6, <1>7, <2>2 DEF Started
    <3>2. n > k => k < j
      BY <1>6, <2>1, <2>2
    <3> QED
      BY <1>1, <2>1, <3>1, <3>2 DEF Started
  <2> QED
    BY <1>1, <2>3, <2>4, <2>5, <2>6 DEF Moved
<1>10. ASSUME NEW x \in Clients, x # c PROVE Down(x)'
  <2>1. \A k \in 1..Len(clients) : clients[k].who = x => k # j
    BY <1>0, <1>10
  <2>2. down'[x] = down[x]
    BY <1>8, <1>10
  <2>3. Untouched(x)
    BY <1>1, <1>9, <2>1, <2>2, AlikeSame DEF Untouched
  <2> QED
    BY <1>1, <2>3, DownUntouched
<1>11. Down(c)'
  <2>1. ASSUME peer[c].at # "gone", c \notin early
        PROVE  /\ Books(peer[c].sesskey, peer[c].state, down'[c], client_messages[c],
                        shown[c], pushed[c], refused[c].down)
               /\ Place(j, peer[c].state, down'[c], thread', app, clients)
    <3>1. /\ Books(peer[c].sesskey, peer[c].state, down[c], client_messages[c],
                   shown[c], pushed[c], refused[c].down)
          /\ Place(j, peer[c].state, down[c], thread, app, clients)
      BY <1>0, <1>2, <2>1, DownPlace
    <3>2. thread.turn = j /\ ~Writing(app, j)
      BY <1>0, <1>3, <3>1 DEF Place
    <3>3. CASE thread.half = "head"
      <4>1. down[c] = << >> /\ peer[c].state \in BeforeGame
        BY <1>1, <3>1, <3>2, <3>3 DEF Place, Unstarted
      <4>2. down'[c] = Append(<< >>, Half("head", StartMsg))
        BY <1>2, <1>8, <3>3, <4>1
      <4>3. Books(peer[c].sesskey, peer[c].state, << >>, client_messages[c],
                  shown[c], pushed[c], refused[c].down)
        BY <3>1, <4>1
      <4>4. /\ Books(peer[c].sesskey, peer[c].state, Append(<< >>, Half("head", StartMsg)),
                     client_messages[c], shown[c], pushed[c], refused[c].down)
            /\ Append(<< >>, Half("head", StartMsg)) = <<Half("head", StartMsg)>>
        BY ONLY <4>1, <4>3, StartHead
      <4>5. ~Unstarted(thread', j) /\ ~Started(thread', j)
        BY <1>2, <1>5, <1>6, <1>7, <3>3 DEF Unstarted, Started
      <4>6. Place(j, peer[c].state, down'[c], thread', app, clients)
        BY <3>2, <4>1, <4>2, <4>4, <4>5 DEF Place
      <4> QED
        BY <4>2, <4>4, <4>6
    <3>4. CASE thread.half = "body"
      <4>1. down[c] = <<Half("head", StartMsg)>> /\ peer[c].state \in BeforeGame
        BY <1>1, <3>1, <3>2, <3>4 DEF Place, Starting
      <4>2. down'[c] = Append(down[c], Half("body", StartMsg))
        BY <1>2, <1>8, <3>4
      <4>3. /\ Books(peer[c].sesskey, peer[c].state, Append(down[c], Half("body", StartMsg)),
                     client_messages[c], shown[c], pushed[c], refused[c].down)
            /\ Whole(Append(down[c], Half("body", StartMsg)))
            /\ StartsFirst(Append(down[c], Half("body", StartMsg)))
        BY ONLY <3>1, <4>1, StartBody
      <4>4. ~Unstarted(thread', j) /\ ~Starting(thread', j)
        BY <1>2, <1>5, <1>6, <1>7, <3>4 DEF Unstarted, Starting
      <4>5. Place(j, peer[c].state, down'[c], thread', app, clients)
        BY <3>2, <4>2, <4>3, <4>4 DEF Place
      <4> QED
        BY <4>2, <4>3, <4>5
    <3> QED
      BY <3>3, <3>4
  <2> QED
    <3>1. peer'[c].at # "gone" /\ c \notin early' =>
            /\ Books(peer'[c].sesskey, peer'[c].state, down'[c], client_messages'[c],
                     shown'[c], pushed'[c], refused'[c].down)
            /\ Place(j, peer'[c].state, down'[c], thread', app', clients)
      BY <1>1, <2>1
    <3> QED
      BY <1>0, <1>1, <1>2, <3>1, DownWritten
<1>12. \A x \in Clients : Down(x)'
  BY <1>10, <1>11
<1>13. Frame
  BY <1>1 DEF Frame, DownInv
<1> QED
  BY <1>12, <1>13, DownNext

\* A whole frame at once
LEMMA BooksEnd ==
  ASSUME NEW key, NEW st, NEW d, NEW q, NEW sh, NEW pu, NEW r, Books(key, st, d, q, sh, pu, r),
         Whole(d)
  PROVE  Books(key, st, d \o send_message_tcp(EndMsg), q, sh, pu, r)
<1>1. PICK h, b : h = Half("head", EndMsg) /\ b = Half("body", EndMsg)
  OBVIOUS
<1>2. EndMsg \in Told(key) /\ EndMsg.type = "END"
  BY DEF Told, EndMsg, Message
<1>3. PICK e : e = Append(d, Half("head", EndMsg))
  OBVIOUS
<1>4. Books(key, st, e, q, sh, pu, r) /\ Open(e, EndMsg)
  BY <1>2, <1>3, BooksHead
<1>5. Books(key, st, Append(e, Half("body", EndMsg)), q, sh, pu, r)
  BY <1>2, <1>4, BooksNotice
<1>6. d \o <<h, b>> = Append(Append(d, h), b)
  <2>1. d \in Seq(Halves(key)) /\ h \in Halves(key) /\ b \in Halves(key)
    BY <1>1, <1>2, HalfFacts DEF Books
  <2> QED
    BY <2>1
<1>7. send_message_tcp(EndMsg) = <<h, b>>
  BY <1>1 DEF send_message_tcp
<1> QED
  BY <1>1, <1>3, <1>5, <1>6, <1>7

LEMMA EndDown == ASSUME SessionInv, DownInv, server_end_state PROVE DownInv'
<1> USE PeerOf, ThreadFields
<1>1. /\ thread.at \in {"lobby", "game"} /\ state = "END"
      /\ UNCHANGED <<peer, clients, app, state, client_messages, shown, pushed, refused, early>>
      /\ thread' = [thread EXCEPT !.at = "done"]
      /\ \A x \in Clients : down'[x] = IF x \in Who(clients) THEN down[x] \o send_message_tcp(EndMsg)
                                       ELSE down[x]
  BY DEF server_end_state, At, history, EndMsg, Members, Who
<1>2. thread'.at = "done"
  BY <1>1 DEF Threads
<1>3. app.at # "push" /\ \A k : ~Writing(app, k)
  BY <1>1 DEF DownInv, Pushing, Writing
<1>4. \A k : ~Unstarted(thread', k) /\ ~Starting(thread', k) /\ ~Started(thread', k)
  BY <1>2 DEF Unstarted, Starting, Started
<1>5. ASSUME NEW x \in Clients, x \notin Who(clients) PROVE Down(x)'
  <2>1. Untouched(x)
    BY <1>1, <1>5 DEF Untouched
  <2> QED
    BY <1>1, <2>1, DownUntouched
<1>6. ASSUME NEW x \in Clients, x \in Who(clients) PROVE Down(x)'
  <2>1. PICK j \in 1..Len(clients) : x = clients[j].who
    BY <1>6 DEF Who
  <2>2. ASSUME peer[x].at # "gone", x \notin early
        PROVE  Books(peer[x].sesskey, peer[x].state, down'[x], client_messages[x],
                     shown[x], pushed[x], refused[x].down)
    <3>1. /\ Books(peer[x].sesskey, peer[x].state, down[x], client_messages[x],
                   shown[x], pushed[x], refused[x].down)
          /\ Place(j, peer[x].state, down[x], thread, app, clients)
      BY <2>1, <2>2, DownPlace
    <3>2. Whole(down[x])
      <4>1. CASE thread.at = "lobby"
        <5>1. down[x] = << >>
          BY <3>1, <4>1 DEF Place, Unstarted
        <5> QED
          BY <5>1 DEF Whole
      <4>2. CASE thread.at = "game"
        BY <1>3, <3>1, <4>2 DEF Place, Started, Writing
      <4> QED
        BY <1>1, <4>1, <4>2
    <3>3. Books(peer[x].sesskey, peer[x].state, down[x] \o send_message_tcp(EndMsg),
                client_messages[x], shown[x], pushed[x], refused[x].down)
      BY <3>1, <3>2, BooksEnd
    <3> QED
      BY <1>1, <1>6, <3>3
  <2>3. Place(j, peer'[x].state, down'[x], thread', app', clients)
    BY <1>1, <1>3, <1>4 DEF Place
  <2>4. peer'[x].at # "gone" /\ x \notin early' =>
          /\ Books(peer'[x].sesskey, peer'[x].state, down'[x], client_messages'[x],
                   shown'[x], pushed'[x], refused'[x].down)
          /\ Place(j, peer'[x].state, down'[x], thread', app', clients)
    BY <1>1, <2>2, <2>3
  <2> QED
    BY <1>1, <2>1, <2>4, DownWritten
<1>7. \A x \in Clients : Down(x)'
  BY <1>5, <1>6
<1>8. Frame
  BY <1>1, <1>3 DEF Frame, DownInv, Pushing
<1> QED
  BY <1>7, <1>8, DownNext

LEMMA PushedTold ==
  ASSUME NEW a, NEW list, a.n \in Nat
  PROVE  LET m == BeingPushed(a, list)
         IN  /\ m \in Told(list[a.turn].sesskey) /\ m.type \in {"APP", "APP_ENC"}
             /\ m.content.plain = Push(a.n)
<1>1. CASE a.to = {}
  <2>1. BeingPushed(a, list) = PlainPush(a.n)
    BY <1>1 DEF BeingPushed
  <2>2. PlainPush(a.n).type = "APP" /\ PlainPush(a.n).content.plain = Push(a.n)
    BY DEF PlainPush, Message, Plain
  <2>3. PlainPush(a.n) \in Told(list[a.turn].sesskey)
    BY DEF Told
  <2> QED
    BY <2>1, <2>2, <2>3
<1>2. CASE a.to # {}
  <2>1. BeingPushed(a, list) = SealedPush(list[a.turn].sesskey, a.n)
    BY <1>2 DEF BeingPushed
  <2>2. /\ SealedPush(list[a.turn].sesskey, a.n).type = "APP_ENC"
        /\ SealedPush(list[a.turn].sesskey, a.n).content.plain = Push(a.n)
    BY DEF SealedPush, Message, session_encrypt
  <2>3. SealedPush(list[a.turn].sesskey, a.n) \in Told(list[a.turn].sesskey)
    BY DEF Told
  <2> QED
    BY <2>1, <2>2, <2>3
<1> QED
  BY <1>1, <1>2

LEMMA PushDown == ASSUME SessionInv, DownInv, push_half PROVE DownInv'
<1> USE PeerOf, ThreadFields
<1>0. PICK j, c, m : j = app.turn /\ c = clients[j].who /\ m = BeingPushed(app, clients)
  OBVIOUS
<1>1. /\ app.at = "push" /\ j <= Len(clients)
      /\ UNCHANGED <<peer, clients, thread, state, client_messages, shown, refused>>
      /\ down' = [down EXCEPT ![c] = Append(@, Half(app.half, m))]
      /\ pushed' = IF app.half = "head" THEN pushed
                   ELSE [pushed EXCEPT ![c] = Append(@, Push(app.n))]
      /\ early' = IF StartSent(j) THEN early ELSE early \cup {c}
  BY <1>0 DEF push_half, serverVars, Write, BeingPushed, PlainPush, SealedPush
<1>2. j \in 1..Len(clients) /\ c \in Clients /\ Len(clients) \in Nat
  BY <1>0, <1>1, EntryFields
<1>3. state = "GAME" /\ DOMAIN pushed = Clients
  BY <1>1 DEF DownInv, Pushing
<1>4. /\ m \in Told(clients[j].sesskey) /\ m.type \in {"APP", "APP_ENC"}
      /\ m.content.plain = Push(app.n)
  BY <1>0, PushedTold
<1>5. PICK n, h : n = NextTurn(app) /\ h = Flip(app.half)
  OBVIOUS
<1>6. /\ n \in Nat /\ h \in {"head", "body"}
      /\ app.half = "head" => n = j /\ h = "body"
      /\ app.half = "body" => n = j + 1 /\ h = "head"
  BY <1>0, <1>5 DEF NextTurn, Flip
<1>7. PICK next : next = [app EXCEPT !.turn = n, !.half = h]
  OBVIOUS
<1>8. /\ next.turn = n /\ next.half = h /\ next.at = "push" /\ next.to = app.to /\ next.n = app.n
      /\ next.half = "body" => app' = next
      /\ next.half = "head" => app'.half = "head"
      /\ app'.at = "push" => app'.turn \in 1..Len(clients)
  <2>1. next.turn = n /\ next.half = h /\ next.at = "push" /\ next.to = app.to /\ next.n = app.n
    BY <1>1, <1>7 DEF Apps
  <2>2. \/ app' = next /\ (next.half = "head" => ~(next.turn > Len(clients)))
        \/ next.half = "head" /\ app' = [next EXCEPT !.at = "free", !.turn = 1, !.to = {}]
    BY <1>5, <1>7 DEF push_half
  <2>3. /\ [next EXCEPT !.at = "free", !.turn = 1, !.to = {}].half = next.half
        /\ [next EXCEPT !.at = "free", !.turn = 1, !.to = {}].at = "free"
    BY <1>7 DEF Apps
  <2>4. (next.half = "head" => ~(next.turn > Len(clients))) => n \in 1..Len(clients)
    BY <1>2, <1>6, <2>1
  <2> QED
    BY <2>1, <2>2, <2>3, <2>4
<1>9. \A x \in Clients : down'[x] = IF x = c THEN Append(down[x], Half(app.half, m)) ELSE down[x]
  BY <1>1
<1>10. \A x \in Clients : pushed'[x] = IF x = c /\ app.half = "body" THEN Append(pushed[x], Push(app.n))
                                       ELSE pushed[x]
  BY <1>1, <1>3
<1>11. \A k \in 1..Len(clients) : k # j => Moved(thread, app, thread', app', clients, k)
  <2>1. \A k : k # j => ~Writing(app, k) /\ ~Writing(app', k)
    BY <1>0, <1>6, <1>8 DEF Writing
  <2> QED
    BY <1>1, <2>1 DEF Moved
<1>12. ASSUME NEW x \in Clients, x # c PROVE Down(x)'
  <2>1. \A k \in 1..Len(clients) : clients[k].who = x => k # j
    BY <1>0, <1>12
  <2>2. down'[x] = down[x] /\ pushed'[x] = pushed[x]
    BY <1>9, <1>10, <1>12
  <2>3. Untouched(x)
    BY <1>1, <1>11, <1>12, <2>1, <2>2, AlikeSame DEF Untouched
  <2> QED
    BY <1>1, <2>3, DownUntouched
<1>13. Down(c)'
  <2>0. c \notin early' => c \notin early /\ Started(thread, j)
    BY <1>1 DEF StartSent, At, Started
  <2>1. ASSUME peer[c].at # "gone", c \notin early'
        PROVE  /\ Books(peer[c].sesskey, peer[c].state, down'[c], client_messages[c],
                        shown[c], pushed'[c], refused[c].down)
               /\ Place(j, peer[c].state, down'[c], thread, app', clients)
    <3>1. /\ Books(peer[c].sesskey, peer[c].state, down[c], client_messages[c],
                   shown[c], pushed[c], refused[c].down)
          /\ Place(j, peer[c].state, down[c], thread, app, clients)
          /\ peer[c].sesskey = clients[j].sesskey
      BY <1>0, <1>2, <2>0, <2>1, DownPlace
    <3>2. ~Unstarted(thread, j) /\ ~Starting(thread, j) /\ Started(thread, j)
      BY <1>2, <2>0, <2>1 DEF Unstarted, Starting, Started
    <3>3. peer[c].state \in BeforeGame => StartsFirst(down[c])
      BY <3>1, <3>2 DEF Place
    <3>4. m \in Told(peer[c].sesskey)
      BY <1>4, <3>1
    <3>5. CASE app.half = "head"
      <4>1. Whole(down[c])
        BY <3>1, <3>2, <3>5 DEF Place, Writing
      <4>2. PICK e : e = Append(down[c], Half("head", m))
        OBVIOUS
      <4>3. /\ Books(peer[c].sesskey, peer[c].state, e, client_messages[c],
                     shown[c], pushed[c], refused[c].down)
            /\ Open(e, m) /\ (StartsFirst(down[c]) => StartsFirst(e))
        BY ONLY <3>1, <3>4, <4>1, <4>2, BooksHead
      <4>4. app' = next /\ BeingPushed(next, clients) = m /\ Writing(next, j)
        BY <1>0, <1>6, <1>8, <3>5 DEF BeingPushed, Writing
      <4>5. Place(j, peer[c].state, e, thread, app', clients)
        BY <3>2, <3>3, <4>3, <4>4 DEF Place
      <4>6. down'[c] = e /\ pushed'[c] = pushed[c]
        BY <1>2, <1>9, <1>10, <3>5, <4>2
      <4> QED
        BY <4>3, <4>5, <4>6
    <3>6. CASE app.half = "body"
      <4>1. Open(down[c], m)
        BY <1>0, <1>1, <3>1, <3>2, <3>6 DEF Place, Writing
      <4>2. PICK e : e = Append(down[c], Half("body", m))
        OBVIOUS
      <4>3. /\ Books(peer[c].sesskey, peer[c].state, e, client_messages[c],
                     shown[c], Append(pushed[c], m.content.plain), refused[c].down)
            /\ Whole(e) /\ (StartsFirst(down[c]) => StartsFirst(e))
        BY ONLY <1>4, <3>1, <3>3, <3>4, <4>1, <4>2, BooksPush
      <4>4. ~Writing(app', j)
        BY <1>6, <1>8, <3>6 DEF Writing
      <4>5. Place(j, peer[c].state, e, thread, app', clients)
        BY <3>2, <3>3, <4>3, <4>4 DEF Place
      <4>6. down'[c] = e /\ pushed'[c] = Append(pushed[c], m.content.plain)
        BY <1>2, <1>4, <1>9, <1>10, <3>6, <4>2
      <4> QED
        BY <4>3, <4>5, <4>6
    <3> QED
      BY <3>5, <3>6
  <2>2. peer'[c].at # "gone" /\ c \notin early' =>
          /\ Books(peer'[c].sesskey, peer'[c].state, down'[c], client_messages'[c],
                   shown'[c], pushed'[c], refused'[c].down)
          /\ Place(j, peer'[c].state, down'[c], thread', app', clients)
    BY <1>1, <2>1
  <2> QED
    BY <1>0, <1>1, <1>2, <2>2, DownWritten
<1>14. \A x \in Clients : Down(x)'
  BY <1>12, <1>13
<1>15. Frame
  <2>1. DOMAIN pushed' = Clients
    BY <1>1, <1>3
  <2> QED
    BY <1>1, <1>3, <1>8, <2>1 DEF Frame, DownInv, Pushing
<1> QED
  BY <1>14, <1>15, DownNext

\* A step of client c that leaves the others alone
LEMMA ReaderDown ==
  ASSUME SessionInv, DownInv, NEW c \in Clients, UNCHANGED <<clients, thread, app, state, pushed, early>>,
         DOMAIN client_messages' = Clients, DOMAIN shown' = Clients,
         \A x \in Clients : x # c =>
           /\ peer'[x] = peer[x] /\ down'[x] = down[x] /\ shown'[x] = shown[x]
           /\ client_messages'[x] = client_messages[x] /\ refused'[x] = refused[x],
         Down(c)'
  PROVE  DownInv'
<1>1. ASSUME NEW x \in Clients, x # c PROVE Down(x)'
  <2>1. \A k \in 1..Len(clients) : Moved(thread, app, thread', app', clients, k)
    BY MovedSame
  <2>2. Untouched(x)
    BY <1>1, <2>1, AlikeSame DEF Untouched
  <2> QED
    BY <2>2, DownUntouched
<1>2. Frame
  BY DEF Frame, DownInv
<1>3. \A x \in Clients : Down(x)'
  BY <1>1
<1> QED
  BY <1>2, <1>3, DownNext

LEMMA LobbyDown ==
  ASSUME SessionInv, DownInv, NEW c \in Clients, client_lobby_state(c)
  PROVE  DownInv'
<1> USE PeerOf
<1>1. PICK m, s : m = receive_message_tcp(down[c]) /\ s = IF m.type = "START" THEN "GAME" ELSE "LOBBY"
  OBVIOUS
<1>2. /\ UNCHANGED <<clients, thread, app, state, pushed, client_messages, shown, refused, early>>
      /\ Running(c) /\ peer[c].state = "LOBBY" /\ Complete(down[c])
      /\ peer' = [peer EXCEPT ![c].state = s] /\ down' = [down EXCEPT ![c] = Rest(@)]
  BY <1>1 DEF client_lobby_state, serverVars, history
<1>3. \A x \in Clients : x # c => peer'[x] = peer[x] /\ down'[x] = down[x]
  BY <1>2
<1>4. down'[c] = Rest(down[c])
  BY <1>2
<1>5. peer'[c].at = peer[c].at /\ peer'[c].sesskey = peer[c].sesskey /\ peer'[c].state = s
  <2>1. peer'[c] = [peer[c] EXCEPT !.state = s] /\ peer[c] \in Peers
    BY <1>2
  <2> QED
    BY ONLY <2>1 DEF Peers
<1>6. peer[c].at # "gone"
  BY <1>2 DEF Running
<1>7. Down(c)'
  <2>1. CASE c \notin Who(clients)
    <3>1. Untouched(c)
      BY <1>2, <1>5, <2>1 DEF Untouched
    <3> QED
      BY <1>2, <3>1, DownUntouched
  <2>2. CASE c \in Who(clients) /\ c \notin early
    <3>1. PICK j \in 1..Len(clients) : c = clients[j].who
      BY <2>2 DEF Who
    <3>2. PICK key, d, q, sh, pu, r :
             /\ key = peer[c].sesskey /\ d = down[c] /\ q = client_messages[c] /\ sh = shown[c]
             /\ pu = pushed[c] /\ r = refused[c].down
      OBVIOUS
    <3>3. Books(key, "LOBBY", d, q, sh, pu, r) /\ Place(j, "LOBBY", d, thread, app, clients)
      BY <1>2, <1>6, <2>2, <3>1, <3>2, DownPlace
    <3>4. Complete(d) /\ m = receive_message_tcp(d)
      BY <1>1, <1>2, <3>2
    <3>5. PICK e : e = Rest(d)
      OBVIOUS
    <3>6. /\ m.type = "START" => Books(key, "GAME", e, q, sh, pu, r)
          /\ m.type # "START" => Books(key, "LOBBY", e, q, sh, pu, r) /\ ~StartsFirst(d)
          /\ Whole(d) => Whole(e)
          /\ \A x : Open(d, x) => Open(e, x)
      BY ONLY <3>3, <3>4, <3>5, BooksLobby
    <3>7. Books(key, s, e, q, sh, pu, r)
      BY <1>1, <3>6
    <3>8. ~Unstarted(thread, j) /\ ~Starting(thread, j)
      <4>1. d # << >> /\ d # <<Half("head", StartMsg)>>
        BY <3>4 DEF Complete
      <4> QED
        BY <3>3, <4>1 DEF Place
    <3>9. Started(thread, j) => s = "GAME"
      <4>1. Started(thread, j) => StartsFirst(d)
        BY <3>3 DEF Place, BeforeGame
      <4> QED
        BY <1>1, <3>6, <4>1
    <3>10. Place(j, s, e, thread, app, clients)
      BY <3>3, <3>6, <3>8, <3>9 DEF Place, BeforeGame
    <3>11. peer'[c].at # "gone" /\ c \notin early' =>
             /\ Books(peer'[c].sesskey, peer'[c].state, down'[c], client_messages'[c],
                      shown'[c], pushed'[c], refused'[c].down)
             /\ Place(j, peer'[c].state, down'[c], thread', app', clients)
      BY <1>2, <1>4, <1>5, <3>2, <3>5, <3>7, <3>10
    <3> QED
      BY <1>2, <3>1, <3>11, DownWritten
  <2> QED
    BY <1>2, <2>1, <2>2 DEF Down
<1>8. DOMAIN client_messages' = Clients /\ DOMAIN shown' = Clients
  BY <1>2 DEF DownInv
<1> QED
  BY <1>2, <1>3, <1>7, <1>8, ReaderDown

LEMMA GameDown ==
  ASSUME SessionInv, FlowInv, DownInv, NEW c \in Clients, client_game_state(c)
  PROVE  DownInv'
<1> USE PeerOf
<1>0. PICK key, d, q, sh, pu, r :
         /\ key = peer[c].sesskey /\ d = down[c] /\ q = client_messages[c] /\ sh = shown[c]
         /\ pu = pushed[c] /\ r = refused[c].down
  OBVIOUS
<1>1. PICK m, s, q2, r2 :
        /\ m = receive_message_tcp(d) /\ s = IF m.type = "END" THEN "END" ELSE "GAME"
        /\ q2 = IF Accepted(key, m) THEN Q!enqueue(q, Payload(m)) ELSE q
        /\ r2 = IF Accepted(key, m) /\ Q!full(q) THEN r + 1 ELSE r
  OBVIOUS
<1>2. /\ UNCHANGED <<clients, thread, app, state, pushed, shown, early>>
      /\ Running(c) /\ peer[c].state = "GAME" /\ Complete(d)
      /\ peer' = [peer EXCEPT ![c].state = s] /\ down' = [down EXCEPT ![c] = Rest(@)]
  BY <1>0, <1>1 DEF client_game_state, serverVars
<1>3. /\ DOMAIN client_messages' = Clients
      /\ \A x \in Clients : client_messages'[x] = IF x = c THEN q2 ELSE client_messages[x]
      /\ refused' = [refused EXCEPT ![c].down = r2]
  <2>1. DOMAIN client_messages = Clients
    BY DEF DownInv
  <2>2. /\ client_messages' = IF ~Accepted(key, m) THEN client_messages
                              ELSE [client_messages EXCEPT ![c] = Q!enqueue(@, Payload(m))]
        /\ refused' = [refused EXCEPT ![c].down =
                         IF Accepted(key, m) /\ Q!full(client_messages[c]) THEN @ + 1 ELSE @]
    BY <1>0, <1>1 DEF client_game_state
  <2> QED
    BY <1>0, <1>1, <2>1, <2>2
<1>4. /\ DOMAIN client_messages = Clients /\ DOMAIN shown = Clients /\ DOMAIN refused = Clients
      /\ refused[c] \in [up : Nat, down : Nat]
  BY DEF DownInv, FlowInv
<1>5. \A x \in Clients : x # c => /\ peer'[x] = peer[x] /\ down'[x] = down[x]
                                  /\ client_messages'[x] = client_messages[x] /\ refused'[x] = refused[x]
  BY <1>2, <1>3
<1>6. down'[c] = Rest(d) /\ client_messages'[c] = q2 /\ refused'[c].down = r2
  BY <1>0, <1>2, <1>3, <1>4
<1>7. peer'[c].at = peer[c].at /\ peer'[c].sesskey = key /\ peer'[c].state = s
  <2>1. peer'[c] = [peer[c] EXCEPT !.state = s] /\ peer[c] \in Peers
    BY <1>2
  <2> QED
    BY ONLY <1>0, <2>1 DEF Peers
<1>8. PICK j \in 1..Len(clients) : c = clients[j].who
  <2>1. c \in Who(clients)
    BY <1>2 DEF Stage
  <2> QED
    BY <2>1 DEF Who
<1>9. ASSUME c \notin early PROVE Down(c)'
  <2>1. Books(key, "GAME", d, q, sh, pu, r) /\ Place(j, "GAME", d, thread, app, clients)
    <3>1. peer[c].at # "gone"
      BY <1>2 DEF Running
    <3> QED
      BY <1>0, <1>2, <1>8, <1>9, <3>1, DownPlace
  <2>2. PICK e : e = Rest(d)
    OBVIOUS
  <2>3. /\ ~Accepted(key, m) =>
             Books(key, IF m.type = "END" THEN "END" ELSE "GAME", e, q, sh, pu, r)
        /\ Accepted(key, m) => /\ m.type # "END"
                               /\ Books(key, "GAME", e, Q!enqueue(q, Payload(m)), sh, pu,
                                        IF Q!full(q) THEN r + 1 ELSE r)
        /\ Whole(d) => Whole(e)
        /\ \A x : Open(d, x) => Open(e, x)
    BY ONLY <1>1, <1>2, <2>1, <2>2, BooksGame
  <2>4. Books(key, s, e, q2, sh, pu, r2)
    BY <1>1, <2>3
  <2>5. Place(j, s, e, thread, app, clients)
    BY <1>1, <2>1, <2>3 DEF Place, BeforeGame
  <2>6. peer'[c].at # "gone" =>
          /\ Books(peer'[c].sesskey, peer'[c].state, down'[c], client_messages'[c],
                   shown'[c], pushed'[c], refused'[c].down)
          /\ Place(j, peer'[c].state, down'[c], thread', app', clients)
    BY <1>0, <1>2, <1>6, <1>7, <2>2, <2>4, <2>5
  <2> QED
    BY <1>2, <1>8, <2>6, DownWritten
<1>10. Down(c)'
  BY <1>2, <1>9 DEF Down
<1>11. DOMAIN client_messages' = Clients /\ DOMAIN shown' = Clients
  BY <1>2, <1>3, <1>4
<1> QED
  BY <1>2, <1>5, <1>10, <1>11, ReaderDown

LEMMA ShownDown ==
  ASSUME SessionInv, DownInv, NEW c \in Clients, brclient_get_app_msg(c)
  PROVE  DownInv'
<1> USE PeerOf
<1>0. PICK key, st, d, q, sh, pu, r :
         /\ key = peer[c].sesskey /\ st = peer[c].state /\ d = down[c] /\ q = client_messages[c]
         /\ sh = shown[c] /\ pu = pushed[c] /\ r = refused[c].down
  OBVIOUS
<1>1. /\ UNCHANGED <<clients, thread, app, state, pushed, peer, down, refused, early>>
      /\ Running(c) /\ ~Q!empty(q)
      /\ shown' = [shown EXCEPT ![c] = Append(@, Q!peek(q))]
      /\ client_messages' = [client_messages EXCEPT ![c] = Q!dequeue(@)]
  BY <1>0 DEF brclient_get_app_msg, serverVars, netVars
<1>2. DOMAIN client_messages = Clients /\ DOMAIN shown = Clients
  BY DEF DownInv
<1>3. \A x \in Clients : x # c => client_messages'[x] = client_messages[x] /\ shown'[x] = shown[x]
  BY <1>1
<1>4. client_messages'[c] = Q!dequeue(q) /\ shown'[c] = Append(sh, Q!peek(q))
  BY <1>0, <1>1, <1>2
<1>5. peer[c].at # "gone"
  BY <1>1 DEF Running
<1>6. ASSUME c \notin early PROVE Down(c)'
  <2>1. c \in Who(clients)
    <3> SUFFICES ASSUME c \notin Who(clients) PROVE FALSE
      OBVIOUS
    <3>1. Stream(c, peer[c], d, q, sh, pu, r, thread, app, clients)
      BY <1>0, <1>5, <1>6, DownOf
    <3>2. Filled(q, Shows) /\ Held(q) = << >>
      BY <3>1 DEF Stream
    <3>3. Held(q) # << >>
      BY <1>1, <3>2, FilledDequeue
    <3> QED
      BY <3>2, <3>3
  <2>2. PICK j \in 1..Len(clients) : c = clients[j].who
    BY <2>1 DEF Who
  <2>3. Books(key, st, d, q, sh, pu, r) /\ Place(j, st, d, thread, app, clients)
    BY <1>0, <1>5, <1>6, <2>2, DownPlace
  <2>4. Books(key, st, d, Q!dequeue(q), Append(sh, Q!peek(q)), pu, r)
    BY <1>1, <2>3, BooksTake
  <2>5. peer'[c].at # "gone" =>
          /\ Books(peer'[c].sesskey, peer'[c].state, down'[c], client_messages'[c],
                   shown'[c], pushed'[c], refused'[c].down)
          /\ Place(j, peer'[c].state, down'[c], thread', app', clients)
    BY <1>0, <1>1, <1>4, <2>3, <2>4
  <2> QED
    BY <1>1, <2>2, <2>5, DownWritten
<1>7. Down(c)'
  BY <1>1, <1>6 DEF Down
<1>8. DOMAIN client_messages' = Clients /\ DOMAIN shown' = Clients
  BY <1>1, <1>2
<1> QED
  BY <1>1, <1>3, <1>7, <1>8, ReaderDown

\* A datagram goes into the queue of a client in its game
LEMMA CastDown ==
  ASSUME SessionInv, CastsInv, DownInv, NEW c \in Clients, client_game_udp(c)
  PROVE  DownInv'
<1> USE PeerOf
<1>0. PICK key, d, q, sh, pu, r :
         /\ key = peer[c].sesskey /\ d = down[c] /\ q = client_messages[c] /\ sh = shown[c]
         /\ pu = pushed[c] /\ r = refused[c].down
  OBVIOUS
<1>1. PICK v \in casts[c] : client_messages' = [client_messages EXCEPT ![c] = Q!enqueue(@, v)]
  BY DEF client_game_udp
<1>2. /\ UNCHANGED <<clients, thread, app, state, pushed, peer, down, refused, early, shown>>
      /\ Running(c) /\ peer[c].state = "GAME"
  BY DEF client_game_udp, serverVars, history
<1>3. DOMAIN client_messages = Clients /\ DOMAIN shown = Clients /\ v \in Casts
  BY <1>1 DEF DownInv, CastsInv
<1>4. \A x \in Clients : x # c => client_messages'[x] = client_messages[x]
  BY <1>1
<1>5. client_messages'[c] = Q!enqueue(q, v)
  BY <1>0, <1>1, <1>3
<1>6. ASSUME c \notin early PROVE Down(c)'
  <2>1. c \in Who(clients)
    BY <1>2 DEF Stage
  <2>2. PICK j \in 1..Len(clients) : c = clients[j].who
    BY <2>1 DEF Who
  <2>3. Books(key, "GAME", d, q, sh, pu, r) /\ Place(j, "GAME", d, thread, app, clients)
    <3>1. peer[c].at # "gone"
      BY <1>2 DEF Running
    <3> QED
      BY <1>0, <1>2, <1>6, <2>2, <3>1, DownPlace
  <2>4. Books(key, "GAME", d, Q!enqueue(q, v), sh, pu, r)
    BY <1>3, <2>3, BooksCast
  <2>5. peer'[c].at # "gone" =>
          /\ Books(peer'[c].sesskey, peer'[c].state, down'[c], client_messages'[c],
                   shown'[c], pushed'[c], refused'[c].down)
          /\ Place(j, peer'[c].state, down'[c], thread', app', clients)
    BY <1>0, <1>2, <1>5, <2>3, <2>4
  <2> QED
    BY <1>2, <2>2, <2>5, DownWritten
<1>7. Down(c)'
  BY <1>2, <1>6 DEF Down
<1>8. DOMAIN client_messages' = Clients /\ DOMAIN shown' = Clients
  BY <1>1, <1>2, <1>3
<1> QED
  BY <1>2, <1>4, <1>7, <1>8, ReaderDown

LEMMA CastsStep == ASSUME SessionInv, CastsInv, [Next]_vars PROVE CastsInv'
<1>1. CASE brserver_send_broadcast
  <2>1. PICK R : casts' = [c \in Clients |-> IF c \in R THEN casts[c] \cup {Cast(app.n + 1)}
                                                        ELSE casts[c]]
    BY <1>1 DEF brserver_send_broadcast
  <2>2. Cast(app.n + 1) \in Casts
    BY ThreadFields DEF Apps, Casts
  <2> QED
    BY <2>1, <2>2 DEF CastsInv
<1>2. ASSUME NEW c \in Clients, client_game_udp(c) PROVE CastsInv'
  <2>1. \E d : casts' = [casts EXCEPT ![c] = @ \ {d}]
    BY <1>2 DEF client_game_udp
  <2> QED
    BY <2>1 DEF CastsInv
<1>3. ASSUME UNCHANGED casts PROVE CastsInv'
  BY <1>3 DEF CastsInv
<1>4. CASE ServerThread
  BY <1>3, <1>4
  DEF ServerThread, server_idle_state, lobby_accept, lobby_sign, lobby_add, lobby_cleanup,
      server_game_state, send_start, server_end_state, game_eof, game_udp, game_tcp, netVars
<1>5. CASE \/ brserver_open \/ brserver_start \/ brserver_send_to_all \/ brserver_send_to_target
           \/ push_half \/ brserver_get_app_msg \/ take_locked \/ brserver_end
           \/ exit_process \/ LoseDatagram \/ UNCHANGED vars
  BY <1>3, <1>5
  DEF brserver_open, brserver_start, brserver_send_to_all, brserver_send_to_target, push_half,
      brserver_get_app_msg, take_locked, brserver_end, exit_process, LoseDatagram, netVars, vars
<1>6. ASSUME NEW c \in Clients,
             \/ connect_on_tcp(c) \/ Join(c) \/ client_lobby_state(c) \/ client_game_state(c)
             \/ client_game_eof(c) \/ brclient_send_msg(c) \/ brclient_send_msg_udp(c)
             \/ brclient_get_app_msg(c) \/ Leave(c)
      PROVE  CastsInv'
  BY <1>3, <1>6
  DEF connect_on_tcp, Join, join_nonce, join_key, join_lobby, join_fails, client_lobby_state,
      client_game_state, client_game_eof, brclient_send_msg, brclient_send_msg_udp,
      brclient_get_app_msg, Leave, netVars
<1> QED
  BY <1>1, <1>2, <1>4, <1>5, <1>6 DEF Next, ClientThread

LEMMA DownStep ==
  ASSUME SessionInv, FlowInv, CastsInv, DownInv, [Next]_vars
  PROVE  DownInv'
<1>1. CASE ServerThread
  BY <1>1, ServerQuiet, HandshakeQuiet, AddDown, StartDown, EndDown DEF ServerThread
<1>2. CASE \/ brserver_open \/ brserver_start \/ brserver_send_to_all \/ brserver_send_to_target
           \/ brserver_send_broadcast \/ brserver_get_app_msg \/ take_locked \/ brserver_end
           \/ exit_process
  BY <1>2, ServerQuiet
<1>3. CASE push_half
  BY <1>3, PushDown
<1>4. CASE LoseDatagram
  BY <1>4, ClientQuiet
<1>5. ASSUME NEW c \in Clients,
             \/ connect_on_tcp(c) \/ Join(c) \/ ClientThread(c) \/ brclient_send_msg(c)
             \/ brclient_send_msg_udp(c) \/ brclient_get_app_msg(c) \/ Leave(c)
      PROVE  DownInv'
  BY <1>5, HandshakeQuiet, ClientQuiet, LobbyDown, GameDown, CastDown, ShownDown
  DEF Join, ClientThread
<1>6. CASE UNCHANGED vars
  <2>1. UNCHANGED <<peer, down, client_messages, shown, pushed, refused, early, thread, app,
                    clients, state>>
    BY <1>6 DEF vars, serverVars, netVars, history
  <2>2. ASSUME NEW c \in Clients PROVE Down(c)'
    BY <2>1 DEF DownInv, Down
  <2> QED
    BY <2>1, <2>2 DEF DownInv
<1> QED
  BY <1>1, <1>2, <1>3, <1>4, <1>5, <1>6 DEF Next

LEMMA DownInit == Init => DownInv
<1> SUFFICES ASSUME Init PROVE DownInv
  OBVIOUS
<1>1. PICK q : q = Q!queue_init
  OBVIOUS
<1>2. Filled(q, Shows) /\ Held(q) = << >>
  <2>0. MaxSize \in Nat
    BY LinkAssumption
  <2>1. q.front = -1 /\ q.rear = 0 /\ DOMAIN q.items = 0..(MaxSize - 1)
    BY <1>1 DEF Q!queue_init
  <2>2. Filled(q, Shows)
    BY <2>0, <2>1 DEF Filled
  <2>3. Held(q) \in Seq(Shows) /\ Len(Held(q)) = 0
    BY <2>1, <2>2, FilledSeq
  <2> QED
    BY <2>2, <2>3, EmptySeq
<1>3. clients = << >> /\ app.at = "free"
  BY DEF Init, Idle
<1>4. ASSUME NEW c \in Clients PROVE Down(c)
  <2>1. client_messages[c] = q /\ shown[c] = << >> /\ pushed[c] = << >> /\ refused[c].down = 0
    BY <1>1 DEF Init
  <2>2. Stream(c, peer[c], down[c], q, << >>, << >>, 0, thread, app, clients)
    BY <1>2, <1>3 DEF Stream
  <2> QED
    BY <2>1, <2>2 DEF Down
<1>5. DOMAIN client_messages = Clients /\ DOMAIN shown = Clients /\ DOMAIN pushed = Clients
  BY DEF Init
<1> QED
  BY <1>3, <1>4, <1>5 DEF DownInv, Pushing

\* The streams to the clients (inductive invariant): a client on the list to whom
\* the application did not write too early is sent MSG_START before anything else, a
\* body follows its own head, and what it was shown, has queued and has coming by
\* TCP is what was pushed to it
THEOREM DownKept == Spec => [](SessionInv /\ DownInv)
<1>1. SessionInv /\ FlowInv /\ CastsInv /\ DownInv /\ [Next]_vars => DownInv'
  BY DownStep
<1>2. SessionInv /\ CastsInv /\ [Next]_vars => CastsInv'
  BY CastsStep
<1>3. Init => CastsInv
  BY DEF Init, CastsInv
<1> QED
  BY <1>1, <1>2, <1>3, DownInit, FlowKept, PTL DEF Spec

\* A client not on the list has only the handshake coming
LEMMA HandshakeNoPushes ==
  ASSUME NEW d \in Seq(HandshakeDown)
  PROVE  Pushes(d) = << >>
<1>1. Len(d) \in Nat /\ \A k \in 1..Len(d) : d[k] \in HandshakeDown
  BY ElementOfSeq
<1>2. \A k \in 1..Len(d) : ~IsApp(d[k])
  BY <1>1, HandshakeDownFacts DEF IsApp
<1> QED
  BY <1>1, <1>2, PushesNone

\* What the server's application sends by TCP reaches a client's in order and, unless
\* its queue refused some, completely, provided the first of it was written after
\* MSG_START: whoever joins meanwhile, and whatever datagrams come between, the two
\* threads that write to a socket never mix their frames, and nothing is thrown away
\* in the client's lobby (server.c:329-334, client.c:108-119)
THEOREM PushesArrive == Spec => []DownInOrder
<1>1. SessionInv /\ DownInv => DownInOrder
  <2> SUFFICES ASSUME SessionInv, DownInv, NEW c \in Clients, c \notin early, Running(c),
                      peer[c].state # "END", refused[c].down = 0
               PROVE  ByTcp(shown[c] \o Held(client_messages[c])) \o Pushes(down[c]) = pushed[c]
    BY DEF DownInOrder, Attentive, Arriving
  <2>1. Stream(c, peer[c], down[c], client_messages[c], shown[c], pushed[c], refused[c].down,
               thread, app, clients)
    BY DownOf DEF Running
  <2>2. CASE c \in Who(clients)
    <3>1. PICK j \in 1..Len(clients) : clients[j].who = c
      BY <2>2 DEF Who
    <3>2. Books(peer[c].sesskey, peer[c].state, down[c], client_messages[c], shown[c], pushed[c],
                refused[c].down)
      BY <2>1, <3>1 DEF Stream
    <3> QED
      BY <3>2 DEF Books
  <2>3. CASE c \notin Who(clients)
    <3>1. Held(client_messages[c]) = << >> /\ shown[c] = << >> /\ pushed[c] = << >>
      BY <2>1, <2>3 DEF Stream
    <3>2. down[c] \in Seq(HandshakeDown)
      BY <2>3, PeerOf DEF Stage
    <3>3. Pushes(down[c]) = << >>
      BY <3>2, HandshakeNoPushes
    <3>4. << >> \o << >> = << >>
      OBVIOUS
    <3> QED
      BY <3>1, <3>3, <3>4, ByTcpNone
  <2> QED
    BY <2>2, <2>3
<1> QED
  BY <1>1, DownKept, PTL

=============================================================================
