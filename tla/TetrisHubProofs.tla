-------------------------- MODULE TetrisHubProofs --------------------------
(***************************************************************************)
(* Proofs about TetrisHub for any number of clients, rooms and faults:     *)
(* types, one outcome for a match, rosters that are current, the life of a *)
(* room, attacks that land once, ids that are unique, and eliminations     *)
(* that are true and arrive.                                               *)
(***************************************************************************)
EXTENDS TetrisHub, FiniteSetTheorems, SequenceTheorems, WellFoundedInduction,
        TLAPS

-----------------------------------------------------------------------------
(* Minima and maxima *)

\* Least picks the smallest of any non-empty set of naturals, as the loops over
\* slots and over the player table do
LEMMA LeastProperties ==
  ASSUME NEW S, S \subseteq Nat, S # {}
  PROVE  Least(S) \in S /\ \A y \in S : Least(S) <= y
<1> DEFINE T == {0..x : x \in S}
<1>1. \A x \in S : 0..x \in FiniteSubsetsOf(Nat)
  BY FS_Interval DEF FiniteSubsetsOf
<1>2. PICK A \in T : \A B \in T : ~(<<B, A>> \in StrictSubsetOrdering(Nat))
  <2>1. T \subseteq FiniteSubsetsOf(Nat) /\ T # {}
    BY <1>1
  <2> QED
    BY <2>1, FS_StrictSubsetOrderingWellFounded, WFMin
<1>3. PICK x \in S : A = 0..x
  OBVIOUS
<1>4. ASSUME NEW y \in S PROVE x <= y
  <2>1. SUFFICES ASSUME y < x PROVE FALSE
    OBVIOUS
  <2>2. 0..y \subseteq 0..x /\ x \in 0..x /\ x \notin 0..y
    BY <2>1
  <2>3. <<0..y, 0..x>> \in StrictSubsetOrdering(Nat)
    BY <2>2 DEF StrictSubsetOrdering
  <2> QED
    BY <1>2, <1>3, <2>3
<1> QED
  BY <1>4 DEF Least

\* A non-empty set of positions of a finite sequence has a last one
LEMMA LastExists ==
  ASSUME NEW n \in Nat, NEW I, I \subseteq 1..n, I # {}
  PROVE  \E i \in I : \A j \in I : j <= i
<1> DEFINE D == {n - i : i \in I}
<1>1. D \subseteq Nat /\ D # {}
  <2>1. \A i \in I : n - i \in Nat
    OBVIOUS
  <2> QED
    BY <2>1
<1>2. Least(D) \in D /\ \A y \in D : Least(D) <= y
  BY <1>1, LeastProperties
<1>3. PICK i \in I : Least(D) = n - i
  BY <1>2
<1>4. \A j \in I : n - i <= n - j
  BY <1>2, <1>3
<1> QED
  BY <1>4

LEMMA SlotsFinite == Slots \subseteq Nat /\ IsFiniteSet(Slots)
<1>1. MaxRooms - 1 \in Int
  BY HubAssumption
<1> QED
  BY <1>1, FS_Interval DEF Slots

LEMMA LeastSlot ==
  ASSUME NEW S, S \subseteq Slots, S # {}
  PROVE  Least(S) \in S
  BY SlotsFinite, LeastProperties

-----------------------------------------------------------------------------
(* Types of the operators the handlers are built from *)

M2W == [Slots -> Seq(ToWorker)]
W2M == [Slots -> Seq(ToMaster)]

\* What the master puts on a hub is a HubMsg of the right union member
LEMMA MsgTypes ==
  /\ \A n \in Nat : Msg("START", n) \in ToWorker /\ Msg("GAMEOVER", n) \in ToWorker
  /\ \A r \in Seq(RosterEntry) : Msg("ROSTER", r) \in ToWorker
  /\ \A a \in Attack : Msg("GARBAGE", a) \in ToWorker /\ Msg("FEED", a) \in ToWorker
  /\ \A n \in Nat : /\ Msg("READY", n) \in ToMaster
                    /\ Msg("JOINED", n) \in ToMaster
                    /\ Msg("ELIMINATED", n) \in ToMaster
  /\ \A a \in Attack : Msg("ATTACK", a) \in ToMaster /\ Msg("FEED", a) \in ToMaster
  BY DEF Msg, ToWorker, ToMaster

\* A message is read back as the union member its type announces
LEMMA BodyTypes ==
  /\ \A m \in ToWorker :
       /\ m.type \in {"START", "GAMEOVER"} => m.body \in Nat
       /\ m.type = "ROSTER" => m.body \in Seq(RosterEntry)
       /\ m.type \in {"GARBAGE", "FEED"} => m.body \in Attack
  /\ \A m \in ToMaster :
       /\ m.type \in {"READY", "JOINED", "ELIMINATED"} => m.body \in Nat
       /\ m.type \in {"ATTACK", "FEED"} => m.body \in Attack
  BY DEF ToWorker, ToMaster

LEMMA HubSendType ==
  ASSUME NEW q \in M2W, NEW S, NEW msg \in ToWorker
  PROVE  HubSend(q, S, msg) \in M2W
  BY DEF HubSend, M2W

LEMMA ReportType ==
  ASSUME w2m \in W2M, NEW s \in Slots, NEW msgs \in Seq(ToMaster), Report(s, msgs)
  PROVE  w2m' \in W2M
  BY DEF Report, W2M

\* The fields of an entry of the player table
LEMMA EntryTypes ==
  ASSUME NEW ps \in Seq(PlayerRec)
  PROVE  /\ DOMAIN ps = 1..Len(ps)
         /\ \A i \in DOMAIN ps :
              /\ ps[i].id \in Nat
              /\ ps[i].room \in Slots
              /\ ps[i].alive \in BOOLEAN
              /\ [ps[i] EXCEPT !.alive = FALSE] \in PlayerRec
<1>1. DOMAIN ps = 1..Len(ps) /\ \A i \in DOMAIN ps : ps[i] \in PlayerRec
  OBVIOUS
<1>2. \A r \in PlayerRec : /\ r.id \in Nat
                           /\ r.room \in Slots
                           /\ r.alive \in BOOLEAN
                           /\ [r EXCEPT !.alive = FALSE] \in PlayerRec
  BY DEF PlayerRec
<1> QED
  BY <1>1, <1>2

LEMMA RosterType ==
  ASSUME NEW ps \in Seq(PlayerRec)
  PROVE  Roster(ps) \in Seq(RosterEntry)
<1>1. \A i \in 1..Len(ps) : [id |-> ps[i].id, alive |-> ps[i].alive] \in RosterEntry
  BY EntryTypes DEF RosterEntry
<1> QED
  BY <1>1 DEF Roster

LEMMA CountOutType ==
  ASSUME NEW ps \in Seq(PlayerRec), NEW D
  PROVE  CountOut(ps, D) \in Seq(PlayerRec) /\ Len(CountOut(ps, D)) = Len(ps)
<1>1. \A i \in 1..Len(ps) : CountOut(ps, D)[i] \in PlayerRec
  BY EntryTypes DEF CountOut
<1>2. DOMAIN CountOut(ps, D) = 1..Len(ps)
  BY EntryTypes DEF CountOut
<1>3. CountOut(ps, D) = [i \in 1..Len(ps) |-> CountOut(ps, D)[i]]
  BY <1>2 DEF CountOut
<1> QED
  BY <1>1, <1>3

LEMMA BroadcastType ==
  ASSUME NEW q \in M2W, NEW rs, NEW ps \in Seq(PlayerRec)
  PROVE  broadcast_roster(q, rs, ps) \in M2W
  BY RosterType, MsgTypes, HubSendType DEF broadcast_roster

LEMMA StandingType ==
  ASSUME NEW ps \in Seq(PlayerRec)
  PROVE  Standing(ps) \in Nat
<1>1. CASE Cardinality(AliveAt(ps)) = 1
  <2>1. IsFiniteSet(AliveAt(ps))
    BY FS_Interval, FS_Subset DEF AliveAt
  <2>2. AliveAt(ps) # {}
    BY <1>1, <2>1, FS_EmptySet
  <2>3. \A i \in AliveAt(ps) : ps[i].id \in Nat
    BY EntryTypes DEF AliveAt
  <2> QED
    BY <1>1, <2>2, <2>3 DEF Standing
<1> QED
  BY <1>1 DEF Standing

LEMMA CheckGlobalEndType ==
  ASSUME NEW q \in M2W, NEW rs, NEW ps \in Seq(PlayerRec),
         match_ended \in BOOLEAN, winner_id \in Nat,
         check_global_end(q, rs, ps)
  PROVE  m2w' \in M2W /\ match_ended' \in BOOLEAN /\ winner_id' \in Nat
  BY StandingType, MsgTypes, HubSendType DEF check_global_end

LEMMA CopiesType ==
  ASSUME NEW S, NEW n \in Nat, NEW m \in S
  PROVE  Copies(n, m) \in Seq(S)
  BY DEF Copies

LEMMA SlotsCardinality ==
  ASSUME NEW E, E \subseteq Slots
  PROVE  Cardinality(E) \in Nat
  BY SlotsFinite, FS_Subset, FS_CardinalityType

LEMMA StartAllType ==
  ASSUME NEW q \in M2W, NEW rs \in [Slots -> RoomRec], NEW ps \in Seq(PlayerRec),
         any_room_started \in BOOLEAN,
         start_all_rooms(q, rs, ps)
  PROVE  /\ rooms' \in [Slots -> RoomRec]
         /\ any_room_started' \in BOOLEAN
         /\ m2w' \in M2W
<1> DEFINE E == Startable(rs)
           R == Msg("ROSTER", Roster(ps))
<1>1. E \subseteq Slots
  BY DEF Startable
<1>2. R \in ToWorker
  BY RosterType, MsgTypes
<1>3. Copies(Cardinality(E), R) \in Seq(ToWorker)
  BY <1>1, <1>2, SlotsCardinality, CopiesType
<1>4. \A s \in Slots : Copies(Cardinality({e \in E : e >= s}), R) \in Seq(ToWorker)
  <2> SUFFICES ASSUME NEW s \in Slots
               PROVE  Copies(Cardinality({e \in E : e >= s}), R) \in Seq(ToWorker)
    OBVIOUS
  <2>1. Cardinality({e \in E : e >= s}) \in Nat
    BY <1>1, SlotsCardinality
  <2> QED
    BY <2>1, <1>2, CopiesType
<1>5. \A s \in Slots : <<Msg("START", rs[s].redirected)>> \in Seq(ToWorker)
  BY MsgTypes DEF RoomRec
<1>6. m2w' \in M2W
  BY <1>3, <1>4, <1>5 DEF start_all_rooms, M2W
<1>7. rooms' \in [Slots -> RoomRec]
  BY DEF start_all_rooms, RoomRec
<1> QED
  BY <1>6, <1>7 DEF start_all_rooms

\* What a worker keeps of the last message of a type is the body of a message
\* it received, or what it had before
LEMMA LastOfCases ==
  ASSUME NEW q \in Seq(ToWorker), NEW t, NEW default
  PROVE  \/ LastOf(q, t, default) = default
         \/ \E i \in OfType(q, t) : LastOf(q, t, default) = q[i].body
<1>1. CASE OfType(q, t) # {}
  <2>1. \E i \in OfType(q, t) : \A j \in OfType(q, t) : j <= i
    <3>1. OfType(q, t) \subseteq 1..Len(q) /\ Len(q) \in Nat
      BY DEF OfType
    <3> QED
      BY <1>1, <3>1, LastExists
  <2> QED
    BY <2>1 DEF LastOf
<1> QED
  BY <1>1 DEF LastOf

LEMMA LastOfTypes ==
  ASSUME NEW q \in Seq(ToWorker)
  PROVE  /\ \A d \in Nat : /\ LastOf(q, "START", d) \in Nat
                           /\ LastOf(q, "GAMEOVER", d) \in Nat
         /\ \A r \in Seq(RosterEntry) : LastOf(q, "ROSTER", r) \in Seq(RosterEntry)
<1>1. \A i \in DOMAIN q : q[i] \in ToWorker
  OBVIOUS
<1> QED
  BY <1>1, LastOfCases, BodyTypes DEF OfType

\* What a pass through the lobby makes of the hub is a lobby record again
LEMMA DrainedType ==
  ASSUME TypeOK, NEW s \in Slots
  PROVE  /\ Drained(s) \in LobbyRec
         /\ Drained(s).size = lobby[s].size
         /\ LastOf(m2w[s], "ROSTER", global[s]) \in Seq(RosterEntry)
<1>1. /\ lobby[s] \in LobbyRec
      /\ m2w[s] \in Seq(ToWorker)
      /\ global[s] \in Seq(RosterEntry)
  BY DEF TypeOK
<1>2. LastOf(m2w[s], "START", lobby[s].expected) \in Nat
  BY <1>1, LastOfTypes DEF LobbyRec
<1>3. (lobby[s].start_ordered \/ OfType(m2w[s], "START") # {}) \in BOOLEAN
  BY <1>1 DEF LobbyRec
<1>4. Drained(s) \in LobbyRec /\ Drained(s).size = lobby[s].size
  BY <1>1, <1>2, <1>3 DEF Drained, LobbyRec
<1> QED
  BY <1>1, <1>4, LastOfTypes

LEMMA ClearType ==
  ASSUME NEW S, NEW q \in [Slots -> Seq(S)], NEW s
  PROVE  [q EXCEPT ![s] = <<>>] \in [Slots -> Seq(S)]
<1>1. <<>> \in Seq(S)
  OBVIOUS
<1> QED
  BY <1>1

\* Draining the hub in a tick keeps boards, kill feed and roster well typed
LEMMA DrainHubType ==
  ASSUME TypeOK, NEW s \in Slots, NEW ss, NEW shown, NEW hit,
         DrainHub(s, ss, shown, hit)
  PROVE  /\ feed' \in [Slots -> [1..MaxAttacks -> Nat]]
         /\ hits' \in [Slots -> [1..MaxAttacks -> Nat]]
         /\ global' \in [Slots -> Seq(RosterEntry)]
         /\ m2w' \in M2W
<1>1. m2w[s] \in Seq(ToWorker)
  BY DEF TypeOK
<1>2. \A n \in 1..MaxAttacks :
        /\ Cardinality(HubHits(s, ss, n)) \in Nat
        /\ Cardinality(HubHits(s, ss, n) \cup FromHub(s, "FEED", n)) \in Nat
  <2> SUFFICES ASSUME NEW n \in 1..MaxAttacks
               PROVE  /\ Cardinality(HubHits(s, ss, n)) \in Nat
                      /\ Cardinality(HubHits(s, ss, n) \cup FromHub(s, "FEED", n)) \in Nat
    OBVIOUS
  <2>1. /\ HubHits(s, ss, n) \subseteq 1..Len(m2w[s])
        /\ FromHub(s, "FEED", n) \subseteq 1..Len(m2w[s])
    BY <1>1 DEF HubHits, FromHub, OfType
  <2>2. IsFiniteSet(1..Len(m2w[s]))
    BY <1>1, FS_Interval
  <2>3. \A S : S \subseteq 1..Len(m2w[s]) => Cardinality(S) \in Nat
    BY <2>2, FS_Subset, FS_CardinalityType
  <2> QED
    BY <2>1, <2>3
<1>3. feed' \in [Slots -> [1..MaxAttacks -> Nat]]
  <2>1. /\ feed \in [Slots -> [1..MaxAttacks -> Nat]]
        /\ DOMAIN feed[s] = 1..MaxAttacks
        /\ \A n \in 1..MaxAttacks : feed[s][n] \in Nat
    BY ZenonT(40) DEF TypeOK
  <2>a. \A n \in 1..MaxAttacks :
          feed[s][n] + Cardinality(HubHits(s, ss, n) \cup FromHub(s, "FEED", n))
                     + (IF n \in shown THEN 1 ELSE 0) \in Nat
    BY <1>2, <2>1
  <2>2. [n \in DOMAIN feed[s] |->
           feed[s][n] + Cardinality(HubHits(s, ss, n) \cup FromHub(s, "FEED", n))
                      + (IF n \in shown THEN 1 ELSE 0)] \in [1..MaxAttacks -> Nat]
    BY <2>1, <2>a
  <2> QED
    BY <2>1, <2>2 DEF DrainHub
<1>4. hits' \in [Slots -> [1..MaxAttacks -> Nat]]
  <2>1. /\ hits \in [Slots -> [1..MaxAttacks -> Nat]]
        /\ DOMAIN hits[s] = 1..MaxAttacks
        /\ \A n \in 1..MaxAttacks : hits[s][n] \in Nat
    BY DEF TypeOK
  <2>a. \A n \in 1..MaxAttacks :
          hits[s][n] + Cardinality(HubHits(s, ss, n))
                     + (IF n \in hit THEN 1 ELSE 0) \in Nat
    <3>1. \A n \in 1..MaxAttacks : Cardinality(HubHits(s, ss, n)) \in Nat
      BY <1>2
    <3> QED
      BY <2>1, <3>1
  <2>2. [n \in DOMAIN hits[s] |->
           hits[s][n] + Cardinality(HubHits(s, ss, n))
                      + (IF n \in hit THEN 1 ELSE 0)] \in [1..MaxAttacks -> Nat]
    BY <2>1, <2>a
  <2> QED
    BY <2>1, <2>2 DEF DrainHub
<1>5. global' \in [Slots -> Seq(RosterEntry)]
  <2>1. LastOf(m2w[s], "ROSTER", global[s]) \in Seq(RosterEntry)
    BY DrainedType
  <2>2. global \in [Slots -> Seq(RosterEntry)]
    BY DEF TypeOK
  <2> QED
    BY <2>1, <2>2 DEF DrainHub
<1>6. m2w' \in M2W
  <2>1. m2w \in M2W
    BY DEF TypeOK, M2W
  <2> QED
    BY <2>1 DEF DrainHub, M2W
<1> QED
  BY <1>3, <1>4, <1>5, <1>6

\* People whose connections change hands stay well typed
LEMMA HungUpType ==
  ASSUME client \in [Clients -> ClientRec], NEW s \in Slots
  PROVE  HungUp(s) \in [Clients -> ClientRec]
<1> SUFFICES ASSUME NEW c \in Clients PROVE HungUp(s)[c] \in ClientRec
  BY DEF HungUp
<1>1. client[c] \in ClientRec
  OBVIOUS
<1> DEFINE pc2 == IF client[c].pc = "abandoned" /\ client[c].held = {s}
                  THEN "closed" ELSE client[c].pc
<1>2. [client[c] EXCEPT !.held = client[c].held \ {s}, !.pc = pc2] \in ClientRec
  BY <1>1 DEF ClientRec
<1> QED
  BY <1>1, <1>2 DEF HungUp

LEMMA VanishType ==
  ASSUME TypeOK, NEW s \in Slots, Vanish(s)
  PROVE  /\ wpc' \in [Slots -> WorkerPc]
         /\ m2w' \in M2W
         /\ w2m' \in W2M
         /\ next_id' \in [Slots -> Nat]
         /\ handshake' \in [Slots -> Nat]
         /\ conn' \in [Slots -> Seq(Nat)]
         /\ lobby' \in [Slots -> LobbyRec]
         /\ global' \in [Slots -> Seq(RosterEntry)]
         /\ session' \in [Slots -> Seq(PlayerSlot)]
         /\ outcome' \in [Slots -> Nat]
         /\ client' \in [Clients -> ClientRec]
         /\ feed' = feed /\ hits' = hits
<1>1. FreshLobby \in LobbyRec /\ "gone" \in WorkerPc
  BY DEF FreshLobby, LobbyRec, WorkerPc
<1>2. m2w' \in M2W /\ w2m' \in W2M
  <2>1. m2w \in M2W /\ w2m \in W2M
    BY DEF TypeOK, M2W, W2M
  <2>2. w2m' = w2m \/ w2m' = [w2m EXCEPT ![s] = <<>>]
    BY DEF Vanish
  <2>3. m2w' = [m2w EXCEPT ![s] = <<>>]
    BY DEF Vanish
  <2>4. <<>> \in Seq(ToWorker) /\ <<>> \in Seq(ToMaster)
    OBVIOUS
  <2>5. m2w' \in M2W
    BY <2>1, <2>3, <2>4 DEF M2W
  <2>6. w2m' \in W2M
    BY <2>1, <2>2, <2>4 DEF W2M
  <2> QED
    BY <2>5, <2>6
<1>3. /\ wpc' \in [Slots -> WorkerPc]
      /\ next_id' \in [Slots -> Nat]
      /\ handshake' \in [Slots -> Nat]
      /\ conn' \in [Slots -> Seq(Nat)]
  BY <1>1 DEF Vanish, TypeOK
<1>4. /\ lobby' \in [Slots -> LobbyRec]
      /\ global' \in [Slots -> Seq(RosterEntry)]
      /\ session' \in [Slots -> Seq(PlayerSlot)]
      /\ outcome' \in [Slots -> Nat]
      /\ feed' = feed /\ hits' = hits
  BY <1>1 DEF Vanish, TypeOK
<1>5. client' \in [Clients -> ClientRec]
  BY HungUpType DEF Vanish, TypeOK
<1> QED
  BY <1>2, <1>3, <1>4, <1>5

LEMMA CloseRoomType ==
  ASSUME TypeOK, NEW s \in Slots, CloseRoom(s)
  PROVE  /\ rooms' \in [Slots -> RoomRec]
         /\ players' \in Seq(PlayerRec)
         /\ Len(players') <= HubMaxPlayers
         /\ client' \in [Clients -> ClientRec]
         /\ m2w' \in M2W
         /\ match_ended' \in BOOLEAN
         /\ winner_id' \in Nat
<1> DEFINE rs == [rooms EXCEPT ![s].used = FALSE]
           ps == CountOut(players, LostWith(s))
<1>1. rooms' \in [Slots -> RoomRec]
  BY DEF CloseRoom, TypeOK, RoomRec
<1>2. client' \in [Clients -> ClientRec]
  BY ZenonT(40) DEF CloseRoom, TypeOK, ClientRec
<1>3. ps \in Seq(PlayerRec) /\ Len(ps) = Len(players)
  BY CountOutType DEF TypeOK
<1>4. CASE match_ended \/ LostWith(s) = {}
  BY <1>1, <1>2, <1>4 DEF CloseRoom, TypeOK, M2W
<1>5. CASE ~(match_ended \/ LostWith(s) = {})
  <2>1. broadcast_roster(m2w, rs, ps) \in M2W
    BY <1>3, BroadcastType DEF TypeOK, M2W
  <2>2. /\ players' = ps
        /\ check_global_end(broadcast_roster(m2w, rs, ps), rs, ps)
    BY <1>5 DEF CloseRoom
  <2>3. m2w' \in M2W /\ match_ended' \in BOOLEAN /\ winner_id' \in Nat
    BY <1>3, <2>1, <2>2, CheckGlobalEndType DEF TypeOK
  <2> QED
    BY <1>1, <1>2, <1>3, <2>2, <2>3 DEF TypeOK
<1> QED
  BY <1>4, <1>5

-----------------------------------------------------------------------------
(* Type correctness.  TypeOK is not inductive: lobby_start reads conn[s][i]  *)
(* for i up to the size the lobby remembered in the first half of its pass,  *)
(* so the remembered size must not exceed the client list.                   *)

LobbyWithinList == \A s \in Slots : lobby[s].size <= Len(conn[s])

TypeInd == TypeOK /\ LobbyWithinList

\* The handlers of the public port, the operator and Ctrl-C keep the types
LEMMA TypeFrontDoor ==
  ASSUME TypeInd,
         \/ \E c \in Clients : \/ accept_client(c)
                               \/ accept_spawn(c)
                               \/ accept_refuse(c)
                               \/ connect_refused(c)
         \/ press_enter
         \/ on_sigint
         \/ loop_exit
         \/ shutdown
  PROVE  TypeInd'
<1> USE DEF TypeInd, LobbyWithinList
<1>1. ASSUME NEW c \in Clients, accept_client(c) PROVE TypeInd'
  <2> DEFINE s == Least(Filling)
  <2>1. s \in Slots
    BY <1>1, LeastSlot DEF accept_client, Filling
  <2>2. [pc |-> IF rooms[s].ready THEN "redirected" ELSE "parked",
         slot |-> s, id |-> 0, held |-> {}] \in ClientRec
    BY <2>1 DEF ClientRec
  <2>3. client' \in [Clients -> ClientRec]
    BY <1>1, <2>2 DEF accept_client, TypeOK
  <2>4. rooms' \in [Slots -> RoomRec]
    <3>0. Filling # {} /\ Filling \subseteq Slots
      BY <1>1 DEF accept_client, Filling
    <3>1. rooms[s] \in RoomRec /\ s \in Filling
      <4>1. s \in Filling
        BY <3>0, LeastSlot
      <4> QED
        BY <2>1, <4>1 DEF TypeOK
    <3>2. [rooms[s] EXCEPT !.redirected = @ + 1] \in RoomRec
      <4>1. /\ rooms[s].redirected \in 0..MaxLobby /\ rooms[s].redirected < RoomSize
            /\ RoomSize \in 1..MaxLobby /\ MaxLobby \in Nat
        BY <3>1, HubAssumption DEF RoomRec, Filling
      <4>2. rooms[s].redirected + 1 \in 0..MaxLobby
        BY <4>1
      <4> QED
        BY <3>1, <4>2 DEF RoomRec
    <3>3. rooms' = [rooms EXCEPT ![s] = [rooms[s] EXCEPT !.redirected = @ + 1]]
      BY <1>1 DEF accept_client
    <3> QED
      BY <3>2, <3>3 DEF TypeOK
  <2> QED
    BY <1>1, <2>3, <2>4 DEF accept_client, TypeOK, workerVars, serverVars, gameVars
<1>2. ASSUME NEW c \in Clients, accept_spawn(c) PROVE TypeInd'
  <2> DEFINE s == Least(Slots \ Used(rooms))
  <2>1. s \in Slots
    BY <1>2, LeastSlot DEF accept_spawn
  <2>2. client' \in [Clients -> ClientRec]
    <3>1. [pc |-> "parked", slot |-> s, id |-> 0, held |-> {s}] \in ClientRec
      BY <2>1 DEF ClientRec
    <3>2. \A d \in Clients : /\ client[d] \in ClientRec
                             /\ [client[d] EXCEPT !.held = @ \cup {s}] \in ClientRec
      BY <2>1 DEF TypeOK, ClientRec
    <3>3. client' = [d \in Clients |->
             IF d = c
             THEN [pc |-> "parked", slot |-> s, id |-> 0, held |-> {s}]
             ELSE IF client[d].pc = "parked"
             THEN [client[d] EXCEPT !.held = @ \cup {s}]
             ELSE client[d]]
      BY <1>2 DEF accept_spawn
    <3> QED
      BY <3>1, <3>2, <3>3
  <2>3. rooms' \in [Slots -> RoomRec]
    <3>1. 1 \in 0..MaxLobby
      BY HubAssumption
    <3>2. [NoRoom EXCEPT !.used = TRUE, !.redirected = 1] \in RoomRec
      BY <3>1 DEF RoomRec, NoRoom
    <3> QED
      BY <1>2, <2>1, <3>2 DEF accept_spawn, TypeOK
  <2>4. IdBase(room_seq) \in Nat /\ room_seq' \in Nat
    <3>1. room_seq \in Nat /\ MaxLobby \in Nat
      BY HubAssumption DEF TypeOK
    <3>2. room_seq * MaxLobby \in Nat
      BY <3>1
    <3> QED
      BY <1>2, <3>1, <3>2 DEF accept_spawn, IdBase
  <2>5. next_id' \in [Slots -> Nat] /\ wpc' \in [Slots -> WorkerPc]
    BY <1>2, <2>4 DEF accept_spawn, TypeOK, WorkerPc
  <2>6. FreshLobby \in LobbyRec /\ FreshLobby.size = 0
    BY DEF FreshLobby, LobbyRec
  <2>7. lobby' = [lobby EXCEPT ![s] = FreshLobby] /\ conn' = conn
    BY <1>2 DEF accept_spawn
  <2>8. lobby' \in [Slots -> LobbyRec] /\ LobbyWithinList'
    BY <2>1, <2>6, <2>7 DEF TypeOK, LobbyRec
  <2>9. m2w' \in M2W /\ w2m' \in W2M
    BY <1>2, ClearType DEF accept_spawn, TypeOK, M2W, W2M
  <2> QED
    BY <1>2, <2>2, <2>3, <2>4, <2>5, <2>8, <2>9
    DEF accept_spawn, TypeOK, M2W, W2M, gameVars
<1>3. ASSUME NEW c \in Clients, accept_refuse(c) PROVE TypeInd'
  <2>1. client' \in [Clients -> ClientRec]
    BY <1>3 DEF accept_refuse, TypeOK, ClientRec
  <2> QED
    BY <1>3, <2>1
    DEF accept_refuse, TypeOK, masterVars, workerVars, serverVars, gameVars
<1>4. ASSUME NEW c \in Clients, connect_refused(c) PROVE TypeInd'
  <2>1. client' \in [Clients -> ClientRec]
    BY <1>4 DEF connect_refused, TypeOK, ClientRec
  <2> QED
    BY <1>4, <2>1
    DEF connect_refused, TypeOK, masterVars, workerVars, serverVars, gameVars
<1>5. CASE press_enter
  <2>1. /\ rooms' \in [Slots -> RoomRec]
        /\ any_room_started' \in BOOLEAN
        /\ m2w' \in M2W
    BY <1>5, StartAllType DEF press_enter, TypeOK, M2W
  <2> QED
    BY <1>5, <2>1
    DEF press_enter, TypeOK, M2W, workerVars, serverVars, gameVars, envVars
<1>6. CASE on_sigint
  BY <1>6 DEF on_sigint, TypeOK, workerVars, serverVars, gameVars, envVars
<1>7. CASE loop_exit
  BY <1>7 DEF loop_exit, TypeOK, workerVars, serverVars, gameVars, envVars
<1>8. CASE shutdown
  <2>1. CASE Used(rooms) = {}
    BY <1>8, <2>1 DEF shutdown, TypeOK, workerVars, serverVars, gameVars, envVars
  <2>2. CASE Used(rooms) # {}
    <3> DEFINE s == Least(Used(rooms))
    <3>1. s \in Slots
      BY <2>2, LeastSlot DEF Used
    <3>2. CloseRoom(s) /\ UNCHANGED <<master, w2m, workerVars>>
      BY <1>8, <2>2 DEF shutdown
    <3> HIDE DEF s
    <3>3. /\ rooms' \in [Slots -> RoomRec]
          /\ players' \in Seq(PlayerRec)
          /\ Len(players') <= HubMaxPlayers
          /\ client' \in [Clients -> ClientRec]
          /\ m2w' \in M2W
          /\ match_ended' \in BOOLEAN
          /\ winner_id' \in Nat
      BY <3>1, <3>2, CloseRoomType
    <3>4. UNCHANGED <<room_seq, any_room_started, faults, attacks>>
      BY <3>2 DEF CloseRoom
    <3> QED
      BY <3>2, <3>3, <3>4 DEF TypeOK, M2W, workerVars, serverVars, gameVars
  <2> QED
    BY <2>1, <2>2
<1> QED
  BY <1>1, <1>2, <1>3, <1>4, <1>5, <1>6, <1>7, <1>8

LEMMA IncomingType ==
  ASSUME TypeOK, NEW s \in Slots, NEW t, Incoming(s, t)
  PROVE  Head(w2m[s]) \in ToMaster /\ Head(w2m[s]).type = t /\ w2m' \in W2M
<1>1. w2m[s] \in Seq(ToMaster) /\ w2m[s] # <<>>
  BY DEF Incoming, TypeOK
<1>2. Head(w2m[s]) \in ToMaster /\ Tail(w2m[s]) \in Seq(ToMaster)
  BY <1>1, HeadTailProperties
<1> QED
  BY <1>2 DEF Incoming, TypeOK, W2M

\* The master's handling of a hub message, and of the end of a hub
LEMMA TypeMaster ==
  ASSUME TypeInd, NEW s \in Slots, MasterHandles(s)
  PROVE  TypeInd'
<1> USE DEF TypeInd, LobbyWithinList
<1>1. CASE handle_ready(s)
  <2>1. rooms' \in [Slots -> RoomRec] /\ client' \in [Clients -> ClientRec]
    <3>1. rooms' \in [Slots -> RoomRec]
      BY <1>1 DEF handle_ready, TypeOK, RoomRec
    <3>2. \A c \in Clients :
            /\ client[c] \in ClientRec
            /\ [client[c] EXCEPT !.pc = "redirected", !.held = {}] \in ClientRec
      BY DEF TypeOK, ClientRec
    <3>3. client' \in [Clients -> ClientRec]
      BY <1>1, <3>2 DEF handle_ready
    <3> QED
      BY <3>1, <3>3
  <2>2. w2m' \in W2M
    BY <1>1, IncomingType DEF handle_ready
  <2> QED
    BY <1>1, <2>1, <2>2
    DEF handle_ready, TypeOK, W2M, workerVars, serverVars, gameVars
<1>2. CASE handle_joined(s)
  <2> DEFINE rec == [id |-> Head(w2m[s]).body, room |-> s, alive |-> TRUE]
             ps == add_player(players, rec)
             rs == [rooms EXCEPT ![s].joined = @ + 1]
             q  == broadcast_roster(m2w, rs, ps)
  <2>1. w2m' \in W2M /\ rec \in PlayerRec
    BY <1>2, IncomingType, BodyTypes DEF handle_joined, PlayerRec
  <2>2. ps \in Seq(PlayerRec) /\ Len(ps) <= HubMaxPlayers
    <3>1. players \in Seq(PlayerRec) /\ Len(players) <= HubMaxPlayers
      BY DEF TypeOK
    <3>2. HubMaxPlayers \in Nat
      BY HubAssumption DEF HubMaxPlayers
    <3> HIDE DEF rec
    <3> QED
      BY <2>1, <3>1, <3>2 DEF add_player
  <2>3. rs \in [Slots -> RoomRec]
    <3>1. rooms[s] \in RoomRec
      BY DEF TypeOK
    <3>2. [rooms[s] EXCEPT !.joined = @ + 1] \in RoomRec
      BY <3>1 DEF RoomRec
    <3>3. rs = [rooms EXCEPT ![s] = [rooms[s] EXCEPT !.joined = @ + 1]]
      OBVIOUS
    <3> QED
      BY <3>2, <3>3 DEF TypeOK
  <2>4. q \in M2W
    BY <2>2, BroadcastType DEF TypeOK, M2W
  <2>5. players' = ps
    BY <1>2 DEF handle_joined
  <2>6. \/ start_all_rooms(q, rs, ps)
        \/ rooms' = rs /\ m2w' = q /\ UNCHANGED any_room_started
    BY <1>2 DEF handle_joined
  <2> HIDE DEF q, rs, ps
  <2>7. /\ rooms' \in [Slots -> RoomRec]
        /\ any_room_started' \in BOOLEAN
        /\ m2w' \in M2W
    BY <2>2, <2>3, <2>4, <2>6, StartAllType DEF TypeOK
  <2>8. UNCHANGED <<room_seq, match_ended, winner_id, master, workerVars, envVars>>
    BY <1>2 DEF handle_joined
  <2> QED
    BY <2>1, <2>2, <2>5, <2>7, <2>8
    DEF TypeOK, M2W, W2M, workerVars, serverVars, gameVars, envVars
<1>3. CASE handle_eliminated(s)
  <2> DEFINE ps == CountOut(players, Entries(players, Head(w2m[s]).body))
             q  == broadcast_roster(m2w, rooms, ps)
  <2>1. w2m' \in W2M
    BY <1>3, IncomingType DEF handle_eliminated
  <2>2. ps \in Seq(PlayerRec) /\ Len(ps) = Len(players)
    BY CountOutType DEF TypeOK
  <2>3. q \in M2W
    BY <2>2, BroadcastType DEF TypeOK, M2W
  <2>4. players' = ps /\ check_global_end(q, rooms, ps)
    BY <1>3 DEF handle_eliminated
  <2> HIDE DEF q, ps
  <2>5. m2w' \in M2W /\ match_ended' \in BOOLEAN /\ winner_id' \in Nat
    BY <2>2, <2>3, <2>4, CheckGlobalEndType DEF TypeOK
  <2>6. UNCHANGED <<rooms, room_seq, any_room_started, master, workerVars, envVars>>
    BY <1>3 DEF handle_eliminated
  <2> QED
    BY <2>1, <2>2, <2>4, <2>5, <2>6
    DEF TypeOK, M2W, W2M, workerVars, serverVars, gameVars, envVars
<1>4. CASE handle_attack(s)
  <2>1. w2m' \in W2M /\ Msg("GARBAGE", Head(w2m[s]).body) \in ToWorker
    BY <1>4, IncomingType, BodyTypes, MsgTypes DEF handle_attack
  <2>2. m2w' \in M2W
    BY <1>4, <2>1, HubSendType DEF handle_attack, TypeOK, M2W
  <2> QED
    BY <1>4, <2>1, <2>2
    DEF handle_attack, TypeOK, M2W, W2M, masterVars, workerVars, serverVars,
        gameVars, envVars
<1>5. CASE handle_feed(s)
  <2>1. w2m' \in W2M /\ Head(w2m[s]) \in ToWorker
    BY <1>5, IncomingType DEF handle_feed, ToMaster, ToWorker
  <2>2. m2w' \in M2W
    BY <1>5, <2>1, HubSendType DEF handle_feed, TypeOK, M2W
  <2> QED
    BY <1>5, <2>1, <2>2
    DEF handle_feed, TypeOK, M2W, W2M, masterVars, workerVars, serverVars,
        gameVars, envVars
<1>6. CASE hub_closed(s)
  <2>1. CloseRoom(s) /\ UNCHANGED <<master, w2m, workerVars>>
    BY <1>6 DEF hub_closed
  <2>2. /\ rooms' \in [Slots -> RoomRec]
        /\ players' \in Seq(PlayerRec)
        /\ Len(players') <= HubMaxPlayers
        /\ client' \in [Clients -> ClientRec]
        /\ m2w' \in M2W
        /\ match_ended' \in BOOLEAN
        /\ winner_id' \in Nat
    BY <2>1, CloseRoomType
  <2>3. UNCHANGED <<room_seq, any_room_started, faults, attacks>>
    BY <2>1 DEF CloseRoom
  <2> QED
    BY <2>1, <2>2, <2>3 DEF TypeOK, M2W, workerVars, serverVars, gameVars
<1> QED
  BY <1>1, <1>2, <1>3, <1>4, <1>5, <1>6 DEF MasterHandles

\* A worker that vanishes, for whatever reason, leaves well-typed state behind
LEMMA TypeVanish ==
  ASSUME TypeInd, NEW s \in Slots, Vanish(s),
         UNCHANGED <<masterVars, attacks>>, faults' \in Nat
  PROVE  TypeInd'
<1>1. LobbyWithinList'
  <2>1. /\ lobby' = [lobby EXCEPT ![s] = FreshLobby]
        /\ conn' = [conn EXCEPT ![s] = <<>>]
        /\ FreshLobby.size = 0
    BY DEF Vanish, FreshLobby
  <2> SUFFICES ASSUME NEW u \in Slots PROVE lobby'[u].size <= Len(conn'[u])
    BY DEF LobbyWithinList
  <2>2. CASE u = s
    BY <2>1, <2>2 DEF TypeInd, TypeOK
  <2>3. CASE u # s
    BY <2>1, <2>3 DEF TypeInd, TypeOK, LobbyWithinList
  <2> QED
    BY <2>2, <2>3
<1> QED
  BY <1>1, VanishType DEF TypeInd, TypeOK, M2W, W2M, masterVars

\* The lobby and its server thread
LEMMA TypeLobby ==
  ASSUME TypeInd, NEW s \in Slots,
         \/ bind_port(s)
         \/ handshake_done(s)
         \/ handshake_fail(s)
         \/ \E c \in Clients : lobby_accept(s, c)
         \/ lobby_poll(s)
         \/ lobby_drain(s)
         \/ lobby_start(s)
         \/ lobby_eof(s)
  PROVE  TypeInd'
<1> USE DEF TypeInd
<1>1. CASE bind_port(s)
  <2>1. <<Msg("READY", 0)>> \in Seq(ToMaster)
    BY MsgTypes
  <2>2. w2m' \in W2M
    BY <1>1, <2>1, ReportType DEF bind_port, TypeOK, W2M
  <2>3. wpc' \in [Slots -> WorkerPc]
    BY <1>1 DEF bind_port, TypeOK, WorkerPc
  <2> QED
    BY <1>1, <2>2, <2>3
    DEF bind_port, TypeOK, W2M, LobbyWithinList, masterVars, serverVars, gameVars,
        envVars
<1>2. CASE handshake_done(s)
  <2>1. handshake' \in [Slots -> Nat] /\ conn' \in [Slots -> Seq(Nat)]
    BY <1>2 DEF handshake_done, TypeOK
  <2>2. LobbyWithinList'
    <3>1. /\ conn' = [conn EXCEPT ![s] = Append(conn[s], handshake[s])]
          /\ lobby' = lobby
      BY <1>2 DEF handshake_done
    <3>2. /\ conn \in [Slots -> Seq(Nat)]
          /\ \A u \in Slots : lobby[u].size \in Nat
      BY DEF TypeOK, LobbyRec
    <3>3. Len(Append(conn[s], handshake[s])) = Len(conn[s]) + 1
      BY <3>2
    <3> QED
      BY <3>1, <3>2, <3>3 DEF LobbyWithinList
  <2> QED
    BY <1>2, <2>1, <2>2 DEF handshake_done, TypeOK, masterVars, gameVars, envVars
<1>3. CASE handshake_fail(s)
  <2>1. faults' \in Nat /\ handshake' \in [Slots -> Nat]
    BY <1>3 DEF handshake_fail, TypeOK
  <2> QED
    BY <1>3, <2>1 DEF handshake_fail, TypeOK, LobbyWithinList, masterVars, gameVars
<1>4. ASSUME NEW c \in Clients, lobby_accept(s, c) PROVE TypeInd'
  <2>1. /\ client[c] \in ClientRec
        /\ next_id[s] \in Nat
    BY DEF TypeOK
  <2>2. [client[c] EXCEPT !.pc = "connected", !.id = next_id[s]] \in ClientRec
    BY <2>1 DEF ClientRec
  <2>3. client' = [client EXCEPT ![c] =
                     [client[c] EXCEPT !.pc = "connected", !.id = next_id[s]]]
    BY <1>4 DEF lobby_accept, TypeOK, ClientRec
  <2>4. client' \in [Clients -> ClientRec]
    BY <2>2, <2>3 DEF TypeOK
  <2>5. handshake' \in [Slots -> Nat] /\ next_id' \in [Slots -> Nat]
    BY <1>4 DEF lobby_accept, TypeOK
  <2> QED
    BY <1>4, <2>4, <2>5
    DEF lobby_accept, TypeOK, LobbyWithinList, masterVars, gameVars
<1>5. CASE lobby_poll(s)
  <2> DEFINE n == Len(conn[s])
             r == lobby[s].reported
             msgs == [i \in 1..(n - r) |-> Msg("JOINED", conn[s][r + i])]
  <2>1. n \in Nat /\ r \in Nat /\ conn[s] \in Seq(Nat)
    BY DEF TypeOK, LobbyRec
  <2>2. msgs \in Seq(ToMaster)
    <3>1. \A i \in 1..(n - r) : Msg("JOINED", conn[s][r + i]) \in ToMaster
      BY <2>1, MsgTypes
    <3>2. CASE n - r \in Nat
      BY <3>1, <3>2
    <3>3. CASE n - r < 0
      <4>1. 1..(n - r) = 1..0
        BY <2>1, <3>3
      <4>2. [i \in 1..0 |-> Msg("JOINED", conn[s][r + i])] \in Seq(ToMaster)
        OBVIOUS
      <4> QED
        BY <4>1, <4>2
    <3> QED
      BY <2>1, <3>2, <3>3
  <2>3. Report(s, msgs)
    BY <1>5 DEF lobby_poll
  <2> HIDE DEF msgs
  <2>4. w2m' \in W2M
    BY <2>2, <2>3, ReportType DEF TypeOK, W2M
  <2>5. lobby' = [lobby EXCEPT ![s] = [lobby[s] EXCEPT !.size = n, !.reported = n]]
    BY <1>5 DEF lobby_poll, TypeOK, LobbyRec
  <2>6. [lobby[s] EXCEPT !.size = n, !.reported = n] \in LobbyRec
    BY <2>1, ZenonT(40) DEF TypeOK, LobbyRec
  <2>7. lobby' \in [Slots -> LobbyRec] /\ lobby'[s].size = n
    BY <2>5, <2>6 DEF TypeOK, LobbyRec
  <2>8. LobbyWithinList'
    <3>1. conn' = conn /\ \A u \in Slots \ {s} : lobby'[u] = lobby[u]
      BY <1>5, <2>5 DEF lobby_poll, serverVars, TypeOK
    <3> QED
      BY <2>1, <2>7, <3>1 DEF LobbyWithinList
  <2>9. wpc' \in [Slots -> WorkerPc]
    BY <1>5 DEF lobby_poll, TypeOK, WorkerPc
  <2> QED
    BY <1>5, <2>4, <2>7, <2>8, <2>9
    DEF lobby_poll, TypeOK, W2M, masterVars, serverVars, gameVars, envVars
<1>6. ASSUME lobby' = [lobby EXCEPT ![s] = Drained(s)],
             global' = [global EXCEPT ![s] = LastOf(m2w[s], "ROSTER", @)],
             m2w' = [m2w EXCEPT ![s] = <<>>],
             conn' = conn
      PROVE  /\ lobby' \in [Slots -> LobbyRec]
             /\ global' \in [Slots -> Seq(RosterEntry)]
             /\ m2w' \in M2W
             /\ LobbyWithinList'
  <2>1. /\ Drained(s) \in LobbyRec
        /\ Drained(s).size = lobby[s].size
        /\ LastOf(m2w[s], "ROSTER", global[s]) \in Seq(RosterEntry)
    BY DrainedType
  <2>2. m2w' \in M2W
    BY <1>6, ClearType DEF TypeOK, M2W
  <2>3. lobby' \in [Slots -> LobbyRec] /\ global' \in [Slots -> Seq(RosterEntry)]
    BY <1>6, <2>1 DEF TypeOK
  <2>4. \A u \in Slots : lobby'[u].size = lobby[u].size
    BY <1>6, <2>1 DEF TypeOK
  <2> QED
    BY <1>6, <2>2, <2>3, <2>4 DEF LobbyWithinList
<1>7. CASE lobby_drain(s)
  <2>1. wpc' \in [Slots -> WorkerPc]
    BY <1>7 DEF lobby_drain, TypeOK, WorkerPc
  <2> QED
    BY <1>6, <1>7, <2>1
    DEF lobby_drain, TypeOK, M2W, masterVars, serverVars, gameVars, envVars
<1>8. CASE lobby_start(s)
  <2>1. wpc' \in [Slots -> WorkerPc]
    BY <1>8 DEF lobby_start, TypeOK, WorkerPc
  <2> DEFINE boards == [i \in 1..lobby[s].size |->
                          [id |-> conn[s][i], state |-> "alive"]]
  <2>2. boards \in Seq(PlayerSlot)
    <3>1. /\ lobby[s].size \in Nat
          /\ lobby[s].size <= Len(conn[s])
          /\ conn[s] \in Seq(Nat)
      BY DEF TypeOK, LobbyRec, LobbyWithinList
    <3>2. \A i \in 1..lobby[s].size : conn[s][i] \in Nat
      BY <3>1
    <3>3. \A i \in 1..lobby[s].size :
            [id |-> conn[s][i], state |-> "alive"] \in PlayerSlot
      BY <3>2 DEF PlayerSlot
    <3> QED
      BY <3>1, <3>3
  <2>3. session' \in [Slots -> Seq(PlayerSlot)]
    BY <1>8, <2>2 DEF lobby_start, TypeOK
  <2> QED
    BY <1>6, <1>8, <2>1, <2>3
    DEF lobby_start, TypeOK, M2W, masterVars, serverVars, envVars
<1>9. CASE lobby_eof(s)
  BY <1>9, TypeVanish DEF lobby_eof, TypeOK
<1> QED
  BY <1>1, <1>2, <1>3, <1>4, <1>5, <1>7, <1>8, <1>9

\* Finished keeps a session a session
LEMMA FinishedType ==
  ASSUME NEW ss \in Seq(PlayerSlot)
  PROVE  Finished(ss) \in Seq(PlayerSlot)
<1>1. /\ DOMAIN ss = 1..Len(ss)
      /\ Len(ss) \in Nat
      /\ \A i \in DOMAIN ss : ss[i] \in PlayerSlot
  OBVIOUS
<1>2. \A i \in DOMAIN ss :
        (IF ss[i].state = "alive" THEN [ss[i] EXCEPT !.state = "topped"] ELSE ss[i])
          \in PlayerSlot
  BY <1>1 DEF PlayerSlot
<1>3. Finished(ss) \in [1..Len(ss) -> PlayerSlot]
  BY <1>1, <1>2 DEF Finished
<1> QED
  BY <1>1, <1>3

\* The match in a room
LEMMA TypeGame ==
  ASSUME TypeInd, NEW s \in Slots,
         \/ tick(s)
         \/ tick_attack(s)
         \/ tick_over(s)
         \/ room_exit(s)
         \/ crash(s)
         \/ hub_reset(s)
  PROVE  TypeInd'
<1> USE DEF TypeInd
<1>1. ASSUME NEW d \in {0} \cup Playing(session[s]), NEW how \in {"topped", "quit"}
      PROVE  /\ After(s, d, how) \in Seq(PlayerSlot)
             /\ Eliminated(s, d) \in Seq(ToMaster)
  <2>1. /\ session[s] \in Seq(PlayerSlot)
        /\ \A i \in DOMAIN session[s] : session[s][i] \in PlayerSlot
    BY DEF TypeOK
  <2>2. CASE d = 0
    BY <2>1, <2>2 DEF After, Eliminated
  <2>3. CASE d # 0
    <3>1. d \in 1..Len(session[s]) /\ session[s][d] \in PlayerSlot
      BY <2>1, <2>3 DEF Playing
    <3>2. /\ [session[s][d] EXCEPT !.state = how] \in PlayerSlot
          /\ session[s][d].id \in Nat
      BY <3>1 DEF PlayerSlot
    <3>3. After(s, d, how) =
            [session[s] EXCEPT ![d] = [session[s][d] EXCEPT !.state = how]]
      BY <2>3 DEF After
    <3>4. After(s, d, how) \in Seq(PlayerSlot)
      BY <2>1, <3>1, <3>2, <3>3, ExceptSeq
    <3>5. Eliminated(s, d) \in Seq(ToMaster)
      BY <2>3, <3>2, MsgTypes DEF Eliminated
    <3> QED
      BY <3>4, <3>5
  <2> QED
    BY <2>2, <2>3
<1>2. CASE tick(s)
  <2>1. PICK d \in {0} \cup Playing(session[s]), how \in {"topped", "quit"} :
          /\ session' = [session EXCEPT ![s] = After(s, d, how)]
          /\ Report(s, Eliminated(s, d))
          /\ \E ss \in DrainedInto(s, d, how) : DrainHub(s, ss, {}, {})
    BY <1>2 DEF tick
  <2>2. session' \in [Slots -> Seq(PlayerSlot)]
    BY <1>1, <2>1 DEF TypeOK
  <2>3. w2m' \in W2M
    BY <1>1, <2>1, ReportType DEF TypeOK, W2M
  <2>4. /\ feed' \in [Slots -> [1..MaxAttacks -> Nat]]
        /\ hits' \in [Slots -> [1..MaxAttacks -> Nat]]
        /\ global' \in [Slots -> Seq(RosterEntry)]
        /\ m2w' \in M2W
    BY <2>1, DrainHubType
  <2>5. UNCHANGED <<masterVars, wpc, serverVars, lobby, outcome, envVars>>
    BY <1>2 DEF tick
  <2> QED
    BY <2>2, <2>3, <2>4, <2>5
    DEF TypeOK, LobbyWithinList, M2W, W2M, masterVars, serverVars, envVars
<1>3. CASE tick_attack(s)
  <2>1. attacks' = attacks + 1 /\ attacks' \in Nat
    BY <1>3 DEF tick_attack, TypeOK
  <2>2. PICK d \in {0} \cup Playing(session[s]), how \in {"topped", "quit"},
             a \in Playing(session[s]) :
        \E v \in Victims(s, session[s][a].id), at \in DrainedInto(s, d, how) :
          LET ss    == After(s, d, how)
              n     == attacks + 1
              att   == [n |-> n, from |-> session[s][a].id, to |-> v]
              V     == Found(ss, v)
              local == V # {} /\ \E i \in V : ss[i].state = "alive"
          IN /\ session' = [session EXCEPT ![s] = ss]
             /\ \/ /\ local
                   /\ DrainHub(s, at, {n}, {n})
                   /\ Report(s, Eliminated(s, d) \o <<Msg("FEED", att)>>)
                \/ /\ V = {}
                   /\ DrainHub(s, at, {n}, {})
                   /\ Report(s, Eliminated(s, d)
                                \o <<Msg("ATTACK", att), Msg("FEED", att)>>)
                \/ /\ V # {}
                   /\ ~local
                   /\ DrainHub(s, at, {}, {})
                   /\ Report(s, Eliminated(s, d))
    BY <1>3 DEF tick_attack
  <2>3. PICK v \in Victims(s, session[s][a].id) :
          LET n   == attacks + 1
              att == [n |-> n, from |-> session[s][a].id, to |-> v]
          IN /\ session' = [session EXCEPT ![s] = After(s, d, how)]
             /\ \E at, shown, hit : DrainHub(s, at, shown, hit)
             /\ \/ Report(s, Eliminated(s, d) \o <<Msg("FEED", att)>>)
                \/ Report(s, Eliminated(s, d)
                             \o <<Msg("ATTACK", att), Msg("FEED", att)>>)
                \/ Report(s, Eliminated(s, d))
    BY <2>2
  <2> DEFINE att == [n |-> attacks + 1, from |-> session[s][a].id, to |-> v]
  <2>4. /\ \A i \in DOMAIN session[s] : session[s][i].id \in Nat
        /\ a \in DOMAIN session[s]
    <3>1. \A i \in DOMAIN session[s] : session[s][i] \in PlayerSlot
      BY DEF TypeOK
    <3> QED
      BY <3>1 DEF PlayerSlot, Playing
  <2>5. v \in Nat
    <3> DEFINE view == LastOf(m2w[s], "ROSTER", global[s])
    <3>1. view \in Seq(RosterEntry)
      BY DrainedType
    <3>2. \A j \in DOMAIN view : view[j] \in RosterEntry
      BY <3>1
    <3>3. \A j \in DOMAIN view : view[j].id \in Nat
      BY <3>2 DEF RosterEntry
    <3>4. \/ \E i \in DOMAIN view : v = view[i].id
          \/ \E i \in DOMAIN session[s] : v = session[s][i].id
      BY DEF Victims
    <3> QED
      BY <2>4, <3>3, <3>4
  <2>6. att \in Attack
    BY <2>1, <2>4, <2>5 DEF Attack
  <2>7. session' \in [Slots -> Seq(PlayerSlot)]
    BY <1>1, <2>3 DEF TypeOK
  <2>8. w2m' \in W2M
    <3>1. /\ Msg("ATTACK", att) \in ToMaster
          /\ Msg("FEED", att) \in ToMaster
          /\ Eliminated(s, d) \in Seq(ToMaster)
      BY <1>1, <2>6, MsgTypes
    <3>2. /\ Eliminated(s, d) \o <<Msg("FEED", att)>> \in Seq(ToMaster)
          /\ Eliminated(s, d) \o <<Msg("ATTACK", att), Msg("FEED", att)>>
               \in Seq(ToMaster)
      BY <3>1
    <3>3. w2m \in W2M
      BY DEF TypeOK, W2M
    <3>4. \/ Report(s, Eliminated(s, d) \o <<Msg("FEED", att)>>)
          \/ Report(s, Eliminated(s, d) \o <<Msg("ATTACK", att), Msg("FEED", att)>>)
          \/ Report(s, Eliminated(s, d))
      BY <2>3
    <3> QED
      BY <3>1, <3>2, <3>3, <3>4, ReportType
  <2>9. /\ feed' \in [Slots -> [1..MaxAttacks -> Nat]]
        /\ hits' \in [Slots -> [1..MaxAttacks -> Nat]]
        /\ global' \in [Slots -> Seq(RosterEntry)]
        /\ m2w' \in M2W
    BY <2>3, DrainHubType
  <2>10. UNCHANGED <<masterVars, wpc, serverVars, lobby, outcome, client, faults>>
    BY <1>3 DEF tick_attack
  <2> QED
    BY <2>1, <2>7, <2>8, <2>9, <2>10
    DEF TypeOK, LobbyWithinList, M2W, W2M, masterVars, serverVars
<1>4. CASE tick_over(s)
  <2>a. PICK d \in {0} \cup Playing(session[s]), how \in {"topped", "quit"} :
          /\ session' = [session EXCEPT ![s] = Finished(After(s, d, how))]
          /\ DrainHub(s, After(s, d, how), {}, {})
    BY <1>4 DEF tick_over
  <2>b. session' \in [Slots -> Seq(PlayerSlot)]
    <3>1. After(s, d, how) \in Seq(PlayerSlot)
      BY <1>1
    <3>2. Finished(After(s, d, how)) \in Seq(PlayerSlot)
      BY <3>1, FinishedType
    <3> QED
      BY <2>a, <3>2 DEF TypeOK
  <2>1. /\ feed' \in [Slots -> [1..MaxAttacks -> Nat]]
        /\ hits' \in [Slots -> [1..MaxAttacks -> Nat]]
        /\ global' \in [Slots -> Seq(RosterEntry)]
        /\ m2w' \in M2W
    BY <2>a, DrainHubType
  <2>2. LastOf(m2w[s], "GAMEOVER", 0) \in Nat
    BY LastOfTypes DEF TypeOK
  <2>3. outcome' \in [Slots -> Nat] /\ wpc' \in [Slots -> WorkerPc]
    BY <1>4, <2>2 DEF tick_over, TypeOK, WorkerPc
  <2>4. UNCHANGED <<masterVars, w2m, serverVars, lobby, envVars>>
    BY <1>4 DEF tick_over
  <2> QED
    BY <2>b, <2>1, <2>3, <2>4
    DEF TypeOK, LobbyWithinList, M2W, W2M, masterVars, serverVars, envVars
<1>5. CASE room_exit(s)
  BY <1>5, TypeVanish DEF room_exit, TypeOK
<1>6. CASE crash(s)
  <2>1. faults' \in Nat
    BY <1>6 DEF crash, TypeOK
  <2> QED
    BY <1>6, <2>1, TypeVanish DEF crash
<1>7. CASE hub_reset(s)
  <2>1. m2w' \in M2W
    BY <1>7, ClearType DEF hub_reset, TypeOK, M2W
  <2> QED
    BY <1>7, <2>1
    DEF hub_reset, TypeOK, LobbyWithinList, M2W, masterVars, workerVars,
        serverVars, gameVars, envVars
<1> QED
  BY <1>2, <1>3, <1>4, <1>5, <1>6, <1>7

LEMMA TypeIndHolds == Spec => []TypeInd
<1>1. Init => TypeInd
  <2> SUFFICES ASSUME Init PROVE TypeInd
    OBVIOUS
  <2>1. 0 \in Slots /\ HubMaxPlayers \in Nat /\ MaxAttacks \in Nat
    BY HubAssumption DEF Slots, HubMaxPlayers
  <2>2. NoRoom \in RoomRec /\ FreshLobby \in LobbyRec /\ FreshLobby.size = 0
    BY HubAssumption DEF NoRoom, RoomRec, FreshLobby, LobbyRec
  <2>3. Idle \in ClientRec
    BY <2>1 DEF Idle, ClientRec
  <2> QED
    BY <2>1, <2>2, <2>3 DEF Init, TypeInd, TypeOK, LobbyWithinList, WorkerPc
<1>2. TypeInd /\ [Next]_vars => TypeInd'
  <2> SUFFICES ASSUME TypeInd, [Next]_vars PROVE TypeInd'
    OBVIOUS
  <2>1. CASE UNCHANGED vars
    BY <2>1 DEF vars, TypeInd, TypeOK, LobbyWithinList, masterVars, workerVars,
                serverVars, gameVars, envVars
  <2>2. CASE Next
    BY <2>2, TypeFrontDoor, TypeMaster, TypeLobby, TypeGame DEF Next, WorkerSteps
  <2> QED
    BY <2>1, <2>2
<1> QED
  BY <1>1, <1>2, PTL DEF Spec

\* Every variable keeps the type of its C object in every step of the daemon,
\* and players[] is never written past HUB_MAX_PLAYERS
THEOREM TypeCorrect == Spec => []TypeOK
<1>1. TypeInd => TypeOK
  BY DEF TypeInd
<1> QED
  BY <1>1, TypeIndHolds, PTL

-----------------------------------------------------------------------------
(* One outcome.  OneOutcome is inductive relative to TypeOK: while the match *)
(* is undecided no HUB_GAMEOVER is on any hub and no room has an outcome, so *)
(* the one decision of check_global_end contradicts nothing; afterwards      *)
(* match_ended stays set, and no handler sends another HUB_GAMEOVER.         *)

\* The HUB_GAMEOVERs of a hub agree with the decision: made (e), and for w
Agrees(q, e, w) ==
  \A i \in DOMAIN q : q[i].type = "GAMEOVER" => e /\ q[i].body = w

AllAgree(q, e, w) == \A s \in Slots : Agrees(q[s], e, w)

LEMMA AgreesConcat ==
  ASSUME NEW q \in Seq(ToWorker), NEW r \in Seq(ToWorker), NEW e, NEW w,
         Agrees(q, e, w), Agrees(r, e, w)
  PROVE  Agrees(q \o r, e, w)
<1> SUFFICES ASSUME NEW i \in DOMAIN (q \o r), (q \o r)[i].type = "GAMEOVER"
             PROVE  e /\ (q \o r)[i].body = w
  BY DEF Agrees
<1>1. i \in 1..(Len(q) + Len(r)) /\ Len(q) \in Nat /\ Len(r) \in Nat
  BY ConcatProperties
<1>2. CASE i <= Len(q)
  <2>1. i \in DOMAIN q /\ (q \o r)[i] = q[i]
    BY <1>1, <1>2
  <2> QED
    BY <2>1 DEF Agrees
<1>3. CASE i > Len(q)
  <2>1. i - Len(q) \in DOMAIN r /\ (q \o r)[i] = r[i - Len(q)]
    BY <1>1, <1>3
  <2> QED
    BY <2>1 DEF Agrees
<1> QED
  BY <1>1, <1>2, <1>3

\* Appending anything but a disagreeing HUB_GAMEOVER keeps a hub in agreement
LEMMA AgreesAppend ==
  ASSUME NEW q \in Seq(ToWorker), NEW m \in ToWorker, NEW e, NEW w,
         Agrees(q, e, w), m.type = "GAMEOVER" => e /\ m.body = w
  PROVE  Agrees(Append(q, m), e, w)
<1> SUFFICES ASSUME NEW i \in DOMAIN Append(q, m), Append(q, m)[i].type = "GAMEOVER"
             PROVE  e /\ Append(q, m)[i].body = w
  BY DEF Agrees
<1>1. i \in 1..(Len(q) + 1) /\ Len(q) \in Nat
  OBVIOUS
<1>2. CASE i = Len(q) + 1
  BY <1>2
<1>3. CASE i \in 1..Len(q)
  <2>1. i \in DOMAIN q /\ Append(q, m)[i] = q[i]
    BY <1>1, <1>3
  <2> QED
    BY <2>1 DEF Agrees
<1> QED
  BY <1>1, <1>2, <1>3

LEMMA HubSendAgrees ==
  ASSUME NEW q \in M2W, NEW S, NEW m \in ToWorker, NEW e, NEW w,
         AllAgree(q, e, w), m.type = "GAMEOVER" => e /\ m.body = w
  PROVE  AllAgree(HubSend(q, S, m), e, w)
<1> SUFFICES ASSUME NEW s \in Slots PROVE Agrees(HubSend(q, S, m)[s], e, w)
  BY DEF AllAgree
<1>1. q[s] \in Seq(ToWorker) /\ Agrees(q[s], e, w)
  BY DEF M2W, AllAgree
<1>2. Agrees(Append(q[s], m), e, w)
  BY <1>1, AgreesAppend
<1>3. HubSend(q, S, m)[s] = Append(q[s], m) \/ HubSend(q, S, m)[s] = q[s]
  BY DEF HubSend
<1> QED
  BY <1>1, <1>2, <1>3

LEMMA BroadcastAgrees ==
  ASSUME NEW q \in M2W, NEW rs, NEW ps \in Seq(PlayerRec), NEW e, NEW w,
         AllAgree(q, e, w)
  PROVE  AllAgree(broadcast_roster(q, rs, ps), e, w)
<1>1. /\ Msg("ROSTER", Roster(ps)) \in ToWorker
      /\ Msg("ROSTER", Roster(ps)).type = "ROSTER"
  BY RosterType, MsgTypes DEF Msg
<1> QED
  BY <1>1, HubSendAgrees DEF broadcast_roster

LEMMA CopiesAgree ==
  ASSUME NEW n \in Nat, NEW m, m.type # "GAMEOVER", NEW e, NEW w
  PROVE  Agrees(Copies(n, m), e, w)
  BY DEF Agrees, Copies

LEMMA StartAllAgrees ==
  ASSUME NEW q \in M2W, NEW rs \in [Slots -> RoomRec], NEW ps \in Seq(PlayerRec),
         NEW e, NEW w, AllAgree(q, e, w),
         start_all_rooms(q, rs, ps)
  PROVE  AllAgree(m2w', e, w)
<1> DEFINE E == Startable(rs)
           R == Msg("ROSTER", Roster(ps))
           St(s) == <<Msg("START", rs[s].redirected)>>
           C(s) == Copies(Cardinality({x \in E : x >= s}), R)
           D == Copies(Cardinality(E), R)
<1> SUFFICES ASSUME NEW s \in Slots PROVE Agrees(m2w'[s], e, w)
  BY DEF AllAgree
<1>1. q[s] \in Seq(ToWorker) /\ Agrees(q[s], e, w)
  BY DEF M2W, AllAgree
<1>2. R \in ToWorker /\ R.type # "GAMEOVER"
  BY RosterType, MsgTypes DEF Msg
<1>3. Cardinality(E) \in Nat /\ Cardinality({x \in E : x >= s}) \in Nat
  <2>1. E \subseteq Slots
    BY DEF Startable
  <2> QED
    BY <2>1, SlotsCardinality
<1>4. /\ C(s) \in Seq(ToWorker) /\ Agrees(C(s), e, w)
      /\ D \in Seq(ToWorker) /\ Agrees(D, e, w)
  BY <1>2, <1>3, CopiesType, CopiesAgree
<1>5. St(s) \in Seq(ToWorker) /\ Agrees(St(s), e, w)
  <2>1. rs[s].redirected \in Nat
    BY DEF RoomRec
  <2>2. /\ Msg("START", rs[s].redirected) \in ToWorker
        /\ Msg("START", rs[s].redirected).type = "START"
    BY <2>1, MsgTypes DEF Msg
  <2> QED
    BY <2>2 DEF Agrees
<1>6. \/ m2w'[s] = q[s]
      \/ m2w'[s] = q[s] \o St(s) \o C(s)
      \/ m2w'[s] = q[s] \o D
  BY DEF start_all_rooms
<1> HIDE DEF St, C, D
<1>7. q[s] \o St(s) \in Seq(ToWorker) /\ Agrees(q[s] \o St(s), e, w)
  BY <1>1, <1>5, AgreesConcat, ConcatProperties
<1>8. Agrees(q[s] \o St(s) \o C(s), e, w) /\ Agrees(q[s] \o D, e, w)
  BY <1>1, <1>4, <1>7, AgreesConcat
<1> QED
  BY <1>1, <1>6, <1>8

Settled == \A s \in Slots : outcome[s] # 0 => match_ended /\ outcome[s] = winner_id

LEMMA OneOutcomeSplit ==
  /\ OneOutcome <=> AllAgree(m2w, match_ended, winner_id) /\ Settled
  /\ OneOutcome' <=> AllAgree(m2w', match_ended', winner_id') /\ Settled'
  BY DEF OneOutcome, AllAgree, Agrees, Settled, OfType

\* The one place that decides
LEMMA DecisionKeepsOutcome ==
  ASSUME OneOutcome, NEW q \in M2W, NEW rs, NEW ps \in Seq(PlayerRec),
         AllAgree(q, match_ended, winner_id),
         check_global_end(q, rs, ps),
         UNCHANGED outcome
  PROVE  OneOutcome'
<1>1. CASE ~match_ended /\ ps # <<>> /\ Over(ps)
  <2> DEFINE w == Standing(ps)
             m == Msg("GAMEOVER", w)
  <2>1. /\ match_ended' = TRUE
        /\ winner_id' = w
        /\ m2w' = HubSend(q, Used(rs), m)
    BY <1>1 DEF check_global_end
  <2>2. AllAgree(q, TRUE, w)
    BY <1>1 DEF AllAgree, Agrees
  <2>3. m \in ToWorker /\ m.body = w
    BY StandingType, MsgTypes DEF Msg
  <2>4. AllAgree(m2w', TRUE, w)
    BY <2>1, <2>2, <2>3, HubSendAgrees
  <2>5. Settled'
    BY <1>1 DEF OneOutcome, Settled
  <2> QED
    BY <2>1, <2>4, <2>5, OneOutcomeSplit
<1>2. CASE ~(~match_ended /\ ps # <<>> /\ Over(ps))
  <2>1. m2w' = q /\ UNCHANGED <<match_ended, winner_id>>
    BY <1>2 DEF check_global_end
  <2>2. Settled'
    BY <2>1 DEF OneOutcome, Settled
  <2> QED
    BY <2>1, <2>2, OneOutcomeSplit
<1> QED
  BY <1>1, <1>2

\* A room that empties its hub, with an outcome it had or read there
LEMMA DrainKeepsOutcome ==
  ASSUME TypeOK, OneOutcome, NEW s \in Slots,
         m2w' = [m2w EXCEPT ![s] = <<>>],
         UNCHANGED <<match_ended, winner_id>>,
         \/ UNCHANGED outcome
         \/ outcome' = [outcome EXCEPT ![s] = 0]
         \/ outcome' = [outcome EXCEPT ![s] = LastOf(m2w[s], "GAMEOVER", 0)]
  PROVE  OneOutcome'
<1>1. m2w \in M2W /\ m2w[s] \in Seq(ToWorker) /\ outcome \in [Slots -> Nat]
  BY DEF TypeOK, M2W
<1>2. AllAgree(m2w', match_ended', winner_id')
  <2> SUFFICES ASSUME NEW u \in Slots PROVE Agrees(m2w'[u], match_ended, winner_id)
    BY DEF AllAgree
  <2>1. CASE u = s
    BY <1>1, <2>1 DEF M2W, Agrees
  <2>2. CASE u # s
    BY <1>1, <2>2, OneOutcomeSplit DEF M2W, AllAgree
  <2> QED
    BY <2>1, <2>2
<1>3. LastOf(m2w[s], "GAMEOVER", 0) # 0 =>
        match_ended /\ LastOf(m2w[s], "GAMEOVER", 0) = winner_id
  BY <1>1, LastOfCases DEF OneOutcome
<1>4. Settled'
  <2> SUFFICES ASSUME NEW u \in Slots, outcome'[u] # 0
               PROVE  match_ended /\ outcome'[u] = winner_id
    BY DEF Settled
  <2>1. \/ outcome'[u] = outcome[u]
        \/ outcome'[u] = 0
        \/ outcome'[u] = LastOf(m2w[s], "GAMEOVER", 0)
    BY <1>1
  <2> QED
    BY <1>3, <2>1 DEF OneOutcome
<1> QED
  BY <1>2, <1>4, OneOutcomeSplit

LEMMA OutcomeMaster ==
  ASSUME TypeOK, OneOutcome, NEW s \in Slots,
         \/ MasterHandles(s)
         \/ CloseRoom(s) /\ UNCHANGED outcome
  PROVE  OneOutcome'
<1>0. /\ m2w \in M2W
      /\ AllAgree(m2w, match_ended, winner_id)
      /\ players \in Seq(PlayerRec)
      /\ Settled
  BY OneOutcomeSplit DEF TypeOK, M2W
<1>a. ASSUME UNCHANGED <<match_ended, winner_id, outcome>>,
             AllAgree(m2w', match_ended, winner_id)
      PROVE  OneOutcome'
  BY <1>0, <1>a, OneOutcomeSplit DEF Settled
<1>1. CASE handle_ready(s)
  BY <1>0, <1>1, <1>a DEF handle_ready, workerVars, gameVars
<1>2. CASE handle_joined(s)
  <2> DEFINE rec == [id |-> Head(w2m[s]).body, room |-> s, alive |-> TRUE]
             ps == add_player(players, rec)
             rs == [rooms EXCEPT ![s].joined = @ + 1]
             q  == broadcast_roster(m2w, rs, ps)
  <2>1. rec \in PlayerRec
    BY <1>2, IncomingType, BodyTypes DEF handle_joined, PlayerRec
  <2>2. ps \in Seq(PlayerRec)
    <3> HIDE DEF rec
    <3> QED
      BY <1>0, <2>1 DEF add_player
  <2>3. rs \in [Slots -> RoomRec]
    <3>1. rooms[s] \in RoomRec
      BY DEF TypeOK
    <3>2. [rooms[s] EXCEPT !.joined = @ + 1] \in RoomRec
      BY <3>1 DEF RoomRec
    <3> QED
      BY <3>2 DEF TypeOK
  <2>4. q \in M2W /\ AllAgree(q, match_ended, winner_id)
    BY <1>0, <2>2, BroadcastType, BroadcastAgrees
  <2>5. start_all_rooms(q, rs, ps) \/ m2w' = q
    BY <1>2 DEF handle_joined
  <2> HIDE DEF q, rs, ps
  <2>6. AllAgree(m2w', match_ended, winner_id)
    BY <2>2, <2>3, <2>4, <2>5, StartAllAgrees
  <2>7. UNCHANGED <<match_ended, winner_id, outcome>>
    BY <1>2 DEF handle_joined, workerVars, gameVars
  <2> QED
    BY <1>a, <2>6, <2>7
<1>3. CASE handle_eliminated(s)
  <2> DEFINE ps == CountOut(players, Entries(players, Head(w2m[s]).body))
             q  == broadcast_roster(m2w, rooms, ps)
  <2>1. ps \in Seq(PlayerRec)
    BY <1>0, CountOutType
  <2>2. q \in M2W /\ AllAgree(q, match_ended, winner_id)
    BY <1>0, <2>1, BroadcastType, BroadcastAgrees
  <2>3. check_global_end(q, rooms, ps) /\ UNCHANGED outcome
    BY <1>3 DEF handle_eliminated, workerVars, gameVars
  <2> HIDE DEF q, ps
  <2> QED
    BY <2>1, <2>2, <2>3, DecisionKeepsOutcome
<1>4. CASE handle_attack(s)
  <2> DEFINE m == Msg("GARBAGE", Head(w2m[s]).body)
  <2>1. m \in ToWorker /\ m.type = "GARBAGE"
    BY <1>4, IncomingType, BodyTypes, MsgTypes DEF handle_attack, Msg
  <2>2. \E S : m2w' = HubSend(m2w, S, m)
    BY <1>4 DEF handle_attack
  <2> HIDE DEF m
  <2>3. AllAgree(m2w', match_ended, winner_id)
    BY <1>0, <2>1, <2>2, HubSendAgrees
  <2> QED
    BY <1>4, <1>a, <2>3 DEF handle_attack, masterVars, workerVars, gameVars
<1>5. CASE handle_feed(s)
  <2> DEFINE m == Head(w2m[s])
  <2>1. m \in ToWorker /\ m.type = "FEED"
    BY <1>5, IncomingType DEF handle_feed, ToMaster, ToWorker
  <2>2. \E S : m2w' = HubSend(m2w, S, m)
    BY <1>5 DEF handle_feed
  <2> HIDE DEF m
  <2>3. AllAgree(m2w', match_ended, winner_id)
    BY <1>0, <2>1, <2>2, HubSendAgrees
  <2> QED
    BY <1>5, <1>a, <2>3 DEF handle_feed, masterVars, workerVars, gameVars
<1>6. ASSUME CloseRoom(s), UNCHANGED outcome PROVE OneOutcome'
  <2> DEFINE rs == [rooms EXCEPT ![s].used = FALSE]
             ps == CountOut(players, LostWith(s))
             q  == broadcast_roster(m2w, rs, ps)
  <2>1. ps \in Seq(PlayerRec)
    BY <1>0, CountOutType
  <2>2. q \in M2W /\ AllAgree(q, match_ended, winner_id)
    BY <1>0, <2>1, BroadcastType, BroadcastAgrees
  <2>3. \/ UNCHANGED <<m2w, match_ended, winner_id>>
        \/ check_global_end(q, rs, ps)
    BY <1>6 DEF CloseRoom
  <2> HIDE DEF q, ps, rs
  <2> QED
    BY <1>0, <1>6, <1>a, <2>1, <2>2, <2>3, DecisionKeepsOutcome
<1>7. CASE hub_closed(s)
  BY <1>6, <1>7 DEF hub_closed, workerVars, gameVars
<1> QED
  BY <1>1, <1>2, <1>3, <1>4, <1>5, <1>6, <1>7 DEF MasterHandles

LEMMA OutcomeWorker ==
  ASSUME TypeOK, OneOutcome, NEW s \in Slots,
         \/ WorkerSteps(s)
         \/ tick_attack(s)
         \/ crash(s)
         \/ hub_reset(s)
         \/ handshake_done(s)
         \/ handshake_fail(s)
         \/ \E c \in Clients : lobby_accept(s, c)
  PROVE  OneOutcome'
<1>1. ASSUME UNCHANGED <<m2w, match_ended, winner_id, outcome>> PROVE OneOutcome'
  BY <1>1 DEF OneOutcome, OfType
<1>2. ASSUME Vanish(s), UNCHANGED masterVars PROVE OneOutcome'
  BY <1>2, DrainKeepsOutcome DEF Vanish, masterVars
<1>3. CASE bind_port(s) \/ lobby_poll(s) \/ handshake_done(s) \/ handshake_fail(s)
           \/ \E c \in Clients : lobby_accept(s, c)
  BY <1>1, <1>3 DEF bind_port, lobby_poll, handshake_done, handshake_fail,
                    lobby_accept, masterVars, gameVars
<1>4. CASE lobby_drain(s)
  BY <1>4, DrainKeepsOutcome DEF lobby_drain, masterVars, gameVars
<1>5. CASE lobby_start(s)
  BY <1>5, DrainKeepsOutcome DEF lobby_start, masterVars
<1>6. CASE tick(s)
  BY <1>6, DrainKeepsOutcome DEF tick, DrainHub, masterVars
<1>7. CASE tick_attack(s)
  <2>1. m2w' = [m2w EXCEPT ![s] = <<>>]
    BY <1>7 DEF tick_attack, DrainHub
  <2>2. UNCHANGED <<match_ended, winner_id, outcome>>
    BY <1>7 DEF tick_attack, masterVars
  <2> QED
    BY <2>1, <2>2, DrainKeepsOutcome
<1>8. CASE tick_over(s)
  BY <1>8, DrainKeepsOutcome DEF tick_over, DrainHub, masterVars
<1>9. CASE room_exit(s) \/ lobby_eof(s) \/ crash(s)
  BY <1>2, <1>9 DEF room_exit, lobby_eof, crash
<1>10. CASE hub_reset(s)
  BY <1>10, DrainKeepsOutcome DEF hub_reset, masterVars, workerVars, gameVars
<1> QED
  BY <1>3, <1>4, <1>5, <1>6, <1>7, <1>8, <1>9, <1>10 DEF WorkerSteps

\* check_global_end decides once, and everyone ends with that decision: however
\* many rooms, players, crashes and restarts there are, no two HUB_GAMEOVERs and
\* no two rooms disagree about the winner
THEOREM MatchHasOneOutcome == Spec => []OneOutcome
<1>1. Init => OneOutcome
  BY DEF Init, OneOutcome, OfType
<1>2. TypeOK /\ OneOutcome /\ [Next]_vars => OneOutcome'
  <2> SUFFICES ASSUME TypeOK, OneOutcome, [Next]_vars PROVE OneOutcome'
    OBVIOUS
  <2>1. ASSUME UNCHANGED <<m2w, match_ended, winner_id, outcome>> PROVE OneOutcome'
    BY <2>1 DEF OneOutcome, OfType
  <2>2. CASE UNCHANGED vars
    BY <2>1, <2>2 DEF vars, masterVars, workerVars, gameVars
  <2>3. ASSUME NEW c \in Clients,
               \/ accept_client(c) \/ accept_refuse(c) \/ connect_refused(c)
        PROVE  OneOutcome'
    BY <2>1, <2>3
    DEF accept_client, accept_refuse, connect_refused, masterVars, workerVars, gameVars
  <2>4. ASSUME NEW c \in Clients, accept_spawn(c) PROVE OneOutcome'
    <3> DEFINE s == Least(Slots \ Used(rooms))
    <3>1. s \in Slots
      BY <2>4, LeastSlot DEF accept_spawn
    <3>2. /\ m2w' = [m2w EXCEPT ![s] = <<>>]
          /\ UNCHANGED <<match_ended, winner_id, outcome>>
      BY <2>4 DEF accept_spawn, gameVars
    <3> HIDE DEF s
    <3> QED
      BY <3>1, <3>2, DrainKeepsOutcome
  <2>5. CASE press_enter
    <3>1. AllAgree(m2w', match_ended, winner_id)
      BY <2>5, OneOutcomeSplit, StartAllAgrees DEF press_enter, TypeOK, M2W
    <3>2. UNCHANGED <<match_ended, winner_id, outcome>>
      BY <2>5 DEF press_enter, workerVars, gameVars
    <3> QED
      BY <3>1, <3>2, OneOutcomeSplit DEF Settled
  <2>6. CASE on_sigint \/ loop_exit
    BY <2>1, <2>6 DEF on_sigint, loop_exit, workerVars, gameVars
  <2>7. CASE shutdown
    <3>1. CASE Used(rooms) = {}
      BY <2>1, <2>7, <3>1 DEF shutdown, workerVars, gameVars
    <3>2. CASE Used(rooms) # {}
      <4>1. Least(Used(rooms)) \in Slots
        BY <3>2, LeastSlot DEF Used
      <4> QED
        BY <2>7, <3>2, <4>1, OutcomeMaster DEF shutdown, workerVars, gameVars
    <3> QED
      BY <3>1, <3>2
  <2> QED
    BY <2>2, <2>3, <2>4, <2>5, <2>6, <2>7, OutcomeMaster, OutcomeWorker DEF Next
<1> QED
  BY <1>1, <1>2, TypeCorrect, PTL DEF Spec


-----------------------------------------------------------------------------
(* The roster of a running room.  RosterCurrent is inductive with TypeOK:     *)
(* every handler that changes the table broadcasts it to the rooms that run,  *)
(* start_room sends it to the room it starts, nothing sends an older one, and *)
(* a room that drains its hub keeps the last.                                 *)

View(q, g) == LastOf(q, "ROSTER", g)

LEMMA LastUnique ==
  ASSUME NEW q \in Seq(ToWorker), NEW t, NEW d, NEW i \in OfType(q, t),
         \A j \in OfType(q, t) : j <= i
  PROVE  LastOf(q, t, d) = q[i].body
<1> DEFINE k == CHOOSE x \in OfType(q, t) : \A j \in OfType(q, t) : j <= x
<1>1. k \in OfType(q, t) /\ \A j \in OfType(q, t) : j <= k
  OBVIOUS
<1>2. OfType(q, t) \subseteq Nat
  BY DEF OfType
<1>3. k = i
  <2> HIDE DEF k
  <2> QED
    BY <1>1, <1>2
<1>4. OfType(q, t) # {} /\ LastOf(q, t, d) = q[k].body
  BY DEF LastOf
<1> QED
  BY <1>3, <1>4

\* The last message of its type decides
LEMMA LastAppend ==
  ASSUME NEW q \in Seq(ToWorker), NEW m \in ToWorker, NEW t, NEW d
  PROVE  /\ m.type = t => LastOf(Append(q, m), t, d) = m.body
         /\ m.type # t => LastOf(Append(q, m), t, d) = LastOf(q, t, d)
<1> DEFINE r == Append(q, m)
           n == Len(q)
<1>1. /\ r \in Seq(ToWorker) /\ n \in Nat /\ DOMAIN r = 1..(n + 1) /\ DOMAIN q = 1..n
      /\ r[n + 1] = m /\ \A i \in 1..n : r[i] = q[i]
  OBVIOUS
<1> HIDE DEF r, n
<1>2. CASE m.type = t
  <2>1. n + 1 \in OfType(r, t) /\ \A j \in OfType(r, t) : j <= n + 1
    BY <1>1, <1>2 DEF OfType
  <2>2. LastOf(r, t, d) = r[n + 1].body
    BY <1>1, <2>1, LastUnique
  <2> QED
    BY <1>1, <1>2, <2>2 DEF r
<1>3. CASE m.type # t
  <2>1. OfType(r, t) = OfType(q, t)
    BY <1>1, <1>3 DEF OfType
  <2>2. CASE OfType(q, t) = {}
    BY <1>3, <2>1, <2>2 DEF LastOf, r
  <2>3. CASE OfType(q, t) # {}
    <3>1. OfType(q, t) \subseteq 1..n
      BY <1>1 DEF OfType
    <3>2. PICK i \in OfType(q, t) : \A j \in OfType(q, t) : j <= i
      BY <1>1, <2>3, <3>1, LastExists
    <3>3. LastOf(q, t, d) = q[i].body
      BY <3>2, LastUnique
    <3>4. LastOf(r, t, d) = r[i].body
      BY <1>1, <2>1, <3>2, LastUnique
    <3>5. r[i] = q[i]
      BY <1>1, <3>1
    <3> QED
      BY <1>3, <3>3, <3>4, <3>5 DEF r
  <2> QED
    BY <2>2, <2>3
<1> QED
  BY <1>2, <1>3

LEMMA LastCopies ==
  ASSUME NEW q \in Seq(ToWorker), NEW m \in ToWorker, NEW n \in Nat, NEW d
  PROVE  /\ n = 0 => LastOf(q \o Copies(n, m), m.type, d) = LastOf(q, m.type, d)
         /\ n # 0 => LastOf(q \o Copies(n, m), m.type, d) = m.body
<1>1. CASE n = 0
  <2>1. Copies(n, m) = <<>>
    BY <1>1 DEF Copies
  <2>2. q \o <<>> = q
    OBVIOUS
  <2> QED
    BY <1>1, <2>1, <2>2
<1>2. CASE n # 0
  <2> DEFINE k == Copies(n, m)
             r == q \o k
  <2>1. k \in Seq(ToWorker) /\ Len(k) = n /\ k[n] = m
    BY <1>2 DEF Copies
  <2> HIDE DEF k
  <2>2. r \in Seq(ToWorker) /\ Len(r) = Len(q) + n /\ r[Len(q) + n] = m /\ Len(q) \in Nat
    BY <1>2, <2>1
  <2> HIDE DEF r
  <2>3. DOMAIN r = 1..(Len(q) + n)
    BY <2>2
  <2>4. Len(q) + n \in OfType(r, m.type) /\ \A j \in OfType(r, m.type) : j <= Len(q) + n
    BY <1>2, <2>2, <2>3 DEF OfType
  <2>5. LastOf(r, m.type, d) = m.body
    BY <2>2, <2>4, LastUnique
  <2> QED
    BY <1>2, <2>5 DEF r, k
<1> QED
  BY <1>1, <1>2

LEMMA SendKeepsView ==
  ASSUME NEW q \in M2W, NEW S, NEW m \in ToWorker, m.type # "ROSTER", NEW s \in Slots, NEW g
  PROVE  View(HubSend(q, S, m)[s], g) = View(q[s], g)
<1>1. q[s] \in Seq(ToWorker)
  BY DEF M2W
<1>2. HubSend(q, S, m)[s] = q[s] \/ HubSend(q, S, m)[s] = Append(q[s], m)
  BY DEF HubSend
<1>3. LastOf(Append(q[s], m), "ROSTER", g) = LastOf(q[s], "ROSTER", g)
  BY <1>1, LastAppend
<1> QED
  BY <1>2, <1>3 DEF View

LEMMA RosterMsg ==
  ASSUME NEW ps \in Seq(PlayerRec)
  PROVE  LET m == Msg("ROSTER", Roster(ps))
         IN  m \in ToWorker /\ m.type = "ROSTER" /\ m.body = Roster(ps)
  BY RosterType, MsgTypes DEF Msg

LEMMA BroadcastView ==
  ASSUME NEW q \in M2W, NEW rs, NEW ps \in Seq(PlayerRec), NEW s \in Running(rs), Live(s), NEW g
  PROVE  View(broadcast_roster(q, rs, ps)[s], g) = Roster(ps)
<1> DEFINE m == Msg("ROSTER", Roster(ps))
<1>1. s \in Slots /\ q[s] \in Seq(ToWorker)
  BY DEF Running, M2W
<1>2. m \in ToWorker /\ m.type = "ROSTER" /\ m.body = Roster(ps)
  BY RosterMsg
<1>3. broadcast_roster(q, rs, ps)[s] = Append(q[s], m)
  BY <1>1 DEF broadcast_roster, HubSend
<1> HIDE DEF m
<1> QED
  BY <1>1, <1>2, <1>3, LastAppend DEF View

\* All rooms that run, of records rs and hubs q, know the table ps
AllCurrent(rs, q, ps) == \A s \in Running(rs) : Live(s) => View(q[s], global[s]) = Roster(ps)

LEMMA BroadcastCurrent ==
  ASSUME NEW q \in M2W, NEW rs, NEW ps \in Seq(PlayerRec)
  PROVE  AllCurrent(rs, broadcast_roster(q, rs, ps), ps)
  BY BroadcastView DEF AllCurrent

LEMMA EndKeepsCurrent ==
  ASSUME NEW q \in M2W, NEW rs, NEW ps \in Seq(PlayerRec), AllCurrent(rs, q, ps),
         check_global_end(q, rs, ps)
  PROVE  AllCurrent(rs, m2w', ps)
<1> DEFINE m == Msg("GAMEOVER", Standing(ps))
<1>1. m \in ToWorker /\ m.type # "ROSTER"
  BY StandingType, MsgTypes DEF Msg
<1>2. m2w' = q \/ m2w' = HubSend(q, Used(rs), m)
  BY DEF check_global_end
<1> HIDE DEF m
<1>3. \A s \in Slots : View(m2w'[s], global[s]) = View(q[s], global[s])
  BY <1>1, <1>2, SendKeepsView, SMTT(30)
<1>4. Running(rs) \subseteq Slots
  BY DEF Running
<1> QED
  BY <1>3, <1>4 DEF AllCurrent

\* start_all_rooms brings every room it starts up to date
LEMMA StartCurrent ==
  ASSUME NEW q \in M2W, NEW rs \in [Slots -> RoomRec], NEW ps \in Seq(PlayerRec),
         AllCurrent(rs, q, ps), start_all_rooms(q, rs, ps)
  PROVE  AllCurrent(rooms', m2w', ps)
<1> DEFINE E == Startable(rs)
           R == Msg("ROSTER", Roster(ps))
           n(s) == Cardinality({e \in E : e >= s})
<1> SUFFICES ASSUME NEW s \in Slots, s \in Running(rooms'), Live(s)
             PROVE  View(m2w'[s], global[s]) = Roster(ps)
  BY DEF AllCurrent, Running
<1>1. q[s] \in Seq(ToWorker) /\ rs[s] \in RoomRec
  BY DEF M2W
<1>2. R \in ToWorker /\ R.type = "ROSTER" /\ R.body = Roster(ps)
  BY RosterMsg
<1>3. E \subseteq Slots /\ IsFiniteSet(E) /\ Cardinality(E) \in Nat
  BY SlotsFinite, FS_Subset, FS_CardinalityType DEF Startable
<1>4. CASE s \in E
  <2> DEFINE St == Msg("START", rs[s].redirected)
  <2>1. m2w'[s] = q[s] \o <<St>> \o Copies(n(s), R)
    BY <1>4 DEF start_all_rooms
  <2>2. St \in ToWorker
    BY <1>1, MsgTypes DEF RoomRec
  <2> HIDE DEF St
  <2>3. q[s] \o <<St>> \in Seq(ToWorker)
    BY <1>1, <2>2
  <2>4. n(s) \in Nat /\ n(s) # 0
    <3>1. s \in {e \in E : e >= s}
      BY <1>4, SlotsFinite
    <3>2. IsFiniteSet({e \in E : e >= s})
      BY <1>3, FS_Subset
    <3> QED
      BY <3>1, <3>2, FS_EmptySet, FS_CardinalityType
  <2>5. /\ q[s] \o <<St>> \in Seq(ToWorker) /\ n(s) \in Nat /\ n(s) # 0
        /\ R \in ToWorker
    BY <1>2, <2>3, <2>4
  <2> HIDE DEF n, R
  <2>6. LastOf(q[s] \o <<St>> \o Copies(n(s), R), R.type, global[s]) = R.body
    BY ONLY <2>5, LastCopies
  <2> QED
    BY <1>2, <2>1, <2>6 DEF View
<1>5. CASE s \notin E
  <2>1. rooms'[s] = rs[s]
    BY <1>5 DEF start_all_rooms
  <2>2. s \in Running(rs)
    BY <2>1 DEF Running
  <2>3. m2w'[s] = q[s] \o Copies(Cardinality(E), R)
    BY <1>5, <2>2 DEF start_all_rooms
  <2>4. View(q[s], global[s]) = Roster(ps)
    BY <2>2 DEF AllCurrent
  <2> DEFINE k == Cardinality(E)
  <2>5. k \in Nat /\ R \in ToWorker /\ q[s] \in Seq(ToWorker)
    BY <1>1, <1>2, <1>3
  <2> HIDE DEF R, k
  <2>6. \/ LastOf(q[s] \o Copies(k, R), R.type, global[s]) = LastOf(q[s], R.type, global[s])
        \/ LastOf(q[s] \o Copies(k, R), R.type, global[s]) = R.body
    BY ONLY <2>5, LastCopies
  <2>7. m2w'[s] = q[s] \o Copies(k, R)
    BY <2>3 DEF k
  <2> QED
    BY <1>2, <2>4, <2>6, <2>7 DEF View
<1> QED
  BY <1>4, <1>5

LEMMA CurrentIs == RosterCurrent <=> AllCurrent(rooms, m2w, players)
  BY DEF RosterCurrent, AllCurrent, View

\* A step of the master: the workers and what they know are as before
LEMMA MasterCurrent ==
  ASSUME UNCHANGED <<wpc, global>>, AllCurrent(rooms', m2w', players')
  PROVE  RosterCurrent'
<1> SUFFICES ASSUME NEW s \in Running(rooms'), Live(s)'
             PROVE  LastOf(m2w'[s], "ROSTER", global'[s]) = Roster(players')
  BY DEF RosterCurrent
<1>1. Live(s)
  BY DEF Live
<1> QED
  BY <1>1 DEF AllCurrent, View

\* The rooms that run are as before, and so is the table
LEMMA QuietCurrent ==
  ASSUME RosterCurrent, UNCHANGED <<wpc, global, m2w, players>>,
         \A s \in Slots : rooms'[s].used /\ rooms'[s].started => rooms[s].used /\ rooms[s].started
  PROVE  RosterCurrent'
<1>1. AllCurrent(rooms', m2w', players')
  BY CurrentIs DEF AllCurrent, Running
<1> QED
  BY <1>1, MasterCurrent

\* A room drains its hub, or is gone
LEMMA DrainCurrent ==
  ASSUME TypeOK, RosterCurrent, NEW s \in Slots, UNCHANGED <<rooms, players>>,
         \A u \in Slots : u # s => m2w'[u] = m2w[u] /\ wpc'[u] = wpc[u] /\ global'[u] = global[u],
         \/ wpc'[s] \in {"none", "gone"} \/ ~rooms[s].used \/ ~rooms[s].started
         \/ /\ m2w'[s] = <<>> /\ global'[s] = LastOf(m2w[s], "ROSTER", global[s])
            /\ wpc[s] \notin {"none", "gone"}
  PROVE  RosterCurrent'
<1> SUFFICES ASSUME NEW u \in Running(rooms), Live(u)'
             PROVE  LastOf(m2w'[u], "ROSTER", global'[u]) = Roster(players)
  BY DEF RosterCurrent
<1>1. u \in Slots /\ rooms[u].used /\ rooms[u].started /\ wpc'[u] \notin {"none", "gone"}
  BY DEF Running, Live
<1>2. wpc[u] \notin {"none", "gone"} => LastOf(m2w[u], "ROSTER", global[u]) = Roster(players)
  BY DEF RosterCurrent, Live
<1>3. CASE u # s
  BY <1>1, <1>2, <1>3
<1>4. CASE u = s
  <2>1. m2w'[s] = <<>> /\ global'[s] = LastOf(m2w[s], "ROSTER", global[s]) /\ wpc[s] \notin {"none", "gone"}
    BY <1>1, <1>4
  <2>2. LastOf(<<>>, "ROSTER", global'[s]) = global'[s]
    BY DEF LastOf, OfType
  <2> QED
    BY <1>2, <1>4, <2>1, <2>2
<1> QED
  BY <1>3, <1>4

LEMMA CurrentMaster ==
  ASSUME TypeOK, RosterCurrent, NEW s \in Slots,
         \/ MasterHandles(s)
         \/ CloseRoom(s) /\ UNCHANGED workerVars
  PROVE  RosterCurrent'
<1>0. /\ m2w \in M2W /\ players \in Seq(PlayerRec) /\ rooms \in [Slots -> RoomRec]
      /\ AllCurrent(rooms, m2w, players)
  BY CurrentIs DEF TypeOK, M2W
<1>1. CASE handle_ready(s)
  <2>1. \A u \in Slots : rooms'[u].used = rooms[u].used /\ rooms'[u].started = rooms[u].started
    BY <1>0, <1>1 DEF handle_ready, RoomRec
  <2> QED
    BY <1>1, <2>1, QuietCurrent DEF handle_ready, workerVars
<1>2. CASE handle_joined(s)
  <2> DEFINE rec == [id |-> Head(w2m[s]).body, room |-> s, alive |-> TRUE]
             ps == add_player(players, rec)
             rs == [rooms EXCEPT ![s].joined = @ + 1]
             q  == broadcast_roster(m2w, rs, ps)
  <2>1. rec \in PlayerRec
    BY <1>2, IncomingType, BodyTypes DEF handle_joined, PlayerRec
  <2>2. ps \in Seq(PlayerRec)
    <3> HIDE DEF rec
    <3> QED
      BY <1>0, <2>1 DEF add_player
  <2>3. rs \in [Slots -> RoomRec]
    <3>1. rooms[s] \in RoomRec
      BY DEF TypeOK
    <3>2. [rooms[s] EXCEPT !.joined = @ + 1] \in RoomRec
      BY <3>1 DEF RoomRec
    <3> QED
      BY <3>2 DEF TypeOK
  <2>4. q \in M2W /\ AllCurrent(rs, q, ps)
    BY <1>0, <2>2, BroadcastType, BroadcastCurrent
  <2>5. start_all_rooms(q, rs, ps) \/ (m2w' = q /\ rooms' = rs)
    BY <1>2 DEF handle_joined
  <2>6. players' = ps /\ UNCHANGED <<wpc, global>>
    BY <1>2 DEF handle_joined, workerVars
  <2> HIDE DEF q, rs, ps
  <2>7. AllCurrent(rooms', m2w', players')
    BY <2>2, <2>3, <2>4, <2>5, <2>6, StartCurrent
  <2> QED
    BY <2>6, <2>7, MasterCurrent
<1>3. CASE handle_eliminated(s)
  <2> DEFINE ps == CountOut(players, Entries(players, Head(w2m[s]).body))
             q  == broadcast_roster(m2w, rooms, ps)
  <2>1. ps \in Seq(PlayerRec)
    BY <1>0, CountOutType
  <2>2. q \in M2W /\ AllCurrent(rooms, q, ps)
    BY <1>0, <2>1, BroadcastType, BroadcastCurrent
  <2>3. check_global_end(q, rooms, ps) /\ UNCHANGED <<wpc, global, rooms>> /\ players' = ps
    BY <1>3 DEF handle_eliminated, workerVars
  <2> HIDE DEF q, ps
  <2>4. AllCurrent(rooms, m2w', ps)
    BY <2>1, <2>2, <2>3, EndKeepsCurrent
  <2> QED
    BY <2>3, <2>4, MasterCurrent
<1>4. CASE handle_attack(s) \/ handle_feed(s)
  <2>1. \E S, m : m \in ToWorker /\ m.type # "ROSTER" /\ m2w' = HubSend(m2w, S, m)
    <3>1. CASE handle_attack(s)
      <4> DEFINE m == Msg("GARBAGE", Head(w2m[s]).body)
      <4>1. m \in ToWorker /\ m.type = "GARBAGE"
        BY <3>1, IncomingType, BodyTypes, MsgTypes DEF handle_attack, Msg
      <4>2. \E S : m2w' = HubSend(m2w, S, m)
        BY <3>1 DEF handle_attack
      <4> QED
        BY <4>1, <4>2
    <3>2. CASE handle_feed(s)
      <4>1. Head(w2m[s]) \in ToWorker /\ Head(w2m[s]).type = "FEED"
        BY <3>2, IncomingType DEF handle_feed, ToMaster, ToWorker
      <4>2. \E S : m2w' = HubSend(m2w, S, Head(w2m[s]))
        BY <3>2 DEF handle_feed
      <4> QED
        BY <4>1, <4>2
    <3> QED
      BY <1>4, <3>1, <3>2
  <2>2. \A u \in Slots : View(m2w'[u], global[u]) = View(m2w[u], global[u])
    BY <1>0, <2>1, SendKeepsView
  <2>3. UNCHANGED <<rooms, players, wpc, global>>
    BY <1>4 DEF handle_attack, handle_feed, masterVars, workerVars
  <2>4. AllCurrent(rooms, m2w', players)
    BY <1>0, <2>2 DEF AllCurrent, Running
  <2> QED
    BY <2>3, <2>4, MasterCurrent
<1>5. ASSUME CloseRoom(s), UNCHANGED workerVars PROVE RosterCurrent'
  <2> DEFINE rs == [rooms EXCEPT ![s].used = FALSE]
             ps == CountOut(players, LostWith(s))
             q  == broadcast_roster(m2w, rs, ps)
  <2>1. ps \in Seq(PlayerRec)
    BY <1>0, CountOutType
  <2>2. q \in M2W /\ AllCurrent(rs, q, ps)
    BY <1>0, <2>1, BroadcastType, BroadcastCurrent
  <2>3. rooms' = rs /\ UNCHANGED <<wpc, global>>
    BY <1>5 DEF CloseRoom, workerVars
  <2>4. CASE UNCHANGED <<players, m2w>>
    <3>1. \A u \in Slots : rooms'[u].used /\ rooms'[u].started => rooms[u].used /\ rooms[u].started
      BY <1>0, <2>3 DEF RoomRec
    <3> QED
      BY <2>3, <2>4, <3>1, QuietCurrent
  <2>5. CASE players' = ps /\ check_global_end(q, rs, ps)
    <3> HIDE DEF q, ps, rs
    <3>1. AllCurrent(rs, m2w', ps)
      BY <2>1, <2>2, <2>5, EndKeepsCurrent
    <3> QED
      BY <2>3, <2>5, <3>1, MasterCurrent
  <2> QED
    BY <1>5, <2>4, <2>5 DEF CloseRoom
<1>6. CASE hub_closed(s)
  BY <1>5, <1>6 DEF hub_closed
<1> QED
  BY <1>1, <1>2, <1>3, <1>4, <1>5, <1>6 DEF MasterHandles

LEMMA CurrentWorker ==
  ASSUME TypeOK, RosterCurrent, NEW s \in Slots,
         \/ WorkerSteps(s) \/ tick_attack(s) \/ crash(s) \/ hub_reset(s)
         \/ handshake_done(s) \/ handshake_fail(s) \/ \E c \in Clients : lobby_accept(s, c)
  PROVE  RosterCurrent'
<1>0. /\ m2w \in [Slots -> Seq(ToWorker)] /\ wpc \in [Slots -> WorkerPc]
      /\ global \in [Slots -> Seq(RosterEntry)]
  BY DEF TypeOK
<1>1. ASSUME Vanish(s), UNCHANGED masterVars PROVE RosterCurrent'
  <2>1. /\ m2w' = [m2w EXCEPT ![s] = <<>>] /\ wpc' = [wpc EXCEPT ![s] = "gone"]
        /\ global' = [global EXCEPT ![s] = <<>>] /\ UNCHANGED <<rooms, players>>
    BY <1>1 DEF Vanish, masterVars
  <2> QED
    BY <1>0, <2>1, DrainCurrent
<1>2. CASE room_exit(s) \/ lobby_eof(s) \/ crash(s)
  BY <1>1, <1>2 DEF room_exit, lobby_eof, crash
<1>3. ASSUME m2w' = [m2w EXCEPT ![s] = <<>>], UNCHANGED <<rooms, players>>,
             global' = [global EXCEPT ![s] = LastOf(m2w[s], "ROSTER", @)],
             wpc[s] \in {"drain", "run"},
             UNCHANGED wpc \/ \E pc : wpc' = [wpc EXCEPT ![s] = pc]
      PROVE  RosterCurrent'
  BY <1>0, <1>3, DrainCurrent
<1>4. CASE lobby_drain(s)
  BY <1>3, <1>4 DEF lobby_drain, masterVars
<1>5. CASE lobby_start(s)
  BY <1>3, <1>5 DEF lobby_start, masterVars
<1>6. CASE tick(s)
  BY <1>3, <1>6 DEF tick, TickGoesOn, DrainHub, masterVars
<1>7. CASE tick_attack(s)
  <2>1. /\ m2w' = [m2w EXCEPT ![s] = <<>>]
        /\ global' = [global EXCEPT ![s] = LastOf(m2w[s], "ROSTER", @)]
    BY <1>7 DEF tick_attack, DrainHub
  <2>2. UNCHANGED <<rooms, players, wpc>> /\ wpc[s] = "run"
    BY <1>7 DEF tick_attack, TickGoesOn, masterVars
  <2> QED
    BY <1>3, <2>1, <2>2
<1>8. CASE tick_over(s)
  BY <1>3, <1>8 DEF tick_over, DrainHub, masterVars
<1>9. CASE hub_reset(s)
  <2>1. /\ m2w' = [m2w EXCEPT ![s] = <<>>] /\ ~rooms[s].used
        /\ UNCHANGED <<rooms, players, wpc, global>>
    BY <1>9 DEF hub_reset, masterVars, workerVars
  <2> QED
    BY <1>0, <2>1, DrainCurrent
<1>10. CASE lobby_poll(s) \/ bind_port(s)
  <2>1. UNCHANGED <<rooms, players, global, m2w>> /\ \E pc : wpc' = [wpc EXCEPT ![s] = pc]
    BY <1>10 DEF lobby_poll, bind_port, masterVars
  <2>2. wpc[s] \in {"init", "poll"}
    BY <1>10 DEF lobby_poll, bind_port
  <2>3. \A u \in Slots : wpc[u] \in {"none", "gone"} => wpc'[u] = wpc[u]
    BY <1>0, <2>1, <2>2
  <2> QED
    BY <2>1, <2>3 DEF RosterCurrent, Live
<1>11. CASE handshake_done(s) \/ handshake_fail(s) \/ \E c \in Clients : lobby_accept(s, c)
  BY <1>11, QuietCurrent DEF handshake_done, handshake_fail, lobby_accept, masterVars
<1> QED
  BY <1>2, <1>4, <1>5, <1>6, <1>7, <1>8, <1>9, <1>10, <1>11 DEF WorkerSteps

\* A running room that has read its hub knows the master's table, for any number
\* of rooms, joins, eliminations, crashes and reused slots (main.c:228-267,
\* main.c:312-337, main.c:341-378; room.c:171-179, room.c:268-275)
THEOREM RosterAlwaysCurrent == Spec => []RosterCurrent
<1>1. Init => RosterCurrent
  BY DEF Init, RosterCurrent, Running, NoRoom
<1>2. TypeOK /\ RosterCurrent /\ [Next]_vars => RosterCurrent'
  <2> SUFFICES ASSUME TypeOK, RosterCurrent, [Next]_vars PROVE RosterCurrent'
    OBVIOUS
  <2>0. rooms \in [Slots -> RoomRec] /\ m2w \in [Slots -> Seq(ToWorker)] /\ wpc \in [Slots -> WorkerPc]
    BY DEF TypeOK
  <2>1. CASE UNCHANGED vars
    BY <2>1, QuietCurrent DEF vars, masterVars, workerVars
  <2>2. ASSUME NEW c \in Clients,
               \/ accept_refuse(c) \/ connect_refused(c)
        PROVE  RosterCurrent'
    BY <2>2, QuietCurrent DEF accept_refuse, connect_refused, masterVars, workerVars
  <2>3. ASSUME NEW c \in Clients, accept_client(c) PROVE RosterCurrent'
    <3>1. \E x \in Slots : rooms' = [rooms EXCEPT ![x].redirected = @ + 1]
      <4>1. Least(Filling) \in Slots
        BY <2>3, LeastSlot DEF accept_client, Filling
      <4> QED
        BY <2>3, <4>1 DEF accept_client
    <3>2. \A u \in Slots : rooms'[u].used = rooms[u].used /\ rooms'[u].started = rooms[u].started
      BY <2>0, <3>1 DEF RoomRec
    <3> QED
      BY <2>3, <3>2, QuietCurrent DEF accept_client, workerVars
  <2>4. ASSUME NEW c \in Clients, accept_spawn(c) PROVE RosterCurrent'
    <3> DEFINE s == Least(Slots \ Used(rooms))
               r == [NoRoom EXCEPT !.used = TRUE, !.redirected = 1]
    <3>1. s \in Slots
      BY <2>4, LeastSlot DEF accept_spawn
    <3>2. /\ m2w' = [m2w EXCEPT ![s] = <<>>] /\ rooms' = [rooms EXCEPT ![s] = r]
          /\ wpc' = [wpc EXCEPT ![s] = "init"] /\ UNCHANGED <<players, global>>
      BY <2>4 DEF accept_spawn
    <3>3. r.started = FALSE
      BY DEF NoRoom
    <3> HIDE DEF s, r
    <3>4. \A u \in Running(rooms') : /\ u # s /\ u \in Running(rooms) /\ m2w'[u] = m2w[u]
                                     /\ wpc'[u] = wpc[u]
      BY <2>0, <3>1, <3>2, <3>3 DEF Running
    <3> QED
      BY <3>2, <3>4 DEF RosterCurrent, Live
  <2>5. CASE press_enter
    <3>1. AllCurrent(rooms', m2w', players)
      BY <2>5, CurrentIs, StartCurrent DEF press_enter, TypeOK, M2W
    <3> QED
      BY <2>5, <3>1, MasterCurrent DEF press_enter, workerVars
  <2>6. CASE on_sigint \/ loop_exit
    BY <2>6, QuietCurrent DEF on_sigint, loop_exit, workerVars
  <2>7. CASE shutdown
    <3>1. CASE Used(rooms) = {}
      BY <2>7, <3>1, QuietCurrent DEF shutdown, workerVars
    <3>2. CASE Used(rooms) # {}
      <4>1. Least(Used(rooms)) \in Slots
        BY <3>2, LeastSlot DEF Used
      <4> QED
        BY <2>7, <3>2, <4>1, CurrentMaster DEF shutdown
    <3> QED
      BY <3>1, <3>2
  <2> QED
    BY <2>1, <2>2, <2>3, <2>4, <2>5, <2>6, <2>7, CurrentMaster, CurrentWorker DEF Next
<1> QED
  BY <1>1, <1>2, TypeCorrect, PTL DEF Spec

-----------------------------------------------------------------------------
(* The life of a room.  LifeInv orders what the master and a worker know of   *)
(* each other: HUB_READY is sent after the bind, HUB_START answers a          *)
(* HUB_JOINED, and a worker reports nobody it has not counted.                *)

Has(q, t) == OfType(q, t) # {}

\* The master believes the room is ready, or is about to: the port is bound
Bound(s) ==
  rooms[s].ready \/ Has(w2m[s], "READY") => wpc[s] \notin {"none", "init"}

Ordered(s) == Has(m2w[s], "START") \/ lobby[s].start_ordered
Known(s)   == rooms[s].joined >= 1 \/ Has(w2m[s], "JOINED")

\* A worker in its lobby whose arrivals the master knows of, or that is ordered
\* to start, has reported somebody
Awaited(s) ==
  wpc[s] \in {"init", "poll", "drain"} /\ (Known(s) \/ Ordered(s))
    => lobby[s].reported >= 1

\* Clients never leave the list, so it holds everyone who was reported
Counted(s) == lobby[s].reported <= Len(conn[s])

LifeInv == \A s \in Slots : Bound(s) /\ Awaited(s) /\ Counted(s)

LEMMA HasTail ==
  ASSUME NEW X, NEW q \in Seq(X), q # <<>>, NEW t, Has(Tail(q), t)
  PROVE  Has(q, t)
<1>1. PICK i \in DOMAIN Tail(q) : Tail(q)[i].type = t
  BY DEF Has, OfType
<1>2. i \in 1..(Len(q) - 1) /\ Len(q) \in Nat /\ Tail(q)[i] = q[i + 1]
  OBVIOUS
<1>3. i + 1 \in DOMAIN q /\ q[i + 1].type = t
  BY <1>1, <1>2
<1> QED
  BY <1>3 DEF Has, OfType

LEMMA HasHead ==
  ASSUME NEW X, NEW q \in Seq(X), q # <<>>
  PROVE  Has(q, Head(q).type)
<1>1. 1 \in DOMAIN q /\ Head(q) = q[1]
  OBVIOUS
<1> QED
  BY <1>1 DEF Has, OfType

LEMMA HasConcat ==
  ASSUME NEW X, NEW q \in Seq(X), NEW r \in Seq(X), NEW t, Has(q \o r, t), ~Has(q, t)
  PROVE  Has(r, t)
<1>1. PICK i \in DOMAIN (q \o r) : (q \o r)[i].type = t
  BY DEF Has, OfType
<1>2. i \in 1..(Len(q) + Len(r)) /\ Len(q) \in Nat /\ Len(r) \in Nat
  BY ConcatProperties
<1>3. CASE i <= Len(q)
  <2>1. i \in DOMAIN q /\ (q \o r)[i] = q[i]
    BY <1>2, <1>3
  <2> QED
    BY <1>1, <2>1 DEF Has, OfType
<1>4. CASE i > Len(q)
  <2>1. i - Len(q) \in DOMAIN r /\ (q \o r)[i] = r[i - Len(q)]
    BY <1>2, <1>4
  <2> QED
    BY <1>1, <2>1 DEF Has, OfType
<1> QED
  BY <1>2, <1>3, <1>4

LEMMA HasAppend ==
  ASSUME NEW X, NEW q \in Seq(X), NEW m \in X, NEW t, Has(Append(q, m), t), m.type # t
  PROVE  Has(q, t)
<1>1. PICK i \in DOMAIN Append(q, m) : Append(q, m)[i].type = t
  BY DEF Has, OfType
<1>2. i \in 1..(Len(q) + 1) /\ Len(q) \in Nat
  OBVIOUS
<1>3. i # Len(q) + 1
  BY <1>1, <1>2
<1>4. i \in DOMAIN q /\ Append(q, m)[i] = q[i]
  BY <1>2, <1>3
<1> QED
  BY <1>1, <1>4 DEF Has, OfType

LEMMA HasNothing == \A t : ~Has(<<>>, t)
  BY DEF Has, OfType

LEMMA HasCopies ==
  ASSUME NEW n, NEW m, NEW t, m.type # t
  PROVE  ~Has(Copies(n, m), t)
  BY DEF Has, OfType, Copies

\* Sending anything but HUB_START orders nobody to start
LEMMA SendNoStart ==
  ASSUME NEW q \in M2W, NEW S, NEW m \in ToWorker, m.type # "START", NEW u \in Slots,
         Has(HubSend(q, S, m)[u], "START")
  PROVE  Has(q[u], "START")
<1>1. q[u] \in Seq(ToWorker)
  BY DEF M2W
<1>2. HubSend(q, S, m)[u] = q[u] \/ HubSend(q, S, m)[u] = Append(q[u], m)
  BY DEF HubSend
<1>3. Has(Append(q[u], m), "START") => Has(q[u], "START")
  BY <1>1, HasAppend
<1> QED
  BY <1>2, <1>3

LEMMA BroadcastNoStart ==
  ASSUME NEW q \in M2W, NEW rs, NEW ps \in Seq(PlayerRec), NEW u \in Slots,
         Has(broadcast_roster(q, rs, ps)[u], "START")
  PROVE  Has(q[u], "START")
<1> DEFINE m == Msg("ROSTER", Roster(ps))
<1>1. m \in ToWorker /\ m.type # "START"
  BY RosterMsg
<1>2. Has(HubSend(q, Running(rs), m)[u], "START")
  BY DEF broadcast_roster
<1> HIDE DEF m
<1> QED
  BY <1>1, <1>2, SendNoStart

LEMMA EndNoStart ==
  ASSUME NEW q \in M2W, NEW rs, NEW ps \in Seq(PlayerRec), NEW u \in Slots,
         check_global_end(q, rs, ps), Has(m2w'[u], "START")
  PROVE  Has(q[u], "START")
<1> DEFINE m == Msg("GAMEOVER", Standing(ps))
<1>1. m \in ToWorker /\ m.type # "START"
  BY StandingType, MsgTypes DEF Msg
<1>2. m2w' = q \/ m2w' = HubSend(q, Used(rs), m)
  BY DEF check_global_end
<1> HIDE DEF m
<1> QED
  BY <1>1, <1>2, SendNoStart

\* start_all_rooms orders only rooms the master knows somebody in
LEMMA StartOnlyJoined ==
  ASSUME NEW q \in M2W, NEW rs \in [Slots -> RoomRec], NEW ps \in Seq(PlayerRec),
         start_all_rooms(q, rs, ps), NEW u \in Slots, Has(m2w'[u], "START"),
         ~Has(q[u], "START")
  PROVE  rs[u].joined >= 1
<1> DEFINE E == Startable(rs)
           R == Msg("ROSTER", Roster(ps))
<1>1. q[u] \in Seq(ToWorker)
  BY DEF M2W
<1>2. R \in ToWorker /\ R.type # "START"
  BY RosterMsg
<1>3. E \subseteq Slots /\ IsFiniteSet(E) /\ Cardinality(E) \in Nat
  BY SlotsFinite, FS_Subset, FS_CardinalityType DEF Startable
<1> DEFINE C == Copies(Cardinality(E), R)
<1>4. C \in Seq(ToWorker) /\ ~Has(C, "START")
  BY <1>2, <1>3, CopiesType, HasCopies
<1>5. u \in E \/ m2w'[u] = q[u] \/ m2w'[u] = q[u] \o C
  BY DEF start_all_rooms
<1> HIDE DEF C
<1>6. ~Has(q[u] \o C, "START")
  BY <1>1, <1>4, HasConcat
<1>7. u \in E
  BY <1>5, <1>6
<1> QED
  BY <1>7 DEF Startable

\* What a step of the master may do to what it and the worker of slot u know
Heard(u) ==
  /\ rooms'[u].ready => rooms[u].ready \/ Has(w2m[u], "READY")
  /\ rooms'[u].joined >= 1 => Known(u)
  /\ \A t \in {"READY", "JOINED"} : Has(w2m'[u], t) => Has(w2m[u], t)
  /\ Has(m2w'[u], "START") => Known(u) \/ Has(m2w[u], "START")

LEMMA LifeHeard ==
  ASSUME LifeInv, UNCHANGED <<wpc, lobby, conn>>, \A u \in Slots : Heard(u)
  PROVE  LifeInv'
<1> SUFFICES ASSUME NEW u \in Slots
             PROVE  Bound(u)' /\ Awaited(u)' /\ Counted(u)'
  BY DEF LifeInv
<1>1. Bound(u) /\ Awaited(u) /\ Counted(u) /\ Heard(u)
  BY DEF LifeInv
<1>2. Bound(u)'
  BY <1>1 DEF Bound, Heard
<1>3. Awaited(u)'
  BY <1>1 DEF Awaited, Heard, Known, Ordered
<1>4. Counted(u)'
  BY <1>1 DEF Counted
<1> QED
  BY <1>2, <1>3, <1>4

LEMMA HeardIncoming ==
  ASSUME TypeOK, NEW s \in Slots, NEW t, Incoming(s, t)
  PROVE  /\ Has(w2m[s], t)
         /\ \A u \in Slots, k \in {"READY", "JOINED"} : Has(w2m'[u], k) => Has(w2m[u], k)
<1>1. w2m \in [Slots -> Seq(ToMaster)]
  BY DEF TypeOK
<1>2. /\ w2m[s] # <<>> /\ Head(w2m[s]).type = t /\ w2m[s] \in Seq(ToMaster)
      /\ w2m' = [w2m EXCEPT ![s] = Tail(@)]
  BY <1>1 DEF Incoming
<1>3. Has(w2m[s], t)
  BY <1>2, HasHead
<1>4. ASSUME NEW u \in Slots, NEW k, Has(w2m'[u], k) PROVE Has(w2m[u], k)
  <2>1. CASE u = s
    <3>1. w2m'[s] = Tail(w2m[s])
      BY <1>1, <1>2
    <3> QED
      BY <1>2, <1>4, <2>1, <3>1, HasTail
  <2>2. CASE u # s
    BY <1>1, <1>2, <1>4, <2>2
  <2> QED
    BY <2>1, <2>2
<1> QED
  BY <1>3, <1>4

LEMMA LifeMaster ==
  ASSUME TypeOK, LifeInv, NEW s \in Slots,
         \/ MasterHandles(s)
         \/ CloseRoom(s) /\ UNCHANGED <<w2m, workerVars>>
  PROVE  LifeInv'
<1>0. m2w \in M2W /\ players \in Seq(PlayerRec) /\ rooms \in [Slots -> RoomRec]
  BY DEF TypeOK, M2W
<1>1. CASE handle_ready(s)
  <2>1. Incoming(s, "READY")
    BY <1>1 DEF handle_ready
  <2>2. Has(w2m[s], "READY")
    BY <2>1, HeardIncoming
  <2>3. \A u \in Slots, k \in {"READY", "JOINED"} : Has(w2m'[u], k) => Has(w2m[u], k)
    BY <2>1, HeardIncoming
  <2>4. \A u \in Slots : /\ rooms'[u].ready => rooms[u].ready \/ u = s
                         /\ rooms'[u].joined = rooms[u].joined
    BY <1>0, <1>1 DEF RoomRec, handle_ready
  <2>5. UNCHANGED <<m2w, wpc, conn, lobby>>
    BY <1>1 DEF handle_ready, workerVars, serverVars
  <2>6. \A u \in Slots : Heard(u)
    BY <2>2, <2>3, <2>4, <2>5 DEF Heard, Known
  <2> QED
    BY <2>5, <2>6, LifeHeard
<1>2. CASE handle_joined(s)
  <2> DEFINE rec == [id |-> Head(w2m[s]).body, room |-> s, alive |-> TRUE]
             ps == add_player(players, rec)
             rs == [rooms EXCEPT ![s].joined = @ + 1]
             q  == broadcast_roster(m2w, rs, ps)
  <2>1. rec \in PlayerRec
    BY <1>2, IncomingType, BodyTypes DEF handle_joined, PlayerRec
  <2>2. ps \in Seq(PlayerRec)
    <3> HIDE DEF rec
    <3> QED
      BY <1>0, <2>1 DEF add_player
  <2>3. rs \in [Slots -> RoomRec]
    <3>1. rooms[s] \in RoomRec
      BY DEF TypeOK
    <3>2. [rooms[s] EXCEPT !.joined = @ + 1] \in RoomRec
      BY <3>1 DEF RoomRec
    <3> QED
      BY <3>2 DEF TypeOK
  <2>4. q \in M2W
    BY <1>0, <2>2, BroadcastType
  <2>5. \A u \in Slots : Has(q[u], "START") => Has(m2w[u], "START")
    BY <1>0, <2>2, BroadcastNoStart
  <2>6. \A u \in Slots : /\ rs[u].ready = rooms[u].ready
                         /\ rs[u].joined >= 1 => rooms[u].joined >= 1 \/ u = s
    BY <1>0 DEF RoomRec
  <2>7. start_all_rooms(q, rs, ps) \/ (m2w' = q /\ rooms' = rs)
    BY <1>2 DEF handle_joined
  <2>8. Incoming(s, "JOINED") /\ UNCHANGED workerVars
    BY <1>2 DEF handle_joined
  <2>9. Has(w2m[s], "JOINED")
    BY <2>8, HeardIncoming
  <2>10. \A u \in Slots, k \in {"READY", "JOINED"} : Has(w2m'[u], k) => Has(w2m[u], k)
    BY <2>8, HeardIncoming
  <2> HIDE DEF q, rs, ps
  <2>11. \A u \in Slots : rs[u].joined >= 1 => Known(u)
    BY <2>6, <2>9 DEF Known
  <2>12. \A u \in Slots : rooms'[u].ready = rs[u].ready /\ rooms'[u].joined = rs[u].joined
    <3>1. CASE rooms' = rs
      BY <3>1
    <3>2. CASE start_all_rooms(q, rs, ps)
      <4>1. \A u \in Slots : rooms'[u] = rs[u] \/ rooms'[u] = [rs[u] EXCEPT !.started = TRUE]
        BY <3>2 DEF start_all_rooms
      <4> QED
        BY <2>3, <4>1, ZenonT(40) DEF RoomRec
    <3> QED
      BY <2>7, <3>1, <3>2
  <2>13. ASSUME NEW u \in Slots, Has(m2w'[u], "START") PROVE Has(q[u], "START") \/ rs[u].joined >= 1
    <3>1. CASE m2w' = q
      BY <2>13, <3>1
    <3>2. CASE start_all_rooms(q, rs, ps)
      BY <2>2, <2>3, <2>4, <2>13, <3>2, StartOnlyJoined
    <3> QED
      BY <2>7, <3>1, <3>2
  <2>14. \A u \in Slots : Heard(u)
    BY <2>5, <2>6, <2>10, <2>11, <2>12, <2>13 DEF Heard
  <2> QED
    BY <2>8, <2>14, LifeHeard DEF workerVars, serverVars
<1>3. CASE handle_eliminated(s)
  <2> DEFINE ps == CountOut(players, Entries(players, Head(w2m[s]).body))
             q  == broadcast_roster(m2w, rooms, ps)
  <2>1. ps \in Seq(PlayerRec)
    BY <1>0, CountOutType
  <2>2. q \in M2W
    BY <1>0, <2>1, BroadcastType
  <2>3. \A u \in Slots : Has(q[u], "START") => Has(m2w[u], "START")
    BY <1>0, <2>1, BroadcastNoStart
  <2>4. check_global_end(q, rooms, ps) /\ Incoming(s, "ELIMINATED") /\ UNCHANGED <<rooms, workerVars>>
    BY <1>3 DEF handle_eliminated
  <2> HIDE DEF q, ps
  <2>5. \A u \in Slots : Has(m2w'[u], "START") => Has(q[u], "START")
    BY <2>1, <2>2, <2>4, EndNoStart
  <2>6. \A u \in Slots, k \in {"READY", "JOINED"} : Has(w2m'[u], k) => Has(w2m[u], k)
    BY <2>4, HeardIncoming
  <2>7. \A u \in Slots : Heard(u)
    BY <2>3, <2>4, <2>5, <2>6 DEF Heard, Known
  <2> QED
    BY <2>4, <2>7, LifeHeard DEF workerVars, serverVars
<1>4. CASE handle_attack(s) \/ handle_feed(s)
  <2>1. \E S, m : m \in ToWorker /\ m.type # "START" /\ m2w' = HubSend(m2w, S, m)
    <3>1. CASE handle_attack(s)
      <4> DEFINE m == Msg("GARBAGE", Head(w2m[s]).body)
      <4>1. m \in ToWorker /\ m.type = "GARBAGE"
        BY <3>1, IncomingType, BodyTypes, MsgTypes DEF handle_attack, Msg
      <4>2. \E S : m2w' = HubSend(m2w, S, m)
        BY <3>1 DEF handle_attack
      <4> QED
        BY <4>1, <4>2
    <3>2. CASE handle_feed(s)
      <4>1. Head(w2m[s]) \in ToWorker /\ Head(w2m[s]).type = "FEED"
        BY <3>2, IncomingType DEF handle_feed, ToMaster, ToWorker
      <4>2. \E S : m2w' = HubSend(m2w, S, Head(w2m[s]))
        BY <3>2 DEF handle_feed
      <4> QED
        BY <4>1, <4>2
    <3> QED
      BY <1>4, <3>1, <3>2
  <2>2. \A u \in Slots : Has(m2w'[u], "START") => Has(m2w[u], "START")
    BY <1>0, <2>1, SendNoStart
  <2>3. UNCHANGED <<rooms, workerVars>> /\ \E t : Incoming(s, t)
    BY <1>4 DEF handle_attack, handle_feed, masterVars
  <2>4. \A u \in Slots, k \in {"READY", "JOINED"} : Has(w2m'[u], k) => Has(w2m[u], k)
    BY <2>3, HeardIncoming
  <2>5. \A u \in Slots : Heard(u)
    BY <2>2, <2>3, <2>4 DEF Heard, Known
  <2> QED
    BY <2>3, <2>5, LifeHeard DEF workerVars, serverVars
<1>5. ASSUME CloseRoom(s), UNCHANGED <<w2m, workerVars>> PROVE LifeInv'
  <2> DEFINE rs == [rooms EXCEPT ![s].used = FALSE]
             ps == CountOut(players, LostWith(s))
             q  == broadcast_roster(m2w, rs, ps)
  <2>1. ps \in Seq(PlayerRec)
    BY <1>0, CountOutType
  <2>2. q \in M2W
    BY <1>0, <2>1, BroadcastType
  <2>3. \A u \in Slots : Has(q[u], "START") => Has(m2w[u], "START")
    BY <1>0, <2>1, BroadcastNoStart
  <2>4. rooms' = rs /\ (m2w' = m2w \/ check_global_end(q, rs, ps))
    BY <1>5 DEF CloseRoom
  <2>5. \A u \in Slots : rs[u].ready = rooms[u].ready /\ rs[u].joined = rooms[u].joined
    BY <1>0 DEF RoomRec
  <2> HIDE DEF q, ps, rs
  <2>6. \A u \in Slots : Has(m2w'[u], "START") => Has(q[u], "START") \/ Has(m2w[u], "START")
    BY <2>1, <2>2, <2>4, EndNoStart
  <2>7. \A u \in Slots : Heard(u)
    BY <1>5, <2>3, <2>4, <2>5, <2>6 DEF Heard, Known
  <2> QED
    BY <1>5, <2>7, LifeHeard DEF workerVars, serverVars
<1>6. CASE hub_closed(s)
  BY <1>5, <1>6 DEF hub_closed
<1> QED
  BY <1>1, <1>2, <1>3, <1>4, <1>5, <1>6 DEF MasterHandles

\* A step of the worker of slot s leaves the other rooms alone
LEMMA LifeOthers ==
  ASSUME LifeInv, NEW s \in Slots, UNCHANGED rooms,
         \A u \in Slots \ {s} : /\ wpc'[u] = wpc[u] /\ lobby'[u] = lobby[u] /\ conn'[u] = conn[u]
                                /\ w2m'[u] = w2m[u] /\ m2w'[u] = m2w[u],
         Bound(s)' /\ Awaited(s)' /\ Counted(s)'
  PROVE  LifeInv'
<1> SUFFICES ASSUME NEW u \in Slots \ {s}
             PROVE  Bound(u)' /\ Awaited(u)' /\ Counted(u)'
  BY DEF LifeInv
<1>1. Bound(u) /\ Awaited(u) /\ Counted(u)
  BY DEF LifeInv
<1> QED
  BY <1>1 DEF Bound, Awaited, Counted, Known, Ordered

LEMMA LifeWorker ==
  ASSUME TypeOK, LifeInv, NEW s \in Slots,
         \/ WorkerSteps(s) \/ tick_attack(s) \/ crash(s) \/ hub_reset(s)
         \/ handshake_done(s) \/ handshake_fail(s) \/ \E c \in Clients : lobby_accept(s, c)
  PROVE  LifeInv'
<1>0. /\ m2w \in [Slots -> Seq(ToWorker)] /\ w2m \in [Slots -> Seq(ToMaster)]
      /\ wpc \in [Slots -> WorkerPc] /\ lobby \in [Slots -> LobbyRec]
      /\ conn \in [Slots -> Seq(Nat)] /\ Bound(s) /\ Awaited(s) /\ Counted(s)
  BY DEF TypeOK, LifeInv
<1>1. ASSUME Vanish(s), UNCHANGED masterVars PROVE LifeInv'
  <2>1. /\ m2w' = [m2w EXCEPT ![s] = <<>>] /\ wpc' = [wpc EXCEPT ![s] = "gone"]
        /\ conn' = [conn EXCEPT ![s] = <<>>] /\ lobby' = [lobby EXCEPT ![s] = FreshLobby]
        /\ UNCHANGED rooms
    BY <1>1 DEF Vanish, masterVars
  <2>2. w2m' = w2m \/ w2m' = [w2m EXCEPT ![s] = <<>>]
    BY <1>1 DEF Vanish
  <2>3. Bound(s)' /\ Awaited(s)'
    BY <1>0, <2>1 DEF Bound, Awaited
  <2>4. Counted(s)'
    BY <1>0, <2>1 DEF Counted, FreshLobby
  <2> QED
    BY <1>0, <2>1, <2>2, <2>3, <2>4, LifeOthers
<1>2. CASE room_exit(s) \/ lobby_eof(s) \/ crash(s)
  BY <1>1, <1>2 DEF room_exit, lobby_eof, crash
<1>3. CASE bind_port(s)
  <2> DEFINE m == <<Msg("READY", 0)>>
  <2>1. /\ wpc' = [wpc EXCEPT ![s] = "poll"] /\ wpc[s] = "init"
        /\ UNCHANGED <<rooms, m2w, conn, lobby>> /\ Report(s, m)
    BY <1>3 DEF bind_port, masterVars, serverVars
  <2>2. w2m'[s] = w2m[s] \/ w2m'[s] = w2m[s] \o m
    BY <1>0, <2>1 DEF Report
  <2>3. m \in Seq(ToMaster) /\ ~Has(m, "JOINED")
    <3>1. Msg("READY", 0) \in ToMaster /\ Msg("READY", 0).type = "READY"
      BY MsgTypes DEF Msg
    <3>2. DOMAIN m = {1} /\ m[1] = Msg("READY", 0)
      OBVIOUS
    <3> QED
      BY <3>1, <3>2 DEF Has, OfType
  <2>4. \A u \in Slots \ {s} : w2m'[u] = w2m[u]
    BY <1>0, <2>1 DEF Report
  <2> HIDE DEF m
  <2>5. Has(w2m'[s], "JOINED") => Has(w2m[s], "JOINED")
    BY <1>0, <2>2, <2>3, HasConcat
  <2>6. Bound(s)'
    BY <1>0, <2>1 DEF Bound
  <2>7. Awaited(s)'
    BY <1>0, <2>1, <2>5 DEF Awaited, Known, Ordered
  <2>8. Counted(s)'
    BY <1>0, <2>1 DEF Counted
  <2> QED
    BY <1>0, <2>1, <2>4, <2>6, <2>7, <2>8, LifeOthers
<1>4. CASE lobby_poll(s)
  <2> DEFINE n == Len(conn[s])
             r == lobby[s].reported
             js == [i \in 1..(n - r) |-> Msg("JOINED", conn[s][r + i])]
  <2>1. /\ wpc' = [wpc EXCEPT ![s] = "drain"] /\ wpc[s] = "poll"
        /\ UNCHANGED <<rooms, m2w, conn>> /\ Report(s, js)
        /\ lobby' = [lobby EXCEPT ![s].size = n, ![s].reported = n]
    BY <1>4 DEF lobby_poll, masterVars, serverVars
  <2>2. n \in Nat /\ r \in Nat /\ r <= n
    BY <1>0 DEF Counted, LobbyRec
  <2>3. lobby'[s].reported = n /\ lobby'[s].start_ordered = lobby[s].start_ordered
    BY <1>0, <2>1 DEF LobbyRec
  <2>4. w2m'[s] = w2m[s] \/ w2m'[s] = w2m[s] \o js
    BY <1>0, <2>1 DEF Report
  <2>5. \A u \in Slots \ {s} : w2m'[u] = w2m[u] /\ lobby'[u] = lobby[u]
    BY <1>0, <2>1 DEF Report
  <2>6. js \in Seq(ToMaster)
    <3>1. conn[s] \in Seq(Nat)
      BY <1>0
    <3>2. \A i \in 1..(n - r) : r + i \in 1..n
      BY <2>2
    <3>3. \A i \in 1..(n - r) : conn[s][r + i] \in Nat
      BY <3>1, <3>2
    <3>4. \A i \in 1..(n - r) : js[i] \in ToMaster
      BY <3>3, MsgTypes
    <3>5. n - r \in Nat
      BY <2>2
    <3>6. js = [i \in 1..(n - r) |-> js[i]]
      OBVIOUS
    <3> HIDE DEF js, n, r
    <3> QED
      BY <3>4, <3>5, <3>6
  <2>7. Has(js, "JOINED") => n >= 1
    <3>1. SUFFICES ASSUME Has(js, "JOINED") PROVE n >= 1
      OBVIOUS
    <3>2. PICK i \in DOMAIN js : TRUE
      BY <3>1 DEF Has, OfType
    <3>3. i \in 1..(n - r)
      OBVIOUS
    <3> QED
      BY <2>2, <3>3
  <2> HIDE DEF js
  <2>8. Has(w2m'[s], "JOINED") => Has(w2m[s], "JOINED") \/ n >= 1
    BY <1>0, <2>4, <2>6, <2>7, HasConcat
  <2> HIDE DEF n
  <2>9. Bound(s)'
    BY <1>0, <2>1 DEF Bound
  <2>10. Awaited(s)'
    <3>1. SUFFICES ASSUME Known(s)' \/ Ordered(s)' PROVE n >= 1
      BY <2>3 DEF Awaited
    <3>2. Known(s) \/ Ordered(s) => r >= 1
      BY <1>0, <2>1 DEF Awaited
    <3>3. (Known(s)' => Known(s) \/ n >= 1) /\ (Ordered(s)' => Ordered(s))
      BY <2>1, <2>3, <2>8 DEF Known, Ordered
    <3> QED
      BY <2>2, <3>1, <3>2, <3>3
  <2>11. Counted(s)'
    BY <2>1, <2>2, <2>3 DEF Counted, n
  <2> QED
    BY <1>0, <2>1, <2>5, <2>9, <2>10, <2>11, LifeOthers
<1>5. CASE lobby_drain(s) \/ lobby_start(s)
  <2>1. /\ m2w' = [m2w EXCEPT ![s] = <<>>] /\ lobby' = [lobby EXCEPT ![s] = Drained(s)]
        /\ UNCHANGED <<rooms, w2m, conn>> /\ wpc[s] = "drain"
        /\ wpc' = [wpc EXCEPT ![s] = "poll"] \/ wpc' = [wpc EXCEPT ![s] = "run"]
    BY <1>5 DEF lobby_drain, lobby_start, masterVars, serverVars
  <2>2. /\ lobby'[s].reported = lobby[s].reported
        /\ lobby'[s].start_ordered = (lobby[s].start_ordered \/ Has(m2w[s], "START"))
    BY <1>0, <2>1 DEF Drained, LobbyRec, Has
  <2>3. ~Has(m2w'[s], "START") /\ wpc'[s] \in {"poll", "run"}
    BY <1>0, <2>1, HasNothing
  <2>4. Bound(s)'
    BY <2>3 DEF Bound
  <2>5. Awaited(s)'
    BY <1>0, <2>1, <2>2, <2>3 DEF Awaited, Known, Ordered
  <2>6. Counted(s)'
    BY <1>0, <2>1, <2>2 DEF Counted
  <2> QED
    BY <1>0, <2>1, <2>4, <2>5, <2>6, LifeOthers
<1>6. CASE tick(s) \/ tick_attack(s) \/ tick_over(s)
  <2>1. m2w' = [m2w EXCEPT ![s] = <<>>]
    <3>1. CASE tick(s)
      BY <3>1 DEF tick, DrainHub
    <3>2. CASE tick_attack(s)
      BY <3>2 DEF tick_attack, DrainHub
    <3>3. CASE tick_over(s)
      BY <3>3 DEF tick_over, DrainHub
    <3> QED
      BY <1>6, <3>1, <3>2, <3>3
  <2>2. /\ UNCHANGED <<rooms, conn, lobby>> /\ wpc[s] = "run"
        /\ UNCHANGED wpc \/ wpc' = [wpc EXCEPT ![s] = "over"]
    BY <1>6 DEF tick, tick_attack, tick_over, TickGoesOn, masterVars, serverVars
  <2>3. \A u \in Slots \ {s} : w2m'[u] = w2m[u]
    <3>1. w2m' = w2m \/ \E ms : Report(s, ms)
      <4>1. CASE tick(s)
        BY <4>1 DEF tick
      <4>2. CASE tick_attack(s)
        BY <4>2 DEF tick_attack
      <4>3. CASE tick_over(s)
        BY <4>3 DEF tick_over
      <4> QED
        BY <1>6, <4>1, <4>2, <4>3
    <3> QED
      BY <1>0, <3>1 DEF Report
  <2>4. wpc'[s] \in {"run", "over"}
    BY <1>0, <2>2
  <2>5. Bound(s)' /\ Awaited(s)'
    BY <2>4 DEF Bound, Awaited
  <2>6. Counted(s)'
    BY <1>0, <2>2 DEF Counted
  <2> QED
    BY <1>0, <2>1, <2>2, <2>3, <2>5, <2>6, LifeOthers
<1>7. CASE hub_reset(s)
  <2>1. m2w' = [m2w EXCEPT ![s] = <<>>] /\ UNCHANGED <<rooms, w2m, wpc, lobby, conn>>
    BY <1>7 DEF hub_reset, masterVars, workerVars, serverVars
  <2>2. \A u \in Slots : Has(m2w'[u], "START") => Has(m2w[u], "START")
    BY <1>0, <2>1, HasNothing
  <2>3. \A u \in Slots : Heard(u)
    BY <2>1, <2>2 DEF Heard, Known
  <2> QED
    BY <2>1, <2>3, LifeHeard
<1>8. CASE handshake_done(s)
  <2>1. conn' = [conn EXCEPT ![s] = Append(@, handshake[s])] /\ UNCHANGED <<rooms, m2w, w2m, wpc, lobby>>
    BY <1>8 DEF handshake_done, masterVars
  <2>2. Counted(s)'
    <3>1. handshake[s] \in Nat /\ lobby[s].reported \in Nat
      BY <1>0 DEF TypeOK, LobbyRec
    <3>2. conn'[s] = Append(conn[s], handshake[s])
      BY <1>0, <2>1
    <3>3. Len(conn'[s]) = Len(conn[s]) + 1 /\ Len(conn[s]) \in Nat
      BY <1>0, <3>1, <3>2
    <3> QED
      BY <1>0, <2>1, <3>1, <3>3 DEF Counted
  <2>3. Bound(s)' /\ Awaited(s)'
    BY <1>0, <2>1 DEF Bound, Awaited, Known, Ordered
  <2> QED
    BY <1>0, <2>1, <2>2, <2>3, LifeOthers
<1>9. CASE handshake_fail(s) \/ \E c \in Clients : lobby_accept(s, c)
  <2>1. UNCHANGED <<rooms, m2w, w2m, wpc, lobby, conn>>
    BY <1>9 DEF handshake_fail, lobby_accept, masterVars
  <2> QED
    BY <2>1, LifeHeard DEF Heard, Known
<1> QED
  BY <1>2, <1>3, <1>4, <1>5, <1>6, <1>7, <1>8, <1>9 DEF WorkerSteps

\* LifeInv holds in every state: the invariant behind the two theorems below
LEMMA LifeHolds == Spec => []LifeInv
<1>1. Init => LifeInv
  <2> SUFFICES ASSUME Init, NEW s \in Slots PROVE Bound(s) /\ Awaited(s) /\ Counted(s)
    BY DEF LifeInv
  <2>1. /\ rooms[s] = NoRoom /\ w2m[s] = <<>> /\ wpc[s] = "none"
        /\ lobby[s] = FreshLobby /\ conn[s] = <<>>
    BY DEF Init
  <2>2. Bound(s)
    BY <2>1, HasNothing DEF Bound, NoRoom
  <2>3. Awaited(s)
    BY <2>1 DEF Awaited
  <2>4. Counted(s)
    BY <2>1 DEF Counted, FreshLobby
  <2> QED
    BY <2>2, <2>3, <2>4
<1>2. TypeOK /\ LifeInv /\ [Next]_vars => LifeInv'
  <2> SUFFICES ASSUME TypeOK, LifeInv, [Next]_vars PROVE LifeInv'
    OBVIOUS
  <2>0. /\ rooms \in [Slots -> RoomRec] /\ m2w \in [Slots -> Seq(ToWorker)]
        /\ w2m \in [Slots -> Seq(ToMaster)] /\ wpc \in [Slots -> WorkerPc]
        /\ lobby \in [Slots -> LobbyRec] /\ conn \in [Slots -> Seq(Nat)]
    BY DEF TypeOK
  <2>1. ASSUME UNCHANGED <<wpc, lobby, conn, m2w, w2m>>,
               \A u \in Slots : rooms'[u].ready = rooms[u].ready /\ rooms'[u].joined = rooms[u].joined
        PROVE  LifeInv'
    BY <2>1, LifeHeard DEF Heard, Known
  <2>2. CASE UNCHANGED vars
    BY <2>1, <2>2 DEF vars, masterVars, workerVars, serverVars
  <2>3. ASSUME NEW c \in Clients, accept_refuse(c) \/ connect_refused(c)
        PROVE  LifeInv'
    BY <2>1, <2>3 DEF accept_refuse, connect_refused, masterVars, workerVars, serverVars
  <2>4. ASSUME NEW c \in Clients, accept_client(c) PROVE LifeInv'
    <3>1. \E x \in Slots : rooms' = [rooms EXCEPT ![x].redirected = @ + 1]
      <4>1. Least(Filling) \in Slots
        BY <2>4, LeastSlot DEF accept_client, Filling
      <4> QED
        BY <2>4, <4>1 DEF accept_client
    <3>2. \A u \in Slots : rooms'[u].ready = rooms[u].ready /\ rooms'[u].joined = rooms[u].joined
      BY <2>0, <3>1 DEF RoomRec
    <3> QED
      BY <2>1, <2>4, <3>2 DEF accept_client, workerVars, serverVars
  <2>5. ASSUME NEW c \in Clients, accept_spawn(c) PROVE LifeInv'
    <3> DEFINE r == [NoRoom EXCEPT !.used = TRUE, !.redirected = 1]
    <3>1. Least(Slots \ Used(rooms)) \in Slots
      BY <2>5, LeastSlot DEF accept_spawn
    <3>2. PICK s \in Slots :
            /\ m2w' = [m2w EXCEPT ![s] = <<>>] /\ w2m' = [w2m EXCEPT ![s] = <<>>]
            /\ rooms' = [rooms EXCEPT ![s] = r] /\ lobby' = [lobby EXCEPT ![s] = FreshLobby]
            /\ wpc' = [wpc EXCEPT ![s] = "init"] /\ UNCHANGED conn
      BY <2>5, <3>1 DEF accept_spawn
    <3>3. r.ready = FALSE /\ r.joined = 0
      BY DEF NoRoom
    <3> HIDE DEF r
    <3> SUFFICES ASSUME NEW u \in Slots PROVE Bound(u)' /\ Awaited(u)' /\ Counted(u)'
      BY DEF LifeInv
    <3>4. Bound(u) /\ Awaited(u) /\ Counted(u)
      BY DEF LifeInv
    <3>5. CASE u = s
      <4>1. /\ m2w'[s] = <<>> /\ w2m'[s] = <<>> /\ rooms'[s] = r /\ lobby'[s] = FreshLobby
        BY <2>0, <3>1, <3>2
      <4>2. Bound(s)' /\ ~Known(s)' /\ ~Ordered(s)'
        BY <3>3, <4>1, HasNothing DEF Bound, Known, Ordered, FreshLobby
      <4>3. Counted(s)'
        <5>1. conn[s] \in Seq(Nat)
          BY <2>0, <3>1
        <5>2. Len(conn[s]) >= 0
          BY <5>1
        <5> QED
          BY <3>2, <4>1, <5>2 DEF Counted, FreshLobby
      <4> QED
        BY <3>5, <4>2, <4>3 DEF Awaited
    <3>6. CASE u # s
      BY <2>0, <3>2, <3>4, <3>6 DEF Bound, Awaited, Counted, Known, Ordered
    <3> QED
      BY <3>5, <3>6
  <2>6. CASE press_enter
    <3>1. \A u \in Slots : rooms'[u].ready = rooms[u].ready /\ rooms'[u].joined = rooms[u].joined
      <4>1. \A u \in Slots : rooms'[u] = rooms[u] \/ rooms'[u] = [rooms[u] EXCEPT !.started = TRUE]
        BY <2>6 DEF press_enter, start_all_rooms
      <4> QED
        BY <2>0, <4>1 DEF RoomRec
    <3>2. \A u \in Slots : Has(m2w'[u], "START") => Has(m2w[u], "START") \/ rooms[u].joined >= 1
      BY <2>6, StartOnlyJoined DEF press_enter, TypeOK, M2W
    <3>3. UNCHANGED <<w2m, wpc, lobby, conn>>
      BY <2>6 DEF press_enter, workerVars, serverVars
    <3>4. \A u \in Slots : Heard(u)
      BY <3>1, <3>2, <3>3 DEF Heard, Known
    <3> QED
      BY <3>3, <3>4, LifeHeard
  <2>7. CASE on_sigint \/ loop_exit
    BY <2>1, <2>7 DEF on_sigint, loop_exit, workerVars, serverVars
  <2>8. CASE shutdown
    <3>1. CASE Used(rooms) = {}
      BY <2>1, <2>8, <3>1 DEF shutdown, workerVars, serverVars
    <3>2. CASE Used(rooms) # {}
      <4>1. Least(Used(rooms)) \in Slots
        BY <3>2, LeastSlot DEF Used
      <4> QED
        BY <2>8, <3>2, <4>1, LifeMaster DEF shutdown
    <3> QED
      BY <3>1, <3>2
  <2> QED
    BY <2>2, <2>3, <2>4, <2>5, <2>6, <2>7, <2>8, LifeMaster, LifeWorker DEF Next
<1> QED
  BY <1>1, <1>2, TypeCorrect, PTL DEF Spec

\* No worker is ordered to start a match nobody is in, for any number of rooms,
\* however joins, ENTER, crashes and reused slots interleave (main.c:244-259,
\* main.c:354-369; room.c:159-185)
THEOREM NoMatchIsEmpty == Spec => []NoEmptyMatch
<1>1. LifeInv /\ TypeOK => NoEmptyMatch
  <2> SUFFICES ASSUME LifeInv, TypeOK, NEW s \in Slots, Accepting(s), Drained(s).start_ordered
               PROVE  lobby[s].reported >= 1
    BY DEF NoEmptyMatch
  <2>1. lobby[s] \in LobbyRec
    BY DEF TypeOK
  <2>2. Ordered(s)
    BY <2>1 DEF Drained, LobbyRec, Ordered, Has
  <2> QED
    BY <2>2 DEF LifeInv, Awaited, Accepting
<1> QED
  BY <1>1, LifeHolds, TypeCorrect, PTL

\* A client is sent to a room's port only after the worker has bound it, for any
\* number of clients, rooms, failed binds and reused slots (main.c:198-223,
\* main.c:346-353; room.c:138-144)
THEOREM RedirectsFollowBind == Spec => RedirectAfterBind
<1> DEFINE Step == \A c \in Clients :
                     client[c].pc # "redirected" /\ client'[c].pc = "redirected"
                       => wpc[client'[c].slot] \notin {"none", "init"}
<1>1. TypeOK /\ LifeInv /\ [Next]_vars => [Step]_vars
  <2> SUFFICES ASSUME TypeOK, LifeInv, Next, NEW c \in Clients,
                      client[c].pc # "redirected", client'[c].pc = "redirected"
               PROVE  wpc[client'[c].slot] \notin {"none", "init"}
    OBVIOUS
  <2>0. client \in [Clients -> ClientRec] /\ client[c] \in ClientRec /\ client' # client
    BY DEF TypeOK
  <2>1. ASSUME NEW s \in Slots, client'[c].slot = s, rooms[s].ready \/ Has(w2m[s], "READY")
        PROVE  wpc[client'[c].slot] \notin {"none", "init"}
    BY <2>1 DEF LifeInv, Bound
  <2>2. ASSUME NEW d \in Clients, accept_client(d) PROVE wpc[client'[c].slot] \notin {"none", "init"}
    <3>1. PICK s \in Slots :
            client' = [client EXCEPT ![d] =
              [pc |-> IF rooms[s].ready THEN "redirected" ELSE "parked",
               slot |-> s, id |-> 0, held |-> {}]]
      <4>1. Least(Filling) \in Slots
        BY <2>2, LeastSlot DEF accept_client, Filling
      <4> QED
        BY <2>2, <4>1 DEF accept_client
    <3>2. c = d
      BY <2>0, <3>1
    <3>3. client'[c].slot = s /\ rooms[s].ready
      BY <2>0, <3>1, <3>2
    <3> QED
      BY <2>1, <3>3
  <2>3. ASSUME NEW s \in Slots, handle_ready(s) PROVE wpc[client'[c].slot] \notin {"none", "init"}
    <3>1. Has(w2m[s], "READY")
      BY <2>3, HeardIncoming DEF handle_ready
    <3>2. client'[c] = IF c \in Parked(s)
                       THEN [client[c] EXCEPT !.pc = "redirected", !.held = {}]
                       ELSE client[c]
      BY <2>3 DEF handle_ready
    <3>3. client'[c].slot = s
      BY <2>0, <3>2 DEF Parked, ClientRec
    <3> QED
      BY <2>1, <3>1, <3>3
  <2>4. ASSUME NEW s \in Slots, Vanish(s) PROVE FALSE
    <3>1. client'[c] = HungUp(s)[c]
      BY <2>4 DEF Vanish
    <3>2. client'[c].pc = client[c].pc \/ client'[c].pc = "closed"
      BY <2>0, <3>1 DEF HungUp, ClientRec
    <3> QED
      BY <2>0, <3>2
  <2>5. ASSUME NEW s \in Slots, CloseRoom(s) PROVE FALSE
    <3>1. client'[c] = IF c \in Parked(s)
                       THEN [client[c] EXCEPT !.pc = IF client[c].held = {} THEN "closed"
                                                                            ELSE "abandoned"]
                       ELSE client[c]
      BY <2>5 DEF CloseRoom
    <3> QED
      BY <2>0, <3>1 DEF ClientRec
  <2>6. ASSUME NEW d \in Clients, accept_spawn(d) PROVE FALSE
    <3>1. PICK s \in Slots :
            client' = [e \in Clients |->
              IF e = d
              THEN [pc |-> "parked", slot |-> s, id |-> 0, held |-> {s}]
              ELSE IF client[e].pc = "parked"
              THEN [client[e] EXCEPT !.held = @ \cup {s}]
              ELSE client[e]]
      <4>1. Least(Slots \ Used(rooms)) \in Slots
        BY <2>6, LeastSlot DEF accept_spawn
      <4> QED
        BY <2>6, <4>1 DEF accept_spawn
    <3> QED
      BY <2>0, <3>1 DEF ClientRec
  <2>7. ASSUME NEW d \in Clients, accept_refuse(d) \/ connect_refused(d) PROVE FALSE
    <3>1. client' = [client EXCEPT ![d].pc = "closed"]
      BY <2>7 DEF accept_refuse, connect_refused
    <3> QED
      BY <2>0, <3>1 DEF ClientRec
  <2>8. ASSUME NEW s \in Slots, NEW d \in Clients, lobby_accept(s, d) PROVE FALSE
    <3>1. client' = [client EXCEPT ![d].pc = "connected", ![d].id = next_id[s]]
      BY <2>8 DEF lobby_accept
    <3> QED
      BY <2>0, <3>1 DEF ClientRec
  <2>9. ASSUME press_enter \/ on_sigint \/ loop_exit PROVE FALSE
    BY <2>0, <2>9 DEF press_enter, on_sigint, loop_exit, envVars
  <2>10. ASSUME shutdown PROVE FALSE
    <3>1. Used(rooms) # {}
      BY <2>0, <2>10 DEF shutdown, envVars
    <3>2. Least(Used(rooms)) \in Slots
      BY <3>1, LeastSlot DEF Used
    <3> QED
      BY <2>5, <2>10, <3>1, <3>2 DEF shutdown
  <2>11. ASSUME NEW s \in Slots,
                \/ handle_joined(s) \/ handle_eliminated(s) \/ handle_attack(s) \/ handle_feed(s)
                \/ bind_port(s) \/ lobby_poll(s) \/ lobby_drain(s) \/ lobby_start(s)
                \/ tick(s) \/ tick_over(s) \/ tick_attack(s) \/ hub_reset(s)
                \/ handshake_done(s) \/ handshake_fail(s)
         PROVE  FALSE
    <3>1. CASE handle_joined(s) \/ handle_eliminated(s) \/ handle_attack(s) \/ handle_feed(s)
      BY <2>0, <3>1 DEF handle_joined, handle_eliminated, handle_attack, handle_feed, envVars
    <3>2. CASE bind_port(s) \/ lobby_poll(s) \/ lobby_drain(s) \/ lobby_start(s)
      BY <2>0, <3>2 DEF bind_port, lobby_poll, lobby_drain, lobby_start, envVars
    <3>3. CASE tick(s) \/ tick_over(s) \/ hub_reset(s) \/ handshake_done(s)
      BY <2>0, <3>3 DEF tick, tick_over, hub_reset, handshake_done, envVars
    <3>4. CASE tick_attack(s) \/ handshake_fail(s)
      BY <2>0, <3>4 DEF tick_attack, handshake_fail
    <3> QED
      BY <2>11, <3>1, <3>2, <3>3, <3>4
  <2>12. ASSUME NEW s \in Slots, hub_closed(s) \/ lobby_eof(s) \/ room_exit(s) \/ crash(s)
         PROVE  FALSE
    BY <2>4, <2>5, <2>12 DEF hub_closed, lobby_eof, room_exit, crash
  <2> QED
    BY <2>2, <2>3, <2>6, <2>7, <2>8, <2>9, <2>10, <2>11, <2>12
    DEF Next, MasterHandles, WorkerSteps
<1> QED
  BY <1>1, LifeHolds, TypeCorrect, PTL DEF Spec, RedirectAfterBind

-----------------------------------------------------------------------------
(* Garbage lands once.  An attack is followed by its number: it is at any    *)
(* moment in at most one of three places, as HUB_ATTACK on the way to the    *)
(* master, as HUB_GARBAGE on the way to a room, or on a board, and there     *)
(* once; a number that has not been given out yet is nowhere.  Every step    *)
(* leaves an attack where it is, drops it, or moves it on.                   *)

\* Where queue q holds attack n in a message of type t
Carries(q, t, n) == {i \in DOMAIN q : q[i].type = t /\ q[i].body.n = n}

Lone(S) == \A i, j \in S : i = j

Up(w, s, n) == Carries(w[s], "ATTACK", n) # {}
Down(m, s, n) == Carries(m[s], "GARBAGE", n) # {}
Struck(h, s, n) == n \in 1..MaxAttacks /\ h[s][n] > 0

\* In one place at a time ...
Apart(w, m, h, n) ==
  \A s, t \in Slots :
    /\ Up(w, s, n) /\ Up(w, t, n) => s = t
    /\ Down(m, s, n) /\ Down(m, t, n) => s = t
    /\ Struck(h, s, n) /\ Struck(h, t, n) => s = t
    /\ ~(Up(w, s, n) /\ Down(m, t, n))
    /\ ~(Up(w, s, n) /\ Struck(h, t, n))
    /\ ~(Down(m, s, n) /\ Struck(h, t, n))

\* ... and there once
Single(w, m, h, n) ==
  \A s \in Slots :
    /\ Lone(Carries(w[s], "ATTACK", n)) /\ Lone(Carries(m[s], "GARBAGE", n))
    /\ n \in 1..MaxAttacks => h[s][n] <= 1

Absent(w, m, h, n) == \A s \in Slots : ~Up(w, s, n) /\ ~Down(m, s, n) /\ ~Struck(h, s, n)

Tracked(w, m, h, a, n) ==
  Apart(w, m, h, n) /\ Single(w, m, h, n) /\ (n > a => Absent(w, m, h, n))

TrackInv == \A n \in Nat : Tracked(w2m, m2w, hits, attacks, n)

\* Queue r holds attack n at most as often as queue q
Fewer(r, q, t, n) ==
  /\ Carries(q, t, n) = {} => Carries(r, t, n) = {}
  /\ Lone(Carries(q, t, n)) => Lone(Carries(r, t, n))

AllFewer(r, q, t, n) == \A s \in Slots : Fewer(r[s], q[s], t, n)

LEMMA FewerTrivial ==
  /\ \A q, t, n : Fewer(q, q, t, n)
  /\ \A q, t, n : Fewer(<<>>, q, t, n)
<1>1. \A t, n : Carries(<<>>, t, n) = {}
  BY DEF Carries
<1> QED
  BY <1>1 DEF Fewer, Lone

LEMMA FewerTrans ==
  ASSUME NEW p, NEW q, NEW r, NEW t, NEW n, Fewer(r, q, t, n), Fewer(q, p, t, n)
  PROVE  Fewer(r, p, t, n)
  BY DEF Fewer

LEMMA CarriesConcat ==
  ASSUME NEW X, NEW q \in Seq(X), NEW r \in Seq(X), NEW t, NEW n
  PROVE  /\ Carries(r, t, n) = {} => Carries(q \o r, t, n) = Carries(q, t, n)
         /\ Carries(q, t, n) = {} /\ Lone(Carries(r, t, n)) => Lone(Carries(q \o r, t, n))
<1>1. /\ DOMAIN (q \o r) = 1..(Len(q) + Len(r)) /\ Len(q) \in Nat /\ Len(r) \in Nat
      /\ DOMAIN q = 1..Len(q) /\ DOMAIN r = 1..Len(r)
  BY ConcatProperties
<1>2. \A i \in DOMAIN q : i \in DOMAIN (q \o r) /\ (q \o r)[i] = q[i]
  BY <1>1
<1>3. ASSUME NEW i \in DOMAIN (q \o r), i \notin DOMAIN q
      PROVE  i - Len(q) \in DOMAIN r /\ (q \o r)[i] = r[i - Len(q)]
  BY <1>1, <1>3
<1>4. \A i \in Carries(q \o r, t, n) :
        \/ i \in Carries(q, t, n)
        \/ i - Len(q) \in Carries(r, t, n)
  BY <1>2, <1>3 DEF Carries
<1>5. Carries(q, t, n) \subseteq Carries(q \o r, t, n)
  BY <1>2 DEF Carries
<1>6. ASSUME Carries(q, t, n) = {}, Lone(Carries(r, t, n)) PROVE Lone(Carries(q \o r, t, n))
  <2> SUFFICES ASSUME NEW i \in Carries(q \o r, t, n), NEW j \in Carries(q \o r, t, n)
               PROVE  i = j
    BY DEF Lone
  <2>1. i - Len(q) = j - Len(q)
    BY <1>4, <1>6 DEF Lone
  <2>2. i \in Int /\ j \in Int
    BY <1>1 DEF Carries
  <2> QED
    BY <1>1, <2>1, <2>2
<1> QED
  BY <1>4, <1>5, <1>6

LEMMA FewerConcat ==
  ASSUME NEW X, NEW q \in Seq(X), NEW r \in Seq(X), NEW t, NEW n, Carries(r, t, n) = {}
  PROVE  Fewer(q \o r, q, t, n)
<1>1. Carries(q \o r, t, n) = Carries(q, t, n)
  BY CarriesConcat
<1> QED
  BY <1>1 DEF Fewer

LEMMA CarriesAppend ==
  ASSUME NEW X, NEW q \in Seq(X), NEW m \in X, NEW t, NEW n
  PROVE  /\ ~(m.type = t /\ m.body.n = n) => Carries(Append(q, m), t, n) = Carries(q, t, n)
         /\ Carries(q, t, n) = {} => Lone(Carries(Append(q, m), t, n))
<1>1. PICK r : r = Append(q, m)
  OBVIOUS
<1>2. /\ Len(q) \in Nat /\ DOMAIN q = 1..Len(q) /\ DOMAIN r = 1..(Len(q) + 1)
      /\ r[Len(q) + 1] = m /\ \A i \in 1..Len(q) : r[i] = q[i]
  BY <1>1
<1>3. \A i \in DOMAIN r : i \in DOMAIN q \/ i = Len(q) + 1
  BY <1>2
<1>4. DOMAIN q \subseteq DOMAIN r
  BY <1>2
<1>5. Carries(q, t, n) \subseteq Carries(r, t, n)
  BY <1>2, <1>4 DEF Carries
<1>6. \A i \in Carries(r, t, n) :
        i \in Carries(q, t, n) \/ (i = Len(q) + 1 /\ m.type = t /\ m.body.n = n)
  BY <1>2, <1>3 DEF Carries
<1>7. ~(m.type = t /\ m.body.n = n) => Carries(r, t, n) = Carries(q, t, n)
  BY <1>5, <1>6
<1>8. Carries(q, t, n) = {} => Lone(Carries(r, t, n))
  BY <1>6 DEF Lone
<1> QED
  BY <1>1, <1>7, <1>8

LEMMA CarriesTail ==
  ASSUME NEW X, NEW q \in Seq(X), q # <<>>, NEW t, NEW n
  PROVE  /\ \A i \in Carries(Tail(q), t, n) : i \in Nat /\ i + 1 \in Carries(q, t, n) /\ i + 1 # 1
         /\ Head(q).type = t /\ Head(q).body.n = n => 1 \in Carries(q, t, n)
<1>1. PICK r : r = Tail(q)
  OBVIOUS
<1>2. /\ Len(q) \in Nat /\ Len(q) >= 1 /\ DOMAIN q = 1..Len(q) /\ DOMAIN r = 1..(Len(q) - 1)
      /\ \A i \in 1..(Len(q) - 1) : r[i] = q[i + 1]
  BY <1>1
<1>3. Head(q) = q[1]
  OBVIOUS
<1>4. \A i \in DOMAIN r : i \in Nat /\ i + 1 \in DOMAIN q /\ i + 1 # 1 /\ r[i] = q[i + 1]
  BY <1>2
<1>5. \A i \in Carries(r, t, n) : i \in Nat /\ i + 1 \in Carries(q, t, n) /\ i + 1 # 1
  BY <1>4 DEF Carries
<1>6. Head(q).type = t /\ Head(q).body.n = n => 1 \in Carries(q, t, n)
  BY <1>2, <1>3 DEF Carries
<1> QED
  BY <1>1, <1>5, <1>6

LEMMA FewerTail ==
  ASSUME NEW X, NEW q \in Seq(X), q # <<>>, NEW t, NEW n
  PROVE  Fewer(Tail(q), q, t, n)
<1>1. PICK r : r = Tail(q)
  OBVIOUS
<1>2. \A i \in Carries(r, t, n) : i \in Nat /\ i + 1 \in Carries(q, t, n)
  BY <1>1, CarriesTail
<1>3. Carries(q, t, n) = {} => Carries(r, t, n) = {}
  BY <1>2
<1>4. ASSUME Lone(Carries(q, t, n)), NEW i \in Carries(r, t, n), NEW j \in Carries(r, t, n)
      PROVE  i = j
  <2>1. i + 1 = j + 1 /\ i \in Nat /\ j \in Nat
    BY <1>2, <1>4 DEF Lone
  <2> QED
    BY <2>1
<1>5. Lone(Carries(q, t, n)) => Lone(Carries(r, t, n))
  BY <1>4 DEF Lone
<1> QED
  BY <1>1, <1>3, <1>5 DEF Fewer

\* The hubs of a step that passes on no attack
LEMMA SendFewer ==
  ASSUME NEW q \in M2W, NEW S, NEW m \in ToWorker, NEW n,
         ~(m.type = "GARBAGE" /\ m.body.n = n)
  PROVE  AllFewer(HubSend(q, S, m), q, "GARBAGE", n)
<1> SUFFICES ASSUME NEW u \in Slots PROVE Fewer(HubSend(q, S, m)[u], q[u], "GARBAGE", n)
  BY DEF AllFewer
<1>1. q[u] \in Seq(ToWorker)
  BY DEF M2W
<1>2. HubSend(q, S, m)[u] = q[u] \/ HubSend(q, S, m)[u] = Append(q[u], m)
  BY DEF HubSend
<1>3. Carries(Append(q[u], m), "GARBAGE", n) = Carries(q[u], "GARBAGE", n)
  BY <1>1, CarriesAppend
<1>4. Fewer(Append(q[u], m), q[u], "GARBAGE", n)
  BY <1>3 DEF Fewer
<1> QED
  BY <1>2, <1>4, FewerTrivial

LEMMA BroadcastFewer ==
  ASSUME NEW q \in M2W, NEW rs, NEW ps \in Seq(PlayerRec), NEW n
  PROVE  AllFewer(broadcast_roster(q, rs, ps), q, "GARBAGE", n)
<1> DEFINE m == Msg("ROSTER", Roster(ps))
<1>1. m \in ToWorker /\ m.type # "GARBAGE"
  BY RosterMsg
<1> HIDE DEF m
<1>2. AllFewer(HubSend(q, Running(rs), m), q, "GARBAGE", n)
  BY <1>1, SendFewer
<1> QED
  BY <1>2 DEF broadcast_roster, m

LEMMA AllFewerTrans ==
  ASSUME NEW p, NEW q, NEW r, NEW t, NEW n, AllFewer(r, q, t, n), AllFewer(q, p, t, n)
  PROVE  AllFewer(r, p, t, n)
  BY FewerTrans DEF AllFewer

LEMMA EndFewer ==
  ASSUME NEW q \in M2W, NEW rs, NEW ps \in Seq(PlayerRec), NEW n, check_global_end(q, rs, ps)
  PROVE  AllFewer(m2w', q, "GARBAGE", n)
<1> DEFINE m == Msg("GAMEOVER", Standing(ps))
<1>1. m \in ToWorker /\ m.type # "GARBAGE"
  BY StandingType, MsgTypes DEF Msg
<1>2. m2w' = q \/ m2w' = HubSend(q, Used(rs), m)
  BY DEF check_global_end
<1> HIDE DEF m
<1>3. AllFewer(q, q, "GARBAGE", n)
  BY FewerTrivial DEF AllFewer
<1>4. AllFewer(HubSend(q, Used(rs), m), q, "GARBAGE", n)
  BY <1>1, SendFewer
<1> QED
  BY <1>2, <1>3, <1>4

LEMMA StartFewer ==
  ASSUME NEW q \in M2W, NEW rs \in [Slots -> RoomRec], NEW ps \in Seq(PlayerRec),
         start_all_rooms(q, rs, ps), NEW n
  PROVE  AllFewer(m2w', q, "GARBAGE", n)
<1> DEFINE E == Startable(rs)
           R == Msg("ROSTER", Roster(ps))
           St(s) == <<Msg("START", rs[s].redirected)>>
           C(s) == Copies(Cardinality({x \in E : x >= s}), R)
           D == Copies(Cardinality(E), R)
<1> SUFFICES ASSUME NEW s \in Slots PROVE Fewer(m2w'[s], q[s], "GARBAGE", n)
  BY DEF AllFewer
<1>1. q[s] \in Seq(ToWorker)
  BY DEF M2W
<1>2. R \in ToWorker /\ R.type # "GARBAGE"
  BY RosterMsg
<1>3. Cardinality(E) \in Nat /\ Cardinality({x \in E : x >= s}) \in Nat
  <2>1. E \subseteq Slots
    BY DEF Startable
  <2> QED
    BY <2>1, SlotsCardinality
<1>a. \A k \in Nat : Carries(Copies(k, R), "GARBAGE", n) = {}
  <2> HIDE DEF R
  <2> QED
    BY <1>2 DEF Carries, Copies
<1>4. /\ C(s) \in Seq(ToWorker) /\ Carries(C(s), "GARBAGE", n) = {}
      /\ D \in Seq(ToWorker) /\ Carries(D, "GARBAGE", n) = {}
  BY <1>2, <1>3, <1>a, CopiesType
<1>5. St(s) \in Seq(ToWorker) /\ Carries(St(s), "GARBAGE", n) = {}
  <2>1. rs[s].redirected \in Nat
    BY DEF RoomRec
  <2>2. /\ Msg("START", rs[s].redirected) \in ToWorker
        /\ Msg("START", rs[s].redirected).type = "START"
    BY <2>1, MsgTypes DEF Msg
  <2> QED
    BY <2>2 DEF Carries
<1>6. \/ m2w'[s] = q[s]
      \/ m2w'[s] = q[s] \o St(s) \o C(s)
      \/ m2w'[s] = q[s] \o D
  BY DEF start_all_rooms
<1> HIDE DEF St, C, D
<1>7. q[s] \o St(s) \in Seq(ToWorker) /\ Fewer(q[s] \o St(s), q[s], "GARBAGE", n)
  BY <1>1, <1>5, FewerConcat, ConcatProperties
<1>8. Fewer(q[s] \o St(s) \o C(s), q[s] \o St(s), "GARBAGE", n)
  BY <1>4, <1>7, FewerConcat
<1>9. Fewer(q[s] \o St(s) \o C(s), q[s], "GARBAGE", n)
  BY <1>7, <1>8, FewerTrans
<1>10. Fewer(q[s] \o D, q[s], "GARBAGE", n)
  BY <1>1, <1>4, FewerConcat
<1> QED
  BY <1>6, <1>9, <1>10, FewerTrivial

LEMMA ReportFewer ==
  ASSUME NEW X, w2m \in [Slots -> Seq(X)], NEW s \in Slots, NEW msgs \in Seq(X),
         Report(s, msgs), NEW n, Carries(msgs, "ATTACK", n) = {}
  PROVE  AllFewer(w2m', w2m, "ATTACK", n)
<1> SUFFICES ASSUME NEW u \in Slots PROVE Fewer(w2m'[u], w2m[u], "ATTACK", n)
  BY DEF AllFewer
<1>1. w2m[u] \in Seq(X)
  OBVIOUS
<1>2. w2m'[u] = w2m[u] \/ w2m'[u] = w2m[u] \o msgs
  BY DEF Report
<1>3. Fewer(w2m[u] \o msgs, w2m[u], "ATTACK", n)
  BY <1>1, FewerConcat
<1> QED
  BY <1>2, <1>3, FewerTrivial

LEMMA ClearFewer ==
  ASSUME NEW X, NEW q \in [Slots -> X], NEW s, NEW r, r = [q EXCEPT ![s] = <<>>], NEW t, NEW n
  PROVE  AllFewer(r, q, t, n)
<1> SUFFICES ASSUME NEW u \in Slots PROVE Fewer(r[u], q[u], t, n)
  BY DEF AllFewer
<1>1. r[u] = q[u] \/ r[u] = <<>>
  OBVIOUS
<1> QED
  BY <1>1, FewerTrivial

LEMMA SameFewer == \A q, t, n : AllFewer(q, q, t, n)
  BY FewerTrivial DEF AllFewer

LEMMA IncomingFewer ==
  ASSUME w2m \in W2M, NEW s \in Slots, NEW t, Incoming(s, t), NEW n
  PROVE  AllFewer(w2m', w2m, "ATTACK", n)
<1> SUFFICES ASSUME NEW u \in Slots PROVE Fewer(w2m'[u], w2m[u], "ATTACK", n)
  BY DEF AllFewer
<1>1. w2m[u] \in Seq(ToMaster)
  BY DEF W2M
<1>2. CASE u = s
  <2>1. w2m[u] # <<>> /\ w2m'[u] = Tail(w2m[u])
    BY <1>2 DEF Incoming, W2M
  <2> QED
    BY <1>1, <2>1, FewerTail
<1>3. CASE u # s
  <2>1. w2m'[u] = w2m[u]
    BY <1>3 DEF Incoming, W2M
  <2> QED
    BY <2>1, FewerTrivial
<1> QED
  BY <1>2, <1>3

\* Steps that give out no number, hit no board and pass on no attack
LEMMA QuietTracked ==
  ASSUME NEW w, NEW m, NEW h, NEW a, NEW n, Tracked(w, m, h, a, n), NEW v, NEW l,
         AllFewer(v, w, "ATTACK", n), AllFewer(l, m, "GARBAGE", n)
  PROVE  Tracked(v, l, h, a, n)
<1>1. \A s \in Slots : (Up(v, s, n) => Up(w, s, n)) /\ (Down(l, s, n) => Down(m, s, n))
  BY DEF AllFewer, Fewer, Up, Down
<1>2. Apart(v, l, h, n)
  BY <1>1 DEF Tracked, Apart
<1>3. Single(v, l, h, n)
  BY DEF Tracked, Single, AllFewer, Fewer
<1>4. n > a => Absent(v, l, h, n)
  BY <1>1 DEF Tracked, Absent
<1> QED
  BY <1>2, <1>3, <1>4 DEF Tracked

LEMMA QuietInv ==
  ASSUME TrackInv, \A n \in Nat : AllFewer(w2m', w2m, "ATTACK", n),
         \A n \in Nat : AllFewer(m2w', m2w, "GARBAGE", n), UNCHANGED <<hits, attacks>>
  PROVE  TrackInv'
<1> SUFFICES ASSUME NEW n \in Nat PROVE Tracked(w2m', m2w', hits, attacks, n)
  BY DEF TrackInv
<1>1. Tracked(w2m, m2w, hits, attacks, n)
  BY DEF TrackInv
<1>2. AllFewer(w2m', w2m, "ATTACK", n) /\ AllFewer(m2w', m2w, "GARBAGE", n)
  OBVIOUS
<1> QED
  BY <1>1, <1>2, QuietTracked

\* What a tick takes from its hub, it takes from there for good
LEMMA HitsCounted ==
  ASSUME TypeOK, NEW s \in Slots, NEW ss, NEW n
  PROVE  /\ HubHits(s, ss, n) \subseteq Carries(m2w[s], "GARBAGE", n)
         /\ ~Down(m2w, s, n) => Cardinality(HubHits(s, ss, n)) = 0
         /\ Lone(Carries(m2w[s], "GARBAGE", n)) => Cardinality(HubHits(s, ss, n)) \in {0, 1}
<1>1. HubHits(s, ss, n) \subseteq Carries(m2w[s], "GARBAGE", n)
  BY DEF HubHits, FromHub, OfType, Carries
<1>2. PICK S : S = HubHits(s, ss, n)
  OBVIOUS
<1>3. S = {} => Cardinality(S) = 0
  BY FS_EmptySet
<1>4. ASSUME Lone(Carries(m2w[s], "GARBAGE", n)), S # {} PROVE Cardinality(S) = 1
  <2>1. PICK x : x \in S
    BY <1>4
  <2>2. S = {x}
    BY <1>1, <1>2, <1>4, <2>1 DEF Lone
  <2> QED
    BY <2>2, FS_Singleton
<1> QED
  BY <1>1, <1>2, <1>3, <1>4 DEF Down

LEMMA DrainHits ==
  ASSUME TypeOK, NEW s \in Slots, NEW ss, NEW shown, NEW hit, DrainHub(s, ss, shown, hit),
         NEW n \in 1..MaxAttacks
  PROVE  /\ \A u \in Slots : hits[u][n] \in Nat
         /\ \A u \in Slots : u # s => hits'[u][n] = hits[u][n]
         /\ hits'[s][n] = hits[s][n] + Cardinality(HubHits(s, ss, n))
                                     + (IF n \in hit THEN 1 ELSE 0)
<1>1. hits \in [Slots -> [1..MaxAttacks -> Nat]]
  BY DEF TypeOK
<1>2. hits' = [hits EXCEPT ![s] = [k \in DOMAIN @ |->
        @[k] + Cardinality(HubHits(s, ss, k)) + (IF k \in hit THEN 1 ELSE 0)]]
  BY DEF DrainHub
<1>3. DOMAIN hits[s] = 1..MaxAttacks /\ \A u \in Slots : hits[u][n] \in Nat
  BY <1>1
<1> QED
  BY <1>1, <1>2, <1>3

LEMMA DrainTracked ==
  ASSUME TypeOK, NEW s \in Slots, NEW ss, NEW shown, NEW hit, DrainHub(s, ss, shown, hit),
         NEW n \in Nat, Tracked(w2m, m2w, hits, attacks, n), n \notin hit,
         NEW v, AllFewer(v, w2m, "ATTACK", n), NEW a \in Nat, a >= attacks
  PROVE  Tracked(v, m2w', hits', a, n)
<1>0. /\ m2w \in [Slots -> Seq(ToWorker)] /\ attacks \in Nat
      /\ m2w' = [m2w EXCEPT ![s] = <<>>]
  BY DEF TypeOK, DrainHub
<1>1. /\ Apart(w2m, m2w, hits, n) /\ Single(w2m, m2w, hits, n)
      /\ n > attacks => Absent(w2m, m2w, hits, n)
  BY DEF Tracked
<1>2. \A u \in Slots : Up(v, u, n) => Up(w2m, u, n)
  BY DEF AllFewer, Fewer, Up
<1>3. \A u \in Slots : Lone(Carries(v[u], "ATTACK", n))
  BY <1>1 DEF AllFewer, Fewer, Single
<1>4. /\ \A u \in Slots : u # s => m2w'[u] = m2w[u]
      /\ m2w'[s] = <<>>
  BY <1>0
<1>5. Carries(<<>>, "GARBAGE", n) = {}
  BY DEF Carries
<1>6. \A u \in Slots : Down(m2w', u, n) => Down(m2w, u, n) /\ u # s
  BY <1>4, <1>5 DEF Down
<1>7. \A u \in Slots : Lone(Carries(m2w'[u], "GARBAGE", n))
  BY <1>1, <1>4, <1>5 DEF Single, Lone
<1>8. ASSUME n \in 1..MaxAttacks
      PROVE  /\ \A u \in Slots : u # s => hits'[u][n] = hits[u][n]
             /\ ~Down(m2w, s, n) => hits'[s][n] = hits[s][n]
             /\ Down(m2w, s, n) => hits'[s][n] \in {0, 1}
  <2>1. /\ \A u \in Slots : hits[u][n] \in Nat
        /\ \A u \in Slots : u # s => hits'[u][n] = hits[u][n]
        /\ hits'[s][n] = hits[s][n] + Cardinality(HubHits(s, ss, n))
                                    + (IF n \in hit THEN 1 ELSE 0)
    BY <1>8, DrainHits
  <2>2. PICK c : c = Cardinality(HubHits(s, ss, n))
    OBVIOUS
  <2>3. (~Down(m2w, s, n) => c = 0) /\ c \in {0, 1}
    BY <1>1, <2>2, HitsCounted DEF Single
  <2>4. hits'[s][n] = hits[s][n] + c
    BY <2>1, <2>2, <2>3
  <2>5. Down(m2w, s, n) => hits[s][n] = 0
    BY <1>1, <1>8, <2>1 DEF Apart, Struck
  <2> QED
    BY <2>1, <2>3, <2>4, <2>5
<1>9. \A u \in Slots : Struck(hits', u, n) => Struck(hits, u, n) \/ (u = s /\ Down(m2w, s, n))
  BY <1>8 DEF Struck
<1>10. Apart(v, m2w', hits', n)
  BY <1>1, <1>2, <1>6, <1>9 DEF Apart
<1>11. Single(v, m2w', hits', n)
  <2>1. ASSUME NEW u \in Slots, n \in 1..MaxAttacks PROVE hits'[u][n] <= 1
    <3>1. hits[u][n] <= 1
      BY <1>1, <2>1 DEF Single
    <3> QED
      BY <1>8, <2>1, <3>1
  <2> QED
    BY <1>3, <1>7, <2>1 DEF Single
<1>12. n > a => Absent(v, m2w', hits', n)
  <2> SUFFICES ASSUME n > a PROVE Absent(v, m2w', hits', n)
    OBVIOUS
  <2>1. n > attacks
    BY <1>0
  <2> QED
    BY <1>1, <1>2, <1>6, <1>9, <2>1 DEF Absent
<1> QED
  BY <1>10, <1>11, <1>12 DEF Tracked

\* A new attack: on a board of its own room, or on its way to the master
LEMMA FreshTracked ==
  ASSUME TypeOK, NEW s \in Slots, NEW ss, NEW shown, NEW hit, DrainHub(s, ss, shown, hit),
         NEW n \in 1..MaxAttacks, Absent(w2m, m2w, hits, n), NEW v,
         \A u \in Slots : u # s => v[u] = w2m[u], Lone(Carries(v[s], "ATTACK", n)),
         n \in hit => ~Up(v, s, n)
  PROVE  Tracked(v, m2w', hits', n, n)
<1>0. m2w \in [Slots -> Seq(ToWorker)] /\ m2w' = [m2w EXCEPT ![s] = <<>>]
  BY DEF TypeOK, DrainHub
<1>1. \A u \in Slots : ~Up(w2m, u, n) /\ ~Down(m2w, u, n) /\ ~Struck(hits, u, n)
  BY DEF Absent
<1>2. Carries(<<>>, "GARBAGE", n) = {}
  BY DEF Carries
<1>3. \A u \in Slots : ~Down(m2w', u, n)
  BY <1>0, <1>1, <1>2 DEF Down
<1>4. \A u \in Slots : Up(v, u, n) => u = s /\ n \notin hit
  BY <1>1 DEF Up
<1>5. /\ \A u \in Slots : hits[u][n] \in Nat
      /\ \A u \in Slots : u # s => hits'[u][n] = hits[u][n]
      /\ hits'[s][n] = hits[s][n] + Cardinality(HubHits(s, ss, n))
                                  + (IF n \in hit THEN 1 ELSE 0)
  BY DrainHits
<1>6. Cardinality(HubHits(s, ss, n)) = 0
  BY <1>1, HitsCounted
<1>7. \A u \in Slots : hits[u][n] = 0
  BY <1>1, <1>5 DEF Struck
<1>8. /\ \A u \in Slots : u # s => hits'[u][n] = 0
      /\ hits'[s][n] = IF n \in hit THEN 1 ELSE 0
  BY <1>5, <1>6, <1>7
<1>9. \A u \in Slots : Struck(hits', u, n) => u = s /\ n \in hit
  BY <1>8 DEF Struck
<1>10. Apart(v, m2w', hits', n)
  BY <1>3, <1>4, <1>9 DEF Apart
<1>11. \A u \in Slots : Lone(Carries(v[u], "ATTACK", n)) /\ Lone(Carries(m2w'[u], "GARBAGE", n))
  BY <1>1, <1>3 DEF Up, Down, Lone
<1>12. Single(v, m2w', hits', n)
  BY <1>8, <1>11 DEF Single
<1>13. ~(n > n)
  OBVIOUS
<1> QED
  BY <1>10, <1>12, <1>13 DEF Tracked

\* handle_attack moves an attack from one hub to at most one other
LEMMA AttackRouted ==
  ASSUME TypeOK, TrackInv, NEW s \in Slots, handle_attack(s)
  PROVE  TrackInv'
<1>1. PICK att : att = Head(w2m[s]).body
  OBVIOUS
<1>2. PICK m : m = Msg("GARBAGE", att)
  OBVIOUS
<1>3. PICK S : m2w' = HubSend(m2w, S, m) /\ \A u, t \in S : u = t
  <2> DEFINE R == Routable(att)
             T == IF R = {} THEN {} ELSE {players[Least(R)].room}
  <2>1. m2w' = HubSend(m2w, T \cap Running(rooms), m)
    BY <1>1, <1>2 DEF handle_attack
  <2>2. \A u, t \in T \cap Running(rooms) : u = t
    OBVIOUS
  <2> QED
    BY <2>1, <2>2
<1>4. /\ Incoming(s, "ATTACK") /\ UNCHANGED <<hits, attacks>>
      /\ w2m \in W2M /\ m2w \in M2W /\ w2m[s] \in Seq(ToMaster) /\ w2m[s] # <<>>
  BY DEF handle_attack, Incoming, TypeOK, W2M, M2W, workerVars, gameVars, envVars
<1>5. Head(w2m[s]) \in ToMaster /\ Head(w2m[s]).type = "ATTACK" /\ att \in Attack
  BY <1>1, <1>4, IncomingType, BodyTypes
<1>6. m \in ToWorker /\ m.type = "GARBAGE" /\ m.body.n = att.n /\ att.n \in Nat
  BY <1>2, <1>5, MsgTypes DEF Msg, Attack
<1> SUFFICES ASSUME NEW n \in Nat PROVE Tracked(w2m', m2w', hits, attacks, n)
  BY <1>4 DEF TrackInv
<1>7. Tracked(w2m, m2w, hits, attacks, n)
  BY DEF TrackInv
<1>8. AllFewer(w2m', w2m, "ATTACK", n)
  BY <1>4, IncomingFewer
<1>9. CASE n # att.n
  <2>1. AllFewer(m2w', m2w, "GARBAGE", n)
    BY <1>3, <1>4, <1>6, <1>9, SendFewer
  <2> QED
    BY <1>7, <1>8, <2>1, QuietTracked
<1>10. CASE n = att.n
  <2>1. 1 \in Carries(w2m[s], "ATTACK", n)
    BY <1>1, <1>4, <1>5, <1>10, CarriesTail
  <2>2. Up(w2m, s, n)
    BY <2>1 DEF Up
  <2>3. Apart(w2m, m2w, hits, n) /\ Single(w2m, m2w, hits, n) /\ ~(n > attacks)
    BY <1>7, <2>2 DEF Tracked, Absent
  <2>4. \A u \in Slots : /\ Up(w2m, u, n) => u = s
                         /\ ~Down(m2w, u, n) /\ ~Struck(hits, u, n)
    BY <2>2, <2>3 DEF Apart
  <2>5. w2m'[s] = Tail(w2m[s])
    BY <1>4 DEF Incoming, W2M
  <2>6. Carries(Tail(w2m[s]), "ATTACK", n) = {}
    <3>1. \A i \in Carries(w2m[s], "ATTACK", n) : i = 1
      BY <2>1, <2>3 DEF Single, Lone
    <3>2. \A i \in Carries(Tail(w2m[s]), "ATTACK", n) :
             i + 1 \in Carries(w2m[s], "ATTACK", n) /\ i + 1 # 1
      BY <1>4, CarriesTail
    <3> QED
      BY <3>1, <3>2
  <2>7. \A u \in Slots : ~Up(w2m', u, n)
    <3>1. \A u \in Slots : Up(w2m', u, n) => Up(w2m, u, n)
      BY <1>8 DEF AllFewer, Fewer, Up
    <3>2. ~Up(w2m', s, n)
      BY <2>5, <2>6 DEF Up
    <3> QED
      BY <2>4, <3>1, <3>2
  <2>8. ASSUME NEW u \in Slots
        PROVE  /\ Lone(Carries(m2w'[u], "GARBAGE", n))
               /\ Down(m2w', u, n) => u \in S
    <3>1. m2w[u] \in Seq(ToWorker) /\ Carries(m2w[u], "GARBAGE", n) = {}
      BY <1>4, <2>4 DEF M2W, Down
    <3>2. m2w'[u] = m2w[u] \/ (u \in S /\ m2w'[u] = Append(m2w[u], m))
      BY <1>3 DEF HubSend
    <3>3. Lone(Carries(Append(m2w[u], m), "GARBAGE", n))
      BY <1>6, <3>1, CarriesAppend
    <3> QED
      BY <3>1, <3>2, <3>3 DEF Down, Lone
  <2>9. Apart(w2m', m2w', hits, n)
    BY <1>3, <2>4, <2>7, <2>8 DEF Apart
  <2>10. Single(w2m', m2w', hits, n)
    BY <2>3, <2>7, <2>8 DEF Single, Up, Lone
  <2> QED
    BY <2>3, <2>9, <2>10 DEF Tracked
<1> QED
  BY <1>9, <1>10

LEMMA TrackMaster ==
  ASSUME TypeOK, TrackInv, NEW s \in Slots,
         \/ MasterHandles(s)
         \/ CloseRoom(s) /\ UNCHANGED <<w2m, hits, attacks>>
  PROVE  TrackInv'
<1>0. m2w \in M2W /\ w2m \in W2M /\ players \in Seq(PlayerRec)
  BY DEF TypeOK, M2W, W2M
<1>a. ASSUME NEW t, Incoming(s, t), UNCHANGED <<hits, attacks>>,
             \A n \in Nat : AllFewer(m2w', m2w, "GARBAGE", n)
      PROVE  TrackInv'
  BY <1>0, <1>a, IncomingFewer, QuietInv
<1>1. CASE handle_ready(s)
  <2>1. \A n \in Nat : AllFewer(m2w', m2w, "GARBAGE", n)
    BY <1>1, SameFewer DEF handle_ready
  <2> QED
    BY <1>1, <1>a, <2>1 DEF handle_ready, workerVars, gameVars
<1>2. CASE handle_joined(s)
  <2> DEFINE rec == [id |-> Head(w2m[s]).body, room |-> s, alive |-> TRUE]
             ps == add_player(players, rec)
             rs == [rooms EXCEPT ![s].joined = @ + 1]
             q  == broadcast_roster(m2w, rs, ps)
  <2>1. rec \in PlayerRec
    BY <1>2, IncomingType, BodyTypes DEF handle_joined, PlayerRec
  <2>2. ps \in Seq(PlayerRec)
    <3> HIDE DEF rec
    <3> QED
      BY <1>0, <2>1 DEF add_player
  <2>3. rs \in [Slots -> RoomRec]
    <3>1. rooms[s] \in RoomRec
      BY DEF TypeOK
    <3>2. [rooms[s] EXCEPT !.joined = @ + 1] \in RoomRec
      BY <3>1 DEF RoomRec
    <3> QED
      BY <3>2 DEF TypeOK
  <2>4. q \in M2W /\ \A n \in Nat : AllFewer(q, m2w, "GARBAGE", n)
    BY <1>0, <2>2, BroadcastType, BroadcastFewer
  <2>5. start_all_rooms(q, rs, ps) \/ m2w' = q
    BY <1>2 DEF handle_joined
  <2> HIDE DEF q, rs, ps
  <2>6. \A n \in Nat : AllFewer(m2w', q, "GARBAGE", n)
    BY <2>2, <2>3, <2>4, <2>5, StartFewer, SameFewer
  <2>7. \A n \in Nat : AllFewer(m2w', m2w, "GARBAGE", n)
    BY <2>4, <2>6, AllFewerTrans
  <2> QED
    BY <1>2, <1>a, <2>7 DEF handle_joined, workerVars, gameVars, envVars
<1>b. ASSUME NEW rs, NEW ps \in Seq(PlayerRec),
             check_global_end(broadcast_roster(m2w, rs, ps), rs, ps)
      PROVE  \A n \in Nat : AllFewer(m2w', m2w, "GARBAGE", n)
  <2> DEFINE q == broadcast_roster(m2w, rs, ps)
  <2>1. q \in M2W /\ \A n \in Nat : AllFewer(q, m2w, "GARBAGE", n)
    BY <1>0, BroadcastType, BroadcastFewer
  <2>2. check_global_end(q, rs, ps)
    BY <1>b
  <2> HIDE DEF q
  <2>3. \A n \in Nat : AllFewer(m2w', q, "GARBAGE", n)
    BY <2>1, <2>2, EndFewer
  <2> QED
    BY <2>1, <2>3, AllFewerTrans
<1>3. CASE handle_eliminated(s)
  <2> DEFINE ps == CountOut(players, Entries(players, Head(w2m[s]).body))
  <2>1. ps \in Seq(PlayerRec)
    BY <1>0, CountOutType
  <2>2. check_global_end(broadcast_roster(m2w, rooms, ps), rooms, ps)
    BY <1>3 DEF handle_eliminated
  <2> HIDE DEF ps
  <2>3. \A n \in Nat : AllFewer(m2w', m2w, "GARBAGE", n)
    BY <1>b, <2>1, <2>2
  <2> QED
    BY <1>3, <1>a, <2>3 DEF handle_eliminated, workerVars, gameVars, envVars
<1>4. CASE handle_attack(s)
  BY <1>4, AttackRouted
<1>5. CASE handle_feed(s)
  <2> DEFINE m == Head(w2m[s])
  <2>1. m \in ToWorker /\ m.type = "FEED"
    BY <1>5, IncomingType DEF handle_feed, ToMaster, ToWorker
  <2>2. \E S : m2w' = HubSend(m2w, S, m)
    BY <1>5 DEF handle_feed
  <2> HIDE DEF m
  <2>3. \A n \in Nat : AllFewer(m2w', m2w, "GARBAGE", n)
    BY <1>0, <2>1, <2>2, SendFewer
  <2> QED
    BY <1>5, <1>a, <2>3 DEF handle_feed, workerVars, gameVars, envVars
<1>6. ASSUME CloseRoom(s), UNCHANGED <<w2m, hits, attacks>> PROVE TrackInv'
  <2> DEFINE rs == [rooms EXCEPT ![s].used = FALSE]
             ps == CountOut(players, LostWith(s))
  <2>1. ps \in Seq(PlayerRec)
    BY <1>0, CountOutType
  <2>2. m2w' = m2w \/ check_global_end(broadcast_roster(m2w, rs, ps), rs, ps)
    BY <1>6 DEF CloseRoom
  <2> HIDE DEF ps, rs
  <2>3. \A n \in Nat : AllFewer(m2w', m2w, "GARBAGE", n)
    BY <1>b, <2>1, <2>2, SameFewer
  <2>4. \A n \in Nat : AllFewer(w2m', w2m, "ATTACK", n)
    BY <1>6, SameFewer
  <2> QED
    BY <1>6, <2>3, <2>4, QuietInv
<1>7. CASE hub_closed(s)
  <2>1. CloseRoom(s) /\ UNCHANGED <<w2m, hits, attacks>>
    BY <1>7 DEF hub_closed, CloseRoom, workerVars, gameVars
  <2> QED
    BY <1>6, <2>1
<1> QED
  BY <1>1, <1>2, <1>3, <1>4, <1>5, <1>6, <1>7 DEF MasterHandles

LEMMA DrainInv ==
  ASSUME TypeOK, TrackInv, NEW s \in Slots, NEW ss, DrainHub(s, ss, {}, {}),
         \A n \in Nat : AllFewer(w2m', w2m, "ATTACK", n), UNCHANGED attacks
  PROVE  TrackInv'
<1> SUFFICES ASSUME NEW n \in Nat PROVE Tracked(w2m', m2w', hits', attacks, n)
  BY DEF TrackInv
<1>1. Tracked(w2m, m2w, hits, attacks, n) /\ attacks \in Nat /\ attacks >= attacks
  BY DEF TrackInv, TypeOK
<1>2. AllFewer(w2m', w2m, "ATTACK", n) /\ n \notin {}
  OBVIOUS
<1> QED
  BY <1>1, <1>2, DrainTracked

\* A tick that gives out the next number
LEMMA NewAttack ==
  ASSUME TypeOK, TrackInv, NEW s \in Slots, NEW at, NEW shown, NEW hit, DrainHub(s, at, shown, hit),
         NEW X, w2m \in [Slots -> Seq(X)], NEW msgs \in Seq(X), Report(s, msgs),
         attacks < MaxAttacks, attacks' = attacks + 1, hit \subseteq {attacks + 1},
         \A k \in Nat : k # attacks + 1 => Carries(msgs, "ATTACK", k) = {},
         Lone(Carries(msgs, "ATTACK", attacks + 1)),
         attacks + 1 \in hit => Carries(msgs, "ATTACK", attacks + 1) = {}
  PROVE  TrackInv'
<1>0. attacks \in Nat /\ MaxAttacks \in Nat
  BY HubAssumption DEF TypeOK
<1>1. PICK n : n = attacks + 1
  OBVIOUS
<1>2. n \in 1..MaxAttacks /\ n \in Nat /\ n >= attacks /\ n > attacks
  BY <1>0, <1>1
<1> SUFFICES ASSUME NEW k \in Nat PROVE Tracked(w2m', m2w', hits', n, k)
  BY <1>1 DEF TrackInv
<1>3. Tracked(w2m, m2w, hits, attacks, k)
  BY DEF TrackInv
<1>4. CASE k # n
  <2>1. Carries(msgs, "ATTACK", k) = {} /\ k \notin hit
    BY <1>1, <1>4
  <2>2. AllFewer(w2m', w2m, "ATTACK", k)
    BY <2>1, ReportFewer
  <2> QED
    BY <1>2, <1>3, <2>1, <2>2, DrainTracked
<1>5. CASE k = n
  <2>1. Absent(w2m, m2w, hits, n)
    BY <1>2, <1>3, <1>5 DEF Tracked
  <2>2. \A u \in Slots : u # s => w2m'[u] = w2m[u]
    BY DEF Report
  <2>3. w2m'[s] = w2m[s] \/ w2m'[s] = w2m[s] \o msgs
    BY DEF Report
  <2>4. Carries(w2m[s], "ATTACK", n) = {} /\ w2m[s] \in Seq(X)
    BY <2>1 DEF Absent, Up
  <2>5. Lone(Carries(w2m[s] \o msgs, "ATTACK", n))
    BY <1>1, <2>4, CarriesConcat
  <2>6. Lone(Carries(w2m'[s], "ATTACK", n))
    BY <2>3, <2>4, <2>5 DEF Lone
  <2>7. n \in hit => Carries(w2m[s] \o msgs, "ATTACK", n) = {}
    BY <1>1, <2>4, CarriesConcat
  <2>8. n \in hit => ~Up(w2m', s, n)
    BY <2>3, <2>4, <2>7 DEF Up
  <2>9. Tracked(w2m', m2w', hits', n, n)
    BY <1>2, <2>1, <2>2, <2>6, <2>8, FreshTracked
  <2> QED
    BY <1>5, <2>9
<1> QED
  BY <1>4, <1>5

LEMMA TrackAttack ==
  ASSUME TypeOK, TrackInv, NEW s \in Slots, tick_attack(s)
  PROVE  TrackInv'
<1>0. attacks \in Nat /\ w2m \in [Slots -> Seq(ToMaster)]
  BY DEF TypeOK
<1>1. attacks < MaxAttacks /\ attacks' = attacks + 1
  BY DEF tick_attack
<1>2. PICK n : n = attacks + 1
  OBVIOUS
<1>a. PICK d, how, a, v, at :
        LET m   == attacks + 1
            att == [n |-> m, from |-> session[s][a].id, to |-> v]
        IN \/ /\ DrainHub(s, at, {m}, {m})
              /\ Report(s, Eliminated(s, d) \o <<Msg("FEED", att)>>)
           \/ /\ DrainHub(s, at, {m}, {})
              /\ Report(s, Eliminated(s, d) \o <<Msg("ATTACK", att), Msg("FEED", att)>>)
           \/ /\ DrainHub(s, at, {}, {})
              /\ Report(s, Eliminated(s, d))
  <2>1. PICK d \in {0} \cup Playing(session[s]), how \in {"topped", "quit"},
             a \in Playing(session[s]) :
        \E v \in Victims(s, session[s][a].id), at \in DrainedInto(s, d, how) :
          LET ss    == After(s, d, how)
              m     == attacks + 1
              att   == [n |-> m, from |-> session[s][a].id, to |-> v]
              V     == Found(ss, v)
              local == V # {} /\ \E i \in V : ss[i].state = "alive"
          IN /\ session' = [session EXCEPT ![s] = ss]
             /\ \/ /\ local
                   /\ DrainHub(s, at, {m}, {m})
                   /\ Report(s, Eliminated(s, d) \o <<Msg("FEED", att)>>)
                \/ /\ V = {}
                   /\ DrainHub(s, at, {m}, {})
                   /\ Report(s, Eliminated(s, d)
                                \o <<Msg("ATTACK", att), Msg("FEED", att)>>)
                \/ /\ V # {}
                   /\ ~local
                   /\ DrainHub(s, at, {}, {})
                   /\ Report(s, Eliminated(s, d))
    BY DEF tick_attack
  <2> QED
    BY ONLY <2>1, Zenon
<1>b. PICK att : att = [n |-> attacks + 1, from |-> session[s][a].id, to |-> v]
  OBVIOUS
<1>c. att.n = n
  BY <1>2, <1>b
<1>3. \/ /\ DrainHub(s, at, {n}, {n})
         /\ Report(s, Eliminated(s, d) \o <<Msg("FEED", att)>>)
      \/ /\ DrainHub(s, at, {n}, {})
         /\ Report(s, Eliminated(s, d) \o <<Msg("ATTACK", att), Msg("FEED", att)>>)
      \/ /\ DrainHub(s, at, {}, {})
         /\ Report(s, Eliminated(s, d))
  BY ONLY <1>2, <1>a, <1>b, Zenon
<1>4. PICK A, F, E : /\ A = Msg("ATTACK", att) /\ F = Msg("FEED", att)
                     /\ E = Msg("ELIMINATED", session[s][d].id)
  OBVIOUS
<1>5. A.type = "ATTACK" /\ A.body.n = n /\ F.type = "FEED" /\ E.type = "ELIMINATED"
  BY <1>c, <1>4 DEF Msg
<1>6. PICK X : X = ToMaster \cup {A, F, E}
  OBVIOUS
<1>7. w2m \in [Slots -> Seq(X)] /\ A \in X /\ F \in X /\ E \in X
  <2>1. ToMaster \subseteq X
    BY <1>6
  <2>2. Seq(ToMaster) \subseteq Seq(X)
    BY <2>1
  <2> QED
    BY <1>0, <1>6, <2>2
<1>8. PICK e : e = Eliminated(s, d)
  OBVIOUS
<1>9. e = <<>> \/ e = <<E>>
  BY <1>4, <1>8 DEF Eliminated
<1>10. e \in Seq(X) /\ \A k : Carries(e, "ATTACK", k) = {}
  <2>1. CASE e = <<>>
    BY <2>1 DEF Carries
  <2>2. CASE e = <<E>>
    <3>1. <<E>> \in Seq(X)
      BY <1>7
    <3>2. \A k : Carries(<<E>>, "ATTACK", k) = {}
      BY <1>5 DEF Carries
    <3> QED
      BY <2>2, <3>1, <3>2
  <2> QED
    BY <1>9, <2>1, <2>2
<1>11. <<F>> \in Seq(X) /\ \A k : Carries(<<F>>, "ATTACK", k) = {}
  BY <1>5, <1>7 DEF Carries
<1>12. /\ <<A, F>> \in Seq(X) /\ \A k : k # n => Carries(<<A, F>>, "ATTACK", k) = {}
       /\ Lone(Carries(<<A, F>>, "ATTACK", n))
  BY <1>5, <1>7 DEF Carries, Lone
<1>13. Lone({})
  BY DEF Lone
<1>14. CASE DrainHub(s, at, {n}, {n}) /\ Report(s, e \o <<F>>)
  <2>1. PICK r, msgs : r = <<F>> /\ msgs = e \o r
    OBVIOUS
  <2>2. e \in Seq(X) /\ r \in Seq(X) /\ msgs \in Seq(X)
    BY <1>10, <1>11, <2>1
  <2>3. ASSUME NEW k PROVE Carries(msgs, "ATTACK", k) = {}
    <3>1. Carries(e, "ATTACK", k) = {} /\ Carries(r, "ATTACK", k) = {}
      BY <1>10, <1>11, <2>1
    <3>2. Carries(e \o r, "ATTACK", k) = Carries(e, "ATTACK", k)
      BY ONLY <2>2, <3>1, CarriesConcat
    <3> QED
      BY <2>1, <3>1, <3>2
  <2>4. PICK h : h = {n}
    OBVIOUS
  <2>5. DrainHub(s, at, h, h) /\ Report(s, msgs) /\ h \subseteq {attacks + 1}
    BY <1>2, <1>14, <2>1, <2>4
  <2>6. /\ \A k \in Nat : k # attacks + 1 => Carries(msgs, "ATTACK", k) = {}
        /\ Lone(Carries(msgs, "ATTACK", attacks + 1))
        /\ Carries(msgs, "ATTACK", attacks + 1) = {}
    BY <1>13, <2>3
  <2> QED
    BY <1>1, <1>7, <2>2, <2>5, <2>6, NewAttack
<1>15. CASE DrainHub(s, at, {n}, {}) /\ Report(s, e \o <<A, F>>)
  <2>1. PICK r, msgs : r = <<A, F>> /\ msgs = e \o r
    OBVIOUS
  <2>2. e \in Seq(X) /\ r \in Seq(X) /\ msgs \in Seq(X)
    BY <1>10, <1>12, <2>1
  <2>3. ASSUME NEW k PROVE /\ k # n => Carries(msgs, "ATTACK", k) = {}
                           /\ k = n => Lone(Carries(msgs, "ATTACK", k))
    <3>1. /\ Carries(e, "ATTACK", k) = {}
          /\ k # n => Carries(r, "ATTACK", k) = {}
          /\ k = n => Lone(Carries(r, "ATTACK", k))
      BY <1>10, <1>12, <2>1
    <3>2. /\ Carries(r, "ATTACK", k) = {}
             => Carries(e \o r, "ATTACK", k) = Carries(e, "ATTACK", k)
          /\ Carries(e, "ATTACK", k) = {} /\ Lone(Carries(r, "ATTACK", k))
             => Lone(Carries(e \o r, "ATTACK", k))
      BY ONLY <2>2, CarriesConcat
    <3> QED
      BY <2>1, <3>1, <3>2
  <2>4. PICK h, g : h = {n} /\ g = {}
    OBVIOUS
  <2>5. DrainHub(s, at, h, g) /\ Report(s, msgs) /\ g \subseteq {attacks + 1}
    BY <1>15, <2>1, <2>4
  <2>6. /\ \A k \in Nat : k # attacks + 1 => Carries(msgs, "ATTACK", k) = {}
        /\ Lone(Carries(msgs, "ATTACK", attacks + 1))
        /\ attacks + 1 \notin g
    BY <1>2, <2>3, <2>4
  <2> QED
    BY <1>1, <1>7, <2>2, <2>5, <2>6, NewAttack
<1>16. CASE DrainHub(s, at, {}, {}) /\ Report(s, e)
  <2>1. PICK g : g = {}
    OBVIOUS
  <2>2. DrainHub(s, at, g, g) /\ g \subseteq {attacks + 1} /\ attacks + 1 \notin g
    BY <1>16, <2>1
  <2>3. /\ \A k \in Nat : k # attacks + 1 => Carries(e, "ATTACK", k) = {}
        /\ Lone(Carries(e, "ATTACK", attacks + 1))
    BY <1>10, <1>13
  <2> QED
    BY <1>1, <1>7, <1>10, <1>16, <2>2, <2>3, NewAttack
<1> QED
  BY <1>3, <1>4, <1>8, <1>14, <1>15, <1>16

LEMMA TrackWorker ==
  ASSUME TypeOK, TrackInv, NEW s \in Slots,
         \/ WorkerSteps(s)
         \/ tick_attack(s)
         \/ crash(s)
         \/ hub_reset(s)
         \/ handshake_done(s)
         \/ handshake_fail(s)
         \/ \E c \in Clients : lobby_accept(s, c)
  PROVE  TrackInv'
<1>0. m2w \in [Slots -> Seq(ToWorker)] /\ w2m \in [Slots -> Seq(ToMaster)]
  BY DEF TypeOK
<1>a. \A n \in Nat : AllFewer(m2w, m2w, "GARBAGE", n) /\ AllFewer(w2m, w2m, "ATTACK", n)
  BY SameFewer
<1>b. \A n \in Nat : AllFewer([m2w EXCEPT ![s] = <<>>], m2w, "GARBAGE", n)
                     /\ AllFewer([w2m EXCEPT ![s] = <<>>], w2m, "ATTACK", n)
  BY <1>0, ClearFewer
<1>1. CASE handshake_done(s) \/ handshake_fail(s) \/ \E c \in Clients : lobby_accept(s, c)
  <2>1. UNCHANGED <<m2w, w2m, hits, attacks>>
    BY <1>1 DEF handshake_done, handshake_fail, lobby_accept, gameVars, envVars
  <2> QED
    BY <1>a, <2>1, QuietInv
<1>2. ASSUME Vanish(s), UNCHANGED attacks PROVE TrackInv'
  <2>1. m2w' = [m2w EXCEPT ![s] = <<>>] /\ UNCHANGED hits
    BY <1>2 DEF Vanish
  <2>2. w2m' = w2m \/ w2m' = [w2m EXCEPT ![s] = <<>>]
    BY <1>2 DEF Vanish
  <2> QED
    BY <1>2, <1>a, <1>b, <2>1, <2>2, QuietInv
<1>3. ASSUME NEW X, w2m \in [Slots -> Seq(X)], NEW msgs \in Seq(X), Report(s, msgs),
             \A i \in DOMAIN msgs : msgs[i].type # "ATTACK"
      PROVE  \A n \in Nat : AllFewer(w2m', w2m, "ATTACK", n)
  <2>1. \A n \in Nat : Carries(msgs, "ATTACK", n) = {}
    BY <1>3 DEF Carries
  <2> QED
    BY <1>3, <2>1, ReportFewer
<1>4. CASE bind_port(s)
  <2>1. PICK msgs : msgs = <<Msg("READY", 0)>>
    OBVIOUS
  <2>2. msgs \in Seq(ToMaster) /\ \A i \in DOMAIN msgs : msgs[i].type # "ATTACK"
    <3>1. Msg("READY", 0) \in ToMaster /\ Msg("READY", 0).type = "READY"
      BY MsgTypes DEF Msg
    <3> QED
      BY <2>1, <3>1
  <2>3. \A n \in Nat : AllFewer(w2m', w2m, "ATTACK", n)
    BY <1>0, <1>3, <1>4, <2>1, <2>2 DEF bind_port
  <2> QED
    BY <1>4, <1>a, <2>3, QuietInv DEF bind_port, gameVars, envVars
<1>5. CASE lobby_poll(s)
  <2>1. PICK msgs : /\ Report(s, msgs)
                    /\ msgs = [i \in 1..(Len(conn[s]) - lobby[s].reported) |->
                                 Msg("JOINED", conn[s][lobby[s].reported + i])]
    BY <1>5 DEF lobby_poll
  <2>2. \A i \in DOMAIN msgs : msgs[i].type # "ATTACK"
    BY <2>1 DEF Msg
  <2>3. PICK X : X = ToMaster \cup {msgs[i] : i \in DOMAIN msgs}
    OBVIOUS
  <2>4. w2m \in [Slots -> Seq(X)] /\ msgs \in Seq(X)
    <3>1. PICK c : c = Len(conn[s]) - lobby[s].reported
      OBVIOUS
    <3>2. c \in Int
      BY <3>1 DEF TypeOK, LobbyRec
    <3>3. \E k \in Nat : 1..c = 1..k
      <4>1. CASE c \in Nat
        BY <4>1
      <4>2. CASE c \notin Nat
        <5>1. 1..c = 1..0
          BY <3>2, <4>2
        <5> QED
          BY <5>1
      <4> QED
        BY <4>1, <4>2
    <3>4. PICK k \in Nat : 1..c = 1..k
      BY <3>3
    <3>5. msgs \in [1..k -> X]
      BY <2>1, <2>3, <3>1, <3>4
    <3>6. Seq(ToMaster) \subseteq Seq(X)
      <4>1. ToMaster \subseteq X
        BY <2>3
      <4> QED
        BY <4>1
    <3> QED
      BY <1>0, <3>5, <3>6
  <2>5. \A n \in Nat : AllFewer(w2m', w2m, "ATTACK", n)
    BY <1>3, <2>1, <2>2, <2>4
  <2> QED
    BY <1>5, <1>a, <2>5, QuietInv DEF lobby_poll, gameVars, envVars
<1>6. CASE lobby_drain(s) \/ lobby_start(s) \/ hub_reset(s)
  <2>1. m2w' = [m2w EXCEPT ![s] = <<>>] /\ UNCHANGED <<w2m, hits, attacks>>
    BY <1>6 DEF lobby_drain, lobby_start, hub_reset, gameVars, envVars, workerVars
  <2> QED
    BY <1>a, <1>b, <2>1, QuietInv
<1>7. CASE tick(s)
  <2>1. PICK d, ss : Report(s, Eliminated(s, d)) /\ DrainHub(s, ss, {}, {})
    BY <1>7 DEF tick
  <2>2. PICK E : E = Msg("ELIMINATED", session[s][d].id)
    OBVIOUS
  <2>3. PICK X : X = ToMaster \cup {E}
    OBVIOUS
  <2>4. ToMaster \subseteq X /\ E \in X /\ E.type = "ELIMINATED"
    BY <2>2, <2>3 DEF Msg
  <2>5. Seq(ToMaster) \subseteq Seq(X)
    BY <2>4
  <2>6. PICK msgs : msgs = Eliminated(s, d)
    OBVIOUS
  <2>7. msgs = <<>> \/ msgs = <<E>>
    BY <2>2, <2>6 DEF Eliminated
  <2>8. msgs \in Seq(X) /\ \A i \in DOMAIN msgs : msgs[i].type # "ATTACK"
    <3>1. CASE msgs = <<>>
      BY <3>1
    <3>2. CASE msgs = <<E>>
      <4>1. <<E>> \in Seq(X)
        BY <2>4
      <4>2. DOMAIN msgs = {1} /\ msgs[1] = E
        BY <3>2
      <4> QED
        BY <2>4, <3>2, <4>1, <4>2
    <3> QED
      BY <2>7, <3>1, <3>2
  <2>9. \A n \in Nat : AllFewer(w2m', w2m, "ATTACK", n)
    BY <1>0, <1>3, <2>1, <2>5, <2>6, <2>8
  <2> QED
    BY <1>7, <2>1, <2>9, DrainInv DEF tick, envVars
<1>8. CASE tick_over(s)
  <2>1. PICK ss : DrainHub(s, ss, {}, {})
    BY <1>8 DEF tick_over
  <2>2. UNCHANGED <<w2m, attacks>>
    BY <1>8 DEF tick_over, envVars
  <2> QED
    BY <1>a, <2>1, <2>2, DrainInv
<1>9. CASE room_exit(s) \/ lobby_eof(s) \/ crash(s)
  BY <1>2, <1>9 DEF room_exit, lobby_eof, crash
<1>10. CASE tick_attack(s)
  BY <1>10, TrackAttack
<1> QED
  BY <1>1, <1>4, <1>5, <1>6, <1>7, <1>8, <1>9, <1>10 DEF WorkerSteps

\* An attack puts garbage on at most one board, and there once (the three ways a
\* tick routes it, handle_attack's HUB_GARBAGE, and the HUB_FEED copies that
\* every other room gets), for any number of rooms, players and attacks,
\* whatever rooms crash, close or are reused while it travels
THEOREM AttacksLandOnce == Spec => []GarbageLandsOnce
<1>1. Init => TrackInv
  <2> SUFFICES ASSUME Init, NEW n \in Nat PROVE Tracked(w2m, m2w, hits, attacks, n)
    BY DEF TrackInv
  <2>1. \A t : Carries(<<>>, t, n) = {}
    BY DEF Carries
  <2>2. \A s \in Slots : w2m[s] = <<>> /\ m2w[s] = <<>>
                         /\ (n \in 1..MaxAttacks => hits[s][n] = 0)
    BY DEF Init
  <2>3. \A s \in Slots : ~Up(w2m, s, n) /\ ~Down(m2w, s, n) /\ ~Struck(hits, s, n)
    BY <2>1, <2>2 DEF Up, Down, Struck
  <2>4. Single(w2m, m2w, hits, n)
    BY <2>1, <2>2 DEF Single, Lone
  <2> QED
    BY <2>3, <2>4 DEF Tracked, Apart, Absent
<1>2. TypeOK /\ TrackInv /\ [Next]_vars => TrackInv'
  <2> SUFFICES ASSUME TypeOK, TrackInv, [Next]_vars PROVE TrackInv'
    OBVIOUS
  <2>1. ASSUME UNCHANGED <<m2w, w2m, hits, attacks>> PROVE TrackInv'
    BY <2>1, SameFewer, QuietInv
  <2>2. CASE UNCHANGED vars
    BY <2>1, <2>2 DEF vars, workerVars, gameVars, envVars
  <2>3. ASSUME NEW c \in Clients,
               accept_client(c) \/ accept_refuse(c) \/ connect_refused(c)
        PROVE  TrackInv'
    BY <2>1, <2>3 DEF accept_client, accept_refuse, connect_refused, workerVars, gameVars
  <2>4. ASSUME NEW c \in Clients, accept_spawn(c) PROVE TrackInv'
    <3>1. PICK s : /\ m2w' = [m2w EXCEPT ![s] = <<>>]
                   /\ w2m' = [w2m EXCEPT ![s] = <<>>]
      BY <2>4 DEF accept_spawn
    <3>2. UNCHANGED <<hits, attacks>>
      BY <2>4 DEF accept_spawn, gameVars
    <3>3. m2w \in [Slots -> Seq(ToWorker)] /\ w2m \in [Slots -> Seq(ToMaster)]
      BY DEF TypeOK
    <3>4. \A n \in Nat : AllFewer(w2m', w2m, "ATTACK", n)
      BY <3>1, <3>3, ClearFewer
    <3>5. \A n \in Nat : AllFewer(m2w', m2w, "GARBAGE", n)
      BY <3>1, <3>3, ClearFewer
    <3> QED
      BY <3>2, <3>4, <3>5, QuietInv
  <2>5. CASE press_enter
    <3>1. m2w \in M2W /\ rooms \in [Slots -> RoomRec] /\ players \in Seq(PlayerRec)
      BY DEF TypeOK, M2W
    <3>2. start_all_rooms(m2w, rooms, players) /\ UNCHANGED <<w2m, hits, attacks>>
      BY <2>5 DEF press_enter, workerVars, gameVars, envVars
    <3>3. \A n \in Nat : AllFewer(m2w', m2w, "GARBAGE", n)
      BY <3>1, <3>2, StartFewer
    <3> QED
      BY <3>2, <3>3, SameFewer, QuietInv
  <2>6. CASE on_sigint \/ loop_exit
    BY <2>1, <2>6 DEF on_sigint, loop_exit, workerVars, gameVars, envVars
  <2>7. CASE shutdown
    <3>1. UNCHANGED <<w2m, hits>>
      BY <2>7 DEF shutdown, workerVars, gameVars
    <3>2. CASE Used(rooms) = {}
      BY <2>1, <2>7, <3>1, <3>2 DEF shutdown, envVars
    <3>3. CASE Used(rooms) # {}
      <4>1. Least(Used(rooms)) \in Slots
        BY <3>3, LeastSlot DEF Used
      <4>2. CloseRoom(Least(Used(rooms)))
        BY <2>7, <3>3 DEF shutdown
      <4>3. UNCHANGED attacks
        BY <4>2 DEF CloseRoom
      <4> QED
        BY <3>1, <4>1, <4>2, <4>3, TrackMaster
    <3> QED
      BY <3>2, <3>3
  <2>8. ASSUME NEW s \in Slots, MasterHandles(s) PROVE TrackInv'
    BY <2>8, TrackMaster
  <2>9. ASSUME NEW s \in Slots,
               \/ WorkerSteps(s)
               \/ tick_attack(s)
               \/ crash(s)
               \/ hub_reset(s)
               \/ handshake_done(s)
               \/ handshake_fail(s)
               \/ \E c \in Clients : lobby_accept(s, c)
        PROVE  TrackInv'
    BY <2>9, TrackWorker
  <2> QED
    BY <2>2, <2>3, <2>4, <2>5, <2>6, <2>7, <2>8, <2>9 DEF Next
<1>3. TypeOK /\ TrackInv => GarbageLandsOnce
  <2> SUFFICES ASSUME TypeOK, TrackInv, NEW n \in 1..MaxAttacks,
                      NEW H, H = {s \in Slots : hits[s][n] > 0}
               PROVE  Cardinality(H) <= 1 /\ \A s \in H : hits[s][n] = 1
    BY DEF GarbageLandsOnce
  <2>1. n \in Nat /\ Apart(w2m, m2w, hits, n) /\ Single(w2m, m2w, hits, n)
    BY DEF TrackInv, Tracked
  <2>2. \A s \in H : hits[s][n] \in Nat /\ hits[s][n] > 0 /\ hits[s][n] <= 1
    BY <2>1 DEF Single, TypeOK
  <2>3. \A s, t \in H : s = t
    BY <2>1 DEF Apart, Struck
  <2>4. H = {} \/ \E s : H = {s}
    BY <2>3
  <2>5. Cardinality(H) <= 1
    <3>1. Cardinality(H) = 0 \/ Cardinality(H) = 1
      BY ONLY <2>4, FS_EmptySet, FS_Singleton, Zenon
    <3> QED
      BY <3>1
  <2> QED
    BY <2>2, <2>5
<1> QED
  BY <1>1, <1>2, <1>3, TypeCorrect, PTL DEF Spec

-----------------------------------------------------------------------------
(* Ids.  A worker is given MaxLobby ids and at most RoomSize clients, so it    *)
(* never runs out of its own and windows of ids stay apart.  One thing breaks  *)
(* this (IdsUnique, main.c:143): a client who is still on the way to a room    *)
(* when its slot, and with it the port, is taken again reaches the successor,  *)
(* which had not counted on it.  What rests on ids is shown for behaviours     *)
(* without that coincidence.                                                   *)

NoLateComer ==
  \A s \in Slots : ~rooms[s].used /\ rooms'[s].used =>
    \A c \in Clients : ~(client[c].pc = "redirected" /\ client[c].slot = s)

\* Those who may still knock at the room of slot s, and those dealt into it later
Coming(cl, s) == {c \in Clients : cl[c].slot = s /\ cl[c].pc \in {"parked", "redirected"}}
Left(s) == Cardinality(Coming(client, s)) + (RoomSize - rooms[s].redirected)

\* Worker s still gives out the ids from next_id[s] up to LastId(s), exclusive
LastId(s) == next_id[s] + Left(s)

\* An id that nobody will be given any more
Issued(x) ==
  /\ x < IdBase(room_seq)
  /\ \A s \in Slots : Live(s) => x < next_id[s] \/ x >= LastId(s)

WinInv ==
  /\ \A s \in Slots : IsFiniteSet(Coming(client, s)) /\ rooms[s].redirected <= RoomSize
  /\ \A c \in Clients : client[c].pc = "parked" => rooms[client[c].slot].used
  /\ \A s \in Slots : Live(s) => 1 <= next_id[s] /\ LastId(s) <= IdBase(room_seq)
  /\ \A s, t \in Slots : s # t /\ Live(s) /\ Live(t) =>
       LastId(s) <= next_id[t] \/ LastId(t) <= next_id[s]

StillIssued == \A x \in Nat : Issued(x) => Issued(x)'

LEMMA IdBaseFacts ==
  ASSUME NEW n \in Nat
  PROVE  IdBase(n) \in Nat /\ IdBase(n) >= 1 /\ IdBase(n + 1) = IdBase(n) + MaxLobby
<1>1. MaxLobby \in Nat
  BY HubAssumption
<1>2. n * MaxLobby \in Nat /\ (n + 1) * MaxLobby = n * MaxLobby + MaxLobby
  BY <1>1
<1> QED
  BY <1>1, <1>2 DEF IdBase

LEMMA LeftType ==
  ASSUME TypeOK, NEW s \in Slots, IsFiniteSet(Coming(client, s)), rooms[s].redirected <= RoomSize
  PROVE  Left(s) \in Nat /\ LastId(s) \in Nat /\ Left(s) >= Cardinality(Coming(client, s))
<1>1. Cardinality(Coming(client, s)) \in Nat
  BY FS_CardinalityType
<1>2. rooms[s].redirected \in Nat /\ RoomSize \in Nat /\ next_id[s] \in Nat
  BY HubAssumption DEF TypeOK, RoomRec
<1> QED
  BY <1>1, <1>2 DEF Left, LastId

\* Windows that only shrink stay within bounds and apart
LEMMA WinStep ==
  ASSUME TypeOK, TypeOK', WinInv, UNCHANGED room_seq,
         \A s \in Slots : /\ IsFiniteSet(Coming(client', s))
                          /\ rooms'[s].redirected <= RoomSize
                          /\ Live(s)' => /\ Live(s) /\ next_id[s] <= next_id'[s]
                                         /\ LastId(s)' <= LastId(s),
         \A c \in Clients : client'[c].pc = "parked" => rooms'[client'[c].slot].used
  PROVE  WinInv' /\ StillIssued
<1>1. \A s \in Slots : LastId(s) \in Nat /\ next_id[s] \in Nat
  BY LeftType DEF WinInv, TypeOK
<1>2. \A s \in Slots : LastId(s)' \in Nat /\ next_id'[s] \in Nat
  <2> SUFFICES ASSUME NEW s \in Slots PROVE LastId(s)' \in Nat /\ next_id'[s] \in Nat
    OBVIOUS
  <2>1. IsFiniteSet(Coming(client', s)) /\ rooms'[s].redirected <= RoomSize
    OBVIOUS
  <2>2. Cardinality(Coming(client', s)) \in Nat
    BY <2>1, FS_CardinalityType
  <2>3. rooms'[s].redirected \in Nat /\ RoomSize \in Nat /\ next_id'[s] \in Nat
    BY HubAssumption DEF TypeOK, RoomRec
  <2> QED
    BY <2>1, <2>2, <2>3 DEF Left, LastId
<1>3. PICK lim : lim = IdBase(room_seq) /\ lim = IdBase(room_seq)' /\ lim \in Nat
  BY IdBaseFacts DEF TypeOK, IdBase
<1>4. \A s \in Slots : Live(s)' => 1 <= next_id'[s] /\ LastId(s)' <= lim
  BY <1>1, <1>2, <1>3 DEF WinInv
<1>5. ASSUME NEW s \in Slots, NEW t \in Slots, s # t, Live(s)', Live(t)'
      PROVE  LastId(s)' <= next_id'[t] \/ LastId(t)' <= next_id'[s]
  <2>1. LastId(s) <= next_id[t] \/ LastId(t) <= next_id[s]
    BY <1>5 DEF WinInv
  <2>2. /\ LastId(s)' <= LastId(s) /\ next_id[s] <= next_id'[s]
        /\ LastId(t)' <= LastId(t) /\ next_id[t] <= next_id'[t]
    BY <1>5
  <2> QED
    BY <1>1, <1>2, <2>1, <2>2
<1>6. ASSUME NEW x \in Nat, Issued(x) PROVE Issued(x)'
  <2> SUFFICES ASSUME NEW s \in Slots, Live(s)' PROVE x < next_id'[s] \/ x >= LastId(s)'
    BY <1>3, <1>6 DEF Issued
  <2>1. x < next_id[s] \/ x >= LastId(s)
    BY <1>6 DEF Issued
  <2>2. LastId(s)' <= LastId(s) /\ next_id[s] <= next_id'[s]
    OBVIOUS
  <2> QED
    BY <1>1, <1>2, <2>1, <2>2
<1> QED
  BY <1>3, <1>4, <1>5, <1>6 DEF WinInv, StillIssued

LEMMA WinQuiet ==
  ASSUME TypeOK, TypeOK', WinInv, UNCHANGED room_seq,
         \A s \in Slots : /\ Coming(client', s) \subseteq Coming(client, s)
                          /\ rooms'[s].redirected = rooms[s].redirected
                          /\ Live(s)' => Live(s) /\ next_id'[s] = next_id[s],
         \A c \in Clients : client'[c].pc = "parked" => rooms'[client'[c].slot].used
  PROVE  WinInv' /\ StillIssued
<1> SUFFICES ASSUME NEW s \in Slots
             PROVE  /\ IsFiniteSet(Coming(client', s))
                    /\ rooms'[s].redirected <= RoomSize
                    /\ Live(s)' => /\ Live(s) /\ next_id[s] <= next_id'[s]
                                   /\ LastId(s)' <= LastId(s)
  BY WinStep
<1>1. IsFiniteSet(Coming(client, s)) /\ rooms[s].redirected <= RoomSize
  BY DEF WinInv
<1>2. PICK a, b : a = Cardinality(Coming(client, s)) /\ b = Cardinality(Coming(client', s))
  OBVIOUS
<1>3. IsFiniteSet(Coming(client', s)) /\ a \in Nat /\ b \in Nat /\ b <= a
  BY <1>1, <1>2, FS_Subset, FS_CardinalityType
<1>4. rooms[s].redirected \in Nat /\ RoomSize \in Nat /\ next_id[s] \in Nat
  BY HubAssumption DEF TypeOK, RoomRec
<1>5. Live(s)' => LastId(s)' <= LastId(s)
  BY <1>2, <1>3, <1>4 DEF LastId, Left
<1> QED
  BY <1>1, <1>3, <1>4, <1>5

\* What most steps do to the clients and rooms
Calm ==
  /\ \A c \in Clients : /\ client'[c].slot = client[c].slot
                        /\ client'[c].pc = "parked" => client[c].pc = "parked"
                        /\ client'[c].pc = "redirected" => client[c].pc \in {"parked", "redirected"}
  /\ \A s \in Slots : /\ rooms'[s].redirected = rooms[s].redirected
                      /\ Live(s)' => Live(s) /\ next_id'[s] = next_id[s]
  /\ UNCHANGED room_seq

LEMMA WinCalm ==
  ASSUME TypeOK, TypeOK', WinInv, Calm,
         \A c \in Clients : client'[c].pc = "parked" =>
           rooms'[client[c].slot].used = rooms[client[c].slot].used
  PROVE  WinInv' /\ StillIssued
<1>1. \A s \in Slots : Coming(client', s) \subseteq Coming(client, s)
  BY DEF Calm, Coming
<1>2. \A c \in Clients : client'[c].pc = "parked" => rooms'[client'[c].slot].used
  BY DEF Calm, WinInv
<1> QED
  BY <1>1, <1>2, WinQuiet DEF Calm

LEMMA CalmVanish ==
  ASSUME TypeOK, NEW s \in Slots, Vanish(s), UNCHANGED <<rooms, room_seq>>
  PROVE  Calm
<1>1. /\ wpc' = [wpc EXCEPT ![s] = "gone"] /\ next_id' = [next_id EXCEPT ![s] = 0]
      /\ client' = HungUp(s)
  BY DEF Vanish
<1>2. \A t \in Slots : Live(t)' => Live(t) /\ next_id'[t] = next_id[t]
  BY <1>1 DEF TypeOK, Live
<1>3. ASSUME NEW c \in Clients
      PROVE  /\ client'[c].slot = client[c].slot
             /\ client'[c].pc = client[c].pc \/ client'[c].pc = "closed"
  BY <1>1 DEF HungUp, TypeOK, ClientRec
<1> QED
  BY <1>2, <1>3 DEF Calm

LEMMA WinWorker ==
  ASSUME TypeOK, TypeOK', WinInv, NEW s \in Slots,
         \/ WorkerSteps(s) \/ tick_attack(s) \/ crash(s) \/ hub_reset(s)
         \/ handshake_done(s) \/ handshake_fail(s)
  PROVE  WinInv' /\ StillIssued
<1>1. ASSUME Vanish(s), UNCHANGED masterVars PROVE WinInv' /\ StillIssued
  BY <1>1, CalmVanish, WinCalm DEF masterVars
<1>2. CASE room_exit(s) \/ lobby_eof(s) \/ crash(s)
  BY <1>1, <1>2 DEF room_exit, lobby_eof, crash
<1>3. ASSUME UNCHANGED <<rooms, room_seq, client, next_id>>, \A t \in Slots : Live(t)' => Live(t)
      PROVE  WinInv' /\ StillIssued
  <2>1. Calm
    BY <1>3 DEF Calm
  <2> QED
    BY <1>3, <2>1, WinCalm
<1>4. CASE bind_port(s) \/ lobby_poll(s) \/ lobby_drain(s) \/ lobby_start(s) \/ tick_over(s)
  <2>1. UNCHANGED <<rooms, room_seq, client, next_id>>
    BY <1>4 DEF bind_port, lobby_poll, lobby_drain, lobby_start, tick_over, masterVars,
                envVars, serverVars
  <2>2. Live(s) /\ \A t \in Slots \ {s} : wpc'[t] = wpc[t]
    BY <1>4 DEF bind_port, lobby_poll, lobby_drain, lobby_start, tick_over, Live, TypeOK
  <2>3. \A t \in Slots : Live(t)' => Live(t)
    BY <2>2 DEF Live
  <2> QED
    BY <1>3, <2>1, <2>3
<1>5. CASE tick(s) \/ tick_attack(s) \/ hub_reset(s) \/ handshake_done(s) \/ handshake_fail(s)
  <2>1. UNCHANGED <<rooms, room_seq, client, next_id, wpc>>
    <3>1. CASE tick(s) \/ hub_reset(s)
      BY <3>1 DEF tick, hub_reset, masterVars, envVars, serverVars, workerVars
    <3>2. CASE tick_attack(s)
      BY <3>2 DEF tick_attack, masterVars, serverVars
    <3>3. CASE handshake_done(s) \/ handshake_fail(s)
      BY <3>3 DEF handshake_done, handshake_fail, masterVars, envVars
    <3> QED
      BY <1>5, <3>1, <3>2, <3>3
  <2>2. \A t \in Slots : Live(t)' => Live(t)
    BY <2>1 DEF Live
  <2> QED
    BY <1>3, <2>1, <2>2
<1> QED
  BY <1>2, <1>4, <1>5 DEF WorkerSteps

LEMMA WinClose ==
  ASSUME TypeOK, TypeOK', WinInv, NEW s \in Slots, CloseRoom(s), UNCHANGED workerVars
  PROVE  WinInv' /\ StillIssued
<1>1. /\ rooms' = [rooms EXCEPT ![s].used = FALSE] /\ UNCHANGED <<wpc, next_id, room_seq>>
      /\ client' = [c \in Clients |->
           IF c \in Parked(s)
           THEN [client[c] EXCEPT !.pc = IF client[c].held = {} THEN "closed" ELSE "abandoned"]
           ELSE client[c]]
  BY DEF CloseRoom, workerVars, serverVars
<1>2. \A t \in Slots : /\ rooms'[t].redirected = rooms[t].redirected
                       /\ t # s => rooms'[t].used = rooms[t].used
  <2>1. rooms \in [Slots -> RoomRec]
    BY DEF TypeOK
  <2> QED
    BY ONLY <1>1, <2>1 DEF RoomRec
<1>3. ASSUME NEW c \in Clients
      PROVE  /\ client'[c].slot = client[c].slot
             /\ client'[c].pc = "parked" => client[c].pc = "parked" /\ client[c].slot # s
             /\ client'[c].pc = "redirected" => client[c].pc = "redirected"
  <2>1. client[c] \in ClientRec
    BY DEF TypeOK
  <2>2. CASE c \in Parked(s)
    BY <1>1, <2>1, <2>2 DEF ClientRec
  <2>3. CASE c \notin Parked(s)
    BY <1>1, <2>1, <2>3 DEF Parked
  <2> QED
    BY <2>2, <2>3
<1>4. Calm
  BY <1>1, <1>2, <1>3 DEF Calm, Live
<1>5. \A c \in Clients : client[c].slot \in Slots
  BY DEF TypeOK, ClientRec
<1> QED
  BY <1>2, <1>3, <1>4, <1>5, WinCalm

LEMMA JoinedSame ==
  ASSUME rooms \in [Slots -> RoomRec], NEW s \in Slots, handle_joined(s)
  PROVE  \A t \in Slots : /\ rooms'[t].redirected = rooms[t].redirected
                          /\ rooms'[t].used = rooms[t].used
<1> DEFINE rs == [rooms EXCEPT ![s].joined = @ + 1]
<1>1. \A t \in Slots : /\ rs[t] \in RoomRec
                       /\ rs[t].redirected = rooms[t].redirected /\ rs[t].used = rooms[t].used
  BY DEF RoomRec
<1>2. rooms' = rs \/ \E q, ps : start_all_rooms(q, rs, ps)
  BY DEF handle_joined
<1> HIDE DEF rs
<1>3. ASSUME NEW q, NEW ps, start_all_rooms(q, rs, ps)
      PROVE  \A t \in Slots : rooms'[t] = rs[t] \/ rooms'[t] = [rs[t] EXCEPT !.started = TRUE]
  BY <1>3 DEF start_all_rooms
<1>4. \A t \in Slots : rooms'[t] = rs[t] \/ rooms'[t] = [rs[t] EXCEPT !.started = TRUE]
  BY <1>2, <1>3
<1> QED
  BY ONLY <1>1, <1>4 DEF RoomRec

LEMMA WinMaster ==
  ASSUME TypeOK, TypeOK', WinInv, NEW s \in Slots, MasterHandles(s)
  PROVE  WinInv' /\ StillIssued
<1>1. CASE handle_ready(s)
  <2>1. /\ rooms' = [rooms EXCEPT ![s].ready = TRUE] /\ UNCHANGED <<wpc, next_id, room_seq>>
        /\ client' = [c \in Clients |-> IF c \in Parked(s)
                                        THEN [client[c] EXCEPT !.pc = "redirected", !.held = {}]
                                        ELSE client[c]]
    BY <1>1 DEF handle_ready, workerVars, serverVars
  <2>2. \A t \in Slots : rooms'[t].redirected = rooms[t].redirected /\ rooms'[t].used = rooms[t].used
    <3>1. rooms \in [Slots -> RoomRec]
      BY DEF TypeOK
    <3> QED
      BY ONLY <2>1, <3>1 DEF RoomRec
  <2>3. ASSUME NEW c \in Clients
        PROVE  /\ client'[c].slot = client[c].slot
               /\ client'[c].pc = "parked" => client[c].pc = "parked"
               /\ client'[c].pc = "redirected" => client[c].pc \in {"parked", "redirected"}
    <3>1. client[c] \in ClientRec
      BY DEF TypeOK
    <3> QED
      BY <2>1, <3>1 DEF ClientRec, Parked
  <2>4. Calm
    BY <2>1, <2>2, <2>3 DEF Calm, Live
  <2>5. \A c \in Clients : client[c].slot \in Slots
    BY DEF TypeOK, ClientRec
  <2> QED
    BY <2>2, <2>4, <2>5, WinCalm
<1>2. ASSUME UNCHANGED <<client, room_seq, next_id, wpc>>,
             \A t \in Slots : /\ rooms'[t].redirected = rooms[t].redirected
                              /\ rooms'[t].used = rooms[t].used
      PROVE  WinInv' /\ StillIssued
  <2>1. Calm
    BY <1>2 DEF Calm, Live
  <2>2. \A c \in Clients : client[c].slot \in Slots
    BY DEF TypeOK, ClientRec
  <2> QED
    BY <1>2, <2>1, <2>2, WinCalm
<1>3. CASE handle_joined(s)
  <2>1. \A t \in Slots : /\ rooms'[t].redirected = rooms[t].redirected
                         /\ rooms'[t].used = rooms[t].used
    BY <1>3, JoinedSame DEF TypeOK
  <2>2. UNCHANGED <<client, room_seq, next_id, wpc>>
    BY <1>3 DEF handle_joined, workerVars, serverVars, envVars
  <2> QED
    BY <1>2, <2>1, <2>2
<1>4. CASE handle_eliminated(s)
  BY <1>2, <1>4 DEF handle_eliminated, workerVars, serverVars, envVars
<1>5. CASE handle_attack(s) \/ handle_feed(s)
  BY <1>2, <1>5 DEF handle_attack, handle_feed, masterVars, workerVars, serverVars, envVars
<1>6. CASE hub_closed(s)
  BY <1>6, WinClose DEF hub_closed
<1> QED
  BY <1>1, <1>3, <1>4, <1>5, <1>6 DEF MasterHandles

LEMMA WinAdmit ==
  ASSUME TypeOK, TypeOK', WinInv, NEW c \in Clients, accept_client(c)
  PROVE  WinInv' /\ StillIssued
<1>1. PICK s \in Slots :
        /\ rooms[s].used /\ rooms[s].redirected < RoomSize
        /\ client' = [client EXCEPT ![c] =
             [pc |-> IF rooms[s].ready THEN "redirected" ELSE "parked",
              slot |-> s, id |-> 0, held |-> {}]]
        /\ rooms' = [rooms EXCEPT ![s].redirected = @ + 1]
  <2>1. Least(Filling) \in Slots /\ Least(Filling) \in Filling
    BY LeastSlot DEF accept_client, Filling
  <2> QED
    BY <2>1 DEF accept_client, Filling
<1>2. client[c].pc = "idle" /\ UNCHANGED <<room_seq, wpc, next_id>>
  BY DEF accept_client, workerVars, serverVars
<1>3. rooms \in [Slots -> RoomRec] /\ client \in [Clients -> ClientRec]
  BY DEF TypeOK
<1>4. /\ client'[c].slot = s /\ client'[c].pc \in {"parked", "redirected"}
      /\ \A d \in Clients \ {c} : client'[d] = client[d]
  BY ONLY <1>1, <1>3
<1>5. /\ rooms'[s].redirected = rooms[s].redirected + 1 /\ rooms'[s].used
      /\ \A t \in Slots \ {s} : rooms'[t] = rooms[t]
  BY ONLY <1>1, <1>3 DEF RoomRec
<1>6. Coming(client', s) = Coming(client, s) \cup {c} /\ c \notin Coming(client, s)
  BY <1>2, <1>4 DEF Coming
<1>7. \A t \in Slots \ {s} : Coming(client', t) = Coming(client, t)
  BY <1>2, <1>4 DEF Coming
<1>8. IsFiniteSet(Coming(client, s)) /\ rooms[s].redirected \in Nat /\ RoomSize \in Nat
      /\ next_id[s] \in Nat
  BY <1>3, HubAssumption DEF WinInv, RoomRec, TypeOK
<1>9. PICK a, b : a = Cardinality(Coming(client, s)) /\ b = Cardinality(Coming(client', s))
  OBVIOUS
<1>10. IsFiniteSet(Coming(client', s)) /\ a \in Nat /\ b = a + 1
  BY <1>6, <1>8, <1>9, FS_AddElement, FS_CardinalityType
<1>11. LastId(s)' = LastId(s) /\ rooms'[s].redirected <= RoomSize
  BY <1>1, <1>2, <1>5, <1>8, <1>9, <1>10 DEF LastId, Left
<1>12. \A t \in Slots \ {s} : LastId(t)' = LastId(t)
  BY <1>2, <1>5, <1>7 DEF LastId, Left
<1>13. \A t \in Slots : /\ IsFiniteSet(Coming(client', t)) /\ rooms'[t].redirected <= RoomSize
                        /\ Live(t)' = Live(t) /\ next_id'[t] = next_id[t] /\ LastId(t)' = LastId(t)
  BY <1>2, <1>5, <1>7, <1>10, <1>11, <1>12 DEF WinInv, Live
<1>14. \A t \in Slots : next_id[t] \in Nat /\ LastId(t) \in Nat
  BY LeftType DEF WinInv, TypeOK
<1>15. \A d \in Clients : client'[d].pc = "parked" => rooms'[client'[d].slot].used
  <2> SUFFICES ASSUME NEW d \in Clients, client'[d].pc = "parked"
               PROVE  rooms'[client'[d].slot].used
    OBVIOUS
  <2>1. CASE d = c
    BY <1>4, <1>5, <2>1
  <2>2. CASE d # c
    <3>1. client'[d] = client[d] /\ client[d].slot \in Slots /\ rooms[client[d].slot].used
      BY <1>3, <1>4, <2>2 DEF WinInv, ClientRec
    <3> QED
      BY <1>5, <3>1
  <2> QED
    BY <2>1, <2>2
<1>16. \A t \in Slots : /\ IsFiniteSet(Coming(client', t)) /\ rooms'[t].redirected <= RoomSize
                        /\ Live(t)' => /\ Live(t) /\ next_id[t] <= next_id'[t]
                                       /\ LastId(t)' <= LastId(t)
  BY ONLY <1>13, <1>14
<1> QED
  BY <1>2, <1>15, <1>16, WinStep

\* The thread that accepts uses up one id and one of those who were coming
LEMMA WinAccept ==
  ASSUME TypeOK, TypeOK', WinInv, NEW s \in Slots, NEW c \in Clients, lobby_accept(s, c),
         NEW x, x = next_id[s]
  PROVE  /\ WinInv' /\ StillIssued
         /\ x \in Nat \ {0} /\ ~Issued(x) /\ Issued(x)'
<1>1. /\ Live(s) /\ client[c].pc = "redirected" /\ client[c].slot = s
      /\ client' = [client EXCEPT ![c].pc = "connected", ![c].id = next_id[s]]
      /\ next_id' = [next_id EXCEPT ![s] = @ + 1] /\ UNCHANGED <<rooms, room_seq, wpc>>
  BY DEF lobby_accept, Accepting, Live, masterVars
<1>2. rooms \in [Slots -> RoomRec] /\ client \in [Clients -> ClientRec] /\ next_id \in [Slots -> Nat]
  BY DEF TypeOK
<1>3. /\ client'[c].pc = "connected" /\ client'[c].slot = s
      /\ \A d \in Clients \ {c} : client'[d] = client[d]
  BY ONLY <1>1, <1>2 DEF ClientRec
<1>4. next_id'[s] = next_id[s] + 1 /\ \A t \in Slots \ {s} : next_id'[t] = next_id[t]
  BY ONLY <1>1, <1>2
<1>5. Coming(client', s) = Coming(client, s) \ {c} /\ c \in Coming(client, s)
  BY <1>1, <1>3 DEF Coming
<1>6. \A t \in Slots \ {s} : Coming(client', t) = Coming(client, t)
  BY <1>1, <1>3 DEF Coming
<1>7. /\ IsFiniteSet(Coming(client, s)) /\ rooms[s].redirected \in Nat /\ RoomSize \in Nat
      /\ next_id[s] \in Nat /\ rooms[s].redirected <= RoomSize
  BY <1>2, HubAssumption DEF WinInv, RoomRec
<1>8. PICK a, b : a = Cardinality(Coming(client, s)) /\ b = Cardinality(Coming(client', s))
  OBVIOUS
<1>9. IsFiniteSet(Coming(client', s)) /\ a \in Nat /\ b \in Nat /\ b = a - 1
  BY <1>5, <1>7, <1>8, FS_RemoveElement, FS_CardinalityType
<1>10. LastId(s)' = LastId(s) /\ next_id[s] < LastId(s)
  BY <1>1, <1>4, <1>7, <1>8, <1>9 DEF LastId, Left
<1>11. \A t \in Slots \ {s} : LastId(t)' = LastId(t)
  BY <1>1, <1>4, <1>6 DEF LastId, Left
<1>12. \A t \in Slots : next_id[t] \in Nat /\ LastId(t) \in Nat
  BY LeftType DEF WinInv, TypeOK
<1>13. \A t \in Slots : /\ IsFiniteSet(Coming(client', t)) /\ rooms'[t].redirected <= RoomSize
                        /\ Live(t)' = Live(t) /\ LastId(t)' = LastId(t)
  BY <1>1, <1>6, <1>9, <1>10, <1>11 DEF WinInv, Live
<1>14. \A t \in Slots : next_id[t] <= next_id'[t]
  BY <1>4, <1>12
<1>15. \A d \in Clients : client'[d].pc = "parked" => rooms'[client'[d].slot].used
  BY <1>1, <1>3 DEF WinInv
<1>16. \A t \in Slots : /\ IsFiniteSet(Coming(client', t)) /\ rooms'[t].redirected <= RoomSize
                        /\ Live(t)' => /\ Live(t) /\ next_id[t] <= next_id'[t]
                                       /\ LastId(t)' <= LastId(t)
  BY ONLY <1>12, <1>13, <1>14
<1>17. WinInv' /\ StillIssued
  BY <1>1, <1>15, <1>16, WinStep
<1>18. next_id[s] >= 1 /\ LastId(s) <= IdBase(room_seq)
  BY <1>1 DEF WinInv
<1>19. ~Issued(x)
  BY <1>1, <1>10, <1>12 DEF Issued
<1>20. Issued(x)'
  <2>1. IdBase(room_seq) \in Nat /\ IdBase(room_seq)' = IdBase(room_seq)
    BY <1>1, IdBaseFacts DEF TypeOK, IdBase
  <2>2. x < IdBase(room_seq)
    BY <1>10, <1>12, <1>18, <2>1
  <2>3. ASSUME NEW t \in Slots, Live(t)' PROVE x < next_id'[t] \/ x >= LastId(t)'
    <3>1. CASE t = s
      BY <1>4, <1>7, <3>1
    <3>2. CASE t # s
      <4>1. LastId(s) <= next_id[t] \/ LastId(t) <= next_id[s]
        BY <1>1, <1>13, <2>3, <3>2 DEF WinInv
      <4>2. next_id'[t] = next_id[t] /\ LastId(t)' = LastId(t)
        BY <1>4, <1>11, <3>2
      <4> QED
        BY <1>10, <1>12, <4>1, <4>2
    <3> QED
      BY <3>1, <3>2
  <2> QED
    BY <2>1, <2>2, <2>3 DEF Issued
<1> QED
  BY <1>7, <1>17, <1>18, <1>19, <1>20

\* A new worker gets ids beyond all that were set aside before
LEMMA WinSpawn ==
  ASSUME TypeOK, TypeOK', WinInv, NEW c \in Clients, accept_spawn(c), NoLateComer
  PROVE  WinInv' /\ StillIssued
<1>1. PICK s \in Slots : s = Least(Slots \ Used(rooms)) /\ ~rooms[s].used
  BY LeastSlot DEF accept_spawn, Used
<1>2. /\ rooms' = [rooms EXCEPT ![s] = [NoRoom EXCEPT !.used = TRUE, !.redirected = 1]]
      /\ client' = [d \in Clients |->
           IF d = c
           THEN [pc |-> "parked", slot |-> s, id |-> 0, held |-> {s}]
           ELSE IF client[d].pc = "parked"
           THEN [client[d] EXCEPT !.held = @ \cup {s}]
           ELSE client[d]]
      /\ wpc' = [wpc EXCEPT ![s] = "init"]
      /\ next_id' = [next_id EXCEPT ![s] = IdBase(room_seq)]
      /\ room_seq' = room_seq + 1 /\ client[c].pc = "idle"
  BY <1>1 DEF accept_spawn
<1>3. /\ rooms \in [Slots -> RoomRec] /\ client \in [Clients -> ClientRec]
      /\ wpc \in [Slots -> WorkerPc] /\ next_id \in [Slots -> Nat] /\ room_seq \in Nat
  BY DEF TypeOK
<1>4. /\ rooms'[s].used /\ rooms'[s].redirected = 1
      /\ \A t \in Slots \ {s} : rooms'[t] = rooms[t]
  BY ONLY <1>1, <1>2, <1>3 DEF NoRoom
<1>5. /\ client'[c].pc = "parked" /\ client'[c].slot = s
      /\ \A d \in Clients \ {c} : client'[d].pc = client[d].pc /\ client'[d].slot = client[d].slot
  BY ONLY <1>2, <1>3 DEF ClientRec
<1>6. /\ next_id'[s] = IdBase(room_seq)
      /\ \A t \in Slots \ {s} : next_id'[t] = next_id[t] /\ wpc'[t] = wpc[t]
  BY ONLY <1>1, <1>2, <1>3
<1>7. Coming(client, s) = {}
  BY <1>1, <1>4 DEF Coming, NoLateComer, WinInv
<1>8. Coming(client', s) = {c}
  BY <1>5, <1>7 DEF Coming
<1>9. \A t \in Slots \ {s} : Coming(client', t) = Coming(client, t)
  BY <1>2, <1>5 DEF Coming
<1>10. IsFiniteSet(Coming(client', s)) /\ Cardinality(Coming(client', s)) = 1
  BY <1>8, FS_Singleton
<1>11. PICK lim, m : /\ lim = IdBase(room_seq) /\ lim \in Nat /\ lim >= 1
                     /\ m = IdBase(room_seq)' /\ m = lim + MaxLobby
  BY <1>2, <1>3, IdBaseFacts DEF IdBase
<1>12. RoomSize \in Nat /\ RoomSize >= 1 /\ RoomSize <= MaxLobby /\ MaxLobby \in Nat
  BY HubAssumption
<1>13. LastId(s)' = lim + RoomSize
  BY <1>4, <1>6, <1>10, <1>11, <1>12 DEF LastId, Left
<1>14. \A t \in Slots \ {s} : LastId(t)' = LastId(t) /\ Live(t)' = Live(t)
  BY <1>4, <1>6, <1>9 DEF LastId, Left, Live
<1>15. \A t \in Slots : next_id[t] \in Nat /\ LastId(t) \in Nat
  BY LeftType DEF WinInv, TypeOK
<1>16. \A t \in Slots : IsFiniteSet(Coming(client', t)) /\ rooms'[t].redirected <= RoomSize
  BY <1>4, <1>9, <1>10, <1>12 DEF WinInv
<1>17. \A d \in Clients : client'[d].pc = "parked" => rooms'[client'[d].slot].used
  <2> SUFFICES ASSUME NEW d \in Clients, client'[d].pc = "parked"
               PROVE  rooms'[client'[d].slot].used
    OBVIOUS
  <2>1. CASE d = c
    BY <1>4, <1>5, <2>1
  <2>2. CASE d # c
    <3>1. /\ client'[d].slot = client[d].slot /\ client[d].slot \in Slots
          /\ rooms[client[d].slot].used
      BY <1>3, <1>5, <2>2 DEF WinInv, ClientRec
    <3> QED
      BY <1>4, <3>1
  <2> QED
    BY <2>1, <2>2
<1>18. \A t \in Slots \ {s} : Live(t) => 1 <= next_id[t] /\ LastId(t) <= lim
  BY <1>11 DEF WinInv
<1>19. ASSUME NEW t \in Slots, Live(t)' PROVE 1 <= next_id'[t] /\ LastId(t)' <= m
  <2>1. CASE t = s
    BY <1>6, <1>11, <1>12, <1>13, <2>1
  <2>2. CASE t # s
    BY <1>6, <1>11, <1>12, <1>14, <1>15, <1>18, <1>19, <2>2
  <2> QED
    BY <2>1, <2>2
<1>20. ASSUME NEW t \in Slots, NEW u \in Slots, t # u, Live(t)', Live(u)'
       PROVE  LastId(t)' <= next_id'[u] \/ LastId(u)' <= next_id'[t]
  <2>1. CASE t = s
    BY <1>6, <1>11, <1>14, <1>18, <1>20, <2>1
  <2>2. CASE u = s
    BY <1>6, <1>11, <1>14, <1>18, <1>20, <2>2
  <2>3. CASE t # s /\ u # s
    BY <1>6, <1>14, <1>20, <2>3 DEF WinInv
  <2> QED
    BY <2>1, <2>2, <2>3
<1>21. ASSUME NEW x \in Nat, Issued(x) PROVE Issued(x)'
  <2>1. x < lim
    BY <1>11, <1>21 DEF Issued
  <2>2. x < m
    BY <1>11, <1>12, <2>1
  <2>3. ASSUME NEW t \in Slots, Live(t)' PROVE x < next_id'[t] \/ x >= LastId(t)'
    <3>1. CASE t = s
      BY <1>6, <1>11, <2>1, <3>1
    <3>2. CASE t # s
      BY <1>6, <1>14, <1>21, <2>3, <3>2 DEF Issued
    <3> QED
      BY <3>1, <3>2
  <2> QED
    BY <1>11, <2>2, <2>3 DEF Issued
<1> QED
  BY <1>11, <1>16, <1>17, <1>19, <1>20, <1>21 DEF WinInv, StillIssued

\* Every step but an accept: nobody gets an id
LEMMA WinNext ==
  ASSUME TypeOK, TypeOK', WinInv, [Next]_vars, NoLateComer \/ UNCHANGED vars
  PROVE  WinInv' /\ StillIssued
<1>1. ASSUME UNCHANGED <<client, room_seq, next_id, wpc>>,
             \A t \in Slots : /\ rooms'[t].redirected = rooms[t].redirected
                              /\ rooms'[t].used = rooms[t].used
      PROVE  WinInv' /\ StillIssued
  <2>1. Calm
    BY <1>1 DEF Calm, Live
  <2>2. \A c \in Clients : client[c].slot \in Slots
    BY DEF TypeOK, ClientRec
  <2> QED
    BY <1>1, <2>1, <2>2, WinCalm
<1>2. CASE UNCHANGED vars
  BY <1>1, <1>2 DEF vars, masterVars, workerVars, serverVars, envVars
<1>3. ASSUME NEW c \in Clients, accept_refuse(c) \/ connect_refused(c) PROVE WinInv' /\ StillIssued
  <2>1. client' = [client EXCEPT ![c].pc = "closed"] /\ UNCHANGED <<rooms, room_seq, next_id, wpc>>
    BY <1>3 DEF accept_refuse, connect_refused, masterVars, workerVars, serverVars
  <2>2. client \in [Clients -> ClientRec]
    BY DEF TypeOK
  <2>3. \A d \in Clients : /\ client'[d].slot = client[d].slot
                           /\ client'[d].pc = client[d].pc \/ client'[d].pc = "closed"
    BY ONLY <2>1, <2>2 DEF ClientRec
  <2>4. Calm
    BY <2>1, <2>3 DEF Calm, Live
  <2> QED
    BY <2>1, <2>4, WinCalm
<1>4. CASE press_enter
  <2>1. \A u \in Slots : rooms'[u] = rooms[u] \/ rooms'[u] = [rooms[u] EXCEPT !.started = TRUE]
    BY <1>4 DEF press_enter, start_all_rooms
  <2>2. \A u \in Slots : rooms[u] \in RoomRec
    BY DEF TypeOK
  <2>3. \A u \in Slots : /\ rooms'[u].redirected = rooms[u].redirected
                         /\ rooms'[u].used = rooms[u].used
    BY ONLY <2>1, <2>2 DEF RoomRec
  <2> QED
    BY <1>1, <1>4, <2>3 DEF press_enter, workerVars, serverVars, envVars
<1>5. CASE on_sigint \/ loop_exit
  BY <1>1, <1>5 DEF on_sigint, loop_exit, workerVars, serverVars, envVars
<1>6. CASE shutdown
  <2>1. CASE Used(rooms) = {}
    BY <1>1, <1>6, <2>1 DEF shutdown, workerVars, serverVars, envVars
  <2>2. CASE Used(rooms) # {}
    <3>1. Least(Used(rooms)) \in Slots
      BY <2>2, LeastSlot DEF Used
    <3> QED
      BY <1>6, <2>2, <3>1, WinClose DEF shutdown
  <2> QED
    BY <2>1, <2>2
<1>7. ASSUME NEW c \in Clients, accept_client(c) PROVE WinInv' /\ StillIssued
  BY <1>7, WinAdmit
<1>8. ASSUME NEW c \in Clients, accept_spawn(c) PROVE WinInv' /\ StillIssued
  <2>1. CASE NoLateComer
    BY <1>8, <2>1, WinSpawn
  <2> QED
    BY <1>2, <2>1
<1>9. ASSUME NEW s \in Slots, NEW c \in Clients, lobby_accept(s, c) PROVE WinInv' /\ StillIssued
  BY <1>9, WinAccept
<1>10. ASSUME NEW s \in Slots, MasterHandles(s) PROVE WinInv' /\ StillIssued
  BY <1>10, WinMaster
<1>11. ASSUME NEW s \in Slots,
              \/ WorkerSteps(s) \/ tick_attack(s) \/ crash(s) \/ hub_reset(s)
              \/ handshake_done(s) \/ handshake_fail(s)
       PROVE  WinInv' /\ StillIssued
  BY <1>11, WinWorker
<1> QED
  BY <1>2, <1>3, <1>4, <1>5, <1>6, <1>7, <1>8, <1>9, <1>10, <1>11 DEF Next

-----------------------------------------------------------------------------
(* Who sits where.  A worker's client list, with the client in its handshake,  *)
(* holds ids of its own window only, each once, and no id sits in two rooms.    *)

Ids(q) == {q[i] : i \in DOMAIN q}
Seated(s) == Ids(conn[s]) \cup ({handshake[s]} \ {0})

Roll ==
  /\ \A s \in Slots : /\ \A i, j \in DOMAIN conn[s] : conn[s][i] = conn[s][j] => i = j
                      /\ handshake[s] \notin Ids(conn[s])
                      /\ \A x \in Seated(s) : x # 0 /\ Issued(x)
  /\ \A s, t \in Slots : s # t => Seated(s) \cap Seated(t) = {}

\* What a step does to one worker's list
SameSeats(s) == conn'[s] = conn[s] /\ handshake'[s] = handshake[s]
Cleared(s)   == conn'[s] = <<>> /\ handshake'[s] = 0
Entered(s)   == conn'[s] = Append(conn[s], handshake[s]) /\ handshake'[s] = 0 /\ handshake[s] # 0
Dropped(s)   == conn'[s] = conn[s] /\ handshake'[s] = 0

\* What a step other than an accept does to the lists
RollMoves == \A s \in Slots : SameSeats(s) \/ Cleared(s) \/ Entered(s) \/ Dropped(s)

LEMMA AcceptAlone ==
  ASSUME TypeOK, [Next]_vars, ~\E s \in Slots, c \in Clients : lobby_accept(s, c)
  PROVE  RollMoves
<1>0. conn \in [Slots -> Seq(Nat)] /\ handshake \in [Slots -> Nat]
  BY DEF TypeOK
<1>1. ASSUME UNCHANGED <<conn, handshake>> PROVE RollMoves
  BY <1>1 DEF RollMoves, SameSeats
<1>2. ASSUME NEW s \in Slots, Vanish(s) PROVE RollMoves
  <2>1. conn' = [conn EXCEPT ![s] = <<>>] /\ handshake' = [handshake EXCEPT ![s] = 0]
    BY <1>2 DEF Vanish
  <2> QED
    BY ONLY <1>0, <2>1 DEF RollMoves, SameSeats, Cleared
<1>3. ASSUME NEW s \in Slots, handshake_done(s) PROVE RollMoves
  <2>1. /\ conn' = [conn EXCEPT ![s] = Append(@, handshake[s])]
        /\ handshake' = [handshake EXCEPT ![s] = 0] /\ handshake[s] # 0
    BY <1>3 DEF handshake_done
  <2> QED
    BY ONLY <1>0, <2>1 DEF RollMoves, SameSeats, Entered
<1>4. ASSUME NEW s \in Slots, handshake_fail(s) PROVE RollMoves
  <2>1. UNCHANGED conn /\ handshake' = [handshake EXCEPT ![s] = 0]
    BY <1>4 DEF handshake_fail
  <2> QED
    BY ONLY <1>0, <2>1 DEF RollMoves, SameSeats, Dropped
<1>5. CASE UNCHANGED vars \/ press_enter \/ on_sigint \/ loop_exit \/ shutdown
  BY <1>1, <1>5 DEF vars, press_enter, on_sigint, loop_exit, shutdown, workerVars, serverVars
<1>6. ASSUME NEW c \in Clients,
             accept_client(c) \/ accept_spawn(c) \/ accept_refuse(c) \/ connect_refused(c)
      PROVE  RollMoves
  BY <1>1, <1>6 DEF accept_client, accept_spawn, accept_refuse, connect_refused, workerVars, serverVars
<1>7. ASSUME NEW s \in Slots, MasterHandles(s) PROVE RollMoves
  BY <1>1, <1>7 DEF MasterHandles, handle_ready, handle_joined, handle_eliminated, handle_attack,
                    handle_feed, hub_closed, workerVars, serverVars
<1>8. ASSUME NEW s \in Slots, WorkerSteps(s) PROVE RollMoves
  <2>1. CASE bind_port(s) \/ lobby_poll(s) \/ lobby_drain(s) \/ lobby_start(s) \/ tick(s) \/ tick_over(s)
    BY <1>1, <2>1 DEF bind_port, lobby_poll, lobby_drain, lobby_start, tick, tick_over, serverVars
  <2> QED
    BY <1>2, <1>8, <2>1 DEF WorkerSteps, lobby_eof, room_exit
<1>9. ASSUME NEW s \in Slots, tick_attack(s) \/ hub_reset(s) PROVE RollMoves
  BY <1>1, <1>9 DEF tick_attack, hub_reset, workerVars, serverVars
<1>10. ASSUME NEW s \in Slots, crash(s) PROVE RollMoves
  BY <1>2, <1>10 DEF crash
<1> QED
  BY <1>3, <1>4, <1>5, <1>6, <1>7, <1>8, <1>9, <1>10 DEF Next

LEMMA IdsAppend ==
  ASSUME NEW X, NEW q \in Seq(X), NEW x \in X
  PROVE  Ids(Append(q, x)) = Ids(q) \cup {x}
<1>1. PICK r : r = Append(q, x)
  OBVIOUS
<1>2. /\ Len(q) \in Nat /\ DOMAIN q = 1..Len(q) /\ DOMAIN r = 1..(Len(q) + 1)
      /\ r[Len(q) + 1] = x /\ \A i \in 1..Len(q) : r[i] = q[i]
  BY <1>1
<1>3. \A i \in DOMAIN r : i \in DOMAIN q \/ i = Len(q) + 1
  BY <1>2
<1>4. Len(q) + 1 \in DOMAIN r /\ DOMAIN q \subseteq DOMAIN r
  BY <1>2
<1>5. Ids(r) = Ids(q) \cup {x}
  BY <1>2, <1>3, <1>4 DEF Ids
<1> QED
  BY <1>1, <1>5

\* No list gains anybody but the client whose handshake is over
LEMMA SeatedShrinks ==
  ASSUME TypeOK, RollMoves, NEW s \in Slots
  PROVE  /\ Seated(s)' \subseteq Seated(s)
         /\ Ids(conn'[s]) \subseteq Ids(conn[s]) \cup ({handshake[s]} \ {0})
<1>0. conn[s] \in Seq(Nat) /\ handshake[s] \in Nat
  BY DEF TypeOK
<1>1. CASE SameSeats(s) \/ Dropped(s)
  BY <1>1 DEF SameSeats, Dropped, Seated
<1>2. CASE Cleared(s)
  <2>1. Ids(conn'[s]) = {}
    BY <1>2 DEF Cleared, Ids
  <2> QED
    BY <1>2, <2>1 DEF Cleared, Seated
<1>3. CASE Entered(s)
  <2>1. Ids(conn'[s]) = Ids(conn[s]) \cup {handshake[s]}
    BY <1>0, <1>3, IdsAppend DEF Entered
  <2> QED
    BY <1>3, <2>1 DEF Entered, Seated
<1> QED
  BY <1>1, <1>2, <1>3 DEF RollMoves

LEMMA RollQuiet ==
  ASSUME TypeOK, TypeOK', Roll, StillIssued, RollMoves
  PROVE  Roll'
<1>1. \A s \in Slots : Seated(s)' \subseteq Seated(s)
  BY SeatedShrinks
<1>2. ASSUME NEW s \in Slots, NEW x \in Seated(s)' PROVE x # 0 /\ Issued(x)'
  <2>1. x \in Seated(s) /\ x # 0 /\ Issued(x)
    BY <1>1 DEF Roll
  <2>2. x \in Nat
    <3>1. conn[s] \in Seq(Nat) /\ handshake[s] \in Nat
      BY DEF TypeOK
    <3> QED
      BY <2>1, <3>1 DEF Seated, Ids
  <2> QED
    BY <2>1, <2>2 DEF StillIssued
<1>3. \A s, t \in Slots : s # t => Seated(s)' \cap Seated(t)' = {}
  BY <1>1 DEF Roll
<1>4. ASSUME NEW s \in Slots
      PROVE  /\ \A i, j \in DOMAIN conn'[s] : conn'[s][i] = conn'[s][j] => i = j
             /\ handshake'[s] \notin Ids(conn'[s])
  <2>0. /\ \A i, j \in DOMAIN conn[s] : conn[s][i] = conn[s][j] => i = j
        /\ handshake[s] \notin Ids(conn[s]) /\ \A x \in Ids(conn[s]) : x # 0
        /\ conn[s] \in Seq(Nat) /\ handshake[s] \in Nat
    BY DEF Roll, Seated, TypeOK
  <2>1. CASE SameSeats(s)
    BY <2>0, <2>1 DEF SameSeats
  <2>2. CASE Cleared(s)
    BY <2>2 DEF Cleared, Ids
  <2>3. CASE Dropped(s)
    BY <2>0, <2>3 DEF Dropped
  <2>4. CASE Entered(s)
    <3>1. PICK q, r, h : q = conn[s] /\ r = conn'[s] /\ h = handshake[s]
      OBVIOUS
    <3>2. r = Append(q, h) /\ h # 0 /\ handshake'[s] = 0 /\ q \in Seq(Nat) /\ h \in Nat
      BY <2>0, <2>4, <3>1 DEF Entered
    <3>3. Ids(r) = Ids(q) \cup {h}
      BY <3>2, IdsAppend
    <3>4. handshake'[s] \notin Ids(r)
      BY <2>0, <3>1, <3>2, <3>3
    <3>5. /\ Len(q) \in Nat /\ DOMAIN q = 1..Len(q) /\ DOMAIN r = 1..(Len(q) + 1)
          /\ r[Len(q) + 1] = h /\ \A i \in 1..Len(q) : r[i] = q[i]
      BY ONLY <3>2
    <3>6. \A i \in DOMAIN r : i \in DOMAIN q \/ i = Len(q) + 1
      BY ONLY <3>5
    <3>7. \A i \in DOMAIN q : q[i] # h
      BY <2>0, <3>1 DEF Ids
    <3>8. \A i, j \in DOMAIN q : q[i] = q[j] => i = j
      BY <2>0, <3>1
    <3>9. \A i, j \in DOMAIN r : r[i] = r[j] => i = j
      BY ONLY <3>5, <3>6, <3>7, <3>8
    <3> QED
      BY <3>1, <3>4, <3>9
  <2> QED
    BY <2>1, <2>2, <2>3, <2>4 DEF RollMoves
<1> QED
  BY <1>2, <1>3, <1>4 DEF Roll

LEMMA RollAccept ==
  ASSUME TypeOK, TypeOK', Roll, WinInv, StillIssued, NEW s \in Slots, NEW c \in Clients,
         lobby_accept(s, c)
  PROVE  /\ Roll'
         /\ \A t \in Slots : \A x \in Seated(t)' : x \in Seated(t) \/ ~Issued(x)
<1>1. PICK h : h = next_id[s]
  OBVIOUS
<1>2. h \in Nat \ {0} /\ ~Issued(h) /\ Issued(h)'
  BY <1>1, WinAccept
<1>3. /\ handshake' = [handshake EXCEPT ![s] = h] /\ handshake[s] = 0 /\ conn' = conn
      /\ handshake \in [Slots -> Nat] /\ conn \in [Slots -> Seq(Nat)]
  BY <1>1 DEF lobby_accept, TypeOK
<1>4. handshake'[s] = h /\ \A t \in Slots \ {s} : handshake'[t] = handshake[t]
  BY ONLY <1>3
<1>5. Seated(s)' = Seated(s) \cup {h} /\ \A t \in Slots \ {s} : Seated(t)' = Seated(t)
  BY <1>2, <1>3, <1>4 DEF Seated
<1>6. \A t \in Slots : h \notin Seated(t)
  BY <1>2 DEF Roll
<1>7. ASSUME NEW t \in Slots, NEW x \in Seated(t)' PROVE x # 0 /\ Issued(x)'
  <2>1. CASE x = h
    BY <1>2, <2>1
  <2>2. CASE x # h
    <3>1. x \in Seated(t) /\ x # 0 /\ Issued(x)
      BY <1>5, <1>7, <2>2 DEF Roll
    <3>2. x \in Nat
      <4>1. conn[t] \in Seq(Nat) /\ handshake[t] \in Nat
        BY <1>3
      <4> QED
        BY <3>1, <4>1 DEF Seated, Ids
    <3> QED
      BY <3>1, <3>2 DEF StillIssued
  <2> QED
    BY <2>1, <2>2
<1>8. \A t, u \in Slots : t # u => Seated(t)' \cap Seated(u)' = {}
  BY <1>5, <1>6 DEF Roll
<1>9. \A t \in Slots : /\ \A i, j \in DOMAIN conn'[t] : conn'[t][i] = conn'[t][j] => i = j
                       /\ handshake'[t] \notin Ids(conn'[t])
  BY <1>3, <1>4, <1>6 DEF Roll, Seated
<1>10. \A t \in Slots : \A x \in Seated(t)' : x \in Seated(t) \/ ~Issued(x)
  BY <1>2, <1>5
<1> QED
  BY <1>7, <1>8, <1>9, <1>10 DEF Roll

\* An id once issued is never seated anew
LEMMA RollStep ==
  ASSUME TypeOK, TypeOK', Roll, WinInv, [Next]_vars, NoLateComer \/ UNCHANGED vars
  PROVE  /\ Roll' /\ StillIssued
         /\ \A t \in Slots : \A x \in Seated(t)' : x \in Seated(t) \/ ~Issued(x)
<1>0. StillIssued
  BY WinNext
<1>1. CASE ~\E s \in Slots, c \in Clients : lobby_accept(s, c)
  <2>1. RollMoves
    BY <1>1, AcceptAlone
  <2> QED
    BY <1>0, <2>1, RollQuiet, SeatedShrinks
<1>2. ASSUME NEW s \in Slots, NEW c \in Clients, lobby_accept(s, c)
      PROVE  /\ Roll'
             /\ \A t \in Slots : \A x \in Seated(t)' : x \in Seated(t) \/ ~Issued(x)
  BY <1>0, <1>2, RollAccept
<1> QED
  BY <1>0, <1>1, <1>2

\* A worker's boards belong to the head of its client list, in that order
Sits(s) ==
  /\ wpc[s] \in {"none", "init", "gone"} =>
       conn[s] = <<>> /\ handshake[s] = 0
  /\ wpc[s] \notin {"run", "over"} => session[s] = <<>>
  /\ Len(session[s]) <= Len(conn[s])
  /\ \A j \in DOMAIN session[s] : session[s][j].id = conn[s][j]
  /\ Live(s) /\ master = "run" => rooms[s].used

SitInv == \A s \in Slots : Sits(s)

LEMMA SitsQuiet ==
  ASSUME SitInv, UNCHANGED <<wpc, conn, handshake, session>>,
         \A s \in Slots : Live(s) /\ master' = "run" => (master = "run" /\ rooms[s].used => rooms'[s].used)
                                                        /\ master = "run"
  PROVE  SitInv'
  BY DEF SitInv, Sits, Live

\* A step of the worker of slot s
LEMMA SitsOne ==
  ASSUME SitInv, NEW s \in Slots, UNCHANGED masterVars,
         \A t \in Slots \ {s} : /\ wpc'[t] = wpc[t] /\ conn'[t] = conn[t]
                                /\ handshake'[t] = handshake[t] /\ session'[t] = session[t],
         Live(s)' => Live(s),
         wpc'[s] \in {"none", "init", "gone"} => conn'[s] = <<>> /\ handshake'[s] = 0,
         wpc'[s] \notin {"run", "over"} => session'[s] = <<>>,
         Len(session'[s]) <= Len(conn'[s]),
         \A j \in DOMAIN session'[s] : session'[s][j].id = conn'[s][j]
  PROVE  SitInv'
<1>1. UNCHANGED <<master, rooms>>
  BY DEF masterVars
<1>2. ASSUME NEW t \in Slots \ {s} PROVE Sits(t)'
  <2>1. Sits(t)
    BY DEF SitInv
  <2> QED
    BY <1>1, <2>1 DEF Sits, Live
<1>3. Sits(s)'
  <2>1. Sits(s)
    BY DEF SitInv
  <2> QED
    BY <1>1, <2>1 DEF Sits
<1> QED
  BY <1>2, <1>3 DEF SitInv

LEMMA SitsVanish ==
  ASSUME TypeOK, SitInv, NEW s \in Slots, Vanish(s), UNCHANGED masterVars
  PROVE  SitInv'
<1>1. /\ wpc' = [wpc EXCEPT ![s] = "gone"] /\ handshake' = [handshake EXCEPT ![s] = 0]
      /\ conn' = [conn EXCEPT ![s] = <<>>] /\ session' = [session EXCEPT ![s] = <<>>]
  BY DEF Vanish
<1>2. /\ wpc \in [Slots -> WorkerPc] /\ handshake \in [Slots -> Nat]
      /\ conn \in [Slots -> Seq(Nat)] /\ session \in [Slots -> Seq(PlayerSlot)]
  BY DEF TypeOK
<1>3. /\ wpc'[s] = "gone" /\ handshake'[s] = 0 /\ conn'[s] = <<>> /\ session'[s] = <<>>
      /\ \A t \in Slots \ {s} : /\ wpc'[t] = wpc[t] /\ conn'[t] = conn[t]
                                /\ handshake'[t] = handshake[t] /\ session'[t] = session[t]
  BY ONLY <1>1, <1>2
<1>4. ~Live(s)'
  BY <1>3 DEF Live
<1> QED
  BY <1>3, <1>4, SitsOne

\* What a game's end does to the boards: ids and places stay
SameGame(s) ==
  /\ DOMAIN session'[s] = DOMAIN session[s] /\ Len(session'[s]) = Len(session[s])
  /\ \A j \in DOMAIN session[s] : /\ session'[s][j].id = session[s][j].id
                                  /\ session'[s][j].state = "alive" => session[s][j].state = "alive"

LEMMA AfterSame ==
  ASSUME TypeOK, NEW s \in Slots, NEW d \in {0} \cup Playing(session[s]), NEW how \in {"topped", "quit"}
  PROVE  /\ After(s, d, how) \in Seq(PlayerSlot)
         /\ DOMAIN After(s, d, how) = DOMAIN session[s] /\ Len(After(s, d, how)) = Len(session[s])
         /\ \A j \in DOMAIN session[s] :
              /\ After(s, d, how)[j].id = session[s][j].id
              /\ j = d => After(s, d, how)[j].state = how
              /\ j # d => After(s, d, how)[j] = session[s][j]
<1>1. PICK q : q = session[s] /\ q \in Seq(PlayerSlot)
  BY DEF TypeOK
<1>2. CASE d = 0
  BY <1>1, <1>2 DEF After
<1>3. CASE d # 0
  <2>1. d \in 1..Len(q) /\ q[d] \in PlayerSlot /\ DOMAIN q = 1..Len(q)
    BY <1>1, <1>3 DEF Playing
  <2>2. PICK e : e = [q[d] EXCEPT !.state = how]
    OBVIOUS
  <2>3. e \in PlayerSlot /\ e.id = q[d].id /\ e.state = how
    BY ONLY <2>1, <2>2, how \in {"topped", "quit"} DEF PlayerSlot
  <2>4. PICK r : r = [q EXCEPT ![d] = e]
    OBVIOUS
  <2>5. After(s, d, how) = r
    BY <1>1, <1>3, <2>2, <2>4 DEF After
  <2>6. r \in Seq(PlayerSlot) /\ DOMAIN r = DOMAIN q /\ Len(r) = Len(q)
    BY ONLY <1>1, <2>1, <2>3, <2>4
  <2>7. \A j \in DOMAIN q : (j = d => r[j] = e) /\ (j # d => r[j] = q[j])
    BY ONLY <1>1, <2>1, <2>4
  <2> QED
    BY <1>1, <2>3, <2>5, <2>6, <2>7
<1> QED
  BY <1>2, <1>3

LEMMA FinishedSame ==
  ASSUME NEW q \in Seq(PlayerSlot)
  PROVE  /\ DOMAIN Finished(q) = DOMAIN q /\ Len(Finished(q)) = Len(q)
         /\ \A j \in DOMAIN q : Finished(q)[j].id = q[j].id /\ Finished(q)[j].state # "alive"
<1>1. PICK r : r = Finished(q)
  OBVIOUS
<1>2. r = [i \in DOMAIN q |-> IF q[i].state = "alive" THEN [q[i] EXCEPT !.state = "topped"] ELSE q[i]]
  BY <1>1 DEF Finished
<1>3. DOMAIN r = 1..Len(q) /\ Len(q) \in Nat /\ DOMAIN q = 1..Len(q)
  BY <1>2
<1>4. Len(r) = Len(q)
  BY ONLY <1>2, <1>3
<1>5. \A j \in DOMAIN q : q[j] \in PlayerSlot
  OBVIOUS
<1>6. \A j \in DOMAIN q : r[j].id = q[j].id /\ r[j].state # "alive"
  BY ONLY <1>2, <1>5 DEF PlayerSlot
<1> QED
  BY <1>1, <1>3, <1>4, <1>6

LEMMA AttackRoutes ==
  ASSUME NEW s \in Slots, tick_attack(s)
  PROVE  \E d \in {0} \cup Playing(session[s]), how \in {"topped", "quit"} : \E a, v :
           /\ session' = [session EXCEPT ![s] = After(s, d, how)]
           /\ LET att == [n |-> attacks + 1, from |-> session[s][a].id, to |-> v]
              IN \/ Report(s, Eliminated(s, d) \o <<Msg("FEED", att)>>)
                 \/ Report(s, Eliminated(s, d) \o <<Msg("ATTACK", att), Msg("FEED", att)>>)
                 \/ Report(s, Eliminated(s, d))
<1>1. PICK d \in {0} \cup Playing(session[s]), how \in {"topped", "quit"},
           a \in Playing(session[s]) :
        \E v \in Victims(s, session[s][a].id), at \in DrainedInto(s, d, how) :
          LET ss    == After(s, d, how)
              m     == attacks + 1
              att   == [n |-> m, from |-> session[s][a].id, to |-> v]
              V     == Found(ss, v)
              local == V # {} /\ \E i \in V : ss[i].state = "alive"
          IN /\ session' = [session EXCEPT ![s] = ss]
             /\ \/ /\ local
                   /\ DrainHub(s, at, {m}, {m})
                   /\ Report(s, Eliminated(s, d) \o <<Msg("FEED", att)>>)
                \/ /\ V = {}
                   /\ DrainHub(s, at, {m}, {})
                   /\ Report(s, Eliminated(s, d)
                                \o <<Msg("ATTACK", att), Msg("FEED", att)>>)
                \/ /\ V # {}
                   /\ ~local
                   /\ DrainHub(s, at, {}, {})
                   /\ Report(s, Eliminated(s, d))
  BY DEF tick_attack
<1>2. PICK v : /\ session' = [session EXCEPT ![s] = After(s, d, how)]
               /\ LET att == [n |-> attacks + 1, from |-> session[s][a].id, to |-> v]
                  IN \/ Report(s, Eliminated(s, d) \o <<Msg("FEED", att)>>)
                     \/ Report(s, Eliminated(s, d) \o <<Msg("ATTACK", att), Msg("FEED", att)>>)
                     \/ Report(s, Eliminated(s, d))
  BY ONLY <1>1, Zenon
<1> QED
  BY <1>2

\* The three kinds of tick keep the boards in their places
LEMMA TickSame ==
  ASSUME TypeOK, NEW s \in Slots, tick(s) \/ tick_attack(s) \/ tick_over(s)
  PROVE  /\ SameGame(s) /\ \A t \in Slots \ {s} : session'[t] = session[t]
         /\ UNCHANGED <<masterVars, conn, handshake, next_id, lobby>>
         /\ \A t \in Slots \ {s} : wpc'[t] = wpc[t]
         /\ wpc[s] = "run" /\ wpc'[s] \in {"run", "over"}
<1>0. session \in [Slots -> Seq(PlayerSlot)] /\ wpc \in [Slots -> WorkerPc]
  BY DEF TypeOK
<1>1. PICK d \in {0} \cup Playing(session[s]), how \in {"topped", "quit"} :
        \/ session' = [session EXCEPT ![s] = After(s, d, how)]
        \/ session' = [session EXCEPT ![s] = Finished(After(s, d, how))]
  <2>1. CASE tick(s)
    BY <2>1 DEF tick
  <2>2. CASE tick_over(s)
    BY <2>2 DEF tick_over
  <2>3. CASE tick_attack(s)
    BY <2>3, AttackRoutes
  <2> QED
    BY <2>1, <2>2, <2>3
<1>2. PICK q : q = After(s, d, how)
  OBVIOUS
<1>3. /\ q \in Seq(PlayerSlot)
      /\ DOMAIN q = DOMAIN session[s] /\ Len(q) = Len(session[s])
      /\ \A j \in DOMAIN session[s] :
           /\ q[j].id = session[s][j].id
           /\ j = d => q[j].state = how
           /\ j # d => q[j] = session[s][j]
  BY <1>2, AfterSame
<1>4. \A j \in DOMAIN session[s] : q[j].id = session[s][j].id
                                   /\ (q[j].state = "alive" => session[s][j].state = "alive")
  BY <1>3
<1>5. /\ session'[s] = q \/ session'[s] = Finished(q)
      /\ \A t \in Slots \ {s} : session'[t] = session[t]
  BY <1>0, <1>1, <1>2
<1>6. SameGame(s)
  <2>1. CASE session'[s] = q
    BY <1>3, <1>4, <2>1 DEF SameGame
  <2>2. CASE session'[s] = Finished(q)
    <3>1. /\ DOMAIN Finished(q) = DOMAIN q /\ Len(Finished(q)) = Len(q)
          /\ \A j \in DOMAIN q : Finished(q)[j].id = q[j].id /\ Finished(q)[j].state # "alive"
      BY <1>3, FinishedSame
    <3> QED
      BY <1>3, <2>2, <3>1 DEF SameGame
  <2> QED
    BY <1>5, <2>1, <2>2
<1>7. UNCHANGED <<masterVars, conn, handshake, next_id, lobby>>
  BY DEF tick, tick_attack, tick_over, serverVars
<1>8. /\ \A t \in Slots \ {s} : wpc'[t] = wpc[t]
      /\ wpc[s] = "run" /\ wpc'[s] \in {"run", "over"}
  BY <1>0 DEF tick, tick_attack, tick_over, TickGoesOn
<1> QED
  BY <1>5, <1>6, <1>7, <1>8

LEMMA SitWorker ==
  ASSUME TypeInd, SitInv, NEW s \in Slots,
         \/ WorkerSteps(s) \/ tick_attack(s) \/ crash(s) \/ hub_reset(s)
         \/ handshake_done(s) \/ handshake_fail(s) \/ \E c \in Clients : lobby_accept(s, c)
  PROVE  SitInv'
<1>0. /\ wpc \in [Slots -> WorkerPc] /\ handshake \in [Slots -> Nat]
      /\ conn \in [Slots -> Seq(Nat)] /\ session \in [Slots -> Seq(PlayerSlot)]
      /\ TypeOK /\ Sits(s)
  BY DEF TypeInd, TypeOK, SitInv
<1>1. CASE room_exit(s) \/ lobby_eof(s) \/ crash(s)
  BY <1>0, <1>1, SitsVanish DEF room_exit, lobby_eof, crash
<1>2. CASE hub_reset(s)
  BY <1>2, SitsQuiet DEF hub_reset, masterVars, workerVars, serverVars, gameVars
<1>3. CASE bind_port(s) \/ lobby_poll(s) \/ lobby_drain(s)
  <2>1. UNCHANGED <<masterVars, conn, handshake, session>>
    BY <1>3 DEF bind_port, lobby_poll, lobby_drain, serverVars, gameVars
  <2>2. /\ wpc[s] \in {"init", "poll", "drain"} /\ wpc'[s] \in {"poll", "drain"}
        /\ \A t \in Slots \ {s} : wpc'[t] = wpc[t]
    BY <1>0, <1>3 DEF bind_port, lobby_poll, lobby_drain
  <2>3. Live(s) /\ session[s] = <<>>
    BY <1>0, <2>2 DEF Live, Sits
  <2> QED
    BY <1>0, <2>1, <2>2, <2>3, SitsOne DEF Sits
<1>4. CASE tick(s) \/ tick_over(s) \/ tick_attack(s)
  <2>1. /\ SameGame(s) /\ \A t \in Slots \ {s} : session'[t] = session[t]
        /\ UNCHANGED <<masterVars, conn, handshake>>
        /\ \A t \in Slots \ {s} : wpc'[t] = wpc[t]
        /\ wpc[s] = "run" /\ wpc'[s] \in {"run", "over"}
    BY <1>0, <1>4, TickSame
  <2>2. Live(s)
    BY <2>1 DEF Live
  <2>3. Len(session'[s]) <= Len(conn'[s]) /\ \A j \in DOMAIN session'[s] : session'[s][j].id = conn'[s][j]
    BY <1>0, <2>1 DEF SameGame, Sits
  <2> QED
    BY <2>1, <2>2, <2>3, SitsOne
<1>5. CASE lobby_start(s)
  <2>1. /\ UNCHANGED <<masterVars, conn, handshake>> /\ wpc[s] = "drain"
        /\ session' = [session EXCEPT ![s] =
             [i \in 1..lobby[s].size |-> [id |-> conn[s][i], state |-> "alive"]]]
        /\ wpc' = [wpc EXCEPT ![s] = "run"]
    BY <1>5 DEF lobby_start, serverVars
  <2>2. wpc'[s] = "run" /\ \A t \in Slots \ {s} : wpc'[t] = wpc[t] /\ session'[t] = session[t]
    BY ONLY <1>0, <2>1
  <2>3. PICK k \in Nat : k = lobby[s].size /\ k <= Len(conn[s])
    BY DEF TypeInd, TypeOK, LobbyRec, LobbyWithinList
  <2>4. PICK r : r = [i \in 1..k |-> [id |-> conn[s][i], state |-> "alive"]]
    OBVIOUS
  <2>5. session'[s] = r
    BY <1>0, <2>1, <2>3, <2>4
  <2>6. DOMAIN r = 1..k /\ Len(r) = k /\ \A j \in 1..k : r[j].id = conn[s][j]
    BY ONLY <2>3, <2>4
  <2>7. Live(s)
    BY <2>1 DEF Live
  <2> QED
    BY <2>1, <2>2, <2>3, <2>5, <2>6, <2>7, SitsOne
<1>6. CASE handshake_done(s)
  <2>1. /\ UNCHANGED <<masterVars, wpc, session>> /\ handshake[s] # 0
        /\ conn' = [conn EXCEPT ![s] = Append(@, handshake[s])]
        /\ handshake' = [handshake EXCEPT ![s] = 0]
    BY <1>6 DEF handshake_done, gameVars
  <2>2. PICK q, r, h : q = conn[s] /\ r = conn'[s] /\ h = handshake[s]
    OBVIOUS
  <2>3. r = Append(q, h) /\ q \in Seq(Nat) /\ h \in Nat /\ handshake'[s] = 0
    BY <1>0, <2>1, <2>2
  <2>4. \A t \in Slots \ {s} : conn'[t] = conn[t] /\ handshake'[t] = handshake[t]
    BY ONLY <1>0, <2>1
  <2>5. wpc[s] \notin {"none", "init", "gone"}
    BY <1>0, <2>1 DEF Sits
  <2>6. Len(q) \in Nat /\ Len(r) = Len(q) + 1 /\ \A j \in 1..Len(q) : r[j] = q[j]
    BY ONLY <2>3
  <2>7. /\ Len(session[s]) \in Nat /\ DOMAIN session[s] = 1..Len(session[s])
        /\ Len(session[s]) <= Len(q) /\ \A j \in DOMAIN session[s] : session[s][j].id = q[j]
    BY <1>0, <2>2 DEF Sits
  <2>8. Len(session[s]) <= Len(r) /\ \A j \in DOMAIN session[s] : session[s][j].id = r[j]
    BY ONLY <2>6, <2>7
  <2> QED
    BY <1>0, <2>1, <2>2, <2>4, <2>5, <2>8, SitsOne DEF Sits, Live
<1>7. CASE handshake_fail(s)
  <2>1. /\ UNCHANGED <<masterVars, wpc, conn, session>>
        /\ handshake' = [handshake EXCEPT ![s] = 0]
    BY <1>7 DEF handshake_fail, gameVars
  <2>2. handshake'[s] = 0 /\ \A t \in Slots \ {s} : handshake'[t] = handshake[t]
    BY ONLY <1>0, <2>1
  <2> QED
    BY <1>0, <2>1, <2>2, SitsOne DEF Sits, Live
<1>8. ASSUME NEW c \in Clients, lobby_accept(s, c) PROVE SitInv'
  <2>1. /\ UNCHANGED <<masterVars, wpc, conn, session>> /\ wpc[s] \in {"poll", "drain"}
        /\ handshake' = [handshake EXCEPT ![s] = next_id[s]]
    BY <1>8 DEF lobby_accept, gameVars, Accepting
  <2>2. \A t \in Slots \ {s} : handshake'[t] = handshake[t]
    BY ONLY <1>0, <2>1
  <2> QED
    BY <1>0, <2>1, <2>2, SitsOne DEF Sits, Live
<1> QED
  BY <1>1, <1>2, <1>3, <1>4, <1>5, <1>6, <1>7, <1>8 DEF WorkerSteps

LEMMA SitStep ==
  ASSUME TypeInd, SitInv, [Next]_vars
  PROVE  SitInv'
<1>0. /\ rooms \in [Slots -> RoomRec] /\ wpc \in [Slots -> WorkerPc]
      /\ conn \in [Slots -> Seq(Nat)] /\ session \in [Slots -> Seq(PlayerSlot)] /\ TypeOK
  BY DEF TypeInd, TypeOK
<1>1. ASSUME UNCHANGED <<wpc, conn, handshake, session>>, UNCHANGED master \/ master' # "run",
             \A t \in Slots : rooms'[t].used = rooms[t].used
      PROVE  SitInv'
  BY <1>1, SitsQuiet
<1>2. CASE UNCHANGED vars
  BY <1>1, <1>2 DEF vars, masterVars, workerVars, serverVars, gameVars
<1>3. ASSUME NEW c \in Clients, accept_refuse(c) \/ connect_refused(c) PROVE SitInv'
  BY <1>1, <1>3 DEF accept_refuse, connect_refused, masterVars, workerVars, serverVars, gameVars
<1>4. ASSUME NEW c \in Clients, accept_client(c) PROVE SitInv'
  <2>1. PICK s : rooms' = [rooms EXCEPT ![s].redirected = @ + 1]
    BY <1>4 DEF accept_client
  <2>2. \A t \in Slots : rooms'[t].used = rooms[t].used
    BY ONLY <1>0, <2>1 DEF RoomRec
  <2> QED
    BY <1>1, <1>4, <2>2 DEF accept_client, workerVars, serverVars, gameVars
<1>5. ASSUME NEW c \in Clients, accept_spawn(c) PROVE SitInv'
  <2>1. PICK s \in Slots : s = Least(Slots \ Used(rooms)) /\ ~rooms[s].used
    BY <1>5, LeastSlot DEF accept_spawn, Used
  <2>2. /\ rooms' = [rooms EXCEPT ![s] = [NoRoom EXCEPT !.used = TRUE, !.redirected = 1]]
        /\ wpc' = [wpc EXCEPT ![s] = "init"] /\ UNCHANGED <<conn, handshake, session, master>>
        /\ master = "run"
    BY <1>5, <2>1 DEF accept_spawn, gameVars, Serving
  <2>3. /\ rooms'[s].used /\ wpc'[s] = "init"
        /\ \A t \in Slots \ {s} : rooms'[t] = rooms[t] /\ wpc'[t] = wpc[t]
    BY ONLY <1>0, <2>1, <2>2 DEF NoRoom
  <2>4. wpc[s] \in {"none", "gone"} /\ Sits(s)
    BY <2>1, <2>2 DEF SitInv, Sits, Live
  <2>5. Sits(s)'
    BY <2>2, <2>3, <2>4 DEF Sits
  <2>6. \A t \in Slots \ {s} : Sits(t)'
    BY <2>2, <2>3 DEF SitInv, Sits, Live
  <2> QED
    BY <2>5, <2>6 DEF SitInv
<1>6. CASE press_enter
  <2>1. \A u \in Slots : rooms'[u] = rooms[u] \/ rooms'[u] = [rooms[u] EXCEPT !.started = TRUE]
    BY <1>6 DEF press_enter, start_all_rooms
  <2>2. \A u \in Slots : rooms'[u].used = rooms[u].used
    BY ONLY <1>0, <2>1 DEF RoomRec
  <2> QED
    BY <1>1, <1>6, <2>2 DEF press_enter, workerVars, serverVars, gameVars
<1>7. CASE on_sigint \/ loop_exit
  BY <1>1, <1>7 DEF on_sigint, loop_exit, workerVars, serverVars, gameVars
<1>8. CASE shutdown
  <2>1. master' # "run" /\ UNCHANGED <<wpc, conn, handshake, session>>
    BY <1>8 DEF shutdown, workerVars, serverVars, gameVars
  <2> QED
    BY <2>1, SitsQuiet
<1>9. ASSUME NEW s \in Slots, handle_joined(s) PROVE SitInv'
  <2>1. \A t \in Slots : rooms'[t].used = rooms[t].used
    BY <1>0, <1>9, JoinedSame
  <2> QED
    BY <1>1, <1>9, <2>1 DEF handle_joined, workerVars, serverVars, gameVars
<1>10. ASSUME NEW s \in Slots, handle_ready(s) PROVE SitInv'
  <2>1. rooms' = [rooms EXCEPT ![s].ready = TRUE]
    BY <1>10 DEF handle_ready
  <2>2. \A t \in Slots : rooms'[t].used = rooms[t].used
    BY ONLY <1>0, <2>1 DEF RoomRec
  <2> QED
    BY <1>1, <1>10, <2>2 DEF handle_ready, workerVars, serverVars, gameVars
<1>11. ASSUME NEW s \in Slots, handle_eliminated(s) \/ handle_attack(s) \/ handle_feed(s) PROVE SitInv'
  BY <1>1, <1>11 DEF handle_eliminated, handle_attack, handle_feed, masterVars, workerVars,
                     serverVars, gameVars
<1>12. ASSUME NEW s \in Slots, hub_closed(s) PROVE SitInv'
  <2>1. /\ rooms' = [rooms EXCEPT ![s].used = FALSE] /\ wpc[s] = "gone"
        /\ UNCHANGED <<wpc, conn, handshake, session, master>>
    BY <1>12 DEF hub_closed, CloseRoom, workerVars, serverVars, gameVars
  <2>2. \A t \in Slots \ {s} : rooms'[t] = rooms[t]
    BY ONLY <1>0, <2>1
  <2>3. ~Live(s)
    BY <2>1 DEF Live
  <2> QED
    BY <2>1, <2>2, <2>3, SitsQuiet
<1>13. ASSUME NEW s \in Slots,
              \/ WorkerSteps(s) \/ tick_attack(s) \/ crash(s) \/ hub_reset(s)
              \/ handshake_done(s) \/ handshake_fail(s) \/ \E c \in Clients : lobby_accept(s, c)
       PROVE  SitInv'
  BY <1>13, SitWorker
<1> QED
  BY <1>2, <1>3, <1>4, <1>5, <1>6, <1>7, <1>8, <1>9, <1>10, <1>11, <1>12, <1>13 DEF Next, MasterHandles

-----------------------------------------------------------------------------
(* What the hubs and the table say of an id.                                   *)

\* What the messages of type t in queue q say
Bodies(q, t) == {q[i].body : i \in OfType(q, t)}

LEMMA BodiesNothing == \A t : Bodies(<<>>, t) = {}
  BY DEF Bodies, OfType

LEMMA BodiesTail ==
  ASSUME NEW X, NEW q \in Seq(X), q # <<>>, NEW t
  PROVE  /\ Bodies(Tail(q), t) \subseteq Bodies(q, t)
         /\ Head(q).type = t => Head(q).body \in Bodies(q, t)
<1>1. PICK r : r = Tail(q)
  OBVIOUS
<1>2. /\ Len(q) \in Nat /\ Len(q) >= 1 /\ DOMAIN q = 1..Len(q) /\ DOMAIN r = 1..(Len(q) - 1)
      /\ \A i \in 1..(Len(q) - 1) : r[i] = q[i + 1]
  BY <1>1
<1>3. Head(q) = q[1] /\ 1 \in DOMAIN q
  BY <1>2
<1>4. \A i \in DOMAIN r : i + 1 \in DOMAIN q /\ r[i] = q[i + 1]
  BY <1>2
<1>5. Bodies(r, t) \subseteq Bodies(q, t)
  BY <1>4 DEF Bodies, OfType
<1>6. Head(q).type = t => Head(q).body \in Bodies(q, t)
  BY <1>3 DEF Bodies, OfType
<1> QED
  BY <1>1, <1>5, <1>6

LEMMA BodiesConcat ==
  ASSUME NEW X, NEW q \in Seq(X), NEW r \in Seq(X), NEW t
  PROVE  Bodies(q \o r, t) = Bodies(q, t) \cup Bodies(r, t)
<1>1. /\ DOMAIN (q \o r) = 1..(Len(q) + Len(r)) /\ Len(q) \in Nat /\ Len(r) \in Nat
      /\ DOMAIN q = 1..Len(q) /\ DOMAIN r = 1..Len(r)
  BY ConcatProperties
<1>2. \A i \in DOMAIN q : i \in DOMAIN (q \o r) /\ (q \o r)[i] = q[i]
  BY <1>1
<1>3. ASSUME NEW i \in DOMAIN (q \o r), i \notin DOMAIN q
      PROVE  i - Len(q) \in DOMAIN r /\ (q \o r)[i] = r[i - Len(q)]
  BY <1>1, <1>3
<1>4. ASSUME NEW i \in DOMAIN r
      PROVE  i + Len(q) \in DOMAIN (q \o r) /\ (q \o r)[i + Len(q)] = r[i]
  BY <1>1
<1>5. Bodies(q \o r, t) \subseteq Bodies(q, t) \cup Bodies(r, t)
  BY <1>3, <1>2 DEF Bodies, OfType
<1>6. Bodies(q, t) \subseteq Bodies(q \o r, t)
  BY <1>2 DEF Bodies, OfType
<1>7. Bodies(r, t) \subseteq Bodies(q \o r, t)
  BY <1>4 DEF Bodies, OfType
<1> QED
  BY <1>5, <1>6, <1>7

NewOf(u, t) == Bodies(w2m'[u], t) \ Bodies(w2m[u], t)

\* A worker tells the master of its clients when they are on its list, and of a
\* game when it is over
Tells(u) ==
  /\ NewOf(u, "JOINED") \subseteq Ids(conn[u])
  /\ \A x \in NewOf(u, "ELIMINATED") :
       /\ wpc[u] = "run"
       /\ \E d \in Playing(session[u]) : x = session[u][d].id /\ d \notin Playing(session'[u])

LEMMA ReportBodies ==
  ASSUME NEW X, w2m \in [Slots -> Seq(X)], NEW s \in Slots, NEW msgs \in Seq(X), Report(s, msgs),
         NEW t
  PROVE  \A u \in Slots : /\ u # s => NewOf(u, t) = {}
                          /\ NewOf(s, t) \subseteq Bodies(msgs, t)
<1>1. \A u \in Slots : u # s => w2m'[u] = w2m[u]
  BY DEF Report
<1>2. w2m'[s] = w2m[s] \/ w2m'[s] = w2m[s] \o msgs
  BY DEF Report
<1>3. Bodies(w2m[s] \o msgs, t) = Bodies(w2m[s], t) \cup Bodies(msgs, t)
  BY BodiesConcat
<1> QED
  BY <1>1, <1>2, <1>3 DEF NewOf

LEMMA TellsNothing ==
  ASSUME NEW u, w2m'[u] = w2m[u] \/ w2m'[u] = <<>> PROVE Tells(u)
<1>1. \A t : NewOf(u, t) = {}
  BY BodiesNothing DEF NewOf
<1> QED
  BY <1>1 DEF Tells

LEMMA TellsMaster ==
  ASSUME TypeOK, NEW s \in Slots, MasterHandles(s)
  PROVE  \A u \in Slots : \A t : NewOf(u, t) = {}
<1>0. w2m \in [Slots -> Seq(ToMaster)]
  BY DEF TypeOK
<1>1. ASSUME NEW k, Incoming(s, k) PROVE \A u \in Slots : \A t : NewOf(u, t) = {}
  <2>1. w2m[s] # <<>> /\ w2m' = [w2m EXCEPT ![s] = Tail(@)]
    BY <1>1 DEF Incoming
  <2>2. w2m'[s] = Tail(w2m[s]) /\ w2m[s] \in Seq(ToMaster) /\ \A u \in Slots \ {s} : w2m'[u] = w2m[u]
    BY ONLY <1>0, <2>1
  <2>3. \A t : Bodies(w2m'[s], t) \subseteq Bodies(w2m[s], t)
    BY <2>1, <2>2, BodiesTail
  <2> QED
    BY <2>2, <2>3 DEF NewOf
<1>2. CASE hub_closed(s)
  BY <1>2 DEF hub_closed, NewOf
<1> QED
  BY <1>1, <1>2 DEF MasterHandles, handle_ready, handle_joined, handle_eliminated, handle_attack,
                    handle_feed

\* A tick that ends game d says so, and says nothing else of that kind
LEMMA TellsTick ==
  ASSUME TypeOK, NEW s \in Slots, wpc[s] = "run", NEW d \in {0} \cup Playing(session[s]),
         NEW how \in {"topped", "quit"}, session' = [session EXCEPT ![s] = After(s, d, how)],
         NEW X, w2m \in [Slots -> Seq(X)], NEW e, e = Eliminated(s, d), NEW rest, NEW msgs,
         e \in Seq(X), rest \in Seq(X), msgs = e \/ msgs = e \o rest, Report(s, msgs),
         \A t \in {"JOINED", "ELIMINATED"} : Bodies(rest, t) = {}
  PROVE  \A u \in Slots : Tells(u)
<1>1. msgs \in Seq(X)
  <2>1. CASE msgs = e
    BY ONLY <2>1, e \in Seq(X)
  <2>2. CASE msgs = e \o rest
    BY ONLY <2>2, e \in Seq(X), rest \in Seq(X)
  <2> QED
    BY ONLY <2>1, <2>2, msgs = e \/ msgs = e \o rest
<1>2. ASSUME NEW t \in {"JOINED", "ELIMINATED"} PROVE Bodies(msgs, t) \subseteq Bodies(e, t)
  <2>1. Bodies(e \o rest, t) = Bodies(e, t) \cup Bodies(rest, t)
    BY ONLY e \in Seq(X), rest \in Seq(X), BodiesConcat
  <2>2. Bodies(rest, t) = {}
    OBVIOUS
  <2> QED
    BY ONLY <2>1, <2>2, msgs = e \/ msgs = e \o rest
<1>3. Bodies(e, "JOINED") = {}
  <2>1. CASE d = 0
    BY <2>1, BodiesNothing DEF Eliminated
  <2>2. CASE d # 0
    BY <2>2 DEF Eliminated, Bodies, OfType, Msg
  <2> QED
    BY <2>1, <2>2
<1>4. \A x \in Bodies(e, "ELIMINATED") : d # 0 /\ x = session[s][d].id
  <2>1. CASE d = 0
    BY <2>1, BodiesNothing DEF Eliminated
  <2>2. CASE d # 0
    BY <2>2 DEF Eliminated, Bodies, OfType, Msg
  <2> QED
    BY <2>1, <2>2
<1>5. ASSUME NEW u \in Slots, u # s PROVE Tells(u)
  <2>1. w2m'[u] = w2m[u]
    BY <1>5 DEF Report
  <2> QED
    BY <2>1, TellsNothing
<1>6. \A t \in {"JOINED", "ELIMINATED"} : NewOf(s, t) \subseteq Bodies(e, t)
  BY <1>1, <1>2, ReportBodies
<1>7. d # 0 => d \in Playing(session[s]) /\ d \notin Playing(session'[s])
  <2> SUFFICES ASSUME d # 0 PROVE d \in Playing(session[s]) /\ d \notin Playing(session'[s])
    OBVIOUS
  <2>1. d \in Playing(session[s]) /\ d \in DOMAIN session[s]
    BY DEF Playing
  <2>2. session'[s] = After(s, d, how)
    BY DEF TypeOK
  <2>3. \A j \in DOMAIN session[s] :
          /\ After(s, d, how)[j].id = session[s][j].id
          /\ j = d => After(s, d, how)[j].state = how
          /\ j # d => After(s, d, how)[j] = session[s][j]
    BY AfterSame
  <2> QED
    BY <2>1, <2>2, <2>3 DEF Playing
<1>8. Tells(s)
  BY <1>3, <1>4, <1>6, <1>7 DEF Tells
<1> QED
  BY <1>5, <1>8

LEMMA TellsAttack ==
  ASSUME TypeOK, NEW s \in Slots, tick_attack(s)
  PROVE  \A u \in Slots : Tells(u)
<1>1. PICK d \in {0} \cup Playing(session[s]), how \in {"topped", "quit"} : \E a, v :
        /\ session' = [session EXCEPT ![s] = After(s, d, how)]
        /\ LET att == [n |-> attacks + 1, from |-> session[s][a].id, to |-> v]
           IN \/ Report(s, Eliminated(s, d) \o <<Msg("FEED", att)>>)
              \/ Report(s, Eliminated(s, d) \o <<Msg("ATTACK", att), Msg("FEED", att)>>)
              \/ Report(s, Eliminated(s, d))
  BY AttackRoutes
<1>2. PICK A, F : /\ session' = [session EXCEPT ![s] = After(s, d, how)]
                  /\ \E att : A = Msg("ATTACK", att) /\ F = Msg("FEED", att)
                  /\ \/ Report(s, Eliminated(s, d) \o <<F>>)
                     \/ Report(s, Eliminated(s, d) \o <<A, F>>)
                     \/ Report(s, Eliminated(s, d))
  BY ONLY <1>1, Zenon
<1>3. PICK e, E : e = Eliminated(s, d) /\ E = Msg("ELIMINATED", session[s][d].id)
  OBVIOUS
<1>4. A.type = "ATTACK" /\ F.type = "FEED" /\ (e = <<>> \/ e = <<E>>) /\ wpc[s] = "run"
  BY <1>2, <1>3 DEF Msg, Eliminated, tick_attack, TickGoesOn
<1>5. PICK X : X = ToMaster \cup {A, F, E}
  OBVIOUS
<1>6. A \in X /\ F \in X /\ E \in X /\ ToMaster \subseteq X
  BY <1>5
<1>7. w2m \in [Slots -> Seq(X)]
  <2>1. Seq(ToMaster) \subseteq Seq(X)
    BY <1>6
  <2> QED
    BY <2>1 DEF TypeOK
<1>8. <<>> \in Seq(X) /\ <<E>> \in Seq(X) /\ <<F>> \in Seq(X) /\ <<A, F>> \in Seq(X)
  BY <1>6
<1>9. PICK r, q : r = <<F>> /\ q = <<A, F>>
  OBVIOUS
<1>10. \A t \in {"JOINED", "ELIMINATED"} : Bodies(r, t) = {} /\ Bodies(q, t) = {}
  BY <1>4, <1>9 DEF Bodies, OfType
<1>11. PICK msgs : Report(s, msgs) /\ (msgs = e \/ msgs = e \o r \/ msgs = e \o q)
  BY <1>2, <1>3, <1>9
<1>12. e \in Seq(X) /\ r \in Seq(X) /\ q \in Seq(X)
  BY <1>4, <1>8, <1>9
<1>13. CASE msgs = e \/ msgs = e \o r
  BY <1>2, <1>3, <1>4, <1>7, <1>10, <1>11, <1>12, <1>13, TellsTick
<1>14. CASE msgs = e \o q
  BY <1>2, <1>3, <1>4, <1>7, <1>10, <1>11, <1>12, <1>14, TellsTick
<1> QED
  BY <1>11, <1>13, <1>14

LEMMA TellsPoll ==
  ASSUME TypeOK, NEW s \in Slots, lobby_poll(s)
  PROVE  \A u \in Slots : Tells(u)
<1>1. PICK msgs : /\ Report(s, msgs)
                  /\ msgs = [i \in 1..(Len(conn[s]) - lobby[s].reported) |->
                               Msg("JOINED", conn[s][lobby[s].reported + i])]
  BY DEF lobby_poll
<1>a. conn[s] \in Seq(Nat) /\ lobby[s] \in LobbyRec
  BY DEF TypeOK
<1>b. Len(conn[s]) \in Nat /\ lobby[s].reported \in Nat
  BY <1>a DEF LobbyRec
<1>2. PICK k, n : k = lobby[s].reported /\ n = Len(conn[s]) /\ k \in Nat /\ n \in Nat
  BY <1>b
<1>3. \A i \in 1..(n - k) : k + i \in 1..n
  BY <1>2
<1>4. DOMAIN msgs = 1..(n - k) /\ \A i \in 1..(n - k) : msgs[i] = Msg("JOINED", conn[s][k + i])
  BY <1>1, <1>2
<1>5. DOMAIN conn[s] = 1..n
  BY <1>2 DEF TypeOK
<1>6. Bodies(msgs, "JOINED") \subseteq Ids(conn[s]) /\ Bodies(msgs, "ELIMINATED") = {}
  BY <1>3, <1>4, <1>5 DEF Bodies, OfType, Ids, Msg
<1>7. PICK X : X = ToMaster \cup {msgs[i] : i \in DOMAIN msgs}
  OBVIOUS
<1>8. w2m \in [Slots -> Seq(X)]
  <2>1. ToMaster \subseteq X
    BY <1>7
  <2>2. Seq(ToMaster) \subseteq Seq(X)
    BY <2>1
  <2> QED
    BY <2>2 DEF TypeOK
<1>9. msgs \in Seq(X)
  <2>1. \E m \in Nat : 1..(n - k) = 1..m
    <3>1. CASE n >= k
      BY <1>2, <3>1
    <3>2. CASE n < k
      <4>1. 1..(n - k) = 1..0
        BY <1>2, <3>2
      <4> QED
        BY <4>1
    <3> QED
      BY <1>2, <3>1, <3>2
  <2>2. PICK m \in Nat : 1..(n - k) = 1..m
    BY <2>1
  <2>3. msgs \in [1..m -> X]
    BY <1>1, <1>2, <1>7, <2>2
  <2> QED
    BY <2>3
<1>10. ASSUME NEW u \in Slots, u # s PROVE Tells(u)
  <2>1. w2m'[u] = w2m[u]
    BY <1>1, <1>10 DEF Report
  <2> QED
    BY <2>1, TellsNothing
<1>11. \A t : NewOf(s, t) \subseteq Bodies(msgs, t)
  BY <1>1, <1>8, <1>9, ReportBodies
<1>12. Tells(s)
  BY <1>6, <1>11 DEF Tells
<1> QED
  BY <1>10, <1>12

LEMMA TellsStep ==
  ASSUME TypeOK, [Next]_vars
  PROVE  \A u \in Slots : Tells(u)
<1>0. w2m \in [Slots -> Seq(ToMaster)]
  BY DEF TypeOK
<1>1. ASSUME UNCHANGED w2m PROVE \A u \in Slots : Tells(u)
  BY <1>1, TellsNothing
<1>2. ASSUME NEW s, w2m' = w2m \/ w2m' = [w2m EXCEPT ![s] = <<>>] PROVE \A u \in Slots : Tells(u)
  <2>1. \A u \in Slots : w2m'[u] = w2m[u] \/ w2m'[u] = <<>>
    BY ONLY <1>0, <1>2
  <2> QED
    BY <2>1, TellsNothing
<1>3. CASE UNCHANGED vars \/ press_enter \/ on_sigint \/ loop_exit \/ shutdown
  BY <1>1, <1>3 DEF vars, press_enter, on_sigint, loop_exit, shutdown
<1>4. ASSUME NEW c \in Clients, accept_client(c) \/ accept_refuse(c) \/ connect_refused(c)
      PROVE  \A u \in Slots : Tells(u)
  BY <1>1, <1>4 DEF accept_client, accept_refuse, connect_refused
<1>5. ASSUME NEW c \in Clients, accept_spawn(c) PROVE \A u \in Slots : Tells(u)
  <2>1. PICK s : w2m' = [w2m EXCEPT ![s] = <<>>]
    BY <1>5 DEF accept_spawn
  <2> QED
    BY <1>2, <2>1
<1>6. ASSUME NEW s \in Slots, MasterHandles(s) PROVE \A u \in Slots : Tells(u)
  BY <1>6, TellsMaster DEF Tells
<1>7. ASSUME NEW s \in Slots, Vanish(s) PROVE \A u \in Slots : Tells(u)
  <2>1. w2m' = w2m \/ w2m' = [w2m EXCEPT ![s] = <<>>]
    BY <1>7 DEF Vanish
  <2> QED
    BY <1>2, <2>1
<1>8. ASSUME NEW s \in Slots, bind_port(s) PROVE \A u \in Slots : Tells(u)
  <2>1. PICK msgs : msgs = <<Msg("READY", 0)>>
    OBVIOUS
  <2>2. msgs \in Seq(ToMaster)
    BY <2>1, MsgTypes
  <2>3. \A t \in {"JOINED", "ELIMINATED"} : Bodies(msgs, t) = {}
    BY <2>1 DEF Bodies, OfType, Msg
  <2>4. Report(s, msgs)
    BY <1>8, <2>1 DEF bind_port
  <2>5. ASSUME NEW u \in Slots, u # s PROVE Tells(u)
    <3>1. w2m'[u] = w2m[u]
      BY <2>4, <2>5 DEF Report
    <3> QED
      BY <3>1, TellsNothing
  <2>6. \A t : NewOf(s, t) \subseteq Bodies(msgs, t)
    BY <1>0, <2>2, <2>4, ReportBodies
  <2> QED
    BY <2>3, <2>5, <2>6 DEF Tells
<1>9. ASSUME NEW s \in Slots, tick(s) PROVE \A u \in Slots : Tells(u)
  <2>1. PICK d \in {0} \cup Playing(session[s]), how \in {"topped", "quit"} :
          /\ session' = [session EXCEPT ![s] = After(s, d, how)]
          /\ Report(s, Eliminated(s, d))
    BY <1>9 DEF tick
  <2>2. PICK e, E, X : /\ e = Eliminated(s, d) /\ E = Msg("ELIMINATED", session[s][d].id)
                       /\ X = ToMaster \cup {E}
    OBVIOUS
  <2>3. (e = <<>> \/ e = <<E>>) /\ wpc[s] = "run" /\ E \in X /\ ToMaster \subseteq X
    BY <1>9, <2>2 DEF Eliminated, tick, TickGoesOn
  <2>4. w2m \in [Slots -> Seq(X)]
    <3>1. Seq(ToMaster) \subseteq Seq(X)
      BY <2>3
    <3> QED
      BY <1>0, <3>1
  <2>5. <<>> \in Seq(X) /\ <<E>> \in Seq(X)
    BY <2>3
  <2>6. PICK r : r = <<>>
    OBVIOUS
  <2>7. e \in Seq(X) /\ r \in Seq(X) /\ \A t \in {"JOINED", "ELIMINATED"} : Bodies(r, t) = {}
    BY <2>3, <2>5, <2>6, BodiesNothing
  <2> QED
    BY <2>1, <2>2, <2>3, <2>4, <2>7, TellsTick
<1>10. ASSUME NEW s \in Slots, WorkerSteps(s) PROVE \A u \in Slots : Tells(u)
  <2>1. CASE lobby_drain(s) \/ lobby_start(s) \/ tick_over(s)
    BY <1>1, <2>1 DEF lobby_drain, lobby_start, tick_over
  <2> QED
    BY <1>7, <1>8, <1>9, <1>10, <2>1, TellsPoll DEF WorkerSteps, lobby_eof, room_exit
<1>11. ASSUME NEW s \in Slots, hub_reset(s) \/ handshake_done(s) \/ handshake_fail(s)
                               \/ \E c \in Clients : lobby_accept(s, c)
       PROVE  \A u \in Slots : Tells(u)
  BY <1>1, <1>11 DEF hub_reset, handshake_done, handshake_fail, lobby_accept
<1>12. ASSUME NEW s \in Slots, crash(s) PROVE \A u \in Slots : Tells(u)
  BY <1>7, <1>12 DEF crash
<1> QED
  BY <1>3, <1>4, <1>5, <1>6, <1>10, <1>11, <1>12, TellsAttack DEF Next

\* The master's table: places and ids stay, nobody comes back to life, and a
\* player dies of a report, of its room's end or of the shutdown
Falls(i) ==
  \/ \E s \in Slots : players[i].id \in Bodies(w2m[s], "ELIMINATED")
  \/ wpc[players[i].room] = "gone"
  \/ master' # "run"

TableMoves ==
  /\ \A i \in DOMAIN players :
       /\ i \in DOMAIN players' /\ players'[i].id = players[i].id
       /\ players'[i].room = players[i].room
       /\ ~players[i].alive => ~players'[i].alive
       /\ ~players'[i].alive => ~players[i].alive \/ Falls(i)
  /\ \A i \in DOMAIN players' : i \notin DOMAIN players =>
       players'[i].alive /\ players'[i].id \in Bodies(w2m[players'[i].room], "JOINED")

LEMMA CountOutEntries ==
  ASSUME NEW ps \in Seq(PlayerRec), NEW D
  PROVE  /\ DOMAIN CountOut(ps, D) = DOMAIN ps
         /\ \A i \in DOMAIN ps : /\ CountOut(ps, D)[i].id = ps[i].id
                                 /\ CountOut(ps, D)[i].room = ps[i].room
                                 /\ i \in D => ~CountOut(ps, D)[i].alive
                                 /\ i \notin D => CountOut(ps, D)[i] = ps[i]
<1>1. PICK r : r = CountOut(ps, D)
  OBVIOUS
<1>2. /\ DOMAIN r = DOMAIN ps
      /\ \A i \in DOMAIN ps : r[i] = IF i \in D THEN [ps[i] EXCEPT !.alive = FALSE] ELSE ps[i]
  BY <1>1 DEF CountOut
<1>3. \A i \in DOMAIN ps : ps[i] \in PlayerRec
  OBVIOUS
<1>4. \A i \in DOMAIN ps : /\ r[i].id = ps[i].id /\ r[i].room = ps[i].room
                           /\ i \in D => ~r[i].alive
                           /\ i \notin D => r[i] = ps[i]
  BY ONLY <1>2, <1>3 DEF PlayerRec
<1> QED
  BY ONLY <1>1, <1>2, <1>4

\* The entries in D are counted out, each for a reason
LEMMA TableFalls ==
  ASSUME players \in Seq(PlayerRec), NEW D, players' = CountOut(players, D),
         \A i \in D : Falls(i)
  PROVE  TableMoves
<1>1. PICK r : r = CountOut(players, D)
  OBVIOUS
<1>2. /\ DOMAIN r = DOMAIN players
      /\ \A i \in DOMAIN players : /\ r[i].id = players[i].id /\ r[i].room = players[i].room
                                   /\ i \in D => ~r[i].alive
                                   /\ i \notin D => r[i] = players[i]
  BY <1>1, CountOutEntries
<1>3. players' = r
  BY <1>1
<1> QED
  BY <1>2, <1>3 DEF TableMoves

LEMMA TableClosing ==
  ASSUME TypeOK, NEW s \in Slots, CloseRoom(s), wpc[s] = "gone" \/ master' # "run"
  PROVE  TableMoves
<1>1. \A i \in LostWith(s) : Falls(i)
  BY DEF LostWith, Falls
<1>2. UNCHANGED players \/ players' = CountOut(players, LostWith(s))
  BY DEF CloseRoom
<1>3. players \in Seq(PlayerRec)
  BY DEF TypeOK
<1> QED
  BY <1>1, <1>2, <1>3, TableFalls DEF TableMoves

LEMMA TableJoined ==
  ASSUME TypeOK, NEW s \in Slots, handle_joined(s)
  PROVE  TableMoves
<1>1. PICK x, e : x = Head(w2m[s]).body /\ e = [id |-> x, room |-> s, alive |-> TRUE]
  OBVIOUS
<1>2. players' = players \/ players' = Append(players, e)
  BY <1>1 DEF handle_joined, add_player
<1>3. w2m[s] \in Seq(ToMaster) /\ w2m[s] # <<>> /\ Head(w2m[s]).type = "JOINED"
  BY DEF handle_joined, Incoming, TypeOK
<1>4. x \in Bodies(w2m[s], "JOINED")
  BY <1>1, <1>3, BodiesTail
<1>5. e.id = x /\ e.room = s /\ e.alive
  BY <1>1
<1>6. PICK q : q = players /\ q \in Seq(PlayerRec)
  BY DEF TypeOK
<1>7. CASE players' = Append(players, e)
  <2>1. PICK r : r = Append(q, e)
    OBVIOUS
  <2>2. /\ Len(q) \in Nat /\ DOMAIN q = 1..Len(q) /\ DOMAIN r = 1..(Len(q) + 1)
        /\ r[Len(q) + 1] = e /\ \A i \in 1..Len(q) : r[i] = q[i]
    BY ONLY <1>6, <2>1
  <2>3. \A i \in DOMAIN r : i \notin DOMAIN q => r[i] = e
    BY <2>2
  <2>4. \A i \in DOMAIN q : i \in DOMAIN r /\ r[i] = q[i]
    BY <2>2
  <2>5. players' = r /\ players = q
    BY <1>6, <1>7, <2>1
  <2> QED
    BY <1>4, <1>5, <2>3, <2>4, <2>5 DEF TableMoves
<1>8. CASE players' = players
  BY <1>8 DEF TableMoves
<1> QED
  BY <1>2, <1>7, <1>8

LEMMA TableStep ==
  ASSUME TypeOK, [Next]_vars
  PROVE  TableMoves
<1>0. players \in Seq(PlayerRec)
  BY DEF TypeOK
<1>1. ASSUME UNCHANGED players PROVE TableMoves
  BY <1>1 DEF TableMoves
<1>2. CASE UNCHANGED vars \/ press_enter \/ on_sigint \/ loop_exit
  BY <1>1, <1>2 DEF vars, masterVars, press_enter, on_sigint, loop_exit
<1>3. CASE shutdown
  <2>1. CASE Used(rooms) = {}
    BY <1>1, <1>3, <2>1 DEF shutdown
  <2>2. CASE Used(rooms) # {}
    <3>1. PICK s : s = Least(Used(rooms))
      OBVIOUS
    <3>2. s \in Slots /\ CloseRoom(s) /\ master' # "run"
      BY <1>3, <2>2, <3>1, LeastSlot DEF shutdown, Used
    <3> QED
      BY <3>2, TableClosing
  <2> QED
    BY <2>1, <2>2
<1>4. ASSUME NEW c \in Clients,
             accept_client(c) \/ accept_spawn(c) \/ accept_refuse(c) \/ connect_refused(c)
      PROVE  TableMoves
  BY <1>1, <1>4 DEF accept_client, accept_spawn, accept_refuse, connect_refused, masterVars
<1>5. ASSUME NEW s \in Slots, handle_ready(s) \/ handle_attack(s) \/ handle_feed(s) PROVE TableMoves
  BY <1>1, <1>5 DEF handle_ready, handle_attack, handle_feed, masterVars
<1>6. ASSUME NEW s \in Slots, hub_closed(s) PROVE TableMoves
  BY <1>6, TableClosing DEF hub_closed
<1>7. ASSUME NEW s \in Slots, handle_eliminated(s) PROVE TableMoves
  <2>1. PICK x, D : x = Head(w2m[s]).body /\ D = Entries(players, x)
    OBVIOUS
  <2>2. players' = CountOut(players, D)
    BY <1>7, <2>1 DEF handle_eliminated
  <2>3. w2m[s] \in Seq(ToMaster) /\ w2m[s] # <<>> /\ Head(w2m[s]).type = "ELIMINATED"
    BY <1>7 DEF handle_eliminated, Incoming, TypeOK
  <2>4. x \in Bodies(w2m[s], "ELIMINATED")
    BY <2>1, <2>3, BodiesTail
  <2>5. \A i \in D : Falls(i)
    BY <2>1, <2>4 DEF Entries, Falls
  <2> QED
    BY <1>0, <2>2, <2>5, TableFalls
<1>8. ASSUME NEW s \in Slots,
             \/ WorkerSteps(s) \/ tick_attack(s) \/ crash(s) \/ hub_reset(s)
             \/ handshake_done(s) \/ handshake_fail(s) \/ \E c \in Clients : lobby_accept(s, c)
      PROVE  TableMoves
  <2>1. UNCHANGED masterVars
    BY <1>8 DEF WorkerSteps, bind_port, lobby_poll, lobby_drain, lobby_start, lobby_eof, tick, tick_over,
                room_exit, tick_attack, crash, hub_reset, handshake_done, handshake_fail, lobby_accept
  <2> QED
    BY <1>1, <2>1 DEF masterVars
<1> QED
  BY <1>2, <1>3, <1>4, <1>5, <1>6, <1>7, <1>8, TableJoined DEF Next, MasterHandles

\* Everything the hub and the table of slot s say is about somebody whom that
\* slot's worker accepted: the id is spent, and seated nowhere else
Listed(s) == {players[i].id : i \in {j \in DOMAIN players : players[j].room = s}}
Told(s) == Bodies(w2m[s], "JOINED") \cup Bodies(w2m[s], "ELIMINATED") \cup Listed(s)
At(x, s) == x \in Nat /\ Issued(x) /\ \A t \in Slots : x \in Seated(t) => t = s

Placed == \A s \in Slots : \A x \in Told(s) : At(x, s)

LEMMA SeatedAt ==
  ASSUME TypeOK, Roll, NEW s \in Slots, NEW x \in Seated(s)
  PROVE  At(x, s)
<1>1. conn[s] \in Seq(Nat) /\ handshake[s] \in Nat
  BY DEF TypeOK
<1>2. x \in Nat
  BY <1>1 DEF Seated, Ids
<1> QED
  BY <1>2 DEF Roll, At

\* The owner of a board is on the list
LEMMA BoardSeated ==
  ASSUME TypeOK, SitInv, NEW s \in Slots, NEW j \in DOMAIN session[s]
  PROVE  j \in DOMAIN conn[s] /\ session[s][j].id = conn[s][j] /\ session[s][j].id \in Seated(s)
<1>1. Sits(s) /\ conn[s] \in Seq(Nat) /\ session[s] \in Seq(PlayerSlot)
  BY DEF SitInv, TypeOK
<1>2. Len(session[s]) <= Len(conn[s]) /\ session[s][j].id = conn[s][j]
  BY <1>1 DEF Sits
<1>3. /\ Len(session[s]) \in Nat /\ Len(conn[s]) \in Nat /\ DOMAIN session[s] = 1..Len(session[s])
      /\ DOMAIN conn[s] = 1..Len(conn[s])
  BY <1>1
<1>4. j \in DOMAIN conn[s]
  BY ONLY <1>2, <1>3, j \in DOMAIN session[s]
<1> QED
  BY <1>2, <1>4 DEF Seated, Ids

LEMMA ToldGrows ==
  ASSUME TypeOK, SitInv, [Next]_vars, NEW s \in Slots, NEW x \in Told(s)'
  PROVE  x \in Told(s) \/ x \in Seated(s)
<1>1. Tells(s) /\ TableMoves
  BY TellsStep, TableStep
<1>2. CASE x \in Bodies(w2m'[s], "JOINED")
  BY <1>1, <1>2 DEF Tells, NewOf, Told, Seated
<1>3. CASE x \in Bodies(w2m'[s], "ELIMINATED")
  <2>1. CASE x \in NewOf(s, "ELIMINATED")
    <3>1. PICK d \in Playing(session[s]) : x = session[s][d].id
      BY <1>1, <2>1 DEF Tells
    <3>2. d \in DOMAIN session[s]
      BY DEF Playing
    <3> QED
      BY <3>1, <3>2, BoardSeated
  <2> QED
    BY <1>3, <2>1 DEF NewOf, Told
<1>4. CASE x \in Listed(s)'
  <2>1. PICK i \in DOMAIN players' : players'[i].room = s /\ players'[i].id = x
    BY <1>4 DEF Listed
  <2> QED
    BY <1>1, <2>1 DEF TableMoves, Told, Listed
<1> QED
  BY <1>2, <1>3, <1>4 DEF Told

LEMMA PlaceStep ==
  ASSUME TypeOK, TypeOK', SitInv, Roll, WinInv, Placed, [Next]_vars, NoLateComer \/ UNCHANGED vars
  PROVE  Placed'
<1>1. /\ StillIssued
      /\ \A t \in Slots : \A x \in Seated(t)' : x \in Seated(t) \/ ~Issued(x)
  BY RollStep
<1>2. ASSUME NEW s \in Slots, NEW x \in Told(s)' PROVE At(x, s)'
  <2>1. At(x, s)
    BY <1>2, ToldGrows, SeatedAt DEF Placed
  <2>2. x \in Nat /\ Issued(x) /\ \A t \in Slots : x \in Seated(t) => t = s
    BY <2>1 DEF At
  <2>3. Issued(x)' /\ \A t \in Slots : x \in Seated(t)' => t = s
    BY <1>1, <2>2 DEF StillIssued
  <2> QED
    BY <2>2, <2>3 DEF At
<1> QED
  BY <1>2 DEF Placed

\* A game goes on only where it went on, or where a lobby has just ended, and a
\* lobby opens only on a new port
BoardMoves(s) ==
  \A j \in Playing(session'[s]) :
    \/ j \in Playing(session[s]) /\ session'[s][j].id = session[s][j].id
    \/ Accepting(s) /\ session'[s][j].id \in Ids(conn[s])

DoorMoves(s) == Accepting(s)' => Accepting(s) \/ wpc[s] = "init"

LEMMA BoardStill ==
  ASSUME NEW s, session'[s] = session[s] \/ session'[s] = <<>>
  PROVE  BoardMoves(s)
<1>1. CASE session'[s] = session[s]
  BY <1>1 DEF BoardMoves
<1>2. CASE session'[s] = <<>>
  BY <1>2 DEF BoardMoves, Playing
<1> QED
  BY <1>1, <1>2

LEMMA BoardWorker ==
  ASSUME TypeInd, NEW s \in Slots,
         \/ WorkerSteps(s) \/ tick_attack(s) \/ crash(s) \/ hub_reset(s)
         \/ handshake_done(s) \/ handshake_fail(s) \/ \E c \in Clients : lobby_accept(s, c)
  PROVE  \A t \in Slots : BoardMoves(t) /\ DoorMoves(t)
<1>0. /\ wpc \in [Slots -> WorkerPc] /\ conn \in [Slots -> Seq(Nat)]
      /\ session \in [Slots -> Seq(PlayerSlot)] /\ TypeOK /\ LobbyWithinList
  BY DEF TypeInd, TypeOK
<1>1. CASE room_exit(s) \/ lobby_eof(s) \/ crash(s)
  <2>1. wpc' = [wpc EXCEPT ![s] = "gone"] /\ session' = [session EXCEPT ![s] = <<>>]
    BY <1>1 DEF room_exit, lobby_eof, crash, Vanish
  <2>2. /\ \A t \in Slots : session'[t] = session[t] \/ session'[t] = <<>>
        /\ \A t \in Slots : wpc'[t] = wpc[t] \/ wpc'[t] = "gone"
    BY ONLY <1>0, <2>1
  <2> QED
    BY <2>2, BoardStill DEF DoorMoves, Accepting
<1>2. CASE hub_reset(s) \/ handshake_done(s) \/ handshake_fail(s) \/ \E c \in Clients : lobby_accept(s, c)
  <2>1. UNCHANGED <<wpc, session>>
    BY <1>2 DEF hub_reset, handshake_done, handshake_fail, lobby_accept, workerVars, gameVars
  <2> QED
    BY <2>1, BoardStill DEF DoorMoves, Accepting
<1>3. CASE bind_port(s) \/ lobby_poll(s) \/ lobby_drain(s)
  <2>1. /\ UNCHANGED session /\ wpc[s] \in {"init", "poll", "drain"}
        /\ \E p : wpc' = [wpc EXCEPT ![s] = p]
    BY <1>3 DEF bind_port, lobby_poll, lobby_drain, gameVars
  <2>2. \A t \in Slots \ {s} : wpc'[t] = wpc[t]
    BY <2>1, <1>0
  <2> QED
    BY <2>1, <2>2, BoardStill DEF DoorMoves, Accepting
<1>4. CASE tick(s) \/ tick_over(s) \/ tick_attack(s)
  <2>1. /\ SameGame(s) /\ \A t \in Slots \ {s} : session'[t] = session[t]
        /\ \A t \in Slots \ {s} : wpc'[t] = wpc[t]
        /\ wpc[s] = "run" /\ wpc'[s] \in {"run", "over"}
    BY <1>0, <1>4, TickSame
  <2>2. BoardMoves(s)
    BY <2>1 DEF SameGame, BoardMoves, Playing
  <2> QED
    BY <2>1, <2>2, BoardStill DEF DoorMoves, Accepting
<1>5. CASE lobby_start(s)
  <2>1. /\ wpc[s] = "drain" /\ wpc' = [wpc EXCEPT ![s] = "run"]
        /\ session' = [session EXCEPT ![s] =
             [i \in 1..lobby[s].size |-> [id |-> conn[s][i], state |-> "alive"]]]
    BY <1>5 DEF lobby_start
  <2>2. wpc'[s] = "run" /\ \A t \in Slots \ {s} : wpc'[t] = wpc[t] /\ session'[t] = session[t]
    BY ONLY <1>0, <2>1
  <2>3. PICK k \in Nat : k = lobby[s].size /\ k <= Len(conn[s])
    BY <1>0 DEF LobbyWithinList, TypeOK, LobbyRec
  <2>4. PICK r : r = [i \in 1..k |-> [id |-> conn[s][i], state |-> "alive"]]
    OBVIOUS
  <2>5. session'[s] = r
    BY ONLY <1>0, <2>1, <2>3, <2>4, s \in Slots
  <2>6. DOMAIN r = 1..k /\ \A j \in 1..k : r[j].id = conn[s][j]
    BY ONLY <2>4
  <2>7. \A j \in 1..k : j \in DOMAIN conn[s]
    BY <1>0, <2>3
  <2>8. BoardMoves(s)
    BY <2>1, <2>5, <2>6, <2>7 DEF BoardMoves, Playing, Accepting, Ids
  <2> QED
    BY <2>1, <2>2, <2>8, BoardStill DEF DoorMoves, Accepting
<1> QED
  BY <1>1, <1>2, <1>3, <1>4, <1>5 DEF WorkerSteps

LEMMA BoardStep ==
  ASSUME TypeInd, [Next]_vars
  PROVE  /\ \A s \in Slots : BoardMoves(s) /\ DoorMoves(s)
         /\ master' = "run" => master = "run"
<1>0. wpc \in [Slots -> WorkerPc]
  BY DEF TypeInd, TypeOK
<1>1. ASSUME UNCHANGED <<wpc, session>> PROVE \A s \in Slots : BoardMoves(s) /\ DoorMoves(s)
  BY <1>1, BoardStill DEF DoorMoves, Accepting
<1>2. CASE UNCHANGED vars \/ press_enter \/ on_sigint \/ loop_exit \/ shutdown
  BY <1>1, <1>2 DEF vars, workerVars, gameVars, masterVars, press_enter, on_sigint, loop_exit, shutdown
<1>3. ASSUME NEW c \in Clients, accept_client(c) \/ accept_refuse(c) \/ connect_refused(c)
      PROVE  (\A s \in Slots : BoardMoves(s) /\ DoorMoves(s)) /\ UNCHANGED master
  BY <1>1, <1>3 DEF accept_client, accept_refuse, connect_refused, masterVars, workerVars, gameVars
<1>4. ASSUME NEW c \in Clients, accept_spawn(c)
      PROVE  (\A s \in Slots : BoardMoves(s) /\ DoorMoves(s)) /\ UNCHANGED master
  <2>1. PICK s : wpc' = [wpc EXCEPT ![s] = "init"] /\ UNCHANGED <<session, master>>
    BY <1>4 DEF accept_spawn, gameVars
  <2>2. \A t \in Slots : wpc'[t] = wpc[t] \/ wpc'[t] = "init"
    BY ONLY <1>0, <2>1
  <2> QED
    BY <2>1, <2>2, BoardStill DEF DoorMoves, Accepting
<1>5. ASSUME NEW s \in Slots, MasterHandles(s)
      PROVE  (\A t \in Slots : BoardMoves(t) /\ DoorMoves(t)) /\ UNCHANGED master
  <2>1. UNCHANGED <<wpc, session, master>>
    BY <1>5 DEF MasterHandles, handle_ready, handle_joined, handle_eliminated, handle_attack,
                handle_feed, hub_closed, masterVars, workerVars, gameVars
  <2> QED
    BY <1>1, <2>1
<1>6. ASSUME NEW s \in Slots,
             \/ WorkerSteps(s) \/ tick_attack(s) \/ crash(s) \/ hub_reset(s)
             \/ handshake_done(s) \/ handshake_fail(s) \/ \E c \in Clients : lobby_accept(s, c)
      PROVE  (\A t \in Slots : BoardMoves(t) /\ DoorMoves(t)) /\ UNCHANGED master
  <2>1. UNCHANGED masterVars
    BY <1>6 DEF WorkerSteps, bind_port, lobby_poll, lobby_drain, lobby_start, lobby_eof, tick, tick_over,
                room_exit, tick_attack, crash, hub_reset, handshake_done, handshake_fail, lobby_accept
  <2> QED
    BY <1>6, <2>1, BoardWorker DEF masterVars
<1>7. CASE UNCHANGED vars \/ press_enter \/ on_sigint \/ loop_exit \/ shutdown
  <2>1. master' = "run" => master = "run"
    BY <1>7 DEF vars, masterVars, press_enter, on_sigint, loop_exit, shutdown
  <2> QED
    BY <1>2, <1>7, <2>1
<1> QED
  BY <1>3, <1>4, <1>5, <1>6, <1>7 DEF Next

\* Whoever is dead in the table, or reported dead, waits and plays nowhere
Safe(x) == \A s \in Slots : /\ x \in Seated(s) => ~Accepting(s)
                            /\ \A j \in Playing(session[s]) : session[s][j].id # x

Doomed(x) == \/ \E s \in Slots : x \in Bodies(w2m[s], "ELIMINATED")
             \/ master = "run" /\ \E i \in DOMAIN players : players[i].id = x /\ ~players[i].alive

Dead == \A x : Doomed(x) => Safe(x)

LEMMA DoomedAt ==
  ASSUME TypeOK, Placed, NEW x, Doomed(x)
  PROVE  Issued(x)
<1>1. CASE \E s \in Slots : x \in Bodies(w2m[s], "ELIMINATED")
  BY <1>1 DEF Placed, Told, At
<1>2. ASSUME NEW i \in DOMAIN players, players[i].id = x PROVE Issued(x)
  <2>1. players[i].room \in Slots
    BY EntryTypes DEF TypeOK
  <2>2. x \in Listed(players[i].room)
    BY <1>2 DEF Listed
  <2> QED
    BY <2>1, <2>2 DEF Placed, Told, At
<1> QED
  BY <1>1, <1>2 DEF Doomed

LEMMA SafeKept ==
  ASSUME TypeInd, SitInv, [Next]_vars, NEW x, Issued(x), Safe(x),
         \A t \in Slots : \A y \in Seated(t)' : y \in Seated(t) \/ ~Issued(y)
  PROVE  Safe(x)'
<1>1. \A s \in Slots : BoardMoves(s) /\ DoorMoves(s)
  BY BoardStep
<1>2. ASSUME NEW s \in Slots, x \in Seated(s)' PROVE ~Accepting(s)'
  <2>1. x \in Seated(s) /\ ~Accepting(s)
    BY <1>2 DEF Safe
  <2>2. wpc[s] # "init"
    <3>1. Sits(s)
      BY DEF SitInv
    <3> QED
      BY <2>1, <3>1 DEF Sits, Seated, Ids
  <2> QED
    BY <1>1, <2>1, <2>2 DEF DoorMoves
<1>3. ASSUME NEW s \in Slots, NEW j \in Playing(session'[s]), session'[s][j].id = x PROVE FALSE
  <2>1. CASE j \in Playing(session[s]) /\ session'[s][j].id = session[s][j].id
    BY <1>3, <2>1 DEF Safe
  <2>2. CASE Accepting(s) /\ session'[s][j].id \in Ids(conn[s])
    BY <1>3, <2>2 DEF Safe, Seated
  <2> QED
    BY <1>1, <2>1, <2>2 DEF BoardMoves
<1> QED
  BY <1>2, <1>3 DEF Safe

\* A game that has just ended was its owner's only one
LEMMA SafeNow ==
  ASSUME TypeInd, SitInv, Roll, [Next]_vars, NEW s \in Slots, wpc[s] = "run",
         NEW d \in Playing(session[s]), d \notin Playing(session'[s]), NEW x, x = session[s][d].id,
         \A t \in Slots : \A y \in Seated(t)' : y \in Seated(t) \/ ~Issued(y)
  PROVE  Safe(x)'
<1>0. TypeOK /\ \A t \in Slots : BoardMoves(t) /\ DoorMoves(t)
  BY BoardStep DEF TypeInd
<1>1. d \in DOMAIN session[s]
  BY DEF Playing
<1>2. d \in DOMAIN conn[s] /\ x = conn[s][d] /\ x \in Seated(s)
  BY <1>0, <1>1, BoardSeated
<1>3. Issued(x) /\ \A t \in Slots : x \in Seated(t) => t = s
  BY <1>0, <1>2, SeatedAt DEF At
<1>4. ASSUME NEW t \in Slots, x \in Seated(t)' PROVE ~Accepting(t)'
  <2>1. t = s
    BY <1>3, <1>4
  <2> QED
    BY <1>0, <2>1 DEF DoorMoves, Accepting
<1>5. ASSUME NEW t \in Slots, NEW j \in Playing(session'[t]), session'[t][j].id = x PROVE FALSE
  <2>1. CASE j \in Playing(session[t]) /\ session'[t][j].id = session[t][j].id
    <3>1. j \in DOMAIN session[t]
      BY <2>1 DEF Playing
    <3>2. j \in DOMAIN conn[t] /\ x = conn[t][j] /\ x \in Seated(t)
      BY <1>0, <1>5, <2>1, <3>1, BoardSeated
    <3>3. t = s
      BY <1>3, <3>2
    <3>4. j = d
      BY <1>2, <3>2, <3>3 DEF Roll
    <3> QED
      BY <1>5, <3>3, <3>4
  <2>2. CASE Accepting(t) /\ session'[t][j].id \in Ids(conn[t])
    <3>1. t = s
      BY <1>3, <1>5, <2>2 DEF Seated
    <3> QED
      BY <2>2, <3>1 DEF Accepting
  <2> QED
    BY <1>0, <2>1, <2>2 DEF BoardMoves
<1> QED
  BY <1>4, <1>5 DEF Safe

\* Nobody of a room whose process is gone waits or plays
LEMMA SafeGone ==
  ASSUME TypeOK, SitInv, NEW s \in Slots, wpc[s] = "gone", NEW x, At(x, s)
  PROVE  Safe(x)
<1>1. Seated(s) = {}
  <2>1. Sits(s)
    BY DEF SitInv
  <2> QED
    BY <2>1 DEF Sits, Seated, Ids
<1>2. \A t \in Slots : x \notin Seated(t)
  BY <1>1 DEF At
<1>3. ASSUME NEW t \in Slots, NEW j \in Playing(session[t]), session[t][j].id = x PROVE FALSE
  <2>1. j \in DOMAIN session[t]
    BY DEF Playing
  <2> QED
    BY <1>2, <1>3, <2>1, BoardSeated
<1> QED
  BY <1>2, <1>3 DEF Safe

LEMMA DeadStep ==
  ASSUME TypeInd, TypeOK', SitInv, Roll, WinInv, Placed, Dead, [Next]_vars,
         NoLateComer \/ UNCHANGED vars
  PROVE  Dead'
<1>0. TypeOK
  BY DEF TypeInd
<1>1. /\ StillIssued
      /\ \A t \in Slots : \A y \in Seated(t)' : y \in Seated(t) \/ ~Issued(y)
  BY <1>0, RollStep
<1>2. ASSUME NEW x, Doomed(x) PROVE Safe(x)'
  <2>1. Issued(x) /\ Safe(x)
    BY <1>0, <1>2, DoomedAt DEF Dead
  <2> QED
    BY <1>1, <2>1, SafeKept
<1>3. ASSUME NEW x, NEW s \in Slots, x \in Bodies(w2m'[s], "ELIMINATED") PROVE Safe(x)'
  <2>1. CASE x \in Bodies(w2m[s], "ELIMINATED")
    BY <1>2, <2>1 DEF Doomed
  <2>2. CASE x \notin Bodies(w2m[s], "ELIMINATED")
    <3>1. Tells(s) /\ x \in NewOf(s, "ELIMINATED")
      BY <1>0, <1>3, <2>2, TellsStep DEF NewOf
    <3>2. PICK d \in Playing(session[s]) : x = session[s][d].id /\ d \notin Playing(session'[s])
                                           /\ wpc[s] = "run"
      BY <3>1 DEF Tells
    <3> QED
      BY <1>1, <3>2, SafeNow
  <2> QED
    BY <2>1, <2>2
<1>4. ASSUME NEW x, NEW i \in DOMAIN players', master' = "run", players'[i].id = x, ~players'[i].alive
      PROVE  Safe(x)'
  <2>1. TableMoves /\ master = "run"
    BY <1>0, <1>4, TableStep, BoardStep
  <2>2. i \in DOMAIN players /\ players[i].id = x /\ (~players[i].alive \/ Falls(i))
    BY <1>4, <2>1 DEF TableMoves
  <2>3. CASE ~players[i].alive \/ \E s \in Slots : x \in Bodies(w2m[s], "ELIMINATED")
    BY <1>2, <2>1, <2>2, <2>3 DEF Doomed
  <2>4. CASE wpc[players[i].room] = "gone"
    <3>1. PICK s : s = players[i].room
      OBVIOUS
    <3>2. s \in Slots
      BY <1>0, <2>2, <3>1, EntryTypes DEF TypeOK
    <3>3. x \in Told(s)
      BY <2>2, <3>1 DEF Told, Listed
    <3>4. At(x, s)
      BY <3>2, <3>3 DEF Placed
    <3>5. Safe(x) /\ Issued(x)
      BY <1>0, <2>4, <3>1, <3>2, <3>4, SafeGone DEF At
    <3> QED
      BY <1>1, <3>5, SafeKept
  <2> QED
    BY <1>4, <2>2, <2>3, <2>4 DEF Falls
<1> QED
  BY <1>3, <1>4 DEF Dead, Doomed

\* The report of x's end is in queue q, behind any report of its arrival; or it
\* has been counted and no arrival of x is to come
Pending(q, x) == \E i \in OfType(q, "ELIMINATED") :
                   q[i].body = x /\ \A k \in OfType(q, "JOINED") : q[k].body = x => k < i
Buried(q, ps, x) == /\ x \notin Bodies(q, "JOINED")
                    /\ \A i \in DOMAIN ps : ps[i].id = x => ~ps[i].alive

Mourned(s) ==
  wpc[s] = "run" /\ rooms[s].used =>
    \A j \in DOMAIN session[s] \ Playing(session[s]) :
      Pending(w2m[s], session[s][j].id) \/ Buried(w2m[s], players, session[s][j].id)

LEMMA PendingConcat ==
  ASSUME NEW X, NEW q \in Seq(X), NEW r \in Seq(X), OfType(r, "JOINED") = {}, NEW x
  PROVE  /\ Pending(q, x) => Pending(q \o r, x)
         /\ x \in Bodies(r, "ELIMINATED") => Pending(q \o r, x)
<1>1. PICK z : z = q \o r
  OBVIOUS
<1>2. /\ DOMAIN z = 1..(Len(q) + Len(r)) /\ Len(q) \in Nat /\ Len(r) \in Nat
      /\ DOMAIN q = 1..Len(q) /\ DOMAIN r = 1..Len(r)
  BY <1>1, ConcatProperties
<1>3. \A i \in DOMAIN q : i \in DOMAIN z /\ z[i] = q[i]
  BY <1>1, <1>2, ConcatProperties
<1>4. ASSUME NEW i \in DOMAIN r PROVE i + Len(q) \in DOMAIN z /\ z[i + Len(q)] = r[i]
  <2>1. i + Len(q) > Len(q) /\ i + Len(q) <= Len(q) + Len(r) /\ (i + Len(q)) - Len(q) = i
    BY ONLY <1>2, i \in DOMAIN r
  <2> QED
    BY <1>1, <1>2, <2>1, ConcatProperties
<1>5. ASSUME NEW k \in OfType(z, "JOINED") PROVE k \in OfType(q, "JOINED") /\ z[k] = q[k]
  <2>1. k \in 1..(Len(q) + Len(r)) /\ z[k].type = "JOINED"
    BY <1>2 DEF OfType
  <2>2. CASE k <= Len(q)
    BY <1>2, <1>3, <2>1, <2>2 DEF OfType
  <2>3. CASE k > Len(q)
    <3>1. k - Len(q) \in DOMAIN r /\ (k - Len(q)) + Len(q) = k
      BY ONLY <1>2, <2>1, <2>3
    <3>2. r[k - Len(q)].type = "JOINED"
      BY <1>4, <2>1, <3>1
    <3> QED
      BY <3>1, <3>2 DEF OfType
  <2> QED
    BY <1>2, <2>1, <2>2, <2>3
<1>6. Pending(q, x) => Pending(z, x)
  <2> SUFFICES ASSUME Pending(q, x) PROVE Pending(z, x)
    OBVIOUS
  <2>1. PICK i \in OfType(q, "ELIMINATED") :
          q[i].body = x /\ \A k \in OfType(q, "JOINED") : q[k].body = x => k < i
    BY DEF Pending
  <2>2. i \in OfType(z, "ELIMINATED") /\ z[i].body = x
    BY <1>3, <2>1 DEF OfType
  <2>3. \A k \in OfType(z, "JOINED") : z[k].body = x => k < i
    BY <1>5, <2>1
  <2> QED
    BY <2>2, <2>3 DEF Pending
<1>7. x \in Bodies(r, "ELIMINATED") => Pending(z, x)
  <2> SUFFICES ASSUME x \in Bodies(r, "ELIMINATED") PROVE Pending(z, x)
    OBVIOUS
  <2>1. PICK i \in DOMAIN r : r[i].type = "ELIMINATED" /\ r[i].body = x
    BY DEF Bodies, OfType
  <2>2. i + Len(q) \in OfType(z, "ELIMINATED") /\ z[i + Len(q)].body = x
    BY <1>4, <2>1 DEF OfType
  <2>3. \A k \in OfType(z, "JOINED") : k < i + Len(q)
    <3>1. \A k \in DOMAIN q : k < i + Len(q)
      BY ONLY <1>2, i \in DOMAIN r
    <3> QED
      BY <1>5, <3>1 DEF OfType
  <2> QED
    BY <2>2, <2>3 DEF Pending
<1> QED
  BY <1>1, <1>6, <1>7

\* The head of the queue is read: the report stays pending, or it was the head
\* and no report of an arrival is behind it
LEMMA PendingTail ==
  ASSUME NEW X, NEW q \in Seq(X), q # <<>>, NEW x, Pending(q, x)
  PROVE  \/ Pending(Tail(q), x)
         \/ Head(q).type = "ELIMINATED" /\ Head(q).body = x /\ x \notin Bodies(Tail(q), "JOINED")
<1>1. PICK r : r = Tail(q)
  OBVIOUS
<1>2. /\ Len(q) \in Nat /\ Len(q) >= 1 /\ DOMAIN q = 1..Len(q) /\ DOMAIN r = 1..(Len(q) - 1)
      /\ \A i \in 1..(Len(q) - 1) : r[i] = q[i + 1]
  BY <1>1
<1>3. Head(q) = q[1] /\ 1 \in DOMAIN q
  BY <1>2
<1>4. \A k \in DOMAIN r : k + 1 \in DOMAIN q /\ r[k] = q[k + 1]
  BY <1>2
<1>5. PICK i \in OfType(q, "ELIMINATED") :
        q[i].body = x /\ \A k \in OfType(q, "JOINED") : q[k].body = x => k < i
  BY DEF Pending
<1>6. i \in 1..Len(q)
  BY <1>2 DEF OfType
<1>7. CASE i = 1
  <2>1. ASSUME NEW k \in DOMAIN r, r[k].type = "JOINED", r[k].body = x PROVE FALSE
    <3>1. k + 1 < 1
      BY <1>4, <1>5, <1>7, <2>1 DEF OfType
    <3> QED
      BY <1>2, <3>1
  <2>2. x \notin Bodies(r, "JOINED")
    BY <2>1 DEF Bodies, OfType
  <2> QED
    BY <1>1, <1>3, <1>5, <1>7, <2>2 DEF OfType
<1>8. CASE i # 1
  <2>1. PICK m : m = i - 1
    OBVIOUS
  <2>2. m \in DOMAIN r /\ m + 1 = i
    BY ONLY <1>2, <1>6, <1>8, <2>1
  <2>3. m \in OfType(r, "ELIMINATED") /\ r[m].body = x
    BY <1>4, <1>5, <2>2 DEF OfType
  <2>4. ASSUME NEW k \in OfType(r, "JOINED"), r[k].body = x PROVE k < m
    <3>1. k \in DOMAIN r /\ k + 1 \in OfType(q, "JOINED") /\ q[k + 1].body = x
      BY <1>4, <2>4 DEF OfType
    <3>2. k + 1 < i
      BY <1>5, <3>1
    <3> QED
      BY ONLY <1>2, <2>2, <3>1, <3>2, i \in Nat, <1>6
  <2>5. Pending(r, x)
    BY <2>3, <2>4 DEF Pending
  <2> QED
    BY <1>1, <2>5
<1> QED
  BY <1>7, <1>8

\* What a step does to the hub of a room that goes on playing: nothing, the
\* master reads a message, or the worker reports the games that end
Silent(s) == session'[s] = session[s] /\ w2m'[s] = w2m[s]
ReadOne(s) ==
  /\ session'[s] = session[s]
  /\ w2m[s] # <<>> /\ w2m'[s] = Tail(w2m[s])
  /\ Head(w2m[s]).type = "ELIMINATED" =>
       \A i \in DOMAIN players' : players'[i].id = Head(w2m[s]).body => ~players'[i].alive
Wrote(s) ==
  /\ SameGame(s)
  /\ \E X, r :
       /\ w2m[s] \in Seq(X) /\ r \in Seq(X) /\ w2m'[s] = w2m[s] \o r
       /\ OfType(r, "JOINED") = {}
       /\ \A j \in DOMAIN session[s] :
            j \in Playing(session[s]) /\ j \notin Playing(session'[s]) =>
              session[s][j].id \in Bodies(r, "ELIMINATED")

AirMoves(s) ==
  wpc'[s] = "run" /\ rooms'[s].used =>
    \/ DOMAIN session'[s] \subseteq Playing(session'[s])
    \/ wpc[s] = "run" /\ rooms[s].used /\ (Silent(s) \/ ReadOne(s) \/ Wrote(s))

LEMMA UsedStep ==
  ASSUME TypeOK, [Next]_vars, NEW u \in Slots, rooms'[u].used
  PROVE  rooms[u].used \/ wpc'[u] = "init"
<1>0. rooms \in [Slots -> RoomRec] /\ wpc \in [Slots -> WorkerPc]
  BY DEF TypeOK
<1>1. CASE UNCHANGED rooms
  BY <1>1
<1>2. CASE UNCHANGED vars \/ on_sigint \/ loop_exit
  BY <1>1, <1>2 DEF vars, masterVars, on_sigint, loop_exit
<1>3. ASSUME NEW c \in Clients, accept_refuse(c) \/ connect_refused(c) PROVE rooms[u].used
  BY <1>1, <1>3 DEF accept_refuse, connect_refused, masterVars
<1>4. ASSUME NEW c \in Clients, accept_client(c) PROVE rooms[u].used
  <2>1. PICK s : rooms' = [rooms EXCEPT ![s].redirected = @ + 1]
    BY <1>4 DEF accept_client
  <2>2. \A t \in Slots : rooms'[t].used = rooms[t].used
    BY ONLY <1>0, <2>1 DEF RoomRec
  <2> QED
    BY <2>2
<1>5. ASSUME NEW c \in Clients, accept_spawn(c) PROVE rooms[u].used \/ wpc'[u] = "init"
  <2>1. PICK s, e : rooms' = [rooms EXCEPT ![s] = e] /\ wpc' = [wpc EXCEPT ![s] = "init"]
    BY <1>5 DEF accept_spawn
  <2> QED
    BY <1>0, <2>1
<1>6. CASE press_enter
  <2>1. \A t \in Slots : rooms'[t] = rooms[t] \/ rooms'[t] = [rooms[t] EXCEPT !.started = TRUE]
    BY <1>6 DEF press_enter, start_all_rooms
  <2>2. \A t \in Slots : rooms'[t].used = rooms[t].used
    BY ONLY <1>0, <2>1 DEF RoomRec
  <2> QED
    BY <2>2
<1>7. ASSUME NEW s \in Slots, CloseRoom(s) PROVE rooms[u].used
  <2>1. rooms' = [rooms EXCEPT ![s].used = FALSE]
    BY <1>7 DEF CloseRoom
  <2>2. \A t \in Slots : rooms'[t].used => rooms[t].used
    BY ONLY <1>0, <2>1 DEF RoomRec
  <2> QED
    BY <2>2
<1>8. CASE shutdown
  <2>1. CASE Used(rooms) = {}
    BY <1>1, <1>8, <2>1 DEF shutdown
  <2>2. CASE Used(rooms) # {}
    <3>1. PICK s : s = Least(Used(rooms))
      OBVIOUS
    <3>2. s \in Slots /\ CloseRoom(s)
      BY <1>8, <2>2, <3>1, LeastSlot DEF shutdown, Used
    <3> QED
      BY <1>7, <3>2
  <2> QED
    BY <2>1, <2>2
<1>9. ASSUME NEW s \in Slots, MasterHandles(s) PROVE rooms[u].used
  <2>1. CASE handle_joined(s)
    BY <1>0, <2>1, JoinedSame
  <2>2. CASE handle_ready(s)
    <3>1. rooms' = [rooms EXCEPT ![s].ready = TRUE]
      BY <2>2 DEF handle_ready
    <3>2. \A t \in Slots : rooms'[t].used = rooms[t].used
      BY ONLY <1>0, <3>1 DEF RoomRec
    <3> QED
      BY <3>2
  <2>3. CASE handle_eliminated(s) \/ handle_attack(s) \/ handle_feed(s)
    BY <1>1, <2>3 DEF handle_eliminated, handle_attack, handle_feed, masterVars
  <2> QED
    BY <1>7, <1>9, <2>1, <2>2, <2>3 DEF MasterHandles, hub_closed
<1>10. ASSUME NEW s \in Slots,
              \/ WorkerSteps(s) \/ tick_attack(s) \/ crash(s) \/ hub_reset(s)
              \/ handshake_done(s) \/ handshake_fail(s) \/ \E c \in Clients : lobby_accept(s, c)
       PROVE  rooms[u].used
  <2>1. UNCHANGED masterVars
    BY <1>10 DEF WorkerSteps, bind_port, lobby_poll, lobby_drain, lobby_start, lobby_eof, tick, tick_over,
                room_exit, tick_attack, crash, hub_reset, handshake_done, handshake_fail, lobby_accept
  <2> QED
    BY <1>1, <2>1 DEF masterVars
<1> QED
  BY <1>2, <1>3, <1>4, <1>5, <1>6, <1>8, <1>9, <1>10 DEF Next

LEMMA WroteTick ==
  ASSUME TypeOK, NEW s \in Slots, rooms[s].used, SameGame(s),
         NEW d \in {0} \cup Playing(session[s]),
         NEW how \in {"topped", "quit"}, session' = [session EXCEPT ![s] = After(s, d, how)],
         NEW X, w2m \in [Slots -> Seq(X)], NEW e, e = Eliminated(s, d), NEW rest, NEW msgs,
         e \in Seq(X), rest \in Seq(X), msgs = e \/ msgs = e \o rest, Report(s, msgs),
         Bodies(rest, "JOINED") = {}
  PROVE  Wrote(s)
<1>1. msgs \in Seq(X)
  <2>1. CASE msgs = e
    BY ONLY <2>1, e \in Seq(X)
  <2>2. CASE msgs = e \o rest
    BY ONLY <2>2, e \in Seq(X), rest \in Seq(X)
  <2> QED
    BY ONLY <2>1, <2>2, msgs = e \/ msgs = e \o rest
<1>2. ASSUME NEW t PROVE Bodies(e \o rest, t) = Bodies(e, t) \cup Bodies(rest, t)
  BY ONLY e \in Seq(X), rest \in Seq(X), BodiesConcat
<1>3. Bodies(e, "JOINED") = {}
  <2>1. CASE d = 0
    BY <2>1, BodiesNothing DEF Eliminated
  <2>2. CASE d # 0
    BY <2>2 DEF Eliminated, Bodies, OfType, Msg
  <2> QED
    BY <2>1, <2>2
<1>4. d # 0 => session[s][d].id \in Bodies(e, "ELIMINATED")
  BY DEF Eliminated, Bodies, OfType, Msg
<1>5. Bodies(msgs, "JOINED") = {} /\ (d # 0 => session[s][d].id \in Bodies(msgs, "ELIMINATED"))
  <2>1. CASE msgs = e
    BY <1>3, <1>4, <2>1
  <2>2. CASE msgs = e \o rest
    BY <1>2, <1>3, <1>4, <2>2
  <2> QED
    BY <2>1, <2>2
<1>6. OfType(msgs, "JOINED") = {}
  BY <1>5 DEF Bodies
<1>7. w2m'[s] = w2m[s] \o msgs /\ w2m[s] \in Seq(X)
  BY DEF Report
<1>8. \A j \in DOMAIN session[s] :
        /\ After(s, d, how)[j].id = session[s][j].id
        /\ j = d => After(s, d, how)[j].state = how
        /\ j # d => After(s, d, how)[j] = session[s][j]
  BY AfterSame
<1>9. session'[s] = After(s, d, how)
  BY DEF TypeOK
<1>10. ASSUME NEW j \in DOMAIN session[s], j \in Playing(session[s]), j \notin Playing(session'[s])
       PROVE  session[s][j].id \in Bodies(msgs, "ELIMINATED")
  <2>1. j = d
    <3>1. j \in DOMAIN session'[s]
      BY <1>10 DEF SameGame
    <3> QED
      BY <1>8, <1>9, <1>10, <3>1 DEF Playing
  <2>2. d # 0
    <3>1. session[s] \in Seq(PlayerSlot)
      BY DEF TypeOK
    <3>2. j \in 1..Len(session[s]) /\ Len(session[s]) \in Nat
      BY <1>10, <3>1
    <3> QED
      BY <2>1, <3>2
  <2> QED
    BY <1>5, <2>1, <2>2
<1> QED
  BY <1>1, <1>6, <1>7, <1>10 DEF Wrote

LEMMA AirAttack ==
  ASSUME TypeOK, NEW s \in Slots, tick_attack(s), rooms[s].used
  PROVE  Wrote(s)
<1>1. PICK d \in {0} \cup Playing(session[s]), how \in {"topped", "quit"} : \E a, v :
        /\ session' = [session EXCEPT ![s] = After(s, d, how)]
        /\ LET att == [n |-> attacks + 1, from |-> session[s][a].id, to |-> v]
           IN \/ Report(s, Eliminated(s, d) \o <<Msg("FEED", att)>>)
              \/ Report(s, Eliminated(s, d) \o <<Msg("ATTACK", att), Msg("FEED", att)>>)
              \/ Report(s, Eliminated(s, d))
  BY AttackRoutes
<1>2. PICK A, F : /\ session' = [session EXCEPT ![s] = After(s, d, how)]
                  /\ \E att : A = Msg("ATTACK", att) /\ F = Msg("FEED", att)
                  /\ \/ Report(s, Eliminated(s, d) \o <<F>>)
                     \/ Report(s, Eliminated(s, d) \o <<A, F>>)
                     \/ Report(s, Eliminated(s, d))
  BY ONLY <1>1, Zenon
<1>3. PICK e, E : e = Eliminated(s, d) /\ E = Msg("ELIMINATED", session[s][d].id)
  OBVIOUS
<1>4. A.type = "ATTACK" /\ F.type = "FEED" /\ (e = <<>> \/ e = <<E>>)
  BY <1>2, <1>3 DEF Msg, Eliminated
<1>5. PICK X : X = ToMaster \cup {A, F, E}
  OBVIOUS
<1>6. A \in X /\ F \in X /\ E \in X /\ ToMaster \subseteq X
  BY <1>5
<1>7. w2m \in [Slots -> Seq(X)]
  <2>1. Seq(ToMaster) \subseteq Seq(X)
    BY <1>6
  <2> QED
    BY <2>1 DEF TypeOK
<1>8. <<>> \in Seq(X) /\ <<E>> \in Seq(X) /\ <<F>> \in Seq(X) /\ <<A, F>> \in Seq(X)
  BY <1>6
<1>9. PICK r, q : r = <<F>> /\ q = <<A, F>>
  OBVIOUS
<1>10. Bodies(r, "JOINED") = {} /\ Bodies(q, "JOINED") = {}
  BY <1>4, <1>9 DEF Bodies, OfType
<1>11. PICK msgs : Report(s, msgs) /\ (msgs = e \/ msgs = e \o r \/ msgs = e \o q)
  BY <1>2, <1>3, <1>9
<1>12. e \in Seq(X) /\ r \in Seq(X) /\ q \in Seq(X)
  BY <1>4, <1>8, <1>9
<1>13. SameGame(s)
  BY TickSame
<1>14. CASE msgs = e \/ msgs = e \o r
  BY <1>2, <1>3, <1>7, <1>10, <1>11, <1>12, <1>13, <1>14, WroteTick
<1>15. CASE msgs = e \o q
  BY <1>2, <1>3, <1>7, <1>10, <1>11, <1>12, <1>13, <1>15, WroteTick
<1> QED
  BY <1>11, <1>14, <1>15

LEMMA AirTick ==
  ASSUME TypeOK, NEW s \in Slots, tick(s), rooms[s].used
  PROVE  Wrote(s)
<1>1. PICK d \in {0} \cup Playing(session[s]), how \in {"topped", "quit"} :
        /\ session' = [session EXCEPT ![s] = After(s, d, how)]
        /\ Report(s, Eliminated(s, d))
  BY DEF tick
<1>2. PICK e, E, X : /\ e = Eliminated(s, d) /\ E = Msg("ELIMINATED", session[s][d].id)
                     /\ X = ToMaster \cup {E}
  OBVIOUS
<1>3. (e = <<>> \/ e = <<E>>) /\ E \in X /\ ToMaster \subseteq X
  BY <1>2 DEF Eliminated
<1>4. w2m \in [Slots -> Seq(X)]
  <2>1. Seq(ToMaster) \subseteq Seq(X)
    BY <1>3
  <2> QED
    BY <2>1 DEF TypeOK
<1>5. <<>> \in Seq(X) /\ <<E>> \in Seq(X)
  BY <1>3
<1>6. PICK r : r = <<>>
  OBVIOUS
<1>7. e \in Seq(X) /\ r \in Seq(X) /\ Bodies(r, "JOINED") = {}
  BY <1>3, <1>5, <1>6, BodiesNothing
<1>8. SameGame(s)
  BY TickSame
<1> QED
  BY <1>1, <1>2, <1>4, <1>7, <1>8, WroteTick

LEMMA AirMaster ==
  ASSUME TypeOK, [Next]_vars, NEW s \in Slots, MasterHandles(s)
  PROVE  \A u \in Slots : AirMoves(u)
<1>0. w2m \in [Slots -> Seq(ToMaster)] /\ players \in Seq(PlayerRec)
  BY DEF TypeOK
<1>1. UNCHANGED <<wpc, session>>
  BY DEF MasterHandles, handle_ready, handle_joined, handle_eliminated, handle_attack,
         handle_feed, hub_closed, workerVars, gameVars
<1>2. ASSUME NEW u \in Slots, Silent(u) \/ ReadOne(u) PROVE AirMoves(u)
  BY <1>1, <1>2, UsedStep DEF AirMoves
<1>3. CASE hub_closed(s)
  BY <1>1, <1>2, <1>3 DEF hub_closed, Silent
<1>4. ASSUME NEW k, Incoming(s, k),
             k = "ELIMINATED" =>
               \A i \in DOMAIN players' : players'[i].id = Head(w2m[s]).body => ~players'[i].alive
      PROVE  \A u \in Slots : AirMoves(u)
  <2>1. w2m[s] # <<>> /\ w2m' = [w2m EXCEPT ![s] = Tail(@)] /\ Head(w2m[s]).type = k
    BY <1>4 DEF Incoming
  <2>2. w2m'[s] = Tail(w2m[s]) /\ \A u \in Slots \ {s} : w2m'[u] = w2m[u]
    BY ONLY <1>0, <2>1, s \in Slots
  <2>3. ReadOne(s)
    BY <1>1, <1>4, <2>1, <2>2 DEF ReadOne
  <2>4. \A u \in Slots \ {s} : Silent(u)
    BY <1>1, <2>2 DEF Silent
  <2> QED
    BY <1>2, <2>3, <2>4
<1>5. CASE handle_eliminated(s)
  <2>1. PICK x, D : x = Head(w2m[s]).body /\ D = Entries(players, x)
    OBVIOUS
  <2>2. players' = CountOut(players, D)
    BY <1>5, <2>1 DEF handle_eliminated
  <2>3. PICK r : r = CountOut(players, D)
    OBVIOUS
  <2>4. /\ DOMAIN r = DOMAIN players
        /\ \A i \in DOMAIN players : /\ r[i].id = players[i].id /\ r[i].room = players[i].room
                                     /\ i \in D => ~r[i].alive
                                     /\ i \notin D => r[i] = players[i]
    BY <1>0, <2>3, CountOutEntries
  <2>5. \A i \in DOMAIN players' : players'[i].id = x => ~players'[i].alive
    BY <2>1, <2>2, <2>3, <2>4 DEF Entries
  <2> QED
    BY <1>4, <1>5, <2>1, <2>5 DEF handle_eliminated
<1>6. CASE handle_ready(s) \/ handle_joined(s) \/ handle_attack(s) \/ handle_feed(s)
  BY <1>4, <1>6 DEF handle_ready, handle_joined, handle_attack, handle_feed
<1> QED
  BY <1>3, <1>5, <1>6 DEF MasterHandles

LEMMA AirWorker ==
  ASSUME TypeInd, NEW s \in Slots,
         \/ WorkerSteps(s) \/ tick_attack(s) \/ crash(s) \/ hub_reset(s)
         \/ handshake_done(s) \/ handshake_fail(s) \/ \E c \in Clients : lobby_accept(s, c)
  PROVE  \A u \in Slots : AirMoves(u)
<1>0. /\ wpc \in [Slots -> WorkerPc] /\ session \in [Slots -> Seq(PlayerSlot)]
      /\ w2m \in [Slots -> Seq(ToMaster)] /\ lobby \in [Slots -> LobbyRec] /\ TypeOK
  BY DEF TypeInd, TypeOK
<1>1. UNCHANGED rooms
  BY DEF WorkerSteps, bind_port, lobby_poll, lobby_drain, lobby_start, lobby_eof, tick, tick_over,
         room_exit, tick_attack, crash, hub_reset, handshake_done, handshake_fail, lobby_accept, masterVars
<1>2. CASE hub_reset(s) \/ handshake_done(s) \/ handshake_fail(s) \/ \E c \in Clients : lobby_accept(s, c)
  <2>1. UNCHANGED <<wpc, session, w2m>>
    BY <1>2 DEF hub_reset, handshake_done, handshake_fail, lobby_accept, workerVars, gameVars
  <2> QED
    BY <1>1, <2>1 DEF AirMoves, Silent
<1>3. ASSUME \A u \in Slots \ {s} : wpc'[u] = wpc[u] /\ session'[u] = session[u] /\ w2m'[u] = w2m[u]
      PROVE  \A u \in Slots \ {s} : AirMoves(u)
  BY <1>1, <1>3 DEF AirMoves, Silent
<1>4. ASSUME NEW msgs, Report(s, msgs) PROVE \A u \in Slots \ {s} : w2m'[u] = w2m[u]
  BY <1>0, <1>4 DEF Report
<1>5. CASE room_exit(s) \/ lobby_eof(s) \/ crash(s)
  <2>1. /\ wpc' = [wpc EXCEPT ![s] = "gone"] /\ session' = [session EXCEPT ![s] = <<>>]
        /\ w2m' = w2m \/ w2m' = [w2m EXCEPT ![s] = <<>>]
    BY <1>5 DEF room_exit, lobby_eof, crash, Vanish
  <2>2. \A u \in Slots \ {s} : wpc'[u] = wpc[u] /\ session'[u] = session[u] /\ w2m'[u] = w2m[u]
    BY ONLY <1>0, <2>1
  <2>3. AirMoves(s)
    BY <1>0, <2>1 DEF AirMoves
  <2> QED
    BY <1>3, <2>2, <2>3
<1>6. CASE bind_port(s) \/ lobby_poll(s) \/ lobby_drain(s)
  <2>1. /\ UNCHANGED session /\ \E p \in {"poll", "drain"} : wpc' = [wpc EXCEPT ![s] = p]
        /\ w2m' = w2m \/ \E msgs : Report(s, msgs)
    BY <1>6 DEF bind_port, lobby_poll, lobby_drain, gameVars
  <2>2. wpc'[s] # "run" /\ \A u \in Slots \ {s} : wpc'[u] = wpc[u] /\ session'[u] = session[u]
    BY <1>0, <2>1
  <2>3. \A u \in Slots \ {s} : w2m'[u] = w2m[u]
    BY <1>4, <2>1
  <2>4. AirMoves(s)
    BY <2>2 DEF AirMoves
  <2> QED
    BY <1>3, <2>2, <2>3, <2>4
<1>7. CASE lobby_start(s)
  <2>1. /\ UNCHANGED w2m /\ wpc' = [wpc EXCEPT ![s] = "run"]
        /\ session' = [session EXCEPT ![s] =
             [i \in 1..lobby[s].size |-> [id |-> conn[s][i], state |-> "alive"]]]
    BY <1>7 DEF lobby_start
  <2>2. \A u \in Slots \ {s} : wpc'[u] = wpc[u] /\ session'[u] = session[u] /\ w2m'[u] = w2m[u]
    BY ONLY <1>0, <2>1
  <2>3. PICK r : r = [i \in 1..lobby[s].size |-> [id |-> conn[s][i], state |-> "alive"]]
    OBVIOUS
  <2>4. session'[s] = r
    BY ONLY <1>0, <2>1, <2>3, s \in Slots
  <2>5. DOMAIN r \subseteq Playing(r)
    BY ONLY <2>3 DEF Playing
  <2>6. AirMoves(s)
    BY <2>4, <2>5 DEF AirMoves
  <2> QED
    BY <1>3, <2>2, <2>6
<1>8. CASE tick(s) \/ tick_over(s) \/ tick_attack(s)
  <2>1. /\ \A u \in Slots \ {s} : session'[u] = session[u] /\ wpc'[u] = wpc[u]
        /\ wpc[s] = "run"
    BY <1>0, <1>8, TickSame
  <2>2. w2m' = w2m \/ \E msgs : Report(s, msgs)
    <3>1. CASE tick(s)
      BY <3>1 DEF tick
    <3>2. CASE tick_over(s)
      BY <3>2 DEF tick_over
    <3>3. CASE tick_attack(s)
      <4>1. PICK d \in {0} \cup Playing(session[s]), how \in {"topped", "quit"} : \E a, v :
              /\ session' = [session EXCEPT ![s] = After(s, d, how)]
              /\ LET att == [n |-> attacks + 1, from |-> session[s][a].id, to |-> v]
                 IN \/ Report(s, Eliminated(s, d) \o <<Msg("FEED", att)>>)
                    \/ Report(s, Eliminated(s, d) \o <<Msg("ATTACK", att), Msg("FEED", att)>>)
                    \/ Report(s, Eliminated(s, d))
        BY <3>3, AttackRoutes
      <4> QED
        BY ONLY <4>1, Zenon
    <3> QED
      BY <1>8, <3>1, <3>2, <3>3
  <2>3. \A u \in Slots \ {s} : w2m'[u] = w2m[u]
    BY <1>4, <2>2
  <2>4. AirMoves(s)
    <3>1. CASE tick_over(s)
      <4>1. wpc' = [wpc EXCEPT ![s] = "over"]
        BY <3>1 DEF tick_over
      <4>2. wpc'[s] = "over"
        BY <1>0, <4>1
      <4> QED
        BY <4>2 DEF AirMoves
    <3>2. CASE tick(s)
      BY <1>0, <1>1, <2>1, <3>2, AirTick DEF AirMoves
    <3>3. CASE tick_attack(s)
      BY <1>0, <1>1, <2>1, <3>3, AirAttack DEF AirMoves
    <3> QED
      BY <1>8, <3>1, <3>2, <3>3
  <2> QED
    BY <1>3, <2>1, <2>3, <2>4
<1> QED
  BY <1>2, <1>5, <1>6, <1>7, <1>8 DEF WorkerSteps

LEMMA AirStep ==
  ASSUME TypeInd, [Next]_vars
  PROVE  \A u \in Slots : AirMoves(u)
<1>0. TypeOK /\ wpc \in [Slots -> WorkerPc] /\ w2m \in [Slots -> Seq(ToMaster)]
  BY DEF TypeInd, TypeOK
<1>1. ASSUME UNCHANGED <<wpc, session, w2m>> PROVE \A u \in Slots : AirMoves(u)
  <2>1. \A u \in Slots : rooms'[u].used /\ wpc'[u] = "run" => rooms[u].used
    BY <1>0, UsedStep
  <2> QED
    BY <1>1, <2>1 DEF AirMoves, Silent
<1>2. CASE UNCHANGED vars \/ press_enter \/ on_sigint \/ loop_exit \/ shutdown
  BY <1>1, <1>2 DEF vars, workerVars, gameVars, press_enter, on_sigint, loop_exit, shutdown
<1>3. ASSUME NEW c \in Clients, accept_client(c) \/ accept_refuse(c) \/ connect_refused(c)
      PROVE  \A u \in Slots : AirMoves(u)
  BY <1>1, <1>3 DEF accept_client, accept_refuse, connect_refused, workerVars, gameVars
<1>4. ASSUME NEW c \in Clients, accept_spawn(c) PROVE \A u \in Slots : AirMoves(u)
  <2>1. PICK s : /\ wpc' = [wpc EXCEPT ![s] = "init"] /\ w2m' = [w2m EXCEPT ![s] = <<>>]
                 /\ UNCHANGED session
    BY <1>4 DEF accept_spawn, gameVars
  <2>2. ASSUME NEW u \in Slots, u # s PROVE AirMoves(u)
    <3>1. wpc'[u] = wpc[u] /\ w2m'[u] = w2m[u]
      BY ONLY <1>0, <2>1, <2>2
    <3>2. rooms'[u].used /\ wpc'[u] = "run" => rooms[u].used
      BY <1>0, UsedStep
    <3> QED
      BY <2>1, <3>1, <3>2 DEF AirMoves, Silent
  <2>3. s \in Slots => AirMoves(s)
    BY <1>0, <2>1 DEF AirMoves
  <2> QED
    BY <2>2, <2>3
<1> QED
  BY <1>0, <1>2, <1>3, <1>4, AirMaster, AirWorker DEF Next

LEMMA BuriedKept ==
  ASSUME TypeOK, TypeOK', Placed, [Next]_vars, NEW s \in Slots, NEW x \in Seated(s),
         Buried(w2m[s], players, x), Bodies(w2m'[s], "JOINED") \subseteq Bodies(w2m[s], "JOINED")
  PROVE  Buried(w2m'[s], players', x)
<1>1. TableMoves
  BY TableStep
<1>2. ASSUME NEW i \in DOMAIN players', players'[i].id = x PROVE ~players'[i].alive
  <2>1. CASE i \in DOMAIN players
    BY <1>1, <1>2, <2>1 DEF TableMoves, Buried
  <2>2. CASE i \notin DOMAIN players
    <3>1. PICK u : u = players'[i].room
      OBVIOUS
    <3>2. u \in Slots
      <4>1. players' \in Seq(PlayerRec)
        BY DEF TypeOK
      <4>2. players'[i].room \in Slots
        BY ONLY <4>1, i \in DOMAIN players', EntryTypes
      <4> QED
        BY <3>1, <4>2
    <3>3. x \in Bodies(w2m[u], "JOINED")
      BY <1>1, <1>2, <2>2, <3>1 DEF TableMoves
    <3>4. At(x, u)
      BY <3>2, <3>3 DEF Placed, Told
    <3>5. s = u
      BY <3>4 DEF At
    <3> QED
      BY <3>3, <3>5 DEF Buried
  <2> QED
    BY <2>1, <2>2
<1> QED
  BY <1>2 DEF Buried

LEMMA MournStep ==
  ASSUME TypeInd, TypeOK', SitInv, Placed, [Next]_vars, \A s \in Slots : Mourned(s)
  PROVE  \A s \in Slots : Mourned(s)'
<1>0. TypeOK /\ w2m \in [Slots -> Seq(ToMaster)]
  BY DEF TypeInd, TypeOK
<1>1. SUFFICES ASSUME NEW s \in Slots, wpc'[s] = "run", rooms'[s].used,
                      NEW j \in DOMAIN session'[s], j \notin Playing(session'[s])
               PROVE  \/ Pending(w2m'[s], session'[s][j].id)
                      \/ Buried(w2m'[s], players', session'[s][j].id)
  BY DEF Mourned
<1>2. /\ wpc[s] = "run" /\ rooms[s].used
      /\ Silent(s) \/ ReadOne(s) \/ Wrote(s)
  BY <1>1, AirStep DEF AirMoves
<1>3. j \in DOMAIN session[s] /\ session'[s][j].id = session[s][j].id
  BY <1>1, <1>2 DEF Silent, ReadOne, Wrote, SameGame
<1>4. PICK x : x = session[s][j].id
  OBVIOUS
<1>5. x \in Seated(s)
  BY <1>0, <1>3, <1>4, BoardSeated
<1>6. j \notin Playing(session[s]) => Pending(w2m[s], x) \/ Buried(w2m[s], players, x)
  BY <1>2, <1>3, <1>4 DEF Mourned
<1>7. CASE Silent(s)
  <2>1. j \notin Playing(session[s]) /\ w2m'[s] = w2m[s]
    BY <1>1, <1>7 DEF Silent
  <2> QED
    BY <1>0, <1>3, <1>4, <1>5, <1>6, <2>1, BuriedKept
<1>8. CASE ReadOne(s)
  <2>1. /\ j \notin Playing(session[s]) /\ w2m'[s] = Tail(w2m[s]) /\ w2m[s] # <<>>
        /\ w2m[s] \in Seq(ToMaster)
    BY <1>0, <1>1, <1>8 DEF ReadOne
  <2>2. Bodies(Tail(w2m[s]), "JOINED") \subseteq Bodies(w2m[s], "JOINED")
    BY <2>1, BodiesTail
  <2>3. CASE Buried(w2m[s], players, x)
    BY <1>0, <1>3, <1>4, <1>5, <2>1, <2>2, <2>3, BuriedKept
  <2>4. CASE Pending(w2m[s], x)
    <3>1. \/ Pending(Tail(w2m[s]), x)
          \/ /\ Head(w2m[s]).type = "ELIMINATED" /\ Head(w2m[s]).body = x
             /\ x \notin Bodies(Tail(w2m[s]), "JOINED")
      BY <2>1, <2>4, PendingTail
    <3>2. CASE Pending(Tail(w2m[s]), x)
      BY <1>3, <1>4, <2>1, <3>2
    <3>3. CASE /\ Head(w2m[s]).type = "ELIMINATED" /\ Head(w2m[s]).body = x
               /\ x \notin Bodies(Tail(w2m[s]), "JOINED")
      BY <1>3, <1>4, <1>8, <2>1, <3>3 DEF ReadOne, Buried
    <3> QED
      BY <3>1, <3>2, <3>3
  <2> QED
    BY <1>6, <2>1, <2>3, <2>4
<1>9. CASE Wrote(s)
  <2>1. PICK X, r :
          /\ w2m[s] \in Seq(X) /\ r \in Seq(X) /\ w2m'[s] = w2m[s] \o r
          /\ OfType(r, "JOINED") = {}
          /\ \A k \in DOMAIN session[s] :
               k \in Playing(session[s]) /\ k \notin Playing(session'[s]) =>
                 session[s][k].id \in Bodies(r, "ELIMINATED")
    BY <1>9 DEF Wrote
  <2>2. /\ Pending(w2m[s], x) => Pending(w2m[s] \o r, x)
        /\ x \in Bodies(r, "ELIMINATED") => Pending(w2m[s] \o r, x)
    BY <2>1, PendingConcat
  <2>3. CASE j \in Playing(session[s])
    BY <1>1, <1>3, <1>4, <2>1, <2>2, <2>3
  <2>4. CASE j \notin Playing(session[s])
    <3>1. Bodies(w2m[s] \o r, "JOINED") = Bodies(w2m[s], "JOINED") \cup Bodies(r, "JOINED")
      BY <2>1, BodiesConcat
    <3>2. Bodies(r, "JOINED") = {}
      BY <2>1 DEF Bodies
    <3>3. Bodies(w2m'[s], "JOINED") \subseteq Bodies(w2m[s], "JOINED")
      BY <2>1, <3>1, <3>2
    <3> QED
      BY <1>0, <1>3, <1>4, <1>5, <1>6, <2>1, <2>2, <2>4, <3>3, BuriedKept
  <2> QED
    BY <2>3, <2>4
<1> QED
  BY <1>2, <1>7, <1>8, <1>9

FateInv ==
  /\ WinInv /\ SitInv /\ Roll /\ Placed /\ Dead
  /\ \A s \in Slots : Mourned(s)

LEMMA FateHolds == Spec /\ [][NoLateComer]_vars => []FateInv
<1>1. Init => FateInv
  <2> SUFFICES ASSUME Init PROVE FateInv
    OBVIOUS
  <2>1. \A c \in Clients : client[c].pc = "idle" /\ client[c].id = 0
    BY DEF Init, Idle
  <2>2. \A s \in Slots : ~Live(s) /\ rooms[s].redirected = 0
    BY DEF Init, Live, NoRoom
  <2>3. \A s \in Slots : Coming(client, s) = {}
    BY <2>1 DEF Coming
  <2>4. \A s \in Slots : IsFiniteSet(Coming(client, s)) /\ rooms[s].redirected <= RoomSize
    BY <2>2, <2>3, FS_EmptySet, HubAssumption
  <2>5. WinInv
    BY <2>1, <2>2, <2>4 DEF WinInv
  <2>6. /\ players = <<>> /\ \A s \in Slots : /\ conn[s] = <<>> /\ handshake[s] = 0 /\ session[s] = <<>>
                                              /\ w2m[s] = <<>> /\ wpc[s] = "none"
    BY DEF Init
  <2>7. \A s \in Slots : Seated(s) = {}
    BY <2>6 DEF Seated, Ids
  <2>8. SitInv
    BY <2>2, <2>6 DEF SitInv, Sits
  <2>9. Roll
    BY <2>6, <2>7 DEF Roll, Ids
  <2>10. \A s \in Slots : Told(s) = {}
    BY <2>6, BodiesNothing DEF Told, Listed
  <2>11. Placed
    BY <2>10 DEF Placed
  <2>12. ASSUME NEW x PROVE ~Doomed(x)
    BY <2>6, BodiesNothing DEF Doomed
  <2>13. Dead
    BY <2>12 DEF Dead
  <2>14. \A s \in Slots : Mourned(s)
    BY <2>6 DEF Mourned
  <2> QED
    BY <2>5, <2>8, <2>9, <2>11, <2>13, <2>14 DEF FateInv
<1>2. TypeInd /\ TypeInd' /\ FateInv /\ [Next]_vars /\ [NoLateComer]_vars => FateInv'
  <2> SUFFICES ASSUME TypeInd, TypeInd', FateInv, [Next]_vars, NoLateComer \/ UNCHANGED vars
               PROVE  FateInv'
    OBVIOUS
  <2>1. /\ TypeOK /\ TypeOK' /\ WinInv /\ SitInv /\ Roll /\ Placed /\ Dead
        /\ \A s \in Slots : Mourned(s)
    BY DEF TypeInd, FateInv
  <2>2. WinInv'
    BY <2>1, WinNext
  <2>3. SitInv'
    BY <2>1, SitStep
  <2>4. Roll'
    BY <2>1, RollStep
  <2>5. Placed'
    BY <2>1, PlaceStep
  <2>6. Dead'
    BY <2>1, DeadStep
  <2>7. \A s \in Slots : Mourned(s)'
    BY <2>1, MournStep
  <2> QED
    BY <2>2, <2>3, <2>4, <2>5, <2>6, <2>7 DEF FateInv
<1> QED
  BY <1>1, <1>2, TypeIndHolds, PTL DEF Spec

\* Nobody is counted out while still in the game: whom the master's table has as
\* dead is neither waiting in a lobby nor playing in any room (until Ctrl-C),
\* however eliminations, crashes, closing rooms and new rooms in their slots
\* interleave; as long as no client of a closed room reaches its successor on the
\* same port
THEOREM NobodyDiesEarly == Spec /\ [][NoLateComer]_vars => []NoFalseDeath
<1>1. FateInv => NoFalseDeath
  <2> SUFFICES ASSUME FateInv, NEW i \in DOMAIN players, ~players[i].alive, master = "run",
                      NEW s \in Slots
               PROVE  /\ \A j \in Playing(session[s]) : session[s][j].id # players[i].id
                      /\ Accepting(s) => \A j \in DOMAIN conn[s] : conn[s][j] # players[i].id
    BY DEF NoFalseDeath
  <2>1. PICK x : x = players[i].id
    OBVIOUS
  <2>2. Safe(x)
    BY <2>1 DEF FateInv, Dead, Doomed
  <2> QED
    BY <2>1, <2>2 DEF Safe, Seated, Ids
<1> QED
  BY <1>1, FateHolds, PTL

\* No elimination is lost: when a game is over in a room that plays on, the
\* table has the player dead or the report is still in the hub, even when the
\* report of the same player's arrival has not been read yet; as long as no client
\* of a closed room reaches its successor on the same port
THEOREM EliminationsArrive == Spec /\ [][NoLateComer]_vars => []EliminationNotLost
<1>1. TypeOK /\ FateInv => EliminationNotLost
  <2> SUFFICES ASSUME TypeOK, FateInv, NEW s \in Slots, wpc[s] = "run", rooms[s].used,
                      NEW j \in DOMAIN session[s] \ Playing(session[s]), NEW x, x = session[s][j].id
               PROVE  \/ Msg("ELIMINATED", x) \in {w2m[s][i] : i \in DOMAIN w2m[s]}
                      \/ \A i \in DOMAIN players : players[i].id = x => ~players[i].alive
    BY DEF EliminationNotLost
  <2>1. Pending(w2m[s], x) \/ Buried(w2m[s], players, x)
    BY DEF FateInv, Mourned
  <2>2. CASE Pending(w2m[s], x)
    <3>1. PICK i \in DOMAIN w2m[s] : w2m[s][i].type = "ELIMINATED" /\ w2m[s][i].body = x
      BY <2>2 DEF Pending, OfType
    <3>2. w2m[s][i] \in ToMaster
      BY DEF TypeOK
    <3>3. w2m[s][i] = Msg("ELIMINATED", x)
      BY <3>1, <3>2 DEF ToMaster, Msg
    <3> QED
      BY <3>3
  <2> QED
    BY <2>1, <2>2 DEF Buried
<1> QED
  BY <1>1, FateHolds, TypeCorrect, PTL
=============================================================================
