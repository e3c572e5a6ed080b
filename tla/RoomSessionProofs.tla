------------------------- MODULE RoomSessionProofs -------------------------
(***************************************************************************)
(* Proofs about a room's match, for any number of players, keys, attacks,  *)
(* ticks and lost messages.                                                *)
(*                                                                         *)
(* A player who is out stays as they are (OutIsFrozen).  Every handler     *)
(* that changes a slot asks InGame first, or changes only fields that do   *)
(* not count.  The invariant that this needs is what a slot and an action  *)
(* look like: a slot that lost a field, or an action without a name, would *)
(* leave the result of EXCEPT and CASE open.                               *)
(*                                                                         *)
(* A program that has read what is on its way shows the room's slot unless *)
(* the slot is marked for a push or a message was lost (ViewCurrent), and  *)
(* the battle log shows the latest attacks in order (FeedKeepsLast).       *)
(***************************************************************************)
EXTENDS RoomSession, NatFacts, SequenceTheorems, TLAPS

SlotFields == {"active", "dirty", "reported", "idle", "board", "pending", "outgoing",
               "game_over", "winner", "mode", "target", "last_attacker"}

\* A slot has the fields of PlayerSlot
IsSlot(s) == s = [f \in SlotFields |-> s[f]]

ActionMsg == [method : {"ACTION"}, id : Ids, payload : DOMAIN PlayerAction]

Shape ==
  /\ slots = [p \in Ids |-> slots[p]]
  /\ \A p \in Ids : IsSlot(slots[p])
  /\ up \in Seq(ActionMsg)

\* What a step may do to a slot
Frozen(s, t) == ~InGame(s) => ~InGame(t) /\ t.board = s.board /\ t.pending = s.pending

Moves(s, t) == IsSlot(t) /\ Frozen(s, t)

LEMMA Domains ==
  /\ DOMAIN PlayerAction = 1..5
  /\ Range(PlayerAction) = {"move", "drop", "mode", "target", "quit"}
  BY DEF PlayerAction, Range

LEMMA CodeIsAction ==
  ASSUME NEW a \in Range(PlayerAction)
  PROVE  Code(a) \in DOMAIN PlayerAction
<1>1. \E i \in DOMAIN PlayerAction : PlayerAction[i] = a
  BY DEF Range
<1> QED
  BY <1>1 DEF Code

\* A slot stays a slot whichever of its fields are assigned
LEMMA LockSlot ==
  ASSUME NEW s, IsSlot(s), NEW l
  PROVE  IsSlot(Lock(s, l))
  BY DEF Lock, IsSlot, SlotFields

LEMMA ActedSlot ==
  ASSUME NEW s, IsSlot(s), NEW p, NEW l, NEW a \in Range(PlayerAction)
  PROVE  IsSlot(apply_action(s, p, a, l))
<1>1. IsSlot(Acted(s, p, a, l))
  <2>1. CASE a = "move"
    BY <2>1 DEF Acted, IsSlot, SlotFields
  <2>2. CASE a = "drop"
    BY <2>2, LockSlot DEF Acted
  <2>3. CASE a = "mode"
    BY <2>3 DEF Acted, cycle_target_mode, IsSlot, SlotFields
  <2>4. CASE a = "target"
    <3>1. cycle_manual_target(s, p) = s \/ \E v : cycle_manual_target(s, p) = [s EXCEPT !.target = v]
      BY DEF cycle_manual_target
    <3>2. Acted(s, p, a, l) = cycle_manual_target(s, p)
      BY <2>4 DEF Acted
    <3> QED
      BY <3>1, <3>2 DEF IsSlot, SlotFields
  <2>5. CASE a = "quit"
    BY <2>5 DEF Acted, IsSlot, SlotFields
  <2> QED
    BY <2>1, <2>2, <2>3, <2>4, <2>5, Domains
<1> QED
  BY <1>1 DEF apply_action, IsSlot, SlotFields

LEMMA HitSlot ==
  ASSUME NEW s, IsSlot(s), NEW from, NEW lines
  PROVE  IsSlot(Hit(s, from, lines))
  BY DEF Hit, IsSlot, SlotFields

LEMMA TickSlot ==
  ASSUME NEW s, IsSlot(s), NEW t
  PROVE  IsSlot(tick_slot(s, t)) /\ (t.kind = "still" => tick_slot(s, t) = s)
<1>1. IsSlot(Moved(s, t))
  <2>1. IsSlot([s EXCEPT !.board = @ + 1])
    BY DEF IsSlot, SlotFields
  <2> QED
    BY <2>1, LockSlot DEF Moved
<1> QED
  BY <1>1 DEF tick_slot, IsSlot, SlotFields

\* Assigning the slot of a player who is still in the game freezes nobody less
LEMMA AssignMoves ==
  ASSUME Shape, NEW q \in Ids, InGame(slots[q]), NEW t, IsSlot(t),
         slots' = [slots EXCEPT ![q] = t]
  PROVE  /\ slots' = [p \in Ids |-> slots'[p]]
         /\ \A p \in Ids : Moves(slots[p], slots'[p])
<1>1. \A p \in Ids : slots'[p] = IF p = q THEN t ELSE slots[p]
  BY DEF Shape
<1>2. slots' = [p \in Ids |-> slots'[p]]
  BY DEF Shape
<1> QED
  BY <1>1, <1>2 DEF Moves, Frozen, Shape

LEMMA StillMoves ==
  ASSUME Shape, UNCHANGED slots
  PROVE  /\ slots' = [p \in Ids |-> slots'[p]]
         /\ \A p \in Ids : Moves(slots[p], slots'[p])
  BY DEF Shape, Moves, Frozen

LEMMA StepMoves ==
  ASSUME Shape, Next
  PROVE  /\ slots' = [p \in Ids |-> slots'[p]]
         /\ \A p \in Ids : Moves(slots[p], slots'[p])
<1> DEFINE G == /\ slots' = [p \in Ids |-> slots'[p]]
                /\ \A p \in Ids : Moves(slots[p], slots'[p])
<1>0. \A p \in Ids : IsSlot(slots[p])
  BY DEF Shape
<1>1. CASE drain
  <2> DEFINE m == Head(up)
             a == PlayerAction[m.payload]
             q == m.id
  <2>1. m \in ActionMsg
    BY <1>1 DEF drain, Shape
  <2>2. a \in Range(PlayerAction) /\ q \in Ids
    BY <2>1 DEF ActionMsg, Range
  <2>3. CASE UNCHANGED slots
    BY <2>3, StillMoves
  <2>4. ASSUME InGame(slots[q]), NEW l, slots' = [slots EXCEPT ![q] = apply_action(@, q, a, l)]
        PROVE  G
    <3>1. IsSlot(apply_action(slots[q], q, a, l))
      BY <1>0, <2>2, ActedSlot
    <3> HIDE DEF q, a
    <3> QED
      BY <2>2, <2>4, <3>1, AssignMoves
  <2>5. UNCHANGED slots \/ (InGame(slots[q]) /\ \E l : slots' = [slots EXCEPT ![q] = apply_action(@, q, a, l)])
    BY <1>1 DEF drain
  <2> QED
    BY <2>3, <2>4, <2>5
<1>2. CASE hub_garbage
  <2> DEFINE a == Head(hub_in).body
             q == a.to
  <2>1. \/ UNCHANGED slots
        \/ /\ q \in Ids /\ InGame(slots[q])
           /\ slots' = [slots EXCEPT ![q] = Hit(@, a.from, a.lines)]
    BY <1>2 DEF hub_garbage
  <2>2. CASE q \in Ids /\ InGame(slots[q]) /\ slots' = [slots EXCEPT ![q] = Hit(@, a.from, a.lines)]
    <3>1. IsSlot(Hit(slots[q], a.from, a.lines))
      BY <1>0, <2>2, HitSlot
    <3> HIDE DEF q, a
    <3> QED
      BY <2>2, <3>1, AssignMoves
  <2> QED
    BY <2>1, <2>2, StillMoves
<1>3. CASE tick_session
  <2>1. PICK t \in [Ids -> Ticks] :
          LET ticked == [p \in Ids |-> tick_slot(slots[p], t[p])]
          IN  /\ \A p \in {r \in Ids : t[r].kind # "still"} : InGame(slots[p])
              /\ slots' = [p \in Ids |-> [ticked[p] EXCEPT !.reported = @ \/ Gone(ticked[p])]]
    BY <1>3 DEF tick_session
  <2> DEFINE S(p) == tick_slot(slots[p], t[p])
  <2>2. \A p \in Ids : slots'[p] = [S(p) EXCEPT !.reported = @ \/ Gone(S(p))]
    BY <2>1
  <2>3. slots' = [p \in Ids |-> slots'[p]]
    BY <2>1
  <2>4. \A p \in Ids : IsSlot(S(p)) /\ (t[p].kind = "still" => S(p) = slots[p])
    BY <1>0, TickSlot
  <2>5. \A p \in Ids : t[p].kind # "still" => InGame(slots[p])
    BY <2>1
  <2> HIDE DEF S
  <2>6. ASSUME NEW p \in Ids PROVE Moves(slots[p], slots'[p])
    <3>1. IsSlot(slots'[p])
      BY <2>2, <2>4 DEF IsSlot, SlotFields
    <3>2. /\ slots'[p].active = S(p).active /\ slots'[p].game_over = S(p).game_over
          /\ slots'[p].board = S(p).board /\ slots'[p].pending = S(p).pending
      BY <2>2, <2>4, ZenonT(40) DEF IsSlot, SlotFields
    <3>3. ~InGame(slots[p]) => S(p) = slots[p]
      BY <2>4, <2>5
    <3> QED
      BY <3>1, <3>2, <3>3 DEF Moves, Frozen, InGame
  <2> QED
    BY <2>3, <2>6
<1>4. CASE route_garbage
  <2> DEFINE q == Head(Attackers(slots))
             taken == [slots EXCEPT ![q].outgoing = 0]
  <2>1. PICK v : LET a == [from |-> q, to |-> v, lines |-> slots[q].outgoing]
                 IN  slots' = IF Strikes(q, v) THEN [taken EXCEPT ![v] = Hit(@, q, a.lines)] ELSE taken
    BY <1>4 DEF route_garbage
  <2>2. taken = [p \in Ids |-> taken[p]] /\ \A p \in Ids : taken[p] = IF p = q THEN [slots[p] EXCEPT !.outgoing = 0] ELSE slots[p]
    BY DEF Shape
  <2>3. \A p \in Ids : /\ IsSlot(taken[p]) /\ taken[p].active = slots[p].active
                       /\ taken[p].game_over = slots[p].game_over /\ taken[p].board = slots[p].board
                       /\ taken[p].pending = slots[p].pending
    <3> HIDE DEF taken, q
    <3> QED
      BY <1>0, <2>2 DEF IsSlot, SlotFields
  <2>4. CASE slots' = taken
    <3> HIDE DEF taken, q
    <3> QED
      BY <2>2, <2>3, <2>4 DEF Moves, Frozen, InGame
  <2>5. CASE Strikes(q, v) /\ slots' = [taken EXCEPT ![v] = Hit(@, q, slots[q].outgoing)]
    <3>1. v \in Ids /\ InGame(slots[v])
      BY <2>5 DEF Strikes
    <3>2. IsSlot(Hit(taken[v], q, slots[q].outgoing))
      BY <2>3, <3>1, HitSlot
    <3> HIDE DEF taken, q
    <3>3. slots' = [p \in Ids |-> slots'[p]] /\ \A p \in Ids : slots'[p] = IF p = v THEN Hit(taken[v], q, slots[q].outgoing) ELSE taken[p]
      BY <2>2, <2>5, <3>1
    <3> QED
      BY <2>3, <3>1, <3>2, <3>3 DEF Moves, Frozen, InGame
  <2> QED
    BY <2>1, <2>4, <2>5
<1>5. CASE push_state
  <2>1. slots' = [p \in Ids |-> Pushed(slots[p])]
    BY <1>5 DEF push_state
  <2>2. ASSUME NEW p \in Ids PROVE Moves(slots[p], Pushed(slots[p]))
    BY <1>0, <2>2 DEF Pushed, Moves, Frozen, InGame, IsSlot, SlotFields
  <2> QED
    BY <2>1, <2>2
<1>6. CASE room_over
  <2>1. slots' = [p \in Ids |-> Finished(slots[p])]
    BY <1>6 DEF room_over
  <2>2. ASSUME NEW p \in Ids PROVE Moves(slots[p], Finished(slots[p]))
    BY <1>0, <2>2 DEF Finished, Moves, Frozen, InGame, IsSlot, SlotFields
  <2> QED
    BY <2>1, <2>2
<1>7. CASE hub_feed \/ hub_roster \/ hub_gameover
  BY <1>7, StillMoves DEF hub_feed, hub_roster, hub_gameover
<1>8. ASSUME NEW p \in Ids, read_messages(p) \/ \E a \in Range(PlayerAction) : process_inputs(p, a)
      PROVE  G
  BY <1>8, StillMoves DEF read_messages, process_inputs, roomVars
<1>9. ASSUME master_handles \/ \E r \in Remote : remote_dies(r) \/ \E v \in Struck : remote_attacks(r, v)
      PROVE  G
  BY <1>9, StillMoves DEF master_handles, remote_dies, remote_attacks, roomVars
<1> QED
  BY <1>1, <1>2, <1>3, <1>4, <1>5, <1>6, <1>7, <1>8, <1>9 DEF Next, RoomStep

LEMMA StepActions ==
  ASSUME Shape, Next
  PROVE  up' \in Seq(ActionMsg)
<1>0. up \in Seq(ActionMsg)
  BY DEF Shape
<1>1. CASE drain
  BY <1>0, <1>1 DEF drain
<1>2. ASSUME NEW p \in Ids, NEW a \in Range(PlayerAction), process_inputs(p, a)
      PROVE  up' \in Seq(ActionMsg)
  <2> DEFINE m == [method |-> "ACTION", id |-> p, payload |-> Code(a)]
  <2>1. m \in ActionMsg
    BY CodeIsAction DEF ActionMsg
  <2>2. up' = up \/ up' = Append(up, m)
    BY <1>2 DEF process_inputs
  <2> HIDE DEF m
  <2> QED
    BY <1>0, <2>1, <2>2
<1>3. CASE RoomStep /\ ~drain
  BY <1>0, <1>3
  DEF RoomStep, hub_garbage, hub_feed, hub_roster, hub_gameover, FromHub, tick_session,
      route_garbage, push_state, room_over
<1>4. ASSUME NEW p \in Ids, read_messages(p) PROVE up' \in Seq(ActionMsg)
  BY <1>0, <1>4 DEF read_messages
<1>5. ASSUME master_handles \/ \E r \in Remote : remote_dies(r) \/ \E v \in Struck : remote_attacks(r, v)
      PROVE  up' \in Seq(ActionMsg)
  BY <1>0, <1>5 DEF master_handles, remote_dies, remote_attacks
<1> QED
  BY <1>1, <1>2, <1>3, <1>4, <1>5 DEF Next

\* Slots and actions keep their shape
LEMMA ShapeHolds == Spec => []Shape
<1>1. Init => Shape
  <2> SUFFICES ASSUME Init PROVE Shape
    OBVIOUS
  <2>1. slots = init_session /\ up = <<>>
    BY DEF Init
  <2>2. \A p \in Ids : IsSlot(init_session[p])
    BY DEF init_session, IsSlot, SlotFields
  <2>3. init_session = [p \in Ids |-> init_session[p]]
    BY DEF init_session
  <2> QED
    BY <2>1, <2>2, <2>3 DEF Shape
<1>2. Shape /\ [Next]_vars => Shape'
  <2> SUFFICES ASSUME Shape, [Next]_vars PROVE Shape'
    OBVIOUS
  <2>1. CASE UNCHANGED vars
    BY <2>1 DEF vars, roomVars, netVars, Shape
  <2>2. CASE Next
    BY <2>2, StepMoves, StepActions DEF Shape, Moves
  <2> QED
    BY <2>1, <2>2
<1> QED
  BY <1>1, <1>2, PTL DEF Spec

\* Once a player is out, no late key, attack from inside or outside the room, tick
\* or end of the match touches their board or their garbage meter, whatever the
\* order in which they come (game.c:61 and 148, room.c:59 and 323)
THEOREM OutStaysFrozen == Spec => OutIsFrozen
<1> DEFINE Step == \A p \in Ids : ~InGame(slots[p])
                     => /\ ~InGame(slots'[p])
                        /\ slots'[p].board = slots[p].board /\ slots'[p].pending = slots[p].pending
<1>1. Shape /\ [Next]_vars => [Step]_vars
  BY StepMoves DEF Moves, Frozen
<1> QED
  BY <1>1, ShapeHolds, PTL DEF Spec, OutIsFrozen

-----------------------------------------------------------------------------
(* Reading.  The fold that Read takes over the messages on their way is the  *)
(* one that handles them one after the other: nothing on an empty queue, and *)
(* one more message handled when one more is appended.                       *)

Heard(u, s) == FoldLeft(handle_msg, u, s)

\* g[t] is what handling the messages of s with indices in t makes of u
Hears(g, u, s, D) ==
  g = [t \in SUBSET D |-> IF t = {} THEN u ELSE handle_msg(g[t \ {Max(t)}], s[Max(t)])]

LEMMA MaxOf ==
  ASSUME NEW n \in Nat, NEW t, t \subseteq 1..n, t # {}
  PROVE  /\ Max(t) \in t
         /\ \A x \in t : x <= Max(t)
         /\ IsFiniteSet(t) /\ IsFiniteSet(t \ {Max(t)})
         /\ Cardinality(t) \in Nat /\ Cardinality(t \ {Max(t)}) \in Nat
         /\ Cardinality(t) = Cardinality(t \ {Max(t)}) + 1
<1>1. PICK U : U = {n - x : x \in t}
  BY Zenon
<1>2. U \subseteq Nat /\ U # {}
  <2>1. ASSUME NEW y \in U PROVE y \in Nat
    <3>1. PICK x \in t : y = n - x
      BY <1>1
    <3>2. x \in 1..n
      OBVIOUS
    <3> QED
      BY <3>1, <3>2
  <2>2. PICK x : x \in t
    OBVIOUS
  <2>3. n - x \in U
    BY <1>1, <2>2, Zenon
  <2> QED
    BY <2>1, <2>3
<1>3. PICK y \in U : \A z \in U : y <= z
  BY <1>2, LeastExists
<1>4. PICK m \in t : y = n - m
  BY <1>1, <1>3
<1>5. ASSUME NEW x \in t PROVE x <= m
  <2>1. n - x \in U
    BY <1>1
  <2>2. n - m <= n - x
    BY <1>3, <1>4, <2>1
  <2> QED
    BY <2>2
<1>6. \E x \in t : \A z \in t : x >= z
  BY <1>5
<1>7. Max(t) \in t /\ \A z \in t : Max(t) >= z
  BY <1>6, Zenon DEF Max
<1>8. PICK k \in t : k = Max(t)
  BY <1>7
<1>9. IsFiniteSet(t) /\ Cardinality(t) \in Nat
  <2>1. 1 \in Int /\ n \in Int /\ t \subseteq 1..n
    OBVIOUS
  <2> QED
    BY ONLY <2>1, IntervalSubset
<1>10. IsFiniteSet(t \ {k}) /\ Cardinality(t \ {k}) = Cardinality(t) - 1
  BY <1>9, FS_RemoveElement
<1>11. Cardinality(t \ {k}) \in Nat
  BY <1>10, FS_CardinalityType
<1> QED
  BY <1>7, <1>8, <1>9, <1>10, <1>11

LEMMA HearsExists ==
  ASSUME NEW u, NEW s, NEW m \in Nat
  PROVE  \E g : Hears(g, u, s, 1..m)
<1> DEFINE S == 1..m
           D(n) == {t \in SUBSET S : Cardinality(t) <= n}
           R(g, n) == g = [t \in D(n) |-> IF t = {} THEN u ELSE handle_msg(g[t \ {Max(t)}], s[Max(t)])]
           T == {n \in Nat : \E g : R(g, n)}
<1>0. \A t \in SUBSET S : IsFiniteSet(t) /\ Cardinality(t) \in Nat
  <2>1. ASSUME NEW t \in SUBSET S PROVE IsFiniteSet(t) /\ Cardinality(t) \in Nat
    <3>1. 1 \in Int /\ m \in Int /\ t \subseteq 1..m
      OBVIOUS
    <3> QED
      BY ONLY <3>1, IntervalSubset
  <2> QED
    BY <2>1
<1>1. 0 \in T
  <2>1. PICK g : g = [t \in D(0) |-> u]
    OBVIOUS
  <2>2. \A t \in D(0) : t = {}
    <3>1. ASSUME NEW t \in D(0) PROVE t = {}
      <4>1. IsFiniteSet(t) /\ Cardinality(t) \in Nat /\ Cardinality(t) <= 0
        BY <1>0
      <4> QED
        BY <4>1, FS_EmptySet
    <3> QED
      BY <3>1
  <2>3. R(g, 0)
    <3> HIDE DEF D
    <3> QED
      BY <2>1, <2>2
  <2> QED
    BY <2>3
<1>2. ASSUME NEW n \in Nat, n \in T PROVE n + 1 \in T
  <2>1. PICK g : R(g, n)
    BY <1>2
  <2>2. PICK h : h = [t \in D(n + 1) |-> IF t = {} THEN u ELSE handle_msg(g[t \ {Max(t)}], s[Max(t)])]
    OBVIOUS
  <2>3. \A t \in D(n) : t \in D(n + 1) /\ h[t] = g[t]
    <3>1. ASSUME NEW t \in D(n) PROVE t \in D(n + 1) /\ h[t] = g[t]
      <4>1. t \in D(n + 1)
        BY <1>0
      <4> HIDE DEF D
      <4>2. h[t] = IF t = {} THEN u ELSE handle_msg(g[t \ {Max(t)}], s[Max(t)])
        BY <2>2, <4>1
      <4>3. g[t] = IF t = {} THEN u ELSE handle_msg(g[t \ {Max(t)}], s[Max(t)])
        BY <2>1
      <4> QED
        BY <4>1, <4>2, <4>3
    <3> QED
      BY <3>1
  <2>4. ASSUME NEW t \in D(n + 1), t # {} PROVE t \ {Max(t)} \in D(n)
    <3>1. /\ Cardinality(t \ {Max(t)}) \in Nat
          /\ Cardinality(t) \in Nat /\ Cardinality(t) = Cardinality(t \ {Max(t)}) + 1
      BY <2>4, MaxOf
    <3>2. Cardinality(t) <= n + 1 /\ t \ {Max(t)} \in SUBSET S
      OBVIOUS
    <3> QED
      BY <3>1, <3>2
  <2>5. \A t \in D(n + 1) : h[t] = IF t = {} THEN u ELSE handle_msg(h[t \ {Max(t)}], s[Max(t)])
    <3> HIDE DEF D
    <3> QED
      BY <2>2, <2>3, <2>4
  <2>6. R(h, n + 1)
    <3> HIDE DEF D
    <3>1. h = [t \in D(n + 1) |-> h[t]]
      BY <2>2
    <3> QED
      BY <2>5, <3>1
  <2>7. n + 1 \in Nat
    OBVIOUS
  <2> HIDE DEF D, R
  <2> QED
    BY <2>6, <2>7
<1>3. m \in T
  <2> HIDE DEF T
  <2>1. Nat \subseteq T
    BY <1>1, <1>2, SetInduction
  <2> QED
    BY <2>1
<1>4. D(m) = SUBSET S
  <2>1. ASSUME NEW t \in SUBSET S PROVE Cardinality(t) <= m
    <3>1. 1 \in Int /\ m \in Int /\ 1 <= m + 1 /\ t \subseteq 1..m
      OBVIOUS
    <3>2. Cardinality(t) <= m - 1 + 1
      BY ONLY <3>1, IntervalSubset
    <3> QED
      BY <3>2
  <2> QED
    BY <2>1
<1>5. PICK g : R(g, m)
  BY <1>3
<1>6. Hears(g, u, s, S)
  <2> HIDE DEF D, S
  <2> QED
    BY <1>4, <1>5 DEF Hears
<1> QED
  BY <1>6

\* The two have the same at the indices in r, all of which are in both
Alike(r, s, n, s2, n2) ==
  /\ n \in Nat /\ n2 \in Nat /\ r \subseteq 1..n /\ r \subseteq 1..n2
  /\ \A x \in r : s[x] = s2[x]

LEMMA HearsAgree ==
  ASSUME NEW u, NEW n, NEW n2, NEW g, NEW s, Hears(g, u, s, 1..n),
         NEW g2, NEW s2, Hears(g2, u, s2, 1..n2),
         NEW r, Alike(r, s, n, s2, n2)
  PROVE  g[r] = g2[r]
<1> USE DEF Alike
<1> DEFINE T == {k \in Nat : \A t \in SUBSET r : Cardinality(t) = k => g[t] = g2[t]}
<1>0. \A t \in SUBSET r : IsFiniteSet(t) /\ Cardinality(t) \in Nat
  <2>1. ASSUME NEW t \in SUBSET r PROVE IsFiniteSet(t) /\ Cardinality(t) \in Nat
    <3>1. 1 \in Int /\ n \in Int /\ t \subseteq 1..n
      OBVIOUS
    <3> QED
      BY ONLY <3>1, IntervalSubset
  <2> QED
    BY <2>1
<1>a. \A t \in SUBSET r : /\ g[t] = IF t = {} THEN u ELSE handle_msg(g[t \ {Max(t)}], s[Max(t)])
                          /\ g2[t] = IF t = {} THEN u ELSE handle_msg(g2[t \ {Max(t)}], s2[Max(t)])
  <2>1. \A t \in SUBSET (1..n) : g[t] = IF t = {} THEN u ELSE handle_msg(g[t \ {Max(t)}], s[Max(t)])
    BY DEF Hears
  <2>2. \A t \in SUBSET (1..n2) : g2[t] = IF t = {} THEN u ELSE handle_msg(g2[t \ {Max(t)}], s2[Max(t)])
    BY DEF Hears
  <2> QED
    BY <2>1, <2>2
<1>1. 0 \in T
  <2>1. ASSUME NEW t \in SUBSET r, Cardinality(t) = 0 PROVE g[t] = g2[t]
    <3>1. t = {}
      BY <1>0, <2>1, FS_EmptySet
    <3> QED
      BY <1>a, <3>1
  <2> QED
    BY <2>1
<1>2. ASSUME NEW k \in Nat, k \in T PROVE k + 1 \in T
  <2>1. ASSUME NEW t \in SUBSET r, Cardinality(t) = k + 1 PROVE g[t] = g2[t]
    <3>1. t # {}
      BY <2>1, FS_EmptySet
    <3>2. PICK x, q : x = Max(t) /\ q = t \ {x}
      OBVIOUS
    <3>3. /\ x \in t /\ Cardinality(q) \in Nat /\ Cardinality(t) \in Nat
          /\ Cardinality(t) = Cardinality(q) + 1
      BY <3>1, <3>2, MaxOf
    <3>4. Cardinality(q) = k /\ q \in SUBSET r
      <4>1. k \in Nat /\ Cardinality(t) = k + 1
        BY <2>1
      <4>2. Cardinality(q) = k
        BY ONLY <3>3, <4>1
      <4>3. q \in SUBSET r
        BY <3>2, Zenon
      <4> QED
        BY <4>2, <4>3
    <3>5. g[q] = g2[q]
      BY <1>2, <3>4
    <3>6. g[t] = handle_msg(g[q], s[x]) /\ g2[t] = handle_msg(g2[q], s2[x]) /\ s[x] = s2[x]
      BY <1>a, <3>1, <3>2, <3>3
    <3> QED
      BY <3>5, <3>6
  <2> QED
    BY <2>1
<1>3. Nat \subseteq T
  <2> HIDE DEF T
  <2> QED
    BY <1>1, <1>2, SetInduction
<1>4. r \in SUBSET r /\ Cardinality(r) \in Nat
  BY <1>0
<1> QED
  BY <1>3, <1>4

LEMMA HeardIs ==
  ASSUME NEW u, NEW n \in Nat, NEW s, DOMAIN s = 1..n, NEW m, NEW g, NEW s2,
         Hears(g, u, s2, 1..m), Alike(1..n, s, n, s2, m)
  PROVE  Heard(u, s) = g[1..n]
<1>1. Heard(u, s) = (CHOOSE h : Hears(h, u, s, DOMAIN s))[DOMAIN s]
  BY DEF Heard, FoldLeft, MapThenFoldSet, Hears
<1>2. PICK h : h = CHOOSE k : Hears(k, u, s, 1..n)
  OBVIOUS
<1>3. Hears(h, u, s, 1..n)
  <2>1. \E k : Hears(k, u, s, 1..n)
    BY HearsExists
  <2> QED
    BY <1>2, <2>1, Zenon
<1>5. h[1..n] = g[1..n]
  <2>1. PICK r : r = 1..n
    OBVIOUS
  <2>2. Hears(h, u, s, 1..n) /\ Hears(g, u, s2, 1..m)
    BY <1>3
  <2>3. Alike(r, s, n, s2, m)
    BY <2>1
  <2>4. h[r] = g[r]
    BY ONLY <2>2, <2>3, HearsAgree, SMT
  <2> QED
    BY <2>1, <2>4
<1> QED
  BY <1>1, <1>2, <1>5

IsSeq(s) == \E S : s \in Seq(S)

LEMMA HeardFacts ==
  ASSUME NEW u
  PROVE  /\ Heard(u, <<>>) = u
         /\ \A s, m : IsSeq(s) => /\ IsSeq(Append(s, m))
                                  /\ Heard(u, Append(s, m)) = handle_msg(Heard(u, s), m)
<1>1. Heard(u, <<>>) = u
  <2>1. PICK e : e = <<>>
    OBVIOUS
  <2>2. DOMAIN e = 1..0 /\ 0 \in Nat
    BY <2>1
  <2>3. PICK g : Hears(g, u, e, 1..0)
    BY <2>2, HearsExists
  <2>4. Heard(u, e) = g[1..0]
    <3>1. Alike(1..0, e, 0, e, 0)
      BY DEF Alike
    <3> QED
      BY ONLY <2>2, <2>3, <3>1, HeardIs, Zenon
  <2>5. g[1..0] = u
    BY <2>3 DEF Hears
  <2> QED
    BY <2>1, <2>4, <2>5
<1>2. ASSUME NEW s, NEW m, IsSeq(s)
      PROVE  IsSeq(Append(s, m)) /\ Heard(u, Append(s, m)) = handle_msg(Heard(u, s), m)
  <2>1. PICK S : s \in Seq(S)
    BY <1>2 DEF IsSeq
  <2>2. PICK V : V = S \cup {m}
    OBVIOUS
  <2>3. s \in Seq(V) /\ m \in V
    BY <2>1, <2>2
  <2>4. PICK t : t = Append(s, m)
    OBVIOUS
  <2>5. PICK n \in Nat : n = Len(s)
    BY <2>3
  <2>6. /\ t \in Seq(V) /\ DOMAIN s = 1..n /\ DOMAIN t = 1..(n + 1) /\ n + 1 \in Nat /\ n <= n + 1
        /\ t[n + 1] = m /\ \A x \in 1..n : s[x] = t[x]
    BY <2>3, <2>4, <2>5
  <2>7. PICK g : Hears(g, u, t, 1..(n + 1))
    BY <2>6, HearsExists
  <2>8. Heard(u, s) = g[1..n]
    <3>1. n \in Nat /\ DOMAIN s = 1..n /\ Alike(1..n, s, n, t, n + 1)
      BY <2>6 DEF Alike
    <3> QED
      BY ONLY <2>7, <3>1, HeardIs, Zenon
  <2>9. Heard(u, t) = g[1..(n + 1)]
    <3>1. n + 1 \in Nat /\ DOMAIN t = 1..(n + 1) /\ Alike(1..(n + 1), t, n + 1, t, n + 1)
      BY <2>6 DEF Alike
    <3> QED
      BY ONLY <2>7, <3>1, HeardIs, Zenon
  <2>10. PICK W : W = 1..(n + 1)
    OBVIOUS
  <2>11. Max(W) = n + 1 /\ W # {} /\ W \ {n + 1} = 1..n /\ W \subseteq 1..(n + 1)
    <3>1. n + 1 \in W /\ W # {} /\ W \ {n + 1} = 1..n /\ W \subseteq 1..(n + 1)
      BY <2>10
    <3>2. Max(W) \in W /\ \A x \in W : x <= Max(W)
      BY <2>6, <3>1, MaxOf
    <3>3. n + 1 <= Max(W) /\ Max(W) \in 1..(n + 1)
      BY <2>10, <3>1, <3>2
    <3>4. Max(W) = n + 1
      BY <3>3
    <3> QED
      BY <3>1, <3>4
  <2>12. g[W] = handle_msg(g[W \ {Max(W)}], t[Max(W)])
    BY <2>7, <2>10, <2>11 DEF Hears
  <2>13. IsSeq(t)
    BY <2>6 DEF IsSeq
  <2> QED
    BY <2>4, <2>6, <2>8, <2>9, <2>10, <2>11, <2>12, <2>13
<1> QED
  BY <1>1, <1>2

-----------------------------------------------------------------------------
(* The battle log.  The count entries before the head, going around, are the *)
(* last attacks, in order.                                                   *)

\* x % KILL_FEED_MAX, for an x that has gone around at most once
Pos(x) == IF x < KILL_FEED_MAX THEN x ELSE x - KILL_FEED_MAX

Ring(f, sh) ==
  /\ IsSeq(sh)
  /\ f.entries = [i \in 0..(KILL_FEED_MAX - 1) |-> f.entries[i]]
  /\ f.head \in 0..(KILL_FEED_MAX - 1)
  /\ f.count = IF Len(sh) < KILL_FEED_MAX THEN Len(sh) ELSE KILL_FEED_MAX
  /\ \A i \in 1..f.count :
       f.entries[Pos(f.head - f.count + (i - 1) + KILL_FEED_MAX)] = sh[Len(sh) - f.count + i]

LEMMA Size == KILL_FEED_MAX \in Nat \ {0}
  BY RoomAssumption

LEMMA ModPos ==
  ASSUME NEW x \in Nat, x < 2 * KILL_FEED_MAX
  PROVE  x % KILL_FEED_MAX = Pos(x) /\ Pos(x) \in 0..(KILL_FEED_MAX - 1)
<1>1. PICK k \in Nat \ {0} : k = KILL_FEED_MAX
  BY Size
<1>2. CASE x < k
  BY <1>1, <1>2 DEF Pos
<1>3. CASE x >= k
  <2>1. PICK y \in 0..(k - 1) : x = y + k
    <3>1. x - k \in 0..(k - 1) /\ x = (x - k) + k
      BY <1>1, <1>3
    <3> QED
      BY <3>1
  <2>2. x % k = y
    BY ONLY k \in Nat \ {0}, y \in 0..(k - 1), x = y + k
  <2> QED
    BY <1>1, <1>3, <2>1, <2>2 DEF Pos
<1> QED
  BY <1>1, <1>2, <1>3

LEMMA AppendSeq ==
  ASSUME NEW s, IsSeq(s), NEW a
  PROVE  /\ IsSeq(Append(s, a)) /\ Len(s) \in Nat /\ Len(Append(s, a)) = Len(s) + 1
         /\ Append(s, a)[Len(s) + 1] = a
         /\ \A i \in 1..Len(s) : Append(s, a)[i] = s[i]
<1>1. PICK S : s \in Seq(S)
  BY DEF IsSeq
<1>2. PICK V : V = S \cup {a}
  OBVIOUS
<1>3. s \in Seq(V) /\ a \in V
  BY <1>1, <1>2
<1>4. /\ Append(s, a) \in Seq(V) /\ Len(s) \in Nat /\ Len(Append(s, a)) = Len(s) + 1
      /\ Append(s, a)[Len(s) + 1] = a
      /\ \A i \in 1..Len(s) : Append(s, a)[i] = s[i]
  BY <1>3
<1> QED
  BY <1>4 DEF IsSeq

LEMMA LesserOf ==
  ASSUME NEW a \in Int, NEW b \in Int
  PROVE  /\ Min({a, b}) = IF a <= b THEN a ELSE b
         /\ Max({a, b}) = IF a <= b THEN b ELSE a
<1>1. \E x \in {a, b} : \A y \in {a, b} : x <= y
  OBVIOUS
<1>2. \E x \in {a, b} : \A y \in {a, b} : x >= y
  OBVIOUS
<1>3. Min({a, b}) \in {a, b} /\ \A y \in {a, b} : Min({a, b}) <= y
  BY <1>1, Zenon DEF Min
<1>4. Max({a, b}) \in {a, b} /\ \A y \in {a, b} : Max({a, b}) >= y
  BY <1>2, Zenon DEF Max
<1> QED
  BY <1>3, <1>4

\* One more attack: the oldest is overwritten once the log is full
LEMMA RingAdd ==
  ASSUME NEW f, NEW sh, Ring(f, sh), NEW a
  PROVE  Ring(add_kill_feed(f, a), Append(sh, a))
<1> DEFINE g == add_kill_feed(f, a)
           s2 == Append(sh, a)
<1>1. PICK k \in Nat \ {0} : k = KILL_FEED_MAX
  BY Size
<1>2. PICK h, c, n : h = f.head /\ c = f.count /\ n = Len(sh)
  OBVIOUS
<1>3. n \in Nat /\ h \in 0..(k - 1) /\ c = (IF n < k THEN n ELSE k) /\ c \in Nat /\ IsSeq(sh)
  BY <1>1, <1>2, AppendSeq DEF Ring
<1>4. PICK e : e = f.entries
  OBVIOUS
<1>5. /\ e = [i \in 0..(k - 1) |-> e[i]]
      /\ \A i \in 1..c : e[Pos(h - c + (i - 1) + k)] = sh[n - c + i]
  BY <1>1, <1>2, <1>4 DEF Ring
<1>6. PICK e2 : e2 = [e EXCEPT ![h] = a]
  OBVIOUS
<1>7. e2 = [i \in 0..(k - 1) |-> e2[i]] /\ \A i \in 0..(k - 1) : e2[i] = IF i = h THEN a ELSE e[i]
  BY <1>3, <1>5, <1>6
<1>8. PICK h2 : h2 = IF h + 1 = k THEN 0 ELSE h + 1
  OBVIOUS
<1>9. (h + 1) % k = h2 /\ h2 \in 0..(k - 1)
  BY ONLY <1>3, <1>8, k \in Nat \ {0}
<1>10. PICK c2 : c2 = IF n + 1 < k THEN n + 1 ELSE k
  OBVIOUS
<1>11. c2 = Min({c + 1, k}) /\ c2 \in Nat
  <2>1. Min({c + 1, k}) = IF c + 1 <= k THEN c + 1 ELSE k
    BY <1>3, LesserOf
  <2> QED
    BY <1>3, <1>10, <2>1
<1>12. g.entries = e2 /\ g.head = h2 /\ g.count = c2
  BY <1>1, <1>2, <1>4, <1>6, <1>9, <1>11 DEF add_kill_feed
<1>13. IsSeq(s2) /\ Len(s2) = n + 1 /\ s2[n + 1] = a /\ \A i \in 1..n : s2[i] = sh[i]
  BY <1>2, <1>3, AppendSeq
<1>14. ASSUME NEW i \in 1..c2 PROVE e2[Pos(h2 - c2 + (i - 1) + k)] = s2[n + 1 - c2 + i]
  <2>1. CASE i = c2
    <3>1. Pos(h2 - c2 + (i - 1) + k) = h
      BY <1>1, <1>3, <1>8, <1>11, <2>1 DEF Pos
    <3>2. n + 1 - c2 + i = n + 1 /\ h \in 0..(k - 1)
      BY <1>3, <1>11, <2>1
    <3> QED
      BY <1>7, <1>13, <3>1, <3>2
  <2>2. CASE i # c2
    <3>1. PICK j : j = IF n < k THEN i ELSE i + 1
      OBVIOUS
    <3>2. j \in 1..c /\ n - c + j = n + 1 - c2 + i /\ n - c + j \in 1..n
      BY <1>3, <1>10, <2>2, <3>1
    <3>3. /\ Pos(h2 - c2 + (i - 1) + k) = Pos(h - c + (j - 1) + k)
          /\ Pos(h - c + (j - 1) + k) \in (0..(k - 1)) \ {h}
      BY <1>1, <1>3, <1>8, <1>10, <2>2, <3>1, <3>2 DEF Pos
    <3>4. PICK x : x = Pos(h - c + (j - 1) + k)
      OBVIOUS
    <3>5. e2[x] = e[x] /\ e[x] = sh[n - c + j]
      BY <1>5, <1>7, <3>2, <3>3, <3>4
    <3>6. s2[n - c + j] = sh[n - c + j]
      BY <1>13, <3>2
    <3> QED
      BY <3>2, <3>3, <3>4, <3>5, <3>6
  <2> QED
    BY <2>1, <2>2
<1> HIDE DEF g, s2
<1>15. g.count = IF Len(s2) < k THEN Len(s2) ELSE k
  BY <1>10, <1>12, <1>13
<1>16. g.entries = [i \in 0..(k - 1) |-> g.entries[i]] /\ g.head \in 0..(k - 1)
  BY <1>7, <1>9, <1>12
<1>17. \A i \in 1..g.count : g.entries[Pos(g.head - g.count + (i - 1) + k)] = s2[Len(s2) - g.count + i]
  <2>1. ASSUME NEW i \in 1..g.count
        PROVE  g.entries[Pos(g.head - g.count + (i - 1) + k)] = s2[Len(s2) - g.count + i]
    <3>1. i \in 1..c2
      BY <1>12
    <3>2. PICK x, y : x = Pos(h2 - c2 + (i - 1) + k) /\ y = n + 1 - c2 + i
      OBVIOUS
    <3>3. e2[x] = s2[y]
      BY <1>14, <3>1, <3>2
    <3>4. x = Pos(g.head - g.count + (i - 1) + k) /\ y = Len(s2) - g.count + i
      BY ONLY <1>3, <1>9, <1>11, <1>12, <1>13, <3>1, <3>2, k \in Nat \ {0}
    <3> QED
      BY ONLY <1>12, <3>3, <3>4
  <2> QED
    BY <2>1
<1>18. Ring(g, s2)
  BY <1>1, <1>13, <1>15, <1>16, <1>17 DEF Ring
<1> QED
  BY <1>18 DEF g, s2

LEMMA RingShows ==
  ASSUME NEW f, NEW sh, Ring(f, sh)
  PROVE  draw_kill_feed(f) = SubSeq(sh, Max({1, Len(sh) - KILL_FEED_MAX + 1}), Len(sh))
<1>1. PICK k \in Nat \ {0} : k = KILL_FEED_MAX
  BY Size
<1>2. PICK h, c, n : h = f.head /\ c = f.count /\ n = Len(sh)
  OBVIOUS
<1>3. PICK S : sh \in Seq(S)
  BY DEF Ring, IsSeq
<1>4. n \in Nat /\ h \in 0..(k - 1) /\ c = (IF n < k THEN n ELSE k) /\ c \in Nat /\ c <= n /\ c <= k
  BY <1>1, <1>2, <1>3 DEF Ring
<1>5. Max({1, n - k + 1}) = n - c + 1
  <2>1. PICK d : d = n - k + 1
    OBVIOUS
  <2>2. 1 \in Int /\ d \in Int
    BY <1>4, <2>1
  <2>3. Max({1, d}) = IF 1 <= d THEN d ELSE 1
    BY ONLY <2>2, LesserOf
  <2> QED
    BY <1>4, <2>1, <2>3
<1>6. SubSeq(sh, n - c + 1, n) = [i \in 1..c |-> sh[n - c + i]]
  <2>1. PICK m : m = n - c + 1
    OBVIOUS
  <2>2. m \in Int /\ n \in Int /\ m <= n + 1 /\ m >= 1 /\ n - m + 1 = c
    BY <1>4, <2>1
  <2>3. \A i \in m..n : sh[i] \in S
    BY <1>2, <1>3, <2>2
  <2>4. PICK q : q = SubSeq(sh, m, n)
    OBVIOUS
  <2>5. q \in Seq(S) /\ Len(q) = (IF m <= n THEN n - m + 1 ELSE 0) /\ \A i \in 1..(n - m + 1) : q[i] = sh[m + i - 1]
    BY ONLY <2>2, <2>3, <2>4, SubSeqProperties
  <2>6. q = [i \in 1..c |-> q[i]] /\ \A i \in 1..c : q[i] = sh[n - c + i]
    <3>1. Len(q) = c
      <4>1. PICK z : z = Len(q)
        OBVIOUS
      <4>2. z = (IF m <= n THEN n - m + 1 ELSE 0) /\ c \in Nat
        BY <1>4, <2>5, <4>1
      <4>3. z = c
        BY ONLY <2>2, <4>2
      <4> QED
        BY <4>1, <4>3
    <3>2. ASSUME NEW i \in 1..c PROVE q[i] = sh[n - c + i]
      <4>1. i \in 1..(n - m + 1) /\ m + i - 1 = n - c + i
        BY <1>4, <2>1, <2>2
      <4> QED
        BY <2>5, <4>1
    <3>3. q = [i \in 1..c |-> q[i]]
      BY <2>5, <3>1
    <3> QED
      BY <3>2, <3>3
  <2> QED
    BY <2>1, <2>4, <2>6
<1>7. ASSUME NEW i \in 1..c
      PROVE  f.entries[(h - c + (i - 1) + k) % k] = sh[n - c + i]
  <2>1. PICK x : x = h - c + (i - 1) + k
    OBVIOUS
  <2>2. x \in Nat /\ x < 2 * k
    BY <1>4, <2>1
  <2>3. x % k = Pos(x)
    BY <1>1, <2>2, ModPos
  <2>4. f.entries[Pos(x)] = sh[n - c + i]
    BY <1>1, <1>2, <2>1 DEF Ring
  <2> QED
    BY <2>1, <2>3, <2>4
<1>8. draw_kill_feed(f) = [i \in 1..c |-> f.entries[(h - c + (i - 1) + k) % k]]
  BY <1>1, <1>2, Zenon DEF draw_kill_feed
<1>9. draw_kill_feed(f) = [i \in 1..c |-> sh[n - c + i]]
  BY <1>7, <1>8
<1> QED
  BY <1>1, <1>2, <1>5, <1>6, <1>9

-----------------------------------------------------------------------------
(* What the programs have been told.                                         *)

User(p) == [view |-> view[p], feed |-> feed[p], shown |-> shown[p]]

IsUser(u) == u = [view |-> u.view, feed |-> u.feed, shown |-> u.shown] /\ Ring(u.feed, u.shown)

IsNews(m) == m.method \in {"STATE", "ATTACK"}

\* Messages that leave a log in order, whatever the program showed before
Readable(s) == \A u : IsUser(u) => IsUser(Heard(u, s))

\* Every program's log is in order, and would be once it has read its messages
ToldInv ==
  /\ down = [p \in Ids |-> down[p]] /\ view = [p \in Ids |-> view[p]]
  /\ feed = [p \in Ids |-> feed[p]] /\ shown = [p \in Ids |-> shown[p]]
  /\ lost \in Nat
  /\ \A p \in Ids : IsSeq(down[p]) /\ IsUser(User(p)) /\ Readable(down[p])

LEMMA Handled ==
  ASSUME NEW u, IsUser(u), NEW m, IsNews(m)
  PROVE  /\ IsUser(handle_msg(u, m))
         /\ handle_msg(u, m).view = IF m.method = "STATE" THEN m.payload ELSE u.view
<1>1. CASE m.method = "STATE"
  <2>1. handle_msg(u, m) = [u EXCEPT !.view = m.payload]
    BY <1>1 DEF handle_msg, apply_state_payload
  <2> QED
    BY <1>1, <2>1 DEF IsUser
<1>2. CASE m.method = "ATTACK"
  <2>1. handle_msg(u, m) = [u EXCEPT !.feed = add_kill_feed(@, m.payload),
                                     !.shown = Append(@, m.payload)]
    BY <1>2 DEF handle_msg, on_attack_generated
  <2>2. PICK f, s : f = add_kill_feed(u.feed, m.payload) /\ s = Append(u.shown, m.payload)
    OBVIOUS
  <2>3. Ring(f, s)
    BY <2>2, RingAdd DEF IsUser
  <2>4. handle_msg(u, m) = [view |-> u.view, feed |-> f, shown |-> s]
    BY <2>1, <2>2 DEF IsUser
  <2> QED
    BY <1>2, <2>3, <2>4 DEF IsUser
<1> QED
  BY <1>1, <1>2 DEF IsNews

LEMMA ReadIs ==
  ASSUME NEW p
  PROVE  Read(p) = Heard(User(p), down[p])
  BY DEF Read, Heard, User

LEMMA ReadUser ==
  ASSUME ToldInv, NEW p \in Ids
  PROVE  IsUser(Read(p))
<1>1. PICK u, s : u = User(p) /\ s = down[p]
  OBVIOUS
<1>2. IsUser(u) /\ Readable(s) /\ Read(p) = Heard(u, s)
  BY <1>1, ReadIs DEF ToldInv
<1> QED
  BY <1>2 DEF Readable

\* No message, or one more
LEMMA ReadableFacts ==
  /\ Readable(<<>>)
  /\ \A s, m : IsSeq(s) /\ Readable(s) /\ IsNews(m) => Readable(Append(s, m))
<1>1. Readable(<<>>)
  <2>1. ASSUME NEW u, IsUser(u) PROVE IsUser(Heard(u, <<>>))
    BY <2>1, HeardFacts
  <2> QED
    BY <2>1 DEF Readable
<1>2. ASSUME NEW s, NEW m, IsSeq(s), Readable(s), IsNews(m)
      PROVE  Readable(Append(s, m))
  <2>1. ASSUME NEW u, IsUser(u) PROVE IsUser(Heard(u, Append(s, m)))
    <3>1. PICK w : w = Heard(u, s)
      OBVIOUS
    <3>5. IsSeq(s) /\ Heard(u, Append(s, m)) = handle_msg(Heard(u, s), m)
      BY <1>2, HeardFacts
    <3>2. Heard(u, Append(s, m)) = handle_msg(w, m)
      BY <3>1, <3>5
    <3>3. IsUser(w)
      BY <1>2, <2>1, <3>1 DEF Readable
    <3>4. IsUser(handle_msg(w, m))
      BY <1>2, <3>3, Handled
    <3> QED
      BY <3>2, <3>4
  <2> QED
    BY <2>1 DEF Readable
<1> QED
  BY <1>1, <1>2

\* What a message on its way does to what will have been read
LEMMA Broadcasts ==
  ASSUME ToldInv, NEW who, NEW msg, NEW full, Broadcast(who, msg, full),
         \A p \in Ids : IsNews(msg[p]),
         UNCHANGED <<view, feed, shown>>
  PROVE  /\ ToldInv'
         /\ lost' = 0 => lost = 0 /\ full = {}
         /\ \A p \in Ids \ ended :
              Read(p)' = IF p \in who \ full THEN handle_msg(Read(p), msg[p]) ELSE Read(p)
<1>1. /\ down' = [p \in Ids |-> down'[p]]
      /\ \A p \in Ids : down'[p] = IF p \in ended THEN <<>>
                                   ELSE IF p \in who \ full THEN Append(down[p], msg[p])
                                   ELSE down[p]
  BY DEF Broadcast
<1>2. \A p \in Ids : User(p)' = User(p) /\ IsUser(User(p)) /\ IsSeq(down[p]) /\ Readable(down[p])
  BY DEF User, ToldInv
<1>3. \A p : Read(p) = Heard(User(p), down[p]) /\ Read(p)' = Heard(User(p)', down'[p])
  <2>1. \A p : Read(p) = Heard(User(p), down[p])
    BY ReadIs
  <2>2. \A p : Read(p)' = Heard(User(p)', down'[p])
    BY DEF Read, Heard, User
  <2> QED
    BY <2>1, <2>2
<1>4. ASSUME NEW p \in Ids
      PROVE  /\ IsSeq(down'[p]) /\ Readable(down'[p])
             /\ p \notin ended =>
                  Read(p)' = IF p \in who \ full THEN handle_msg(Read(p), msg[p]) ELSE Read(p)
  <2>1. CASE p \in ended
    <3>1. down'[p] = <<>>
      BY <1>1, <2>1
    <3>2. IsSeq(<<>>)
      BY DEF IsSeq
    <3> QED
      BY <2>1, <3>1, <3>2, ReadableFacts
  <2>2. CASE p \notin ended /\ p \in who \ full
    <3>1. down'[p] = Append(down[p], msg[p])
      BY <1>1, <2>2
    <3>2. PICK s, m, u : s = down[p] /\ m = msg[p] /\ u = User(p)
      OBVIOUS
    <3>4. IsSeq(Append(s, m)) /\ Heard(u, Append(s, m)) = handle_msg(Heard(u, s), m)
      BY <1>2, <3>2, HeardFacts
    <3>5. IsSeq(down'[p]) /\ Read(p)' = handle_msg(Read(p), msg[p])
      BY <1>2, <1>3, <3>1, <3>2, <3>4
    <3>3. Readable(Append(s, m))
      BY <1>2, <3>2, ReadableFacts
    <3> QED
      BY <2>2, <3>1, <3>2, <3>3, <3>5
  <2>3. CASE p \notin ended /\ p \notin who \ full
    <3>1. down'[p] = down[p]
      BY <1>1, <2>3
    <3>2. Read(p)' = Read(p)
      BY <1>2, <1>3, <3>1
    <3> QED
      BY <1>2, <2>3, <3>1, <3>2
  <2> QED
    BY <2>1, <2>2, <2>3
<1>5. Cardinality(full) \in Nat /\ (Cardinality(full) = 0 => full = {})
  <2>1. full \subseteq 1..MaxNumber /\ 1 \in Int /\ MaxNumber \in Int
    BY RoomAssumption DEF Broadcast
  <2>2. IsFiniteSet(full) /\ Cardinality(full) \in Nat
    BY ONLY <2>1, IntervalSubset
  <2> QED
    BY <2>2, FS_EmptySet
<1>6. lost \in Nat /\ lost' = lost + Cardinality(full)
  BY DEF ToldInv, Broadcast
<1>7. lost' \in Nat /\ (lost' = 0 => lost = 0 /\ full = {})
  BY <1>5, <1>6
<1>8. ToldInv'
  <2>1. /\ view' = [p \in Ids |-> view'[p]] /\ feed' = [p \in Ids |-> feed'[p]]
        /\ shown' = [p \in Ids |-> shown'[p]]
    BY DEF ToldInv
  <2>2. \A p \in Ids : IsUser(User(p)')
    BY <1>2
  <2> QED
    BY <1>1, <1>4, <1>7, <2>1, <2>2 DEF ToldInv
<1> QED
  BY <1>4, <1>7, <1>8

\* A step that tells the programs nothing new of their own boards
ViewStays ==
  /\ ToldInv'
  /\ lost' = 0 => lost = 0
  /\ \A p \in Ids \ (ended' \cup quits') : /\ p \notin ended \cup quits
                                          /\ Read(p)'.view = Read(p).view

LEMMA NothingTold ==
  ASSUME ToldInv, UNCHANGED <<down, view, feed, shown, lost, ended, quits>>
  PROVE  ViewStays
<1>1. \A p : Read(p)' = Read(p) /\ User(p)' = User(p)
  BY DEF Read, User
<1>2. ToldInv'
  BY <1>1 DEF ToldInv
<1> QED
  BY <1>1, <1>2 DEF ViewStays

LEMMA AttackTold ==
  ASSUME ToldInv, NEW a, NEW full, Broadcast(Ids, AttackMsg(a), full),
         UNCHANGED <<view, feed, shown, ended, quits>>
  PROVE  ViewStays
<1>1. PICK msg : msg = AttackMsg(a)
  OBVIOUS
<1>2. \A p \in Ids : IsNews(msg[p]) /\ msg[p].method = "ATTACK"
  BY <1>1 DEF AttackMsg, IsNews
<1>3. Broadcast(Ids, msg, full)
  BY <1>1
<1>4. /\ ToldInv' /\ (lost' = 0 => lost = 0)
      /\ \A p \in Ids \ ended :
           Read(p)' = IF p \in Ids \ full THEN handle_msg(Read(p), msg[p]) ELSE Read(p)
  BY <1>2, <1>3, Broadcasts
<1>5. ASSUME NEW p \in Ids PROVE handle_msg(Read(p), msg[p]).view = Read(p).view
  <2>1. PICK u, m : u = Read(p) /\ m = msg[p]
    OBVIOUS
  <2>2. IsUser(u) /\ IsNews(m) /\ m.method = "ATTACK"
    BY <1>2, <2>1, ReadUser
  <2>3. handle_msg(u, m).view = u.view
    BY <2>2, Handled
  <2> QED
    BY <2>1, <2>3
<1> QED
  BY <1>4, <1>5 DEF ViewStays

LEMMA Reading ==
  ASSUME ToldInv, NEW p \in Ids, read_messages(p)
  PROVE  ViewStays
<1>0. PICK u : u = Read(p)
  OBVIOUS
<1>1. /\ view' = [view EXCEPT ![p] = u.view] /\ feed' = [feed EXCEPT ![p] = u.feed]
      /\ shown' = [shown EXCEPT ![p] = u.shown] /\ down' = [down EXCEPT ![p] = <<>>]
      /\ ended \subseteq ended' /\ lost' = lost /\ quits' = quits
  BY <1>0 DEF read_messages, boundVars
<1>2. /\ view' = [q \in Ids |-> view'[q]] /\ feed' = [q \in Ids |-> feed'[q]]
      /\ shown' = [q \in Ids |-> shown'[q]] /\ down' = [q \in Ids |-> down'[q]]
      /\ lost' \in Nat
  BY <1>1 DEF ToldInv
<1>3. IsUser(u)
  BY <1>0, ReadUser
<1>4. User(p)' = u /\ down'[p] = <<>>
  <2>1. view'[p] = u.view /\ feed'[p] = u.feed /\ shown'[p] = u.shown /\ down'[p] = <<>>
    BY <1>1 DEF ToldInv
  <2>2. User(p)' = [view |-> u.view, feed |-> u.feed, shown |-> u.shown]
    BY <2>1 DEF User
  <2> QED
    BY <1>3, <2>1, <2>2 DEF IsUser
<1>5. Read(p)' = u
  <2>1. Read(p)' = Heard(User(p)', down'[p])
    BY DEF Read, Heard, User
  <2> QED
    BY <1>4, <2>1, HeardFacts
<1>6. \A q \in Ids \ {p} : /\ User(q)' = User(q) /\ Read(q)' = Read(q) /\ down'[q] = down[q]
  <2>1. \A q \in Ids \ {p} : view'[q] = view[q] /\ feed'[q] = feed[q] /\ shown'[q] = shown[q] /\ down'[q] = down[q]
    BY <1>1 DEF ToldInv
  <2> QED
    BY <2>1 DEF User, Read
<1>7. IsSeq(<<>>)
  BY DEF IsSeq
<1>8. ToldInv'
  <2>1. ASSUME NEW q \in Ids PROVE IsSeq(down'[q]) /\ IsUser(User(q)') /\ Readable(down'[q])
    <3>1. CASE q = p
      BY <1>3, <1>4, <1>7, <3>1, ReadableFacts
    <3>2. CASE q # p
      BY <1>6, <3>2 DEF ToldInv
    <3> QED
      BY <3>1, <3>2
  <2> QED
    BY <1>2, <2>1 DEF ToldInv
<1>9. ASSUME NEW q \in Ids \ (ended' \cup quits')
      PROVE  q \notin ended \cup quits /\ Read(q)'.view = Read(q).view
  <2>1. CASE q = p
    BY <1>0, <1>1, <1>5, <2>1
  <2>2. CASE q # p
    BY <1>1, <1>6, <2>2
  <2> QED
    BY <2>1, <2>2
<1> QED
  BY <1>1, <1>8, <1>9 DEF ViewStays

LEMMA Quitting ==
  ASSUME ToldInv, NEW p \in Ids, NEW a, process_inputs(p, a)
  PROVE  ViewStays
<1>1. CASE a # "quit"
  BY <1>1, NothingTold DEF process_inputs
<1>2. CASE a = "quit"
  <2>1. /\ UNCHANGED <<down, feed, shown, lost, ended>> /\ quits' = quits \cup {p}
        /\ \E v : view' = [view EXCEPT ![p] = v]
    BY <1>2 DEF process_inputs
  <2>2. PICK v : view' = [view EXCEPT ![p] = v]
    BY <2>1
  <2>3. /\ view' = [q \in Ids |-> view'[q]]
        /\ \A q \in Ids : view'[q] = IF q = p THEN v ELSE view[q]
    BY <2>2 DEF ToldInv
  <2>4. \A q \in Ids \ {p} : Read(q)' = Read(q)
    BY <2>1, <2>3 DEF Read
  <2>5. ASSUME NEW q \in Ids PROVE IsUser(User(q)')
    <3>1. PICK u : u = User(q)
      OBVIOUS
    <3>2. IsUser(u) /\ u.feed = feed[q] /\ u.shown = shown[q]
      BY <3>1 DEF ToldInv, User
    <3>3. User(q)' = [view |-> view'[q], feed |-> feed[q], shown |-> shown[q]]
      BY <2>1 DEF User
    <3> QED
      BY <3>2, <3>3 DEF IsUser
  <2>6. ToldInv'
    <3>1. /\ down' = [q \in Ids |-> down'[q]] /\ feed' = [q \in Ids |-> feed'[q]]
          /\ shown' = [q \in Ids |-> shown'[q]] /\ lost' \in Nat
          /\ \A q \in Ids : IsSeq(down'[q]) /\ Readable(down'[q])
      BY <2>1 DEF ToldInv
    <3> QED
      BY <2>3, <2>5, <3>1 DEF ToldInv
  <2> QED
    BY <2>1, <2>4, <2>6 DEF ViewStays
<1> QED
  BY <1>1, <1>2

-----------------------------------------------------------------------------
(* Whatever changes what a player is shown leaves the slot marked for a push. *)

\* A slot that is not marked afterwards was not before, and shows the same
Marked(p, s, t) ==
  ~t.dirty => ~s.dirty /\ build_state_payload(p, t) = build_state_payload(p, s)

MarksAll == \A p \in Ids : Marked(p, slots[p], slots'[p])

LEMMA AssignMarks ==
  ASSUME Shape, NEW q \in Ids, NEW t, slots' = [slots EXCEPT ![q] = t], t.dirty
  PROVE  MarksAll
<1>1. \A p \in Ids : slots'[p] = IF p = q THEN t ELSE slots[p]
  BY DEF Shape
<1> QED
  BY <1>1 DEF MarksAll, Marked

LEMMA StillMarks ==
  ASSUME UNCHANGED slots
  PROVE  MarksAll
  BY DEF MarksAll, Marked

LEMMA RoomMarks ==
  ASSUME Shape, Next, ~push_state, ~room_over
  PROVE  MarksAll
<1>0. \A p \in Ids : IsSlot(slots[p])
  BY DEF Shape
<1>1. CASE drain
  <2> DEFINE m == Head(up)
             a == PlayerAction[m.payload]
             q == m.id
  <2>1. m \in ActionMsg
    BY <1>1 DEF drain, Shape
  <2>2. a \in Range(PlayerAction) /\ q \in Ids
    BY <2>1 DEF ActionMsg, Range
  <2>3. CASE UNCHANGED slots
    BY <2>3, StillMarks
  <2>4. ASSUME NEW l, slots' = [slots EXCEPT ![q] = apply_action(@, q, a, l)]
        PROVE  MarksAll
    <3>1. PICK s : s = Acted(slots[q], q, a, l)
      OBVIOUS
    <3>2. PICK t : t = apply_action(slots[q], q, a, l)
      OBVIOUS
    <3>3. IsSlot(t) /\ t = [s EXCEPT !.dirty = TRUE]
      BY <1>0, <2>2, <3>1, <3>2, ActedSlot DEF apply_action
    <3>4. t.dirty
      <4>1. DOMAIN t = DOMAIN s /\ DOMAIN t = SlotFields
        BY <3>3 DEF IsSlot
      <4>2. "dirty" \in DOMAIN s
        BY <4>1 DEF SlotFields
      <4> QED
        BY <3>3, <4>2
    <3> HIDE DEF q, a
    <3> QED
      BY <2>2, <2>4, <3>2, <3>4, AssignMarks
  <2>5. UNCHANGED slots \/ \E l : slots' = [slots EXCEPT ![q] = apply_action(@, q, a, l)]
    BY <1>1 DEF drain
  <2> QED
    BY <2>3, <2>4, <2>5
<1>a. ASSUME NEW s, IsSlot(s), NEW from, NEW lines PROVE Hit(s, from, lines).dirty
  BY <1>a DEF Hit, IsSlot, SlotFields
<1>2. CASE hub_garbage
  <2> DEFINE a == Head(hub_in).body
             q == a.to
  <2>1. \/ UNCHANGED slots
        \/ /\ q \in Ids
           /\ slots' = [slots EXCEPT ![q] = Hit(@, a.from, a.lines)]
    BY <1>2 DEF hub_garbage
  <2>2. CASE q \in Ids /\ slots' = [slots EXCEPT ![q] = Hit(@, a.from, a.lines)]
    <3>1. PICK t : t = Hit(slots[q], a.from, a.lines)
      OBVIOUS
    <3>2. t.dirty
      BY <1>0, <1>a, <2>2, <3>1
    <3> HIDE DEF q, a
    <3> QED
      BY <2>2, <3>1, <3>2, AssignMarks
  <2> QED
    BY <2>1, <2>2, StillMarks
<1>3. CASE tick_session
  <2>1. PICK t \in [Ids -> Ticks] :
          LET ticked == [p \in Ids |-> tick_slot(slots[p], t[p])]
          IN  slots' = [p \in Ids |-> [ticked[p] EXCEPT !.reported = @ \/ Gone(ticked[p])]]
    BY <1>3 DEF tick_session
  <2> DEFINE S(p) == tick_slot(slots[p], t[p])
  <2>2. \A p \in Ids : slots'[p] = [S(p) EXCEPT !.reported = @ \/ Gone(S(p))]
    BY <2>1
  <2>3. \A p \in Ids : IsSlot(S(p)) /\ (t[p].kind = "still" => S(p) = slots[p])
    BY <1>0, TickSlot
  <2>4. ASSUME NEW p \in Ids, t[p].kind # "still" PROVE S(p).dirty
    <3>1. PICK s : s = Moved(slots[p], t[p])
      OBVIOUS
    <3>2. S(p) = [s EXCEPT !.dirty = TRUE]
      BY <2>4, <3>1 DEF tick_slot
    <3>3. "dirty" \in DOMAIN S(p)
      <4> HIDE DEF S
      <4> QED
        BY <2>3 DEF IsSlot, SlotFields
    <3> HIDE DEF S
    <3> QED
      BY <3>2, <3>3
  <2> HIDE DEF S
  <2>5. ASSUME NEW p \in Ids PROVE Marked(p, slots[p], slots'[p])
    <3>1. PICK s, z : s = S(p) /\ z = slots'[p]
      OBVIOUS
    <3>2. IsSlot(s) /\ z = [s EXCEPT !.reported = @ \/ Gone(s)]
      BY <2>2, <2>3, <3>1
    <3>3. /\ z.dirty = s.dirty /\ z.board = s.board /\ z.pending = s.pending
          /\ z.target = s.target /\ z.mode = s.mode /\ z.game_over = s.game_over
          /\ z.winner = s.winner
      BY <3>2, ZenonT(40) DEF IsSlot, SlotFields
    <3>4. build_state_payload(p, z) = build_state_payload(p, s)
      BY <3>3 DEF build_state_payload
    <3>5. CASE t[p].kind = "still"
      BY <2>3, <3>1, <3>3, <3>4, <3>5 DEF Marked
    <3>6. CASE t[p].kind # "still"
      BY <2>4, <3>1, <3>3, <3>6 DEF Marked
    <3> QED
      BY <3>5, <3>6
  <2> QED
    BY <2>5 DEF MarksAll
<1>4. CASE route_garbage
  <2> DEFINE q == Head(Attackers(slots))
             taken == [slots EXCEPT ![q].outgoing = 0]
  <2>1. PICK v : LET a == [from |-> q, to |-> v, lines |-> slots[q].outgoing]
                 IN  slots' = IF Strikes(q, v) THEN [taken EXCEPT ![v] = Hit(@, q, a.lines)] ELSE taken
    BY <1>4 DEF route_garbage
  <2>2. taken = [p \in Ids |-> taken[p]] /\ \A p \in Ids : taken[p] = IF p = q THEN [slots[p] EXCEPT !.outgoing = 0] ELSE slots[p]
    BY DEF Shape
  <2>3. \A p \in Ids : IsSlot(taken[p]) /\ Marked(p, slots[p], taken[p])
    <3> HIDE DEF taken, q
    <3>1. ASSUME NEW p \in Ids PROVE IsSlot(taken[p]) /\ Marked(p, slots[p], taken[p])
      <4>1. PICK s, z : s = slots[p] /\ z = taken[p]
        OBVIOUS
      <4>2. IsSlot(s) /\ (z = s \/ z = [s EXCEPT !.outgoing = 0])
        BY <1>0, <2>2, <4>1
      <4>3. /\ IsSlot(z) /\ z.dirty = s.dirty /\ z.board = s.board /\ z.pending = s.pending
            /\ z.target = s.target /\ z.mode = s.mode /\ z.game_over = s.game_over
            /\ z.winner = s.winner
        BY <4>2 DEF IsSlot, SlotFields
      <4> QED
        BY <4>1, <4>3 DEF Marked, build_state_payload
    <3> QED
      BY <3>1
  <2>4. CASE slots' = taken
    <3> HIDE DEF taken, q
    <3> QED
      BY <2>3, <2>4 DEF MarksAll
  <2>5. CASE Strikes(q, v) /\ slots' = [taken EXCEPT ![v] = Hit(@, q, slots[q].outgoing)]
    <3>1. v \in Ids
      BY <2>5 DEF Strikes
    <3>2. Hit(taken[v], q, slots[q].outgoing).dirty
      BY <1>a, <2>3, <3>1
    <3> HIDE DEF taken, q
    <3>3. \A p \in Ids : slots'[p] = IF p = v THEN Hit(taken[v], q, slots[q].outgoing) ELSE taken[p]
      BY <2>2, <2>5, <3>1
    <3> QED
      BY <2>3, <3>2, <3>3 DEF MarksAll, Marked
  <2> QED
    BY <2>1, <2>4, <2>5
<1>7. CASE hub_feed \/ hub_roster \/ hub_gameover
  BY <1>7, StillMarks DEF hub_feed, hub_roster, hub_gameover
<1>8. ASSUME NEW p \in Ids, read_messages(p) \/ \E a \in Range(PlayerAction) : process_inputs(p, a)
      PROVE  MarksAll
  BY <1>8, StillMarks DEF read_messages, process_inputs, roomVars
<1>9. ASSUME master_handles \/ \E r \in Remote : remote_dies(r) \/ \E v \in Struck : remote_attacks(r, v)
      PROVE  MarksAll
  BY <1>9, StillMarks DEF master_handles, remote_dies, remote_attacks, roomVars
<1> QED
  BY <1>1, <1>2, <1>3, <1>4, <1>7, <1>8, <1>9 DEF Next, RoomStep

LEMMA QuietStep ==
  ASSUME ToldInv, Next, ~push_state, ~room_over
  PROVE  ViewStays /\ (pc' # "ended" => pc # "ended")
<1> DEFINE G == ViewStays /\ (pc' # "ended" => pc # "ended")
<1>1. CASE drain
  BY <1>1, NothingTold DEF drain, userVars, boundVars
<1>2. CASE hub_garbage
  <2>1. UNCHANGED <<view, feed, shown, ended, quits>> /\ pc # "ended"
    BY <1>2 DEF hub_garbage, FromHub, AtHub, userVars
  <2>2. (\E a, full : Broadcast(Ids, AttackMsg(a), full)) \/ UNCHANGED <<down, lost>>
    BY <1>2 DEF hub_garbage
  <2> QED
    BY <2>1, <2>2, NothingTold, AttackTold
<1>3. CASE hub_feed
  <2>1. UNCHANGED <<view, feed, shown, ended, quits>> /\ pc # "ended"
    BY <1>3 DEF hub_feed, FromHub, AtHub, userVars
  <2>2. \E a, full : Broadcast(Ids, AttackMsg(a), full)
    BY <1>3 DEF hub_feed
  <2> QED
    BY <2>1, <2>2, AttackTold
<1>4. CASE hub_roster \/ hub_gameover
  BY <1>4, NothingTold DEF hub_roster, hub_gameover, FromHub, AtHub, userVars
<1>5. CASE tick_session
  BY <1>5, NothingTold DEF tick_session, AtHub, userVars
<1>6. CASE route_garbage
  <2>1. UNCHANGED <<view, feed, shown, ended, quits>> /\ pc # "ended"
    BY <1>6 DEF route_garbage, userVars
  <2>2. (\E a, full : Broadcast(Ids, AttackMsg(a), full)) \/ UNCHANGED <<down, lost>>
    BY <1>6 DEF route_garbage
  <2> QED
    BY <2>1, <2>2, NothingTold, AttackTold
<1>7. ASSUME NEW p \in Ids, read_messages(p) PROVE G
  BY <1>7, Reading DEF read_messages, roomVars
<1>8. ASSUME NEW p \in Ids, NEW a, process_inputs(p, a) PROVE G
  BY <1>8, Quitting DEF process_inputs, roomVars
<1>9. ASSUME master_handles \/ \E r \in Remote : remote_dies(r) \/ \E v \in Struck : remote_attacks(r, v)
      PROVE  G
  BY <1>9, NothingTold DEF master_handles, remote_dies, remote_attacks, roomVars, userVars, boundVars
<1> QED
  BY <1>1, <1>2, <1>3, <1>4, <1>5, <1>6, <1>7, <1>8, <1>9 DEF Next, RoomStep

\* The states that are pushed
LEMMA PushTold ==
  ASSUME Shape, ToldInv, push_state
  PROVE  /\ ToldInv' /\ (lost' = 0 => lost = 0) /\ UNCHANGED <<ended, quits>> /\ pc # "ended"
         /\ \A p \in Ids \ ended :
              /\ build_state_payload(p, slots'[p]) = build_state_payload(p, slots[p])
              /\ lost' = 0 => Read(p)'.view = IF Due(slots[p]) THEN build_state_payload(p, slots[p])
                                              ELSE Read(p).view
<1>1. PICK who, msg, full :
        /\ who = {p \in Ids : Due(slots[p])} /\ msg = [p \in Ids |-> StateMsg(p, slots[p])]
        /\ Broadcast(who, msg, full)
  BY DEF push_state
<1>2. UNCHANGED <<view, feed, shown, ended, quits>> /\ pc # "ended"
  BY DEF push_state, userVars
<1>3. \A p \in Ids : /\ IsNews(msg[p]) /\ msg[p].method = "STATE"
                     /\ msg[p].payload = build_state_payload(p, slots[p])
  BY <1>1 DEF StateMsg, IsNews
<1>4. /\ ToldInv' /\ (lost' = 0 => lost = 0 /\ full = {})
      /\ \A p \in Ids \ ended :
           Read(p)' = IF p \in who \ full THEN handle_msg(Read(p), msg[p]) ELSE Read(p)
  BY <1>1, <1>2, <1>3, Broadcasts
<1>5. ASSUME NEW p \in Ids
      PROVE  handle_msg(Read(p), msg[p]).view = build_state_payload(p, slots[p])
  <2>1. PICK u, m : u = Read(p) /\ m = msg[p]
    OBVIOUS
  <2>2. IsUser(u) /\ IsNews(m) /\ m.method = "STATE"
    BY <1>3, <2>1, ReadUser
  <2>3. handle_msg(u, m).view = m.payload
    BY <2>2, Handled
  <2> QED
    BY <1>3, <2>1, <2>3
<1>6. ASSUME NEW p \in Ids
      PROVE  build_state_payload(p, slots'[p]) = build_state_payload(p, slots[p])
  <2>1. PICK s, z : s = slots[p] /\ z = slots'[p]
    OBVIOUS
  <2>2. IsSlot(s) /\ z = Pushed(s)
    BY <2>1 DEF push_state, Shape
  <2>3. /\ z.board = s.board /\ z.pending = s.pending /\ z.target = s.target /\ z.mode = s.mode
        /\ z.game_over = s.game_over /\ z.winner = s.winner
    BY <2>2 DEF Pushed, IsSlot, SlotFields
  <2> QED
    BY <2>1, <2>3 DEF build_state_payload
<1>7. ASSUME NEW p \in Ids \ ended, lost' = 0
      PROVE  Read(p)'.view = IF Due(slots[p]) THEN build_state_payload(p, slots[p]) ELSE Read(p).view
  <2>1. p \in who \ full <=> Due(slots[p])
    BY <1>1, <1>4, <1>7
  <2> QED
    BY <1>4, <1>5, <2>1
<1> QED
  BY <1>2, <1>4, <1>6, <1>7

LEMMA OverTold ==
  ASSUME ToldInv, room_over
  PROVE  ToldInv' /\ pc' = "ended"
<1>1. PICK who, msg, full :
        /\ msg = [p \in Ids |-> StateMsg(p, slots'[p])] /\ Broadcast(who, msg, full)
  BY DEF room_over
<1>2. UNCHANGED <<view, feed, shown>> /\ pc' = "ended"
  BY DEF room_over, userVars
<1>3. \A p \in Ids : IsNews(msg[p])
  BY <1>1 DEF StateMsg, IsNews
<1> QED
  BY <1>1, <1>2, <1>3, Broadcasts

LEMMA ToldInit ==
  ASSUME Init
  PROVE  ToldInv /\ ViewCurrent
<1>1. ASSUME NEW p \in Ids
      PROVE  IsSeq(down[p]) /\ IsUser(User(p)) /\ Readable(down[p])
  <2>1. down[p] = <<>>
    BY DEF Init
  <2>2. IsSeq(<<>>)
    BY DEF IsSeq
  <2>3. Readable(<<>>)
    BY ReadableFacts
  <2>4. PICK f : f = feed[p]
    OBVIOUS
  <2>5. f = [entries |-> [i \in 0..(KILL_FEED_MAX - 1) |-> NoAttack], head |-> 0, count |-> 0]
    BY <2>4 DEF Init
  <2>6. Ring(f, <<>>)
    BY <2>2, <2>5, Size DEF Ring
  <2>7. shown[p] = <<>>
    BY DEF Init
  <2>8. IsUser(User(p))
    BY <2>4, <2>6, <2>7 DEF User, IsUser
  <2> QED
    BY <2>1, <2>2, <2>3, <2>8
<1>2. /\ down = [p \in Ids |-> down[p]] /\ view = [p \in Ids |-> view[p]]
      /\ feed = [p \in Ids |-> feed[p]] /\ shown = [p \in Ids |-> shown[p]]
      /\ lost \in Nat
  BY DEF Init
<1>3. \A p \in Ids : slots[p].dirty
  BY DEF Init, init_session
<1> QED
  BY <1>1, <1>2, <1>3 DEF ToldInv, ViewCurrent

LEMMA ToldStep ==
  ASSUME Shape, ToldInv, ViewCurrent, Next
  PROVE  ToldInv' /\ ViewCurrent'
<1>1. CASE ~push_state /\ ~room_over
  <2>1. ViewStays /\ MarksAll /\ (pc' # "ended" => pc # "ended")
    BY <1>1, QuietStep, RoomMarks
  <2>2. ASSUME NEW p \in Ids \ (ended' \cup quits'), lost' = 0, ~slots'[p].dirty, pc' # "ended"
        PROVE  Read(p)'.view = build_state_payload(p, slots'[p])
    <3>1. p \in Ids \ (ended \cup quits) /\ lost = 0 /\ pc # "ended" /\ Read(p)'.view = Read(p).view
      BY <2>1, <2>2 DEF ViewStays
    <3>2. ~slots[p].dirty /\ build_state_payload(p, slots'[p]) = build_state_payload(p, slots[p])
      BY <2>1, <2>2 DEF MarksAll, Marked
    <3>3. Read(p).view = build_state_payload(p, slots[p])
      BY <3>1, <3>2 DEF ViewCurrent
    <3> QED
      BY <3>1, <3>2, <3>3
  <2>3. ViewCurrent'
    BY <2>2 DEF ViewCurrent
  <2> QED
    BY <2>1, <2>3 DEF ViewStays
<1>2. CASE push_state
  <2>1. /\ ToldInv' /\ (lost' = 0 => lost = 0) /\ UNCHANGED <<ended, quits>> /\ pc # "ended"
        /\ \A p \in Ids \ ended :
             /\ build_state_payload(p, slots'[p]) = build_state_payload(p, slots[p])
             /\ lost' = 0 => Read(p)'.view = IF Due(slots[p]) THEN build_state_payload(p, slots[p])
                                             ELSE Read(p).view
    BY <1>2, PushTold
  <2>2. ASSUME NEW p \in Ids \ (ended' \cup quits'), lost' = 0
        PROVE  Read(p)'.view = build_state_payload(p, slots'[p])
    <3>1. CASE Due(slots[p])
      BY <2>1, <2>2, <3>1
    <3>2. CASE ~Due(slots[p])
      <4>1. ~slots[p].dirty
        BY <3>2 DEF Due
      <4>2. Read(p).view = build_state_payload(p, slots[p])
        BY <2>1, <2>2, <4>1 DEF ViewCurrent
      <4> QED
        BY <2>1, <2>2, <3>2, <4>2
    <3> QED
      BY <3>1, <3>2
  <2>3. ViewCurrent'
    BY <2>2 DEF ViewCurrent
  <2> QED
    BY <2>1, <2>3
<1>3. CASE room_over
  BY <1>3, OverTold DEF ViewCurrent
<1> QED
  BY <1>1, <1>2, <1>3

LEMMA ToldHolds == Spec => [](ToldInv /\ ViewCurrent)
<1>1. Init => ToldInv /\ ViewCurrent
  BY ToldInit
<1>2. Shape /\ (ToldInv /\ ViewCurrent) /\ [Next]_vars => (ToldInv /\ ViewCurrent)'
  <2>1. CASE UNCHANGED vars
    <3>1. /\ UNCHANGED <<down, view, feed, shown, lost, ended, quits, slots, pc>>
      BY <2>1 DEF vars, roomVars, netVars, userVars, boundVars
    <3>2. \A p : Read(p)' = Read(p)
      BY <3>1 DEF Read
    <3>3. ViewCurrent => ViewCurrent'
      BY <3>1, <3>2 DEF ViewCurrent
    <3>4. ToldInv => ToldInv'
      BY <3>1, NothingTold DEF ViewStays
    <3> QED
      BY <3>3, <3>4
  <2>2. CASE Next
    BY <2>2, ToldStep
  <2> QED
    BY <2>1, <2>2
<1> QED
  BY <1>1, <1>2, ShapeHolds, PTL DEF Spec

\* As long as no message met a full queue, a slot that is not marked for a push is
\* a slot whose player's program, once it has read what is on its way, shows the
\* room's own board, meter, target and mode: no key, tick, attack or push, in any
\* order, changes one without the other (game.c:59-168, room.c:54-72 and 324-328)
THEOREM ProgramsShowRoom == Spec => []ViewCurrent
  BY ToldHolds, PTL

\* The battle log of every program shows the latest attacks it was told of, oldest
\* first, however often the ring has gone around (killfeed.c:12-40)
THEOREM FeedShowsLatest == Spec => []FeedKeepsLast
<1>1. ToldInv => FeedKeepsLast
  <2> SUFFICES ASSUME ToldInv, NEW p \in Ids
               PROVE  draw_kill_feed(feed[p])
                        = SubSeq(shown[p], Max({1, Len(shown[p]) - KILL_FEED_MAX + 1}), Len(shown[p]))
    BY DEF FeedKeepsLast
  <2>1. Ring(feed[p], shown[p])
    BY DEF ToldInv, IsUser, User
  <2>2. PICK f, s : f = feed[p] /\ s = shown[p]
    OBVIOUS
  <2> QED
    BY <2>1, <2>2, RingShows
<1> QED
  BY <1>1, ToldHolds, PTL
=============================================================================
