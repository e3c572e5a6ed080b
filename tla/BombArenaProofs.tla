-------------------------- MODULE BombArenaProofs --------------------------
(***************************************************************************)
(* Proofs about the arena, for any number of players, any map, queue size  *)
(* and number of bombs.                                                    *)
(*                                                                         *)
(* Nobody has more bombs out than the inventory allows (BombBudget).  It   *)
(* is not inductive: a bomb comes back to the hand when the replenish      *)
(* timer runs out, which says nothing of the bombs on the floor.  Within   *)
(* adds that a player's fuses never run longer than that timer: both start *)
(* together, and tick_session moves the timer before the fuses, so when it *)
(* runs out every fuse of that player runs out in the same tick (the state *)
(* in between is Midway).  The loops of the tick are followed turn by      *)
(* turn; tick_bombs removes from the queue it walks through by moving the  *)
(* last entry into the hole.                                               *)
(*                                                                         *)
(* A client that has played back what is on its way shows the server's map *)
(* (MirrorCurrent) and nobody disagrees about the winner (OutcomeAgrees);  *)
(* while the queues have room, every bomb and fire on the map is in its    *)
(* queue and the other way round (TilesAccounted); and the outer wall      *)
(* stands, so that no box leaves the arena and no tile outside it is       *)
(* looked up.                                                              *)
(***************************************************************************)
EXTENDS BombArena, NatFacts, SequenceTheorems

-----------------------------------------------------------------------------
(* Worlds, players and bombs keep their fields *)

WorldFields == {"map", "pending", "bombs", "explodes", "players", "dirty"}
PlayerFields == {"alive", "pos", "dx", "dy", "is_moving", "num_bombs", "remaining",
                 "num_fires", "replenish"}
BombFields == {"pos", "spread", "timer", "by"}

IsWorld(w) == w = [f \in WorldFields |-> w[f]]

IsPlayer(p) ==
    /\ p = [f \in PlayerFields |-> p[f]]
    /\ p.num_bombs \in Nat /\ p.remaining \in Nat /\ p.replenish \in Nat

IsBomb(b) == b = [f \in BombFields |-> b[f]] /\ b.timer \in Int

IsQueue(q) == q \in Seq(Range(q)) /\ \A i \in 1 .. Len(q) : IsBomb(q[i])

IsTeam(ps) == ps = [k \in 1 .. lobby |-> ps[k]] /\ \A k \in 1 .. lobby : IsPlayer(ps[k])

IsList(q) == q \in Seq(Range(q))

Typed(w) == IsWorld(w) /\ IsTeam(w.players) /\ IsQueue(w.bombs) /\ IsList(w.explodes)

\* The places in the queue of the bombs of player k
Mine(q, k) == {i \in 1 .. Len(q) : q[i].by = k}

\* Hand and floor together, and no fuse that outlasts the replenish timer
Within(q, p, k) ==
    /\ Cardinality(Mine(q, k)) + p.remaining <= p.num_bombs
    /\ \A i \in Mine(q, k) : q[i].timer \in 1 .. BombTime /\ q[i].timer <= p.replenish

\* The same between the players' part of a tick and tick_bombs
Midway(q, p, k) ==
    /\ \A i \in Mine(q, k) : q[i].timer \in 1 .. BombTime /\ q[i].timer <= p.replenish + 1
    /\ \/ Cardinality(Mine(q, k)) + p.remaining <= p.num_bombs
       \/ p.remaining <= p.num_bombs /\ \A i \in Mine(q, k) : q[i].timer = 1

Good(w) == Typed(w) /\ \A k \in 1 .. lobby : Within(w.bombs, w.players[k], k)
HalfWay(w) == Typed(w) /\ \A k \in 1 .. lobby : Midway(w.bombs, w.players[k], k)

BudgetInv ==
    /\ lobby \in Nat
    /\ stage \in {"lobby", "match", "over", "closed"}
    /\ stage \in {"lobby", "closed"} => world = <<>>
    /\ stage \in {"match", "over"} => Good(world)

LEMMA Times ==
  /\ BombTime \in Nat \ {0} /\ ReplenishTime \in Nat \ {0} /\ BombTime <= ReplenishTime
  /\ QueueSize \in Nat \ {0}
  BY ArenaAssumption

LEMMA OnlyOne == \A x : Only({x}) = x
  BY DEF Only

\* Assigning any field of a world leaves a world
LEMMA WorldExcept ==
  ASSUME NEW w, IsWorld(w), NEW v
  PROVE  /\ IsWorld([w EXCEPT !.dirty = v])
         /\ IsWorld([w EXCEPT !.players = v])
         /\ IsWorld([w EXCEPT !.bombs = v])
         /\ IsWorld([w EXCEPT !.map = v])
  BY DEF IsWorld, WorldFields

LEMMA MineFinite ==
  ASSUME NEW q, Len(q) \in Nat, NEW k
  PROVE  IsFiniteSet(Mine(q, k)) /\ Cardinality(Mine(q, k)) \in Nat
<1>1. Mine(q, k) \subseteq 1 .. Len(q)
  BY DEF Mine
<1> QED
  BY <1>1, IntervalSubset

LEMMA QueueLen ==
  ASSUME NEW q, IsQueue(q)
  PROVE  Len(q) \in Nat /\ DOMAIN q = 1 .. Len(q) /\ q = [i \in 1 .. Len(q) |-> q[i]]
  BY DEF IsQueue

LEMMA ListOf ==
  ASSUME NEW n \in Nat, NEW q, q = [i \in 1 .. n |-> q[i]]
  PROVE  IsList(q) /\ Len(q) = n
<1>1. q \in [1 .. n -> Range(q)]
  BY DEF Range
<1> QED
  BY <1>1 DEF IsList

\* Any function over 1..n whose values are bombs is a queue
LEMMA QueueOf ==
  ASSUME NEW n \in Nat, NEW q, q = [i \in 1 .. n |-> q[i]], \A i \in 1 .. n : IsBomb(q[i])
  PROVE  IsQueue(q) /\ Len(q) = n
  BY ListOf DEF IsList, IsQueue

-----------------------------------------------------------------------------
(* The messages of the players *)

LEMMA AppendBomb ==
  ASSUME NEW q, IsQueue(q), NEW b, IsBomb(b)
  PROVE  /\ IsQueue(Append(q, b)) /\ Len(Append(q, b)) = Len(q) + 1
         /\ Append(q, b)[Len(q) + 1] = b
         /\ \A i \in 1 .. Len(q) : Append(q, b)[i] = q[i]
<1> DEFINE X == Range(q) \cup {b}
           r == Append(q, b)
<1>1. q \in Seq(X) /\ b \in X /\ Len(q) \in Nat
  BY DEF IsQueue
<1> HIDE DEF X
<1>2. /\ r \in Seq(X) /\ Len(r) = Len(q) + 1 /\ r[Len(q) + 1] = b
      /\ \A i \in 1 .. Len(q) : r[i] = q[i]
  BY <1>1
<1> HIDE DEF r
<1>3. r = [i \in 1 .. (Len(q) + 1) |-> r[i]]
  <2>1. r \in Seq(X) /\ Len(r) = Len(q) + 1
    BY <1>2
  <2> QED
    BY ONLY <2>1
<1>4. \A i \in 1 .. (Len(q) + 1) : IsBomb(r[i])
  BY <1>1, <1>2 DEF IsQueue
<1>5. IsQueue(r)
  BY <1>1, <1>3, <1>4, QueueOf
<1> QED
  BY <1>2, <1>5 DEF r

LEMMA AppendMine ==
  ASSUME NEW q, IsQueue(q), NEW b, IsBomb(b), NEW k
  PROVE  /\ Cardinality(Mine(Append(q, b), k))
              <= Cardinality(Mine(q, k)) + IF b.by = k THEN 1 ELSE 0
         /\ \A i \in Mine(Append(q, b), k) :
              \/ i \in Mine(q, k) /\ Append(q, b)[i] = q[i]
              \/ b.by = k /\ Append(q, b)[i] = b
<1> DEFINE r == Append(q, b)
           n == Len(q) + 1
<1>1. Len(q) \in Nat /\ Len(r) = n /\ r[n] = b /\ \A i \in 1 .. Len(q) : r[i] = q[i]
  BY AppendBomb, QueueLen
<1> HIDE DEF r
<1>2. Mine(r, k) = IF b.by = k THEN Mine(q, k) \cup {n} ELSE Mine(q, k)
  BY <1>1 DEF Mine
<1>3. n \notin Mine(q, k)
  BY <1>1 DEF Mine
<1>4. IsFiniteSet(Mine(q, k)) /\ Cardinality(Mine(q, k)) \in Nat
  BY <1>1, MineFinite
<1>5. Cardinality(Mine(q, k) \cup {n}) = Cardinality(Mine(q, k)) + 1
  BY <1>3, <1>4, FS_AddElement
<1>6. \A i \in Mine(r, k) : (i \in Mine(q, k) /\ r[i] = q[i]) \/ (b.by = k /\ r[i] = b)
  BY <1>1, <1>2 DEF Mine
<1>7. Cardinality(Mine(r, k)) <= Cardinality(Mine(q, k)) + IF b.by = k THEN 1 ELSE 0
  BY <1>2, <1>4, <1>5
<1> QED
  BY <1>6, <1>7 DEF r

\* A player's record changes in fields that do not count
LEMMA SameBudget ==
  ASSUME NEW w, Good(w), NEW v, IsWorld(v), v.bombs = w.bombs,
         v.explodes = w.explodes, IsTeam(v.players),
         \A k \in 1 .. lobby : /\ v.players[k].num_bombs = w.players[k].num_bombs
                               /\ v.players[k].remaining = w.players[k].remaining
                               /\ v.players[k].replenish = w.players[k].replenish
  PROVE  Good(v)
  BY DEF Good, Typed, Within

LEMMA MoveGood ==
  ASSUME NEW w, Good(w), NEW k \in 1 .. lobby, NEW d
  PROVE  Good(apply_move(w, k, d))
<1> DEFINE p == w.players[k]
           r == [p EXCEPT !.dx = d[1], !.dy = d[2]]
           v == [w EXCEPT !.players[k].dx = d[1], !.players[k].dy = d[2]]
<1>1. IsWorld(w) /\ IsTeam(w.players) /\ IsPlayer(p)
  BY DEF Good, Typed, IsTeam
<1>2. IsPlayer(r) /\ r.num_bombs = p.num_bombs /\ r.remaining = p.remaining /\ r.replenish = p.replenish
  BY <1>1 DEF IsPlayer, PlayerFields
<1>3. v = [w EXCEPT !.players = [w.players EXCEPT ![k] = r]]
  BY <1>1 DEF IsWorld, WorldFields, IsTeam, IsPlayer, PlayerFields
<1>4. /\ IsWorld(v) /\ v.bombs = w.bombs /\ v.explodes = w.explodes
      /\ v.players = [w.players EXCEPT ![k] = r]
  BY <1>1, <1>3 DEF IsWorld, WorldFields
<1> HIDE DEF v, r
<1>5. IsTeam(v.players) /\ \A j \in 1 .. lobby : v.players[j] = IF j = k THEN r ELSE w.players[j]
  BY <1>1, <1>2, <1>4 DEF IsTeam
<1>6. Good(v)
  BY <1>2, <1>4, <1>5, SameBudget
<1> QED
  BY <1>6 DEF apply_move, v

LEMMA ConsumeTyped ==
  ASSUME NEW p, IsPlayer(p), p.remaining > 0
  PROVE  /\ IsPlayer(consume_bomb(p))
         /\ consume_bomb(p).num_bombs = p.num_bombs
         /\ consume_bomb(p).remaining = p.remaining - 1
         /\ consume_bomb(p).replenish = ReplenishTime
<1> DEFINE r == consume_bomb(p)
<1>1. p = [f \in PlayerFields |-> p[f]]
  BY DEF IsPlayer
<1>2. /\ r = [f \in PlayerFields |-> r[f]] /\ r.num_bombs = p.num_bombs
      /\ r.remaining = p.remaining - 1 /\ r.replenish = ReplenishTime
  BY <1>1 DEF consume_bomb, PlayerFields
<1> HIDE DEF r
<1>3. r.num_bombs \in Nat /\ r.remaining \in Nat /\ r.replenish \in Nat
  BY <1>2, Times DEF IsPlayer
<1>4. IsPlayer(r)
  BY <1>2, <1>3 DEF IsPlayer
<1> QED
  BY <1>2, <1>4 DEF r

LEMMA PlaceGood ==
  ASSUME NEW w, Good(w), NEW k \in 1 .. lobby, lobby \in Nat
  PROVE  Good(apply_bomb_place(w, k))
<1> DEFINE p == w.players[k]
           q == w.bombs
           t == get_center_box(p.pos)
           b == [pos |-> t, spread |-> p.num_fires, timer |-> BombTime, by |-> k]
           r == consume_bomb(p)
           n == IF Len(q) < QueueSize THEN Append(q, b) ELSE q
           v == [w EXCEPT !.map[t] = "BOMB",
                          !.bombs = IF Len(@) < QueueSize THEN Append(@, b) ELSE @,
                          !.players[k] = consume_bomb(@)]
<1>1. IsWorld(w) /\ IsTeam(w.players) /\ IsPlayer(p) /\ IsQueue(q)
  BY DEF Good, Typed, IsTeam
<1>2. apply_bomb_place(w, k) = w \/ (p.remaining > 0 /\ apply_bomb_place(w, k) = v)
  BY <1>1 DEF apply_bomb_place, place_bomb, IsPlayer
<1> SUFFICES ASSUME p.remaining > 0 PROVE Good(v)
  BY <1>2
<1>3. IsPlayer(r) /\ r.num_bombs = p.num_bombs /\ r.remaining = p.remaining - 1 /\ r.replenish = ReplenishTime
  BY <1>1, ConsumeTyped
<1>4. IsBomb(b) /\ b.by = k /\ b.timer = BombTime
  BY Times DEF IsBomb, BombFields
<1>5. /\ IsWorld(v) /\ v.bombs = n /\ v.explodes = w.explodes
      /\ v.players = [w.players EXCEPT ![k] = r]
  BY <1>1 DEF IsWorld, WorldFields
<1> HIDE DEF v, r, b
<1>6. IsTeam(v.players) /\ \A j \in 1 .. lobby : v.players[j] = IF j = k THEN r ELSE w.players[j]
  BY <1>1, <1>3, <1>5 DEF IsTeam
<1>7. IsQueue(n)
  BY <1>1, <1>4, AppendBomb
<1>8. ASSUME NEW j
      PROVE  /\ Cardinality(Mine(n, j)) <= Cardinality(Mine(q, j)) + IF j = k THEN 1 ELSE 0
             /\ \A i \in Mine(n, j) : \/ i \in Mine(q, j) /\ n[i] = q[i]
                                      \/ j = k /\ n[i] = b
  <2>1. CASE Len(q) < QueueSize
    <3>1. n = Append(q, b)
      BY <2>1
    <3> HIDE DEF n, q
    <3>2. /\ Cardinality(Mine(Append(q, b), j))
               <= Cardinality(Mine(q, j)) + IF b.by = j THEN 1 ELSE 0
          /\ \A i \in Mine(Append(q, b), j) :
               \/ i \in Mine(q, j) /\ Append(q, b)[i] = q[i]
               \/ b.by = j /\ Append(q, b)[i] = b
      BY <1>1, <1>4, AppendMine, ZenonT(40)
    <3>3. b.by = k
      BY <1>4
    <3> QED
      BY <3>1, <3>2, <3>3
  <2>2. CASE ~(Len(q) < QueueSize)
    <3>1. n = q
      BY <2>2
    <3>2. Cardinality(Mine(q, j)) \in Nat
      BY <1>1, QueueLen, MineFinite
    <3> HIDE DEF n, q
    <3> QED
      BY <3>1, <3>2
  <2> QED
    BY <2>1, <2>2
<1>9. \A j : Cardinality(Mine(q, j)) \in Nat /\ Cardinality(Mine(n, j)) \in Nat
  BY <1>1, <1>7, QueueLen, MineFinite
<1> HIDE DEF n
<1>10. ASSUME NEW j \in 1 .. lobby PROVE Within(n, v.players[j], j)
  <2>1. Within(q, w.players[j], j)
    BY DEF Good
  <2>2. \A i \in Mine(q, j) : q[i].timer \in 1 .. BombTime /\ q[i].timer <= w.players[j].replenish
    BY <2>1 DEF Within
  <2>3. Cardinality(Mine(q, j)) + w.players[j].remaining <= w.players[j].num_bombs
    BY <2>1 DEF Within
  <2>4. CASE j = k
    <3>1. v.players[j] = r /\ w.players[j] = p
      BY <1>6, <2>4
    <3>2. Cardinality(Mine(n, j)) + r.remaining <= r.num_bombs
      <4>1. Cardinality(Mine(n, j)) <= Cardinality(Mine(q, j)) + 1
        BY <1>8, <2>4
      <4>2. Cardinality(Mine(q, j)) + p.remaining <= p.num_bombs
        BY <2>3, <2>4
      <4> QED
        BY <1>1, <1>3, <1>9, <4>1, <4>2 DEF IsPlayer
    <3>3. \A i \in Mine(n, j) : n[i].timer \in 1 .. BombTime /\ n[i].timer <= r.replenish
      <4> SUFFICES ASSUME NEW i \in Mine(n, j)
                   PROVE  n[i].timer \in 1 .. BombTime /\ n[i].timer <= ReplenishTime
        BY <1>3
      <4>1. n[i].timer \in 1 .. BombTime
        <5>1. (i \in Mine(q, j) /\ n[i] = q[i]) \/ n[i] = b
          BY <1>8
        <5> QED
          BY <1>4, <2>2, <5>1, Times
      <4> QED
        BY <4>1, Times
    <3> QED
      BY <3>1, <3>2, <3>3 DEF Within
  <2>5. CASE j # k
    <3>1. v.players[j] = w.players[j] /\ IsPlayer(w.players[j])
      BY <1>1, <1>6, <2>5 DEF IsTeam
    <3>2. Cardinality(Mine(n, j)) <= Cardinality(Mine(q, j))
      BY <1>8, <1>9, <2>5
    <3>3. \A i \in Mine(n, j) : i \in Mine(q, j) /\ n[i] = q[i]
      BY <1>8, <2>5
    <3>4. Cardinality(Mine(n, j)) + w.players[j].remaining <= w.players[j].num_bombs
      BY <1>9, <2>3, <3>1, <3>2 DEF IsPlayer
    <3> QED
      BY <2>2, <3>1, <3>3, <3>4 DEF Within
  <2> QED
    BY <2>4, <2>5
<1> QED
  BY <1>5, <1>6, <1>7, <1>10 DEF Good, Typed

-----------------------------------------------------------------------------
(* The players' part of a tick *)

LEMMA PickupsCounted ==
  ASSUME NEW at, NEW S, S \subseteq get_all_overlapping_tiles(at)
  PROVE  Cardinality(S) \in Nat
<1>1. \A c : IsFiniteSet(Cover(c))
  <2>1. \A x : IsFiniteSet({x})
    BY FS_Singleton
  <2>2. \A x, y : IsFiniteSet({x, y})
    <3> SUFFICES ASSUME NEW x, NEW y PROVE IsFiniteSet({x, y})
      OBVIOUS
    <3>1. IsFiniteSet({x} \cup {y})
      BY <2>1, FS_Union
    <3>2. {x, y} = {x} \cup {y}
      OBVIOUS
    <3> QED
      BY <3>1, <3>2
  <2> QED
    BY <2>1, <2>2 DEF Cover
<1>2. IsFiniteSet(Cover(at[1]) \X Cover(at[2]))
  BY <1>1, FS_Product
<1>3. IsFiniteSet(S)
  BY <1>2, FS_Subset DEF get_all_overlapping_tiles
<1> QED
  BY <1>3, FS_CardinalityType

LEMMA UpdateCases ==
  ASSUME NEW p, IsPlayer(p)
  PROVE  LET r == inventory_update(p)
         IN  /\ IsPlayer(r) /\ r.num_bombs = p.num_bombs
             /\ \/ r.remaining = p.remaining /\ r.replenish = p.replenish
                \/ r.remaining = p.remaining /\ r.replenish = p.replenish - 1
                \/ /\ p.remaining < p.num_bombs /\ p.replenish <= 1
                   /\ r.remaining = p.remaining + 1 /\ r.replenish = ReplenishTime
<1> DEFINE r == inventory_update(p)
           a == [p EXCEPT !.replenish = @ - 1]
           b == [p EXCEPT !.remaining = @ + 1, !.replenish = ReplenishTime]
<1>1. p = [f \in PlayerFields |-> p[f]]
  BY DEF IsPlayer
<1>2. p.num_bombs \in Nat /\ p.remaining \in Nat /\ p.replenish \in Nat
  BY DEF IsPlayer
<1>3. /\ a = [f \in PlayerFields |-> a[f]] /\ a.num_bombs = p.num_bombs
      /\ a.remaining = p.remaining /\ a.replenish = p.replenish - 1
  BY <1>1 DEF PlayerFields
<1>4. /\ b = [f \in PlayerFields |-> b[f]] /\ b.num_bombs = p.num_bombs
      /\ b.remaining = p.remaining + 1 /\ b.replenish = ReplenishTime
  BY <1>1 DEF PlayerFields
<1>5. /\ p.remaining >= p.num_bombs => r = p
      /\ p.remaining < p.num_bombs /\ p.replenish - 1 > 0 => r = a
      /\ p.remaining < p.num_bombs /\ ~(p.replenish - 1 > 0) => r = b
  BY <1>2 DEF inventory_update
<1> HIDE DEF r, a, b
<1>6. CASE p.remaining >= p.num_bombs
  BY <1>5, <1>6 DEF r
<1>7. CASE p.remaining < p.num_bombs /\ p.replenish - 1 > 0
  <2>1. IsPlayer(a)
    BY <1>2, <1>3, <1>7 DEF IsPlayer
  <2> QED
    BY <1>3, <1>5, <1>7, <2>1 DEF r
<1>8. CASE p.remaining < p.num_bombs /\ ~(p.replenish - 1 > 0)
  <2>1. IsPlayer(b)
    BY <1>2, <1>4, Times DEF IsPlayer
  <2>2. p.replenish <= 1
    BY <1>2, <1>8
  <2> QED
    BY <1>4, <1>5, <1>8, <2>1, <2>2 DEF r
<1> QED
  BY <1>2, <1>6, <1>7, <1>8

\* What inventory_update does to the budget of a player
LEMMA UpdateMidway ==
  ASSUME NEW q, IsQueue(q), NEW p, IsPlayer(p), NEW k, Within(q, p, k)
  PROVE  IsPlayer(inventory_update(p)) /\ Midway(q, inventory_update(p), k)
<1>1. PICK r : r = inventory_update(p)
  OBVIOUS
<1>2. /\ IsPlayer(r) /\ r.num_bombs = p.num_bombs
      /\ \/ r.remaining = p.remaining /\ r.replenish = p.replenish
         \/ r.remaining = p.remaining /\ r.replenish = p.replenish - 1
         \/ /\ p.remaining < p.num_bombs /\ p.replenish <= 1
            /\ r.remaining = p.remaining + 1 /\ r.replenish = ReplenishTime
  BY <1>1, UpdateCases
<1>3. p.num_bombs \in Nat /\ p.remaining \in Nat /\ p.replenish \in Nat
  BY DEF IsPlayer
<1>4. /\ Cardinality(Mine(q, k)) + p.remaining <= p.num_bombs
      /\ \A i \in Mine(q, k) : q[i].timer \in 1 .. BombTime /\ q[i].timer <= p.replenish
  BY DEF Within
<1>5. \A i \in Mine(q, k) : q[i].timer <= r.replenish + 1
  <2> SUFFICES ASSUME NEW i \in Mine(q, k), NEW t, t = q[i].timer
               PROVE  t <= r.replenish + 1
    OBVIOUS
  <2>1. t \in 1 .. BombTime /\ t <= p.replenish
    BY <1>4
  <2> QED
    BY <1>2, <1>3, <2>1, Times
<1>6. \/ Cardinality(Mine(q, k)) + r.remaining <= r.num_bombs
      \/ r.remaining <= r.num_bombs /\ \A i \in Mine(q, k) : q[i].timer = 1
  <2>1. CASE r.remaining = p.remaining
    BY <1>2, <1>4, <2>1
  <2>2. CASE /\ p.remaining < p.num_bombs /\ p.replenish <= 1
             /\ r.remaining = p.remaining + 1
    <3>1. r.remaining <= r.num_bombs
      BY <1>2, <1>3, <2>2
    <3>2. ASSUME NEW i \in Mine(q, k), NEW t, t = q[i].timer PROVE t = 1
      <4>1. t \in 1 .. BombTime /\ t <= p.replenish
        BY <1>4, <3>2
      <4> QED
        BY <1>3, <2>2, <4>1, Times
    <3> QED
      BY <3>1, <3>2
  <2> QED
    BY <1>2, <2>1, <2>2
<1> QED
  BY <1>1, <1>2, <1>4, <1>5, <1>6 DEF Midway

\* A player who is not updated (dead) stays within the budget
LEMMA IdleMidway ==
  ASSUME NEW q, NEW p, IsPlayer(p), NEW k, Within(q, p, k)
  PROVE  Midway(q, p, k)
<1>1. ASSUME NEW i \in Mine(q, k), NEW t, t = q[i].timer
      PROVE  t \in 1 .. BombTime /\ t <= p.replenish + 1
  <2>1. t \in 1 .. BombTime /\ t <= p.replenish /\ p.replenish \in Nat
    BY <1>1 DEF Within, IsPlayer
  <2> QED
    BY <2>1, Times
<1> QED
  BY <1>1 DEF Within, Midway

\* Power-ups raise what a player may have and what is in the hand alike
LEMMA PickupWithin ==
  ASSUME NEW q, IsQueue(q), NEW p, IsPlayer(p), NEW k, Within(q, p, k),
         NEW at, NEW moving, NEW fires, NEW c \in Nat
  PROVE  LET got == [p EXCEPT !.pos = at, !.is_moving = moving, !.num_fires = @ + fires,
                              !.num_bombs = @ + c, !.remaining = @ + c]
         IN  IsPlayer(got) /\ Within(q, got, k)
<1> DEFINE got == [p EXCEPT !.pos = at, !.is_moving = moving, !.num_fires = @ + fires,
                            !.num_bombs = @ + c, !.remaining = @ + c]
<1>1. p = [f \in PlayerFields |-> p[f]]
  BY DEF IsPlayer
<1>2. /\ got = [f \in PlayerFields |-> got[f]] /\ got.num_bombs = p.num_bombs + c
      /\ got.remaining = p.remaining + c /\ got.replenish = p.replenish
  BY <1>1 DEF PlayerFields
<1> HIDE DEF got
<1>3. IsPlayer(got)
  BY <1>2 DEF IsPlayer
<1>4. Cardinality(Mine(q, k)) \in Nat
  BY QueueLen, MineFinite
<1>5. Cardinality(Mine(q, k)) + got.remaining <= got.num_bombs
  BY <1>2, <1>4 DEF Within, IsPlayer
<1>6. Within(q, got, k)
  BY <1>2, <1>5 DEF Within
<1> QED
  BY <1>3, <1>6 DEF got

LEMMA MoveOne ==
  ASSUME NEW w, Typed(w), NEW k \in 1 .. lobby, Within(w.bombs, w.players[k], k)
  PROVE  LET v == MovePlayer(w, k)
         IN  /\ Typed(v) /\ v.bombs = w.bombs
             /\ \A j \in 1 .. lobby : j # k => v.players[j] = w.players[j]
             /\ Midway(w.bombs, v.players[k], k)
             /\ v.players[k].alive = w.players[k].alive
<1> DEFINE p == w.players[k]
           moving == p.dx # 0 \/ p.dy # 0
           at == IF moving THEN move_box(w.map, p.pos, p.dx, -p.dy) ELSE p.pos
           under == {t \in get_all_overlapping_tiles(at) : t \in DOMAIN w.map}
           fires == {t \in under : w.map[t] = "POWERUP_FIRE"}
           extra == {t \in under : w.map[t] = "POWERUP_BOMB"}
           got == [p EXCEPT !.pos = at, !.is_moving = moving,
                            !.num_fires = @ + Cardinality(fires),
                            !.num_bombs = @ + Cardinality(extra),
                            !.remaining = @ + Cardinality(extra)]
           v == [w EXCEPT !.players[k] = inventory_update(got),
                          !.map = [t \in DOMAIN @ |-> IF t \in fires \cup extra
                                                      THEN "EMPTY" ELSE @[t]],
                          !.dirty = @ \/ moving \/ p.is_moving # moving
                                      \/ fires \cup extra # {}]
<1>1. IsWorld(w) /\ IsTeam(w.players) /\ IsQueue(w.bombs) /\ IsPlayer(p)
  BY DEF Typed, IsTeam
<1>2. MovePlayer(w, k) = IF ~p.alive THEN w ELSE v
  BY DEF MovePlayer
<1>3. CASE ~p.alive
  <2>1. Midway(w.bombs, p, k)
    BY <1>1, IdleMidway
  <2> QED
    BY <1>2, <1>3, <2>1
<1>4. CASE p.alive
  <2>1. Cardinality(extra) \in Nat
    <3>1. extra \subseteq get_all_overlapping_tiles(at)
      OBVIOUS
    <3> HIDE DEF extra, at
    <3> QED
      BY <3>1, PickupsCounted
  <2>2. /\ IsWorld(v) /\ v.bombs = w.bombs /\ v.explodes = w.explodes
        /\ v.players = [w.players EXCEPT ![k] = inventory_update(got)]
    <3> HIDE DEF got, fires, extra, moving
    <3> QED
      BY <1>1 DEF IsWorld, WorldFields
  <2>3. MovePlayer(w, k) = v
    BY <1>2, <1>4
  <2> HIDE DEF v
  <2>7. got.alive = p.alive
    <3> HIDE DEF at, moving, fires, extra
    <3> QED
      BY <1>1 DEF IsPlayer, PlayerFields
  <2>4. IsPlayer(got) /\ Within(w.bombs, got, k)
    <3> HIDE DEF at, moving, fires, extra, p
    <3>1. Within(w.bombs, p, k)
      BY DEF p
    <3> QED
      BY <1>1, <2>1, <3>1, PickupWithin
  <2> HIDE DEF got
  <2>5. IsPlayer(inventory_update(got)) /\ Midway(w.bombs, inventory_update(got), k)
    BY <1>1, <2>4, UpdateMidway
  <2>6. /\ IsTeam(v.players) /\ v.players[k] = inventory_update(got)
        /\ \A j \in 1 .. lobby : j # k => v.players[j] = w.players[j]
    BY <1>1, <2>2, <2>5 DEF IsTeam
  <2>8. inventory_update(got).alive = got.alive
    BY <2>4 DEF IsPlayer, PlayerFields, inventory_update
  <2> QED
    BY <1>1, <2>2, <2>3, <2>5, <2>6, <2>7, <2>8 DEF Typed
<1> QED
  BY <1>3, <1>4

\* The same players live
SameLives(v, w) == \A k \in 1 .. lobby : v.players[k].alive = w.players[k].alive

\* The first n players of world o are done
Served(o, w, n) ==
    /\ Typed(w) /\ SameLives(w, o)
    /\ \A k \in 1 .. lobby : IF k <= n THEN Midway(w.bombs, w.players[k], k)
                                       ELSE Within(w.bombs, w.players[k], k)

LEMMA ServeNext ==
  ASSUME NEW o, NEW w, NEW n \in Nat, Served(o, w, n), n + 1 <= lobby, lobby \in Nat
  PROVE  Served(o, MovePlayer(w, n + 1), n + 1)
<1>1. n + 1 \in 1 .. lobby /\ ~(n + 1 <= n)
  OBVIOUS
<1>2. Typed(w) /\ Within(w.bombs, w.players[n + 1], n + 1)
  BY <1>1 DEF Served
<1>3. PICK v : v = MovePlayer(w, n + 1)
  OBVIOUS
<1>4. /\ Typed(v) /\ v.bombs = w.bombs
      /\ \A j \in 1 .. lobby : j # n + 1 => v.players[j] = w.players[j]
      /\ Midway(w.bombs, v.players[n + 1], n + 1)
      /\ v.players[n + 1].alive = w.players[n + 1].alive
  BY <1>1, <1>2, <1>3, MoveOne
<1>6. SameLives(v, o)
  <2>1. \A k \in 1 .. lobby : v.players[k].alive = w.players[k].alive
    BY <1>4
  <2> QED
    BY <2>1 DEF Served, SameLives
<1>5. ASSUME NEW k \in 1 .. lobby
      PROVE  IF k <= n + 1 THEN Midway(v.bombs, v.players[k], k)
                           ELSE Within(v.bombs, v.players[k], k)
  <2>1. CASE k = n + 1
    BY <1>4, <2>1
  <2>2. CASE k # n + 1
    <3>1. k <= n + 1 <=> k <= n
      BY <2>2
    <3>2. v.players[k] = w.players[k] /\ v.bombs = w.bombs
      BY <1>4, <2>2
    <3> QED
      BY <3>1, <3>2 DEF Served
  <2> QED
    BY <2>1, <2>2
<1> QED
  BY <1>3, <1>4, <1>5, <1>6 DEF Served

\* The players move one after the other
LEMMA MoveLoop ==
  ASSUME NEW w, lobby \in Nat
  PROVE  \E f : /\ f[0] = w /\ apply_movement_and_pickups(w) = f[lobby]
               /\ \A n \in Nat : n + 1 <= lobby => f[n + 1] = MovePlayer(f[n], n + 1)
<1> DEFINE start == w
           Loop(f, N) == f = [n \in 0 .. N |->
                 IF n = 0 THEN start ELSE Only({MovePlayer(v, n) : v \in {f[n - 1]}})]
           S == {N \in Nat : \E f : Loop(f, N)}
<1>1. 0 \in S
  <2>1. Loop([n \in 0 .. 0 |-> start], 0)
    OBVIOUS
  <2> QED
    BY <2>1
<1>2. ASSUME NEW n \in Nat, n \in S PROVE n + 1 \in S
  <2>1. PICK f : Loop(f, n)
    BY <1>2
  <2>2. PICK g : g = [k \in 0 .. n + 1 |->
                 IF k = n + 1 THEN Only({MovePlayer(v, k) : v \in {f[n]}}) ELSE f[k]]
    OBVIOUS
  <2> HIDE DEF start
  <2>3. ASSUME NEW k \in 0 .. n + 1
        PROVE  g[k] = IF k = 0 THEN start ELSE Only({MovePlayer(v, k) : v \in {g[k - 1]}})
    <3>1. CASE k = n + 1
      <4>1. g[k] = Only({MovePlayer(v, k) : v \in {f[n]}}) /\ k - 1 = n /\ k # 0
        BY <2>2, <3>1
      <4>2. g[n] = f[n]
        BY <2>2
      <4> QED
        BY <4>1, <4>2
    <3>2. CASE k # n + 1
      <4>1. k \in 0 .. n /\ (k # 0 => k - 1 \in 0 .. n)
        BY <3>2
      <4>2. f[k] = IF k = 0 THEN start ELSE Only({MovePlayer(v, k) : v \in {f[k - 1]}})
        BY <2>1, <4>1
      <4>3. g[k] = f[k] /\ (k # 0 => g[k - 1] = f[k - 1])
        BY <2>2, <4>1
      <4> QED
        BY <4>2, <4>3
    <3> QED
      BY <3>1, <3>2
  <2>4. g = [k \in 0 .. n + 1 |-> g[k]]
    BY <2>2
  <2>5. Loop(g, n + 1)
    BY <2>3, <2>4
  <2> HIDE DEF Loop
  <2> QED
    BY <2>5
<1>3. \E f : Loop(f, lobby)
  <2> HIDE DEF S
  <2>1. Nat \subseteq S
    BY <1>1, <1>2, SetInduction
  <2> QED
    BY <2>1 DEF S
<1>4. PICK f : Loop(f, lobby) /\ apply_movement_and_pickups(w) = f[lobby]
  BY <1>3 DEF apply_movement_and_pickups
<1>5. f[0] = start
  BY <1>4
<1>6. ASSUME NEW n \in Nat, n + 1 <= lobby PROVE f[n + 1] = MovePlayer(f[n], n + 1)
  <2>1. n + 1 \in 0 .. lobby /\ n + 1 # 0 /\ (n + 1) - 1 = n
    BY <1>6
  <2> HIDE DEF start
  <2>2. f[n + 1] = Only({MovePlayer(v, n + 1) : v \in {f[n]}})
    BY <1>4, <2>1
  <2>3. {MovePlayer(v, n + 1) : v \in {f[n]}} = {MovePlayer(f[n], n + 1)}
    OBVIOUS
  <2> QED
    BY <2>2, <2>3, OnlyOne
<1> HIDE DEF Loop, S
<1> QED
  BY <1>4, <1>5, <1>6

\* apply_movement_and_pickups takes a world within budget half way; nobody dies
LEMMA MovementHalfWay ==
  ASSUME NEW w, Good(w), lobby \in Nat
  PROVE  /\ HalfWay(apply_movement_and_pickups(w))
         /\ SameLives(apply_movement_and_pickups(w), w)
<1>4. PICK f : /\ f[0] = w /\ apply_movement_and_pickups(w) = f[lobby]
               /\ \A n \in Nat : n + 1 <= lobby => f[n + 1] = MovePlayer(f[n], n + 1)
  BY MoveLoop
<1> DEFINE T == {n \in Nat : n <= lobby => Served(w, f[n], n)}
<1>5. 0 \in T
  <2>1. f[0] = w
    BY <1>4
  <2>2. Served(w, w, 0)
    BY DEF Good, Served, SameLives
  <2> QED
    BY <2>1, <2>2
<1>6. ASSUME NEW n \in Nat, n \in T PROVE n + 1 \in T
  <2> SUFFICES ASSUME n + 1 <= lobby PROVE Served(w, f[n + 1], n + 1)
    OBVIOUS
  <2>1. n <= lobby
    OBVIOUS
  <2>3. f[n + 1] = MovePlayer(f[n], n + 1)
    BY <1>4
  <2>4. Served(w, f[n], n)
    BY <1>6, <2>1
  <2> QED
    BY <2>3, <2>4, ServeNext
<1>7. Served(w, f[lobby], lobby)
  <2> HIDE DEF T
  <2>1. Nat \subseteq T
    BY <1>5, <1>6, SetInduction
  <2> QED
    BY <2>1 DEF T
<1>8. \A k \in 1 .. lobby : k <= lobby
  OBVIOUS
<1> HIDE DEF T
<1>9. HalfWay(f[lobby]) /\ SameLives(f[lobby], w)
  BY <1>7, <1>8 DEF HalfWay, Served
<1> QED
  BY <1>4, <1>9

-----------------------------------------------------------------------------
(* tick_bombs: one pass over a queue that shrinks while it is walked through *)

LEMMA BombExcept ==
  ASSUME NEW b, IsBomb(b)
  PROVE  LET c == [b EXCEPT !.timer = @ - 1]
         IN  /\ IsBomb(c) /\ c.by = b.by /\ c.pos = b.pos /\ c.spread = b.spread
             /\ c.timer = b.timer - 1
<1> DEFINE c == [b EXCEPT !.timer = @ - 1]
<1>1. b = [f \in BombFields |-> b[f]] /\ b.timer \in Int
  BY DEF IsBomb
<1>2. /\ c = [f \in BombFields |-> c[f]] /\ c.by = b.by /\ c.pos = b.pos
      /\ c.spread = b.spread /\ c.timer = b.timer - 1
  BY <1>1 DEF BombFields
<1> HIDE DEF c
<1>3. c.timer \in Int
  BY <1>1, <1>2
<1>4. IsBomb(c)
  BY <1>2, <1>3 DEF IsBomb
<1> QED
  BY <1>2, <1>4 DEF c

\* The fuse of one bomb burns down
Burnt(q, i) == [q EXCEPT ![i].timer = @ - 1]

LEMMA FuseBurns ==
  ASSUME NEW q, IsQueue(q), NEW i \in 1 .. Len(q),
         NEW r, r = Burnt(q, i)
  PROVE  /\ IsQueue(r) /\ Len(r) = Len(q)
         /\ r[i].by = q[i].by /\ r[i].pos = q[i].pos /\ r[i].spread = q[i].spread
         /\ r[i].timer = q[i].timer - 1
         /\ \A j \in 1 .. Len(q) : j # i => r[j] = q[j]
         /\ \A k : Mine(r, k) = Mine(q, k)
<1>1. Len(q) \in Nat /\ DOMAIN q = 1 .. Len(q) /\ q = [j \in 1 .. Len(q) |-> q[j]] /\ IsBomb(q[i])
  BY QueueLen DEF IsQueue
<1>2. PICK c : c = [q[i] EXCEPT !.timer = @ - 1]
  OBVIOUS
<1>3. /\ IsBomb(c) /\ c.by = q[i].by /\ c.pos = q[i].pos /\ c.spread = q[i].spread
      /\ c.timer = q[i].timer - 1
  BY <1>1, <1>2, BombExcept
<1>4. r = [q EXCEPT ![i] = c]
  BY <1>2 DEF Burnt
<1>5. r = [j \in 1 .. Len(q) |-> r[j]] /\ r[i] = c /\ \A j \in 1 .. Len(q) : j # i => r[j] = q[j]
  BY <1>1, <1>4
<1>6. \A j \in 1 .. Len(q) : IsBomb(r[j])
  BY <1>3, <1>5 DEF IsQueue
<1>7. IsQueue(r) /\ Len(r) = Len(q)
  BY <1>1, <1>5, <1>6, QueueOf
<1>8. \A j \in 1 .. Len(q) : r[j].by = q[j].by
  BY <1>3, <1>5
<1>9. \A k : Mine(r, k) = Mine(q, k)
  BY <1>7, <1>8 DEF Mine
<1> QED
  BY <1>3, <1>5, <1>7, <1>9

\* The last bomb of the queue takes the place of the expired one
LEMMA SwapRemove ==
  ASSUME NEW q, IsQueue(q), NEW i \in 1 .. Len(q)
  PROVE  LET r == SubSeq([q EXCEPT ![i] = q[Len(q)]], 1, Len(q) - 1)
         IN  /\ IsQueue(r) /\ Len(r) = Len(q) - 1
             /\ \A j \in 1 .. (Len(q) - 1) : r[j] = IF j = i THEN q[Len(q)] ELSE q[j]
             /\ \A k : Cardinality(Mine(r, k)) <= Cardinality(Mine(q, k))
<1> DEFINE L == Len(q)
           x == [q EXCEPT ![i] = q[L]]
           r == SubSeq(x, 1, L - 1)
<1>1. L \in Nat /\ L >= 1 /\ DOMAIN q = 1 .. L /\ \A j \in 1 .. L : IsBomb(q[j])
  BY QueueLen DEF IsQueue
<1>2. \A j \in 1 .. L : x[j] = IF j = i THEN q[L] ELSE q[j]
  BY <1>1
<1> HIDE DEF x, L
<1>3. /\ r \in Seq({x[j] : j \in 1 .. L}) /\ Len(r) = L - 1
      /\ \A j \in 1 .. (L - 1) : r[j] = x[j]
  <2> DEFINE X == {x[j] : j \in 1 .. L}
  <2>1. \A j \in 1 .. (L - 1) : x[j] \in X
    BY <1>1
  <2>2. 1 \in Int /\ L - 1 \in Int
    BY <1>1
  <2> HIDE DEF X
  <2>3. /\ r \in Seq(X) /\ Len(r) = IF 1 <= L - 1 THEN (L - 1) - 1 + 1 ELSE 0
        /\ \A j \in 1 .. ((L - 1) - 1 + 1) : r[j] = x[1 + j - 1]
    BY <2>1, <2>2, SubSeqProperties
  <2> HIDE DEF r
  <2>4. Len(r) = L - 1 /\ \A j \in 1 .. (L - 1) : r[j] = x[j]
    BY <1>1, <2>3
  <2> QED
    BY <2>3, <2>4 DEF X
<1> HIDE DEF r
<1>4. r = [j \in 1 .. (L - 1) |-> r[j]]
  <2>1. PICK X : r \in Seq(X) /\ Len(r) = L - 1
    BY <1>3
  <2> QED
    BY ONLY <2>1
<1>5. \A j \in 1 .. (L - 1) : r[j] = IF j = i THEN q[L] ELSE q[j]
  BY <1>1, <1>2, <1>3
<1>6. \A j \in 1 .. (L - 1) : IsBomb(r[j])
  <2>1. \A j \in 1 .. (L - 1) : j \in 1 .. L /\ L \in 1 .. L
    BY <1>1
  <2> QED
    BY <1>1, <1>5, <2>1
<1>7. IsQueue(r) /\ Len(r) = L - 1
  BY <1>1, <1>4, <1>6, QueueOf
<1>8. ASSUME NEW k PROVE Cardinality(Mine(r, k)) <= Cardinality(Mine(q, k))
  <2> DEFINE f == [j \in Mine(r, k) |-> IF j = i THEN L ELSE j]
  <2>1. ASSUME NEW j \in Mine(r, k)
        PROVE  j \in 1 .. (L - 1) /\ (IF j = i THEN L ELSE j) \in Mine(q, k)
    <3>1. j \in 1 .. (L - 1) /\ r[j].by = k
      BY <1>7 DEF Mine
    <3>2. j \in 1 .. L /\ L \in 1 .. L
      BY <1>1, <3>1
    <3> QED
      BY <1>5, <3>1, <3>2 DEF Mine, L
  <2>2. f \in [Mine(r, k) -> Mine(q, k)]
    BY <2>1
  <2>3. ASSUME NEW a \in Mine(r, k), NEW b \in Mine(r, k), f[a] = f[b] PROVE a = b
    <3>1. a \in 1 .. (L - 1) /\ b \in 1 .. (L - 1)
      BY <2>1
    <3> QED
      BY <1>1, <2>3, <3>1
  <2> HIDE DEF f
  <2>4. f \in Injection(Mine(r, k), Mine(q, k))
    BY <2>2, <2>3 DEF Injection, IsInjective
  <2>5. IsFiniteSet(Mine(q, k))
    BY <1>1, MineFinite DEF L
  <2> QED
    BY <2>4, <2>5, FS_Injection
<1> QED
  BY <1>5, <1>7, <1>8 DEF r, x, L

LEMMA ListAppend ==
  ASSUME NEW q, IsList(q), NEW e
  PROVE  IsList(Append(q, e))
<1> DEFINE X == Range(q) \cup {e}
<1>1. q \in Seq(X) /\ e \in X /\ Len(q) \in Nat
  BY DEF IsList
<1> HIDE DEF X
<1>2. PICK r : r = Append(q, e)
  OBVIOUS
<1>3. r \in Seq(X) /\ Len(r) \in Nat
  BY <1>1, <1>2
<1>4. r = [i \in 1 .. Len(r) |-> r[i]]
  BY ONLY <1>3
<1> QED
  BY <1>2, <1>3, <1>4, ListOf

\* A blast touches the map and the fires, not the bombs or the players
LEMMA BlastKeeps ==
  ASSUME NEW w, IsWorld(w), IsList(w.explodes), NEW bomb, NEW drop
  PROVE  LET v == trigger_explosion(w, bomb, drop)
         IN  /\ IsWorld(v) /\ IsList(v.explodes)
             /\ v.bombs = w.bombs /\ v.players = w.players
<1> DEFINE tiles == Spread(w.map, bomb)
           h == handle_spread(w, tiles, drop)
           explosion == [center |-> bomb.pos, spread |-> tiles, timer |-> ExplodeTime]
           v == [h EXCEPT !.explodes = IF Len(@) < QueueSize THEN Append(@, explosion) ELSE @]
<1>1. trigger_explosion(w, bomb, drop) = v
  BY DEF trigger_explosion
<1>2. /\ IsWorld(h) /\ h.bombs = w.bombs /\ h.players = w.players
      /\ h.explodes = w.explodes
  <2> HIDE DEF tiles
  <2> QED
    BY DEF handle_spread, IsWorld, WorldFields
<1> HIDE DEF h, explosion
<1>3. /\ IsWorld(v) /\ v.bombs = h.bombs /\ v.players = h.players
      /\ v.explodes = IF Len(h.explodes) < QueueSize THEN Append(h.explodes, explosion)
                                                     ELSE h.explodes
  BY <1>2 DEF IsWorld, WorldFields
<1> HIDE DEF v
<1>4. IsList(Append(w.explodes, explosion))
  BY ListAppend
<1> QED
  BY <1>1, <1>2, <1>3, <1>4

\* A bomb that has burnt down once, and one whose turn is still to come
Ticked(o, b) == \E m \in 1 .. Len(o) : o[m].by = b.by /\ o[m].timer = b.timer + 1 /\ b.timer >= 1
Waiting(o, b) == \E m \in 1 .. Len(o) : o[m].by = b.by /\ o[m].timer = b.timer

\* Where the pass over the queue o stands after n turns, at place i of queue q
Walked(o, q, i, n) ==
    /\ IsQueue(q) /\ i \in 1 .. (n + 1) /\ Len(q) = Len(o) - n + (i - 1)
    /\ \A j \in 1 .. Len(q) : IF j < i THEN Ticked(o, q[j]) ELSE Waiting(o, q[j])
    /\ \A k : Cardinality(Mine(q, k)) <= Cardinality(Mine(o, k))

LEMMA WalkTick ==
  ASSUME NEW o, IsQueue(o), NEW q, NEW n \in Nat, n < Len(o), NEW i, Walked(o, q, i, n),
         NEW r, r = Burnt(q, i), r[i].timer > 0
  PROVE  Walked(o, r, i + 1, n + 1)
<1>1. Len(o) \in Nat /\ IsQueue(q) /\ i \in Nat \ {0} /\ i <= n + 1 /\ Len(q) = Len(o) - n + (i - 1)
  BY QueueLen DEF Walked
<1>2. i \in 1 .. Len(q) /\ Len(q) \in Nat
  BY <1>1
<1>3. /\ IsQueue(r) /\ Len(r) = Len(q)
      /\ r[i].by = q[i].by /\ r[i].timer = q[i].timer - 1
      /\ \A j \in 1 .. Len(q) : j # i => r[j] = q[j]
      /\ \A k : Mine(r, k) = Mine(q, k)
  <2>1. IsQueue(q) /\ r = Burnt(q, i)
    BY <1>1
  <2> QED
    BY ONLY <1>2, <2>1, FuseBurns
<1>4. i + 1 \in 1 .. (n + 1 + 1) /\ Len(r) = Len(o) - (n + 1) + ((i + 1) - 1)
  BY <1>1, <1>3
<1>5. ASSUME NEW j \in 1 .. Len(r)
      PROVE  IF j < i + 1 THEN Ticked(o, r[j]) ELSE Waiting(o, r[j])
  <2>1. j \in 1 .. Len(q)
    BY <1>3
  <2>2. IF j < i THEN Ticked(o, q[j]) ELSE Waiting(o, q[j])
    BY <2>1 DEF Walked
  <2>3. CASE j = i
    <3>1. ~(j < i) /\ j < i + 1
      BY <1>1, <2>3
    <3>2. PICK m \in 1 .. Len(o) : o[m].by = q[i].by /\ o[m].timer = q[i].timer
      BY <2>2, <2>3, <3>1 DEF Waiting
    <3>3. o[m].timer \in Int
      BY DEF IsQueue, IsBomb
    <3>4. o[m].by = r[i].by /\ o[m].timer = r[i].timer + 1 /\ r[i].timer >= 1
      BY <1>3, <3>2, <3>3
    <3> QED
      BY <2>3, <3>1, <3>4 DEF Ticked
  <2>4. CASE j # i
    <3>1. j < i + 1 <=> j < i
      BY <1>1, <2>1, <2>4
    <3>2. r[j] = q[j]
      BY <1>3, <2>1, <2>4
    <3> QED
      BY <2>2, <3>1, <3>2
  <2> QED
    BY <2>3, <2>4
<1>6. \A k : Cardinality(Mine(r, k)) <= Cardinality(Mine(o, k))
  BY <1>3 DEF Walked
<1> QED
  BY <1>3, <1>4, <1>5, <1>6 DEF Walked

LEMMA WalkRemove ==
  ASSUME NEW o, IsQueue(o), NEW q, NEW n \in Nat, n < Len(o), NEW i, Walked(o, q, i, n),
         NEW r, r = Burnt(q, i),
         NEW l, l = SubSeq([r EXCEPT ![i] = r[Len(r)]], 1, Len(r) - 1)
  PROVE  Walked(o, l, i, n + 1)
<1>1. Len(o) \in Nat /\ IsQueue(q) /\ i \in Nat \ {0} /\ i <= n + 1 /\ Len(q) = Len(o) - n + (i - 1)
  BY QueueLen DEF Walked
<1>2. i \in 1 .. Len(q) /\ Len(q) \in Nat
  BY <1>1
<1>3. /\ IsQueue(r) /\ Len(r) = Len(q)
      /\ r[i].by = q[i].by /\ r[i].timer = q[i].timer - 1
      /\ \A j \in 1 .. Len(q) : j # i => r[j] = q[j]
      /\ \A k : Mine(r, k) = Mine(q, k)
  <2>1. IsQueue(q) /\ r = Burnt(q, i)
    BY <1>1
  <2> QED
    BY ONLY <1>2, <2>1, FuseBurns
<1>4. /\ IsQueue(l) /\ Len(l) = Len(r) - 1
      /\ \A j \in 1 .. (Len(r) - 1) : l[j] = IF j = i THEN r[Len(r)] ELSE r[j]
      /\ \A k : Cardinality(Mine(l, k)) <= Cardinality(Mine(r, k))
  <2>1. i \in 1 .. Len(r)
    BY <1>2, <1>3
  <2>2. IsQueue(r)
    BY <1>3
  <2>3. l = SubSeq([r EXCEPT ![i] = r[Len(r)]], 1, Len(r) - 1)
    OBVIOUS
  <2> QED
    BY ONLY <2>1, <2>2, <2>3, SwapRemove
<1>5. i \in 1 .. (n + 1 + 1) /\ Len(l) = Len(o) - (n + 1) + (i - 1)
  <2>1. Len(l) = (Len(o) - n + (i - 1)) - 1
    BY <1>1, <1>3, <1>4
  <2> QED
    BY ONLY <1>1, <2>1, n \in Nat
<1>6. ASSUME NEW j \in 1 .. Len(l)
      PROVE  IF j < i THEN Ticked(o, l[j]) ELSE Waiting(o, l[j])
  <2>1. j \in 1 .. (Len(q) - 1) /\ j \in 1 .. Len(q) /\ Len(q) \in 1 .. Len(q)
    BY <1>2, <1>3, <1>4
  <2>2. CASE j = i
    <3>1. ~(j < i) /\ Len(q) # i /\ ~(Len(q) < i)
      BY <1>1, <1>2, <2>1, <2>2
    <3>2. l[j] = q[Len(q)]
      BY <1>3, <1>4, <2>1, <2>2, <3>1
    <3>3. Waiting(o, q[Len(q)])
      BY <2>1, <3>1 DEF Walked
    <3> QED
      BY <3>1, <3>2, <3>3
  <2>3. CASE j # i
    <3>1. l[j] = q[j]
      BY <1>3, <1>4, <2>1, <2>3
    <3> QED
      BY <2>1, <3>1 DEF Walked
  <2> QED
    BY <2>2, <2>3
<1>7. ASSUME NEW k PROVE Cardinality(Mine(l, k)) <= Cardinality(Mine(o, k))
  <2>1. Cardinality(Mine(l, k)) \in Nat /\ Cardinality(Mine(q, k)) \in Nat /\ Cardinality(Mine(o, k)) \in Nat
    BY <1>1, <1>4, MineFinite, QueueLen
  <2>2. Cardinality(Mine(l, k)) <= Cardinality(Mine(q, k))
    BY <1>3, <1>4
  <2>3. Cardinality(Mine(q, k)) <= Cardinality(Mine(o, k))
    BY DEF Walked
  <2> QED
    BY <2>1, <2>2, <2>3
<1> QED
  BY <1>4, <1>5, <1>6, <1>7 DEF Walked

\* One turn of tick_bombs' loop over the bombs of w
Turned(w, s, n) ==
    /\ IsWorld(s.w) /\ IsList(s.w.explodes) /\ s.w.players = w.players
    /\ Walked(w.bombs, s.w.bombs, s.i, n)

LEMMA TurnNext ==
  ASSUME NEW w, IsQueue(w.bombs), NEW n \in Nat, n < Len(w.bombs), NEW s, Turned(w, s, n),
         NEW drop
  PROVE  Turned(w, BombTurn(s, drop), n + 1)
<1> DEFINE i == s.i
           queue == [s.w.bombs EXCEPT ![i].timer = @ - 1]
           rear == Len(queue)
           left == SubSeq([queue EXCEPT ![i] = queue[rear]], 1, rear - 1)
           cleared == [s.w EXCEPT !.map[queue[i].pos] = "EMPTY", !.bombs = left]
           on == [s.w EXCEPT !.bombs = queue]
           off == trigger_explosion(cleared, queue[rear], drop)
<1>1. BombTurn(s, drop) = IF queue[i].timer > 0 THEN [i |-> i + 1, w |-> on]
                                                ELSE [i |-> i, w |-> off]
  BY DEF BombTurn
<1>2. /\ IsWorld(s.w) /\ IsList(s.w.explodes) /\ s.w.players = w.players
      /\ Walked(w.bombs, s.w.bombs, i, n)
  BY DEF Turned
<1>3. CASE queue[i].timer > 0
  <2>1. Walked(w.bombs, queue, i + 1, n + 1)
    <3>1. PICK r : r = queue
      OBVIOUS
    <3>2. r = Burnt(s.w.bombs, i) /\ r[i].timer > 0
      BY <1>3, <3>1 DEF Burnt
    <3> HIDE DEF queue, i
    <3>3. Walked(w.bombs, r, i + 1, n + 1)
      BY <1>2, <3>2, WalkTick
    <3> QED
      BY <3>1, <3>3
  <2> HIDE DEF queue
  <2>2. IsWorld(on) /\ on.players = w.players /\ on.bombs = queue /\ on.explodes = s.w.explodes
    BY <1>2 DEF IsWorld, WorldFields
  <2> HIDE DEF on, i
  <2> QED
    BY <1>1, <1>2, <1>3, <2>1, <2>2 DEF Turned
<1>4. CASE ~(queue[i].timer > 0)
  <2>1. Walked(w.bombs, left, i, n + 1)
    <3>1. PICK r : r = queue
      OBVIOUS
    <3>2. r = Burnt(s.w.bombs, i) /\ left = SubSeq([r EXCEPT ![i] = r[Len(r)]], 1, Len(r) - 1)
      BY <3>1 DEF Burnt
    <3> HIDE DEF queue, i, rear, left
    <3> QED
      BY <1>2, <3>2, WalkRemove
  <2> HIDE DEF left, queue
  <2>2. /\ IsWorld(cleared) /\ cleared.players = w.players /\ cleared.bombs = left
        /\ cleared.explodes = s.w.explodes
    BY <1>2 DEF IsWorld, WorldFields
  <2> HIDE DEF cleared
  <2>3. IsWorld(off) /\ IsList(off.explodes) /\ off.players = w.players /\ off.bombs = left
    BY <1>2, <2>2, BlastKeeps
  <2> HIDE DEF off, i
  <2> QED
    BY <1>1, <1>4, <2>1, <2>3 DEF Turned
<1> QED
  BY <1>3, <1>4

\* After the last turn every bomb that is left has ticked once
LEMMA WalkEnds ==
  ASSUME NEW o, IsQueue(o), NEW q, NEW i, Walked(o, q, i, Len(o)),
         NEW p, IsPlayer(p), NEW k, Midway(o, p, k)
  PROVE  Within(q, p, k)
<1>1. Len(o) \in Nat /\ IsQueue(q) /\ i \in Nat \ {0} /\ Len(q) = Len(o) - Len(o) + (i - 1)
  BY QueueLen DEF Walked
<1>2. ASSUME NEW j \in Mine(q, k)
      PROVE  \E m \in Mine(o, k) : o[m].timer = q[j].timer + 1 /\ q[j].timer >= 1 /\ q[j].timer \in Int
  <2>1. j \in 1 .. Len(q) /\ q[j].by = k
    BY DEF Mine
  <2>2. j < i
    BY <1>1, <2>1
  <2>3. Ticked(o, q[j])
    BY <2>1, <2>2 DEF Walked
  <2>4. q[j].timer \in Int
    BY <1>1, <2>1 DEF IsQueue, IsBomb
  <2> QED
    BY <2>1, <2>3, <2>4 DEF Ticked, Mine
<1>3. p.num_bombs \in Nat /\ p.remaining \in Nat /\ p.replenish \in Nat
  BY DEF IsPlayer
<1>4. ASSUME NEW j \in Mine(q, k)
      PROVE  q[j].timer \in 1 .. BombTime /\ q[j].timer <= p.replenish
  <2>1. PICK m \in Mine(o, k) : o[m].timer = q[j].timer + 1 /\ q[j].timer >= 1 /\ q[j].timer \in Int
    BY <1>2
  <2>2. o[m].timer \in 1 .. BombTime /\ o[m].timer <= p.replenish + 1
    BY DEF Midway
  <2> QED
    BY <1>3, <2>1, <2>2, Times
<1>5. Cardinality(Mine(q, k)) \in Nat /\ Cardinality(Mine(o, k)) \in Nat
  BY <1>1, MineFinite, QueueLen
<1>6. Cardinality(Mine(q, k)) + p.remaining <= p.num_bombs
  <2>1. CASE Cardinality(Mine(o, k)) + p.remaining <= p.num_bombs
    <3>1. Cardinality(Mine(q, k)) <= Cardinality(Mine(o, k))
      BY DEF Walked
    <3> QED
      BY <1>3, <1>5, <2>1, <3>1
  <2>2. CASE p.remaining <= p.num_bombs /\ \A m \in Mine(o, k) : o[m].timer = 1
    <3>1. Mine(q, k) = {}
      <4> SUFFICES ASSUME NEW j \in Mine(q, k) PROVE FALSE
        OBVIOUS
      <4>1. PICK m \in Mine(o, k) : o[m].timer = q[j].timer + 1 /\ q[j].timer >= 1 /\ q[j].timer \in Int
        BY <1>2
      <4>2. o[m].timer = 1
        BY <2>2
      <4> QED
        BY <4>1, <4>2
    <3>2. Cardinality(Mine(q, k)) = 0
      BY <3>1, FS_EmptySet
    <3> QED
      BY <1>3, <2>2, <3>2
  <2> QED
    BY <2>1, <2>2 DEF Midway
<1> QED
  BY <1>4, <1>6 DEF Within

\* The turns of tick_bombs
LEMMA BombLoop ==
  ASSUME NEW w, Len(w.bombs) \in Nat, NEW drop
  PROVE  \E f : /\ f[0] = [i |-> 1, w |-> w] /\ tick_bombs(w, drop) = f[Len(w.bombs)].w
               /\ \A n \in Nat : n + 1 <= Len(w.bombs) => f[n + 1] = BombTurn(f[n], drop)
<1> DEFINE start == [i |-> 1, w |-> w]
           Loop(f, N) == f = [n \in 0 .. N |->
                 IF n = 0 THEN start ELSE Only({BombTurn(v, drop) : v \in {f[n - 1]}})]
           S == {N \in Nat : \E f : Loop(f, N)}
<1>1. 0 \in S
  <2>1. Loop([n \in 0 .. 0 |-> start], 0)
    OBVIOUS
  <2> QED
    BY <2>1
<1>2. ASSUME NEW n \in Nat, n \in S PROVE n + 1 \in S
  <2>1. PICK f : Loop(f, n)
    BY <1>2
  <2>2. PICK g : g = [k \in 0 .. n + 1 |->
                 IF k = n + 1 THEN Only({BombTurn(v, drop) : v \in {f[n]}}) ELSE f[k]]
    OBVIOUS
  <2> HIDE DEF start
  <2>3. ASSUME NEW k \in 0 .. n + 1
        PROVE  g[k] = IF k = 0 THEN start ELSE Only({BombTurn(v, drop) : v \in {g[k - 1]}})
    <3>1. CASE k = n + 1
      <4>1. g[k] = Only({BombTurn(v, drop) : v \in {f[n]}}) /\ k - 1 = n /\ k # 0
        BY <2>2, <3>1
      <4>2. g[n] = f[n]
        BY <2>2
      <4> QED
        BY <4>1, <4>2
    <3>2. CASE k # n + 1
      <4>1. k \in 0 .. n /\ (k # 0 => k - 1 \in 0 .. n)
        BY <3>2
      <4>2. f[k] = IF k = 0 THEN start ELSE Only({BombTurn(v, drop) : v \in {f[k - 1]}})
        BY <2>1, <4>1
      <4>3. g[k] = f[k] /\ (k # 0 => g[k - 1] = f[k - 1])
        BY <2>2, <4>1
      <4> QED
        BY <4>2, <4>3
    <3> QED
      BY <3>1, <3>2
  <2>4. g = [k \in 0 .. n + 1 |-> g[k]]
    BY <2>2
  <2>5. Loop(g, n + 1)
    BY <2>3, <2>4
  <2> HIDE DEF Loop
  <2> QED
    BY <2>5
<1>3. \E f : Loop(f, Len(w.bombs))
  <2> HIDE DEF S
  <2>1. Nat \subseteq S
    BY <1>1, <1>2, SetInduction
  <2> QED
    BY <2>1 DEF S
<1>4. PICK f : Loop(f, Len(w.bombs)) /\ tick_bombs(w, drop) = f[Len(w.bombs)].w
  BY <1>3 DEF tick_bombs
<1>5. f[0] = start
  BY <1>4
<1>6. ASSUME NEW n \in Nat, n + 1 <= Len(w.bombs) PROVE f[n + 1] = BombTurn(f[n], drop)
  <2>1. n + 1 \in 0 .. Len(w.bombs) /\ n + 1 # 0 /\ (n + 1) - 1 = n
    BY <1>6
  <2> HIDE DEF start
  <2>2. f[n + 1] = Only({BombTurn(v, drop) : v \in {f[n]}})
    BY <1>4, <2>1
  <2>3. {BombTurn(v, drop) : v \in {f[n]}} = {BombTurn(f[n], drop)}
    OBVIOUS
  <2> QED
    BY <2>2, <2>3, OnlyOne
<1> HIDE DEF Loop, S
<1> QED
  BY <1>4, <1>5, <1>6

\* tick_bombs takes a world that is half way back within budget
LEMMA BombsGood ==
  ASSUME NEW w, HalfWay(w), NEW drop, lobby \in Nat
  PROVE  Good(tick_bombs(w, drop)) /\ tick_bombs(w, drop).players = w.players
<1> DEFINE L == Len(w.bombs)
           start == [i |-> 1, w |-> w]
<1>0. IsWorld(w) /\ IsTeam(w.players) /\ IsQueue(w.bombs) /\ IsList(w.explodes) /\ L \in Nat
  BY QueueLen DEF HalfWay, Typed
<1>4. PICK f : /\ f[0] = start /\ tick_bombs(w, drop) = f[L].w
               /\ \A n \in Nat : n + 1 <= L => f[n + 1] = BombTurn(f[n], drop)
  BY <1>0, BombLoop
<1> DEFINE T == {n \in Nat : n <= L => Turned(w, f[n], n)}
<1>5. 0 \in T
  <2>1. f[0] = start
    BY <1>0, <1>4
  <2>2. Walked(w.bombs, w.bombs, 1, 0)
    <3>1. 1 \in 1 .. (0 + 1) /\ L = L - 0 + (1 - 1)
      BY <1>0
    <3>2. \A j \in 1 .. L : ~(j < 1) /\ Waiting(w.bombs, w.bombs[j])
      BY <1>0 DEF Waiting
    <3>3. \A k : Cardinality(Mine(w.bombs, k)) \in Nat
      BY <1>0, MineFinite
    <3> QED
      BY <1>0, <3>1, <3>2, <3>3 DEF Walked
  <2>3. Turned(w, start, 0)
    BY <1>0, <2>2 DEF Turned
  <2> QED
    BY <2>1, <2>3
<1>6. ASSUME NEW n \in Nat, n \in T PROVE n + 1 \in T
  <2> SUFFICES ASSUME n + 1 <= L PROVE Turned(w, f[n + 1], n + 1)
    OBVIOUS
  <2> HIDE DEF start
  <2>1. n < L /\ n <= L
    BY <1>0
  <2>3. f[n + 1] = BombTurn(f[n], drop)
    BY <1>4
  <2>4. Turned(w, f[n], n)
    BY <1>6, <2>1
  <2> QED
    BY <1>0, <2>1, <2>3, <2>4, TurnNext
<1>7. Turned(w, f[L], L)
  <2> HIDE DEF T
  <2>1. Nat \subseteq T
    BY <1>5, <1>6, SetInduction
  <2> QED
    BY <1>0, <2>1 DEF T
<1> HIDE DEF T
<1>8. PICK v : v = f[L].w
  OBVIOUS
<1>9. /\ IsWorld(v) /\ IsList(v.explodes) /\ v.players = w.players
      /\ Walked(w.bombs, v.bombs, f[L].i, L)
  BY <1>7, <1>8 DEF Turned
<1>10. ASSUME NEW k \in 1 .. lobby PROVE Within(v.bombs, v.players[k], k)
  <2>1. IsPlayer(w.players[k]) /\ Midway(w.bombs, w.players[k], k)
    BY <1>0 DEF IsTeam, HalfWay
  <2>2. Within(v.bombs, w.players[k], k)
    BY <1>0, <1>9, <2>1, WalkEnds
  <2> QED
    BY <1>9, <2>2
<1>11. IsQueue(v.bombs)
  BY <1>9 DEF Walked
<1> QED
  BY <1>0, <1>4, <1>8, <1>9, <1>10, <1>11 DEF Good, Typed

-----------------------------------------------------------------------------
(* The rest of the tick leaves bombs and inventories alone *)

\* Same bombs, same players
Same(v, w) == IsWorld(v) /\ IsList(v.explodes) /\ v.bombs = w.bombs /\ v.players = w.players

LEMMA ListCut ==
  ASSUME NEW x, NEW n \in Nat
  PROVE  IsList(SubSeq(x, 1, n - 1))
<1> DEFINE X == {x[j] : j \in 1 .. (n - 1)}
<1>1. PICK r : r = SubSeq(x, 1, n - 1)
  OBVIOUS
<1>2. r \in Seq(X)
  <2>1. \A j \in 1 .. (n - 1) : x[j] \in X
    OBVIOUS
  <2> HIDE DEF X
  <2> QED
    BY <1>1, <2>1, SubSeqProperties
<1> HIDE DEF X
<1>3. Len(r) \in Nat /\ r = [j \in 1 .. Len(r) |-> r[j]]
  BY ONLY <1>2
<1> QED
  BY <1>1, <1>3, ListOf

LEMMA FireTurn ==
  ASSUME NEW w, NEW s, Same(s.w, w)
  PROVE  Same(ExplosionTurn(s).w, w)
<1> DEFINE i == s.i
           queue == [s.w.explodes EXCEPT ![i].timer = @ - 1]
           rear == Len(queue)
           tiles == queue[i].spread
           left == SubSeq([queue EXCEPT ![i] = queue[rear]], 1, rear - 1)
           out == [s.w EXCEPT
                     !.map = [t \in DOMAIN @ |-> IF t \in tiles \cup {queue[i].center}
                                                 THEN "EMPTY" ELSE @[t]],
                     !.explodes = left]
           on == [s.w EXCEPT !.explodes = queue]
           off == spawn_pending_powerups(out, tiles)
<1>1. ExplosionTurn(s) = IF queue[i].timer > 0 THEN [i |-> i + 1, w |-> on]
                                               ELSE [i |-> i, w |-> off]
  BY DEF ExplosionTurn
<1>6. IsList(queue) /\ IsList(left)
  <2>1. IsList(s.w.explodes)
    BY DEF Same
  <2>2. Len(s.w.explodes) \in Nat /\ DOMAIN s.w.explodes = 1 .. Len(s.w.explodes)
    BY <2>1 DEF IsList
  <2>3. queue = [j \in 1 .. Len(s.w.explodes) |-> queue[j]]
    BY <2>2
  <2> HIDE DEF queue
  <2>4. IsList(queue) /\ Len(queue) \in Nat
    BY <2>2, <2>3, ListOf
  <2>5. IsList(left)
    BY <2>4, ListCut
  <2> QED
    BY <2>4, <2>5
<1> HIDE DEF queue, left
<1>2. IsWorld(s.w) /\ s.w.bombs = w.bombs /\ s.w.players = w.players
  BY DEF Same
<1>3. Same(on, w)
  <2>1. IsWorld(on) /\ on.bombs = w.bombs /\ on.players = w.players /\ on.explodes = queue
    BY <1>2 DEF IsWorld, WorldFields
  <2> HIDE DEF on
  <2> QED
    BY <1>6, <2>1 DEF Same
<1>4. IsWorld(out) /\ out.explodes = left /\ out.bombs = w.bombs /\ out.players = w.players
  <2> HIDE DEF tiles
  <2> QED
    BY <1>2 DEF IsWorld, WorldFields
<1> HIDE DEF out, tiles
<1>5. Same(off, w)
  <2>1. IsWorld(off) /\ off.bombs = out.bombs /\ off.players = out.players /\ off.explodes = out.explodes
    BY <1>4 DEF IsWorld, WorldFields, spawn_pending_powerups
  <2> HIDE DEF off
  <2> QED
    BY <1>4, <1>6, <2>1 DEF Same
<1> HIDE DEF on, off, i
<1> QED
  BY <1>1, <1>3, <1>5

\* The turns of tick_explosions
LEMMA FireLoop ==
  ASSUME NEW w, Len(w.explodes) \in Nat
  PROVE  \E f : /\ f[0] = [i |-> 1, w |-> w] /\ tick_explosions(w) = f[Len(w.explodes)].w
               /\ \A n \in Nat : n + 1 <= Len(w.explodes) => f[n + 1] = ExplosionTurn(f[n])
<1> DEFINE start == [i |-> 1, w |-> w]
           Loop(f, N) == f = [n \in 0 .. N |->
                 IF n = 0 THEN start ELSE Only({ExplosionTurn(v) : v \in {f[n - 1]}})]
           S == {N \in Nat : \E f : Loop(f, N)}
<1>1. 0 \in S
  <2>1. Loop([n \in 0 .. 0 |-> start], 0)
    OBVIOUS
  <2> QED
    BY <2>1
<1>2. ASSUME NEW n \in Nat, n \in S PROVE n + 1 \in S
  <2>1. PICK f : Loop(f, n)
    BY <1>2
  <2>2. PICK g : g = [k \in 0 .. n + 1 |->
                 IF k = n + 1 THEN Only({ExplosionTurn(v) : v \in {f[n]}}) ELSE f[k]]
    OBVIOUS
  <2> HIDE DEF start
  <2>3. ASSUME NEW k \in 0 .. n + 1
        PROVE  g[k] = IF k = 0 THEN start ELSE Only({ExplosionTurn(v) : v \in {g[k - 1]}})
    <3>1. CASE k = n + 1
      <4>1. g[k] = Only({ExplosionTurn(v) : v \in {f[n]}}) /\ k - 1 = n /\ k # 0
        BY <2>2, <3>1
      <4>2. g[n] = f[n]
        BY <2>2
      <4> QED
        BY <4>1, <4>2
    <3>2. CASE k # n + 1
      <4>1. k \in 0 .. n /\ (k # 0 => k - 1 \in 0 .. n)
        BY <3>2
      <4>2. f[k] = IF k = 0 THEN start ELSE Only({ExplosionTurn(v) : v \in {f[k - 1]}})
        BY <2>1, <4>1
      <4>3. g[k] = f[k] /\ (k # 0 => g[k - 1] = f[k - 1])
        BY <2>2, <4>1
      <4> QED
        BY <4>2, <4>3
    <3> QED
      BY <3>1, <3>2
  <2>4. g = [k \in 0 .. n + 1 |-> g[k]]
    BY <2>2
  <2>5. Loop(g, n + 1)
    BY <2>3, <2>4
  <2> HIDE DEF Loop
  <2> QED
    BY <2>5
<1>3. \E f : Loop(f, Len(w.explodes))
  <2> HIDE DEF S
  <2>1. Nat \subseteq S
    BY <1>1, <1>2, SetInduction
  <2> QED
    BY <2>1 DEF S
<1>4. PICK f : Loop(f, Len(w.explodes)) /\ tick_explosions(w) = f[Len(w.explodes)].w
  BY <1>3 DEF tick_explosions
<1>5. f[0] = start
  BY <1>4
<1>6. ASSUME NEW n \in Nat, n + 1 <= Len(w.explodes) PROVE f[n + 1] = ExplosionTurn(f[n])
  <2>1. n + 1 \in 0 .. Len(w.explodes) /\ n + 1 # 0 /\ (n + 1) - 1 = n
    BY <1>6
  <2> HIDE DEF start
  <2>2. f[n + 1] = Only({ExplosionTurn(v) : v \in {f[n]}})
    BY <1>4, <2>1
  <2>3. {ExplosionTurn(v) : v \in {f[n]}} = {ExplosionTurn(f[n])}
    OBVIOUS
  <2> QED
    BY <2>2, <2>3, OnlyOne
<1> HIDE DEF Loop, S
<1> QED
  BY <1>4, <1>5, <1>6

LEMMA FiresSame ==
  ASSUME NEW w, IsWorld(w), IsList(w.explodes)
  PROVE  Same(tick_explosions(w), w)
<1> DEFINE L == Len(w.explodes)
           start == [i |-> 1, w |-> w]
<1>0. L \in Nat
  BY DEF IsList
<1>4. PICK f : /\ f[0] = start /\ tick_explosions(w) = f[L].w
               /\ \A n \in Nat : n + 1 <= L => f[n + 1] = ExplosionTurn(f[n])
  BY <1>0, FireLoop
<1> DEFINE T == {n \in Nat : n <= L => Same(f[n].w, w)}
<1>5. 0 \in T
  <2>1. f[0].w = w
    BY <1>0, <1>4
  <2>2. Same(w, w)
    BY DEF Same
  <2> QED
    BY <2>1, <2>2
<1>6. ASSUME NEW n \in Nat, n \in T PROVE n + 1 \in T
  <2> SUFFICES ASSUME n + 1 <= L PROVE Same(f[n + 1].w, w)
    OBVIOUS
  <2> HIDE DEF start
  <2>1. n <= L
    BY <1>0
  <2>3. f[n + 1] = ExplosionTurn(f[n])
    BY <1>4
  <2>4. Same(f[n].w, w)
    BY <1>6, <2>1
  <2> QED
    BY <2>3, <2>4, FireTurn
<1>7. Same(f[L].w, w)
  <2> HIDE DEF T
  <2>1. Nat \subseteq T
    BY <1>5, <1>6, SetInduction
  <2> QED
    BY <1>0, <2>1 DEF T
<1> HIDE DEF T
<1> QED
  BY <1>4, <1>7

LEMMA SameGood ==
  ASSUME NEW v, NEW w, Good(w), Same(v, w)
  PROVE  Good(v)
  BY DEF Good, Typed, Same

LEMMA KillGood ==
  ASSUME NEW w, Good(w)
  PROVE  Good([kill_players_in_explosions(w) EXCEPT !.dirty = FALSE])
<1> DEFINE ps == [k \in DOMAIN w.players |-> [w.players[k] EXCEPT !.alive = @ /\ ~Burns(w, k)]]
           v == kill_players_in_explosions(w)
           u == [v EXCEPT !.dirty = FALSE]
<1>1. IsWorld(w) /\ IsTeam(w.players) /\ DOMAIN w.players = 1 .. lobby
  BY DEF Good, Typed, IsTeam
<1>2. ASSUME NEW k \in 1 .. lobby
      PROVE  /\ IsPlayer(ps[k]) /\ ps[k].num_bombs = w.players[k].num_bombs
             /\ ps[k].remaining = w.players[k].remaining
             /\ ps[k].replenish = w.players[k].replenish
  <2>1. PICK p : p = w.players[k]
    OBVIOUS
  <2>2. IsPlayer(p)
    BY <1>1, <2>1 DEF IsTeam
  <2>3. PICK b : ps[k] = [p EXCEPT !.alive = b]
    BY <1>1, <2>1
  <2> HIDE DEF ps
  <2>4. p = [f \in PlayerFields |-> p[f]]
    BY <2>2 DEF IsPlayer
  <2>5. /\ ps[k] = [f \in PlayerFields |-> ps[k][f]] /\ ps[k].num_bombs = p.num_bombs
        /\ ps[k].remaining = p.remaining /\ ps[k].replenish = p.replenish
    BY <2>3, <2>4 DEF PlayerFields
  <2> QED
    BY <2>1, <2>2, <2>5 DEF IsPlayer
<1>3. IsWorld(v) /\ v.bombs = w.bombs /\ v.explodes = w.explodes /\ v.players = ps
  BY <1>1 DEF kill_players_in_explosions, IsWorld, WorldFields
<1>4. ps = [k \in 1 .. lobby |-> ps[k]]
  BY <1>1
<1> HIDE DEF v, ps
<1>5. IsWorld(u) /\ u.bombs = w.bombs /\ u.explodes = w.explodes /\ u.players = ps
  BY <1>3 DEF IsWorld, WorldFields
<1> HIDE DEF u
<1>6. IsTeam(u.players)
  BY <1>2, <1>4, <1>5 DEF IsTeam
<1>7. Good(u)
  BY <1>2, <1>5, <1>6, SameBudget
<1> QED
  BY <1>7 DEF u, v

LEMMA NewGood ==
  ASSUME NEW m, lobby \in Nat
  PROVE  Good(init_session(m))
<1>1. PICK w : w = init_session(m)
  OBVIOUS
<1> DEFINE ps == [k \in 1 .. lobby |-> NewPlayer(m, MapSize, k)]
<1>2. /\ IsWorld(w) /\ w.bombs = <<>> /\ w.explodes = <<>>
      /\ w.players = ps
  BY <1>1 DEF init_session, IsWorld, WorldFields
<1>3. ASSUME NEW k \in 1 .. lobby
      PROVE  /\ IsPlayer(ps[k]) /\ ps[k].num_bombs = 2 /\ ps[k].remaining = 2
  BY DEF NewPlayer, IsPlayer, PlayerFields
<1>4. IsTeam(ps)
  BY <1>3 DEF IsTeam
<1>5. IsQueue(w.bombs) /\ IsList(w.explodes) /\ \A k : Mine(w.bombs, k) = {}
  BY <1>2 DEF IsQueue, IsList, Mine
<1>6. Cardinality({}) = 0
  BY FS_EmptySet
<1>7. ASSUME NEW k \in 1 .. lobby PROVE Within(w.bombs, w.players[k], k)
  <2>1. w.players[k].remaining = 2 /\ w.players[k].num_bombs = 2
    BY <1>2, <1>3
  <2>2. Mine(w.bombs, k) = {} /\ Cardinality(Mine(w.bombs, k)) = 0
    BY <1>5, <1>6
  <2>3. Cardinality(Mine(w.bombs, k)) + w.players[k].remaining <= w.players[k].num_bombs
    BY <2>1, <2>2
  <2> QED
    BY <2>2, <2>3 DEF Within
<1> QED
  BY <1>1, <1>2, <1>4, <1>5, <1>7 DEF Good, Typed

-----------------------------------------------------------------------------
(* The specification *)

\* Good speaks of the number of players, which a match does not change
LEMMA GoodNext ==
  ASSUME lobby' = lobby, Good(world'), lobby \in Nat, stage' \in {"match", "over"}
  PROVE  BudgetInv'
  BY DEF BudgetInv, Good, Typed, IsTeam

LEMMA TickGood ==
  ASSUME BudgetInv, Tick
  PROVE  BudgetInv'
<1>1. Good(world) /\ lobby \in Nat /\ lobby' = lobby /\ stage' \in {"match", "over"}
  BY DEF BudgetInv, Tick
<1>2. PICK drop, moved, bombed, calm, w :
        /\ moved = apply_movement_and_pickups(world) /\ bombed = tick_bombs(moved, drop)
        /\ calm = tick_explosions(bombed) /\ w = kill_players_in_explosions(calm)
        /\ world' = [w EXCEPT !.dirty = FALSE]
  BY DEF Tick
<1>3. HalfWay(moved)
  BY <1>1, <1>2, MovementHalfWay
<1>4. Good(bombed)
  BY <1>1, <1>2, <1>3, BombsGood
<1>5. Same(calm, bombed)
  BY <1>2, <1>4, FiresSame DEF Good, Typed
<1>6. Good(calm)
  BY <1>4, <1>5, SameGood
<1>7. Good(world')
  BY <1>2, <1>6, KillGood
<1> QED
  BY <1>1, <1>7, GoodNext

LEMMA StepGood ==
  ASSUME BudgetInv, [Next]_vars
  PROVE  BudgetInv'
<1>0. /\ lobby \in Nat /\ stage \in {"lobby", "match", "over", "closed"}
      /\ stage \in {"lobby", "closed"} => world = <<>>
      /\ stage \in {"match", "over"} => Good(world)
  BY DEF BudgetInv
<1>1. CASE Join
  BY <1>0, <1>1 DEF Join, BudgetInv
<1>2. CASE StartMatch
  <2>1. PICK m : world' = init_session(m)
    BY <1>2 DEF StartMatch
  <2>2. lobby' = lobby /\ stage' = "match"
    BY <1>2 DEF StartMatch
  <2>3. Good(world')
    BY <1>0, <2>1, NewGood
  <2> QED
    BY <1>0, <2>2, <2>3, GoodNext
<1>3. CASE Leave
  BY <1>0, <1>3 DEF Leave, BudgetInv
<1>4. CASE Tick
  BY <1>4, TickGood
<1>5. CASE Stop
  <2>1. lobby' = lobby /\ stage' = "over" /\ world' = world /\ stage = "match"
    BY <1>5 DEF Stop
  <2>2. Good(world')
    BY <1>0, <2>1
  <2> QED
    BY <1>0, <2>1, <2>2, GoodNext
<1>6. ASSUME UNCHANGED <<stage, lobby, world>> PROVE BudgetInv'
  BY <1>0, <1>6 DEF BudgetInv, Good, Typed, IsTeam
<1>7. CASE Poll
  BY <1>6, <1>7 DEF Poll
<1>8. CASE UNCHANGED vars
  BY <1>6, <1>8 DEF vars
<1>9. ASSUME NEW k \in 1 .. lobby, NEW d \in Directions, DrainMove(k, d) PROVE BudgetInv'
  <2>1. lobby' = lobby /\ stage' = "match" /\ stage = "match" /\ world' = apply_move(world, k, d)
    BY <1>9 DEF DrainMove, Draining
  <2>2. Good(world')
    BY <1>0, <2>1, MoveGood
  <2> QED
    BY <1>0, <2>1, <2>2, GoodNext
<1>10. ASSUME NEW k \in 1 .. lobby, DrainBombPlace(k) PROVE BudgetInv'
  <2>1. lobby' = lobby /\ stage' = "match" /\ stage = "match" /\ world' = apply_bomb_place(world, k)
    BY <1>10 DEF DrainBombPlace, Draining
  <2>2. Good(world')
    BY <1>0, <2>1, PlaceGood
  <2> QED
    BY <1>0, <2>1, <2>2, GoodNext
<1>11. ASSUME NEW k \in 1 .. lobby, Disconnect(k) PROVE BudgetInv'
  BY <1>6, <1>11 DEF Disconnect
<1> QED
  BY <1>1, <1>2, <1>3, <1>4, <1>5, <1>7, <1>8, <1>9, <1>10, <1>11 DEF Next

(* In every match, however many players, bombs and power-ups: the bombs a   *)
(* player has on the floor and in the hand never exceed num_bombs, although *)
(* no line of inventory.c or session.c compares the two.                    *)
THEOREM BombsWithinBudget == Spec => []BombBudget
<1>1. Init => BudgetInv
  BY DEF Init, BudgetInv
<1>2. BudgetInv /\ [Next]_vars => BudgetInv'
  BY StepGood
<1>3. BudgetInv => BombBudget
  <2> SUFFICES ASSUME BudgetInv, stage # "lobby", world # <<>>, NEW k \in 1 .. lobby
               PROVE  Cardinality({i \in DOMAIN world.bombs : world.bombs[i].by = k})
                        + world.players[k].remaining <= world.players[k].num_bombs
    BY DEF BombBudget
  <2>1. Good(world)
    BY DEF BudgetInv
  <2>2. IsQueue(world.bombs) /\ Within(world.bombs, world.players[k], k)
    BY <2>1 DEF Good, Typed
  <2>3. DOMAIN world.bombs = 1 .. Len(world.bombs)
    BY <2>2, QueueLen
  <2>4. {i \in DOMAIN world.bombs : world.bombs[i].by = k} = Mine(world.bombs, k)
    BY <2>3 DEF Mine
  <2> QED
    BY <2>2, <2>4 DEF Within
<1> QED
  BY <1>1, <1>2, <1>3, PTL DEF Spec

-----------------------------------------------------------------------------
(***************************************************************************)
(* The client's mirror.  Replay is followed packet by packet: a run lists  *)
(* the mirror after each packet, so that what is in flight can be appended *)
(* to, cut off in front and looked into.                                   *)
(***************************************************************************)

IsRun(f, m, s) == f = [n \in 0 .. Len(s) |-> IF n = 0 THEN m ELSE Apply(f[n - 1], s[n])]

LEMMA ApplyOnly == \A x, p : Only({Apply(v, p) : v \in {x}}) = Apply(x, p)
<1> SUFFICES ASSUME NEW x, NEW p PROVE Only({Apply(v, p) : v \in {x}}) = Apply(x, p)
  OBVIOUS
<1>1. {Apply(v, p) : v \in {x}} = {Apply(x, p)}
  OBVIOUS
<1> QED
  BY <1>1, OnlyOne

LEMMA RunExists ==
  ASSUME NEW m, NEW s, Len(s) \in Nat
  PROVE  \E f : IsRun(f, m, s)
<1> DEFINE Loop(f, N) == f = [n \in 0 .. N |-> IF n = 0 THEN m ELSE Apply(f[n - 1], s[n])]
           S == {N \in Nat : \E f : Loop(f, N)}
<1>1. 0 \in S
  <2>1. Loop([n \in 0 .. 0 |-> m], 0)
    OBVIOUS
  <2> QED
    BY <2>1
<1>2. ASSUME NEW n \in Nat, n \in S PROVE n + 1 \in S
  <2>1. PICK f : Loop(f, n)
    BY <1>2
  <2>2. PICK g : g = [k \in 0 .. n + 1 |-> IF k = n + 1 THEN Apply(f[n], s[k]) ELSE f[k]]
    OBVIOUS
  <2>3. ASSUME NEW k \in 0 .. n + 1
        PROVE  g[k] = IF k = 0 THEN m ELSE Apply(g[k - 1], s[k])
    <3>1. CASE k = n + 1
      <4>1. g[k] = Apply(f[n], s[k]) /\ k - 1 = n /\ k # 0
        BY <2>2, <3>1
      <4>2. g[n] = f[n]
        BY <2>2
      <4> QED
        BY <4>1, <4>2
    <3>2. CASE k # n + 1
      <4>1. k \in 0 .. n /\ (k # 0 => k - 1 \in 0 .. n)
        BY <3>2
      <4>2. f[k] = IF k = 0 THEN m ELSE Apply(f[k - 1], s[k])
        BY <2>1, <4>1
      <4>3. g[k] = f[k] /\ (k # 0 => g[k - 1] = f[k - 1])
        BY <2>2, <4>1
      <4> QED
        BY <4>2, <4>3
    <3> QED
      BY <3>1, <3>2
  <2>4. g = [k \in 0 .. n + 1 |-> g[k]]
    BY <2>2
  <2>5. Loop(g, n + 1)
    BY <2>3, <2>4
  <2> HIDE DEF Loop
  <2> QED
    BY <2>5
<1>3. \E f : Loop(f, Len(s))
  <2> HIDE DEF S
  <2>1. Nat \subseteq S
    BY <1>1, <1>2, SetInduction
  <2> QED
    BY <2>1 DEF S
<1> QED
  BY <1>3 DEF IsRun

\* There is one run, and Replay is where it ends
LEMMA ReplayRun ==
  ASSUME NEW m, NEW s, Len(s) \in Nat, NEW f, IsRun(f, m, s)
  PROVE  Replay(m, s) = f[Len(s)]
<1> DEFINE Loop(g) == g = [n \in 0 .. Len(s) |->
                 IF n = 0 THEN m ELSE Only({Apply(v, s[n]) : v \in {g[n - 1]}})]
<1>1. Loop(f)
  <2>1. \A n \in 0 .. Len(s) : f[n] = IF n = 0 THEN m ELSE Only({Apply(v, s[n]) : v \in {f[n - 1]}})
    BY ApplyOnly DEF IsRun
  <2>2. f = [n \in 0 .. Len(s) |-> f[n]]
    BY DEF IsRun
  <2> QED
    BY <2>1, <2>2
<1>2. PICK g : Loop(g) /\ Replay(m, s) = g[Len(s)]
  BY <1>1 DEF Replay
<1> DEFINE T == {n \in Nat : n <= Len(s) => g[n] = f[n]}
<1>3. 0 \in T
  <2>1. g[0] = m /\ f[0] = m
    BY <1>2 DEF IsRun
  <2> QED
    BY <2>1
<1>4. ASSUME NEW n \in Nat, n \in T PROVE n + 1 \in T
  <2> SUFFICES ASSUME n + 1 <= Len(s) PROVE g[n + 1] = f[n + 1]
    OBVIOUS
  <2>1. n <= Len(s) /\ n + 1 \in 0 .. Len(s) /\ n + 1 # 0 /\ (n + 1) - 1 = n
    OBVIOUS
  <2>2. g[n + 1] = Only({Apply(v, s[n + 1]) : v \in {g[n]}})
    BY <1>2, <2>1
  <2>3. f[n + 1] = Apply(f[n], s[n + 1])
    BY <2>1 DEF IsRun
  <2>4. g[n] = f[n]
    BY <1>4, <2>1
  <2> QED
    BY <2>2, <2>3, <2>4, ApplyOnly
<1>5. g[Len(s)] = f[Len(s)]
  <2> HIDE DEF T
  <2>1. Nat \subseteq T
    BY <1>3, <1>4, SetInduction
  <2> QED
    BY <2>1 DEF T
<1> QED
  BY <1>2, <1>5

LEMMA ListLen ==
  ASSUME NEW s, IsList(s)
  PROVE  Len(s) \in Nat /\ s = [i \in 1 .. Len(s) |-> s[i]]
<1>1. s \in Seq(Range(s))
  BY DEF IsList
<1> QED
  BY ONLY <1>1

LEMMA Prefix ==
  ASSUME NEW s, IsList(s), NEW n \in 0 .. Len(s)
  PROVE  LET r == SubSeq(s, 1, n)
         IN  IsList(r) /\ Len(r) = n /\ \A i \in 1 .. n : r[i] = s[i]
<1>1. s \in Seq(Range(s)) /\ Len(s) \in Nat
  BY DEF IsList
<1>2. PICK r : r = SubSeq(s, 1, n)
  OBVIOUS
<1>3. r \in Seq(Range(s)) /\ Len(r) = n /\ \A i \in 1 .. n : r[i] = s[i]
  BY <1>1, <1>2
<1>4. r = [i \in 1 .. n |-> r[i]]
  BY ONLY <1>3
<1>5. IsList(r)
  BY <1>1, <1>4, ListOf
<1> QED
  BY <1>2, <1>3, <1>5

LEMMA Suffix ==
  ASSUME NEW s, IsList(s), NEW n \in 0 .. Len(s)
  PROVE  LET r == SubSeq(s, n + 1, Len(s))
         IN  IsList(r) /\ Len(r) = Len(s) - n /\ \A i \in 1 .. (Len(s) - n) : r[i] = s[n + i]
<1>1. s \in Seq(Range(s)) /\ Len(s) \in Nat /\ Len(s) - n \in Nat
  BY DEF IsList
<1>2. PICK r : r = SubSeq(s, n + 1, Len(s))
  OBVIOUS
<1>3. r \in Seq(Range(s)) /\ Len(r) = Len(s) - n /\ \A i \in 1 .. (Len(s) - n) : r[i] = s[n + i]
  BY <1>1, <1>2
<1>4. r = [i \in 1 .. (Len(s) - n) |-> r[i]]
  BY ONLY <1>3
<1>5. IsList(r)
  BY <1>1, <1>4, ListOf
<1> QED
  BY <1>2, <1>3, <1>5

\* A run contains the mirror after each packet
LEMMA RunPrefix ==
  ASSUME NEW m, NEW s, IsList(s), NEW f, IsRun(f, m, s), NEW n \in 0 .. Len(s)
  PROVE  Replay(m, SubSeq(s, 1, n)) = f[n]
<1>1. PICK r : r = SubSeq(s, 1, n)
  OBVIOUS
<1>2. Len(r) = n /\ n \in Nat /\ \A i \in 1 .. n : r[i] = s[i]
  BY <1>1, Prefix, ListLen
<1>3. PICK g : g = [i \in 0 .. n |-> f[i]]
  OBVIOUS
<1>4. ASSUME NEW i \in 0 .. n PROVE g[i] = IF i = 0 THEN m ELSE Apply(g[i - 1], r[i])
  <2>1. i \in 0 .. Len(s) /\ (i # 0 => i - 1 \in 0 .. n /\ r[i] = s[i]) /\ g[i] = f[i]
    BY <1>2, <1>3, ListLen
  <2>2. f[i] = IF i = 0 THEN m ELSE Apply(f[i - 1], s[i])
    BY <2>1 DEF IsRun
  <2> QED
    BY <1>3, <2>1, <2>2
<1>5. IsRun(g, m, r)
  BY <1>2, <1>3, <1>4 DEF IsRun
<1> QED
  BY <1>1, <1>2, <1>3, <1>5, ReplayRun

\* What is left when the first n packets are applied
LEMMA RunSuffix ==
  ASSUME NEW m, NEW s, IsList(s), NEW f, IsRun(f, m, s), NEW n \in 0 .. Len(s),
         NEW g, g = [i \in 0 .. (Len(s) - n) |-> f[n + i]]
  PROVE  IsRun(g, f[n], SubSeq(s, n + 1, Len(s)))
<1>1. PICK r : r = SubSeq(s, n + 1, Len(s))
  OBVIOUS
<1>2. Len(r) = Len(s) - n /\ Len(s) \in Nat /\ n \in Nat /\ \A i \in 1 .. (Len(s) - n) : r[i] = s[n + i]
  BY <1>1, Suffix, ListLen
<1>4. ASSUME NEW i \in 0 .. (Len(s) - n)
      PROVE  g[i] = IF i = 0 THEN f[n] ELSE Apply(g[i - 1], r[i])
  <2>0. i \in Nat /\ i + n <= Len(s)
    BY <1>2
  <2>1. CASE i = 0
    <3>1. g[0] = f[n + 0] /\ n + 0 = n
      BY <1>2, <2>1
    <3> QED
      BY <2>1, <3>1
  <2>2. CASE i # 0
    <3>1. /\ n + i \in 0 .. Len(s) /\ n + i # 0 /\ (n + i) - 1 = n + (i - 1)
          /\ i - 1 \in 0 .. (Len(s) - n) /\ i \in 1 .. (Len(s) - n)
      BY <1>2, <2>0, <2>2
    <3>2. f[n + i] = Apply(f[n + (i - 1)], s[n + i])
      BY <3>1 DEF IsRun
    <3>3. g[i] = f[n + i] /\ g[i - 1] = f[n + (i - 1)] /\ r[i] = s[n + i]
      BY <1>2, <3>1
    <3> QED
      BY <2>2, <3>2, <3>3
  <2> QED
    BY <2>1, <2>2
<1>5. IsRun(g, f[n], r)
  BY <1>2, <1>4 DEF IsRun
<1> QED
  BY <1>1, <1>5

LEMMA RunAppend ==
  ASSUME NEW m, NEW s, IsList(s), NEW f, IsRun(f, m, s), NEW p,
         NEW g, g = [i \in 0 .. (Len(s) + 1) |-> IF i = Len(s) + 1 THEN Apply(f[Len(s)], p) ELSE f[i]]
  PROVE  IsRun(g, m, Append(s, p))
<1>1. PICK r : r = Append(s, p)
  OBVIOUS
<1>2. /\ Len(s) \in Nat /\ Len(r) = Len(s) + 1 /\ r[Len(s) + 1] = p
      /\ \A i \in 1 .. Len(s) : r[i] = s[i]
  BY <1>1, ListLen
<1>3. ASSUME NEW i \in 0 .. (Len(s) + 1)
      PROVE  g[i] = IF i = 0 THEN m ELSE Apply(g[i - 1], r[i])
  <2>1. CASE i = Len(s) + 1
    <3>1. g[i] = Apply(f[Len(s)], p) /\ i - 1 = Len(s) /\ i # 0
      BY <1>2, <2>1
    <3>2. g[Len(s)] = f[Len(s)]
      BY <1>2
    <3> QED
      BY <1>2, <2>1, <3>1, <3>2
  <2>2. CASE i # Len(s) + 1
    <3>1. i \in 0 .. Len(s) /\ (i # 0 => i - 1 \in 0 .. Len(s) /\ i \in 1 .. Len(s))
      BY <1>2, <2>2
    <3>2. f[i] = IF i = 0 THEN m ELSE Apply(f[i - 1], s[i])
      BY <3>1 DEF IsRun
    <3>3. g[i] = f[i] /\ (i # 0 => g[i - 1] = f[i - 1] /\ r[i] = s[i])
      BY <1>2, <3>1
    <3> QED
      BY <3>2, <3>3
  <2> QED
    BY <2>1, <2>2
<1>4. IsRun(g, m, r)
  BY <1>2, <1>3 DEF IsRun
<1> QED
  BY <1>1, <1>4

\* What the client holds now and after each packet that is on its way
Views(m, s) == {Replay(m, SubSeq(s, 1, n)) : n \in 0 .. Len(s)}

Along(f, n) == {f[i] : i \in 0 .. n}

LEMMA ViewsRun ==
  ASSUME NEW m, NEW s, IsList(s), NEW f, IsRun(f, m, s)
  PROVE  Views(m, s) = Along(f, Len(s)) /\ Replay(m, s) = f[Len(s)] /\ f[0] = m
<1>1. \A n \in 0 .. Len(s) : Replay(m, SubSeq(s, 1, n)) = f[n]
  BY RunPrefix
<1>2. Len(s) \in Nat
  BY ListLen
<1>3. f[0] = m
  BY <1>2 DEF IsRun
<1> QED
  BY <1>1, <1>2, <1>3, ReplayRun DEF Views, Along

LEMMA ViewsEnds ==
  ASSUME NEW m, NEW s, IsList(s)
  PROVE  m \in Views(m, s) /\ Replay(m, s) \in Views(m, s)
<1>1. Len(s) \in Nat
  BY ListLen
<1>2. PICK f : IsRun(f, m, s)
  BY <1>1, RunExists
<1>3. Views(m, s) = Along(f, Len(s)) /\ Replay(m, s) = f[Len(s)] /\ f[0] = m
  BY <1>2, ViewsRun
<1> QED
  BY <1>1, <1>3 DEF Along

LEMMA ViewsEmpty ==
  ASSUME NEW m, NEW s, IsList(s), Len(s) = 0
  PROVE  Views(m, s) = {m} /\ Replay(m, s) = m
<1>1. Len(s) \in Nat
  OBVIOUS
<1>2. PICK f : IsRun(f, m, s)
  BY <1>1, RunExists
<1>3. Views(m, s) = Along(f, Len(s)) /\ Replay(m, s) = f[Len(s)] /\ f[0] = m
  BY <1>2, ViewsRun
<1> QED
  BY <1>3 DEF Along

LEMMA ViewsAppend ==
  ASSUME NEW m, NEW s, IsList(s), NEW p
  PROVE  /\ IsList(Append(s, p))
         /\ Replay(m, Append(s, p)) = Apply(Replay(m, s), p)
         /\ Views(m, Append(s, p)) = Views(m, s) \cup {Apply(Replay(m, s), p)}
<1>1. Len(s) \in Nat /\ IsList(Append(s, p)) /\ Len(Append(s, p)) = Len(s) + 1
  BY ListLen, ListAppend
<1>2. PICK f : IsRun(f, m, s)
  BY <1>1, RunExists
<1>3. PICK g : g = [i \in 0 .. (Len(s) + 1) |-> IF i = Len(s) + 1 THEN Apply(f[Len(s)], p) ELSE f[i]]
  OBVIOUS
<1>4. IsRun(g, m, Append(s, p))
  BY <1>2, <1>3, RunAppend
<1>5. Views(m, s) = Along(f, Len(s)) /\ Replay(m, s) = f[Len(s)]
  BY <1>2, ViewsRun
<1>9. /\ Views(m, Append(s, p)) = Along(g, Len(Append(s, p)))
      /\ Replay(m, Append(s, p)) = g[Len(Append(s, p))]
  BY <1>1, <1>4, ViewsRun
<1>6. /\ Views(m, Append(s, p)) = Along(g, Len(s) + 1)
      /\ Replay(m, Append(s, p)) = g[Len(s) + 1]
  BY <1>1, <1>9
<1>7. g[Len(s) + 1] = Apply(f[Len(s)], p) /\ \A i \in 0 .. Len(s) : g[i] = f[i]
  BY <1>1, <1>3
<1>8. 0 .. (Len(s) + 1) = (0 .. Len(s)) \cup {Len(s) + 1}
  BY <1>1
<1> QED
  BY <1>1, <1>5, <1>6, <1>7, <1>8 DEF Along

\* The client applies the first n packets: it comes no nearer to, and no
\* further from, what it will show in the end
LEMMA ViewsDrop ==
  ASSUME NEW m, NEW s, IsList(s), NEW n \in 0 .. Len(s),
         NEW v, v = Replay(m, SubSeq(s, 1, n)), NEW t, t = SubSeq(s, n + 1, Len(s))
  PROVE  IsList(t) /\ Replay(v, t) = Replay(m, s) /\ Views(v, t) \subseteq Views(m, s)
<1>1. Len(s) \in Nat /\ n \in Nat /\ IsList(t) /\ Len(t) = Len(s) - n /\ Len(s) - n \in Nat
  BY ListLen, Suffix
<1>2. PICK f : IsRun(f, m, s)
  BY <1>1, RunExists
<1>3. PICK g : g = [i \in 0 .. (Len(s) - n) |-> f[n + i]]
  OBVIOUS
<1>4. v = f[n]
  BY <1>2, RunPrefix
<1>5. IsRun(g, v, t)
  BY <1>2, <1>3, <1>4, RunSuffix
<1>6. Views(m, s) = Along(f, Len(s)) /\ Replay(m, s) = f[Len(s)]
  BY <1>2, ViewsRun
<1>10. Views(v, t) = Along(g, Len(t)) /\ Replay(v, t) = g[Len(t)]
  <2>1. IsList(t)
    BY <1>1
  <2> QED
    BY ONLY <1>5, <2>1, ViewsRun, Zenon
<1>7. Views(v, t) = Along(g, Len(s) - n) /\ Replay(v, t) = g[Len(s) - n]
  BY <1>1, <1>10
<1>8. n + (Len(s) - n) = Len(s) /\ \A i \in 0 .. (Len(s) - n) : n + i \in 0 .. Len(s)
  BY <1>1
<1>9. g[Len(s) - n] = f[Len(s)]
  <2>1. Len(s) - n \in 0 .. (Len(s) - n)
    BY <1>1
  <2>2. g[Len(s) - n] = f[n + (Len(s) - n)]
    BY <1>3, <2>1
  <2> QED
    BY <1>8, <2>2
<1> QED
  BY <1>1, <1>3, <1>6, <1>7, <1>8, <1>9 DEF Along

-----------------------------------------------------------------------------
(* What a client may hold at any time, and what it holds in the end *)

MirrorFields == {"has_map", "map", "alive", "bombs", "over", "winner", "died", "won"}

IsMirror(m) == m = [f \in MirrorFields |-> m[f]]

\* The slots the client shows agree with the winner it was told
Outcome(m) ==
    LET alive == {k \in 1 .. lobby : Slot(m.alive, k)}
    IN  IF m.winner = 0 THEN alive = {} ELSE alive = {m.winner}

\* A view in stage st, after n interruptions
SeenOK(m, st, n) ==
    /\ IsMirror(m)
    /\ m.died = IF Slot(m.alive, Me) THEN 0 ELSE 1
    /\ m.won = IF m.over /\ m.winner = Me THEN 1 ELSE 0
    /\ m.over => st = "over"
    /\ m.over /\ lobby <= StateMaxPlayers /\ n = 0 => Outcome(m)
    /\ m.over /\ m.winner = Me => Slot(m.alive, Me)

AllSeen(m, s, st, n) == IsList(s) /\ \A v \in Views(m, s) : SeenOK(v, st, n)

\* The view shows the tiles of map pv, and knows who lives in world w
Showing(m, pv) ==
    /\ m.has_map /\ m.map = [t \in Grid(MapSize) |-> m.map[t]]
    /\ \A t \in DOMAIN pv : m.map[t] = pv[t]

Knowing(m, w) ==
    /\ \A k \in 1 .. lobby : k <= StateMaxPlayers => Slot(m.alive, k) = w.players[k].alive
    /\ Me > StateMaxPlayers => Slot(m.alive, Me)

Locating(m, w) ==
    w.bombs # <<>> /\ Len(w.bombs) <= StateMaxBombs =>
        m.bombs = {b.pos : b \in Range(w.bombs)}

MirrorInv ==
    /\ BudgetInv
    /\ stage \in {"lobby", "closed"} \/ Me > lobby => mirror = NoMirror /\ chan = <<>>
    /\ AllSeen(mirror, chan, stage, stops)
    /\ stage \in {"match", "over"} =>
         /\ \A k \in 1 .. lobby : world.players[k].alive \in BOOLEAN
         /\ DOMAIN prev \subseteq Grid(MapSize)
         /\ drained = 0 => \A t \in DOMAIN prev : prev[t] = world.map[t]
         /\ Me <= lobby => /\ Showing(Replay(mirror, chan), prev)
                           /\ Knowing(Replay(mirror, chan), world)
                           /\ drained = 0 => Locating(Replay(mirror, chan), world)

\* Two views with the same fates
SameFate(v, m) ==
    /\ v.over = m.over /\ v.winner = m.winner /\ v.died = m.died /\ v.won = m.won
    /\ \A k : Slot(v.alive, k) = Slot(m.alive, k)

LEMMA FateSeen ==
  ASSUME NEW m, NEW st, NEW n, SeenOK(m, st, n), NEW v, IsMirror(v), SameFate(v, m)
  PROVE  SeenOK(v, st, n)
  BY DEF SeenOK, SameFate, Outcome

LEMMA RosterView ==
  ASSUME NEW m, IsMirror(m), NEW v, v = Apply(m, Roster)
  PROVE  IsMirror(v) /\ SameFate(v, m)
<1>1. v = apply_roster(m, Roster)
  BY DEF Apply, Roster
<1>2. PICK a : a = [id \in DOMAIN m.alive \cup Roster.ids |-> Slot(m.alive, id)]
  OBVIOUS
<1>3. v = [m EXCEPT !.alive = a]
  BY <1>1, <1>2 DEF apply_roster, IsMirror, MirrorFields
<1>4. /\ IsMirror(v) /\ v.over = m.over /\ v.winner = m.winner /\ v.died = m.died /\ v.won = m.won
      /\ v.alive = a
  BY <1>3 DEF IsMirror, MirrorFields
<1>5. \A k : Slot(a, k) = Slot(m.alive, k)
  BY <1>2 DEF Slot
<1> QED
  BY <1>4, <1>5 DEF SameFate

LEMMA MapInitView ==
  ASSUME NEW m, IsMirror(m), NEW map, NEW v, v = Apply(m, MapInit(map)),
         NEW pv, pv = [t \in {u \in DOMAIN map : InPacket(u)} |-> map[t]],
         DOMAIN map = Grid(MapSize)
  PROVE  IsMirror(v) /\ SameFate(v, m) /\ Showing(v, pv)
<1> DEFINE p == MapInit(map)
<1>1. v = apply_map_init(m, p)
  BY DEF Apply, MapInit
<1>2. PICK a : a = [t \in Grid(MapSize) |-> IF t \in DOMAIN p.tiles THEN p.tiles[t] ELSE "EMPTY"]
  OBVIOUS
<1>7. p.map_size = MapSize
  BY DEF MapInit
<1>3. v = [m EXCEPT !.has_map = TRUE, !.map = a]
  BY <1>1, <1>2, <1>7 DEF apply_map_init
<1>4. /\ IsMirror(v) /\ SameFate(v, m) /\ v.has_map /\ v.map = a
  BY <1>3 DEF IsMirror, MirrorFields, SameFate
<1>5. p.tiles = pv
  BY DEF MapInit
<1>6. Showing(v, pv)
  BY <1>2, <1>4, <1>5 DEF Showing
<1> QED
  BY <1>4, <1>6

\* One TILE_UPDATE brings the view from prev to the map it was made of
LEMMA TilesView ==
  ASSUME NEW m, IsMirror(m), Showing(m, prev), DOMAIN prev \subseteq Grid(MapSize), NEW map,
         NEW v, v = Apply(m, [tag |-> "TILE_UPDATE", tiles |-> [t \in Changed(map) |-> map[t]]])
  PROVE  /\ IsMirror(v) /\ SameFate(v, m)
         /\ Showing(v, [t \in DOMAIN prev |-> map[t]])
<1> DEFINE p == [tag |-> "TILE_UPDATE", tiles |-> [t \in Changed(map) |-> map[t]]]
<1>1. v = apply_tile_update(m, p)
  BY DEF Apply
<1>2. PICK a : a = [t \in DOMAIN m.map |-> IF t \in DOMAIN p.tiles THEN p.tiles[t] ELSE m.map[t]]
  OBVIOUS
<1>3. v = [m EXCEPT !.map = a]
  BY <1>1, <1>2 DEF apply_tile_update, Showing, IsMirror, MirrorFields
<1>4. /\ IsMirror(v) /\ SameFate(v, m) /\ v.has_map = m.has_map /\ v.map = a
  BY <1>3 DEF IsMirror, MirrorFields, SameFate
<1>5. DOMAIN p.tiles = Changed(map) /\ \A t \in Changed(map) : p.tiles[t] = map[t]
  OBVIOUS
<1>6. DOMAIN m.map = Grid(MapSize)
  BY DEF Showing
<1> HIDE DEF p
<1>7. a = [t \in Grid(MapSize) |-> a[t]]
  BY <1>2, <1>6
<1>8. ASSUME NEW t \in DOMAIN prev PROVE a[t] = map[t]
  <2>1. m.map[t] = prev[t] /\ t \in DOMAIN m.map
    BY <1>6 DEF Showing
  <2> QED
    BY <1>2, <1>5, <2>1 DEF Changed
<1> QED
  BY <1>4, <1>7, <1>8 DEF Showing

LEMMA Bounds ==
  StateMaxPlayers \in Nat \ {0} /\ StateMaxBombs \in Nat \ {0} /\ Me \in Nat \ {0}
  BY ArenaAssumption

\* What a STATE packet says of a world
LEMMA StatePacket ==
  ASSUME NEW w, lobby \in Nat, DOMAIN w.players = 1 .. lobby, IsQueue(w.bombs),
         NEW p, broadcast_state(w) = <<p>>
  PROVE  /\ p.tag = "STATE"
         /\ DOMAIN p.alive = {k \in 1 .. lobby : k <= StateMaxPlayers}
         /\ \A k \in 1 .. lobby : k <= StateMaxPlayers => p.alive[k] = w.players[k].alive
         /\ Len(w.bombs) <= StateMaxBombs => p.bombs = {b.pos : b \in Range(w.bombs)}
<1>1. PICK a, q : /\ a = [k \in DOMAIN w.players |-> w.players[k].alive]
                  /\ q = [i \in DOMAIN w.bombs |-> w.bombs[i].pos]
                  /\ p = pack_state(a, q)
  BY DEF broadcast_state
<1>2. a = [k \in 1 .. lobby |-> a[k]] /\ Len(a) = lobby
  <2>1. a = [k \in 1 .. lobby |-> a[k]]
    BY <1>1
  <2> QED
    BY <2>1, ListOf
<1>3. Len(w.bombs) \in Nat /\ DOMAIN w.bombs = 1 .. Len(w.bombs) /\ Len(q) = Len(w.bombs)
  <2>1. Len(w.bombs) \in Nat /\ DOMAIN w.bombs = 1 .. Len(w.bombs)
    BY QueueLen
  <2>2. q = [i \in 1 .. Len(w.bombs) |-> q[i]]
    BY <1>1, <2>1
  <2> QED
    BY <2>1, <2>2, ListOf
<1>4. /\ p.tag = "STATE"
      /\ p.alive = [k \in 1 .. Least(lobby, StateMaxPlayers) |-> a[k]]
      /\ p.bombs = {q[i] : i \in 1 .. Least(Len(w.bombs), StateMaxBombs)}
  BY <1>1, <1>2, <1>3 DEF pack_state
<1>5. \A k : k \in 1 .. Least(lobby, StateMaxPlayers) <=> k \in 1 .. lobby /\ k <= StateMaxPlayers
  BY Bounds DEF Least
<1>6. \A k \in 1 .. lobby : k <= StateMaxPlayers => p.alive[k] = w.players[k].alive
  BY <1>1, <1>4, <1>5
<1>7. ASSUME Len(w.bombs) <= StateMaxBombs PROVE p.bombs = {b.pos : b \in Range(w.bombs)}
  <2>1. Least(Len(w.bombs), StateMaxBombs) = Len(w.bombs)
    BY <1>3, <1>7, Bounds DEF Least
  <2>2. Range(w.bombs) = {w.bombs[i] : i \in 1 .. Len(w.bombs)}
    BY <1>3 DEF Range
  <2>3. \A i \in 1 .. Len(w.bombs) : q[i] = w.bombs[i].pos
    BY <1>1, <1>3
  <2>4. p.bombs = {q[i] : i \in 1 .. Len(w.bombs)}
    BY <1>4, <2>1
  <2> QED
    BY <2>2, <2>3, <2>4
<1> QED
  BY <1>4, <1>5, <1>6, <1>7

LEMMA StateView ==
  ASSUME NEW m, NEW n, SeenOK(m, "match", n), Me <= lobby, lobby \in Nat,
         NEW w, DOMAIN w.players = 1 .. lobby, IsQueue(w.bombs),
         \A k \in 1 .. lobby : w.players[k].alive \in BOOLEAN,
         Me <= StateMaxPlayers /\ w.players[Me].alive => Slot(m.alive, Me),
         Me > StateMaxPlayers => Slot(m.alive, Me),
         NEW p, broadcast_state(w) = <<p>>, NEW v, v = Apply(m, p)
  PROVE  /\ SeenOK(v, "match", n) /\ Knowing(v, w) /\ Locating(v, w)
         /\ v.has_map = m.has_map /\ v.map = m.map
<1>1. /\ p.tag = "STATE"
      /\ DOMAIN p.alive = {k \in 1 .. lobby : k <= StateMaxPlayers}
      /\ \A k \in 1 .. lobby : k <= StateMaxPlayers => p.alive[k] = w.players[k].alive
      /\ Len(w.bombs) <= StateMaxBombs => p.bombs = {b.pos : b \in Range(w.bombs)}
  BY StatePacket
<1>2. v = apply_state(m, p)
  BY <1>1 DEF Apply
<1>3. PICK a : a = [id \in DOMAIN m.alive \cup DOMAIN p.alive |->
                        IF id \in DOMAIN p.alive THEN p.alive[id] ELSE m.alive[id]]
  OBVIOUS
<1>4. PICK d : d = m.died + IF Me \in DOMAIN p.alive /\ Slot(m.alive, Me) /\ ~p.alive[Me] THEN 1 ELSE 0
  OBVIOUS
<1>5. IsMirror(m)
  BY DEF SeenOK
<1>6. v = [m EXCEPT !.alive = a, !.bombs = p.bombs, !.died = d]
  BY <1>2, <1>3, <1>4, <1>5 DEF apply_state, IsMirror, MirrorFields
<1>7. /\ IsMirror(v) /\ v.alive = a /\ v.bombs = p.bombs /\ v.died = d /\ v.has_map = m.has_map
      /\ v.map = m.map /\ v.over = m.over /\ v.winner = m.winner /\ v.won = m.won
  BY <1>5, <1>6 DEF IsMirror, MirrorFields
<1>8. \A k : Slot(a, k) = IF k \in DOMAIN p.alive THEN p.alive[k] ELSE Slot(m.alive, k)
  BY <1>3 DEF Slot
<1>9. Me \in 1 .. lobby /\ (Me \in DOMAIN p.alive <=> Me <= StateMaxPlayers)
      /\ (Me <= StateMaxPlayers <=> ~(Me > StateMaxPlayers))
  BY <1>1, Bounds
<1>10. Knowing(v, w)
  BY <1>1, <1>7, <1>8, <1>9 DEF Knowing
<1>11. Locating(v, w)
  BY <1>1, <1>7 DEF Locating
<1>12. ~m.over
  BY DEF SeenOK
<1>13. d = IF Slot(a, Me) THEN 0 ELSE 1
  <2>1. m.died = IF Slot(m.alive, Me) THEN 0 ELSE 1
    BY DEF SeenOK
  <2>2. CASE Me > StateMaxPlayers
    BY <1>4, <1>8, <1>9, <2>1, <2>2
  <2>3. CASE Me <= StateMaxPlayers
    <3>1. /\ Me \in DOMAIN p.alive /\ p.alive[Me] = w.players[Me].alive
          /\ p.alive[Me] \in BOOLEAN /\ Slot(a, Me) = p.alive[Me]
      BY <1>1, <1>8, <1>9, <2>3
    <3>2. p.alive[Me] => Slot(m.alive, Me)
      BY <2>3, <3>1
    <3>3. CASE p.alive[Me]
      BY <1>4, <2>1, <3>1, <3>2, <3>3
    <3>4. CASE ~p.alive[Me]
      <4>1. CASE Slot(m.alive, Me)
        BY <1>4, <2>1, <3>1, <3>4, <4>1
      <4>2. CASE ~Slot(m.alive, Me)
        BY <1>4, <2>1, <3>1, <3>4, <4>2
      <4> QED
        BY <4>1, <4>2
    <3> QED
      BY <3>3, <3>4
  <2> QED
    BY <1>9, <2>2, <2>3
<1>14. SeenOK(v, "match", n)
  BY <1>7, <1>12, <1>13 DEF SeenOK
<1> QED
  BY <1>7, <1>10, <1>11, <1>14

LEMMA OverView ==
  ASSUME NEW m, NEW n, SeenOK(m, "match", n), NEW id, id = Me => Slot(m.alive, Me), NEW k,
         lobby <= StateMaxPlayers /\ k = 0 =>
            LET alive == {j \in 1 .. lobby : Slot(m.alive, j)}
            IN  IF id = 0 THEN alive = {} ELSE alive = {id},
         NEW v, v = Apply(m, GameOver(id))
  PROVE  /\ SeenOK(v, "over", k)
         /\ v.has_map = m.has_map /\ v.map = m.map /\ v.alive = m.alive /\ v.bombs = m.bombs
<1>1. v = apply_game_over(m, GameOver(id))
  BY DEF Apply, GameOver
<1>2. PICK x : x = m.won + IF id # 0 /\ id = Me THEN 1 ELSE 0
  OBVIOUS
<1>3. v = [m EXCEPT !.over = TRUE, !.winner = id, !.won = x]
  BY <1>1, <1>2 DEF apply_game_over, GameOver, SeenOK, IsMirror, MirrorFields
<1>4. /\ IsMirror(v) /\ v.over = TRUE /\ v.winner = id /\ v.won = x /\ v.died = m.died
      /\ v.has_map = m.has_map /\ v.map = m.map /\ v.alive = m.alive /\ v.bombs = m.bombs
  BY <1>3 DEF SeenOK, IsMirror, MirrorFields
<1>5. x = IF id = Me THEN 1 ELSE 0
  <2>1. m.won = 0
    BY DEF SeenOK
  <2> QED
    BY <1>2, <2>1, Bounds
<1> QED
  BY <1>4, <1>5 DEF SeenOK, Outcome

-----------------------------------------------------------------------------
(* The steps of the server and of the client *)

\* The winner that is announced is the one the client knows to live
LEMMA WinnerKnown ==
  ASSUME NEW m, NEW w, Knowing(m, w), MatchOver(w), lobby \in Nat, Me <= lobby,
         DOMAIN w.players = 1 .. lobby, \A k \in 1 .. lobby : w.players[k].alive \in BOOLEAN
  PROVE  /\ Winner(w) = Me => Slot(m.alive, Me)
         /\ lobby <= StateMaxPlayers =>
              LET alive == {j \in 1 .. lobby : Slot(m.alive, j)}
              IN  IF Winner(w) = 0 THEN alive = {} ELSE alive = {Winner(w)}
<1> DEFINE A == Alive(w)
<1>1. A = {k \in 1 .. lobby : w.players[k].alive} /\ A \subseteq 1 .. lobby /\ A \subseteq Nat
  BY DEF Alive
<1>2. IsFiniteSet(A)
  BY <1>1, IntervalSubset
<1>3. A = {} \/ \E k \in A : A = {k}
  <2>1. CASE A = {}
    BY <2>1
  <2>2. CASE A # {}
    <3>1. Cardinality(A) <= 1
      BY <2>2 DEF MatchOver
    <3>2. PICK k \in A : TRUE
      BY <2>2
    <3>3. A \ {k} = {}
      <4>1. IsFiniteSet(A \ {k}) /\ Cardinality(A \ {k}) = Cardinality(A) - 1
        BY <1>2, <3>2, FS_RemoveElement
      <4>2. Cardinality(A \ {k}) \in Nat /\ Cardinality(A) \in Nat
        BY <1>2, <4>1, FS_CardinalityType
      <4>3. Cardinality(A \ {k}) = 0
        BY <3>1, <4>1, <4>2
      <4> QED
        BY <4>1, <4>3, FS_EmptySet
    <3> QED
      BY <3>2, <3>3
  <2> QED
    BY <2>1, <2>2
<1>4. A = {} => Winner(w) = 0
  BY DEF Winner
<1>5. ASSUME NEW k \in A, A = {k} PROVE Winner(w) = k /\ k # 0
  <2>1. lobby # 1
    BY <1>5 DEF MatchOver
  <2>2. Winner(w) = CHOOSE i \in A : \A j \in A : i <= j
    BY <1>5, <2>1 DEF Winner
  <2>3. k \in Nat /\ k # 0 /\ \A j \in A : k <= j
    BY <1>1, <1>5
  <2> HIDE DEF A
  <2> QED
    BY <1>5, <2>2, <2>3
<1> HIDE DEF A
<1>6. Winner(w) = Me => Slot(m.alive, Me)
  <2> SUFFICES ASSUME Winner(w) = Me PROVE Slot(m.alive, Me)
    OBVIOUS
  <2>1. Me \in A
    BY <1>3, <1>4, <1>5, Bounds
  <2> QED
    BY <1>1, <2>1, Bounds DEF Knowing
<1>7. ASSUME lobby <= StateMaxPlayers PROVE A = {j \in 1 .. lobby : Slot(m.alive, j)}
  <2>1. \A j \in 1 .. lobby : j <= StateMaxPlayers
    BY <1>7, Bounds
  <2> QED
    BY <1>1, <2>1 DEF Knowing
<1> QED
  BY <1>3, <1>4, <1>5, <1>6, <1>7

LEMMA ConcatNone ==
  ASSUME NEW s, IsList(s), NEW t, t = <<>>
  PROVE  s \o t = s
<1>1. s \in Seq(Range(s))
  BY DEF IsList
<1> QED
  BY <1>1

LEMMA ConcatOne ==
  ASSUME NEW s, IsList(s), NEW p
  PROVE  s \o <<p>> = Append(s, p)
<1> DEFINE X == Range(s) \cup {p}
<1>1. s \in Seq(X) /\ p \in X
  BY DEF IsList
<1> HIDE DEF X
<1> QED
  BY <1>1, AppendIsConcat

\* One more packet
Sent(s, p) == Append(s, p)

LEMMA SendOne ==
  ASSUME NEW m, NEW s, NEW st, NEW n, AllSeen(m, s, st, n), NEW p,
         SeenOK(Apply(Replay(m, s), p), st, n)
  PROVE  /\ AllSeen(m, Sent(s, p), st, n)
         /\ Replay(m, Sent(s, p)) = Apply(Replay(m, s), p)
  BY ViewsAppend DEF AllSeen, Sent

LEMMA LastSeen ==
  ASSUME NEW m, NEW s, NEW st, NEW n, AllSeen(m, s, st, n)
  PROVE  IsList(s) /\ SeenOK(Replay(m, s), st, n) /\ SeenOK(m, st, n)
  BY ViewsEnds DEF AllSeen

\* diff_and_broadcast_map
LEMMA SendTiles ==
  ASSUME NEW m, NEW s, NEW st, NEW n, AllSeen(m, s, st, n), Showing(Replay(m, s), prev),
         DOMAIN prev \subseteq Grid(MapSize), NEW map,
         NEW t, t = s \o diff_and_broadcast_map(map)
  PROVE  /\ AllSeen(m, t, st, n) /\ SameFate(Replay(m, t), Replay(m, s))
         /\ Showing(Replay(m, t), [u \in DOMAIN prev |-> map[u]])
<1>1. IsList(s) /\ SeenOK(Replay(m, s), st, n)
  BY LastSeen
<1>2. CASE Changed(map) = {}
  <2>1. t = s
    BY <1>1, <1>2, ConcatNone DEF diff_and_broadcast_map
  <2>2. \A u \in DOMAIN prev : map[u] = prev[u]
    BY <1>2 DEF Changed
  <2> QED
    BY <2>1, <2>2 DEF Showing, SameFate
<1>3. CASE Changed(map) # {}
  <2>1. PICK p : p = [tag |-> "TILE_UPDATE", tiles |-> [u \in Changed(map) |-> map[u]]]
    OBVIOUS
  <2>2. t = Sent(s, p)
    BY <1>1, <1>3, <2>1, ConcatOne DEF Sent, diff_and_broadcast_map
  <2>3. PICK v : v = Apply(Replay(m, s), p)
    OBVIOUS
  <2>4. IsMirror(Replay(m, s))
    BY <1>1 DEF SeenOK
  <2>5. /\ IsMirror(v) /\ SameFate(v, Replay(m, s))
        /\ Showing(v, [u \in DOMAIN prev |-> map[u]])
    BY <2>1, <2>3, <2>4, TilesView
  <2>6. SeenOK(v, st, n)
    BY <1>1, <2>5, FateSeen
  <2>7. AllSeen(m, t, st, n) /\ Replay(m, t) = v
    BY <2>2, <2>3, <2>6, SendOne
  <2> QED
    BY <2>5, <2>7
<1> QED
  BY <1>2, <1>3

\* Every player who dies does so in kill_players_in_explosions, which sets dirty
LEMMA KillDirty ==
  ASSUME NEW c, IsWorld(c), IsTeam(c.players), NEW w, w = kill_players_in_explosions(c),
         \A k \in 1 .. lobby : c.players[k].alive \in BOOLEAN
  PROVE  /\ IsWorld(w) /\ DOMAIN w.players = 1 .. lobby /\ w.bombs = c.bombs
         /\ \A k \in 1 .. lobby : /\ w.players[k].alive \in BOOLEAN
                                  /\ w.players[k].alive => c.players[k].alive
                                  /\ ~w.dirty => w.players[k].alive = c.players[k].alive
<1> DEFINE ps == [k \in DOMAIN c.players |-> [c.players[k] EXCEPT !.alive = @ /\ ~Burns(c, k)]]
           d == c.dirty \/ \E k \in DOMAIN c.players : Burns(c, k)
<1>1. DOMAIN c.players = 1 .. lobby
  BY DEF IsTeam
<1>2. IsWorld(w) /\ w.bombs = c.bombs /\ w.players = ps /\ (w.dirty <=> d)
  BY DEF kill_players_in_explosions, IsWorld, WorldFields
<1>3. ASSUME NEW k \in 1 .. lobby
      PROVE  ps[k].alive = (c.players[k].alive /\ ~Burns(c, k))
  <2>1. PICK p : p = c.players[k]
    OBVIOUS
  <2>2. p = [f \in PlayerFields |-> p[f]]
    BY <2>1 DEF IsTeam, IsPlayer
  <2>3. PICK b : b = (p.alive /\ ~Burns(c, k))
    OBVIOUS
  <2>4. ps[k] = [p EXCEPT !.alive = b]
    BY <1>1, <2>1, <2>3
  <2> HIDE DEF ps
  <2> QED
    BY <2>1, <2>2, <2>3, <2>4 DEF PlayerFields
<1>4. DOMAIN ps = 1 .. lobby
  BY <1>1
<1> HIDE DEF ps
<1>5. \A k \in 1 .. lobby : ~w.dirty => ~Burns(c, k)
  BY <1>1, <1>2
<1> HIDE DEF d
<1> QED
  BY <1>2, <1>3, <1>4, <1>5

\* What a tick makes of the world, as far as the client is told
LEMMA TickWorld ==
  ASSUME Good(world), lobby \in Nat, \A k \in 1 .. lobby : world.players[k].alive \in BOOLEAN,
         NEW drop, NEW moved, moved = apply_movement_and_pickups(world),
         NEW bombed, bombed = tick_bombs(moved, drop),
         NEW calm, calm = tick_explosions(bombed),
         NEW w, w = kill_players_in_explosions(calm)
  PROVE  /\ IsWorld(w) /\ DOMAIN w.players = 1 .. lobby /\ IsQueue(w.bombs)
         /\ \A k \in 1 .. lobby : /\ w.players[k].alive \in BOOLEAN
                                  /\ w.players[k].alive => world.players[k].alive
                                  /\ ~w.dirty => w.players[k].alive = world.players[k].alive
<1>1. HalfWay(moved) /\ SameLives(moved, world)
  BY MovementHalfWay
<1>2. Good(bombed) /\ bombed.players = moved.players
  BY <1>1, BombsGood
<1>3. Same(calm, bombed)
  BY <1>2, FiresSame DEF Good, Typed
<1>4. Good(calm)
  BY <1>2, <1>3, SameGood
<1>5. \A k \in 1 .. lobby : calm.players[k].alive = world.players[k].alive
  BY <1>1, <1>2, <1>3 DEF Same, SameLives
<1>6. IsWorld(calm) /\ IsTeam(calm.players) /\ IsQueue(calm.bombs)
  BY <1>4 DEF Good, Typed
<1>7. \A k \in 1 .. lobby : calm.players[k].alive \in BOOLEAN
  BY <1>5
<1>8. /\ IsWorld(w) /\ DOMAIN w.players = 1 .. lobby /\ w.bombs = calm.bombs
      /\ \A k \in 1 .. lobby : /\ w.players[k].alive \in BOOLEAN
                               /\ w.players[k].alive => calm.players[k].alive
                               /\ ~w.dirty => w.players[k].alive = calm.players[k].alive
  BY <1>6, <1>7, KillDirty
<1> QED
  BY <1>5, <1>6, <1>8

\* The packets of a tick bring the client from the world before to the world after
LEMMA TickPackets ==
  ASSUME AllSeen(mirror, chan, "match", stops), lobby \in Nat, Me <= lobby,
         DOMAIN prev \subseteq Grid(MapSize),
         Showing(Replay(mirror, chan), prev), Knowing(Replay(mirror, chan), world),
         NEW w, DOMAIN w.players = 1 .. lobby, IsQueue(w.bombs),
         \A k \in 1 .. lobby : /\ w.players[k].alive \in BOOLEAN
                               /\ w.players[k].alive => world.players[k].alive
                               /\ ~w.dirty => w.players[k].alive = world.players[k].alive,
         NEW c, c = chan \o diff_and_broadcast_map(w.map)
                      \o (IF w.dirty \/ w.bombs # <<>> THEN broadcast_state(w) ELSE <<>>)
                      \o (IF MatchOver(w) THEN <<GameOver(Winner(w))>> ELSE <<>>)
  PROVE  /\ AllSeen(mirror, c, IF MatchOver(w) THEN "over" ELSE "match", stops)
         /\ Showing(Replay(mirror, c), [t \in DOMAIN prev |-> w.map[t]])
         /\ Knowing(Replay(mirror, c), w) /\ Locating(Replay(mirror, c), w)
<1> DEFINE pv == [t \in DOMAIN prev |-> w.map[t]]
<1>1. PICK c1 : c1 = chan \o diff_and_broadcast_map(w.map)
  OBVIOUS
<1>2. PICK c2 : c2 = c1 \o (IF w.dirty \/ w.bombs # <<>> THEN broadcast_state(w) ELSE <<>>)
  OBVIOUS
<1>3. c = c2 \o (IF MatchOver(w) THEN <<GameOver(Winner(w))>> ELSE <<>>)
  BY <1>1, <1>2
<1>4. PICK m0, m1 : m0 = Replay(mirror, chan) /\ m1 = Replay(mirror, c1)
  OBVIOUS
<1>5. AllSeen(mirror, c1, "match", stops) /\ SameFate(m1, m0) /\ Showing(m1, pv)
  BY <1>1, <1>4, SendTiles
<1> HIDE DEF pv
<1>6. IsList(c1) /\ SeenOK(m1, "match", stops)
  BY <1>4, <1>5, LastSeen
<1>7. Knowing(m1, world)
  BY <1>4, <1>5 DEF Knowing, SameFate
<1>8. /\ AllSeen(mirror, c2, "match", stops) /\ Showing(Replay(mirror, c2), pv)
      /\ Knowing(Replay(mirror, c2), w) /\ Locating(Replay(mirror, c2), w)
  <2>1. CASE ~(w.dirty \/ w.bombs # <<>>)
    <3>1. c2 = c1
      BY <1>2, <1>6, <2>1, ConcatNone
    <3>2. Knowing(m1, w) /\ Locating(m1, w)
      BY <1>7, <2>1 DEF Knowing, Locating
    <3> QED
      BY <1>4, <1>5, <3>1, <3>2
  <2>2. CASE w.dirty \/ w.bombs # <<>>
    <3>1. PICK p : broadcast_state(w) = <<p>>
      BY DEF broadcast_state
    <3>2. c2 = Sent(c1, p)
      BY <1>2, <1>6, <2>2, <3>1, ConcatOne DEF Sent
    <3>3. PICK v : v = Apply(m1, p)
      OBVIOUS
    <3>4. Me \in 1 .. lobby
      BY Bounds
    <3>5. Me <= StateMaxPlayers /\ w.players[Me].alive => Slot(m1.alive, Me)
      BY <1>7, <3>4 DEF Knowing
    <3>6. Me > StateMaxPlayers => Slot(m1.alive, Me)
      BY <1>7 DEF Knowing
    <3>7. \A k \in 1 .. lobby : w.players[k].alive \in BOOLEAN
      OBVIOUS
    <3>8. /\ SeenOK(v, "match", stops) /\ Knowing(v, w) /\ Locating(v, w)
          /\ v.has_map = m1.has_map /\ v.map = m1.map
      BY <1>6, <3>1, <3>3, <3>5, <3>6, <3>7, StateView
    <3>9. AllSeen(mirror, c2, "match", stops) /\ Replay(mirror, c2) = v
      BY <1>4, <1>5, <3>2, <3>3, <3>8, SendOne
    <3> QED
      BY <1>5, <3>8, <3>9 DEF Showing
  <2> QED
    BY <2>1, <2>2
<1>9. PICK m2 : m2 = Replay(mirror, c2)
  OBVIOUS
<1>10. IsList(c2) /\ SeenOK(m2, "match", stops)
  BY <1>8, <1>9, LastSeen
<1>11. CASE ~MatchOver(w)
  <2>1. c = c2
    BY <1>3, <1>10, <1>11, ConcatNone
  <2> QED
    BY <1>8, <1>11, <2>1 DEF pv
<1>12. CASE MatchOver(w)
  <2>1. PICK p : p = GameOver(Winner(w))
    OBVIOUS
  <2>2. c = Sent(c2, p)
    BY <1>3, <1>10, <1>12, <2>1, ConcatOne DEF Sent
  <2>3. PICK v : v = Apply(m2, p)
    OBVIOUS
  <2>4. \A k \in 1 .. lobby : w.players[k].alive \in BOOLEAN
    OBVIOUS
  <2>5. /\ Winner(w) = Me => Slot(m2.alive, Me)
        /\ lobby <= StateMaxPlayers =>
             LET alive == {j \in 1 .. lobby : Slot(m2.alive, j)}
             IN  IF Winner(w) = 0 THEN alive = {} ELSE alive = {Winner(w)}
    BY <1>8, <1>9, <1>12, <2>4, WinnerKnown
  <2>6. /\ SeenOK(v, "over", stops)
        /\ v.has_map = m2.has_map /\ v.map = m2.map /\ v.alive = m2.alive /\ v.bombs = m2.bombs
    BY <1>10, <2>1, <2>3, <2>5, OverView
  <2>7. AllSeen(mirror, c2, "over", stops)
    BY <1>8 DEF AllSeen, SeenOK
  <2>8. AllSeen(mirror, c, "over", stops) /\ Replay(mirror, c) = v
    BY ONLY <1>9, <2>2, <2>3, <2>6, <2>7, SendOne
  <2>9. Showing(v, pv) /\ Knowing(v, w) /\ Locating(v, w)
    BY <1>8, <1>9, <2>6 DEF Showing, Knowing, Locating
  <2> QED
    BY <1>12, <2>8, <2>9 DEF pv
<1> QED
  BY <1>11, <1>12

\* MirrorInv speaks of the number of players, which a match does not change
LEMMA MirrorNext ==
  ASSUME BudgetInv', lobby' = lobby, stage' \in {"match", "over"},
         Me > lobby => mirror' = NoMirror /\ chan' = <<>>,
         AllSeen(mirror', chan', stage', stops'),
         \A k \in 1 .. lobby : world'.players[k].alive \in BOOLEAN,
         DOMAIN prev' \subseteq Grid(MapSize),
         drained' = 0 => \A t \in DOMAIN prev' : prev'[t] = world'.map[t],
         Me <= lobby => /\ Showing(Replay(mirror', chan'), prev')
                        /\ Knowing(Replay(mirror', chan'), world')
                        /\ drained' = 0 => Locating(Replay(mirror', chan'), world')
  PROVE  MirrorInv'
<1>2. AllSeen(mirror, chan, stage, stops)'
  BY DEF AllSeen, SeenOK, Outcome
<1>3. MapSize' = MapSize
  BY DEF MapSize
<1>4. Me <= lobby => /\ Showing(Replay(mirror, chan), prev)'
                     /\ Knowing(Replay(mirror, chan), world)'
                     /\ drained' = 0 => Locating(Replay(mirror, chan), world)'
  BY <1>3 DEF Showing, Knowing, Locating
<1> QED
  BY <1>2, <1>3, <1>4 DEF MirrorInv

LEMMA StartMirror ==
  ASSUME MirrorInv, StartMatch
  PROVE  MirrorInv'
<1>1. /\ BudgetInv /\ lobby \in Nat /\ lobby' = lobby /\ stage' = "match" /\ mirror = NoMirror
      /\ mirror' = mirror /\ stops' = stops
  BY DEF MirrorInv, BudgetInv, StartMatch
<1>2. BudgetInv'
  BY <1>1, StepGood DEF Next
<1>3. PICK map \in map_generate(lobby) : world' = init_session(map)
  BY DEF StartMatch
<1>4. DOMAIN map = Grid(MapSize)
  BY DEF map_generate, MapSize
<1>5. /\ DOMAIN world'.map = Grid(MapSize) /\ world'.bombs = <<>>
      /\ \A k \in 1 .. lobby : world'.players[k].alive = TRUE
  BY <1>3, <1>4 DEF init_session, NewPlayer
<1>6. PICK pv : /\ pv = [t \in {u \in DOMAIN world'.map : InPacket(u)} |-> world'.map[t]]
                /\ prev' = pv
  BY DEF StartMatch
<1>7. DOMAIN pv \subseteq Grid(MapSize) /\ \A t \in DOMAIN pv : pv[t] = world'.map[t]
  BY <1>5, <1>6
<1>8. IsList(<<>>) /\ Len(<<>>) = 0
  BY DEF IsList
<1>9. SeenOK(NoMirror, "match", stops)
  BY <1>1 DEF SeenOK, NoMirror, IsMirror, MirrorFields, Slot
<1>10. AllSeen(NoMirror, <<>>, "match", stops) /\ Replay(NoMirror, <<>>) = NoMirror
  BY <1>8, <1>9, ViewsEmpty DEF AllSeen
<1>11. CASE Me > lobby
  <2>2. ~(Me <= lobby)
    BY <1>1, <1>11, Bounds
  <2>1. chan' = <<>>
    BY <2>2 DEF StartMatch
  <2> QED
    BY <1>1, <1>2, <1>5, <1>6, <1>7, <1>10, <2>1, <2>2, MirrorNext
<1>12. CASE Me <= lobby
  <2>1. PICK p, q : p = Roster /\ q = MapInit(world'.map) /\ chan' = <<p, q>>
    BY <1>12 DEF StartMatch
  <2>2. PICK c : c = Sent(<<>>, p)
    OBVIOUS
  <2>3. chan' = Sent(c, q)
    BY <2>1, <2>2 DEF Sent
  <2>4. PICK v1 : v1 = Apply(NoMirror, p)
    OBVIOUS
  <2>5. IsMirror(v1) /\ SameFate(v1, NoMirror)
    BY <1>9, <2>1, <2>4, RosterView DEF SeenOK
  <2>6. SeenOK(v1, "match", stops)
    BY <1>9, <2>5, FateSeen
  <2>7. AllSeen(NoMirror, c, "match", stops) /\ Replay(NoMirror, c) = v1
    BY ONLY <1>10, <2>2, <2>4, <2>6, SendOne
  <2>8. PICK v2 : v2 = Apply(v1, q)
    OBVIOUS
  <2>9. IsMirror(v2) /\ SameFate(v2, v1) /\ Showing(v2, pv)
    BY <1>5, <1>6, <2>1, <2>5, <2>8, MapInitView
  <2>10. SeenOK(v2, "match", stops)
    BY <2>6, <2>9, FateSeen
  <2>11. AllSeen(NoMirror, chan', "match", stops) /\ Replay(NoMirror, chan') = v2
    BY <2>3, <2>7, <2>8, <2>10, SendOne
  <2>12. \A k : Slot(v2.alive, k) = TRUE
    <3>1. \A k : Slot(NoMirror.alive, k) = TRUE
      BY DEF NoMirror, Slot
    <3> QED
      BY <2>5, <2>9, <3>1 DEF SameFate
  <2>13. Knowing(v2, world') /\ Locating(v2, world')
    BY <1>5, <2>12 DEF Knowing, Locating
  <2>14. ~(Me > lobby)
    BY <1>1, <1>12, Bounds
  <2> QED
    BY <1>1, <1>2, <1>5, <1>6, <1>7, <2>9, <2>11, <2>13, <2>14, MirrorNext
<1> QED
  BY <1>1, <1>11, <1>12, Bounds

LEMMA TickMirror ==
  ASSUME MirrorInv, Tick
  PROVE  MirrorInv'
<1>1. /\ BudgetInv /\ Good(world) /\ lobby \in Nat /\ lobby' = lobby /\ stage = "match"
      /\ mirror' = mirror /\ stops' = stops /\ drained' = 0
      /\ stage' \in {"match", "over"}
  BY DEF MirrorInv, BudgetInv, Tick
<1>2. BudgetInv'
  BY <1>1, StepGood DEF Next
<1>3. /\ \A k \in 1 .. lobby : world.players[k].alive \in BOOLEAN
      /\ DOMAIN prev \subseteq Grid(MapSize)
      /\ AllSeen(mirror, chan, "match", stops)
  BY <1>1 DEF MirrorInv
<1>4. PICK drop, moved, bombed, calm, w :
        /\ moved = apply_movement_and_pickups(world) /\ bombed = tick_bombs(moved, drop)
        /\ calm = tick_explosions(bombed) /\ w = kill_players_in_explosions(calm)
        /\ world' = [w EXCEPT !.dirty = FALSE]
        /\ prev' = [t \in DOMAIN prev |-> w.map[t]]
        /\ chan' = IF Me > lobby THEN chan
                   ELSE chan \o diff_and_broadcast_map(w.map)
                        \o (IF w.dirty \/ w.bombs # <<>> THEN broadcast_state(w) ELSE <<>>)
                        \o (IF MatchOver(w) THEN <<GameOver(Winner(w))>> ELSE <<>>)
        /\ stage' = IF MatchOver(w) THEN "over" ELSE "match"
  BY <1>1 DEF Tick
<1>5. /\ IsWorld(w) /\ DOMAIN w.players = 1 .. lobby /\ IsQueue(w.bombs)
      /\ \A k \in 1 .. lobby : /\ w.players[k].alive \in BOOLEAN
                               /\ w.players[k].alive => world.players[k].alive
                               /\ ~w.dirty => w.players[k].alive = world.players[k].alive
  BY <1>1, <1>3, <1>4, TickWorld
<1>6. world'.players = w.players /\ world'.map = w.map /\ world'.bombs = w.bombs
  BY <1>4, <1>5 DEF IsWorld, WorldFields
<1>7. /\ DOMAIN prev' \subseteq Grid(MapSize)
      /\ \A t \in DOMAIN prev' : prev'[t] = world'.map[t]
      /\ \A k \in 1 .. lobby : world'.players[k].alive \in BOOLEAN
  BY <1>3, <1>4, <1>5, <1>6
<1>8. CASE Me > lobby
  <2>1. chan' = <<>> /\ chan = <<>> /\ mirror = NoMirror
    BY <1>4, <1>8 DEF MirrorInv
  <2>2. AllSeen(mirror', chan', stage', stops')
    BY <1>1, <1>3, <2>1 DEF AllSeen, SeenOK
  <2>3. ~(Me <= lobby)
    BY <1>1, <1>8, Bounds
  <2> QED
    BY <1>1, <1>2, <1>7, <2>1, <2>2, <2>3, MirrorNext
<1>9. CASE Me <= lobby
  <2>1. ~(Me > lobby)
    BY <1>1, <1>9, Bounds
  <2>2. Showing(Replay(mirror, chan), prev) /\ Knowing(Replay(mirror, chan), world)
    BY <1>1, <1>9 DEF MirrorInv
  <2>3. PICK c : /\ c = chan \o diff_and_broadcast_map(w.map)
                          \o (IF w.dirty \/ w.bombs # <<>> THEN broadcast_state(w) ELSE <<>>)
                          \o (IF MatchOver(w) THEN <<GameOver(Winner(w))>> ELSE <<>>)
                 /\ chan' = c
    BY <1>4, <2>1
  <2>4. /\ AllSeen(mirror, c, IF MatchOver(w) THEN "over" ELSE "match", stops)
        /\ Showing(Replay(mirror, c), [t \in DOMAIN prev |-> w.map[t]])
        /\ Knowing(Replay(mirror, c), w) /\ Locating(Replay(mirror, c), w)
    BY <1>1, <1>3, <1>5, <1>9, <2>2, <2>3, TickPackets
  <2>5. /\ AllSeen(mirror', chan', stage', stops') /\ Showing(Replay(mirror', chan'), prev')
        /\ Knowing(Replay(mirror', chan'), world') /\ Locating(Replay(mirror', chan'), world')
    BY <1>1, <1>4, <1>6, <2>3, <2>4 DEF Knowing, Locating
  <2> QED
    BY <1>1, <1>2, <1>7, <2>1, <2>5, MirrorNext
<1> QED
  BY <1>1, <1>8, <1>9, Bounds

\* Messages of the players change neither lives nor what was broadcast
LEMMA DrainMirror ==
  ASSUME MirrorInv, BudgetInv', stage = "match", stage' = "match", lobby' = lobby, prev' = prev,
         drained' = drained + 1, drained \in Nat, chan' = chan, mirror' = mirror, stops' = stops,
         \A k \in 1 .. lobby : world'.players[k].alive = world.players[k].alive
  PROVE  MirrorInv'
<1>1. drained' # 0
  OBVIOUS
<1>2. /\ \A k \in 1 .. lobby : world'.players[k].alive \in BOOLEAN
      /\ DOMAIN prev' \subseteq Grid(MapSize)
      /\ AllSeen(mirror', chan', stage', stops')
      /\ Me > lobby => mirror' = NoMirror /\ chan' = <<>>
      /\ Me <= lobby => Showing(Replay(mirror', chan'), prev')
  BY DEF MirrorInv
<1>3. Me <= lobby => Knowing(Replay(mirror', chan'), world')
  BY DEF MirrorInv, Knowing
<1> QED
  BY <1>1, <1>2, <1>3, MirrorNext

LEMMA StopMirror ==
  ASSUME MirrorInv, Stop, stops \in Nat
  PROVE  MirrorInv'
<1>1. /\ BudgetInv /\ lobby \in Nat /\ lobby' = lobby /\ stage = "match" /\ stage' = "over"
      /\ mirror' = mirror /\ world' = world /\ prev' = prev /\ drained' = drained
      /\ stops' = stops + 1
  BY DEF MirrorInv, BudgetInv, Stop
<1>2. BudgetInv'
  BY <1>1, StepGood DEF Next
<1>3. AllSeen(mirror, chan, "match", stops)
  BY <1>1 DEF MirrorInv
<1>4. stops' # 0
  BY <1>1
<1>5. AllSeen(mirror, chan, "over", stops')
  BY <1>3, <1>4 DEF AllSeen, SeenOK
<1>6. CASE Me > lobby
  <2>1. chan' = chan /\ chan = <<>> /\ mirror = NoMirror
    BY <1>6 DEF Stop, MirrorInv
  <2>2. ~(Me <= lobby)
    BY <1>1, <1>6, Bounds
  <2> QED
    BY <1>1, <1>2, <1>5, <2>1, <2>2, MirrorNext DEF MirrorInv
<1>7. CASE Me <= lobby
  <2>1. ~(Me > lobby)
    BY <1>1, <1>7, Bounds
  <2>2. PICK p : p = GameOver(0) /\ chan' = Sent(chan, p)
    BY <2>1 DEF Stop, Sent
  <2>3. PICK m, v : m = Replay(mirror, chan) /\ v = Apply(m, p)
    OBVIOUS
  <2>4. SeenOK(m, "match", stops)
    BY <1>3, <2>3, LastSeen
  <2>5. /\ SeenOK(v, "over", stops')
        /\ v.has_map = m.has_map /\ v.map = m.map /\ v.alive = m.alive /\ v.bombs = m.bombs
    <3>1. PICK n : n = stops'
      OBVIOUS
    <3>2. n # 0 /\ 0 # Me
      BY <1>4, <3>1, Bounds
    <3> QED
      BY <2>2, <2>3, <2>4, <3>1, <3>2, OverView
  <2>6. AllSeen(mirror, chan', "over", stops') /\ Replay(mirror, chan') = v
    BY <1>5, <2>2, <2>3, <2>5, SendOne
  <2>7. /\ Showing(m, prev) /\ Knowing(m, world) /\ (drained = 0 => Locating(m, world))
    BY <1>1, <1>7, <2>3 DEF MirrorInv
  <2>8. /\ Showing(v, prev) /\ Knowing(v, world) /\ (drained = 0 => Locating(v, world))
    BY <2>5, <2>7 DEF Showing, Knowing, Locating
  <2>9. /\ \A k \in 1 .. lobby : world.players[k].alive \in BOOLEAN
        /\ DOMAIN prev \subseteq Grid(MapSize)
        /\ drained = 0 => \A t \in DOMAIN prev : prev[t] = world.map[t]
    BY <1>1 DEF MirrorInv
  <2> QED
    BY <1>1, <1>2, <2>1, <2>6, <2>8, <2>9, MirrorNext
<1> QED
  BY <1>1, <1>6, <1>7, Bounds

LEMMA PollMirror ==
  ASSUME MirrorInv, Poll
  PROVE  MirrorInv'
<1>1. /\ BudgetInv /\ lobby' = lobby /\ stage' = stage /\ world' = world /\ prev' = prev
      /\ drained' = drained /\ stops' = stops /\ AllSeen(mirror, chan, stage, stops)
  BY DEF MirrorInv, Poll
<1>2. BudgetInv'
  BY <1>1, StepGood DEF Next
<1>3. IsList(chan) /\ Len(chan) \in Nat
  BY <1>1, ListLen DEF AllSeen
<1>4. PICK n \in 1 .. Len(chan) : /\ mirror' = Replay(mirror, SubSeq(chan, 1, n))
                                  /\ chan' = SubSeq(chan, n + 1, Len(chan))
  BY DEF Poll
<1>5. n \in 0 .. Len(chan) /\ Len(chan) # 0
  BY <1>3
<1>6. /\ IsList(chan') /\ Replay(mirror', chan') = Replay(mirror, chan)
      /\ Views(mirror', chan') \subseteq Views(mirror, chan)
  <2>1. PICK v, t : /\ v = Replay(mirror, SubSeq(chan, 1, n)) /\ t = SubSeq(chan, n + 1, Len(chan))
                    /\ v = mirror' /\ t = chan'
    BY <1>4
  <2>2. IsList(chan) /\ n \in 0 .. Len(chan)
    BY <1>3, <1>5
  <2>3. IsList(t) /\ Replay(v, t) = Replay(mirror, chan) /\ Views(v, t) \subseteq Views(mirror, chan)
    BY ONLY <2>1, <2>2, ViewsDrop
  <2> QED
    BY <2>1, <2>3
<1>7. AllSeen(mirror', chan', stage', stops')
  BY <1>1, <1>6 DEF AllSeen
<1>8. stage \notin {"lobby", "closed"} /\ ~(Me > lobby)
  BY <1>5 DEF MirrorInv
<1>9. stage' \in {"match", "over"}
  BY <1>1, <1>8 DEF BudgetInv
<1>10. /\ \A k \in 1 .. lobby : world.players[k].alive \in BOOLEAN
       /\ DOMAIN prev \subseteq Grid(MapSize)
       /\ drained = 0 => \A t \in DOMAIN prev : prev[t] = world.map[t]
       /\ Me <= lobby => /\ Showing(Replay(mirror, chan), prev)
                         /\ Knowing(Replay(mirror, chan), world)
                         /\ drained = 0 => Locating(Replay(mirror, chan), world)
  BY <1>1, <1>9 DEF MirrorInv
<1> QED
  BY <1>1, <1>2, <1>6, <1>7, <1>8, <1>9, <1>10, MirrorNext

\* Before the match, and for a client that did not join
LEMMA IdleMirror ==
  ASSUME BudgetInv', stage' \in {"lobby", "closed"}, mirror' = NoMirror, chan' = <<>>
  PROVE  MirrorInv'
<1>1. IsList(<<>>) /\ Len(<<>>) = 0
  BY DEF IsList
<1>2. \A st, n : SeenOK(NoMirror, st, n)'
  BY DEF SeenOK, NoMirror, IsMirror, MirrorFields, Slot
<1>3. Views(NoMirror, <<>>) = {NoMirror}
  BY <1>1, ViewsEmpty
<1>4. AllSeen(mirror, chan, stage, stops)'
  BY <1>1, <1>2, <1>3 DEF AllSeen
<1>5. ~(stage' \in {"match", "over"})
  OBVIOUS
<1> QED
  BY <1>4, <1>5 DEF MirrorInv

\* apply_move and apply_bomb_place leave everybody's life alone
LEMMA DrainLives ==
  ASSUME NEW w, Good(w), NEW k \in 1 .. lobby, NEW d,
         NEW v, v = apply_move(w, k, d) \/ v = apply_bomb_place(w, k)
  PROVE  SameLives(v, w)
<1>1. IsWorld(w) /\ IsTeam(w.players)
  BY DEF Good, Typed
<1>2. PICK p : p = w.players[k] /\ IsPlayer(p)
  BY <1>1 DEF IsTeam
<1>3. ASSUME NEW r, r.alive = p.alive, v.players = [w.players EXCEPT ![k] = r]
      PROVE  SameLives(v, w)
  BY <1>1, <1>2, <1>3 DEF SameLives, IsTeam
<1>4. CASE v = w
  BY <1>4 DEF SameLives
<1>5. CASE v = apply_move(w, k, d) /\ v # w
  <2>1. PICK r : r = [p EXCEPT !.dx = d[1], !.dy = d[2]]
    OBVIOUS
  <2>2. r.alive = p.alive
    BY <1>2, <2>1 DEF IsPlayer, PlayerFields
  <2>3. v.players = [w.players EXCEPT ![k] = r]
    BY <1>1, <1>2, <1>5, <2>1 DEF apply_move, IsWorld, WorldFields, IsTeam, IsPlayer, PlayerFields
  <2> QED
    BY <1>3, <2>2, <2>3
<1>6. CASE v = apply_bomb_place(w, k) /\ v # w
  <2>1. PICK r : r = consume_bomb(p)
    OBVIOUS
  <2>2. r.alive = p.alive
    BY <1>2, <2>1 DEF consume_bomb, IsPlayer, PlayerFields
  <2>3. v.players = [w.players EXCEPT ![k] = r]
    BY <1>1, <1>2, <1>6, <2>1 DEF apply_bomb_place, place_bomb, IsWorld, WorldFields
  <2> QED
    BY <1>3, <2>2, <2>3
<1> QED
  BY <1>4, <1>5, <1>6

\* The counters
Counted == drained \in Nat /\ stops \in Nat

LEMMA StepMirror ==
  ASSUME MirrorInv, Counted, [Next]_vars
  PROVE  MirrorInv' /\ Counted'
<1>1. Counted'
  <2>1. /\ drained' = drained \/ drained' = drained + 1 \/ drained' = 0
        /\ stops' = stops \/ stops' = stops + 1
    BY DEF Next, vars, Join, StartMatch, Leave, Tick, Stop, Poll, DrainMove,
           DrainBombPlace, Disconnect
  <2> QED
    BY <2>1 DEF Counted
<1>2. BudgetInv /\ BudgetInv'
  BY StepGood DEF MirrorInv
<1>3. CASE Join \/ Leave
  <2>1. stage' \in {"lobby", "closed"} /\ mirror' = NoMirror /\ chan' = <<>>
    BY <1>3 DEF Join, Leave, MirrorInv
  <2> QED
    BY <1>1, <1>2, <2>1, IdleMirror
<1>4. CASE StartMatch
  BY <1>1, <1>4, StartMirror
<1>5. CASE Tick
  BY <1>1, <1>5, TickMirror
<1>6. CASE Stop
  BY <1>1, <1>6, StopMirror DEF Counted
<1>7. CASE Poll
  BY <1>1, <1>7, PollMirror
<1>8. ASSUME UNCHANGED <<stage, lobby, world, prev, drained, chan, mirror, stops>>
      PROVE  MirrorInv'
  <2>1. CASE stage \in {"lobby", "closed"}
    <3>1. stage' \in {"lobby", "closed"} /\ mirror' = NoMirror /\ chan' = <<>>
      BY <1>8, <2>1 DEF MirrorInv
    <3> QED
      BY <1>2, <3>1, IdleMirror
  <2>2. CASE stage \in {"match", "over"}
    BY <1>2, <1>8, <2>2, MirrorNext DEF MirrorInv
  <2> QED
    BY <1>2, <2>1, <2>2 DEF BudgetInv
<1>9. CASE UNCHANGED vars
  BY <1>1, <1>8, <1>9 DEF vars
<1>10. ASSUME NEW k \in 1 .. lobby, Disconnect(k) PROVE MirrorInv'
  BY <1>8, <1>10 DEF Disconnect
<1>11. ASSUME NEW k \in 1 .. lobby, NEW d, NEW w, w = world',
              world' = apply_move(world, k, d) \/ world' = apply_bomb_place(world, k),
              Draining, drained' = drained + 1,
              UNCHANGED <<stage, lobby, prev, chan, mirror, stops>>
       PROVE  MirrorInv'
  <2>1. stage = "match" /\ Good(world)
    BY <1>2, <1>11 DEF Draining, BudgetInv
  <2>2. SameLives(w, world)
    BY <1>11, <2>1, DrainLives
  <2>3. \A j \in 1 .. lobby : world'.players[j].alive = world.players[j].alive
    BY <1>11, <2>2 DEF SameLives
  <2>4. drained \in Nat
    BY DEF Counted
  <2> QED
    BY <1>2, <1>11, <2>1, <2>3, <2>4, DrainMirror
<1>12. ASSUME NEW k \in 1 .. lobby, NEW d \in Directions, DrainMove(k, d) PROVE MirrorInv'
  BY <1>11, <1>12 DEF DrainMove
<1>13. ASSUME NEW k \in 1 .. lobby, DrainBombPlace(k) PROVE MirrorInv'
  BY <1>11, <1>13 DEF DrainBombPlace
<1> QED
  BY <1>1, <1>3, <1>4, <1>5, <1>6, <1>7, <1>9, <1>10, <1>12, <1>13 DEF Next

LEMMA MirrorHolds == Spec => [](MirrorInv /\ Counted)
<1>1. Init => MirrorInv /\ Counted
  <2> SUFFICES ASSUME Init PROVE MirrorInv /\ Counted
    OBVIOUS
  <2>1. BudgetInv /\ Counted /\ stage = "lobby" /\ mirror = NoMirror /\ chan = <<>>
    BY DEF Init, BudgetInv, Counted
  <2>2. IsList(<<>>) /\ Len(<<>>) = 0
    BY DEF IsList
  <2>3. SeenOK(NoMirror, stage, stops)
    BY DEF SeenOK, NoMirror, IsMirror, MirrorFields, Slot
  <2>4. AllSeen(mirror, chan, stage, stops)
    BY <2>1, <2>2, <2>3, ViewsEmpty DEF AllSeen
  <2> QED
    BY <2>1, <2>4 DEF MirrorInv
<1>2. MirrorInv /\ Counted /\ [Next]_vars => (MirrorInv /\ Counted)'
  BY StepMirror
<1> QED
  BY <1>1, <1>2, PTL DEF Spec

(* Between two ticks, a client that has applied everything sent to it shows *)
(* the server's tiles, knows who lives and shows every bomb that still      *)
(* ticks, for any number of players, any map and however packets are        *)
(* delayed: no tile change falls between two diffs against prev_map, and no *)
(* death and no bomb between two states (bombd/main.c:352-358).  That it    *)
(* shows no other bomb is not so (BombsShown).                              *)
THEOREM MirrorIsCurrent == Spec => []MirrorCurrent
<1>1. MirrorInv => MirrorCurrent
  <2> SUFFICES ASSUME MirrorInv, stage \in {"match", "over"}, drained = 0, chan = <<>>, Me <= lobby
               PROVE  /\ \A t \in DOMAIN prev : mirror.map[t] = world.map[t]
                      /\ lobby <= StateMaxPlayers =>
                            \A k \in 1 .. lobby : Slot(mirror.alive, k) = world.players[k].alive
                      /\ Len(world.bombs) <= StateMaxBombs =>
                            {b.pos : b \in Range(world.bombs)} \subseteq mirror.bombs
    BY DEF MirrorCurrent
  <2>1. IsList(<<>>) /\ Len(<<>>) = 0
    BY DEF IsList
  <2>2. Replay(mirror, chan) = mirror
    BY <2>1, ViewsEmpty
  <2>3. /\ Showing(mirror, prev) /\ Knowing(mirror, world) /\ Locating(mirror, world)
        /\ \A t \in DOMAIN prev : prev[t] = world.map[t]
    BY <2>2 DEF MirrorInv
  <2>4. lobby \in Nat
    BY DEF MirrorInv, BudgetInv
  <2>5. ASSUME lobby <= StateMaxPlayers, NEW k \in 1 .. lobby PROVE k <= StateMaxPlayers
    BY <2>4, <2>5, Bounds
  <2>6. ASSUME Len(world.bombs) <= StateMaxBombs
        PROVE  {b.pos : b \in Range(world.bombs)} \subseteq mirror.bombs
    <3>1. CASE world.bombs = <<>>
      BY <3>1 DEF Range
    <3>2. CASE world.bombs # <<>>
      BY <2>3, <2>6, <3>2 DEF Locating
    <3> QED
      BY <3>1, <3>2
  <2> QED
    BY <2>3, <2>5, <2>6 DEF Showing, Knowing
<1> QED
  BY <1>1, MirrorHolds, PTL

(* When GAME_OVER reaches a client, it has already seen everybody but the   *)
(* winner die; its own death is announced to the player exactly once, when  *)
(* it is first seen, and never to the winner, whatever part of the stream   *)
(* has been applied (apply_state and apply_game_over of network.c).         *)
THEOREM OutcomeIsAgreed == Spec => []OutcomeAgrees
<1>1. MirrorInv => OutcomeAgrees
  <2> SUFFICES ASSUME MirrorInv PROVE OutcomeAgrees
    OBVIOUS
  <2>1. SeenOK(mirror, stage, stops)
    BY LastSeen DEF MirrorInv
  <2>2. mirror.over /\ lobby <= StateMaxPlayers /\ stops = 0 => Outcome(mirror)
    BY <2>1 DEF SeenOK
  <2>3. mirror.died = IF Slot(mirror.alive, Me) THEN 0 ELSE 1
    BY <2>1 DEF SeenOK
  <2>4. mirror.won = 0 \/ (mirror.won = 1 /\ Slot(mirror.alive, Me))
    BY <2>1 DEF SeenOK
  <2>5. mirror.won + mirror.died <= 1
    BY <2>3, <2>4
  <2> QED
    BY <2>2, <2>3, <2>5 DEF OutcomeAgrees, Outcome
<1> QED
  BY <1>1, MirrorHolds, PTL

-----------------------------------------------------------------------------
(***************************************************************************)
(* No fire and no bomb is left behind on the map.  The tiles are followed  *)
(* through the loops of the tick; the queues give up an entry by moving    *)
(* the last one into its place, which must not lose one that still counts. *)
(***************************************************************************)

FireFields == {"center", "spread", "timer"}
IsFire(e) == e = [f \in FireFields |-> e[f]]
IsFires(q) == IsList(q) /\ \A i \in 1 .. Len(q) : IsFire(q[i])

\* What randomise_powerup may leave
Drops == {"EMPTY", "POWERUP_FIRE", "POWERUP_BOMB"}

\* Some fire will put tile t out; some bomb on tile t will go off
Lit(q, t) == \E i \in 1 .. Len(q) : t \in q[i].spread
Laid(q, t) == \E i \in 1 .. Len(q) : q[i].pos = t

Charted(w) == DOMAIN w.pending = DOMAIN w.map /\ \A t \in DOMAIN w.map : w.pending[t] \in Drops

Accounted(w) ==
    \A t \in DOMAIN w.map :
        /\ w.map[t] = "EXPLOSION" \/ w.pending[t] # "EMPTY" => Lit(w.explodes, t)
        /\ w.map[t] = "BOMB" => Laid(w.bombs, t)

Sound(w) ==
    IsWorld(w) /\ IsQueue(w.bombs) /\ IsFires(w.explodes) /\ Charted(w) /\ Accounted(w)

LEMMA FiresLen ==
  ASSUME NEW q, IsFires(q)
  PROVE  /\ IsList(q) /\ Len(q) \in Nat /\ q = [i \in 1 .. Len(q) |-> q[i]]
         /\ \A i \in 1 .. Len(q) : IsFire(q[i])
  BY ListLen DEF IsFires

LEMMA FiresOf ==
  ASSUME NEW n \in Nat, NEW q, q = [i \in 1 .. n |-> q[i]], \A i \in 1 .. n : IsFire(q[i])
  PROVE  IsFires(q) /\ Len(q) = n
  BY ListOf DEF IsFires

LEMMA FiresAppend ==
  ASSUME NEW q, IsFires(q), NEW e, IsFire(e)
  PROVE  LET r == Append(q, e)
         IN  /\ IsFires(r) /\ Len(r) = Len(q) + 1 /\ r[Len(q) + 1] = e
             /\ \A i \in 1 .. Len(q) : r[i] = q[i]
<1>1. IsList(q) /\ Len(q) \in Nat /\ \A i \in 1 .. Len(q) : IsFire(q[i])
  BY FiresLen
<1>2. PICK r : r = Append(q, e)
  OBVIOUS
<1>3. IsList(r)
  BY <1>1, <1>2, ListAppend
<1>4. Len(r) = Len(q) + 1 /\ r[Len(q) + 1] = e /\ \A i \in 1 .. Len(q) : r[i] = q[i]
  BY <1>1, <1>2
<1>5. \A i \in 1 .. (Len(q) + 1) : IsFire(r[i])
  BY <1>1, <1>4
<1> QED
  BY <1>2, <1>3, <1>4, <1>5 DEF IsFires

\* The last fire of the queue takes the place of the expired one
Cut(q, i) == SubSeq([q EXCEPT ![i] = q[Len(q)]], 1, Len(q) - 1)
Swapped(q, i, r) ==
    /\ IsFires(r) /\ Len(r) = Len(q) - 1
    /\ \A j \in 1 .. (Len(q) - 1) : r[j] = IF j = i THEN q[Len(q)] ELSE q[j]

LEMMA FiresSwap ==
  ASSUME NEW q, IsFires(q), NEW i \in 1 .. Len(q),
         NEW r, r = Cut(q, i)
  PROVE  Swapped(q, i, r)
<1> DEFINE L == Len(q)
           x == [q EXCEPT ![i] = q[L]]
<1>1. L \in Nat /\ L >= 1 /\ DOMAIN q = 1 .. L /\ \A j \in 1 .. L : IsFire(q[j])
  BY FiresLen
<1>2. \A j \in 1 .. L : x[j] = IF j = i THEN q[L] ELSE q[j]
  BY <1>1
<1>3. r = SubSeq(x, 1, L - 1)
  BY DEF Cut
<1> HIDE DEF x, L
<1>4. PICK X : r \in Seq(X) /\ Len(r) = L - 1 /\ \A j \in 1 .. (L - 1) : r[j] = x[j]
  <2>1. PICK X : X = {x[j] : j \in 1 .. L}
    OBVIOUS
  <2>2. (\A j \in 1 .. (L - 1) : x[j] \in X) /\ 1 \in Int /\ L - 1 \in Int
    BY <1>1, <2>1
  <2>3. /\ r \in Seq(X) /\ Len(r) = IF 1 <= L - 1 THEN (L - 1) - 1 + 1 ELSE 0
        /\ \A j \in 1 .. ((L - 1) - 1 + 1) : r[j] = x[1 + j - 1]
    BY ONLY <1>3, <2>2, SubSeqProperties
  <2>4. Len(r) = L - 1 /\ \A j \in 1 .. (L - 1) : r[j] = x[j]
    BY <1>1, <2>3
  <2> QED
    BY <2>3, <2>4
<1>5. r = [j \in 1 .. (L - 1) |-> r[j]]
  <2>1. r \in Seq(X) /\ Len(r) = L - 1
    BY <1>4
  <2> QED
    BY ONLY <2>1
<1>6. \A j \in 1 .. (L - 1) : j \in 1 .. L /\ L \in 1 .. L
  BY <1>1
<1>7. \A j \in 1 .. (L - 1) : r[j] = IF j = i THEN q[L] ELSE q[j]
  BY <1>2, <1>4, <1>6
<1>8. \A j \in 1 .. (L - 1) : IsFire(r[j])
  BY <1>1, <1>6, <1>7
<1>9. L - 1 \in Nat
  BY <1>1
<1>10. IsFires(r) /\ Len(r) = L - 1
  BY <1>5, <1>8, <1>9, FiresOf
<1> QED
  BY <1>7, <1>10 DEF L, Swapped

\* The timer of one fire runs down
LEMMA FireBurns ==
  ASSUME NEW q, IsFires(q), NEW i \in 1 .. Len(q), NEW r, r = [q EXCEPT ![i].timer = @ - 1]
  PROVE  /\ IsFires(r) /\ Len(r) = Len(q)
         /\ \A j \in 1 .. Len(q) : r[j].spread = q[j].spread /\ r[j].center = q[j].center
         /\ r[i].timer = q[i].timer - 1
         /\ \A j \in 1 .. Len(q) : j # i => r[j] = q[j]
<1>1. Len(q) \in Nat /\ DOMAIN q = 1 .. Len(q) /\ \A j \in 1 .. Len(q) : IsFire(q[j])
  BY FiresLen
<1>2. PICK e, c : e = q[i] /\ c = [e EXCEPT !.timer = @ - 1]
  OBVIOUS
<1>3. IsFire(e)
  BY <1>1, <1>2
<1>4. IsFire(c) /\ c.spread = e.spread /\ c.center = e.center /\ c.timer = e.timer - 1
  BY <1>2, <1>3 DEF IsFire, FireFields
<1>5. r = [q EXCEPT ![i] = c]
  BY <1>2
<1>6. r = [j \in 1 .. Len(q) |-> r[j]] /\ r[i] = c /\ \A j \in 1 .. Len(q) : j # i => r[j] = q[j]
  BY <1>1, <1>5
<1>7. \A j \in 1 .. Len(q) : IsFire(r[j])
  BY <1>1, <1>4, <1>6
<1>8. IsFires(r) /\ Len(r) = Len(q)
  <2>1. Len(q) \in Nat /\ r = [j \in 1 .. Len(q) |-> r[j]]
    BY <1>1, <1>6
  <2> QED
    BY ONLY <1>7, <2>1, FiresOf
<1>9. \A j \in 1 .. Len(q) : r[j].spread = q[j].spread /\ r[j].center = q[j].center
  BY <1>2, <1>4, <1>6
<1> QED
  BY <1>2, <1>4, <1>6, <1>8, <1>9

\* A blast: every tile it sets alight, and every power-up it frees, is its own
LEMMA BlastSound ==
  ASSUME NEW w, Sound(w), Len(w.explodes) < QueueSize, NEW bomb, NEW drop,
         \A t \in DOMAIN w.map : drop[t] \in Drops,
         NEW v, v = trigger_explosion(w, bomb, drop)
  PROVE  /\ Sound(v) /\ v.bombs = w.bombs /\ Len(v.explodes) = Len(w.explodes) + 1
         /\ DOMAIN v.map = DOMAIN w.map
<1>1. PICK tiles, e : /\ tiles = Spread(w.map, bomb)
                      /\ e = [center |-> bomb.pos, spread |-> tiles, timer |-> ExplodeTime]
  OBVIOUS
<1>2. PICK h : h = handle_spread(w, tiles, drop)
  OBVIOUS
<1>3. IsWorld(w) /\ IsQueue(w.bombs) /\ IsFires(w.explodes) /\ Charted(w) /\ Accounted(w)
  BY DEF Sound
<1>4. /\ IsWorld(h) /\ h.bombs = w.bombs /\ h.explodes = w.explodes
      /\ h.map = [t \in DOMAIN w.map |-> IF t \in tiles THEN "EXPLOSION" ELSE w.map[t]]
      /\ h.pending = [t \in DOMAIN w.pending |->
                          IF t \in tiles /\ w.map[t] = "BREAKABLE" /\ drop[t] # "EMPTY"
                          THEN drop[t] ELSE w.pending[t]]
  BY <1>2, <1>3 DEF handle_spread, IsWorld, WorldFields
<1>5. v = [h EXCEPT !.explodes = Append(h.explodes, e)]
  BY <1>1, <1>2, <1>3, <1>4 DEF trigger_explosion
<1>6. PICK q : q = Append(w.explodes, e)
  OBVIOUS
<1>7. /\ IsWorld(v) /\ v.bombs = w.bombs /\ v.explodes = q /\ v.map = h.map /\ v.pending = h.pending
  BY <1>4, <1>5, <1>6 DEF IsWorld, WorldFields
<1>8. IsFire(e) /\ e.spread = tiles
  BY <1>1 DEF IsFire, FireFields
<1>9. /\ IsFires(q) /\ Len(q) = Len(w.explodes) + 1 /\ q[Len(w.explodes) + 1] = e
      /\ \A i \in 1 .. Len(w.explodes) : q[i] = w.explodes[i]
  BY <1>3, <1>6, <1>8, FiresAppend
<1>10. Len(w.explodes) \in Nat
  BY <1>3, FiresLen
<1>11. \A t : t \in tiles \/ Lit(w.explodes, t) => Lit(q, t)
  BY <1>8, <1>9, <1>10 DEF Lit
<1>12. DOMAIN v.map = DOMAIN w.map /\ DOMAIN v.pending = DOMAIN w.map
  BY <1>3, <1>4, <1>7 DEF Charted
<1>13. Charted(v)
  BY <1>3, <1>4, <1>7, <1>12 DEF Charted
<1>14. ASSUME NEW t \in DOMAIN w.map
       PROVE  /\ v.map[t] = "EXPLOSION" \/ v.pending[t] # "EMPTY" => Lit(q, t)
              /\ v.map[t] = "BOMB" => Laid(w.bombs, t)
  <2>1. v.map[t] = IF t \in tiles THEN "EXPLOSION" ELSE w.map[t]
    BY <1>4, <1>7
  <2>2. t \notin tiles => v.pending[t] = w.pending[t]
    BY <1>3, <1>4, <1>7 DEF Charted
  <2>3. CASE t \in tiles
    BY <1>11, <2>1, <2>3
  <2>4. CASE t \notin tiles
    BY <1>3, <1>11, <2>1, <2>2, <2>4 DEF Accounted
  <2> QED
    BY <2>3, <2>4
<1>15. Accounted(v)
  BY <1>7, <1>12, <1>14 DEF Accounted
<1> QED
  BY <1>3, <1>7, <1>9, <1>12, <1>13, <1>15 DEF Sound

\* What one turn of tick_bombs does to the world
Disarmed(w, q, i) == [w EXCEPT !.map[q[i].pos] = "EMPTY", !.bombs = Cut(q, i)]

LEMMA BombTurnWorld ==
  ASSUME NEW s, NEW drop, NEW w, w = s.w, NEW i, i = s.i, NEW q, q = Burnt(w.bombs, i)
  PROVE  BombTurn(s, drop).w = IF q[i].timer > 0 THEN [w EXCEPT !.bombs = q]
                               ELSE trigger_explosion(Disarmed(w, q, i), q[Len(q)], drop)
<1>1. PICK on, off : /\ on = [w EXCEPT !.bombs = q]
                     /\ off = trigger_explosion(Disarmed(w, q, i), q[Len(q)], drop)
  OBVIOUS
<1>2. BombTurn(s, drop) = IF q[i].timer > 0 THEN [i |-> i + 1, w |-> on]
                                            ELSE [i |-> i, w |-> off]
  BY <1>1, Zenon DEF BombTurn, Burnt, Disarmed, Cut
<1>3. BombTurn(s, drop).w = IF q[i].timer > 0 THEN on ELSE off
  BY ONLY <1>2
<1> QED
  BY <1>1, <1>3, Zenon

\* One turn of tick_bombs
LEMMA BombTurnSound ==
  ASSUME NEW s, Sound(s.w), s.i \in 1 .. Len(s.w.bombs),
         Len(s.w.bombs) + Len(s.w.explodes) < QueueSize, NEW drop,
         \A t \in DOMAIN s.w.map : drop[t] \in Drops, NEW v, v = BombTurn(s, drop).w
  PROVE  /\ Sound(v) /\ DOMAIN v.map = DOMAIN s.w.map
         /\ Len(v.bombs) + Len(v.explodes) < QueueSize
<1>1. PICK w, i, q : w = s.w /\ i = s.i /\ q = Burnt(w.bombs, i)
  OBVIOUS
<1>2. /\ IsWorld(w) /\ IsQueue(w.bombs) /\ IsFires(w.explodes) /\ Charted(w) /\ Accounted(w)
      /\ i \in 1 .. Len(w.bombs) /\ Len(w.bombs) \in Nat /\ Len(w.explodes) \in Nat
      /\ Len(w.bombs) + Len(w.explodes) < QueueSize
  BY <1>1, QueueLen, FiresLen DEF Sound
<1>3. /\ IsQueue(q) /\ Len(q) = Len(w.bombs) /\ q[i].pos = w.bombs[i].pos
      /\ \A j \in 1 .. Len(w.bombs) : j # i => q[j] = w.bombs[j]
  BY <1>1, <1>2, FuseBurns
<1>4. \A j \in 1 .. Len(w.bombs) : q[j].pos = w.bombs[j].pos
  BY <1>3
<1>5. PICK left, cleared :
        /\ left = Cut(q, i) /\ cleared = Disarmed(w, q, i)
        /\ v = IF q[i].timer > 0 THEN [w EXCEPT !.bombs = q]
                                 ELSE trigger_explosion(cleared, q[Len(q)], drop)
  <2>1. w = s.w /\ i = s.i /\ q = Burnt(w.bombs, i) /\ v = BombTurn(s, drop).w
    BY <1>1
  <2> QED
    <3>1. v = IF q[i].timer > 0 THEN [w EXCEPT !.bombs = q]
              ELSE trigger_explosion(Disarmed(w, q, i), q[Len(q)], drop)
      BY ONLY <2>1, BombTurnWorld
    <3> QED
      BY ONLY <3>1
<1>6. CASE q[i].timer > 0
  <2>1. /\ IsWorld(v) /\ v.bombs = q /\ v.explodes = w.explodes /\ v.map = w.map
        /\ v.pending = w.pending
    BY <1>2, <1>5, <1>6 DEF IsWorld, WorldFields
  <2>2. \A t : Laid(w.bombs, t) => Laid(q, t)
    BY <1>3, <1>4 DEF Laid
  <2>3. Charted(v) /\ Accounted(v)
    BY <1>2, <2>1, <2>2 DEF Charted, Accounted
  <2> QED
    BY <1>1, <1>2, <1>3, <2>1, <2>3 DEF Sound
<1>7. CASE ~(q[i].timer > 0)
  <2>1. /\ IsQueue(left) /\ Len(left) = Len(q) - 1
        /\ \A j \in 1 .. (Len(q) - 1) : left[j] = IF j = i THEN q[Len(q)] ELSE q[j]
    <3>1. IsQueue(q) /\ i \in 1 .. Len(q) /\ left = SubSeq([q EXCEPT ![i] = q[Len(q)]], 1, Len(q) - 1)
      BY ONLY <1>2, <1>3, <1>5 DEF Cut
    <3> QED
      BY ONLY <3>1, SwapRemove
  <2>2. /\ IsWorld(cleared) /\ cleared.bombs = left /\ cleared.explodes = w.explodes
        /\ cleared.pending = w.pending /\ cleared.map = [w.map EXCEPT ![q[i].pos] = "EMPTY"]
    BY <1>2, <1>5 DEF IsWorld, WorldFields, Disarmed
  <2>3. ASSUME NEW t, Laid(w.bombs, t), t # q[i].pos PROVE Laid(left, t)
    <3>1. PICK j \in 1 .. Len(w.bombs) : w.bombs[j].pos = t
      BY <2>3 DEF Laid
    <3>2. q[j].pos = t /\ j # i
      BY <1>4, <2>3, <3>1
    <3>3. CASE j = Len(q)
      <4>1. i \in 1 .. (Len(q) - 1) /\ left[i] = q[Len(q)]
        BY <1>2, <1>3, <2>1, <3>2, <3>3
      <4> QED
        BY <2>1, <3>2, <3>3, <4>1 DEF Laid
    <3>4. CASE j # Len(q)
      <4>1. j \in 1 .. (Len(q) - 1) /\ left[j] = q[j]
        BY <1>2, <1>3, <2>1, <3>2, <3>4
      <4> QED
        BY <2>1, <3>2, <4>1 DEF Laid
    <3> QED
      BY <3>3, <3>4
  <2>4. DOMAIN cleared.map = DOMAIN w.map
    BY <2>2
  <2>5. Charted(cleared)
    BY <1>2, <2>2, <2>4 DEF Charted
  <2>6. ASSUME NEW t \in DOMAIN w.map
        PROVE  /\ cleared.map[t] = "EXPLOSION" \/ w.pending[t] # "EMPTY" => Lit(w.explodes, t)
               /\ cleared.map[t] = "BOMB" => Laid(left, t)
    <3>1. cleared.map[t] = IF t = q[i].pos THEN "EMPTY" ELSE w.map[t]
      BY <2>2
    <3> QED
      BY <1>2, <2>3, <3>1 DEF Accounted
  <2>7. Accounted(cleared)
    BY <2>2, <2>4, <2>6 DEF Accounted
  <2>8. Sound(cleared)
    BY <1>2, <2>1, <2>2, <2>5, <2>7 DEF Sound
  <2>9. Len(cleared.explodes) < QueueSize
    <3>1. PICK a, b : a = Len(w.bombs) /\ b = Len(w.explodes)
      OBVIOUS
    <3>2. a \in Nat /\ b \in Nat /\ a + b < QueueSize /\ QueueSize \in Nat
      BY ONLY <1>2, <3>1, Times
    <3>3. b < QueueSize
      BY ONLY <3>2
    <3> QED
      BY ONLY <3>1, <3>3, <2>2
  <2>10. \A t \in DOMAIN cleared.map : drop[t] \in Drops
    BY <1>1, <2>4
  <2>11. v = trigger_explosion(cleared, q[Len(q)], drop)
    BY <1>5, <1>7
  <2>12. /\ Sound(v) /\ v.bombs = left /\ Len(v.explodes) = Len(w.explodes) + 1
         /\ DOMAIN v.map = DOMAIN w.map
    <3>1. PICK last : last = q[Len(q)]
      OBVIOUS
    <3>2. v = trigger_explosion(cleared, last, drop)
      BY <2>11, <3>1
    <3>3. /\ Sound(v) /\ v.bombs = cleared.bombs
          /\ Len(v.explodes) = Len(cleared.explodes) + 1 /\ DOMAIN v.map = DOMAIN cleared.map
      BY ONLY <2>8, <2>9, <2>10, <3>2, BlastSound
    <3> QED
      BY ONLY <2>2, <2>4, <3>3
  <2>13. Len(v.bombs) + Len(v.explodes) < QueueSize
    <3>1. PICK a, b : a = Len(w.bombs) /\ b = Len(w.explodes)
      OBVIOUS
    <3>2. a \in Nat /\ b \in Nat /\ a + b < QueueSize
      BY ONLY <1>2, <3>1
    <3>3. Len(v.bombs) = a - 1 /\ Len(v.explodes) = b + 1
      BY ONLY <1>3, <2>1, <2>12, <3>1
    <3>4. (a - 1) + (b + 1) = a + b
      BY ONLY <3>2
    <3> QED
      BY ONLY <3>2, <3>3, <3>4
  <2> QED
    BY <1>1, <2>12, <2>13
<1> QED
  BY <1>6, <1>7

\* One turn of tick_explosions: what is put out belonged to this fire alone, or
\* to another that puts it out again
LEMMA FireTurnSound ==
  ASSUME NEW s, Sound(s.w), s.i \in 1 .. Len(s.w.explodes), NEW r, r = ExplosionTurn(s)
  PROVE  /\ Sound(r.w) /\ DOMAIN r.w.map = DOMAIN s.w.map
         /\ r.w.bombs = s.w.bombs
         /\ \/ r.i = s.i + 1 /\ Len(r.w.explodes) = Len(s.w.explodes)
            \/ r.i = s.i /\ Len(r.w.explodes) = Len(s.w.explodes) - 1
<1>1. PICK w, i, q : w = s.w /\ i = s.i /\ q = [w.explodes EXCEPT ![i].timer = @ - 1]
  OBVIOUS
<1>2. /\ IsWorld(w) /\ IsQueue(w.bombs) /\ IsFires(w.explodes) /\ Charted(w) /\ Accounted(w)
      /\ i \in 1 .. Len(w.explodes) /\ Len(w.explodes) \in Nat
  BY <1>1, FiresLen DEF Sound
<1>3. /\ IsFires(q) /\ Len(q) = Len(w.explodes)
      /\ \A j \in 1 .. Len(q) : q[j].spread = w.explodes[j].spread
  BY <1>1, <1>2, FireBurns
<1>4. PICK tiles, left, out :
        /\ tiles = q[i].spread
        /\ left = SubSeq([q EXCEPT ![i] = q[Len(q)]], 1, Len(q) - 1)
        /\ out = [w EXCEPT
                    !.map = [t \in DOMAIN @ |-> IF t \in tiles \cup {q[i].center}
                                                THEN "EMPTY" ELSE @[t]],
                    !.explodes = left]
        /\ r = IF q[i].timer > 0 THEN [i |-> i + 1, w |-> [w EXCEPT !.explodes = q]]
                                 ELSE [i |-> i, w |-> spawn_pending_powerups(out, tiles)]
  BY <1>1 DEF ExplosionTurn
<1>5. \A t : Lit(w.explodes, t) => Lit(q, t)
  BY <1>3 DEF Lit
<1>6. CASE q[i].timer > 0
  <2>1. PICK v : v = [w EXCEPT !.explodes = q] /\ r = [i |-> i + 1, w |-> v]
    BY <1>4, <1>6
  <2>2. /\ IsWorld(v) /\ v.explodes = q /\ v.bombs = w.bombs /\ v.map = w.map
        /\ v.pending = w.pending
    BY <1>2, <2>1 DEF IsWorld, WorldFields
  <2>3. Charted(v) /\ Accounted(v)
    BY <1>2, <1>5, <2>2 DEF Charted, Accounted
  <2>4. Sound(v)
    BY ONLY <1>2, <1>3, <2>2, <2>3 DEF Sound
  <2>5. r.w = v /\ r.i = i + 1
    BY ONLY <2>1
  <2>6. Len(v.explodes) = Len(w.explodes) /\ DOMAIN v.map = DOMAIN w.map /\ v.bombs = w.bombs
    BY ONLY <1>3, <2>2
  <2> QED
    BY ONLY <1>1, <2>4, <2>5, <2>6
<1>7. CASE ~(q[i].timer > 0)
  <2>1. PICK v : v = spawn_pending_powerups(out, tiles) /\ r = [i |-> i, w |-> v]
    BY <1>4, <1>7
  <2>2. /\ IsFires(left) /\ Len(left) = Len(q) - 1
        /\ \A j \in 1 .. (Len(q) - 1) : left[j] = IF j = i THEN q[Len(q)] ELSE q[j]
    <3>1. IsFires(q)
      BY ONLY <1>3
    <3>2. i \in 1 .. Len(q)
      BY ONLY <1>2, <1>3
    <3>3. left = Cut(q, i)
      BY ONLY <1>4 DEF Cut
    <3>4. Swapped(q, i, left)
      BY ONLY <3>1, <3>2, <3>3, FiresSwap
    <3> QED
      BY ONLY <3>4 DEF Swapped
  <2>3. /\ IsWorld(out) /\ out.bombs = w.bombs /\ out.explodes = left /\ out.pending = w.pending
        /\ out.map = [t \in DOMAIN w.map |-> IF t \in tiles \cup {q[i].center}
                                             THEN "EMPTY" ELSE w.map[t]]
    BY <1>2, <1>4 DEF IsWorld, WorldFields
  <2>4. PICK full : full = {t \in tiles : w.pending[t] # "EMPTY"}
    OBVIOUS
  <2>5. /\ IsWorld(v) /\ v.bombs = w.bombs /\ v.explodes = left
        /\ v.map = [t \in DOMAIN out.map |-> IF t \in full THEN w.pending[t] ELSE out.map[t]]
        /\ v.pending = [t \in DOMAIN w.pending |-> IF t \in full THEN "EMPTY" ELSE w.pending[t]]
    BY <2>1, <2>3, <2>4 DEF IsWorld, WorldFields, spawn_pending_powerups
  <2>6. DOMAIN v.map = DOMAIN w.map /\ DOMAIN v.pending = DOMAIN w.map
    BY <1>2, <2>3, <2>5 DEF Charted
  <2>7. Charted(v)
    BY <1>2, <2>5, <2>6 DEF Charted, Drops
  <2>8. ASSUME NEW t, Lit(w.explodes, t), t \notin tiles PROVE Lit(left, t)
    <3>1. PICK j \in 1 .. Len(q) : t \in q[j].spread
      BY <1>5, <2>8 DEF Lit
    <3>2. j # i
      BY <1>4, <2>8, <3>1
    <3>3. CASE j = Len(q)
      <4>1. i \in 1 .. (Len(q) - 1) /\ left[i] = q[Len(q)]
        BY <1>2, <1>3, <2>2, <3>2, <3>3
      <4> QED
        BY <2>2, <3>1, <3>3, <4>1 DEF Lit
    <3>4. CASE j # Len(q)
      <4>1. j \in 1 .. (Len(q) - 1) /\ left[j] = q[j]
        BY <1>2, <1>3, <2>2, <3>2, <3>4
      <4> QED
        BY <2>2, <3>1, <4>1 DEF Lit
    <3> QED
      BY <3>3, <3>4
  <2>9. ASSUME NEW t \in DOMAIN w.map
        PROVE  /\ v.map[t] = "EXPLOSION" \/ v.pending[t] # "EMPTY" => Lit(left, t)
               /\ v.map[t] = "BOMB" => Laid(w.bombs, t)
    <3>1. w.pending[t] \in Drops
      BY <1>2 DEF Charted
    <3>2. CASE t \in tiles
      <4>1. v.map[t] \in Drops /\ v.pending[t] = "EMPTY"
        <5>1. CASE t \in full
          BY <1>2, <2>3, <2>5, <3>1, <5>1 DEF Charted
        <5>2. CASE t \notin full
          BY <1>2, <2>3, <2>4, <2>5, <3>2, <5>2 DEF Charted, Drops
        <5> QED
          BY <5>1, <5>2
      <4> QED
        BY <4>1 DEF Drops
    <3>3. CASE t \notin tiles
      <4>1. /\ v.map[t] = "EMPTY" \/ v.map[t] = w.map[t]
            /\ v.pending[t] = w.pending[t]
        BY <1>2, <2>3, <2>4, <2>5, <3>3 DEF Charted
      <4> QED
        BY <1>2, <2>8, <3>3, <4>1 DEF Accounted
    <3> QED
      BY <3>2, <3>3
  <2>10. Accounted(v)
    BY <2>5, <2>6, <2>9 DEF Accounted
  <2>11. Sound(v)
    BY <1>2, <2>2, <2>5, <2>7, <2>10 DEF Sound
  <2>12. r.w = v /\ r.i = i
    BY ONLY <2>1
  <2>13. Len(v.explodes) = Len(w.explodes) - 1 /\ v.bombs = w.bombs
    BY ONLY <1>3, <2>2, <2>5
  <2> QED
    BY ONLY <1>1, <2>6, <2>11, <2>12, <2>13
<1> QED
  BY <1>6, <1>7

\* Worlds with the same queues, whose map has at most lost some power-ups
Tidier(v, w) ==
    /\ IsWorld(v) /\ v.bombs = w.bombs /\ v.explodes = w.explodes /\ v.pending = w.pending
    /\ DOMAIN v.map = DOMAIN w.map
    /\ \A t \in DOMAIN w.map : v.map[t] = "EMPTY" \/ v.map[t] = w.map[t]

LEMMA TidierSound ==
  ASSUME NEW w, Sound(w), NEW v, Tidier(v, w)
  PROVE  Sound(v)
<1>1. IsQueue(w.bombs) /\ IsFires(w.explodes) /\ Charted(w) /\ Accounted(w)
  BY DEF Sound
<1>2. /\ IsWorld(v) /\ v.bombs = w.bombs /\ v.explodes = w.explodes /\ v.pending = w.pending
      /\ DOMAIN v.map = DOMAIN w.map
      /\ \A t \in DOMAIN w.map : v.map[t] = "EMPTY" \/ v.map[t] = w.map[t]
  BY DEF Tidier
<1>3. Charted(v)
  BY <1>1, <1>2 DEF Charted
<1>4. Accounted(v)
  BY <1>1, <1>2 DEF Accounted
<1> QED
  BY <1>1, <1>2, <1>3, <1>4 DEF Sound

LEMMA MoveTidier ==
  ASSUME NEW w, IsWorld(w), NEW k
  PROVE  Tidier(MovePlayer(w, k), w)
<1>1. PICK p : p = w.players[k]
  OBVIOUS
<1>2. PICK moving : moving = (p.dx # 0 \/ p.dy # 0)
  OBVIOUS
<1>3. PICK at : at = IF moving THEN move_box(w.map, p.pos, p.dx, -p.dy) ELSE p.pos
  OBVIOUS
<1>4. PICK under : under = {t \in get_all_overlapping_tiles(at) : t \in DOMAIN w.map}
  OBVIOUS
<1>5. PICK fires, extra : /\ fires = {t \in under : w.map[t] = "POWERUP_FIRE"}
                          /\ extra = {t \in under : w.map[t] = "POWERUP_BOMB"}
  OBVIOUS
<1>6. PICK got : got = [p EXCEPT !.pos = at, !.is_moving = moving,
                                 !.num_fires = @ + Cardinality(fires),
                                 !.num_bombs = @ + Cardinality(extra),
                                 !.remaining = @ + Cardinality(extra)]
  OBVIOUS
<1>7. PICK v : v = [w EXCEPT !.players[k] = inventory_update(got),
                             !.map = [t \in DOMAIN @ |-> IF t \in fires \cup extra
                                                         THEN "EMPTY" ELSE @[t]],
                             !.dirty = @ \/ moving \/ p.is_moving # moving
                                         \/ fires \cup extra # {}]
  OBVIOUS
<1>8. MovePlayer(w, k) = IF ~p.alive THEN w ELSE v
  BY <1>1, <1>2, <1>3, <1>4, <1>5, <1>6, <1>7, Zenon DEF MovePlayer
<1>9. /\ IsWorld(v) /\ v.bombs = w.bombs /\ v.explodes = w.explodes /\ v.pending = w.pending
      /\ v.map = [t \in DOMAIN w.map |-> IF t \in fires \cup extra THEN "EMPTY" ELSE w.map[t]]
  BY <1>7 DEF IsWorld, WorldFields
<1>10. Tidier(v, w)
  BY <1>9 DEF Tidier
<1>11. Tidier(w, w)
  BY DEF Tidier
<1> QED
  BY <1>8, <1>10, <1>11

LEMMA TidierTrans ==
  ASSUME NEW u, NEW v, NEW w, Tidier(v, w), Tidier(u, v)
  PROVE  Tidier(u, w)
  BY DEF Tidier

\* The whole of apply_movement_and_pickups
LEMMA MovementTidier ==
  ASSUME NEW w, IsWorld(w), lobby \in Nat
  PROVE  Tidier(apply_movement_and_pickups(w), w)
<1>1. PICK f : /\ f[0] = w /\ apply_movement_and_pickups(w) = f[lobby]
               /\ \A n \in Nat : n + 1 <= lobby => f[n + 1] = MovePlayer(f[n], n + 1)
  BY MoveLoop
<1> DEFINE T == {n \in Nat : n <= lobby => Tidier(f[n], w)}
<1>2. 0 \in T
  <2>1. Tidier(w, w)
    BY DEF Tidier
  <2> QED
    BY <1>1, <2>1
<1>3. ASSUME NEW n \in Nat, n \in T PROVE n + 1 \in T
  <2> SUFFICES ASSUME n + 1 <= lobby PROVE Tidier(f[n + 1], w)
    OBVIOUS
  <2>1. n <= lobby
    OBVIOUS
  <2>2. f[n + 1] = MovePlayer(f[n], n + 1)
    BY <1>1
  <2>3. Tidier(f[n], w)
    BY <1>3, <2>1
  <2>4. IsWorld(f[n])
    BY <2>3 DEF Tidier
  <2>5. Tidier(f[n + 1], f[n])
    BY <2>2, <2>4, MoveTidier
  <2> QED
    BY <2>3, <2>5, TidierTrans
<1>4. Tidier(f[lobby], w)
  <2> HIDE DEF T
  <2>1. Nat \subseteq T
    BY <1>2, <1>3, SetInduction
  <2> QED
    BY <2>1 DEF T
<1> QED
  BY <1>1, <1>4

\* The whole of tick_bombs: every turn turns at most one bomb into one fire
SoundTurn(w, s, n) ==
    /\ Turned(w, s, n) /\ Sound(s.w) /\ DOMAIN s.w.map = DOMAIN w.map
    /\ Len(s.w.bombs) + Len(s.w.explodes) < QueueSize

LEMMA SoundTurnNext ==
  ASSUME NEW w, IsQueue(w.bombs), NEW n \in Nat, n < Len(w.bombs), NEW s, SoundTurn(w, s, n),
         NEW drop, \A t \in DOMAIN w.map : drop[t] \in Drops
  PROVE  SoundTurn(w, BombTurn(s, drop), n + 1)
<1>1. /\ Turned(w, s, n) /\ Sound(s.w) /\ DOMAIN s.w.map = DOMAIN w.map
      /\ Len(s.w.bombs) + Len(s.w.explodes) < QueueSize
  BY DEF SoundTurn
<1>2. Turned(w, BombTurn(s, drop), n + 1)
  BY <1>1, TurnNext
<1>3. PICK i, c, l : i = s.i /\ c = Len(s.w.bombs) /\ l = Len(w.bombs)
  OBVIOUS
<1>4. i \in 1 .. (n + 1) /\ c = l - n + (i - 1) /\ l \in Nat /\ n < l
  BY <1>1, <1>3, QueueLen DEF Turned, Walked
<1>5. i \in 1 .. c
  BY ONLY <1>4
<1>6. s.i \in 1 .. Len(s.w.bombs)
  BY ONLY <1>3, <1>5
<1>7. \A t \in DOMAIN s.w.map : drop[t] \in Drops
  BY <1>1
<1>8. PICK v : v = BombTurn(s, drop).w
  OBVIOUS
<1>9. /\ Sound(v) /\ DOMAIN v.map = DOMAIN s.w.map
      /\ Len(v.bombs) + Len(v.explodes) < QueueSize
  BY ONLY <1>1, <1>6, <1>7, <1>8, BombTurnSound
<1> QED
  BY ONLY <1>1, <1>2, <1>8, <1>9 DEF SoundTurn

LEMMA BombsSound ==
  ASSUME NEW w, Sound(w), Len(w.bombs) + Len(w.explodes) < QueueSize,
         NEW drop, \A t \in DOMAIN w.map : drop[t] \in Drops
  PROVE  Sound(tick_bombs(w, drop))
<1>0. /\ IsWorld(w) /\ IsQueue(w.bombs) /\ IsFires(w.explodes) /\ IsList(w.explodes)
      /\ Len(w.bombs) \in Nat
  BY QueueLen, FiresLen DEF Sound
<1>1. PICK L : L = Len(w.bombs)
  OBVIOUS
<1>2. PICK start : start = [i |-> 1, w |-> w]
  OBVIOUS
<1>3. PICK f : /\ f[0] = start /\ tick_bombs(w, drop) = f[L].w
               /\ \A n \in Nat : n + 1 <= L => f[n + 1] = BombTurn(f[n], drop)
  BY <1>0, <1>1, <1>2, BombLoop
<1> DEFINE T == {n \in Nat : n <= L => SoundTurn(w, f[n], n)}
<1>4. 0 \in T
  <2>1. Walked(w.bombs, w.bombs, 1, 0)
    <3>1. 1 \in 1 .. (0 + 1) /\ L = L - 0 + (1 - 1)
      BY <1>0, <1>1
    <3>2. \A j \in 1 .. L : ~(j < 1) /\ Waiting(w.bombs, w.bombs[j])
      BY <1>0, <1>1 DEF Waiting
    <3>3. \A k : Cardinality(Mine(w.bombs, k)) \in Nat
      BY <1>0, MineFinite
    <3> QED
      BY <1>0, <1>1, <3>1, <3>2, <3>3 DEF Walked
  <2>2. start.w = w /\ start.i = 1
    BY <1>2
  <2>3. Turned(w, start, 0)
    BY <1>0, <2>1, <2>2 DEF Turned
  <2>4. SoundTurn(w, start, 0)
    BY <2>2, <2>3 DEF SoundTurn
  <2> QED
    BY <1>3, <2>4
<1>5. ASSUME NEW n \in Nat, n \in T PROVE n + 1 \in T
  <2> SUFFICES ASSUME n + 1 <= L PROVE SoundTurn(w, f[n + 1], n + 1)
    OBVIOUS
  <2>1. n < L /\ n <= L
    BY <1>0, <1>1
  <2>2. f[n + 1] = BombTurn(f[n], drop)
    BY <1>3
  <2>3. SoundTurn(w, f[n], n)
    BY <1>5, <2>1
  <2> QED
    BY <1>0, <1>1, <2>1, <2>2, <2>3, SoundTurnNext
<1>6. SoundTurn(w, f[L], L)
  <2> HIDE DEF T
  <2>1. Nat \subseteq T
    BY <1>4, <1>5, SetInduction
  <2> QED
    BY <1>0, <1>1, <2>1 DEF T
<1> HIDE DEF T
<1> QED
  BY <1>3, <1>6 DEF SoundTurn

\* The whole of tick_explosions: after n turns of L, n - (i - 1) fires are out
FireWalk(w, s, n) ==
    /\ Sound(s.w) /\ DOMAIN s.w.map = DOMAIN w.map /\ s.w.bombs = w.bombs
    /\ s.i \in 1 .. (n + 1) /\ Len(s.w.explodes) = Len(w.explodes) - n + (s.i - 1)

LEMMA FireWalkNext ==
  ASSUME NEW w, Len(w.explodes) \in Nat, NEW n \in Nat, n < Len(w.explodes),
         NEW s, FireWalk(w, s, n), NEW r, r = ExplosionTurn(s)
  PROVE  FireWalk(w, r, n + 1)
<1>1. /\ Sound(s.w) /\ DOMAIN s.w.map = DOMAIN w.map /\ s.w.bombs = w.bombs
      /\ s.i \in 1 .. (n + 1) /\ Len(s.w.explodes) = Len(w.explodes) - n + (s.i - 1)
  BY DEF FireWalk
<1>2. PICK i, c, l : i = s.i /\ c = Len(s.w.explodes) /\ l = Len(w.explodes)
  OBVIOUS
<1>3. i \in 1 .. (n + 1) /\ c = l - n + (i - 1) /\ l \in Nat /\ n < l
  BY ONLY <1>1, <1>2, Len(w.explodes) \in Nat, n < Len(w.explodes)
<1>4. i \in 1 .. c
  BY ONLY <1>3, n \in Nat
<1>5. s.i \in 1 .. Len(s.w.explodes)
  BY ONLY <1>2, <1>4
<1>6. /\ Sound(r.w) /\ DOMAIN r.w.map = DOMAIN s.w.map
      /\ r.w.bombs = s.w.bombs
      /\ \/ r.i = s.i + 1 /\ Len(r.w.explodes) = Len(s.w.explodes)
         \/ r.i = s.i /\ Len(r.w.explodes) = Len(s.w.explodes) - 1
  BY ONLY <1>1, <1>5, r = ExplosionTurn(s), FireTurnSound
<1>7. PICK j, d : j = r.i /\ d = Len(r.w.explodes)
  OBVIOUS
<1>8. (j = i + 1 /\ d = c) \/ (j = i /\ d = c - 1)
  BY ONLY <1>2, <1>6, <1>7
<1>9. j \in 1 .. ((n + 1) + 1) /\ d = l - (n + 1) + (j - 1)
  BY ONLY <1>3, <1>8, n \in Nat
<1> QED
  BY ONLY <1>1, <1>2, <1>6, <1>7, <1>9 DEF FireWalk

LEMMA FiresSound ==
  ASSUME NEW w, Sound(w)
  PROVE  LET v == tick_explosions(w) IN Sound(v) /\ v.bombs = w.bombs
<1>0. Len(w.explodes) \in Nat
  BY FiresLen DEF Sound
<1>1. PICK L : L = Len(w.explodes)
  OBVIOUS
<1>2. PICK start : start = [i |-> 1, w |-> w]
  OBVIOUS
<1>3. PICK f : /\ f[0] = start /\ tick_explosions(w) = f[L].w
               /\ \A n \in Nat : n + 1 <= L => f[n + 1] = ExplosionTurn(f[n])
  BY <1>0, <1>1, <1>2, FireLoop
<1> DEFINE T == {n \in Nat : n <= L => FireWalk(w, f[n], n)}
<1>4. 0 \in T
  <2>1. start.w = w /\ start.i = 1
    BY <1>2
  <2>2. 1 \in 1 .. (0 + 1) /\ L = L - 0 + (1 - 1)
    BY <1>0, <1>1
  <2>3. FireWalk(w, start, 0)
    BY <1>1, <2>1, <2>2 DEF FireWalk
  <2> QED
    BY <1>3, <2>3
<1>5. ASSUME NEW n \in Nat, n \in T PROVE n + 1 \in T
  <2> SUFFICES ASSUME n + 1 <= L PROVE FireWalk(w, f[n + 1], n + 1)
    OBVIOUS
  <2>1. n < Len(w.explodes) /\ n <= L
    BY <1>0, <1>1
  <2>2. f[n + 1] = ExplosionTurn(f[n])
    BY <1>3
  <2>3. FireWalk(w, f[n], n)
    BY <1>5, <2>1
  <2> QED
    BY <1>0, <2>1, <2>2, <2>3, FireWalkNext
<1>6. FireWalk(w, f[L], L)
  <2> HIDE DEF T
  <2>1. Nat \subseteq T
    BY <1>4, <1>5, SetInduction
  <2> QED
    BY <1>0, <1>1, <2>1 DEF T
<1> HIDE DEF T
<1> QED
  BY <1>3, <1>6 DEF FireWalk

\* Deaths and the dirty flag do not touch the map
LEMMA KillSound ==
  ASSUME NEW w, Sound(w), NEW v, v = kill_players_in_explosions(w)
  PROVE  Sound([v EXCEPT !.dirty = FALSE])
<1>1. PICK u : u = [v EXCEPT !.dirty = FALSE]
  OBVIOUS
<1>2. IsWorld(w)
  BY DEF Sound
<1>3. /\ IsWorld(v) /\ v.bombs = w.bombs /\ v.explodes = w.explodes /\ v.pending = w.pending
      /\ v.map = w.map
  BY <1>2 DEF kill_players_in_explosions, IsWorld, WorldFields
<1>4. Tidier(u, w)
  BY <1>1, <1>3 DEF Tidier, IsWorld, WorldFields
<1>5. Sound(u)
  BY <1>4, TidierSound
<1> QED
  BY <1>1, <1>5

LEMMA TurnSound ==
  ASSUME NEW w, Sound(w), NEW k, NEW d
  PROVE  Sound(apply_move(w, k, d))
<1>1. PICK v : v = [w EXCEPT !.players[k].dx = d[1], !.players[k].dy = d[2]]
  OBVIOUS
<1>2. apply_move(w, k, d) = v \/ apply_move(w, k, d) = w
  BY <1>1 DEF apply_move
<1>3. IsWorld(w)
  BY DEF Sound
<1>4. Tidier(v, w)
  BY <1>1, <1>3 DEF Tidier, IsWorld, WorldFields
<1>5. Sound(v)
  BY <1>4, TidierSound
<1> QED
  BY <1>2, <1>5

\* A new bomb goes with its tile as long as the queue has room for it
LEMMA PlaceSound ==
  ASSUME NEW w, Sound(w), Len(w.bombs) < QueueSize, NEW k
  PROVE  Sound(apply_bomb_place(w, k))
<1>1. PICK p, t : p = w.players[k] /\ t = get_center_box(p.pos)
  OBVIOUS
<1>2. PICK b : b = [pos |-> t, spread |-> p.num_fires, timer |-> BombTime, by |-> k]
  OBVIOUS
<1>3. PICK v : v = [w EXCEPT !.map[t] = "BOMB",
                             !.bombs = IF Len(@) < QueueSize THEN Append(@, b) ELSE @,
                             !.players[k] = consume_bomb(@)]
  OBVIOUS
<1>4. \/ apply_bomb_place(w, k) = w
      \/ apply_bomb_place(w, k) = v /\ w.map[t] \in {"EMPTY", "PLAYER"}
  BY <1>1, <1>2, <1>3 DEF apply_bomb_place, place_bomb
<1>5. IsWorld(w) /\ IsQueue(w.bombs) /\ IsFires(w.explodes) /\ Charted(w) /\ Accounted(w)
  BY DEF Sound
<1>6. PICK q : q = Append(w.bombs, b)
  OBVIOUS
<1>7. /\ IsWorld(v) /\ v.bombs = q /\ v.explodes = w.explodes /\ v.pending = w.pending
      /\ v.map = [w.map EXCEPT ![t] = "BOMB"]
  BY <1>3, <1>5, <1>6 DEF IsWorld, WorldFields
<1>8. IsBomb(b) /\ b.pos = t
  BY <1>2, Times DEF IsBomb, BombFields
<1>9. /\ IsQueue(q) /\ Len(q) = Len(w.bombs) + 1 /\ q[Len(w.bombs) + 1] = b
      /\ \A i \in 1 .. Len(w.bombs) : q[i] = w.bombs[i]
  BY <1>5, <1>6, <1>8, AppendBomb
<1>10. Len(w.bombs) \in Nat
  BY <1>5, QueueLen
<1>11. \A u : u = t \/ Laid(w.bombs, u) => Laid(q, u)
  BY <1>8, <1>9, <1>10 DEF Laid
<1>12. Charted(v)
  BY <1>5, <1>7 DEF Charted
<1>13. Accounted(v)
  <2>1. DOMAIN v.map = DOMAIN w.map
    BY <1>7
  <2>2. ASSUME NEW u \in DOMAIN w.map
        PROVE  /\ v.map[u] = "EXPLOSION" \/ v.pending[u] # "EMPTY" => Lit(w.explodes, u)
               /\ v.map[u] = "BOMB" => Laid(q, u)
    <3>1. v.map[u] = IF u = t THEN "BOMB" ELSE w.map[u]
      BY <1>7
    <3>2. v.pending[u] = w.pending[u]
      BY <1>7
    <3> QED
      BY <1>5, <1>11, <3>1, <3>2 DEF Accounted
  <2> QED
    BY <1>7, <2>1, <2>2 DEF Accounted
<1>14. Sound(v)
  BY <1>5, <1>7, <1>9, <1>12, <1>13 DEF Sound
<1> QED
  BY <1>4, <1>14

\* A generated map holds neither bombs nor fire
LEMMA NewSound ==
  ASSUME NEW n, NEW m \in map_generate(n), lobby \in Nat
  PROVE  Sound(init_session(m))
<1>1. PICK w : w = init_session(m)
  OBVIOUS
<1>2. \A t \in DOMAIN m : m[t] \in {"WALL", "PLAYER", "EMPTY", "BREAKABLE"}
  BY DEF map_generate
<1>3. /\ IsWorld(w) /\ w.bombs = <<>> /\ w.explodes = <<>>
      /\ w.map = [t \in DOMAIN m |-> IF m[t] = "PLAYER" THEN "EMPTY" ELSE m[t]]
      /\ w.pending = [t \in DOMAIN m |-> "EMPTY"]
  BY <1>1 DEF init_session, IsWorld, WorldFields
<1>4. IsQueue(w.bombs) /\ IsFires(w.explodes)
  BY <1>3 DEF IsQueue, IsFires, IsList
<1>5. Charted(w)
  BY <1>3 DEF Charted, Drops
<1>6. Accounted(w)
  BY <1>2, <1>3 DEF Accounted
<1> QED
  BY <1>1, <1>3, <1>4, <1>5, <1>6 DEF Sound

TilesInv == BudgetInv /\ (stage \in {"match", "over"} => Sound(world))

\* Neither queue can be full while what both hold together fits into one
Roomy == world # <<>> => Len(world.bombs) + Len(world.explodes) < QueueSize

LEMMA DrawsDrop ==
  ASSUME NEW w, NEW drop \in Draws(w)
  PROVE  \A t \in DOMAIN w.map : drop[t] \in Drops
<1>1. PICK B : B = Breakable(w)
  OBVIOUS
<1>2. PICK d \in [B -> {"EMPTY", "POWERUP_FIRE", "POWERUP_BOMB"}] :
         drop = [t \in DOMAIN w.map |-> IF t \in B THEN d[t] ELSE "EMPTY"]
  BY <1>1 DEF Draws
<1> QED
  BY <1>2 DEF Drops

LEMMA TickSound ==
  ASSUME BudgetInv, Sound(world), Len(world.bombs) + Len(world.explodes) < QueueSize, Tick
  PROVE  Sound(world')
<1>1. PICK drop, moved, bombed, calm, w :
        /\ drop \in Draws(world)
        /\ moved = apply_movement_and_pickups(world) /\ bombed = tick_bombs(moved, drop)
        /\ calm = tick_explosions(bombed) /\ w = kill_players_in_explosions(calm)
        /\ world' = [w EXCEPT !.dirty = FALSE]
  BY DEF Tick
<1>2. Tidier(moved, world)
  BY <1>1, MovementTidier DEF Sound, BudgetInv
<1>3. Sound(moved)
  BY <1>2, TidierSound
<1>4. \A t \in DOMAIN moved.map : drop[t] \in Drops
  BY <1>1, <1>2, DrawsDrop DEF Tidier
<1>5. Len(moved.bombs) + Len(moved.explodes) < QueueSize
  BY <1>2 DEF Tidier
<1>6. Sound(bombed)
  BY <1>1, <1>3, <1>4, <1>5, BombsSound
<1>7. Sound(calm)
  BY <1>1, <1>6, FiresSound
<1> QED
  BY <1>1, <1>7, KillSound

LEMMA StepTiles ==
  ASSUME TilesInv, BudgetInv', Roomy, [Next]_vars
  PROVE  TilesInv'
<1>0. /\ BudgetInv /\ lobby \in Nat /\ (stage \in {"match", "over"} => Sound(world))
      /\ stage \in {"match", "over"} => Len(world.bombs) \in Nat /\ Len(world.explodes) \in Nat
  BY QueueLen, FiresLen DEF TilesInv, BudgetInv, Sound
<1>1. stage \in {"match", "over"} => Len(world.bombs) + Len(world.explodes) < QueueSize
  <2> SUFFICES ASSUME stage \in {"match", "over"}
               PROVE  Len(world.bombs) + Len(world.explodes) < QueueSize
    OBVIOUS
  <2>1. IsWorld(world)
    BY <1>0 DEF Sound
  <2>2. "map" \in DOMAIN world
    BY <2>1 DEF IsWorld, WorldFields
  <2>3. world # <<>>
    BY <2>2
  <2> QED
    BY <2>3 DEF Roomy
<1> SUFFICES ASSUME stage' \in {"match", "over"} PROVE Sound(world')
  BY DEF TilesInv
<1>2. CASE StartMatch
  <2>1. PICK m \in map_generate(lobby) : world' = init_session(m)
    BY <1>2 DEF StartMatch
  <2> QED
    BY <1>0, <2>1, NewSound
<1>3. CASE Tick
  <2>1. stage = "match"
    BY <1>3 DEF Tick
  <2> QED
    BY <1>0, <1>1, <1>3, <2>1, TickSound
<1>4. ASSUME stage \in {"match", "over"}, world' = world PROVE Sound(world')
  BY <1>0, <1>4
<1>5. CASE Join
  BY <1>5 DEF Join
<1>6. CASE Leave
  BY <1>6 DEF Leave
<1>7. CASE Stop
  BY <1>4, <1>7 DEF Stop
<1>8. CASE Poll
  BY <1>4, <1>8 DEF Poll
<1>9. CASE UNCHANGED vars
  BY <1>4, <1>9 DEF vars
<1>10. ASSUME NEW k \in 1 .. lobby, NEW d \in Directions, DrainMove(k, d) PROVE Sound(world')
  <2>1. stage = "match" /\ world' = apply_move(world, k, d)
    BY <1>10 DEF DrainMove, Draining
  <2> QED
    BY <1>0, <2>1, TurnSound
<1>11. ASSUME NEW k \in 1 .. lobby, DrainBombPlace(k) PROVE Sound(world')
  <2>1. stage = "match" /\ world' = apply_bomb_place(world, k)
    BY <1>11 DEF DrainBombPlace, Draining
  <2>2. PICK a, b : a = Len(world.bombs) /\ b = Len(world.explodes)
    OBVIOUS
  <2>3. a \in Nat /\ b \in Nat /\ a + b < QueueSize /\ QueueSize \in Nat
    BY <1>0, <1>1, <2>1, <2>2, Times
  <2>4. a < QueueSize
    BY ONLY <2>3
  <2> QED
    BY <1>0, <2>1, <2>2, <2>4, PlaceSound
<1>12. ASSUME NEW k \in 1 .. lobby, Disconnect(k) PROVE Sound(world')
  BY <1>4, <1>12 DEF Disconnect
<1> QED
  BY <1>2, <1>3, <1>5, <1>6, <1>7, <1>8, <1>9, <1>10, <1>11, <1>12 DEF Next

(* While the queues of bombd have room, every burning tile and every hidden *)
(* power-up belongs to a fire that will put it out or reveal it, and every  *)
(* BOMB tile to a bomb that will go off: neither overlapping blasts nor the *)
(* swap-removals of tick_bombs and tick_explosions lose one, whatever the   *)
(* map, the number of players, bombs and power-ups.  (A bomb placed when    *)
(* bombs_queue is full is dropped, and its tile stays.)                     *)
THEOREM NoTileLeftBehind == Spec /\ []Roomy => []TilesAccounted
<1>1. Init => TilesInv
  BY DEF Init, TilesInv, BudgetInv
<1>2. TilesInv /\ Roomy /\ [Next]_vars => TilesInv'
  <2> SUFFICES ASSUME TilesInv, Roomy, [Next]_vars PROVE TilesInv'
    OBVIOUS
  <2>1. BudgetInv'
    BY StepGood DEF TilesInv
  <2> QED
    BY <2>1, StepTiles
<1>3. TilesInv => TilesAccounted
  <2> SUFFICES ASSUME TilesInv, world # <<>>, NEW t \in DOMAIN world.map
               PROVE  /\ world.map[t] = "EXPLOSION" \/ world.pending[t] # "EMPTY" =>
                            \E e \in Range(world.explodes) : t \in e.spread
                      /\ world.map[t] = "BOMB" => \E b \in Range(world.bombs) : b.pos = t
    BY DEF TilesAccounted
  <2>1. Sound(world)
    BY DEF TilesInv, BudgetInv
  <2>2. /\ DOMAIN world.bombs = 1 .. Len(world.bombs)
        /\ DOMAIN world.explodes = 1 .. Len(world.explodes)
    BY <2>1, QueueLen, FiresLen DEF Sound
  <2>3. Lit(world.explodes, t) => \E e \in Range(world.explodes) : t \in e.spread
    BY <2>2 DEF Lit, Range
  <2>4. Laid(world.bombs, t) => \E b \in Range(world.bombs) : b.pos = t
    BY <2>2 DEF Laid, Range
  <2> QED
    BY <2>1, <2>3, <2>4 DEF Sound, Accounted
<1> QED
  BY <1>1, <1>2, <1>3, PTL DEF Spec

-----------------------------------------------------------------------------
(* The arena: its outer wall stands, and everybody stays inside.            *)

Inner(t, z) == t \in (1 .. z - 2) \X (1 .. z - 2)

\* Positions whose box is inside the wall
Room(z) == (3 .. 3 * (z - 2)) \X (3 .. 3 * (z - 2))

IsMap(m, z) ==
    /\ m = [t \in Grid(z) |-> m[t]]
    /\ \A t \in Grid(z) : /\ m[t] \in TileType \ {"PLAYER"}
                          /\ OnBorder(t, z) => m[t] = "WALL"

IsPending(d, z) == d = [t \in Grid(z) |-> d[t]] /\ \A t \in Grid(z) : d[t] \in Drops

Walled(w, z) == IsWorld(w) /\ IsMap(w.map, z) /\ IsPending(w.pending, z)

InPlay(p, z) ==
    /\ p = [f \in PlayerFields |-> p[f]]
    /\ p.alive \in BOOLEAN /\ p.is_moving \in BOOLEAN /\ p.pos \in Room(z)
    /\ p.dx \in -1 .. 1 /\ p.dy \in -1 .. 1
    /\ p.num_bombs \in Nat /\ p.remaining \in Nat /\ p.num_fires \in Nat
    /\ p.replenish \in 0 .. ReplenishTime

Manned(ps, z) ==
    ps = [k \in 1 .. lobby |-> ps[k]] /\ \A k \in 1 .. lobby : InPlay(ps[k], z)

Armed(q, z) ==
    /\ IsQueue(q) /\ Len(q) <= QueueSize
    /\ \A i \in 1 .. Len(q) : /\ Inner(q[i].pos, z) /\ q[i].spread \in Nat
                              /\ q[i].timer \in 1 .. BombTime

\* Tiles of the arena that are not part of its wall
Free(T, z) == \A t \in Grid(z) : t \in T => ~OnBorder(t, z)

Burning(q, z) ==
    /\ IsFires(q) /\ Len(q) <= QueueSize
    /\ \A i \in 1 .. Len(q) : /\ Free(q[i].spread \cup {q[i].center}, z)
                              /\ q[i].timer \in 1 .. ExplodeTime

Arena(w, z) ==
    Walled(w, z) /\ Armed(w.bombs, z) /\ Burning(w.explodes, z) /\ Manned(w.players, z)

LEMMA InnerTile ==
  ASSUME NEW z \in Nat, NEW t, Inner(t, z)
  PROVE  t \in Grid(z) /\ ~OnBorder(t, z)
  BY DEF Inner, Grid, OnBorder

\* A third of a tile further, the box is still inside, or it meets the wall
LEMMA WallMet ==
  ASSUME NEW z \in Nat, z >= 3, NEW m, IsMap(m, z), NEW x \in 3 .. 3 * (z - 2),
         NEW d \in -1 .. 1, x + d \notin 3 .. 3 * (z - 2)
  PROVE  /\ \E c \in Cover(x + d) : c \in {0, z - 1}
         /\ x \div 3 \in Cover(x) /\ x \div 3 \in 1 .. z - 2
<1>1. x \div 3 \in Cover(x) /\ x \div 3 \in 1 .. z - 2
  BY DEF Cover
<1>2. x + d = 2 \/ x + d = 3 * (z - 2) + 1
  OBVIOUS
<1>3. CASE x + d = 2
  BY <1>3 DEF Cover
<1>4. CASE x + d = 3 * (z - 2) + 1
  <2>1. PICK n \in Nat : n = z - 2
    OBVIOUS
  <2>2. (3 * n + 1) % 3 = 1 /\ (3 * n + 1) \div 3 = n
    BY ONLY n \in Nat
  <2>3. n + 1 \in Cover(x + d)
    BY <1>4, <2>1, <2>2 DEF Cover
  <2>4. n + 1 = z - 1
    BY <2>1
  <2> QED
    BY <1>1, <2>3, <2>4
<1> QED
  BY <1>1, <1>2, <1>3, <1>4

LEMMA InRange ==
  ASSUME NEW z \in Nat, z >= 3, NEW x \in 3 .. 3 * (z - 2)
  PROVE  x \in Nat /\ x \div 3 \in Cover(x) /\ x \div 3 \in 1 .. z - 2 /\ Centre(x) \in 1 .. z - 2
  BY DEF Cover, Centre

LEMMA StaysIn ==
  ASSUME NEW z \in Nat, z >= 3, NEW m, IsMap(m, z), NEW x \in 3 .. 3 * (z - 2),
         NEW y \in 3 .. 3 * (z - 2), NEW d \in -1 .. 1
  PROVE  /\ ~aabb_collided(m, <<x + d, y>>) => x + d \in 3 .. 3 * (z - 2)
         /\ ~aabb_collided(m, <<x, y + d>>) => y + d \in 3 .. 3 * (z - 2)
<1>0. \A c \in {0, z - 1}, e \in 1 .. z - 2 :
        /\ <<c, e>> \in Grid(z) /\ OnBorder(<<c, e>>, z)
        /\ <<e, c>> \in Grid(z) /\ OnBorder(<<e, c>>, z)
  BY DEF Grid, OnBorder
<1>1. \A t \in Grid(z) : OnBorder(t, z) => tile_is_solid(m, t)
  BY DEF IsMap, tile_is_solid
<1>2. ASSUME x + d \notin 3 .. 3 * (z - 2) PROVE aabb_collided(m, <<x + d, y>>)
  <2>1. PICK c \in Cover(x + d) : c \in {0, z - 1}
    BY <1>2, WallMet
  <2>2. y \div 3 \in Cover(y) /\ y \div 3 \in 1 .. z - 2
    BY InRange
  <2>3. PICK t : t = <<c, y \div 3>>
    OBVIOUS
  <2>4. t \in get_all_overlapping_tiles(<<x + d, y>>)
    BY <2>1, <2>2, <2>3 DEF get_all_overlapping_tiles
  <2>5. tile_is_solid(m, t)
    BY <1>0, <1>1, <2>1, <2>2, <2>3
  <2> QED
    BY <2>4, <2>5 DEF aabb_collided
<1>3. ASSUME y + d \notin 3 .. 3 * (z - 2) PROVE aabb_collided(m, <<x, y + d>>)
  <2>1. PICK c \in Cover(y + d) : c \in {0, z - 1}
    BY <1>3, WallMet
  <2>2. x \div 3 \in Cover(x) /\ x \div 3 \in 1 .. z - 2
    BY InRange
  <2>3. PICK t : t = <<x \div 3, c>>
    OBVIOUS
  <2>4. t \in get_all_overlapping_tiles(<<x, y + d>>)
    BY <2>1, <2>2, <2>3 DEF get_all_overlapping_tiles
  <2>5. tile_is_solid(m, t)
    BY <1>0, <1>1, <2>1, <2>2, <2>3
  <2> QED
    BY <2>4, <2>5 DEF aabb_collided
<1> QED
  BY <1>2, <1>3

LEMMA MoveInside ==
  ASSUME NEW z \in Nat, z >= 3, NEW m, IsMap(m, z), NEW pos \in Room(z),
         NEW dx \in -1 .. 1, NEW dy \in -1 .. 1
  PROVE  move_box(m, pos, dx, dy) \in Room(z)
<1>1. PICK x \in 3 .. 3 * (z - 2), y \in 3 .. 3 * (z - 2) : pos[1] = x /\ pos[2] = y
  BY DEF Room
<1>2. PICK u : u = IF aabb_collided(m, <<x + dx, y>>) THEN x ELSE x + dx
  OBVIOUS
<1>3. u \in 3 .. 3 * (z - 2)
  BY <1>2, StaysIn
<1>4. PICK v : v = IF aabb_collided(m, <<u, y + dy>>) THEN y ELSE y + dy
  OBVIOUS
<1>5. v \in 3 .. 3 * (z - 2)
  BY <1>3, <1>4, StaysIn
<1>6. move_box(m, pos, dx, dy) = <<u, v>>
  BY <1>1, <1>2, <1>4, Zenon DEF move_box
<1> QED
  BY <1>3, <1>5, <1>6 DEF Room

-----------------------------------------------------------------------------
(* The size of a map, and the tiles the players start on *)

LEMMA WidthIs ==
  ASSUME NEW n \in Nat \ {0}
  PROVE  calc_map_size(n) \in Nat \ {0}
<1>1. PICK k \in Nat \ {0} : k = TilesPerPlayer * n
  <2>1. PICK e \in Nat \ {0} : e = TilesPerPlayer
    BY MapAssumption
  <2>2. e * n \in Nat \ {0}
    BY ONLY e \in Nat \ {0}, n \in Nat \ {0}
  <2> QED
    BY <2>1, <2>2
<1>2. PICK U : U = {r \in 0 .. k : r * r >= k}
  OBVIOUS
<1>3. k * k >= k
  BY ONLY k \in Nat \ {0}
<1>4. U \subseteq Nat /\ U # {}
  <2>1. k \in 0 .. k
    OBVIOUS
  <2>2. k \in U
    BY <1>2, <1>3, <2>1, Zenon
  <2>3. U \subseteq 0 .. k
    BY <1>2
  <2> QED
    BY <2>2, <2>3
<1>5. PICK r \in U : \A s \in U : r <= s
  BY <1>4, LeastExists
<1>6. r \in 0 .. k /\ r * r >= k /\ r # 0
  BY <1>2, <1>5
<1>7. (r - 1) * (r - 1) < k
  <2>1. r - 1 \notin U
    BY <1>4, <1>5
  <2>2. PICK j \in Nat : j = r - 1
    BY <1>6
  <2>3. j \in 0 .. k /\ ~(j * j >= k)
    BY <1>2, <1>6, <2>1, <2>2
  <2>4. j * j \in Nat
    BY ONLY j \in Nat
  <2> QED
    BY <2>2, <2>3, <2>4
<1>8. CeilSqrt(k) \in 0 .. k
  BY <1>6, <1>7, Zenon DEF CeilSqrt
<1>9. calc_map_size(n) = IF CeilSqrt(k) > MIN_MAP_WIDTH THEN CeilSqrt(k) ELSE MIN_MAP_WIDTH
  BY <1>1 DEF calc_map_size, Width
<1> QED
  BY <1>8, <1>9, MapAssumption

\* The column-by-column order of the tiles is a strict order of numbers
LEMMA ScanOrder ==
  ASSUME NEW z \in Nat, NEW t \in Grid(z), NEW u \in Grid(z)
  PROVE  /\ t[1] * z + t[2] \in Nat
         /\ t[1] * z + t[2] = u[1] * z + u[2] => t = u
<1>1. PICK a \in 0 .. z - 1, b \in 0 .. z - 1 : t = <<a, b>>
  BY DEF Grid
<1>2. PICK c \in 0 .. z - 1, d \in 0 .. z - 1 : u = <<c, d>>
  BY DEF Grid
<1>3. a * z \in Nat /\ c * z \in Nat
  BY ONLY z \in Nat, a \in 0 .. z - 1, c \in 0 .. z - 1
<1>4. a * z + b \in Nat
  BY <1>3
<1>5. ASSUME a * z + b = c * z + d PROVE a = c /\ b = d
  <2>1. CASE a < c
    <3>1. PICK e \in Nat : c = a + 1 + e
      <4>1. c - a - 1 \in Nat /\ c = a + 1 + (c - a - 1)
        BY <2>1
      <4> QED
        BY <4>1
    <3>2. c * z = a * z + z + e * z /\ e * z \in Nat
      BY ONLY <3>1, z \in Nat, a \in 0 .. z - 1, e \in Nat
    <3> QED
      BY <1>3, <1>5, <3>2
  <2>2. CASE c < a
    <3>1. PICK e \in Nat : a = c + 1 + e
      <4>1. a - c - 1 \in Nat /\ a = c + 1 + (a - c - 1)
        BY <2>2
      <4> QED
        BY <4>1
    <3>2. a * z = c * z + z + e * z /\ e * z \in Nat
      BY ONLY <3>1, z \in Nat, c \in 0 .. z - 1, e \in Nat
    <3> QED
      BY <1>3, <1>5, <3>2
  <2>3. CASE a = c
    BY <1>3, <1>5, <2>3
  <2> QED
    BY <2>1, <2>2, <2>3
<1> QED
  BY <1>1, <1>2, <1>4, <1>5

Keyed(F, key) ==
    /\ IsFiniteSet(F) /\ \A t \in F : key[t] \in Nat
    /\ \A t, u \in F : key[t] = key[u] => t = u

Below(F, key, t) == {u \in F : key[u] < key[t]}

\* The places of the found tiles in the scan are 0, 1, 2, ...
LEMMA RankExists ==
  ASSUME NEW F, NEW key, Keyed(F, key), NEW k \in Nat, k < Cardinality(F)
  PROVE  \E t \in F : Cardinality(Below(F, key, t)) = k
<1> USE DEF Keyed
<1> DEFINE B(t) == {u \in F : key[u] < key[t]}
           T == {n \in Nat : n < Cardinality(F) => \E t \in F : Cardinality(B(t)) = n}
<1>0. Cardinality(F) \in Nat
  BY FS_CardinalityType
<1>1. ASSUME NEW G, G \subseteq F, G # {} PROVE \E t \in G : \A u \in G : key[t] <= key[u]
  <2>1. PICK N : N = {key[t] : t \in G}
    OBVIOUS
  <2>2. N \subseteq Nat /\ N # {}
    BY <1>1, <2>1
  <2>3. PICK x \in N : \A y \in N : x <= y
    BY <2>2, LeastExists
  <2>4. PICK t \in G : x = key[t]
    BY <2>1, <2>3
  <2>5. \A u \in G : key[u] \in N
    BY <2>1
  <2> QED
    BY <2>3, <2>4, <2>5
<1>2. 0 \in T
  <2> SUFFICES ASSUME 0 < Cardinality(F) PROVE \E t \in F : Cardinality(B(t)) = 0
    OBVIOUS
  <2>1. F # {}
    BY FS_EmptySet
  <2>2. PICK t \in F : \A u \in F : key[t] <= key[u]
    BY <1>1, <2>1
  <2>3. B(t) = {}
    BY <2>2
  <2>4. Cardinality(B(t)) = 0
    BY <2>3, FS_EmptySet
  <2> QED
    BY <2>4
<1>3. ASSUME NEW n \in Nat, n \in T PROVE n + 1 \in T
  <2> SUFFICES ASSUME n + 1 < Cardinality(F) PROVE \E t \in F : Cardinality(B(t)) = n + 1
    OBVIOUS
  <2>1. PICK t \in F : Cardinality(B(t)) = n
    BY <1>0, <1>3
  <2>2. PICK C : C = B(t) \cup {t}
    OBVIOUS
  <2>3. IsFiniteSet(B(t)) /\ t \notin B(t)
    <3>1. B(t) \subseteq F
      OBVIOUS
    <3>2. ~(key[t] < key[t])
      OBVIOUS
    <3> HIDE DEF B
    <3>3. IsFiniteSet(B(t))
      BY <3>1, FS_Subset
    <3> QED
      BY <3>2, <3>3 DEF B
  <2>4. Cardinality(C) = n + 1
    <3> HIDE DEF B
    <3> QED
      BY <2>1, <2>2, <2>3, FS_AddElement
  <2>5. F \ C # {}
    <3>1. CASE F \subseteq C
      <4>1. C \subseteq F
        BY <2>2
      <4>2. C = F
        BY <3>1, <4>1
      <4> QED
        BY <1>0, <2>4, <4>2
    <3> QED
      BY <3>1
  <2>6. PICK G : G = F \ C
    OBVIOUS
  <2>7. G \subseteq F /\ G # {}
    BY <2>5, <2>6
  <2>8. PICK v \in G : \A u \in G : key[v] <= key[u]
    BY <1>1, <2>7
  <2>9. v \in F /\ v # t /\ ~(key[v] < key[t])
    BY <2>2, <2>6
  <2>10. key[t] < key[v]
    BY <2>9
  <2>11. B(v) = C
    <3>1. ASSUME NEW u \in C PROVE u \in B(v)
      <4>1. u \in F /\ (u = t \/ key[u] < key[t])
        BY <2>2, <3>1
      <4> QED
        BY <2>9, <2>10, <4>1
    <3>2. ASSUME NEW u \in B(v) PROVE u \in C
      <4>1. CASE u \in G
        <5>1. key[v] <= key[u] /\ key[u] < key[v] /\ key[u] \in Nat /\ key[v] \in Nat
          BY <2>8, <2>9, <4>1
        <5> QED
          BY <5>1
      <4> QED
        BY <2>6, <4>1
    <3> QED
      BY <3>1, <3>2
  <2> HIDE DEF B
  <2> QED
    BY <2>4, <2>9, <2>11
<1>4. k \in T
  <2> HIDE DEF T
  <2>1. Nat \subseteq T
    BY <1>2, <1>3, SetInduction
  <2> QED
    BY <2>1
<1> QED
  BY <1>4 DEF Below

\* What collect_spawns makes of the tiles found
Scanned(F, z) ==
    [i \in 1 .. Cardinality(F) |->
        CHOOSE t \in F : Cardinality({u \in F : u[1] * z + u[2] < t[1] * z + t[2]}) = i - 1]

LEMMA SpawnInside ==
  ASSUME NEW n \in Nat \ {0}, NEW m \in map_generate(n), NEW k \in Nat \ {0},
         NEW z, z = calc_map_size(n) + 2
  PROVE  Inner(SpawnTile(m, z, k), z)
<1>1. z \in Nat /\ z >= 3
  BY WidthIs
<1>2. PICK F : F = {t \in Grid(z) : m[t] = "PLAYER"}
  OBVIOUS
<1>3. \A t \in F : Inner(t, z)
  <2>1. ASSUME NEW t \in Grid(z), OnBorder(t, z) PROVE m[t] = "WALL"
    BY <2>1 DEF map_generate
  <2>2. ASSUME NEW t \in Grid(z), ~OnBorder(t, z) PROVE Inner(t, z)
    BY <1>1, <2>2 DEF Grid, OnBorder, Inner
  <2> QED
    BY <1>2, <2>1, <2>2
<1>4. Inner(<<1, 1>>, z)
  BY <1>1 DEF Inner
<1>5. IsFiniteSet(F)
  <2>1. IsFiniteSet(0 .. z - 1)
    BY <1>1, FS_Interval
  <2>2. IsFiniteSet(Grid(z))
    BY <2>1, FS_Product DEF Grid
  <2>3. F \subseteq Grid(z)
    BY <1>2
  <2> QED
    BY <2>2, <2>3, FS_Subset
<1>6. PICK key : key = [t \in Grid(z) |-> t[1] * z + t[2]]
  OBVIOUS
<1>7. /\ \A t \in F : key[t] \in Nat
      /\ \A t, u \in F : key[t] = key[u] => t = u
      /\ \A t, u \in F : key[t] < key[u] <=> t[1] * z + t[2] < u[1] * z + u[2]
  <2>1. F \subseteq Grid(z)
    BY <1>2
  <2>2. ASSUME NEW t \in F, NEW u \in F
        PROVE  /\ key[t] = t[1] * z + t[2] /\ key[u] = u[1] * z + u[2]
               /\ key[t] \in Nat /\ (key[t] = key[u] => t = u)
    <3>1. key[t] = t[1] * z + t[2] /\ key[u] = u[1] * z + u[2]
      BY <1>6, <2>1
    <3>2. /\ t[1] * z + t[2] \in Nat
          /\ t[1] * z + t[2] = u[1] * z + u[2] => t = u
      BY <1>1, <2>1, ScanOrder
    <3> QED
      BY <3>1, <3>2
  <2>3. ASSUME NEW t \in F, NEW u \in F
        PROVE  key[t] < key[u] <=> t[1] * z + t[2] < u[1] * z + u[2]
    <3>1. key[t] = t[1] * z + t[2] /\ key[u] = u[1] * z + u[2]
      BY <2>2
    <3> QED
      BY <3>1
  <2> QED
    BY <2>2, <2>3
<1>8. CASE k \in 1 .. Cardinality(F)
  <2>1. k - 1 \in Nat /\ k - 1 < Cardinality(F)
    BY <1>5, <1>8, FS_CardinalityType
  <2>2. PICK j : j = k - 1
    OBVIOUS
  <2>3. j \in Nat /\ j < Cardinality(F)
    BY <2>1, <2>2
  <2>4. \E t \in F : Cardinality({u \in F : key[u] < key[t]}) = j
    <3>1. Keyed(F, key)
      BY <1>5, <1>7 DEF Keyed
    <3>2. \E t \in F : Cardinality(Below(F, key, t)) = j
      BY ONLY <2>3, <3>1, RankExists
    <3> QED
      BY <3>2 DEF Below
  <2>5. \A t \in F : {u \in F : key[u] < key[t]} = {u \in F : u[1] * z + u[2] < t[1] * z + t[2]}
    BY <1>7
  <2>6. \E t \in F : Cardinality({u \in F : u[1] * z + u[2] < t[1] * z + t[2]}) = j
    <3>1. PICK t \in F : Cardinality({u \in F : key[u] < key[t]}) = j
      BY <2>4
    <3>2. {u \in F : key[u] < key[t]} = {u \in F : u[1] * z + u[2] < t[1] * z + t[2]}
      BY <2>5
    <3>3. Cardinality({u \in F : u[1] * z + u[2] < t[1] * z + t[2]}) = j
      BY <3>1, <3>2, Zenon
    <3> QED
      BY <3>3, Zenon
  <2>7. PICK c : c = CHOOSE t \in F : Cardinality({u \in F : u[1] * z + u[2] < t[1] * z + t[2]}) = j
    OBVIOUS
  <2>8. c \in F
    BY <2>6, <2>7, Zenon
  <2>9. SpawnTile(m, z, k) = c
    <3>1. PICK sp : sp = collect_spawns(m, z)
      OBVIOUS
    <3>2. sp = [i \in 1 .. Cardinality(F) |->
                  CHOOSE t \in F : Cardinality({u \in F : u[1] * z + u[2] < t[1] * z + t[2]}) = i - 1]
      <4>1. sp = Scanned({t \in Grid(z) : m[t] = "PLAYER"}, z)
        BY <3>1, Zenon DEF collect_spawns, Scanned
      <4>2. sp = Scanned(F, z)
        BY <1>2, <4>1
      <4> QED
        BY <4>2, Zenon DEF Scanned
    <3>3. k \in DOMAIN sp /\ sp[k] = c
      BY <1>8, <2>2, <2>7, <3>2, Zenon
    <3> QED
      BY <3>1, <3>3, Zenon DEF SpawnTile
  <2> QED
    BY <1>3, <2>8, <2>9
<1>9. CASE k \notin 1 .. Cardinality(F)
  <2>1. DOMAIN collect_spawns(m, z) = 1 .. Cardinality(F)
    BY <1>2, Zenon DEF collect_spawns
  <2>2. SpawnTile(m, z, k) = <<1, 1>>
    BY <1>9, <2>1, Zenon DEF SpawnTile
  <2> QED
    BY <1>4, <2>2
<1> QED
  BY <1>8, <1>9

\* A match begins in a walled arena, with everybody inside
LEMMA NewArena ==
  ASSUME lobby \in Nat \ {0}, NEW m \in map_generate(lobby)
  PROVE  Arena(init_session(m), MapSize)
<1>1. PICK z, w : z = MapSize /\ w = init_session(m)
  OBVIOUS
<1>2. z = calc_map_size(lobby) + 2 /\ z \in Nat /\ z >= 3
  BY <1>1, WidthIs DEF MapSize
<1>3. /\ DOMAIN m = Grid(z)
      /\ \A t \in Grid(z) : /\ m[t] \in {"WALL", "PLAYER", "EMPTY", "BREAKABLE"}
                            /\ OnBorder(t, z) => m[t] = "WALL"
  BY <1>2 DEF map_generate
<1>4. /\ IsWorld(w) /\ w.bombs = <<>> /\ w.explodes = <<>>
      /\ w.map = [t \in Grid(z) |-> IF m[t] = "PLAYER" THEN "EMPTY" ELSE m[t]]
      /\ w.pending = [t \in Grid(z) |-> "EMPTY"]
      /\ w.players = [k \in 1 .. lobby |-> NewPlayer(m, z, k)]
  BY <1>1, <1>3 DEF init_session, IsWorld, WorldFields
<1>5. Walled(w, z)
  <2>1. IsMap(w.map, z)
    BY <1>3, <1>4 DEF IsMap, TileType
  <2>2. IsPending(w.pending, z)
    BY <1>4 DEF IsPending, Drops
  <2> QED
    BY <1>4, <2>1, <2>2 DEF Walled
<1>6. Armed(w.bombs, z) /\ Burning(w.explodes, z)
  <2>1. IsQueue(<<>>) /\ IsFires(<<>>) /\ Len(<<>>) = 0 /\ 1 .. 0 = {}
    BY DEF IsQueue, IsFires, IsList
  <2> QED
    BY <1>4, <2>1, Times DEF Armed, Burning
<1>7. ASSUME NEW k \in 1 .. lobby PROVE InPlay(NewPlayer(m, z, k), z)
  <2>1. PICK t : t = SpawnTile(m, z, k)
    OBVIOUS
  <2>2. Inner(t, z)
    BY <1>2, <2>1, SpawnInside
  <2>3. <<3 * t[1], 3 * t[2]>> \in Room(z)
    BY <1>2, <2>2 DEF Inner, Room
  <2>4. PICK p : p = [alive |-> TRUE, pos |-> <<3 * t[1], 3 * t[2]>>, dx |-> 0, dy |-> 0,
                      is_moving |-> FALSE, num_bombs |-> 2, remaining |-> 2, num_fires |-> 1,
                      replenish |-> 0]
    OBVIOUS
  <2>5. NewPlayer(m, z, k) = p
    BY <2>1, <2>4, Zenon DEF NewPlayer
  <2>6. /\ p = [f \in PlayerFields |-> p[f]] /\ p.alive = TRUE /\ p.is_moving = FALSE
        /\ p.pos = <<3 * t[1], 3 * t[2]>> /\ p.dx = 0 /\ p.dy = 0 /\ p.num_bombs = 2
        /\ p.remaining = 2 /\ p.num_fires = 1 /\ p.replenish = 0
    BY <2>4 DEF PlayerFields
  <2>7. InPlay(p, z)
    <3>1. p.alive \in BOOLEAN /\ p.is_moving \in BOOLEAN
      BY <2>6, Zenon
    <3>2. /\ p.dx \in -1 .. 1 /\ p.dy \in -1 .. 1 /\ p.num_bombs \in Nat /\ p.remaining \in Nat
          /\ p.num_fires \in Nat /\ p.replenish \in 0 .. ReplenishTime
      BY <2>6, Times
    <3> QED
      BY <2>3, <2>6, <3>1, <3>2 DEF InPlay
  <2> QED
    BY <2>5, <2>7
<1>8. Manned(w.players, z)
  BY <1>4, <1>7 DEF Manned
<1> QED
  BY <1>1, <1>5, <1>6, <1>8 DEF Arena

-----------------------------------------------------------------------------
(* The players move and pick up inside the wall *)

LEMMA ArenaParts ==
  ASSUME NEW w, NEW z, Arena(w, z)
  PROVE  /\ IsWorld(w) /\ IsMap(w.map, z) /\ IsPending(w.pending, z)
         /\ Armed(w.bombs, z) /\ Burning(w.explodes, z) /\ Manned(w.players, z)
  BY DEF Arena, Walled

LEMMA ArenaOf ==
  ASSUME NEW w, NEW z, IsWorld(w), IsMap(w.map, z), IsPending(w.pending, z),
         Armed(w.bombs, z), Burning(w.explodes, z), Manned(w.players, z)
  PROVE  Arena(w, z)
  BY DEF Arena, Walled

LEMMA TeamAssign ==
  ASSUME NEW z, NEW ps, Manned(ps, z), NEW k, NEW p, k \in 1 .. lobby => InPlay(p, z)
  PROVE  Manned([ps EXCEPT ![k] = p], z)
<1>1. PICK r : r = [ps EXCEPT ![k] = p]
  OBVIOUS
<1>2. /\ r = [j \in 1 .. lobby |-> r[j]]
      /\ \A j \in 1 .. lobby : r[j] = IF j = k THEN p ELSE ps[j]
  BY <1>1 DEF Manned
<1> QED
  BY <1>1, <1>2 DEF Manned

LEMMA UpdateInPlay ==
  ASSUME NEW z, NEW p, InPlay(p, z)
  PROVE  InPlay(inventory_update(p), z)
<1> DEFINE a == [p EXCEPT !.replenish = @ - 1]
           b == [p EXCEPT !.remaining = @ + 1, !.replenish = ReplenishTime]
<1>1. p = [f \in PlayerFields |-> p[f]]
  BY DEF InPlay
<1>2. p.remaining \in Nat /\ p.replenish \in 0 .. ReplenishTime /\ p.num_bombs \in Nat
  BY DEF InPlay
<1>3. /\ a = [f \in PlayerFields |-> a[f]] /\ a.replenish = p.replenish - 1
      /\ a.alive = p.alive /\ a.is_moving = p.is_moving /\ a.pos = p.pos /\ a.dx = p.dx
      /\ a.dy = p.dy /\ a.num_bombs = p.num_bombs /\ a.remaining = p.remaining
      /\ a.num_fires = p.num_fires
  BY <1>1 DEF PlayerFields
<1>4. /\ b = [f \in PlayerFields |-> b[f]] /\ b.replenish = ReplenishTime
      /\ b.alive = p.alive /\ b.is_moving = p.is_moving /\ b.pos = p.pos /\ b.dx = p.dx
      /\ b.dy = p.dy /\ b.num_bombs = p.num_bombs /\ b.remaining = p.remaining + 1
      /\ b.num_fires = p.num_fires
  BY <1>1 DEF PlayerFields
<1>5. \/ inventory_update(p) = p
      \/ p.replenish - 1 > 0 /\ inventory_update(p) = a
      \/ inventory_update(p) = b
  BY <1>2 DEF inventory_update
<1> HIDE DEF a, b
<1>6. CASE p.replenish - 1 > 0 /\ inventory_update(p) = a
  <2>1. a.replenish \in 0 .. ReplenishTime
    BY <1>2, <1>3, <1>6, Times
  <2>2. InPlay(a, z)
    BY <1>3, <2>1 DEF InPlay
  <2> QED
    BY <1>6, <2>2
<1>7. CASE inventory_update(p) = b
  <2>1. b.replenish \in 0 .. ReplenishTime /\ b.remaining \in Nat
    BY <1>2, <1>4, Times
  <2>2. InPlay(b, z)
    BY <1>4, <2>1 DEF InPlay
  <2> QED
    BY <1>7, <2>2
<1> QED
  BY <1>5, <1>6, <1>7

LEMMA MoveArena ==
  ASSUME NEW z \in Nat, z >= 3, NEW w, Arena(w, z), NEW k \in 1 .. lobby
  PROVE  Arena(MovePlayer(w, k), z)
<1>0. /\ IsWorld(w) /\ IsMap(w.map, z) /\ IsPending(w.pending, z)
      /\ Armed(w.bombs, z) /\ Burning(w.explodes, z) /\ Manned(w.players, z)
  BY ArenaParts
<1>1. PICK p : p = w.players[k]
  OBVIOUS
<1>2. PICK moving \in BOOLEAN : moving = (p.dx # 0 \/ p.dy # 0)
  OBVIOUS
<1>3. PICK at : at = IF moving THEN move_box(w.map, p.pos, p.dx, -p.dy) ELSE p.pos
  OBVIOUS
<1>4. PICK under : under = {t \in get_all_overlapping_tiles(at) : t \in DOMAIN w.map}
  OBVIOUS
<1>5. PICK fires, extra : /\ fires = {t \in under : w.map[t] = "POWERUP_FIRE"}
                          /\ extra = {t \in under : w.map[t] = "POWERUP_BOMB"}
  OBVIOUS
<1>6. PICK got : got = [p EXCEPT !.pos = at, !.is_moving = moving,
                                 !.num_fires = @ + Cardinality(fires),
                                 !.num_bombs = @ + Cardinality(extra),
                                 !.remaining = @ + Cardinality(extra)]
  OBVIOUS
<1>7. PICK v : v = [w EXCEPT !.players[k] = inventory_update(got),
                             !.map = [t \in DOMAIN @ |-> IF t \in fires \cup extra
                                                         THEN "EMPTY" ELSE @[t]],
                             !.dirty = @ \/ moving \/ p.is_moving # moving
                                         \/ fires \cup extra # {}]
  OBVIOUS
<1>8. MovePlayer(w, k) = IF ~p.alive THEN w ELSE v
  BY <1>1, <1>2, <1>3, <1>4, <1>5, <1>6, <1>7, Zenon DEF MovePlayer
<1>9. /\ IsWorld(v) /\ v.bombs = w.bombs /\ v.explodes = w.explodes /\ v.pending = w.pending
      /\ v.map = [t \in DOMAIN w.map |-> IF t \in fires \cup extra THEN "EMPTY" ELSE w.map[t]]
      /\ v.players = [w.players EXCEPT ![k] = inventory_update(got)]
  BY <1>0, <1>7 DEF IsWorld, WorldFields
<1>10. InPlay(p, z)
  BY <1>0, <1>1 DEF Manned
<1>11. at \in Room(z)
  <2>1. p.pos \in Room(z) /\ p.dx \in -1 .. 1 /\ p.dy \in -1 .. 1
    BY <1>10 DEF InPlay
  <2>2. PICK e \in -1 .. 1 : e = -p.dy
    BY <2>1
  <2>3. move_box(w.map, p.pos, p.dx, e) \in Room(z)
    BY <1>0, <2>1, MoveInside
  <2> QED
    BY <1>3, <2>1, <2>2, <2>3
<1>12. PICK a \in Nat, b \in Nat : a = Cardinality(fires) /\ b = Cardinality(extra)
  <2>1. fires \subseteq get_all_overlapping_tiles(at) /\ extra \subseteq get_all_overlapping_tiles(at)
    BY <1>4, <1>5
  <2> QED
    BY <2>1, PickupsCounted
<1>13. InPlay(got, z)
  <2>1. p = [f \in PlayerFields |-> p[f]]
    BY <1>10 DEF InPlay
  <2>2. /\ got = [f \in PlayerFields |-> got[f]] /\ got.pos = at /\ got.is_moving = moving
        /\ got.num_fires = p.num_fires + a /\ got.num_bombs = p.num_bombs + b
        /\ got.remaining = p.remaining + b /\ got.alive = p.alive /\ got.dx = p.dx
        /\ got.dy = p.dy /\ got.replenish = p.replenish
    BY <1>6, <1>12, <2>1 DEF PlayerFields
  <2>3. p.num_fires \in Nat /\ p.num_bombs \in Nat /\ p.remaining \in Nat
    BY <1>10 DEF InPlay
  <2>4. got.num_fires \in Nat /\ got.num_bombs \in Nat /\ got.remaining \in Nat
    BY <2>2, <2>3
  <2>5. got.is_moving \in BOOLEAN /\ got.alive \in BOOLEAN
    BY <1>10, <2>2, Zenon DEF InPlay
  <2> QED
    BY <1>10, <1>11, <2>2, <2>4, <2>5 DEF InPlay
<1>14. Manned(v.players, z)
  <2>1. PICK g : g = inventory_update(got)
    OBVIOUS
  <2>2. InPlay(g, z)
    BY <1>13, <2>1, UpdateInPlay
  <2>3. v.players = [w.players EXCEPT ![k] = g]
    BY <1>9, <2>1
  <2>4. PICK ps : ps = w.players
    OBVIOUS
  <2>5. Manned(ps, z)
    BY <1>0, <2>4
  <2>6. Manned([ps EXCEPT ![k] = g], z)
    BY ONLY <2>2, <2>5, TeamAssign
  <2> QED
    BY <2>3, <2>4, <2>6
<1>15. IsMap(v.map, z)
  <2>1. DOMAIN w.map = Grid(z)
    BY <1>0 DEF IsMap
  <2>2. \A t \in Grid(z) : v.map[t] = IF t \in fires \cup extra THEN "EMPTY" ELSE w.map[t]
    BY <1>9, <2>1
  <2>3. \A t \in fires \cup extra : w.map[t] # "WALL"
    BY <1>5
  <2>4. v.map = [t \in Grid(z) |-> v.map[t]]
    BY <1>9, <2>1
  <2> QED
    BY <1>0, <2>2, <2>3, <2>4 DEF IsMap, TileType
<1>16. Arena(v, z)
  BY <1>0, <1>9, <1>14, <1>15, ArenaOf
<1> QED
  BY <1>8, <1>16

LEMMA MovementArena ==
  ASSUME NEW z \in Nat, z >= 3, NEW w, Arena(w, z), lobby \in Nat
  PROVE  Arena(apply_movement_and_pickups(w), z)
<1>1. PICK f : /\ f[0] = w /\ apply_movement_and_pickups(w) = f[lobby]
               /\ \A n \in Nat : n + 1 <= lobby => f[n + 1] = MovePlayer(f[n], n + 1)
  BY MoveLoop
<1> DEFINE T == {n \in Nat : n <= lobby => Arena(f[n], z)}
<1>2. 0 \in T
  BY <1>1
<1>3. ASSUME NEW n \in Nat, n \in T PROVE n + 1 \in T
  <2> SUFFICES ASSUME n + 1 <= lobby PROVE Arena(f[n + 1], z)
    OBVIOUS
  <2>1. n <= lobby /\ n + 1 \in 1 .. lobby
    OBVIOUS
  <2>2. f[n + 1] = MovePlayer(f[n], n + 1)
    BY <1>1
  <2>3. Arena(f[n], z)
    BY <1>3, <2>1
  <2> QED
    BY <2>1, <2>2, <2>3, MoveArena
<1>4. Arena(f[lobby], z)
  <2> HIDE DEF T
  <2>1. Nat \subseteq T
    BY <1>2, <1>3, SetInduction
  <2> QED
    BY <2>1 DEF T
<1> QED
  BY <1>1, <1>4

LEMMA TurnArena ==
  ASSUME NEW z, NEW w, Arena(w, z), NEW k \in 1 .. lobby, NEW d \in Directions
  PROVE  Arena(apply_move(w, k, d), z)
<1>0. /\ IsWorld(w) /\ IsMap(w.map, z) /\ IsPending(w.pending, z)
      /\ Armed(w.bombs, z) /\ Burning(w.explodes, z) /\ Manned(w.players, z)
  BY ArenaParts
<1>1. PICK p, g : p = w.players[k] /\ g = [p EXCEPT !.dx = d[1], !.dy = d[2]]
  OBVIOUS
<1>2. PICK v : v = [w EXCEPT !.players[k].dx = d[1], !.players[k].dy = d[2]]
  OBVIOUS
<1>3. /\ IsWorld(v) /\ v.bombs = w.bombs /\ v.explodes = w.explodes /\ v.pending = w.pending
      /\ v.map = w.map /\ v.players = [w.players EXCEPT ![k] = g]
  BY <1>0, <1>1, <1>2 DEF IsWorld, WorldFields, Manned
<1>4. InPlay(p, z)
  BY <1>0, <1>1 DEF Manned
<1>5. InPlay(g, z)
  <2>1. p = [f \in PlayerFields |-> p[f]]
    BY <1>4 DEF InPlay
  <2>2. /\ g = [f \in PlayerFields |-> g[f]] /\ g.dx = d[1] /\ g.dy = d[2] /\ g.alive = p.alive
        /\ g.is_moving = p.is_moving /\ g.pos = p.pos /\ g.num_bombs = p.num_bombs
        /\ g.remaining = p.remaining /\ g.num_fires = p.num_fires /\ g.replenish = p.replenish
    BY <1>1, <2>1 DEF PlayerFields
  <2>3. d[1] \in -1 .. 1 /\ d[2] \in -1 .. 1
    BY ArenaAssumption
  <2> QED
    BY <1>4, <2>2, <2>3 DEF InPlay
<1>6. Manned(v.players, z)
  <2>1. PICK ps : ps = w.players
    OBVIOUS
  <2>2. Manned(ps, z)
    BY <1>0, <2>1
  <2>3. Manned([ps EXCEPT ![k] = g], z)
    BY ONLY <1>5, <2>2, TeamAssign
  <2> QED
    BY <1>3, <2>1, <2>3
<1>7. Arena(v, z)
  BY <1>0, <1>3, <1>6, ArenaOf
<1>8. apply_move(w, k, d) = v \/ apply_move(w, k, d) = w
  BY <1>2 DEF apply_move
<1> QED
  BY <1>7, <1>8

LEMMA ConsumeInPlay ==
  ASSUME NEW z, NEW p, InPlay(p, z), p.remaining > 0
  PROVE  InPlay(consume_bomb(p), z)
<1>1. PICK r : r = consume_bomb(p)
  OBVIOUS
<1>2. p = [f \in PlayerFields |-> p[f]]
  BY DEF InPlay
<1>3. /\ r = [f \in PlayerFields |-> r[f]] /\ r.remaining = p.remaining - 1
      /\ r.replenish = ReplenishTime /\ r.alive = p.alive /\ r.is_moving = p.is_moving
      /\ r.pos = p.pos /\ r.dx = p.dx /\ r.dy = p.dy /\ r.num_bombs = p.num_bombs
      /\ r.num_fires = p.num_fires
  BY <1>1, <1>2 DEF consume_bomb, PlayerFields
<1>4. r.remaining \in Nat /\ r.replenish \in 0 .. ReplenishTime
  BY <1>3, Times DEF InPlay
<1>5. InPlay(r, z)
  BY <1>3, <1>4 DEF InPlay
<1> QED
  BY <1>1, <1>5

\* A bomb lies under the centre of a box, so never in the wall
LEMMA PlaceArena ==
  ASSUME NEW z \in Nat, z >= 3, NEW w, Arena(w, z), NEW k \in 1 .. lobby
  PROVE  Arena(apply_bomb_place(w, k), z)
<1>0. /\ IsWorld(w) /\ IsMap(w.map, z) /\ IsPending(w.pending, z)
      /\ Armed(w.bombs, z) /\ Burning(w.explodes, z) /\ Manned(w.players, z)
  BY ArenaParts
<1>1. PICK p, t : p = w.players[k] /\ t = get_center_box(p.pos)
  OBVIOUS
<1>2. PICK b : b = [pos |-> t, spread |-> p.num_fires, timer |-> BombTime, by |-> k]
  OBVIOUS
<1>3. PICK v : v = [w EXCEPT !.map[t] = "BOMB",
                             !.bombs = IF Len(@) < QueueSize THEN Append(@, b) ELSE @,
                             !.players[k] = consume_bomb(@)]
  OBVIOUS
<1>4. InPlay(p, z)
  BY <1>0, <1>1 DEF Manned
<1>5. \/ apply_bomb_place(w, k) = w
      \/ apply_bomb_place(w, k) = v /\ ~(p.remaining <= 0)
  BY <1>1, <1>2, <1>3 DEF apply_bomb_place, place_bomb
<1> SUFFICES ASSUME ~(p.remaining <= 0) PROVE Arena(v, z)
  BY <1>5
<1>6. Inner(t, z)
  <2>1. PICK x \in 3 .. 3 * (z - 2), y \in 3 .. 3 * (z - 2) : p.pos = <<x, y>>
    BY <1>4 DEF InPlay, Room
  <2>2. Centre(x) \in 1 .. z - 2 /\ Centre(y) \in 1 .. z - 2
    BY InRange
  <2>3. t = <<Centre(x), Centre(y)>>
    BY <1>1, <2>1 DEF get_center_box
  <2> QED
    BY <2>2, <2>3 DEF Inner
<1>7. t \in Grid(z) /\ ~OnBorder(t, z)
  BY <1>6, InnerTile
<1>8. PICK q : q = IF Len(w.bombs) < QueueSize THEN Append(w.bombs, b) ELSE w.bombs
  OBVIOUS
<1>9. PICK g, ps : g = consume_bomb(p) /\ ps = w.players
  OBVIOUS
<1>10. /\ IsWorld(v) /\ v.bombs = q /\ v.explodes = w.explodes /\ v.pending = w.pending
       /\ v.map = [w.map EXCEPT ![t] = "BOMB"] /\ v.players = [ps EXCEPT ![k] = g]
  BY <1>0, <1>1, <1>3, <1>8, <1>9 DEF IsWorld, WorldFields
<1>11. IsMap(v.map, z)
  <2>1. /\ v.map = [u \in Grid(z) |-> v.map[u]]
        /\ \A u \in Grid(z) : v.map[u] = IF u = t THEN "BOMB" ELSE w.map[u]
    BY <1>0, <1>10 DEF IsMap
  <2> QED
    BY <1>0, <1>7, <2>1 DEF IsMap, TileType
<1>12. Armed(q, z)
  <2>1. IsQueue(w.bombs) /\ Len(w.bombs) \in Nat /\ Len(w.bombs) <= QueueSize
    BY <1>0, QueueLen DEF Armed
  <2>2. IsBomb(b) /\ b.pos = t /\ b.spread = p.num_fires /\ b.timer = BombTime
    BY <1>2, Times DEF IsBomb, BombFields
  <2>3. b.spread \in Nat /\ b.timer \in 1 .. BombTime
    BY <1>4, <2>2, Times DEF InPlay
  <2>4. CASE Len(w.bombs) < QueueSize
    <3>1. /\ IsQueue(q) /\ Len(q) = Len(w.bombs) + 1 /\ q[Len(w.bombs) + 1] = b
          /\ \A i \in 1 .. Len(w.bombs) : q[i] = w.bombs[i]
      BY <1>8, <2>1, <2>2, <2>4, AppendBomb
    <3>2. Len(q) <= QueueSize
      BY <2>1, <2>4, <3>1, Times
    <3>3. ASSUME NEW i \in 1 .. Len(q)
          PROVE  Inner(q[i].pos, z) /\ q[i].spread \in Nat /\ q[i].timer \in 1 .. BombTime
      <4>1. q[i] = b \/ (i \in 1 .. Len(w.bombs) /\ q[i] = w.bombs[i])
        BY <2>1, <3>1
      <4> QED
        BY <1>0, <1>6, <2>2, <2>3, <4>1 DEF Armed
    <3> QED
      BY <3>1, <3>2, <3>3 DEF Armed
  <2> QED
    BY <1>0, <1>8, <2>4
<1>13. Manned(v.players, z)
  <2>1. InPlay(g, z)
    <3>1. p.remaining > 0
      BY <1>4 DEF InPlay
    <3> QED
      BY <1>4, <1>9, <3>1, ConsumeInPlay
  <2>2. Manned(ps, z)
    BY <1>0, <1>9
  <2>3. Manned([ps EXCEPT ![k] = g], z)
    BY ONLY <2>1, <2>2, TeamAssign
  <2> QED
    BY <1>10, <2>3
<1> QED
  BY <1>0, <1>10, <1>11, <1>12, <1>13, ArenaOf

-----------------------------------------------------------------------------
(* Blasts stop at the wall *)

LEMMA SpreadFree ==
  ASSUME NEW m, NEW b, b.spread \in Nat
  PROVE  \A t \in Spread(m, b) : m[t] # "WALL"
<1> SUFFICES ASSUME NEW t \in Spread(m, b), m[t] = "WALL" PROVE FALSE
  OBVIOUS
<1>1. PICK d : t \in Ray(m, b.pos, d, b.spread)
  BY DEF Spread
<1>2. PICK j \in 1 .. b.spread :
         /\ t = <<b.pos[1] + j * d[1], b.pos[2] + j * d[2]>>
         /\ \A l \in 1 .. j : ~(m[<<b.pos[1] + l * d[1], b.pos[2] + l * d[2]>>] = "WALL")
  BY <1>1 DEF Ray
<1>3. j \in 1 .. j
  OBVIOUS
<1> QED
  BY <1>2, <1>3

\* What a fire of the right age adds to the burning ones
LEMMA BurningMore ==
  ASSUME NEW z, NEW q, Burning(q, z), Len(q) < QueueSize, NEW e, IsFire(e),
         Free(e.spread \cup {e.center}, z), e.timer \in 1 .. ExplodeTime
  PROVE  Burning(Append(q, e), z)
<1>1. PICK r : r = Append(q, e)
  OBVIOUS
<1>2. IsFires(q) /\ Len(q) \in Nat
  BY FiresLen DEF Burning
<1>3. /\ IsFires(r) /\ Len(r) = Len(q) + 1 /\ r[Len(q) + 1] = e
      /\ \A i \in 1 .. Len(q) : r[i] = q[i]
  BY <1>1, <1>2, FiresAppend
<1>4. Len(r) <= QueueSize
  BY <1>2, <1>3, Times
<1>5. ASSUME NEW i \in 1 .. Len(r)
      PROVE  Free(r[i].spread \cup {r[i].center}, z) /\ r[i].timer \in 1 .. ExplodeTime
  <2>1. r[i] = e \/ (i \in 1 .. Len(q) /\ r[i] = q[i])
    BY <1>2, <1>3
  <2> QED
    BY <2>1 DEF Burning
<1>6. Burning(r, z)
  BY <1>3, <1>4, <1>5 DEF Burning
<1> QED
  BY <1>1, <1>6

LEMMA BlastArena ==
  ASSUME NEW z \in Nat, NEW w, Arena(w, z), NEW bomb, Inner(bomb.pos, z), bomb.spread \in Nat,
         NEW drop, \A t \in Grid(z) : drop[t] \in Drops,
         NEW v, v = trigger_explosion(w, bomb, drop)
  PROVE  Arena(v, z)
<1>0. /\ IsWorld(w) /\ IsMap(w.map, z) /\ IsPending(w.pending, z)
      /\ Armed(w.bombs, z) /\ Burning(w.explodes, z) /\ Manned(w.players, z)
  BY ArenaParts
<1>1. PICK tiles, e : /\ tiles = Spread(w.map, bomb)
                      /\ e = [center |-> bomb.pos, spread |-> tiles, timer |-> ExplodeTime]
  OBVIOUS
<1>2. PICK h : h = handle_spread(w, tiles, drop)
  OBVIOUS
<1>3. /\ DOMAIN w.map = Grid(z) /\ DOMAIN w.pending = Grid(z)
      /\ \A t \in Grid(z) : w.map[t] \in TileType \ {"PLAYER"} /\ w.pending[t] \in Drops
      /\ \A t \in Grid(z) : OnBorder(t, z) => w.map[t] = "WALL"
  BY <1>0 DEF IsMap, IsPending
<1>4. /\ IsWorld(h) /\ h.bombs = w.bombs /\ h.explodes = w.explodes /\ h.players = w.players
      /\ h.map = [t \in Grid(z) |-> IF t \in tiles THEN "EXPLOSION" ELSE w.map[t]]
      /\ h.pending = [t \in Grid(z) |->
                          IF t \in tiles /\ w.map[t] = "BREAKABLE" /\ drop[t] # "EMPTY"
                          THEN drop[t] ELSE w.pending[t]]
  BY <1>0, <1>2, <1>3 DEF handle_spread, IsWorld, WorldFields
<1>5. PICK q : q = IF Len(w.explodes) < QueueSize THEN Append(w.explodes, e) ELSE w.explodes
  OBVIOUS
<1>6. v = [h EXCEPT !.explodes = q]
  BY <1>1, <1>2, <1>4, <1>5 DEF trigger_explosion
<1>7. /\ IsWorld(v) /\ v.bombs = w.bombs /\ v.explodes = q /\ v.map = h.map
      /\ v.pending = h.pending /\ v.players = w.players
  BY <1>4, <1>6 DEF IsWorld, WorldFields
<1>8. \A t \in tiles : w.map[t] # "WALL"
  <2>1. PICK m : m = w.map
    OBVIOUS
  <2>2. \A t \in Spread(m, bomb) : m[t] # "WALL"
    BY SpreadFree
  <2> QED
    BY <1>1, <2>1, <2>2
<1>9. IsMap(v.map, z)
  <2>1. \A t \in Grid(z) : v.map[t] = IF t \in tiles THEN "EXPLOSION" ELSE w.map[t]
    BY <1>4, <1>7
  <2>2. v.map = [t \in Grid(z) |-> v.map[t]]
    BY <1>4, <1>7
  <2> QED
    BY <1>3, <1>8, <2>1, <2>2 DEF IsMap, TileType
<1>10. IsPending(v.pending, z)
  <2>1. \A t \in Grid(z) : v.pending[t] \in {drop[t], w.pending[t]}
    BY <1>4, <1>7
  <2>2. v.pending = [t \in Grid(z) |-> v.pending[t]]
    BY <1>4, <1>7
  <2> QED
    BY <1>3, <2>1, <2>2 DEF IsPending
<1>11. Burning(q, z)
  <2>1. IsFire(e) /\ e.center = bomb.pos /\ e.spread = tiles /\ e.timer = ExplodeTime
    BY <1>1 DEF IsFire, FireFields
  <2>2. Free(e.spread \cup {e.center}, z)
    <3>1. ~OnBorder(bomb.pos, z)
      BY InnerTile
    <3>2. \A t \in Grid(z) : t \in tiles => ~OnBorder(t, z)
      BY <1>3, <1>8
    <3> QED
      BY <2>1, <3>1, <3>2 DEF Free
  <2>3. e.timer \in 1 .. ExplodeTime
    BY <2>1, ArenaAssumption
  <2>4. PICK x : x = w.explodes
    OBVIOUS
  <2>5. Burning(x, z)
    BY <1>0, <2>4
  <2>6. CASE Len(x) < QueueSize
    <3>1. Burning(Append(x, e), z)
      BY ONLY <2>1, <2>2, <2>3, <2>5, <2>6, BurningMore
    <3> QED
      BY <1>5, <2>4, <2>6, <3>1
  <2> QED
    BY <1>5, <2>4, <2>5, <2>6
<1> QED
  BY <1>0, <1>7, <1>9, <1>10, <1>11, ArenaOf

\* One turn of tick_bombs
LEMMA BombTurnArena ==
  ASSUME NEW z \in Nat, NEW s, Arena(s.w, z), s.i \in 1 .. Len(s.w.bombs),
         NEW drop, \A t \in Grid(z) : drop[t] \in Drops, NEW v, v = BombTurn(s, drop).w
  PROVE  Arena(v, z)
<1>1. PICK w, i, o, q : w = s.w /\ i = s.i /\ o = w.bombs /\ q = Burnt(o, i)
  OBVIOUS
<1>2. /\ IsWorld(w) /\ IsMap(w.map, z) /\ IsPending(w.pending, z)
      /\ Armed(o, z) /\ Burning(w.explodes, z) /\ Manned(w.players, z)
  BY <1>1, ArenaParts
<1>3. /\ IsQueue(o) /\ Len(o) \in Nat /\ Len(o) <= QueueSize /\ i \in 1 .. Len(o)
      /\ \A j \in 1 .. Len(o) : /\ Inner(o[j].pos, z) /\ o[j].spread \in Nat
                                /\ o[j].timer \in 1 .. BombTime
  BY <1>1, <1>2, QueueLen DEF Armed
<1>4. /\ IsQueue(q) /\ Len(q) = Len(o) /\ q[i].pos = o[i].pos /\ q[i].spread = o[i].spread
      /\ q[i].timer = o[i].timer - 1
      /\ \A j \in 1 .. Len(o) : j # i => q[j] = o[j]
  BY <1>1, <1>3, FuseBurns
<1>5. \A j \in 1 .. Len(o) : Inner(q[j].pos, z) /\ q[j].spread \in Nat
  BY <1>3, <1>4
<1>6. PICK left, cleared :
        /\ left = Cut(q, i) /\ cleared = Disarmed(w, q, i)
        /\ v = IF q[i].timer > 0 THEN [w EXCEPT !.bombs = q]
                                 ELSE trigger_explosion(cleared, q[Len(q)], drop)
  <2>1. w = s.w /\ i = s.i /\ q = Burnt(w.bombs, i) /\ v = BombTurn(s, drop).w
    BY <1>1
  <2> QED
    <3>1. v = IF q[i].timer > 0 THEN [w EXCEPT !.bombs = q]
              ELSE trigger_explosion(Disarmed(w, q, i), q[Len(q)], drop)
      BY ONLY <2>1, BombTurnWorld
    <3> QED
      BY ONLY <3>1
<1>7. CASE q[i].timer > 0
  <2>1. /\ IsWorld(v) /\ v.bombs = q /\ v.explodes = w.explodes /\ v.map = w.map
        /\ v.pending = w.pending /\ v.players = w.players
    BY <1>2, <1>6, <1>7 DEF IsWorld, WorldFields
  <2>2. \A j \in 1 .. Len(q) : q[j].timer \in 1 .. BombTime
    <3>1. q[i].timer \in 1 .. BombTime
      BY <1>3, <1>4, <1>7, Times
    <3> QED
      BY <1>3, <1>4, <3>1
  <2>3. Armed(q, z)
    BY <1>3, <1>4, <1>5, <2>2 DEF Armed
  <2> QED
    BY <1>2, <2>1, <2>3, ArenaOf
<1>8. CASE ~(q[i].timer > 0)
  <2>1. /\ IsQueue(left) /\ Len(left) = Len(q) - 1
        /\ \A j \in 1 .. (Len(q) - 1) : left[j] = IF j = i THEN q[Len(q)] ELSE q[j]
    <3>1. IsQueue(q) /\ i \in 1 .. Len(q) /\ left = SubSeq([q EXCEPT ![i] = q[Len(q)]], 1, Len(q) - 1)
      BY ONLY <1>3, <1>4, <1>6 DEF Cut
    <3> QED
      BY ONLY <3>1, SwapRemove
  <2>2. Armed(left, z)
    <3>1. Len(left) <= QueueSize
      BY <1>3, <1>4, <2>1, Times
    <3>2. ASSUME NEW j \in 1 .. Len(left) PROVE \E l \in 1 .. Len(o) : left[j] = o[l]
      <4>1. j \in 1 .. (Len(o) - 1) /\ j \in 1 .. Len(o) /\ Len(o) \in 1 .. Len(o)
        BY <1>3, <1>4, <2>1
      <4>2. CASE j = i
        <5>1. Len(o) # i
          BY <1>3, <4>1, <4>2
        <5>2. left[j] = o[Len(o)]
          BY <1>4, <2>1, <4>1, <4>2, <5>1
        <5> QED
          BY <4>1, <5>2
      <4>3. CASE j # i
        <5>1. left[j] = o[j]
          BY <1>4, <2>1, <4>1, <4>3
        <5> QED
          BY <4>1, <5>1
      <4> QED
        BY <4>2, <4>3
    <3> QED
      BY <1>3, <2>1, <3>1, <3>2 DEF Armed
  <2>3. /\ IsWorld(cleared) /\ cleared.bombs = left /\ cleared.explodes = w.explodes
        /\ cleared.pending = w.pending /\ cleared.map = [w.map EXCEPT ![q[i].pos] = "EMPTY"]
        /\ cleared.players = w.players
    BY <1>2, <1>6 DEF IsWorld, WorldFields, Disarmed
  <2>4. IsMap(cleared.map, z)
    <3>1. /\ cleared.map = [t \in Grid(z) |-> cleared.map[t]]
          /\ \A t \in Grid(z) : cleared.map[t] = IF t = q[i].pos THEN "EMPTY" ELSE w.map[t]
      BY <1>2, <2>3 DEF IsMap
    <3>2. ~OnBorder(q[i].pos, z)
      BY <1>3, <1>5, InnerTile
    <3> QED
      BY <1>2, <3>1, <3>2 DEF IsMap, TileType
  <2>5. Arena(cleared, z)
    BY <1>2, <2>2, <2>3, <2>4, ArenaOf
  <2>6. PICK last : last = q[Len(q)]
    OBVIOUS
  <2>7. Inner(last.pos, z) /\ last.spread \in Nat
    <3>1. Len(q) \in 1 .. Len(o)
      BY <1>3, <1>4
    <3> QED
      BY <1>5, <2>6, <3>1
  <2>8. v = trigger_explosion(cleared, last, drop)
    BY <1>6, <1>8, <2>6
  <2> QED
    BY <2>5, <2>7, <2>8, BlastArena
<1> QED
  BY <1>7, <1>8

LEMMA BombsArena ==
  ASSUME NEW z \in Nat, NEW w, Arena(w, z), NEW drop, \A t \in Grid(z) : drop[t] \in Drops
  PROVE  Arena(tick_bombs(w, drop), z)
<1>0. /\ IsWorld(w) /\ IsQueue(w.bombs) /\ IsList(w.explodes) /\ Len(w.bombs) \in Nat
  BY ArenaParts, QueueLen, FiresLen DEF Armed, Burning
<1>1. PICK L : L = Len(w.bombs)
  OBVIOUS
<1>2. PICK start : start = [i |-> 1, w |-> w]
  OBVIOUS
<1>3. PICK f : /\ f[0] = start /\ tick_bombs(w, drop) = f[L].w
               /\ \A n \in Nat : n + 1 <= L => f[n + 1] = BombTurn(f[n], drop)
  BY <1>0, <1>1, <1>2, BombLoop
<1> DEFINE T == {n \in Nat : n <= L => Turned(w, f[n], n) /\ Arena(f[n].w, z)}
<1>4. 0 \in T
  <2>1. Walked(w.bombs, w.bombs, 1, 0)
    <3>1. 1 \in 1 .. (0 + 1) /\ L = L - 0 + (1 - 1)
      BY <1>0, <1>1
    <3>2. \A j \in 1 .. L : ~(j < 1) /\ Waiting(w.bombs, w.bombs[j])
      BY <1>0, <1>1 DEF Waiting
    <3>3. \A k : Cardinality(Mine(w.bombs, k)) \in Nat
      BY <1>0, MineFinite
    <3> QED
      BY <1>0, <1>1, <3>1, <3>2, <3>3 DEF Walked
  <2>2. start.w = w /\ start.i = 1
    BY <1>2
  <2>3. Turned(w, start, 0)
    BY <1>0, <2>1, <2>2 DEF Turned
  <2> QED
    BY <1>3, <2>2, <2>3
<1>5. ASSUME NEW n \in Nat, n \in T PROVE n + 1 \in T
  <2> SUFFICES ASSUME n + 1 <= L PROVE Turned(w, f[n + 1], n + 1) /\ Arena(f[n + 1].w, z)
    OBVIOUS
  <2>1. n < L /\ n <= L
    BY <1>0, <1>1
  <2>2. PICK s, v : s = f[n] /\ v = BombTurn(s, drop).w
    OBVIOUS
  <2>3. f[n + 1] = BombTurn(s, drop)
    BY <1>3, <2>2
  <2>4. Turned(w, s, n) /\ Arena(s.w, z)
    BY <1>5, <2>1, <2>2
  <2>5. Turned(w, BombTurn(s, drop), n + 1)
    BY <1>0, <1>1, <2>1, <2>4, TurnNext
  <2>6. PICK i, c : i = s.i /\ c = Len(s.w.bombs)
    OBVIOUS
  <2>7. i \in 1 .. (n + 1) /\ c = L - n + (i - 1) /\ L \in Nat /\ n < L
    BY <1>0, <1>1, <2>1, <2>4, <2>6 DEF Turned, Walked
  <2>8. i \in 1 .. c
    BY ONLY <2>7, n \in Nat
  <2>9. s.i \in 1 .. Len(s.w.bombs)
    BY ONLY <2>6, <2>8
  <2>10. Arena(v, z)
    BY <2>2, <2>4, <2>9, BombTurnArena
  <2> QED
    BY <2>2, <2>3, <2>5, <2>10
<1>6. Arena(f[L].w, z)
  <2> HIDE DEF T
  <2>1. Nat \subseteq T
    BY <1>4, <1>5, SetInduction
  <2> QED
    BY <1>0, <1>1, <2>1 DEF T
<1> HIDE DEF T
<1> QED
  BY <1>3, <1>6

\* One turn of tick_explosions: what it puts out is not part of the wall
LEMMA FireTurnArena ==
  ASSUME NEW z \in Nat, NEW s, Arena(s.w, z), s.i \in 1 .. Len(s.w.explodes),
         NEW r, r = ExplosionTurn(s)
  PROVE  /\ Arena(r.w, z)
         /\ \/ r.i = s.i + 1 /\ Len(r.w.explodes) = Len(s.w.explodes)
            \/ r.i = s.i /\ Len(r.w.explodes) = Len(s.w.explodes) - 1
<1>1. PICK w, i, o, q : w = s.w /\ i = s.i /\ o = w.explodes /\ q = [o EXCEPT ![i].timer = @ - 1]
  OBVIOUS
<1>2. /\ IsWorld(w) /\ IsMap(w.map, z) /\ IsPending(w.pending, z)
      /\ Armed(w.bombs, z) /\ Burning(o, z) /\ Manned(w.players, z)
  BY <1>1, ArenaParts
<1>3. /\ IsFires(o) /\ Len(o) \in Nat /\ Len(o) <= QueueSize /\ i \in 1 .. Len(o)
      /\ \A j \in 1 .. Len(o) : /\ Free(o[j].spread \cup {o[j].center}, z)
                                /\ o[j].timer \in 1 .. ExplodeTime
  BY <1>1, <1>2, FiresLen DEF Burning
<1>4. /\ IsFires(q) /\ Len(q) = Len(o)
      /\ \A j \in 1 .. Len(o) : q[j].spread = o[j].spread /\ q[j].center = o[j].center
      /\ q[i].timer = o[i].timer - 1
      /\ \A j \in 1 .. Len(o) : j # i => q[j] = o[j]
  BY <1>1, <1>3, FireBurns
<1>5. PICK tiles, left, out :
        /\ tiles = q[i].spread
        /\ left = SubSeq([q EXCEPT ![i] = q[Len(q)]], 1, Len(q) - 1)
        /\ out = [w EXCEPT
                    !.map = [t \in DOMAIN @ |-> IF t \in tiles \cup {q[i].center}
                                                THEN "EMPTY" ELSE @[t]],
                    !.explodes = left]
        /\ r = IF q[i].timer > 0 THEN [i |-> i + 1, w |-> [w EXCEPT !.explodes = q]]
                                 ELSE [i |-> i, w |-> spawn_pending_powerups(out, tiles)]
  BY <1>1 DEF ExplosionTurn
<1>6. CASE q[i].timer > 0
  <2>1. PICK v : v = [w EXCEPT !.explodes = q] /\ r = [i |-> i + 1, w |-> v]
    BY <1>5, <1>6
  <2>2. /\ IsWorld(v) /\ v.explodes = q /\ v.bombs = w.bombs /\ v.map = w.map
        /\ v.pending = w.pending /\ v.players = w.players
    BY <1>2, <2>1 DEF IsWorld, WorldFields
  <2>3. \A j \in 1 .. Len(q) : q[j].timer \in 1 .. ExplodeTime
    <3>1. ExplodeTime \in Nat
      BY ArenaAssumption
    <3>2. PICK a, b : a = o[i].timer /\ b = q[i].timer
      OBVIOUS
    <3>3. a \in 1 .. ExplodeTime /\ b = a - 1 /\ b > 0
      BY <1>3, <1>4, <1>6, <3>2
    <3>4. b \in 1 .. ExplodeTime
      BY ONLY <3>1, <3>3
    <3> QED
      BY <1>3, <1>4, <3>2, <3>4
  <2>4. Burning(q, z)
    BY <1>3, <1>4, <2>3 DEF Burning
  <2>5. Arena(v, z)
    BY <1>2, <2>2, <2>4, ArenaOf
  <2>6. r.w = v /\ r.i = i + 1
    BY ONLY <2>1
  <2> QED
    BY ONLY <1>1, <1>4, <2>2, <2>5, <2>6
<1>7. CASE ~(q[i].timer > 0)
  <2>1. PICK v : v = spawn_pending_powerups(out, tiles) /\ r = [i |-> i, w |-> v]
    BY <1>5, <1>7
  <2>2. /\ IsFires(left) /\ Len(left) = Len(q) - 1
        /\ \A j \in 1 .. (Len(q) - 1) : left[j] = IF j = i THEN q[Len(q)] ELSE q[j]
    <3>1. IsFires(q)
      BY ONLY <1>4
    <3>2. i \in 1 .. Len(q)
      BY ONLY <1>3, <1>4
    <3>3. left = Cut(q, i)
      BY ONLY <1>5 DEF Cut
    <3>4. Swapped(q, i, left)
      BY ONLY <3>1, <3>2, <3>3, FiresSwap
    <3> QED
      BY ONLY <3>4 DEF Swapped
  <2>3. Burning(left, z)
    <3>1. Len(left) <= QueueSize
      BY <1>3, <1>4, <2>2, Times
    <3>2. ASSUME NEW j \in 1 .. Len(left) PROVE \E l \in 1 .. Len(o) : left[j] = o[l]
      <4>1. j \in 1 .. (Len(o) - 1) /\ j \in 1 .. Len(o) /\ Len(o) \in 1 .. Len(o)
        BY <1>3, <1>4, <2>2
      <4>2. CASE j = i
        <5>1. Len(o) # i
          BY <1>3, <4>1, <4>2
        <5>2. left[j] = o[Len(o)]
          BY <1>4, <2>2, <4>1, <4>2, <5>1
        <5> QED
          BY <4>1, <5>2
      <4>3. CASE j # i
        <5>1. left[j] = o[j]
          BY <1>4, <2>2, <4>1, <4>3
        <5> QED
          BY <4>1, <5>1
      <4> QED
        BY <4>2, <4>3
    <3> QED
      BY <1>3, <2>2, <3>1, <3>2 DEF Burning
  <2>4. PICK gone : gone = tiles \cup {q[i].center}
    OBVIOUS
  <2>5. Free(gone, z) /\ tiles \subseteq gone
    BY <1>3, <1>4, <1>5, <2>4
  <2>6. /\ DOMAIN w.map = Grid(z) /\ DOMAIN w.pending = Grid(z)
        /\ \A t \in Grid(z) : w.map[t] \in TileType \ {"PLAYER"} /\ w.pending[t] \in Drops
        /\ \A t \in Grid(z) : OnBorder(t, z) => w.map[t] = "WALL"
    BY <1>2 DEF IsMap, IsPending
  <2>7. /\ IsWorld(out) /\ out.bombs = w.bombs /\ out.explodes = left /\ out.pending = w.pending
        /\ out.players = w.players
        /\ out.map = [t \in Grid(z) |-> IF t \in gone THEN "EMPTY" ELSE w.map[t]]
    BY <1>2, <1>5, <2>4, <2>6 DEF IsWorld, WorldFields
  <2>8. PICK full : full = {t \in tiles : w.pending[t] # "EMPTY"}
    OBVIOUS
  <2>9. /\ IsWorld(v) /\ v.bombs = w.bombs /\ v.explodes = left /\ v.players = w.players
        /\ v.map = [t \in Grid(z) |-> IF t \in full THEN w.pending[t] ELSE out.map[t]]
        /\ v.pending = [t \in Grid(z) |-> IF t \in full THEN "EMPTY" ELSE w.pending[t]]
    BY <2>1, <2>6, <2>7, <2>8 DEF IsWorld, WorldFields, spawn_pending_powerups
  <2>10. IsPending(v.pending, z)
    BY <2>6, <2>9 DEF IsPending, Drops
  <2>11. IsMap(v.map, z)
    <3>1. ASSUME NEW t \in Grid(z)
          PROVE  \/ v.map[t] = w.map[t]
                 \/ v.map[t] \in Drops /\ ~OnBorder(t, z)
      <4>1. t \in gone => ~OnBorder(t, z)
        BY <2>5 DEF Free
      <4>2. t \in full => t \in gone
        BY <2>5, <2>8
      <4> QED
        BY <2>6, <2>7, <2>9, <4>1, <4>2 DEF Drops
    <3>2. v.map = [t \in Grid(z) |-> v.map[t]]
      BY <2>9
    <3> QED
      BY <2>6, <3>1, <3>2 DEF IsMap, TileType, Drops
  <2>12. Arena(v, z)
    BY <1>2, <2>3, <2>9, <2>10, <2>11, ArenaOf
  <2>13. r.w = v /\ r.i = i
    BY ONLY <2>1
  <2> QED
    BY ONLY <1>1, <1>4, <2>2, <2>9, <2>12, <2>13
<1> QED
  BY <1>6, <1>7

\* After n turns of tick_explosions over L fires
Quenched(L, s, n, z) ==
    /\ Arena(s.w, z) /\ s.i \in 1 .. (n + 1)
    /\ Len(s.w.explodes) = L - n + (s.i - 1)

LEMMA QuenchNext ==
  ASSUME NEW z \in Nat, NEW L \in Nat, NEW n \in Nat, n < L, NEW s, Quenched(L, s, n, z),
         NEW r, r = ExplosionTurn(s)
  PROVE  Quenched(L, r, n + 1, z)
<1>1. Arena(s.w, z) /\ s.i \in 1 .. (n + 1) /\ Len(s.w.explodes) = L - n + (s.i - 1)
  BY DEF Quenched
<1>2. PICK i, c : i = s.i /\ c = Len(s.w.explodes)
  OBVIOUS
<1>3. i \in 1 .. (n + 1) /\ c = L - n + (i - 1)
  BY ONLY <1>1, <1>2
<1>4. i \in 1 .. c
  BY ONLY <1>3, n \in Nat, L \in Nat, n < L
<1>5. s.i \in 1 .. Len(s.w.explodes)
  BY ONLY <1>2, <1>4
<1>6. /\ Arena(r.w, z)
      /\ \/ r.i = s.i + 1 /\ Len(r.w.explodes) = Len(s.w.explodes)
         \/ r.i = s.i /\ Len(r.w.explodes) = Len(s.w.explodes) - 1
  BY ONLY <1>1, <1>5, r = ExplosionTurn(s), z \in Nat, FireTurnArena
<1>7. PICK j, d : j = r.i /\ d = Len(r.w.explodes)
  OBVIOUS
<1>8. (j = i + 1 /\ d = c) \/ (j = i /\ d = c - 1)
  BY ONLY <1>2, <1>6, <1>7
<1>9. j \in 1 .. ((n + 1) + 1) /\ d = L - (n + 1) + (j - 1)
  BY ONLY <1>3, <1>8, n \in Nat, L \in Nat
<1> QED
  BY ONLY <1>6, <1>7, <1>9 DEF Quenched

LEMMA FiresArena ==
  ASSUME NEW z \in Nat, NEW w, Arena(w, z)
  PROVE  Arena(tick_explosions(w), z)
<1>0. Len(w.explodes) \in Nat
  BY ArenaParts, FiresLen DEF Burning
<1>1. PICK L \in Nat : L = Len(w.explodes)
  BY <1>0
<1>2. PICK start : start = [i |-> 1, w |-> w]
  OBVIOUS
<1>3. PICK f : /\ f[0] = start /\ tick_explosions(w) = f[L].w
               /\ \A n \in Nat : n + 1 <= L => f[n + 1] = ExplosionTurn(f[n])
  BY <1>0, <1>1, <1>2, FireLoop
<1> DEFINE T == {n \in Nat : n <= L => Quenched(L, f[n], n, z)}
<1>4. 0 \in T
  <2>1. start.w = w /\ start.i = 1
    BY <1>2
  <2>2. 1 \in 1 .. (0 + 1) /\ L = L - 0 + (1 - 1)
    OBVIOUS
  <2>3. Quenched(L, start, 0, z)
    BY <1>1, <2>1, <2>2 DEF Quenched
  <2> QED
    BY <1>3, <2>3
<1>5. ASSUME NEW n \in Nat, n \in T PROVE n + 1 \in T
  <2> SUFFICES ASSUME n + 1 <= L PROVE Quenched(L, f[n + 1], n + 1, z)
    OBVIOUS
  <2>1. n < L /\ n <= L
    OBVIOUS
  <2>2. f[n + 1] = ExplosionTurn(f[n])
    BY <1>3
  <2>3. Quenched(L, f[n], n, z)
    BY <1>5, <2>1
  <2> QED
    BY <2>1, <2>2, <2>3, QuenchNext
<1>6. Quenched(L, f[L], L, z)
  <2> HIDE DEF T
  <2>1. Nat \subseteq T
    BY <1>4, <1>5, SetInduction
  <2> QED
    BY <2>1 DEF T
<1> HIDE DEF T
<1> QED
  BY <1>3, <1>6 DEF Quenched

LEMMA KillArena ==
  ASSUME NEW z, NEW w, Arena(w, z), NEW v, v = kill_players_in_explosions(w)
  PROVE  Arena(v, z) /\ Arena([v EXCEPT !.dirty = FALSE], z)
<1>0. /\ IsWorld(w) /\ IsMap(w.map, z) /\ IsPending(w.pending, z)
      /\ Armed(w.bombs, z) /\ Burning(w.explodes, z) /\ Manned(w.players, z)
  BY ArenaParts
<1>1. PICK ps : ps = [k \in DOMAIN w.players |->
                         [w.players[k] EXCEPT !.alive = @ /\ ~Burns(w, k)]]
  OBVIOUS
<1>2. PICK u : u = [v EXCEPT !.dirty = FALSE]
  OBVIOUS
<1>3. /\ IsWorld(v) /\ v.bombs = w.bombs /\ v.explodes = w.explodes /\ v.pending = w.pending
      /\ v.map = w.map /\ v.players = ps
  BY <1>0, <1>1 DEF kill_players_in_explosions, IsWorld, WorldFields
<1>4. /\ IsWorld(u) /\ u.bombs = w.bombs /\ u.explodes = w.explodes /\ u.pending = w.pending
      /\ u.map = w.map /\ u.players = ps
  BY <1>2, <1>3 DEF IsWorld, WorldFields
<1>5. DOMAIN w.players = 1 .. lobby /\ \A k \in 1 .. lobby : InPlay(w.players[k], z)
  BY <1>0 DEF Manned
<1>6. ASSUME NEW k \in 1 .. lobby PROVE InPlay(ps[k], z)
  <2>1. PICK p, g : p = w.players[k] /\ g = ps[k]
    OBVIOUS
  <2>2. InPlay(p, z)
    BY <1>5, <2>1
  <2>3. PICK b \in BOOLEAN : g = [p EXCEPT !.alive = b]
    <3>1. PICK b : b = (p.alive /\ ~Burns(w, k))
      OBVIOUS
    <3>2. b \in BOOLEAN
      BY <3>1, Zenon
    <3>3. g = [p EXCEPT !.alive = p.alive /\ ~Burns(w, k)]
      BY <1>1, <1>5, <2>1
    <3> QED
      BY <3>1, <3>2, <3>3
  <2>4. p = [f \in PlayerFields |-> p[f]]
    BY <2>2 DEF InPlay
  <2>5. /\ g = [f \in PlayerFields |-> g[f]] /\ g.alive = b /\ g.is_moving = p.is_moving
        /\ g.pos = p.pos /\ g.dx = p.dx /\ g.dy = p.dy /\ g.num_bombs = p.num_bombs
        /\ g.remaining = p.remaining /\ g.num_fires = p.num_fires /\ g.replenish = p.replenish
    BY <2>3, <2>4 DEF PlayerFields
  <2>6. g.alive \in BOOLEAN
    BY <2>5, Zenon
  <2>7. InPlay(g, z)
    BY <2>2, <2>5, <2>6 DEF InPlay
  <2> QED
    BY <2>1, <2>7
<1>7. ps = [k \in 1 .. lobby |-> ps[k]]
  BY <1>1, <1>5
<1>8. Manned(ps, z)
  BY <1>6, <1>7 DEF Manned
<1>9. Arena(v, z)
  BY <1>0, <1>3, <1>8, ArenaOf
<1>10. Arena(u, z)
  BY <1>0, <1>4, <1>8, ArenaOf
<1> QED
  BY <1>2, <1>9, <1>10

-----------------------------------------------------------------------------
(* The specification *)

LEMMA TickArena ==
  ASSUME NEW z \in Nat, z >= 3, Arena(world, z), lobby \in Nat, Tick
  PROVE  /\ Arena(world', z)
         /\ \E w : /\ DOMAIN w.players = 1 .. lobby
                   /\ \/ stage' = "over" /\ winner' = Winner(w)
                      \/ stage' = stage /\ winner' = winner
<1>1. PICK drop, moved, bombed, calm, w :
        /\ drop \in Draws(world)
        /\ moved = apply_movement_and_pickups(world) /\ bombed = tick_bombs(moved, drop)
        /\ calm = tick_explosions(bombed) /\ w = kill_players_in_explosions(calm)
        /\ world' = [w EXCEPT !.dirty = FALSE]
        /\ \/ stage' = "over" /\ winner' = Winner(w)
           \/ stage' = stage /\ winner' = winner
  BY DEF Tick
<1>2. Arena(moved, z)
  BY <1>1, MovementArena
<1>3. \A t \in Grid(z) : drop[t] \in Drops
  <2>1. IsMap(world.map, z)
    BY ArenaParts
  <2>2. DOMAIN world.map = Grid(z)
    BY <2>1 DEF IsMap
  <2> QED
    BY <1>1, <2>2, DrawsDrop
<1>4. Arena(bombed, z)
  BY <1>1, <1>2, <1>3, BombsArena
<1>5. Arena(calm, z)
  BY <1>1, <1>4, FiresArena
<1>6. Arena(w, z) /\ Arena([w EXCEPT !.dirty = FALSE], z)
  BY <1>1, <1>5, KillArena
<1>7. DOMAIN w.players = 1 .. lobby
  <2>1. Manned(w.players, z)
    BY <1>6, ArenaParts
  <2> QED
    BY <2>1 DEF Manned
<1> QED
  BY <1>1, <1>6, <1>7

LEMMA WinnerListed ==
  ASSUME NEW w, lobby \in Nat, DOMAIN w.players = 1 .. lobby
  PROVE  Winner(w) \in 0 .. lobby
<1>1. PICK A : A = Alive(w)
  OBVIOUS
<1>2. A \subseteq 1 .. lobby /\ A \subseteq Nat
  BY <1>1 DEF Alive
<1>3. CASE lobby # 1 /\ A # {}
  <2>1. PICK k \in A : \A j \in A : k <= j
    BY <1>2, <1>3, LeastExists
  <2>2. Winner(w) = CHOOSE i \in A : \A j \in A : i <= j
    BY <1>1, <1>3 DEF Winner
  <2>3. PICK i : i = Winner(w) /\ i \in A
    BY <2>1, <2>2, Zenon
  <2>4. i \in 1 .. lobby
    BY <1>2, <2>3
  <2>5. i \in 0 .. lobby
    BY ONLY <2>4, lobby \in Nat
  <2> QED
    BY <2>3, <2>5
<1>4. CASE ~(lobby # 1 /\ A # {})
  <2>1. Winner(w) = 0
    BY <1>1, <1>4 DEF Winner
  <2> QED
    BY <2>1
<1> QED
  BY <1>3, <1>4

\* The inductive invariant: who is listed, and where everybody is
Fenced ==
    /\ stage \in {"lobby", "match", "over", "closed"}
    /\ lobby \in 0 .. MaxPlayers /\ connected \subseteq 1 .. lobby
    /\ winner \in 0 .. lobby /\ drained \in 0 .. MAX_MSGS_PER_TICK
    /\ stage \in {"lobby", "closed"} => world = <<>>
    /\ stage \in {"match", "over"} => lobby > 0 /\ Arena(world, MapSize)

\* Neither the lobby nor its map changes size in a match
LEMMA ArenaNext ==
  ASSUME lobby' = lobby, NEW z, z = MapSize, Arena(world', z)
  PROVE  Arena(world, MapSize)'
<1>1. MapSize' = z
  BY DEF MapSize
<1>2. Walled(world', z) /\ Armed(world'.bombs, z) /\ Burning(world'.explodes, z)
  BY DEF Arena
<1>3. Manned(world.players, z)'
  BY DEF Arena, Manned
<1> QED
  BY <1>1, <1>2, <1>3 DEF Arena

LEMMA StepFenced ==
  ASSUME Fenced, [Next]_vars
  PROVE  Fenced'
<1>0. /\ stage \in {"lobby", "match", "over", "closed"} /\ lobby \in Nat /\ lobby <= MaxPlayers
      /\ connected \subseteq 1 .. lobby /\ winner \in 0 .. lobby /\ MaxPlayers \in Nat
      /\ drained \in 0 .. MAX_MSGS_PER_TICK /\ MAX_MSGS_PER_TICK \in Nat \ {0}
      /\ stage \in {"lobby", "closed"} => world = <<>>
      /\ stage \in {"match", "over"} => lobby > 0 /\ Arena(world, MapSize)
  BY ArenaAssumption DEF Fenced
<1>1. lobby > 0 => MapSize \in Nat /\ MapSize >= 3
  BY <1>0, WidthIs DEF MapSize
<1>2. CASE Join
  <2>1. /\ stage = "lobby" /\ lobby < MaxPlayers /\ lobby' = lobby + 1 /\ stage' = stage
        /\ connected' = connected \cup {lobby + 1} /\ winner' = winner /\ drained' = drained
        /\ world' = world
    BY <1>2 DEF Join
  <2>2. lobby' \in 0 .. MaxPlayers /\ winner' \in 0 .. lobby' /\ connected' \subseteq 1 .. lobby'
    BY <1>0, <2>1
  <2> QED
    BY <1>0, <2>1, <2>2 DEF Fenced
<1>3. ASSUME lobby' = lobby, lobby > 0, stage' \in {"match", "over"},
             \E z : z = MapSize /\ Arena(world', z), connected' \subseteq connected,
             winner' \in 0 .. lobby, drained' \in 0 .. MAX_MSGS_PER_TICK
      PROVE  Fenced'
  <2>1. PICK z : z = MapSize /\ Arena(world', z)
    BY <1>3
  <2>2. Arena(world, MapSize)'
    BY <1>3, <2>1, ArenaNext
  <2> QED
    BY <1>0, <1>3, <2>2 DEF Fenced
<1>4. CASE StartMatch
  <2>1. PICK m \in map_generate(lobby) : world' = init_session(m)
    BY <1>4 DEF StartMatch
  <2>2. /\ lobby > 0 /\ lobby' = lobby /\ stage' = "match" /\ connected' = connected
        /\ winner' = winner /\ drained' = drained
    BY <1>4 DEF StartMatch
  <2>3. Arena(world', MapSize)
    BY <1>0, <2>1, <2>2, NewArena
  <2> QED
    BY <1>0, <1>3, <2>2, <2>3
<1>5. CASE Leave
  BY <1>0, <1>5 DEF Leave, Fenced
<1>6. CASE Tick
  <2>1. /\ stage = "match" /\ lobby > 0 /\ lobby' = lobby /\ connected' = connected
        /\ drained' = 0 /\ stage' \in {"match", "over"}
    BY <1>0, <1>6 DEF Tick
  <2>2. PICK z \in Nat : z = MapSize /\ z >= 3 /\ Arena(world, z)
    BY <1>0, <1>1, <2>1
  <2>3. /\ Arena(world', z)
        /\ \E w : /\ DOMAIN w.players = 1 .. lobby
                  /\ \/ stage' = "over" /\ winner' = Winner(w)
                     \/ stage' = stage /\ winner' = winner
    BY <1>0, <1>6, <2>2, TickArena
  <2>4. winner' \in 0 .. lobby
    BY <1>0, <2>3, WinnerListed
  <2> QED
    BY <1>0, <1>3, <2>1, <2>2, <2>3, <2>4
<1>7. CASE Stop
  <2>1. /\ stage = "match" /\ lobby' = lobby /\ stage' = "over" /\ connected' = connected
        /\ winner' = winner /\ drained' = drained /\ world' = world
    BY <1>7 DEF Stop
  <2> QED
    BY <1>0, <1>3, <2>1
<1>8. ASSUME UNCHANGED <<stage, lobby, world, winner, drained>>, connected' \subseteq connected
      PROVE  Fenced'
  <2>1. CASE stage \in {"match", "over"}
    BY <1>0, <1>3, <1>8, <2>1
  <2>2. CASE stage \notin {"match", "over"}
    BY <1>0, <1>8, <2>2 DEF Fenced
  <2> QED
    BY <2>1, <2>2
<1>9. CASE Poll
  BY <1>8, <1>9 DEF Poll
<1>10. CASE UNCHANGED vars
  BY <1>8, <1>10 DEF vars
<1>11. ASSUME NEW k \in 1 .. lobby, NEW d \in Directions, DrainMove(k, d) PROVE Fenced'
  <2>1. /\ stage = "match" /\ lobby' = lobby /\ stage' = "match" /\ connected' = connected
        /\ winner' = winner /\ drained' = drained + 1 /\ drained < MAX_MSGS_PER_TICK
        /\ world' = apply_move(world, k, d)
    BY <1>11 DEF DrainMove, Draining
  <2>2. drained' \in 0 .. MAX_MSGS_PER_TICK
    BY <1>0, <2>1
  <2>3. PICK z : z = MapSize /\ Arena(world, z)
    BY <1>0, <2>1
  <2>4. Arena(world', z)
    BY <2>1, <2>3, TurnArena
  <2> QED
    BY <1>0, <1>3, <2>1, <2>2, <2>3, <2>4
<1>12. ASSUME NEW k \in 1 .. lobby, DrainBombPlace(k) PROVE Fenced'
  <2>1. /\ stage = "match" /\ lobby' = lobby /\ stage' = "match" /\ connected' = connected
        /\ winner' = winner /\ drained' = drained + 1 /\ drained < MAX_MSGS_PER_TICK
        /\ world' = apply_bomb_place(world, k)
    BY <1>12 DEF DrainBombPlace, Draining
  <2>2. drained' \in 0 .. MAX_MSGS_PER_TICK
    BY <1>0, <2>1
  <2>3. PICK z \in Nat : z = MapSize /\ z >= 3 /\ Arena(world, z)
    BY <1>0, <1>1, <2>1
  <2>4. Arena(world', z)
    BY <2>1, <2>3, PlaceArena
  <2> QED
    BY <1>0, <1>3, <2>1, <2>2, <2>3, <2>4
<1>13. ASSUME NEW k \in 1 .. lobby, Disconnect(k) PROVE Fenced'
  BY <1>8, <1>13 DEF Disconnect
<1> QED
  BY <1>2, <1>4, <1>5, <1>6, <1>7, <1>9, <1>10, <1>11, <1>12, <1>13 DEF Next

LEMMA FencedHolds == Spec => []Fenced
<1>1. Init => Fenced
  BY ArenaAssumption DEF Init, Fenced
<1>2. Fenced /\ [Next]_vars => Fenced'
  BY StepFenced
<1> QED
  BY <1>1, <1>2, PTL DEF Spec

LEMMA FieldsTyped ==
  ASSUME lobby \in Nat, lobby > 0, NEW w, Arena(w, MapSize)
  PROVE  /\ w.map \in [Grid(MapSize) -> TileType \ {"PLAYER"}]
         /\ w.pending \in [Grid(MapSize) -> {"EMPTY", "POWERUP_FIRE", "POWERUP_BOMB"}]
         /\ w.players \in Players(w)
         /\ Len(w.bombs) <= QueueSize /\ Len(w.explodes) <= QueueSize
         /\ \A i \in DOMAIN w.bombs : w.bombs[i].timer \in 1 .. BombTime
         /\ \A i \in DOMAIN w.explodes : w.explodes[i].timer \in 1 .. ExplodeTime
<1>1. PICK z : z = MapSize
  OBVIOUS
<1>2. z \in Nat
  BY <1>1, WidthIs DEF MapSize
<1>3. /\ IsMap(w.map, z) /\ IsPending(w.pending, z)
      /\ Armed(w.bombs, z) /\ Burning(w.explodes, z) /\ Manned(w.players, z)
  BY <1>1, ArenaParts
<1>4. w.map \in [Grid(z) -> TileType \ {"PLAYER"}]
  BY <1>3 DEF IsMap
<1>5. w.pending \in [Grid(z) -> {"EMPTY", "POWERUP_FIRE", "POWERUP_BOMB"}]
  BY <1>3 DEF IsPending, Drops
<1>6. ASSUME NEW k \in 1 .. lobby
      PROVE  w.players[k] \in [alive : BOOLEAN, pos : Nat \X Nat, dx : -1 .. 1, dy : -1 .. 1,
                               is_moving : BOOLEAN, num_bombs : Nat, remaining : Nat,
                               num_fires : Nat, replenish : 0 .. ReplenishTime]
  <2>1. PICK p : p = w.players[k]
    OBVIOUS
  <2>2. InPlay(p, z)
    BY <1>3, <2>1 DEF Manned
  <2>3. p.pos \in Nat \X Nat
    BY <1>2, <2>2 DEF InPlay, Room
  <2>4. p = [alive |-> p.alive, pos |-> p.pos, dx |-> p.dx, dy |-> p.dy,
             is_moving |-> p.is_moving, num_bombs |-> p.num_bombs, remaining |-> p.remaining,
             num_fires |-> p.num_fires, replenish |-> p.replenish]
    BY <2>2 DEF InPlay, PlayerFields
  <2>5. p.alive \in BOOLEAN /\ p.is_moving \in BOOLEAN
    BY <2>2, Zenon DEF InPlay
  <2>6. /\ p.dx \in -1 .. 1 /\ p.dy \in -1 .. 1 /\ p.num_bombs \in Nat /\ p.remaining \in Nat
        /\ p.num_fires \in Nat /\ p.replenish \in 0 .. ReplenishTime
    BY <2>2 DEF InPlay
  <2> QED
    BY <2>1, <2>3, <2>4, <2>5, <2>6
<1>7. w.players \in Players(w)
  BY <1>3, <1>6 DEF Players, Manned
<1>8. /\ Len(w.bombs) <= QueueSize /\ Len(w.explodes) <= QueueSize
      /\ \A i \in DOMAIN w.bombs : w.bombs[i].timer \in 1 .. BombTime
      /\ \A i \in DOMAIN w.explodes : w.explodes[i].timer \in 1 .. ExplodeTime
  <2>1. DOMAIN w.bombs = 1 .. Len(w.bombs)
    BY <1>3, QueueLen DEF Armed
  <2>2. DOMAIN w.explodes = 1 .. Len(w.explodes)
    BY <1>3, FiresLen DEF Burning
  <2> QED
    BY <1>3, <2>1, <2>2 DEF Armed, Burning
<1> QED
  BY <1>1, <1>4, <1>5, <1>7, <1>8

(* Whatever the map, the number of players, the fires they collect and the  *)
(* length of the match, bombd's data stays in shape: the queues of bombs    *)
(* and explosions never exceed their size, every queued timer still runs,   *)
(* inventories never go below zero, and positions stay on the map, although *)
(* move_box compares none with the map's bounds: the outer wall stops them, *)
(* which no bomb, no blast and no power-up ever removes.                    *)
THEOREM ArenaStaysTyped == Spec => []TypeOK
<1>1. Fenced /\ MirrorInv => TypeOK
  <2> SUFFICES ASSUME Fenced, MirrorInv PROVE TypeOK
    OBVIOUS
  <2>1. /\ stage \in {"lobby", "match", "over", "closed"} /\ lobby \in 0 .. MaxPlayers
        /\ connected \subseteq 1 .. lobby /\ winner \in 0 .. lobby
        /\ drained \in 0 .. MAX_MSGS_PER_TICK /\ lobby \in Nat
        /\ stage \in {"lobby", "closed"} => world = <<>>
        /\ stage \in {"match", "over"} => lobby > 0 /\ Arena(world, MapSize)
    BY ArenaAssumption DEF Fenced
  <2>2. mirror.died \in 0 .. 1 /\ mirror.won \in 0 .. 1
    <3>1. SeenOK(mirror, stage, stops)
      BY LastSeen DEF MirrorInv
    <3>2. (mirror.died = 0 \/ mirror.died = 1) /\ (mirror.won = 0 \/ mirror.won = 1)
      BY <3>1, Zenon DEF SeenOK
    <3> QED
      BY <3>2
  <2>3. CASE world = <<>>
    BY <2>1, <2>2, <2>3 DEF TypeOK
  <2>4. CASE world # <<>>
    <3>1. lobby > 0 /\ Arena(world, MapSize)
      BY <2>1, <2>4
    <3>2. PICK w : w = world
      OBVIOUS
    <3>3. /\ w.map \in [Grid(MapSize) -> TileType \ {"PLAYER"}]
          /\ w.pending \in [Grid(MapSize) -> {"EMPTY", "POWERUP_FIRE", "POWERUP_BOMB"}]
          /\ w.players \in Players(w)
          /\ Len(w.bombs) <= QueueSize /\ Len(w.explodes) <= QueueSize
          /\ \A i \in DOMAIN w.bombs : w.bombs[i].timer \in 1 .. BombTime
          /\ \A i \in DOMAIN w.explodes : w.explodes[i].timer \in 1 .. ExplodeTime
      BY <2>1, <3>1, <3>2, FieldsTyped
    <3> QED
      BY <2>1, <2>2, <3>2, <3>3 DEF TypeOK
  <2> QED
    BY <2>3, <2>4
<1> QED
  BY <1>1, FencedHolds, MirrorHolds, PTL

\* Where a box may be: its centre is inside the wall, and wherever it tries to
\* move next, it covers tiles of the map only
Inside(w) ==
    \A k \in 1 .. lobby :
        LET pos == w.players[k].pos
        IN  /\ get_center_box(pos) \in (1 .. MapSize - 2) \X (1 .. MapSize - 2)
            /\ \A dx, dy \in -1 .. 1 :
                  get_all_overlapping_tiles(<<pos[1] + dx, pos[2] + dy>>) \subseteq DOMAIN w.map

(* During a match the outer wall stands, every tile that aabb_collided asks *)
(* about for a player is a tile of the map, and so is the one under the     *)
(* player's centre: tile_is_solid (map.c) and place_bomb (bomb_control.c)   *)
(* index the array of tiles without a bounds check, and never need one,     *)
(* however the players move and whatever they blow up.                      *)
THEOREM NobodyLeavesTheArena ==
  Spec => [](stage \in {"match", "over"} =>
               /\ \A t \in Grid(MapSize) : OnBorder(t, MapSize) => world.map[t] = "WALL"
               /\ Inside(world))
<1>1. Fenced => (stage \in {"match", "over"} =>
               /\ \A t \in Grid(MapSize) : OnBorder(t, MapSize) => world.map[t] = "WALL"
               /\ Inside(world))
  <2> SUFFICES ASSUME Fenced, stage \in {"match", "over"}
               PROVE  /\ \A t \in Grid(MapSize) : OnBorder(t, MapSize) => world.map[t] = "WALL"
                      /\ Inside(world)
    OBVIOUS
  <2>1. lobby \in Nat /\ lobby > 0 /\ Arena(world, MapSize)
    BY ArenaAssumption DEF Fenced
  <2>2. PICK z \in Nat : z = MapSize /\ z >= 3
    BY <2>1, WidthIs DEF MapSize
  <2>3. IsMap(world.map, z) /\ Manned(world.players, z)
    BY <2>1, <2>2, ArenaParts
  <2>4. ASSUME NEW x \in 3 .. 3 * (z - 2), NEW d \in -1 .. 1
        PROVE  Cover(x + d) \subseteq 0 .. z - 1 /\ Centre(x) \in 1 .. z - 2
    <3>1. Centre(x) \in 1 .. z - 2
      BY <2>2, InRange
    <3>2. PICK n \in Nat, c \in Nat : n = z - 2 /\ c = x + d
      BY <2>2
    <3>3. c \in 2 .. 3 * n + 1
      BY <3>2
    <3>4. PICK a \in Int, b \in 0 .. 2 : c = 3 * a + b /\ a = c \div 3 /\ b = c % 3
      BY ONLY c \in Nat
    <3>5. a \in 0 .. n /\ a + 1 \in 0 .. n + 1
      BY ONLY <3>3, <3>4, n \in Nat
    <3>6. Cover(c) \subseteq {a, a + 1}
      BY <3>4 DEF Cover
    <3>7. {a, a + 1} \subseteq 0 .. z - 1
      BY <3>2, <3>5
    <3> QED
      BY <3>1, <3>2, <3>6, <3>7
  <2>5. ASSUME NEW k \in 1 .. lobby, NEW pos, pos = world.players[k].pos
        PROVE  /\ get_center_box(pos) \in (1 .. z - 2) \X (1 .. z - 2)
               /\ \A dx, dy \in -1 .. 1 :
                     get_all_overlapping_tiles(<<pos[1] + dx, pos[2] + dy>>) \subseteq DOMAIN world.map
    <3>1. pos \in Room(z)
      BY <2>3, <2>5 DEF Manned, InPlay
    <3>2. PICK x \in 3 .. 3 * (z - 2), y \in 3 .. 3 * (z - 2) : pos = <<x, y>>
      BY <3>1 DEF Room
    <3>3. DOMAIN world.map = (0 .. z - 1) \X (0 .. z - 1)
      BY <2>3 DEF IsMap, Grid
    <3>4. ASSUME NEW dx \in -1 .. 1, NEW dy \in -1 .. 1
          PROVE  get_all_overlapping_tiles(<<pos[1] + dx, pos[2] + dy>>) \subseteq DOMAIN world.map
      <4>1. Cover(x + dx) \subseteq 0 .. z - 1 /\ Cover(y + dy) \subseteq 0 .. z - 1
        BY <2>4
      <4>2. get_all_overlapping_tiles(<<pos[1] + dx, pos[2] + dy>>) = Cover(x + dx) \X Cover(y + dy)
        BY <3>2 DEF get_all_overlapping_tiles
      <4> QED
        BY <3>3, <4>1, <4>2
    <3>5. get_center_box(pos) \in (1 .. z - 2) \X (1 .. z - 2)
      <4>1. 0 \in -1 .. 1
        OBVIOUS
      <4> QED
        BY <2>4, <3>2, <4>1 DEF get_center_box
    <3> QED
      BY <3>4, <3>5
  <2>6. \A k \in 1 .. lobby :
          LET pos == world.players[k].pos
          IN  /\ get_center_box(pos) \in (1 .. z - 2) \X (1 .. z - 2)
              /\ \A dx, dy \in -1 .. 1 :
                    get_all_overlapping_tiles(<<pos[1] + dx, pos[2] + dy>>) \subseteq DOMAIN world.map
    BY <2>5, Zenon
  <2>7. Inside(world)
    BY <2>2, <2>6 DEF Inside
  <2> QED
    BY <2>2, <2>3, <2>7 DEF IsMap
<1> QED
  BY <1>1, FencedHolds, PTL
=============================================================================
