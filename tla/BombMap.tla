------------------------------ MODULE BombMap ------------------------------
(***************************************************************************)
(* The arena generator of libbombbrain (map.c) and the way bombd recovers  *)
(* the spawn tiles from the generated map (session.c, collect_spawns).     *)
(* Tiles are pairs <<x, y>> with 0 <= x, y < map_size.                     *)
(***************************************************************************)
EXTENDS Integers, FiniteSets

CONSTANTS MIN_MAP_WIDTH,  \* 10 in the code
          TilesPerPlayer  \* 25 in the code

ASSUME MapAssumption ==
    MIN_MAP_WIDTH \in Nat \ {0} /\ TilesPerPlayer \in Nat \ {0}

TileType == {"EMPTY", "PLAYER", "BOMB", "EXPLOSION", "POWERUP_FIRE",
             "POWERUP_BOMB", "BREAKABLE", "WALL"}

CeilSqrt(k) == CHOOSE r \in 0 .. k : r * r >= k /\ (r - 1) * (r - 1) < k

RoundSqrt(k) ==
    CHOOSE r \in 0 .. k : 4 * k < (2 * r + 1) * (2 * r + 1)
                       /\ (r = 0 \/ 4 * k >= (2 * r - 1) * (2 * r - 1))

CeilDiv(a, b) == (a + b - 1) \div b

Width(n, least, each) ==
    LET size == CeilSqrt(each * n) IN IF size > least THEN size ELSE least

calc_map_size(n) == Width(n, MIN_MAP_WIDTH, TilesPerPlayer)

Grid(size) == (0 .. size - 1) \X (0 .. size - 1)

MiddleUnscaled(k, m, inner) == 2 + k

(* The middle of the k-th of m equal parts of the inner square. *)
Middle(k, m, inner) ==
    2 + ((k * inner) \div m + ((k + 1) * inner) \div m - 1) \div 2

(* Players dealt before strip s: corners first, then strip by strip. *)
Dealt(n, strips) ==
    LET dealt[s \in 0 .. strips] ==
            IF s = 0 THEN 4
            ELSE dealt[s - 1] + CeilDiv(n - dealt[s - 1], strips - s + 1)
    IN  dealt

calc_player_spawns(n, inner) ==
    LET corners == << <<1, 1>>, <<inner, inner>>, <<1, inner>>, <<inner, 1>> >>
        core    == IF inner - 2 < 1 THEN 1 ELSE inner - 2
        strips  == IF n > 4 THEN RoundSqrt(n - 4) ELSE 0
        dealt   == Dealt(n, strips)
        Strip(k) == CHOOSE s \in 0 .. strips - 1 : dealt[s] < k /\ k <= dealt[s + 1]
    IN  [k \in 1 .. n |->
            IF k <= 4 THEN corners[k]
            ELSE LET s == Strip(k)
                 IN  << Middle(s, strips, core),
                        Middle(k - dealt[s] - 1, dealt[s + 1] - dealt[s], core) >>]

(* The '+' of empty tiles around a spawn, inside the border. *)
Plus(t, size) ==
    {u \in (1 .. size - 2) \X (1 .. size - 2) :
        \/ u[1] = t[1] /\ u[2] - t[2] \in {-1, 1}
        \/ u[2] = t[2] /\ u[1] - t[1] \in {-1, 1}}

OnBorder(t, size) == t[1] \in {0, size - 1} \/ t[2] \in {0, size - 1}

(* Walls are only dealt away from the border, so that nobody is shut in. *)
WallAllowed(t, size) ==
    /\ t[1] > 1 /\ t[1] < size - 3
    /\ t[2] > 1 /\ t[2] < size - 3

(* The spawns are marked one after the other: a later '+' would wipe out an *)
(* earlier marker it reaches.                                               *)
Marked(n, size) ==
    LET spawns == calc_player_spawns(n, size - 2)
    IN  {spawns[k] : k \in {j \in 1 .. n :
            \A l \in j + 1 .. n : spawns[j] \notin Plus(spawns[l], size)}}

Cleared(n, size) ==
    LET spawns == calc_player_spawns(n, size - 2)
    IN  UNION {Plus(spawns[k], size) : k \in 1 .. n}

(* Every map map_generate(n) can produce: the rest of the tiles is drawn at *)
(* random.                                                                  *)
map_generate(n) ==
    LET size == calc_map_size(n) + 2
        marked == Marked(n, size)
        free == {t \in Grid(size) : /\ ~OnBorder(t, size)
                                    /\ t \notin marked \cup Cleared(n, size)}
    IN  { [t \in Grid(size) |->
                IF OnBorder(t, size) THEN "WALL"
                ELSE IF t \in marked THEN "PLAYER"
                ELSE IF t \in free THEN draw[t]
                ELSE "EMPTY"] :
          draw \in {d \in [free -> {"EMPTY", "WALL", "BREAKABLE"}] :
                      \A t \in free : d[t] = "WALL" => WallAllowed(t, size)} }

(* collect_spawns scans the map column by column for the markers; init_     *)
(* session gives player k the k-th one found and falls back on <<1, 1>>.    *)
collect_spawns(m, size) ==
    LET found == {t \in Grid(size) : m[t] = "PLAYER"}
        Before(t) == {u \in found : u[1] * size + u[2] < t[1] * size + t[2]}
    IN  [k \in 1 .. Cardinality(found) |->
            CHOOSE t \in found : Cardinality(Before(t)) = k - 1]

SpawnTile(m, size, k) ==
    LET spawns == collect_spawns(m, size)
    IN  IF k \in DOMAIN spawns THEN spawns[k] ELSE <<1, 1>>
=============================================================================
