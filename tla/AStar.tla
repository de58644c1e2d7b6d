------------------------------- MODULE AStar -------------------------------
(***************************************************************************)
(* The search of controllers/a_star.c, as an operator from the obstacles   *)
(* and the pose to a path.                                                 *)
(*                                                                         *)
(* A distance is a whole number of thousandths, rounded down: sums of at   *)
(* most a few tens of steps 1 and sqrt(2) that differ stay different.      *)
(*                                                                         *)
(* genNeighbors reads obstacle_map without asking whether the neighbour    *)
(* lies on the map.  What it reads there is undefined; `free' says which   *)
(* of the two outcomes the ring of cells around the map has.  Cells beyond *)
(* the ring read as obstacles, a bound of the model that the code does not *)
(* have: what is said of a search that leaves the map rests on it.         *)
(***************************************************************************)
EXTENDS Mapping

CONSTANT GoalCell       \* gridify of the goal (7.0, 7.0)

ASSUME GoalAssumption == GoalCell \in Cells

Area == (-1 .. GRID_NUM) \X (-1 .. GRID_NUM)
NoNode == <<-9, -9>>

Scale == 1000
Root == [s \in 0 .. 2 * (GRID_NUM + 1) * (GRID_NUM + 1) |->
            CHOOSE r \in 0 .. 2 * Scale * (GRID_NUM + 1) :
                r * r <= s * Scale * Scale /\ (r + 1) * (r + 1) > s * Scale * Scale]

estDistance(a, b) == Root[(a[1] - b[1]) * (a[1] - b[1]) + (a[2] - b[2]) * (a[2] - b[2])]

(* obstacle_map, read at any index. *)
Blocked(obs, free, n) ==
    IF n \in Cells THEN n \in obs ELSE ~(free /\ n \in Area)

(* The eight offsets in the order of the two loops. *)
Offsets == <<<<-1, -1>>, <<-1, 0>>, <<-1, 1>>, <<0, -1>>, <<0, 1>>, <<1, -1>>, <<1, 0>>, <<1, 1>>>>

(* One of two obstacles may touch the corner that a diagonal step cuts. *)
CutsNoGap(obs, free, a, b) ==
    \/ a[1] = b[1] \/ a[2] = b[2]
    \/ ~Blocked(obs, free, <<b[1], a[2]>>)
    \/ ~Blocked(obs, free, <<a[1], b[2]>>)

CanStep(obs, free, a, b) == ~Blocked(obs, free, b) /\ CutsNoGap(obs, free, a, b)

Neighbour(a, k) == <<a[1] + Offsets[k][1], a[2] + Offsets[k][2]>>

genNeighbors(obs, free, a) ==
    {b \in {Neighbour(a, k) : k \in DOMAIN Offsets} : CanStep(obs, free, a, b)}

(***************************************************************************)
(* The search: the open list, the closed nodes, for every node seen its    *)
(* g_score and back_link, and whether open_set has become NULL, which      *)
(* addNode dereferences at once.                                           *)
(***************************************************************************)
Start(pose) ==
    [open   |-> addNode(<<>>, pose, estDistance(pose, GoalCell)),
     closed |-> {},
     g      |-> [n \in Area |-> 0],
     back   |-> [n \in Area |-> NoNode],
     null   |-> FALSE]

(* One neighbour of the node just closed. *)
Relax(s, current, n) ==
    LET tent_g_score == s.g[current] + estDistance(n, current)
        inOpen == findNode(s.open, n)
    IN  IF s.null \/ n \in s.closed \/ (inOpen /\ tent_g_score >= s.g[n])
          THEN s
          ELSE [s EXCEPT !.g[n] = tent_g_score,
                         !.back[n] = current,
                         !.null = RemovesLast(s.open, n),
                         !.open = addNode(removeNode(s.open, n), n,
                                          tent_g_score + estDistance(n, GoalCell))]

(* A node leaves the open list. *)
Close(s, current) == [s EXCEPT !.open = Tail(@), !.closed = @ \cup {current}]

(* Its neighbours, in the order of their list. *)
Expand(obs, free, s, current) ==
    LET after[k \in 0 .. Len(Offsets)] ==
          IF k = 0 THEN Close(s, current)
          ELSE IF CanStep(obs, free, current, Neighbour(current, k))
                 THEN Relax(after[k-1], current, Neighbour(current, k))
                 ELSE after[k-1]
    IN  after[Len(Offsets)]

(* One round of the loop, which a crash, an empty list or the goal ends. *)
Stopped(s) == s.null \/ s.open = <<>> \/ s.open[1].node = GoalCell
Round(obs, free, s) == IF Stopped(s) THEN s ELSE Expand(obs, free, s, s.open[1].node)

SearchAfter(obs, free, pose, n) ==
    LET after[k \in 0 .. n] ==
          IF k = 0 THEN Start(pose) ELSE Round(obs, free, after[k-1])
    IN  after[n]

(* Each round closes a node, so that there are no more of them than nodes. *)
Rounds == (GRID_NUM + 2) * (GRID_NUM + 2)
SearchLoop(obs, free, pose) == SearchAfter(obs, free, pose, Rounds)

(* The path, at most a node of each round and the goal, is pushed node by node along *)
(* the back links.                                                                   *)
PushNode(back, w) ==
    IF w.node = NoNode THEN w ELSE [node |-> back[w.node], path |-> <<w.node>> \o w.path]
Extract(back, n) ==
    LET after[k \in 0 .. Rounds + 1] ==
          IF k = 0 THEN [node |-> n, path |-> <<>>] ELSE PushNode(back, after[k-1])
    IN  after[Rounds + 1].path

Search(obs, free, pose) ==
    LET s == SearchLoop(obs, free, pose)
    IN  IF s.null THEN [status |-> "crashed", path |-> <<>>]
        ELSE IF s.open = <<>> THEN [status |-> "failed", path |-> <<>>]
        ELSE [status |-> "solved", path |-> Extract(s.back, GoalCell)]

(* What a path has to be. *)
IsRoute(obs, free, pose, p) ==
    /\ p # <<>> /\ p[1] = pose /\ p[Len(p)] = GoalCell
    /\ \A k \in 1 .. Len(p)-1 : p[k+1] \in genNeighbors(obs, free, p[k])
=============================================================================
