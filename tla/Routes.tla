------------------------------- MODULE Routes -------------------------------
(***************************************************************************)
(* The routes of A* (controllers/a_star.c), compared with the shortest     *)
(* ones, which are found in another way: distances by relaxing every edge  *)
(* until nothing changes.                                                  *)
(***************************************************************************)
EXTENDS Navigation

Far == Scale * Scale

Around == [n \in Area |-> {m \in Area \ {n} : m[1] - n[1] \in -1 .. 1 /\ m[2] - n[2] \in -1 .. 1}]

Settle(obs, outside, d) ==
    [n \in Area |->
        IF Blocked(obs, outside, n) THEN d[n]
        ELSE Min({d[n]} \cup {d[m] + estDistance(m, n) :
                    m \in {a \in Around[n] : d[a] < Far /\ CutsNoGap(obs, outside, a, n)}})]

RECURSIVE Distances(_, _, _)
Distances(obs, outside, d) ==
    LET e == Settle(obs, outside, d)
    IN  IF e = d THEN d ELSE Distances(obs, outside, e)

(* The length of a shortest way to the goal, Far if there is none. *)
ShortestLength(obs, outside, pose) ==
    Distances(obs, outside, [n \in Area |-> IF n = pose THEN 0 ELSE Far])[GoalCell]

RECURSIVE PathLength(_)
PathLength(p) ==
    IF Len(p) < 2 THEN 0 ELSE estDistance(p[1], p[2]) + PathLength(Tail(p))

(***************************************************************************)
(* When A* plans and does not crash, it finds a shortest way outside the    *)
(* obstacles it knows if there is one, and reports failure only if there   *)
(* is none (command, genNeighbors, addNode and removeNode).                *)
(***************************************************************************)
RouteShortest ==
    [][Plans =>
        LET least == ShortestLength(astar'.obstacles, free, astar'.pose)
        IN  IF astar'.status = "solved"
              THEN /\ IsRoute(astar'.obstacles, free, astar'.pose, astar'.route)
                   /\ PathLength(astar'.route) = least
              ELSE least = Far]_vars
=============================================================================
