----------------------------- MODULE Navigation -----------------------------
(***************************************************************************)
(* Mapper, A* and ArtPot, joined by pipes (controllers/mapper.c, a_star.c, *)
(* art_pot.c; controllers/configs/all_tri.cfg):                            *)
(*                                                                         *)
(*      Filter --RANGE_POSE_DATA--> Mapper --MAP_UPDATE--> AStar           *)
(*                                         <--COMM_ACK----                 *)
(*      Filter --RANGE_POSE_DATA--> ArtPot --WAY_REQ-----> AStar           *)
(*                                         <--WAY_RES-----                 *)
(*                                                                         *)
(* Each controller is one process that looks at its inputs with select and *)
(* handles, in a fixed order, those that were ready: one action is one     *)
(* turn of its loop.  Its voter, modelled in Voter, makes it a component   *)
(* that does not fail.  Positions are cells; the velocities that ArtPot    *)
(* computes, which nobody here reads, are left out.                        *)
(***************************************************************************)
EXTENDS AStar

CONSTANTS
    Poses,          \* the cells in which the robot may be
    Scans,          \* the ranges of a message: sequences of end points in half intervals
    OBS_THRES,      \* a cell is an obstacle when seen more often than this
    DIST_EPSILON,   \* square of the distance, in cells, that counts as there
    MaxData,        \* bound on messages of Filter
    MaxInFlight     \* bound on the messages on their way to A*

ASSUME PoseAssumption == Poses \subseteq Cells
ASSUME ScansAssumption == Scans \subseteq Seq(Int \X Int)
ASSUME CountsAssumption ==
    {OBS_THRES, DIST_EPSILON, MaxData, MaxInFlight} \subseteq Nat

VARIABLES
    fed,        \* number of messages of Filter
    free,       \* what the memory around obstacle_map reads as
    mapData,    \* Filter to Mapper
    artData,    \* Filter to ArtPot
    updates,    \* Mapper to A*
    acks,       \* number of acknowledgements on their way from A* to Mapper
    requests,   \* number of way-point requests on their way from ArtPot to A*
    responses,  \* A* to ArtPot
    seen,       \* obstacle_map of Mapper: how often a cell was seen
    astar,      \* the state of A*
    artpot      \* the state of ArtPot

vars == <<fed, free, mapData, artData, updates, acks, requests, responses,
          seen, astar, artpot>>

Data == [pose : Poses, ranges : Scans]
Waypoints == [point : Area, n_point : Area]

(***************************************************************************)
(* The globals of A*; for the properties what its last search said and the *)
(* whole path it found last; and what a turn writes, sent at its end.      *)
(***************************************************************************)
AStarState == [pose : Cells \cup {NoNode}, obstacles : SUBSET Cells, goal_path : Seq(Area),
               current_goal : Area \cup {NoNode}, n_current_goal : Area \cup {NoNode},
               status : {"none", "solved", "failed", "crashed"},
               route : Seq(Area), sent : Seq(Waypoints)]

Origin == gridify(<<GRID_NUM, GRID_NUM>>)

Init ==
    /\ fed = 0
    /\ free \in BOOLEAN
    /\ mapData = <<>> /\ artData = <<>> /\ updates = <<>> /\ responses = <<>>
    /\ acks = 0
    /\ requests = 1
    /\ seen = [c \in Cells |-> 0]
    /\ astar = [pose |-> NoNode, obstacles |-> {}, goal_path |-> <<>>,
                current_goal |-> NoNode, n_current_goal |-> NoNode, status |-> "none",
                route |-> <<>>, sent |-> <<>>]
    /\ artpot = [goal |-> Origin, next_goal |-> Origin]

(***************************************************************************)
(* Filter writes the same message to ArtPot and to Mapper.  In the normal  *)
(* course, to which the model keeps, it has the next one when ArtPot has   *)
(* read the last: the Benchmarker waits for the move command.              *)
(***************************************************************************)
Feed(d) ==
    /\ fed < MaxData
    /\ Len(mapData) + Len(updates) < MaxInFlight
    /\ artData = <<>>
    /\ fed' = fed + 1
    /\ mapData' = Append(mapData, d)
    /\ artData' = Append(artData, d)
    /\ UNCHANGED <<free, updates, acks, requests, responses, seen, astar, artpot>>

-----------------------------------------------------------------------------
(***************************************************************************)
(* Mapper.                                                                 *)
(***************************************************************************)

(* The guard of addObstacle lets GRID_NUM itself pass. *)
Erroneous(c) == c[1] < 0 \/ c[1] > GRID_NUM \/ c[2] < 0 \/ c[2] > GRID_NUM

AnnouncesAgain(m, c) == m.seen[c] + 1 > OBS_THRES

Announces(m, c) == m.seen[c] <= OBS_THRES /\ m.seen[c] + 1 > OBS_THRES

(* addObstacle, on the map and the obstacles of the message so far. *)
addObstacle(m, c) ==
    IF Erroneous(c) THEN m
    ELSE [seen |-> IF c \in DOMAIN m.seen /\ m.seen[c] <= OBS_THRES
                     THEN [m.seen EXCEPT ![c] = @ + 1] ELSE m.seen,
          obs  |-> IF c \notin DOMAIN m.seen \/ Announces(m, c)
                     THEN Append(m.obs, c) ELSE m.obs]

updateMap(d) ==
    LET after[k \in 0 .. Len(d.ranges)] ==
          IF k = 0 THEN [seen |-> seen, obs |-> <<>>]
          ELSE addObstacle(after[k-1], gridify(d.ranges[k]))
    IN  after[Len(d.ranges)]

MapperTurn ==
    /\ mapData # <<>> \/ acks > 0
    /\ IF mapData # <<>>
         THEN LET m == updateMap(Head(mapData)) IN
                /\ seen' = m.seen
                /\ updates' = Append(updates, [pose |-> Head(mapData).pose, obs |-> m.obs])
                /\ mapData' = Tail(mapData)
         ELSE UNCHANGED <<seen, updates, mapData>>
    /\ acks' = IF acks > 0 THEN acks - 1 ELSE acks
    /\ UNCHANGED <<fed, free, artData, requests, responses, astar, artpot>>

-----------------------------------------------------------------------------
(***************************************************************************)
(* A*.  The operators map its state to the next one.                       *)
(***************************************************************************)
Send(a, p, q) == [a EXCEPT !.sent = Append(@, [point |-> p, n_point |-> q])]

Node(path, k) == IF k <= Len(path) THEN path[k] ELSE NoNode

(***************************************************************************)
(* sendWaypoints takes two nodes off the path.  With one left it takes it  *)
(* and sends nothing.                                                      *)
(***************************************************************************)
sendWaypoints(a) ==
    LET p == Node(a.goal_path, 1)
        q == Node(a.goal_path, 2)
        taken == [a EXCEPT !.current_goal = p, !.n_current_goal = q,
                           !.goal_path = SubSeq(@, 3, Len(@))]
    IN  IF p = NoNode THEN Send(taken, GoalCell, GoalCell)
        ELSE IF q = NoNode THEN taken
        ELSE Send(taken, p, q)

nodeEquals(p, q) == p # NoNode /\ p = q

SamePathFirst(a, path) == nodeEquals(Node(path, 1), a.current_goal)

SamePath(a, path) ==
    /\ nodeEquals(Node(path, 1), a.current_goal)
    /\ nodeEquals(Node(path, 2), a.n_current_goal)

(* The old path is erased before the new one is pushed. *)
NewPathOnOld(old, path) == path \o old

NewPath(old, path) == path

(* command, given the result of the search: without a solution the old path stays. *)
command(a, r) ==
    IF r.status # "solved" THEN [a EXCEPT !.status = r.status]
    ELSE LET b == [a EXCEPT !.status = "solved", !.route = r.path,
                            !.goal_path = NewPath(@, r.path)]
         IN  IF SamePath(a, r.path) THEN b ELSE sendWaypoints(b)

(* A waypoint request. *)
answer(a) == IF a.goal_path = <<>> THEN Send(a, GoalCell, GoalCell) ELSE sendWaypoints(a)

(* A map update: the obstacles marked. *)
Marked(u) == ToSet(u.obs)

(* The first half of a turn: the map update, if one was ready. *)
updated(a) ==
    IF updates = <<>> THEN a
    ELSE LET u == Head(updates)
             marked == [a EXCEPT !.pose = u.pose, !.obstacles = @ \cup Marked(u)]
         IN  IF u.obs = <<>> THEN marked
             ELSE command(marked, Search(marked.obstacles, free, u.pose))

(* The second half, which a crash in the first one prevents. *)
answered(a) == IF requests = 0 \/ a.status = "crashed" THEN a ELSE answer(a)

AStarTurn ==
    /\ astar.status # "crashed"
    /\ updates # <<>> \/ requests > 0
    /\ \E a \in {answered(updated(astar))} :
         /\ astar' = [a EXCEPT !.sent = <<>>]
         /\ responses' = responses \o a.sent
         /\ requests' = IF requests > 0 /\ a.status # "crashed" THEN requests - 1 ELSE requests
    /\ updates' = IF updates # <<>> THEN Tail(updates) ELSE updates
    /\ acks' = IF updates # <<>> THEN acks + 1 ELSE acks
    /\ UNCHANGED <<fed, free, mapData, artData, seen, artpot>>

-----------------------------------------------------------------------------
(***************************************************************************)
(* ArtPot.                                                                 *)
(***************************************************************************)
There(c, g) ==
    (c[1] - g[1]) * (c[1] - g[1]) + (c[2] - g[2]) * (c[2] - g[2]) <= DIST_EPSILON

(* command at the goal takes the next goal and asks for more. *)
ArtPotTurn ==
    /\ artData # <<>> \/ responses # <<>>
    /\ LET asks  == artData # <<>> /\ There(Head(artData).pose, artpot.goal)
           moved == IF asks THEN [artpot EXCEPT !.goal = artpot.next_goal] ELSE artpot
       IN  /\ requests' = IF asks THEN requests + 1 ELSE requests
           /\ artpot' = IF responses # <<>>
                          THEN [goal |-> Head(responses).point, next_goal |-> Head(responses).n_point]
                          ELSE moved
    /\ artData' = IF artData # <<>> THEN Tail(artData) ELSE artData
    /\ responses' = IF responses # <<>> THEN Tail(responses) ELSE responses
    /\ UNCHANGED <<fed, free, mapData, updates, acks, seen, astar>>

-----------------------------------------------------------------------------
Next ==
    \/ \E d \in Data : Feed(d)
    \/ MapperTurn
    \/ AStarTurn
    \/ ArtPotTurn

Spec == Init /\ [][Next]_vars

-----------------------------------------------------------------------------
(* Types; obstacles lie on the map, though the guard of addObstacle alone  *)
(* would let GRID_NUM through (mapper.c:79).                               *)
TypeOK ==
    /\ fed \in 0 .. MaxData /\ free \in BOOLEAN
    /\ mapData \in Seq(Data) /\ artData \in Seq(Data)
    /\ updates \in Seq([pose : Poses, obs : Seq(Cells)])
    /\ acks \in Nat /\ requests \in Nat
    /\ responses \in Seq(Waypoints)
    /\ seen \in [Cells -> 0 .. OBS_THRES + 1]
    /\ astar \in AStarState
    /\ artpot \in [goal : Area, next_goal : Area]

(***************************************************************************)
(* The planner's map is the mapper's: an obstacle the Mapper has counted   *)
(* often enough is known to A* or in an update on its way, once, and       *)
(* nothing else is (addObstacle, updateMap; enterLoop of a_star.c).        *)
(***************************************************************************)
InFlight == UNION {ToSet(updates[i].obs) : i \in DOMAIN updates}

Once ==
    \A i, j \in DOMAIN updates :
        \A k \in DOMAIN updates[i].obs, l \in DOMAIN updates[j].obs :
            updates[i].obs[k] = updates[j].obs[l] => i = j /\ k = l

MapsAgree ==
    /\ astar.obstacles \cup InFlight = {c \in Cells : seen[c] > OBS_THRES}
    /\ astar.obstacles \cap InFlight = {}
    /\ Once

(***************************************************************************)
(* The way points that A* has still to send are the rest of its last       *)
(* route, and if its last search succeeded none of them is a known         *)
(* obstacle, but for the cell the robot was in (eraseList, push and pop in *)
(* command and sendWaypoints).                                             *)
(***************************************************************************)
PathAhead ==
    /\ IsSuffix(astar.goal_path, astar.route)
    /\ astar.status = "solved" =>
           ToSet(astar.goal_path) \cap astar.obstacles \subseteq {astar.route[1]}

(* A* has planned and not crashed. *)
Plans == astar'.obstacles # astar.obstacles /\ astar'.status # "crashed"

(***************************************************************************)
(* The comparison by which A* saves a message never keeps a new route from *)
(* ArtPot: after a search that succeeded, ArtPot heads, or will when it    *)
(* has read its pipe, for the first two nodes of the new route, or for the *)
(* second alone when it has passed the first; unless a request was         *)
(* answered in the same turn (command: "check if new path is different     *)
(* then old").                                                             *)
(***************************************************************************)
Told == IF responses = <<>> THEN <<artpot.goal, artpot.next_goal>>
        ELSE <<Last(responses).point, Last(responses).n_point>>

ToldTheRoute ==
    [][(Plans /\ astar'.status = "solved" /\ Len(astar'.route) >= 2 /\ requests = 0) =>
            /\ Told'[1] \in {astar'.route[1], astar'.route[2]}
            /\ Told'[2] = astar'.route[2]]_vars

(***************************************************************************)
(* The list that A* adds a node to is never NULL: pop says so of every     *)
(* list, "Never an empty list" (mapping.c:163), and addNode relies on it.  *)
(***************************************************************************)
NeverNullList == astar.status # "crashed"
=============================================================================
