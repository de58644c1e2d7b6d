--------------------------- MODULE MCNavigation ---------------------------
(***************************************************************************)
(* A map of four by four cells with the goal in the far corner.  Ranges    *)
(* end in one of the cells between, on the far edge or off the map.        *)
(***************************************************************************)
EXTENDS Routes

MCGoal == <<3, 3>>
MCPoses == {<<0, 0>>, <<2, 2>>}

(* Two ranges that end in one cell make it an obstacle at once. *)
Twice(p) == <<p, p>>
MCScans == {Twice(<<0, 5>>) \o Twice(<<3, 4>>),
            Twice(<<4, 2>>),
            Twice(<<8, 5>>) \o <<<<-2, 10>>>>,
            Twice(<<4, 7>>)}
=============================================================================
