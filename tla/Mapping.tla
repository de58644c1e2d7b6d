------------------------------ MODULE Mapping ------------------------------
(***************************************************************************)
(* The grid and the lists that Mapper and A* share (controllers/mapping.c).*)
(* A list is the sequence of its cells; the list that newList returns is   *)
(* empty.  A NULL list is not a value here: see RemovesLast.               *)
(***************************************************************************)
EXTENDS Integers, Sequences, SequencesExt

CONSTANT GRID_NUM

ASSUME GridAssumption == GRID_NUM \in Nat \ {0}

Cells == (0 .. GRID_NUM-1) \X (0 .. GRID_NUM-1)

(***************************************************************************)
(* gridify: a coordinate, here in half intervals from the edge of the map, *)
(* is divided and truncated towards zero; the far edge belongs to the last *)
(* cell.                                                                   *)
(***************************************************************************)
Truncated(u) == IF u >= 0 THEN u \div 2 ELSE -((-u) \div 2)

AtEdgeOpen(i) == i

AtEdge(i) == IF i = GRID_NUM THEN i - 1 ELSE i

gridify(p) == <<AtEdge(Truncated(p[1])), AtEdge(Truncated(p[2]))>>

-----------------------------------------------------------------------------
(* findNode: is a node with these coordinates in the list? *)
findNode(list, node) == \E i \in DOMAIN list : list[i].node = node

(* removeNode: the first cell with these coordinates goes. *)
removeNode(list, node) ==
    IF findNode(list, node)
      THEN RemoveAt(list, SelectInSeq(list, LAMBDA c : c.node = node))
      ELSE list

(* removeNode stores the tail in place of the cell removed: NULL for an only cell. *)
RemovesLast(list, node) == Len(list) = 1 /\ list[1].node = node

(* addNode: before the first cell with a greater value, behind equal ones. *)
addNodeFirst(list, node, val) == <<[node |-> node, val |-> val]>> \o list

addNode(list, node, val) ==
    LET k == SelectInSeq(list, LAMBDA c : c.val > val)
    IN  InsertAt(list, IF k = 0 THEN Len(list) + 1 ELSE k, [node |-> node, val |-> val])
=============================================================================
