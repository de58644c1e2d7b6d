-------------------------- MODULE Navigation_proofs --------------------------
(***************************************************************************)
(* Proofs about Mapper, A* and ArtPot, for every map, goal, threshold and  *)
(* range.                                                                  *)
(***************************************************************************)
EXTENDS Navigation, SequenceTheorems, FiniteSetTheorems, WellFoundedInduction, TLAPS

(* A set of natural numbers that is not empty has a least one. *)
LEMMA LeastNat ==
  ASSUME NEW T \in SUBSET Nat, T # {}
  PROVE  \E x \in T : \A y \in T : x <= y
<1>1. \E x \in T : \A y \in T : ~(<<y, x>> \in OpToRel(<, Nat))
  BY WFMin, NatLessThanWellFounded
<1>2. PICK x \in T : \A y \in T : ~(<<y, x>> \in OpToRel(<, Nat))
  BY <1>1
<1>3. \A y \in T : x <= y
  <2> TAKE y \in T
  <2>1. x \in Nat /\ y \in Nat
    OBVIOUS
  <2>2. ~(y < x)
    BY <1>2, <2>1 DEF OpToRel
  <2> QED BY <2>1, <2>2
<1> QED BY <1>3

(* Induction: a set that has 0, and with each number the next up to N. *)
LEMMA UpTo ==
  ASSUME NEW N \in Nat, NEW T, 0 \in T, \A n \in 1 .. N : n - 1 \in T => n \in T
  PROVE  \A n \in 0 .. N : n \in T
<1> DEFINE M == {n \in 0 .. N : n \notin T}
<1> SUFFICES ASSUME M # {} PROVE FALSE
  OBVIOUS
<1>1. M \in SUBSET Nat
  OBVIOUS
<1>2. PICK n \in M : \A m \in M : n <= m
  <2> HIDE DEF M
  <2> QED BY <1>1, LeastNat
<1>3. n \in 1 .. N /\ n - 1 \in 0 .. N
  OBVIOUS
<1>4. n - 1 \notin M
  BY <1>2, <1>3
<1> QED BY <1>3, <1>4

-----------------------------------------------------------------------------
(***************************************************************************)
(* The lists of Mapping.                                                   *)
(***************************************************************************)

(* The nodes of a list, whatever their values, and that none is there twice. *)
ListOf(list, A) == \E V : list \in Seq([node : A, val : V])
Nodes(list) == {list[i].node : i \in DOMAIN list}
Unique(list) == \A i, j \in DOMAIN list : list[i].node = list[j].node => i = j

(* SelectInSeq is an index, or 0 when there is none. *)
LEMMA SelectIndex ==
  ASSUME NEW n \in Nat, NEW I \in SUBSET (1 .. n), I # {}
  PROVE  Min(I) \in I
<1>1. PICK x \in I : \A y \in I : x <= y
  BY LeastNat
<1> QED BY <1>1 DEF Min

LEMMA InsertAtIs ==
  ASSUME NEW T, NEW s \in Seq(T), NEW i \in 1 .. Len(s) + 1, NEW e \in T
  PROVE  /\ InsertAt(s, i, e) \in Seq(T) /\ Len(InsertAt(s, i, e)) = Len(s) + 1
         /\ \A j \in 1 .. Len(s) + 1 : /\ j < i => InsertAt(s, i, e)[j] = s[j]
                                       /\ j = i => InsertAt(s, i, e)[j] = e
                                       /\ j > i => InsertAt(s, i, e)[j] = s[j - 1]
<1> DEFINE a == SubSeq(s, 1, i - 1)
           b == SubSeq(s, i, Len(s))
           ae == a \o <<e>>
<1>1. Len(s) \in Nat /\ i \in Nat /\ \A j \in 1 .. Len(s) : s[j] \in T
  BY LenProperties, ElementOfSeq
<1>2. /\ a \in Seq(T) /\ Len(a) = i - 1 /\ \A j \in 1 .. i - 1 : a[j] = s[j]
  BY <1>1, SubSeqProperties
<1>3. /\ b \in Seq(T) /\ Len(b) = Len(s) + 1 - i /\ \A j \in 1 .. Len(s) + 1 - i : b[j] = s[i + j - 1]
  BY <1>1, SubSeqProperties
<1> HIDE DEF a, b
<1>4. /\ ae \in Seq(T) /\ Len(ae) = i /\ \A j \in 1 .. i : ae[j] = IF j < i THEN s[j] ELSE e
  BY <1>1, <1>2
<1> HIDE DEF ae
<1>5. /\ ae \o b \in Seq(T) /\ Len(ae \o b) = Len(s) + 1
      /\ \A j \in 1 .. Len(s) + 1 : (ae \o b)[j] = IF j <= i THEN ae[j] ELSE b[j - i]
  <2>1. /\ ae \o b \in Seq(T) /\ Len(ae \o b) = Len(ae) + Len(b)
        /\ \A j \in 1 .. Len(ae) + Len(b) :
              (ae \o b)[j] = IF j <= Len(ae) THEN ae[j] ELSE b[j - Len(ae)]
    BY ONLY <1>3, <1>4, ConcatProperties
  <2>2. Len(ae) + Len(b) = Len(s) + 1
    BY <1>1, <1>3, <1>4
  <2> QED BY <1>4, <2>1, <2>2
<1>6. InsertAt(s, i, e) = ae \o b
  BY DEF InsertAt, ae, a, b
<1>7. ASSUME NEW j \in 1 .. Len(s) + 1, j > i PROVE b[j - i] = s[j - 1]
  <2>1. j - i \in 1 .. Len(s) + 1 - i /\ i + (j - i) - 1 = j - 1
    BY <1>1, <1>7
  <2> QED BY <1>3, <2>1
<1> QED BY <1>1, <1>4, <1>5, <1>6, <1>7

LEMMA RemoveAtIs ==
  ASSUME NEW T, NEW s \in Seq(T), NEW i \in 1 .. Len(s)
  PROVE  /\ RemoveAt(s, i) \in Seq(T) /\ Len(RemoveAt(s, i)) = Len(s) - 1
         /\ \A j \in 1 .. Len(s) - 1 : RemoveAt(s, i)[j] = IF j < i THEN s[j] ELSE s[j + 1]
<1> DEFINE a == SubSeq(s, 1, i - 1)
           b == SubSeq(s, i + 1, Len(s))
<1>1. Len(s) \in Nat /\ i \in Nat /\ \A j \in 1 .. Len(s) : s[j] \in T
  BY LenProperties, ElementOfSeq
<1>2. /\ a \in Seq(T) /\ Len(a) = i - 1 /\ \A j \in 1 .. i - 1 : a[j] = s[j]
  BY <1>1, SubSeqProperties
<1>3. /\ b \in Seq(T) /\ Len(b) = Len(s) - i /\ \A j \in 1 .. Len(s) - i : b[j] = s[i + 1 + j - 1]
  BY <1>1, SubSeqProperties
<1> HIDE DEF a, b
<1>4. /\ a \o b \in Seq(T) /\ Len(a \o b) = Len(s) - 1
      /\ \A j \in 1 .. Len(s) - 1 : (a \o b)[j] = IF j <= i - 1 THEN a[j] ELSE b[j - (i - 1)]
  <2>1. /\ a \o b \in Seq(T) /\ Len(a \o b) = Len(a) + Len(b)
        /\ \A j \in 1 .. Len(a) + Len(b) :
              (a \o b)[j] = IF j <= Len(a) THEN a[j] ELSE b[j - Len(a)]
    BY ONLY <1>2, <1>3, ConcatProperties
  <2>2. Len(a) + Len(b) = Len(s) - 1
    BY <1>1, <1>2, <1>3
  <2> QED BY <1>2, <2>1, <2>2
<1>5. RemoveAt(s, i) = a \o b
  BY DEF RemoveAt, a, b
<1>6. ASSUME NEW j \in 1 .. Len(s) - 1, j >= i PROVE b[j - (i - 1)] = s[j + 1]
  <2>1. j - (i - 1) \in 1 .. Len(s) - i /\ i + 1 + (j - (i - 1)) - 1 = j + 1
    BY <1>1, <1>6
  <2> QED BY <1>3, <2>1
<1> DEFINE c == a \o b
<1> HIDE DEF c
<1>7. ASSUME NEW j \in 1 .. Len(s) - 1
      PROVE  c[j] = IF j < i THEN s[j] ELSE s[j + 1]
  <2>1. CASE j < i
    <3>1. j \in 1 .. i - 1
      BY <1>1, <2>1
    <3> QED BY <1>1, <1>2, <1>4, <2>1, <3>1 DEF c
  <2>2. CASE j >= i
    <3>1. ~(j < i) /\ ~(j <= i - 1)
      BY <1>1, <2>2
    <3> QED BY <1>4, <1>6, <2>2, <3>1 DEF c
  <2>3. j < i \/ j >= i
    BY <1>1
  <2> QED BY <2>1, <2>2, <2>3
<1> QED BY <1>4, <1>5, <1>7 DEF c

(* addNode: a node that was not there is added. *)
LEMMA AddNode ==
  ASSUME NEW A, NEW n \in A, NEW val, NEW list, ListOf(list, A), Unique(list), n \notin Nodes(list)
  PROVE  LET new == addNode(list, n, val)
         IN  ListOf(new, A) /\ Unique(new) /\ Nodes(new) = Nodes(list) \cup {n} /\ new # <<>>
<1> DEFINE new == addNode(list, n, val)
           e == [node |-> n, val |-> val]
<1>1. PICK V : list \in Seq([node : A, val : V])
  BY DEF ListOf
<1> DEFINE T == [node : A, val : V \cup {val}]
           I == {i \in 1 .. Len(list) : list[i].val > val}
           m == IF I # {} THEN Min(I) ELSE Len(list) + 1
<1>2. list \in Seq(T) /\ e \in T /\ Len(list) \in Nat /\ DOMAIN list = 1 .. Len(list)
  <2>1. [node : A, val : V] \subseteq T /\ e \in T
    OBVIOUS
  <2> QED BY <1>1, <2>1, SeqMonotonic, LenProperties
<1>3. m \in 1 .. Len(list) + 1
  <2>1. I \in SUBSET (1 .. Len(list))
    OBVIOUS
  <2>2. I # {} => Min(I) \in I
    <3> HIDE DEF I
    <3> QED BY <1>2, <2>1, SelectIndex
  <2>3. CASE I = {}
    BY <1>2, <2>3
  <2>4. CASE I # {}
    <3>1. m = Min(I)
      BY <2>4
    <3>2. m \in 1 .. Len(list)
      BY <2>1, <2>2, <2>4, <3>1
    <3> HIDE DEF m
    <3> QED BY <1>2, <3>2
  <2> QED BY <2>3, <2>4
<1>4. new = InsertAt(list, m, e)
  <2>1. SelectInSeq(list, LAMBDA c : c.val > val) = IF I # {} THEN Min(I) ELSE 0
    BY DEF SelectInSeq
  <2>2. I # {} => Min(I) # 0
    BY <1>3, <1>2
  <2> HIDE DEF I
  <2> QED BY <2>1, <2>2 DEF addNode
<1> HIDE DEF T, I, m, e, new
<1>5. /\ new \in Seq(T) /\ Len(new) = Len(list) + 1
      /\ \A j \in 1 .. Len(list) + 1 : /\ j < m => new[j] = list[j]
                                       /\ j = m => new[j] = e
                                       /\ j > m => new[j] = list[j - 1]
  <2>1. list \in Seq(T) /\ e \in T /\ m \in 1 .. Len(list) + 1
    BY <1>2, <1>3
  <2>2. /\ InsertAt(list, m, e) \in Seq(T) /\ Len(InsertAt(list, m, e)) = Len(list) + 1
        /\ \A j \in 1 .. Len(list) + 1 : /\ j < m => InsertAt(list, m, e)[j] = list[j]
                                         /\ j = m => InsertAt(list, m, e)[j] = e
                                         /\ j > m => InsertAt(list, m, e)[j] = list[j - 1]
    BY <2>1, InsertAtIs
  <2> QED BY <1>4, <2>2
<1>6. ListOf(new, A)
  BY <1>5 DEF ListOf, T
<1>7. DOMAIN new = 1 .. Len(list) + 1
  BY <1>5, LenProperties
<1> DEFINE old(j) == IF j < m THEN j ELSE j - 1
<1>8. /\ e.node = n /\ new[m].node = n
      /\ \A j \in 1 .. Len(list) + 1 : j # m =>
            new[j].node = list[old(j)].node /\ old(j) \in 1 .. Len(list)
  BY <1>2, <1>3, <1>5 DEF e
<1>9. Nodes(new) \subseteq Nodes(list) \cup {n}
  BY <1>2, <1>7, <1>8 DEF Nodes
<1>10. ASSUME NEW i \in 1 .. Len(list)
       PROVE  \E j \in 1 .. Len(list) + 1 : new[j].node = list[i].node
  <2>1. CASE i < m
    <3>1. i \in 1 .. Len(list) + 1 /\ i # m /\ old(i) = i
      BY <1>2, <1>3, <2>1
    <3> QED BY <1>8, <3>1
  <2>2. CASE i >= m
    <3>1. i + 1 \in 1 .. Len(list) + 1 /\ i + 1 # m /\ old(i + 1) = i
      BY <1>2, <1>3, <2>2
    <3> QED BY <1>8, <3>1
  <2> QED BY <1>2, <1>3, <2>1, <2>2
<1>11. Nodes(new) = Nodes(list) \cup {n}
  <2>1. Nodes(list) \subseteq Nodes(new)
    BY <1>2, <1>7, <1>10 DEF Nodes
  <2>2. n \in Nodes(new)
    BY <1>3, <1>7, <1>8 DEF Nodes
  <2> QED BY <1>9, <2>1, <2>2
<1>12. Unique(new)
  <2> SUFFICES ASSUME NEW i \in 1 .. Len(list) + 1, NEW j \in 1 .. Len(list) + 1,
                      new[i].node = new[j].node
               PROVE  i = j
    BY <1>7 DEF Unique
  <2>1. \A k \in 1 .. Len(list) : list[k].node # n
    BY <1>2 DEF Nodes
  <2>2. i = m <=> j = m
    BY <1>8, <2>1
  <2>3. CASE i # m /\ j # m
    <3>1. old(i) = old(j)
      BY <1>2, <1>8, <2>3 DEF Unique
    <3> QED BY <1>3, <2>3, <3>1
  <2> QED BY <2>2, <2>3
<1>13. new # <<>>
  BY <1>2, <1>5
<1> QED BY <1>6, <1>11, <1>12, <1>13 DEF new

(* removeNode: the node is gone, the others stay. *)
LEMMA RemoveNode ==
  ASSUME NEW A, NEW n, NEW list, ListOf(list, A), Unique(list)
  PROVE  LET new == removeNode(list, n)
         IN  ListOf(new, A) /\ Unique(new) /\ Nodes(new) = Nodes(list) \ {n}
<1>1. PICK V : list \in Seq([node : A, val : V])
  BY DEF ListOf
<1> DEFINE T == [node : A, val : V]
           I == {i \in 1 .. Len(list) : list[i].node = n}
<1>2. list \in Seq(T) /\ Len(list) \in Nat /\ DOMAIN list = 1 .. Len(list)
  BY <1>1, LenProperties
<1>3. CASE I = {}
  BY <1>2, <1>3 DEF removeNode, findNode, Nodes
<1>4. CASE I # {}
  <2> DEFINE m == Min(I)
             new == RemoveAt(list, m)
             old(j) == IF j < m THEN j ELSE j + 1
  <2>1. m \in 1 .. Len(list) /\ list[m].node = n
    <3>1. I \in SUBSET (1 .. Len(list))
      OBVIOUS
    <3>2. Min(I) \in I
      <4> HIDE DEF I
      <4> QED BY <1>2, <1>4, <3>1, SelectIndex
    <3> QED BY <3>2
  <2>2. removeNode(list, n) = new
    <3>1. SelectInSeq(list, LAMBDA c : c.node = n) = m
      BY <1>4 DEF SelectInSeq
    <3>2. findNode(list, n)
      BY <1>2, <1>4 DEF findNode
    <3> HIDE DEF m
    <3> QED BY <3>1, <3>2 DEF removeNode
  <2> HIDE DEF T, I, m, new
  <2>3. /\ new \in Seq(T) /\ Len(new) = Len(list) - 1
        /\ \A j \in 1 .. Len(list) - 1 : new[j] = IF j < m THEN list[j] ELSE list[j + 1]
    BY <1>2, <2>1, RemoveAtIs DEF new
  <2>4. ListOf(new, A) /\ DOMAIN new = 1 .. Len(list) - 1
    BY <2>3, LenProperties DEF ListOf, T
  <2>5. \A j \in 1 .. Len(list) - 1 :
           new[j].node = list[old(j)].node /\ old(j) \in 1 .. Len(list) /\ old(j) # m
    BY <1>2, <2>1, <2>3
  <2>6. ASSUME NEW i \in 1 .. Len(list), list[i].node # n
        PROVE  \E j \in 1 .. Len(list) - 1 : new[j].node = list[i].node
    <3>1. CASE i < m
      <4>1. i \in 1 .. Len(list) - 1 /\ old(i) = i
        BY <1>2, <2>1, <3>1
      <4> QED BY <2>5, <4>1
    <3>2. CASE i > m
      <4>1. i - 1 \in 1 .. Len(list) - 1 /\ old(i - 1) = i
        BY <1>2, <2>1, <3>2
      <4> QED BY <2>5, <4>1
    <3> QED BY <1>2, <2>1, <2>6, <3>1, <3>2
  <2>7. \A j \in 1 .. Len(list) - 1 : new[j].node # n
    BY <1>2, <2>1, <2>5 DEF Unique
  <2>8. Nodes(new) = Nodes(list) \ {n}
    <3>1. Nodes(new) \subseteq Nodes(list) \ {n}
      BY <1>2, <2>4, <2>5, <2>7 DEF Nodes
    <3>2. Nodes(list) \ {n} \subseteq Nodes(new)
      BY <1>2, <2>4, <2>6 DEF Nodes
    <3> QED BY <3>1, <3>2
  <2>9. Unique(new)
    <3> SUFFICES ASSUME NEW i \in 1 .. Len(list) - 1, NEW j \in 1 .. Len(list) - 1,
                        new[i].node = new[j].node
                 PROVE  i = j
      BY <2>4 DEF Unique
    <3>1. old(i) = old(j)
      BY <1>2, <2>5 DEF Unique
    <3> QED BY <2>1, <3>1
  <2> QED BY <2>2, <2>4, <2>8, <2>9
<1> QED BY <1>3, <1>4

LEMMA NodesIn ==
  ASSUME NEW A, NEW list, ListOf(list, A)
  PROVE  Nodes(list) \subseteq A
<1>1. PICK V : list \in Seq([node : A, val : V])
  BY DEF ListOf
<1>2. \A i \in DOMAIN list : list[i] \in [node : A, val : V]
  BY <1>1, ElementOfSeq, LenProperties
<1> QED BY <1>2 DEF Nodes

(* pop, for a node of the open list: the others stay. *)
LEMMA PopNode ==
  ASSUME NEW A, NEW list, ListOf(list, A), Unique(list), list # <<>>
  PROVE  /\ ListOf(Tail(list), A) /\ Unique(Tail(list))
         /\ Nodes(Tail(list)) = Nodes(list) \ {list[1].node} /\ list[1].node \in A \cap Nodes(list)
<1>1. PICK V : list \in Seq([node : A, val : V])
  BY DEF ListOf
<1> DEFINE T == [node : A, val : V]
           new == Tail(list)
<1>2. list \in Seq(T) /\ Len(list) \in Nat \ {0} /\ DOMAIN list = 1 .. Len(list)
  BY <1>1, LenProperties, EmptySeq
<1> HIDE DEF T
<1>3. /\ new \in Seq(T) /\ Len(new) = Len(list) - 1
      /\ \A j \in 1 .. Len(list) - 1 : new[j] = list[j + 1]
  BY <1>2, HeadTailProperties
<1> HIDE DEF new
<1>4. ListOf(new, A) /\ DOMAIN new = 1 .. Len(list) - 1
  BY <1>2, <1>3, LenProperties DEF ListOf, T
<1>5. list[1].node \in A /\ list[1].node \in Nodes(list)
  <2>1. list[1] \in T /\ 1 \in DOMAIN list
    BY <1>2, ElementOfSeq
  <2>2. list[1].node \in A
    BY <2>1 DEF T
  <2> QED BY <2>1, <2>2 DEF Nodes
<1>6. Nodes(new) \subseteq Nodes(list) \ {list[1].node}
  <2>1. \A j \in 1 .. Len(list) - 1 :
           j + 1 \in 1 .. Len(list) /\ j + 1 # 1 /\ new[j].node = list[j + 1].node
    BY <1>2, <1>3
  <2>2. \A i \in 1 .. Len(list) : i # 1 => list[i].node # list[1].node
    BY <1>2 DEF Unique
  <2>3. ASSUME NEW j \in DOMAIN new
        PROVE  new[j].node \in Nodes(list) /\ new[j].node # list[1].node
    <3>1. j + 1 \in DOMAIN list /\ j + 1 # 1 /\ new[j].node = list[j + 1].node
      BY <1>2, <1>4, <2>1
    <3> QED BY <1>2, <2>2, <3>1 DEF Nodes
  <2> QED BY <2>3 DEF Nodes
<1>7. Nodes(list) \ {list[1].node} \subseteq Nodes(new)
  <2>1. \A i \in 1 .. Len(list) : i # 1 =>
           i - 1 \in 1 .. Len(list) - 1 /\ new[i - 1].node = list[i].node
    BY <1>2, <1>3
  <2> QED BY <1>2, <1>4, <2>1 DEF Nodes
<1>8. Unique(new)
  <2>1. \A j \in 1 .. Len(list) - 1 : j + 1 \in 1 .. Len(list) /\ new[j].node = list[j + 1].node
    BY <1>2, <1>3
  <2>2. \A i, j \in 1 .. Len(list) - 1 : new[i].node = new[j].node => i + 1 = j + 1
    BY <1>2, <2>1 DEF Unique
  <2> QED BY <1>4, <2>2 DEF Unique
<1> QED BY <1>4, <1>5, <1>6, <1>7, <1>8 DEF new

-----------------------------------------------------------------------------
(***************************************************************************)
(* The search.                                                             *)
(***************************************************************************)

(* A node with a neighbour in reach, and the neighbour, are in the area. *)
LEMMA AreaTyped ==
  /\ Cells \subseteq Area /\ NoNode \notin Area
  /\ \A obs, ring, a : \A b \in genNeighbors(obs, ring, a) : b \in Area /\ (b \in Cells => b \notin obs)
<1>1. Cells \subseteq Area /\ NoNode \notin Area
  BY GridAssumption DEF Cells, Area, NoNode
<1>2. \A obs, ring, a : \A b \in genNeighbors(obs, ring, a) : ~Blocked(obs, ring, b)
  BY DEF genNeighbors, CanStep
<1> QED BY <1>1, <1>2 DEF Blocked

(***************************************************************************)
(* A state of the search after k rounds.  rank is the order in which the   *)
(* nodes were closed; the back link of a node leads to a neighbour that    *)
(* was closed before, and only the start has none.                         *)
(***************************************************************************)
Searching(s) ==
  /\ DOMAIN s = {"open", "closed", "g", "back", "null"}
  /\ ListOf(s.open, Area) /\ Unique(s.open)
  /\ s.closed \in SUBSET Area /\ s.closed \cap Nodes(s.open) = {}
  /\ s.back \in [Area -> Area \cup {NoNode}]
  /\ s.null \in BOOLEAN

Linked(obs, ring, pose, s) ==
  /\ \A n \in Area : s.back[n] # NoNode =>
        s.back[n] \in s.closed /\ n \in genNeighbors(obs, ring, s.back[n])
  /\ \A n \in s.closed \cup Nodes(s.open) : s.back[n] = NoNode => n = pose
  /\ s.back[pose] = NoNode

Ranked(s, k, rank) ==
  /\ k \in Nat /\ rank \in [s.closed -> 1 .. k]
  /\ IsFiniteSet(s.closed) /\ Cardinality(s.closed) = k
  /\ \A n \in s.closed : s.back[n] # NoNode => rank[s.back[n]] < rank[n]

(* What has been seen; but for a crash, all around the nodes closed, not the goal among them. *)
Seen(s) == s.closed \cup Nodes(s.open)

Explored(obs, ring, s) ==
  ~s.null => \A n \in s.closed : n # GoalCell /\ genNeighbors(obs, ring, n) \subseteq Seen(s)

(* What entering a node n keeps. *)
Entered(obs, ring, pose, s, k, rank, n, new) ==
  /\ Searching(new) /\ Linked(obs, ring, pose, new) /\ Ranked(new, k, rank)
  /\ new.closed = s.closed
  /\ Seen(s) \subseteq Seen(new)
  /\ ~new.null => ~s.null /\ n \in Seen(new)

(* An unblocked neighbour of a closed node is entered, or stays as it was. *)
LEMMA RelaxKeeps ==
  ASSUME NEW obs, NEW ring, NEW pose, NEW s, NEW k, NEW rank, NEW current, NEW n,
         Searching(s), Linked(obs, ring, pose, s), Ranked(s, k, rank),
         current \in s.closed, pose \in s.closed, n \in genNeighbors(obs, ring, current)
  PROVE  Entered(obs, ring, pose, s, k, rank, n, Relax(s, current, n))
<1> DEFINE new == Relax(s, current, n)
           tent == s.g[current] + estDistance(n, current)
           val == tent + estDistance(n, GoalCell)
           rest == removeNode(s.open, n)
           open == addNode(rest, n, val)
<1> DEFINE skip == s.null \/ n \in s.closed \/ (findNode(s.open, n) /\ tent >= s.g[n])
<1>0. SUFFICES ASSUME ~skip
               PROVE  Entered(obs, ring, pose, s, k, rank, n, new)
  <2>1. CASE skip
    <3>1. new = s
      BY <2>1 DEF Relax
    <3>2. s.null \/ n \in Seen(s)
      BY <2>1 DEF findNode, Nodes, Seen
    <3> HIDE DEF new
    <3> QED BY <3>1, <3>2 DEF Entered, new
  <2> QED BY <2>1
<1>1. /\ n \notin s.closed /\ ~s.null
      /\ new = [s EXCEPT !.g[n] = tent, !.back[n] = current,
                         !.null = RemovesLast(s.open, n), !.open = open]
  BY <1>0 DEF Relax
<1>2. n \in Area /\ current \in Area /\ current # NoNode /\ n # pose
  BY <1>1, AreaTyped DEF Searching
<1>3. ListOf(open, Area) /\ Unique(open) /\ Nodes(open) = Nodes(s.open) \cup {n}
  <2>1. ListOf(rest, Area) /\ Unique(rest) /\ Nodes(rest) = Nodes(s.open) \ {n}
    BY RemoveNode DEF Searching
  <2> HIDE DEF rest, val
  <2>2. ListOf(open, Area) /\ Unique(open) /\ Nodes(open) = Nodes(rest) \cup {n}
    BY <1>2, <2>1, AddNode
  <2> QED BY <2>1, <2>2
<1> HIDE DEF new, open, tent
<1>4. /\ DOMAIN new = {"open", "closed", "g", "back", "null"}
      /\ new.open = open /\ new.closed = s.closed /\ new.null = RemovesLast(s.open, n)
      /\ new.back = [s.back EXCEPT ![n] = current]
  BY <1>1 DEF Searching
<1>5. new.null \in BOOLEAN
  BY <1>4 DEF RemovesLast
<1>6. /\ new.back \in [Area -> Area \cup {NoNode}] /\ new.back[n] = current
      /\ \A m \in Area : m # n => new.back[m] = s.back[m]
  BY <1>2, <1>4 DEF Searching
<1>7. Searching(new)
  BY <1>1, <1>3, <1>4, <1>5, <1>6 DEF Searching
<1>8. Linked(obs, ring, pose, new)
  <2>1. pose \in Area /\ Nodes(open) \subseteq Area
    BY <1>3, NodesIn DEF Searching
  <2> QED BY <1>1, <1>2, <1>3, <1>4, <1>6, <2>1 DEF Linked, Searching
<1>9. Ranked(new, k, rank)
  BY <1>1, <1>4, <1>6 DEF Ranked, Searching
<1>10. Seen(s) \subseteq Seen(new) /\ n \in Seen(new)
  BY <1>3, <1>4 DEF Seen
<1> QED BY <1>1, <1>4, <1>7, <1>8, <1>9, <1>10 DEF Entered

(* A round begins: the head of the open list is closed. *)
LEMMA CloseHead ==
  ASSUME NEW obs, NEW ring, NEW pose, NEW s, NEW k, NEW rank,
         Searching(s), Linked(obs, ring, pose, s), Ranked(s, k, rank), ~Stopped(s),
         pose \in s.closed \/ s.open[1].node = pose
  PROVE  LET current == s.open[1].node
             new == Close(s, current)
         IN  /\ Searching(new) /\ Linked(obs, ring, pose, new) /\ \E r : Ranked(new, k + 1, r)
             /\ current \in new.closed /\ pose \in new.closed
             /\ new.closed = s.closed \cup {current} /\ new.null = s.null /\ Seen(new) = Seen(s)
<1> DEFINE current == s.open[1].node
           new == Close(s, current)
           r == [n \in s.closed \cup {current} |-> IF n = current THEN k + 1 ELSE rank[n]]
<1>1. s.open # <<>>
  BY DEF Stopped
<1>2. /\ ListOf(Tail(s.open), Area) /\ Unique(Tail(s.open))
      /\ Nodes(Tail(s.open)) = Nodes(s.open) \ {current} /\ current \in Area \cap Nodes(s.open)
  BY <1>1, PopNode DEF Searching
<1> HIDE DEF current
<1>4. /\ DOMAIN new = {"open", "closed", "g", "back", "null"}
      /\ new.open = Tail(s.open) /\ new.closed = s.closed \cup {current} /\ new.back = s.back
      /\ new.null = s.null
  BY DEF Searching, Close
<1> HIDE DEF new
<1>5. current \notin s.closed
  BY <1>2 DEF Searching
<1>6. Searching(new)
  BY <1>2, <1>4, <1>5 DEF Searching
<1>7. Linked(obs, ring, pose, new)
  BY <1>2, <1>4 DEF Linked
<1>8. Ranked(new, k + 1, r)
  <2>1. k + 1 \in Nat /\ r \in [new.closed -> 1 .. k + 1]
    BY <1>4, <1>5 DEF Ranked
  <2>2. IsFiniteSet(new.closed) /\ Cardinality(new.closed) = k + 1
    BY <1>4, <1>5, FS_AddElement DEF Ranked
  <2>3. ASSUME NEW n \in new.closed, new.back[n] # NoNode PROVE r[new.back[n]] < r[n]
    <3>1. s.back[n] \in s.closed
      BY <1>2, <1>4, <2>3 DEF Linked, Searching
    <3>2. r[s.back[n]] = rank[s.back[n]] /\ rank[s.back[n]] \in 1 .. k
      BY <1>5, <3>1 DEF Ranked
    <3>3. CASE n = current
      BY <1>4, <3>2, <3>3 DEF Ranked
    <3>4. CASE n # current
      BY <1>4, <2>3, <3>2, <3>4 DEF Ranked
    <3> QED BY <3>3, <3>4
  <2> HIDE DEF r
  <2> QED BY <2>1, <2>2, <2>3 DEF Ranked
<1>9. current \in new.closed /\ pose \in new.closed
  BY <1>4 DEF current
<1>10. Seen(new) = Seen(s)
  BY <1>2, <1>4 DEF Seen
<1> HIDE DEF r
<1> QED BY <1>4, <1>6, <1>7, <1>8, <1>9, <1>10 DEF new, current

(* The eight neighbours are taken one after the other. *)
LEMMA ExpandRounds ==
  ASSUME NEW obs, NEW ring, NEW s, NEW current
  PROVE  \E f : /\ f[0] = Close(s, current)
                /\ \A k \in 1 .. Len(Offsets) : f[k] =
                      IF CanStep(obs, ring, current, Neighbour(current, k))
                        THEN Relax(f[k - 1], current, Neighbour(current, k))
                        ELSE f[k - 1]
                /\ Expand(obs, ring, s, current) = f[Len(Offsets)]
<1> DEFINE N == Len(Offsets)
           start == Close(s, current)
           next(k, t) == IF CanStep(obs, ring, current, Neighbour(current, k))
                           THEN Relax(t, current, Neighbour(current, k)) ELSE t
           Is(f, n) == f = [k \in 0 .. n |-> IF k = 0 THEN start ELSE next(k, f[k - 1])]
           T == {n \in 0 .. N : \E f : Is(f, n)}
           h == CHOOSE f : Is(f, N)
<1>1. N \in Nat
  BY DEF Offsets
<1>2. Expand(obs, ring, s, current) = h[N]
  BY DEF Expand
<1> HIDE DEF N, start, next
<1>3. 0 \in T
  <2> DEFINE g == [k \in 0 .. 0 |-> start]
  <2>1. Is(g, 0)
    OBVIOUS
  <2> HIDE DEF g, Is
  <2> QED BY <1>1, <2>1
<1>4. ASSUME NEW n \in 1 .. N, n - 1 \in T PROVE n \in T
  <2>1. PICK f : Is(f, n - 1)
    BY <1>4
  <2> DEFINE g == [k \in 0 .. n |-> IF k = n THEN next(n, f[n - 1]) ELSE f[k]]
  <2>2. \A k \in 0 .. n - 1 : g[k] = f[k]
    BY <1>1
  <2>3. g[0] = start /\ \A k \in 1 .. n : g[k] = next(k, g[k - 1])
    BY <1>1, <2>1, <2>2
  <2>4. Is(g, n)
    <3>1. g = [k \in 0 .. n |-> g[k]]
      OBVIOUS
    <3> HIDE DEF g
    <3>2. \A k \in 0 .. n : g[k] = IF k = 0 THEN start ELSE next(k, g[k - 1])
      BY <1>1, <2>3
    <3>3. g = [k \in 0 .. n |-> IF k = 0 THEN start ELSE next(k, g[k - 1])]
      BY ONLY <3>1, <3>2
    <3> QED BY <3>3
  <2> HIDE DEF g, Is
  <2> QED BY <1>1, <2>4
<1>5. \E f : Is(f, N)
  <2>1. N \in T
    <3> HIDE DEF T
    <3> QED BY <1>1, <1>3, <1>4, UpTo
  <2> QED BY <2>1
<1>6. Is(h, N)
  <2> HIDE DEF Is
  <2> QED BY <1>5
<1> HIDE DEF h
<1>7. h[0] = start /\ \A k \in 1 .. N : h[k] = next(k, h[k - 1])
  BY <1>1, <1>6
<1> QED BY <1>2, <1>7 DEF next, start, N

(* A round keeps what a search has; it closes one node more. *)
LEMMA RoundKeeps ==
  ASSUME NEW obs, NEW ring, NEW pose, NEW s, NEW k, NEW rank,
         Searching(s), Linked(obs, ring, pose, s), Ranked(s, k, rank), ~Stopped(s),
         pose \in s.closed \/ s.open[1].node = pose, Explored(obs, ring, s)
  PROVE  LET new == Round(obs, ring, s)
         IN  /\ Searching(new) /\ Linked(obs, ring, pose, new) /\ \E r : Ranked(new, k + 1, r)
             /\ pose \in new.closed /\ Explored(obs, ring, new)
<1> DEFINE current == s.open[1].node
           start == Close(s, current)
           new == Round(obs, ring, s)
<1>1. /\ Searching(start) /\ Linked(obs, ring, pose, start) /\ \E r : Ranked(start, k + 1, r)
      /\ current \in start.closed /\ pose \in start.closed
      /\ start.closed = s.closed \cup {current} /\ start.null = s.null /\ Seen(start) = Seen(s)
  BY CloseHead
<1>2. PICK r, m : m = k + 1 /\ Ranked(start, m, r)
  BY <1>1
<1>3. PICK f : /\ f[0] = start
               /\ \A j \in 1 .. Len(Offsets) : f[j] =
                     IF CanStep(obs, ring, current, Neighbour(current, j))
                       THEN Relax(f[j - 1], current, Neighbour(current, j))
                       ELSE f[j - 1]
               /\ Expand(obs, ring, s, current) = f[Len(Offsets)]
  BY ExpandRounds
<1> DEFINE Tried(j) == {Neighbour(current, i) : i \in 1 .. j} \cap genNeighbors(obs, ring, current)
           Kept(t, j) == /\ Searching(t) /\ Linked(obs, ring, pose, t) /\ Ranked(t, m, r)
                         /\ t.closed = start.closed /\ Seen(start) \subseteq Seen(t)
                         /\ ~t.null => ~start.null /\ Tried(j) \subseteq Seen(t)
           T == {j \in 0 .. Len(Offsets) : Kept(f[j], j)}
<1> HIDE DEF current, start
<1>4. Len(Offsets) \in Nat /\ DOMAIN Offsets = 1 .. Len(Offsets)
  BY DEF Offsets
<1>5. 0 \in T
  <2>1. Tried(0) = {}
    OBVIOUS
  <2> HIDE DEF Tried
  <2> QED BY <1>1, <1>2, <1>3, <1>4, <2>1
<1>6. ASSUME NEW j \in 1 .. Len(Offsets), j - 1 \in T PROVE j \in T
  <2> DEFINE n == Neighbour(current, j)
             t == f[j - 1]
  <2>0. Tried(j) = Tried(j - 1) \cup ({n} \cap genNeighbors(obs, ring, current))
    <3>1. 1 .. j = (1 .. j - 1) \cup {j}
      BY <1>4
    <3>2. {Neighbour(current, i) : i \in 1 .. j} = {Neighbour(current, i) : i \in 1 .. j - 1} \cup {n}
      BY <3>1
    <3> HIDE DEF n
    <3> QED BY <3>2
  <2> HIDE DEF Tried
  <2>1. Kept(t, j - 1)
    BY <1>6
  <2>2. CASE CanStep(obs, ring, current, n)
    <3>1. n \in genNeighbors(obs, ring, current)
      BY <1>4, <2>2 DEF genNeighbors
    <3>2. f[j] = Relax(t, current, n)
      BY <1>3, <2>2
    <3>3. current \in t.closed /\ pose \in t.closed
      BY <1>1, <2>1
    <3> HIDE DEF n, t
    <3>4. Kept(Relax(t, current, n), j)
      <4>1. Searching(t) /\ Linked(obs, ring, pose, t) /\ Ranked(t, m, r)
        BY <2>1
      <4>2. Entered(obs, ring, pose, t, m, r, n, Relax(t, current, n))
        BY ONLY <3>1, <3>3, <4>1, RelaxKeeps
      <4> QED BY <2>0, <2>1, <4>2 DEF Entered
    <3> HIDE DEF Kept
    <3> QED BY <1>4, <3>2, <3>4
  <2>3. CASE ~CanStep(obs, ring, current, n)
    <3>1. f[j] = t
      BY <1>3, <2>3
    <3>2. n \notin genNeighbors(obs, ring, current)
      BY <2>3 DEF genNeighbors
    <3>3. Kept(t, j)
      <4> HIDE DEF n, t
      <4> QED BY <2>0, <2>1, <3>2
    <3> HIDE DEF Kept, t
    <3> QED BY <1>4, <3>1, <3>3
  <2> QED BY <2>2, <2>3
<1>7. Kept(f[Len(Offsets)], Len(Offsets))
  <2>1. \A j \in 0 .. Len(Offsets) : j \in T
    <3> HIDE DEF T
    <3> QED BY <1>4, <1>5, <1>6, UpTo
  <2> HIDE DEF Kept
  <2> QED BY <1>4, <2>1
<1>8. new = f[Len(Offsets)]
  BY <1>3 DEF Round, current
<1> HIDE DEF new
<1>9. Explored(obs, ring, new)
  <2>1. Tried(Len(Offsets)) = genNeighbors(obs, ring, current)
    BY <1>4 DEF genNeighbors
  <2> HIDE DEF Tried
  <2> SUFFICES ASSUME ~new.null, NEW n \in new.closed
               PROVE  n # GoalCell /\ genNeighbors(obs, ring, n) \subseteq Seen(new)
    BY DEF Explored
  <2>2. /\ ~start.null /\ genNeighbors(obs, ring, current) \subseteq Seen(new)
        /\ new.closed = start.closed /\ Seen(start) \subseteq Seen(new)
    BY <1>7, <1>8, <2>1
  <2>3. CASE n = current
    BY <2>2, <2>3 DEF Stopped, current
  <2>4. CASE n # current
    BY <1>1, <2>2, <2>4 DEF Explored
  <2> QED BY <2>3, <2>4
<1> QED BY <1>1, <1>2, <1>7, <1>8, <1>9 DEF new

(* The rounds of the loop. *)
LEMMA SearchRounds ==
  ASSUME NEW obs, NEW ring, NEW pose, NEW N \in Nat
  PROVE  \E f : /\ f[0] = Start(pose) /\ \A k \in 1 .. N : f[k] = Round(obs, ring, f[k - 1])
                /\ SearchAfter(obs, ring, pose, N) = f[N]
<1> DEFINE start == Start(pose)
           next(t) == Round(obs, ring, t)
           Is(f, n) == f = [k \in 0 .. n |-> IF k = 0 THEN start ELSE next(f[k - 1])]
           T == {n \in 0 .. N : \E f : Is(f, n)}
           h == CHOOSE f : Is(f, N)
<1>1. N \in Nat
  OBVIOUS
<1>2. SearchAfter(obs, ring, pose, N) = h[N]
  BY DEF SearchAfter
<1> HIDE DEF start, next
<1>3. 0 \in T
  <2> DEFINE g == [k \in 0 .. 0 |-> start]
  <2>1. Is(g, 0)
    OBVIOUS
  <2> HIDE DEF g, Is
  <2> QED BY <1>1, <2>1
<1>4. ASSUME NEW n \in 1 .. N, n - 1 \in T PROVE n \in T
  <2>1. PICK f : Is(f, n - 1)
    BY <1>4
  <2> DEFINE g == [k \in 0 .. n |-> IF k = n THEN next(f[n - 1]) ELSE f[k]]
  <2>2. \A k \in 0 .. n - 1 : g[k] = f[k]
    BY <1>1
  <2>3. g[0] = start /\ \A k \in 1 .. n : g[k] = next(g[k - 1])
    BY <1>1, <2>1, <2>2
  <2>4. Is(g, n)
    <3>1. g = [k \in 0 .. n |-> g[k]]
      OBVIOUS
    <3> HIDE DEF g
    <3>2. \A k \in 0 .. n : g[k] = IF k = 0 THEN start ELSE next(g[k - 1])
      BY <1>1, <2>3
    <3>3. g = [k \in 0 .. n |-> IF k = 0 THEN start ELSE next(g[k - 1])]
      BY ONLY <3>1, <3>2
    <3> QED BY <3>3
  <2> HIDE DEF g, Is
  <2> QED BY <1>1, <2>4
<1>5. \E f : Is(f, N)
  <2>1. N \in T
    <3> HIDE DEF T
    <3> QED BY <1>1, <1>3, <1>4, UpTo
  <2> QED BY <2>1
<1>6. Is(h, N)
  <2> HIDE DEF Is
  <2> QED BY <1>5
<1> HIDE DEF h
<1>7. h[0] = start /\ \A k \in 1 .. N : h[k] = next(h[k - 1])
  BY <1>1, <1>6
<1> QED BY <1>2, <1>7 DEF next, start

(* Where it starts. *)
LEMMA StartKeeps ==
  ASSUME NEW obs, NEW ring, NEW pose \in Area
  PROVE  LET s == Start(pose)
         IN  /\ Searching(s) /\ Linked(obs, ring, pose, s) /\ Ranked(s, 0, <<>>)
             /\ s.open # <<>> /\ s.open[1].node = pose /\ Explored(obs, ring, s)
<1> DEFINE s == Start(pose)
           open == addNode(<<>>, pose, estDistance(pose, GoalCell))
<1>1. ListOf(<<>>, Area) /\ Unique(<<>>) /\ Nodes(<<>>) = {}
  BY EmptySeq DEF ListOf, Unique, Nodes
<1>2. ListOf(open, Area) /\ Unique(open) /\ Nodes(open) = {pose} /\ open # <<>>
  BY <1>1, AddNode
<1>3. open[1].node = pose
  BY <1>2, PopNode
<1> HIDE DEF open
<1>4. /\ DOMAIN s = {"open", "closed", "g", "back", "null"}
      /\ s.open = open /\ s.closed = {} /\ s.back = [n \in Area |-> NoNode] /\ s.null = FALSE
  BY DEF Start, open
<1> HIDE DEF s
<1>5. Searching(s)
  BY <1>2, <1>4 DEF Searching
<1>6. Linked(obs, ring, pose, s)
  BY <1>2, <1>4 DEF Linked
<1>7. Ranked(s, 0, <<>>)
  <2>1. <<>> \in [{} -> 1 .. 0]
    OBVIOUS
  <2> QED BY <1>4, <2>1, FS_EmptySet DEF Ranked
<1>8. Explored(obs, ring, s)
  BY <1>4 DEF Explored
<1>9. s.open # <<>> /\ s.open[1].node = pose
  BY <1>2, <1>3, <1>4
<1> QED BY <1>5, <1>6, <1>7, <1>8, <1>9 DEF s

(* There are as many rounds as nodes. *)
LEMMA AreaSize == IsFiniteSet(Area) /\ Cardinality(Area) = Rounds
<1> DEFINE I == -1 .. GRID_NUM
<1>1. GRID_NUM \in Nat /\ -1 \in Int /\ ~(-1 > GRID_NUM) /\ GRID_NUM - (-1) + 1 = GRID_NUM + 2
  BY GridAssumption
<1>2. IsFiniteSet(I) /\ Cardinality(I) = GRID_NUM + 2
  BY <1>1, FS_Interval
<1> HIDE DEF I
<1>3. IsFiniteSet(I \X I) /\ Cardinality(I \X I) = (GRID_NUM + 2) * (GRID_NUM + 2)
  BY <1>2, FS_Product
<1> QED BY <1>3 DEF Area, Rounds, I

(* A search after n rounds: it has stopped or closed n nodes. *)
Searched(obs, ring, pose, s, n) ==
  /\ Searching(s) /\ Linked(obs, ring, pose, s) /\ Explored(obs, ring, s)
  /\ pose \in s.closed \/ (s.open # <<>> /\ s.open[1].node = pose)
  /\ \E k \in 0 .. n : \E r : Ranked(s, k, r) /\ (Stopped(s) \/ k = n)

LEMMA SearchKeeps ==
  ASSUME NEW obs, NEW ring, NEW pose \in Area, NEW N \in Nat
  PROVE  Searched(obs, ring, pose, SearchAfter(obs, ring, pose, N), N)
<1>0. N \in Nat
  OBVIOUS
<1>1. PICK f : /\ f[0] = Start(pose) /\ \A k \in 1 .. N : f[k] = Round(obs, ring, f[k - 1])
               /\ SearchAfter(obs, ring, pose, N) = f[N]
  BY SearchRounds
<1> DEFINE Kept(t, m) == /\ Searching(t) /\ Linked(obs, ring, pose, t) /\ Explored(obs, ring, t)
                         /\ pose \in t.closed \/ (t.open # <<>> /\ t.open[1].node = pose)
                         /\ \E k \in 0 .. m : \E r : Ranked(t, k, r) /\ (Stopped(t) \/ k = m)
           T == {m \in 0 .. N : Kept(f[m], m)}
<1>2. 0 \in T
  BY <1>0, <1>1, StartKeeps
<1>3. ASSUME NEW m \in 1 .. N, m - 1 \in T PROVE m \in T
  <2> DEFINE t == f[m - 1]
  <2>1. Kept(t, m - 1)
    BY <1>3
  <2>2. f[m] = Round(obs, ring, t)
    BY <1>1
  <2>3. PICK k \in 0 .. m - 1 : \E r : Ranked(t, k, r) /\ (Stopped(t) \/ k = m - 1)
    BY <2>1
  <2> HIDE DEF t
  <2>4. CASE Stopped(t)
    <3>1. f[m] = t
      BY <2>2, <2>4 DEF Round
    <3>2. k \in 0 .. m
      OBVIOUS
    <3> QED BY <1>0, <2>1, <2>3, <2>4, <3>1, <3>2
  <2>5. CASE ~Stopped(t)
    <3>1. /\ Searching(t) /\ Linked(obs, ring, pose, t) /\ (pose \in t.closed \/ t.open[1].node = pose)
          /\ Explored(obs, ring, t)
      BY <2>1
    <3>2. /\ Searching(f[m]) /\ Linked(obs, ring, pose, f[m]) /\ pose \in f[m].closed
          /\ \E q : Ranked(f[m], k + 1, q)
          /\ Explored(obs, ring, f[m])
      BY <2>2, <2>3, <2>5, <3>1, RoundKeeps
    <3>3. k + 1 = m /\ m \in 0 .. m
      BY <2>3, <2>5
    <3>4. \E q : Ranked(f[m], m, q)
      BY <3>2, <3>3
    <3>5. Kept(f[m], m)
      BY <3>2, <3>3, <3>4
    <3> QED BY <1>0, <3>5
  <2> QED BY <2>4, <2>5
<1>4. Kept(f[N], N)
  <2>1. N \in T
    <3> HIDE DEF T
    <3> QED BY <1>0, <1>2, <1>3, UpTo
  <2> QED BY <2>1
<1> QED BY <1>1, <1>4 DEF Searched

(* A search that has seen nothing but a finite set of nodes has stopped when *)
(* it has made a round for each.                                             *)
LEMMA SearchExhausts ==
  ASSUME NEW obs, NEW ring, NEW pose, NEW s, NEW n \in Nat, Searched(obs, ring, pose, s, n),
         NEW A, IsFiniteSet(A), Seen(s) \subseteq A, n >= Cardinality(A)
  PROVE  Stopped(s)
<1> SUFFICES ASSUME ~Stopped(s) PROVE FALSE
  OBVIOUS
<1>1. Searching(s) /\ \E r : Ranked(s, n, r)
  BY DEF Searched
<1>2. s.closed \subseteq A /\ IsFiniteSet(s.closed) /\ Cardinality(s.closed) = n
  BY <1>1 DEF Seen, Ranked
<1>3. s.closed = A
  <2>1. /\ Cardinality(s.closed) <= Cardinality(A)
        /\ Cardinality(s.closed) = Cardinality(A) => s.closed = A
    BY <1>2, FS_Subset
  <2>2. Cardinality(A) \in Nat
    BY FS_CardinalityType
  <2> QED BY <1>2, <2>1, <2>2
<1>4. s.open # <<>>
  BY DEF Stopped
<1>5. s.open[1].node \in Nodes(s.open)
  BY <1>1, <1>4, PopNode DEF Searching
<1> QED BY <1>1, <1>3, <1>5 DEF Searching, Seen

(* What the search comes to; it has stopped by then, whatever the map. *)
LEMMA SearchStops ==
  ASSUME NEW obs, NEW ring, NEW pose \in Area
  PROVE  LET s == SearchLoop(obs, ring, pose)
         IN  /\ Searching(s) /\ Linked(obs, ring, pose, s)
             /\ \E k \in 0 .. Rounds : \E r : Ranked(s, k, r)
             /\ Stopped(s) /\ Explored(obs, ring, s)
             /\ pose \in s.closed \/ (s.open # <<>> /\ s.open[1].node = pose)
<1> DEFINE s == SearchLoop(obs, ring, pose)
<1>1. Rounds \in Nat
  BY GridAssumption DEF Rounds
<1>2. Searched(obs, ring, pose, s, Rounds)
  BY <1>1, SearchKeeps DEF SearchLoop
<1> HIDE DEF s
<1>3. Seen(s) \subseteq Area
  BY <1>2, NodesIn DEF Searched, Searching, Seen
<1>4. Stopped(s)
  BY <1>1, <1>2, <1>3, AreaSize, SearchExhausts
<1> QED BY <1>2, <1>4 DEF s, Searched

(***************************************************************************)
(* Rooms.  A set of cells that no step leaves, whatever obstacle_map reads *)
(* off the map: one that obstacles, or walls of them, keep away from the   *)
(* border.                                                                 *)
(***************************************************************************)
IsRoom(obs, Room) ==
  Room \subseteq Cells /\ \A a \in Room : genNeighbors(obs, TRUE, a) \subseteq Room

(* All that is seen is reached from the start, by the links back to it. *)
LEMMA SeenInRoom ==
  ASSUME NEW obs, NEW ring, NEW s, NEW k, NEW rank, NEW Room, NEW pose \in Room,
         Searching(s), Linked(obs, ring, pose, s), Ranked(s, k, rank), IsRoom(obs, Room)
  PROVE  Seen(s) \subseteq Room
<1>1. \A a \in Room : genNeighbors(obs, ring, a) \subseteq Room
  <2>1. \A n : Blocked(obs, TRUE, n) => Blocked(obs, ring, n)
    BY DEF Blocked
  <2>2. \A a, b : CanStep(obs, ring, a, b) => CanStep(obs, TRUE, a, b)
    BY <2>1 DEF CanStep, CutsNoGap
  <2>3. \A a : genNeighbors(obs, ring, a) \subseteq genNeighbors(obs, TRUE, a)
    BY <2>2 DEF genNeighbors
  <2> QED BY <2>3 DEF IsRoom
<1>2. ASSUME NEW n \in Seen(s), s.back[n] \in s.closed => s.back[n] \in Room
      PROVE  n \in Room
  <2>1. n \in Area
    BY NodesIn DEF Searching, Seen
  <2>2. CASE s.back[n] = NoNode
    BY <2>2 DEF Linked, Seen
  <2>3. CASE s.back[n] # NoNode
    BY <1>1, <1>2, <2>1, <2>3 DEF Linked
  <2> QED BY <2>2, <2>3
<1> DEFINE T == {m \in 0 .. k : \A n \in s.closed : rank[n] <= m => n \in Room}
<1>3. k \in Nat /\ \A n \in s.closed : rank[n] \in 1 .. k
  BY DEF Ranked
<1>4. 0 \in T
  BY <1>3
<1>5. ASSUME NEW m \in 1 .. k, m - 1 \in T PROVE m \in T
  <2> SUFFICES ASSUME NEW n \in s.closed, rank[n] <= m PROVE n \in Room
    BY <1>3
  <2>1. s.back[n] \in s.closed => s.back[n] \in Room
    <3> SUFFICES ASSUME s.back[n] \in s.closed PROVE s.back[n] \in Room
      OBVIOUS
    <3>1. s.back[n] # NoNode
      BY AreaTyped DEF Searching
    <3>2. rank[s.back[n]] < rank[n]
      BY <3>1 DEF Ranked
    <3>3. rank[s.back[n]] <= m - 1
      BY <1>3, <3>2
    <3> QED BY <1>5, <3>3
  <2> QED BY <1>2, <2>1 DEF Seen
<1>6. k \in T
  <2> HIDE DEF T
  <2> QED BY <1>3, <1>4, <1>5, UpTo
<1>7. s.closed \subseteq Room
  BY <1>3, <1>6
<1> QED BY <1>2, <1>7

(* Around the cells of a room there is map: no index is out of range. *)
LEMMA RoomInside ==
  ASSUME NEW obs, NEW Room, IsRoom(obs, Room), NEW a \in Room, NEW j \in DOMAIN Offsets
  PROVE  Neighbour(a, j) \in Cells
<1>1. a \in Cells /\ DOMAIN Offsets = 1 .. 8
  BY DEF IsRoom, Offsets
<1>2. \A i \in DOMAIN Offsets : CanStep(obs, TRUE, a, Neighbour(a, i)) => Neighbour(a, i) \in Cells
  BY DEF IsRoom, genNeighbors
<1>3. /\ Neighbour(a, 2) = <<a[1] - 1, a[2]>> /\ Neighbour(a, 4) = <<a[1], a[2] - 1>>
      /\ Neighbour(a, 5) = <<a[1], a[2] + 1>> /\ Neighbour(a, 7) = <<a[1] + 1, a[2]>>
  BY <1>1 DEF Neighbour, Offsets, Cells
<1>4. ASSUME NEW i \in {2, 4, 5, 7} PROVE Neighbour(a, i) \in Cells
  <2> SUFFICES ASSUME Neighbour(a, i) \notin Cells PROVE FALSE
    OBVIOUS
  <2>1. Neighbour(a, i) \in Area
    BY <1>1, <1>3, GridAssumption DEF Cells, Area
  <2>2. ~Blocked(obs, TRUE, Neighbour(a, i))
    BY <2>1 DEF Blocked
  <2>3. a[1] = Neighbour(a, i)[1] \/ a[2] = Neighbour(a, i)[2]
    BY <1>1, <1>3 DEF Cells
  <2>4. CutsNoGap(obs, TRUE, a, Neighbour(a, i))
    BY <2>3, Zenon DEF CutsNoGap
  <2>5. i \in DOMAIN Offsets
    BY <1>1
  <2>6. CanStep(obs, TRUE, a, Neighbour(a, i))
    BY <2>2, <2>4, Zenon DEF CanStep
  <2> QED BY <1>2, <2>5, <2>6, Zenon
<1>5. /\ a[1] - 1 \in 0 .. GRID_NUM - 1 /\ a[1] + 1 \in 0 .. GRID_NUM - 1
      /\ a[2] - 1 \in 0 .. GRID_NUM - 1 /\ a[2] + 1 \in 0 .. GRID_NUM - 1
  BY <1>3, <1>4 DEF Cells
<1> QED BY <1>1, <1>5 DEF Neighbour, Offsets, Cells

(* The steps of the path's extraction. *)
LEMMA ExtractRounds ==
  ASSUME NEW back, NEW node
  PROVE  \E f : /\ f[0] = [node |-> node, path |-> <<>>]
                /\ \A k \in 1 .. Rounds + 1 : f[k] = PushNode(back, f[k - 1])
                /\ Extract(back, node) = f[Rounds + 1].path
<1> DEFINE start == [node |-> node, path |-> <<>>]
           N == Rounds + 1
           next(t) == PushNode(back, t)
           Is(f, n) == f = [k \in 0 .. n |-> IF k = 0 THEN start ELSE next(f[k - 1])]
           T == {n \in 0 .. N : \E f : Is(f, n)}
           h == CHOOSE f : Is(f, N)
<1>1. N \in Nat
  BY GridAssumption DEF Rounds
<1>2. Extract(back, node) = h[N].path
  BY DEF Extract
<1> HIDE DEF start, next, N
<1>3. 0 \in T
  <2> DEFINE g == [k \in 0 .. 0 |-> start]
  <2>1. Is(g, 0)
    OBVIOUS
  <2> HIDE DEF g, Is
  <2> QED BY <1>1, <2>1
<1>4. ASSUME NEW n \in 1 .. N, n - 1 \in T PROVE n \in T
  <2>1. PICK f : Is(f, n - 1)
    BY <1>4
  <2> DEFINE g == [k \in 0 .. n |-> IF k = n THEN next(f[n - 1]) ELSE f[k]]
  <2>2. \A k \in 0 .. n - 1 : g[k] = f[k]
    BY <1>1
  <2>3. g[0] = start /\ \A k \in 1 .. n : g[k] = next(g[k - 1])
    BY <1>1, <2>1, <2>2
  <2>4. Is(g, n)
    <3>1. g = [k \in 0 .. n |-> g[k]]
      OBVIOUS
    <3> HIDE DEF g
    <3>2. \A k \in 0 .. n : g[k] = IF k = 0 THEN start ELSE next(g[k - 1])
      BY <1>1, <2>3
    <3>3. g = [k \in 0 .. n |-> IF k = 0 THEN start ELSE next(g[k - 1])]
      BY ONLY <3>1, <3>2
    <3> QED BY <3>3
  <2> HIDE DEF g, Is
  <2> QED BY <1>1, <2>4
<1>5. \E f : Is(f, N)
  <2>1. N \in T
    <3> HIDE DEF T
    <3> QED BY <1>1, <1>3, <1>4, UpTo
  <2> QED BY <2>1
<1>6. Is(h, N)
  <2> HIDE DEF Is
  <2> QED BY <1>5
<1> HIDE DEF h
<1>7. h[0] = start /\ \A k \in 1 .. N : h[k] = next(h[k - 1])
  BY <1>1, <1>6
<1> QED BY <1>2, <1>7 DEF next, start, N

LEMMA Prepend ==
  ASSUME NEW T, NEW s \in Seq(T), NEW e \in T
  PROVE  /\ <<e>> \o s \in Seq(T) /\ Len(<<e>> \o s) = Len(s) + 1 /\ (<<e>> \o s)[1] = e
         /\ \A i \in 1 .. Len(s) : (<<e>> \o s)[i + 1] = s[i]
<1>1. <<e>> \in Seq(T) /\ Len(<<e>>) = 1 /\ <<e>>[1] = e
  OBVIOUS
<1>2. /\ <<e>> \o s \in Seq(T) /\ Len(<<e>> \o s) = 1 + Len(s)
      /\ \A i \in 1 .. 1 + Len(s) : (<<e>> \o s)[i] = IF i <= 1 THEN <<e>>[i] ELSE s[i - 1]
  BY <1>1, ConcatProperties
<1>3. Len(s) \in Nat
  BY LenProperties
<1> DEFINE c == <<e>> \o s
<1> HIDE DEF c
<1>4. \A i \in 1 .. Len(s) : c[i + 1] = s[i]
  BY <1>2, <1>3 DEF c
<1> QED BY <1>1, <1>2, <1>3, <1>4 DEF c

(***************************************************************************)
(* The walk along the back links after j pushes: a way from the node       *)
(* pushed last to the goal.  Each push goes to a node closed earlier.      *)
(***************************************************************************)
Walked(obs, ring, s, k, rank, w, j) ==
  /\ DOMAIN w = {"node", "path"} /\ w.path \in Seq(Area)
  /\ j = 0 => w.path = <<>> /\ w.node = GoalCell
  /\ j > 0 => /\ w.path # <<>> /\ w.path[Len(w.path)] = GoalCell
              /\ w.path[1] \in s.closed \cup Nodes(s.open) /\ w.node = s.back[w.path[1]]
              /\ w.node # NoNode => w.node \in s.closed /\ rank[w.node] + j <= k + 1
  /\ \A i \in 1 .. Len(w.path) - 1 : w.path[i + 1] \in genNeighbors(obs, ring, w.path[i])

LEMMA PushWalks ==
  ASSUME NEW obs, NEW ring, NEW pose, NEW s, NEW k, NEW rank, NEW w, NEW j \in Nat \ {0},
         Searching(s), Linked(obs, ring, pose, s), Ranked(s, k, rank), GoalCell \in Nodes(s.open),
         Walked(obs, ring, s, k, rank, w, j - 1)
  PROVE  Walked(obs, ring, s, k, rank, PushNode(s.back, w), j)
<1> DEFINE new == PushNode(s.back, w)
<1>1. GoalCell \in Area /\ NoNode \notin Area
  BY AreaTyped, GoalAssumption
<1>2. CASE w.node = NoNode
  BY <1>1, <1>2 DEF PushNode, Walked
<1>3. CASE w.node # NoNode
  <2> DEFINE n == w.node
             path == <<n>> \o w.path
  <2>1. n \in Area /\ n \in s.closed \cup Nodes(s.open)
    BY <1>1, <1>3 DEF Walked, Searching
  <2>2. /\ path \in Seq(Area) /\ Len(path) = Len(w.path) + 1 /\ path[1] = n
        /\ \A i \in 1 .. Len(w.path) : path[i + 1] = w.path[i]
    BY <2>1, Prepend DEF Walked
  <2>3. DOMAIN new = {"node", "path"} /\ new.node = s.back[n] /\ new.path = path
    BY <1>3 DEF PushNode
  <2> HIDE DEF path, new
  <2>4. Len(w.path) \in Nat /\ path # <<>> /\ (w.path = <<>> <=> Len(w.path) = 0)
    BY <2>2, LenProperties, EmptySeq DEF Walked
  <2>5. path[Len(path)] = GoalCell
    <3>1. CASE w.path = <<>>
      BY <2>2, <2>4, <3>1 DEF Walked
    <3>2. CASE w.path # <<>>
      <4>1. Len(w.path) \in 1 .. Len(w.path) /\ w.path[Len(w.path)] = GoalCell
        BY <2>4, <3>2 DEF Walked
      <4> QED BY <2>2, <2>4, <4>1
    <3> QED BY <3>1, <3>2
  <2>6. ASSUME NEW i \in 1 .. Len(path) - 1
        PROVE  path[i + 1] \in genNeighbors(obs, ring, path[i])
    <3>1. i \in 1 .. Len(w.path) /\ path[i + 1] = w.path[i]
      BY <2>2, <2>4
    <3>2. CASE i = 1
      <4>1. w.path # <<>> /\ j - 1 > 0
        BY <2>4, <3>1 DEF Walked
      <4>2. n = s.back[w.path[1]] /\ w.path[1] \in Area
        BY <3>1, <3>2, <4>1, ElementOfSeq DEF Walked
      <4> QED BY <1>3, <2>2, <3>1, <3>2, <4>2 DEF Linked
    <3>3. CASE i # 1
      <4>1. i - 1 \in 1 .. Len(w.path) - 1 /\ i - 1 \in 1 .. Len(w.path) /\ (i - 1) + 1 = i
        BY <2>4, <3>1, <3>3
      <4>2. path[i] = w.path[i - 1]
        BY <2>2, <4>1
      <4> QED BY <3>1, <4>1, <4>2 DEF Walked
    <3> QED BY <3>2, <3>3
  <2>7. ASSUME s.back[n] # NoNode PROVE s.back[n] \in s.closed /\ rank[s.back[n]] + j <= k + 1
    <3>1. s.back[n] \in s.closed /\ rank[s.back[n]] \in 1 .. k /\ k \in Nat
      BY <2>1, <2>7 DEF Linked, Ranked
    <3>2. CASE j = 1
      BY <3>1, <3>2
    <3>3. CASE j # 1
      <4>1. n \in s.closed /\ rank[n] + (j - 1) <= k + 1
        BY <1>3, <3>3 DEF Walked
      <4>2. rank[n] \in 1 .. k /\ rank[s.back[n]] < rank[n]
        BY <2>7, <4>1 DEF Ranked
      <4> QED BY <3>1, <4>1, <4>2
    <3> QED BY <3>2, <3>3
  <2> QED BY <2>1, <2>2, <2>3, <2>4, <2>5, <2>6, <2>7 DEF Walked, new
<1> QED BY <1>2, <1>3

(* A search that stops at the goal has found a route. *)
LEMMA ExtractRoute ==
  ASSUME NEW obs, NEW ring, NEW pose, NEW s, NEW k \in 0 .. Rounds, NEW rank,
         Searching(s), Linked(obs, ring, pose, s), Ranked(s, k, rank), GoalCell \in Nodes(s.open)
  PROVE  /\ Extract(s.back, GoalCell) \in Seq(Area)
         /\ IsRoute(obs, ring, pose, Extract(s.back, GoalCell))
<1> DEFINE N == Rounds + 1
           start == [node |-> GoalCell, path |-> <<>>]
<1>1. Rounds \in Nat /\ N \in Nat /\ N > 0
  BY GridAssumption DEF Rounds
<1>2. PICK f : /\ f[0] = start /\ \A j \in 1 .. N : f[j] = PushNode(s.back, f[j - 1])
               /\ Extract(s.back, GoalCell) = f[N].path
  BY ExtractRounds
<1> DEFINE T == {j \in 0 .. N : Walked(obs, ring, s, k, rank, f[j], j)}
<1> HIDE DEF N
<1>3. 0 \in T
  <2>1. start.path = <<>> /\ start.node = GoalCell /\ DOMAIN start = {"node", "path"}
    OBVIOUS
  <2> HIDE DEF start
  <2>2. Walked(obs, ring, s, k, rank, start, 0)
    BY <2>1, EmptySeq DEF Walked
  <2> QED BY <1>1, <1>2, <2>2
<1>4. ASSUME NEW j \in 1 .. N, j - 1 \in T PROVE j \in T
  <2>1. Walked(obs, ring, s, k, rank, f[j - 1], j - 1) /\ j \in Nat \ {0}
    BY <1>1, <1>4
  <2>2. Walked(obs, ring, s, k, rank, PushNode(s.back, f[j - 1]), j)
    BY <2>1, PushWalks
  <2> QED BY <1>1, <1>2, <2>2
<1>5. Walked(obs, ring, s, k, rank, f[N], N)
  <2>1. N \in T
    <3> HIDE DEF T
    <3> QED BY <1>1, <1>3, <1>4, UpTo
  <2> QED BY <2>1
<1> DEFINE w == f[N]
           path == w.path
<1> HIDE DEF w
<1>6. w.node = NoNode
  <2> SUFFICES ASSUME w.node # NoNode PROVE FALSE
    OBVIOUS
  <2>1. w.node \in s.closed /\ rank[w.node] + N <= k + 1
    BY <1>1, <1>5 DEF Walked, w
  <2>2. rank[w.node] \in 1 .. k
    BY <2>1 DEF Ranked
  <2> QED BY <1>1, <2>1, <2>2 DEF N
<1>7. path[1] = pose
  BY <1>1, <1>5, <1>6 DEF Walked, Linked, w
<1> QED BY <1>1, <1>2, <1>5, <1>7 DEF Walked, IsRoute, w

(* A search that has seen all there is to see without the goal could not find one. *)
LEMMA NoRoute ==
  ASSUME NEW obs, NEW ring, NEW pose, NEW s, Explored(obs, ring, s), s.null = FALSE,
         s.open = <<>>, pose \in s.closed, NEW p \in Seq(Area), IsRoute(obs, ring, pose, p)
  PROVE  FALSE
<1> DEFINE N == Len(p) - 1
           T == {i \in 0 .. N : p[i + 1] \in s.closed}
<1>1. N \in Nat /\ Len(p) = N + 1
  BY LenProperties, EmptySeq DEF IsRoute
<1>2. Seen(s) = s.closed
  BY DEF Seen, Nodes
<1>3. \A n \in s.closed : n # GoalCell /\ genNeighbors(obs, ring, n) \subseteq s.closed
  BY <1>2 DEF Explored
<1>4. 0 \in T
  BY <1>1 DEF IsRoute
<1>5. ASSUME NEW i \in 1 .. N, i - 1 \in T PROVE i \in T
  <2>1. (i - 1) + 1 = i /\ i \in 1 .. Len(p) - 1 /\ i \in 0 .. N
    BY <1>1
  <2>2. p[i] \in s.closed
    BY <1>5, <2>1
  <2>3. p[i + 1] \in genNeighbors(obs, ring, p[i])
    BY <2>1 DEF IsRoute
  <2> QED BY <1>3, <2>1, <2>2, <2>3
<1>6. N \in T
  <2> HIDE DEF N, T
  <2> QED BY ONLY <1>1, <1>4, <1>5, UpTo
<1>7. p[Len(p)] \in s.closed
  BY <1>1, <1>6
<1> QED BY <1>3, <1>7 DEF IsRoute

(* What a search says, whatever the map. *)
LEMMA SearchFinds ==
  ASSUME NEW obs, NEW ring, NEW pose \in Area
  PROVE  LET r == Search(obs, ring, pose)
         IN  /\ r.status \in {"solved", "failed", "crashed"} /\ r.path \in Seq(Area)
             /\ r.status = "solved" => IsRoute(obs, ring, pose, r.path)
             /\ r.status = "failed" => \A p \in Seq(Area) : ~IsRoute(obs, ring, pose, p)
<1> DEFINE s == SearchLoop(obs, ring, pose)
           r == Search(obs, ring, pose)
<1>1. /\ Searching(s) /\ Linked(obs, ring, pose, s) /\ Stopped(s) /\ Explored(obs, ring, s)
      /\ \E k \in 0 .. Rounds : \E q : Ranked(s, k, q)
      /\ pose \in s.closed \/ (s.open # <<>> /\ s.open[1].node = pose)
  BY SearchStops
<1>2. PICK k \in 0 .. Rounds : \E q : Ranked(s, k, q)
  BY <1>1
<1>3. /\ s.null => r = [status |-> "crashed", path |-> <<>>]
      /\ ~s.null /\ s.open = <<>> => r = [status |-> "failed", path |-> <<>>]
      /\ ~s.null /\ s.open # <<>> => r = [status |-> "solved", path |-> Extract(s.back, GoalCell)]
  BY Zenon DEF Search
<1> HIDE DEF s, r
<1>4. CASE s.null \/ s.open = <<>>
  <2>1. r \in {[status |-> "crashed", path |-> <<>>], [status |-> "failed", path |-> <<>>]}
    BY <1>3, <1>4, Zenon
  <2>2. <<>> \in Seq(Area)
    BY EmptySeq
  <2>3. r.status \in {"failed", "crashed"} /\ r.path = <<>>
    BY <2>1
  <2>4. ASSUME r.status = "failed", NEW p \in Seq(Area), IsRoute(obs, ring, pose, p) PROVE FALSE
    <3>1. s.null => r.status = "crashed"
      BY <1>3
    <3>2. s.null = FALSE
      BY <1>1, <2>4, <3>1 DEF Searching
    <3>3. s.open = <<>> /\ pose \in s.closed
      BY <1>1, <1>4, <3>2
    <3> QED BY <1>1, <2>4, <3>2, <3>3, NoRoute
  <2> QED BY <2>2, <2>3, <2>4 DEF r
<1>5. CASE ~s.null /\ s.open # <<>>
  <2>1. GoalCell \in Nodes(s.open)
    <3>1. s.open[1].node \in Nodes(s.open)
      BY <1>1, <1>5, PopNode DEF Searching
    <3>2. s.open[1].node = GoalCell
      BY <1>1, <1>5, Zenon DEF Stopped
    <3> QED BY <3>1, <3>2
  <2>2. /\ Extract(s.back, GoalCell) \in Seq(Area)
        /\ IsRoute(obs, ring, pose, Extract(s.back, GoalCell))
    BY <1>1, <1>2, <2>1, ExtractRoute
  <2>3. r = [status |-> "solved", path |-> Extract(s.back, GoalCell)]
    BY <1>3, <1>5, Zenon
  <2> QED BY <2>2, <2>3 DEF r
<1> QED BY <1>4, <1>5, Zenon

-----------------------------------------------------------------------------
(***************************************************************************)
(* The Mapper.                                                             *)
(***************************************************************************)

(* A range that passes the check of addObstacle ends on the map. *)
LEMMA OnTheMap ==
  ASSUME NEW p \in Int \X Int, ~Erroneous(gridify(p))
  PROVE  gridify(p) \in Cells
<1> DEFINE i == Truncated(p[1])
           j == Truncated(p[2])
<1>1. i \in Int /\ j \in Int
  BY DEF Truncated
<1> HIDE DEF i, j
<1>2. gridify(p) = <<AtEdge(i), AtEdge(j)>>
  BY DEF gridify, i, j
<1>3. AtEdge(i) \in Int \ {GRID_NUM} /\ AtEdge(j) \in Int \ {GRID_NUM}
  BY <1>1, GridAssumption DEF AtEdge
<1>4. AtEdge(i) \in 0 .. GRID_NUM - 1 /\ AtEdge(j) \in 0 .. GRID_NUM - 1
  BY <1>2, <1>3, GridAssumption DEF Erroneous
<1> QED BY <1>2, <1>4 DEF Cells

(***************************************************************************)
(* What a message has come to: the counts have risen, and the cells that   *)
(* have passed the threshold are listed once.                              *)
(***************************************************************************)
Counts == [Cells -> 0 .. OBS_THRES + 1]

Distinct(list) == \A i, j \in DOMAIN list : list[i] = list[j] => i = j

Counted(before, m) ==
  /\ m.seen \in Counts /\ m.obs \in Seq(Cells) /\ Distinct(m.obs)
  /\ \A c \in Cells : before[c] <= m.seen[c]
  /\ ToSet(m.obs) = {c \in Cells : before[c] <= OBS_THRES /\ m.seen[c] > OBS_THRES}

LEMMA AppendDistinct ==
  ASSUME NEW T, NEW s \in Seq(T), NEW e \in T, Distinct(s), e \notin ToSet(s)
  PROVE  /\ Append(s, e) \in Seq(T) /\ Distinct(Append(s, e))
         /\ ToSet(Append(s, e)) = ToSet(s) \cup {e}
<1> DEFINE new == Append(s, e)
<1>1. Len(s) \in Nat /\ DOMAIN s = 1 .. Len(s)
  BY LenProperties
<1>2. /\ new \in Seq(T) /\ Len(new) = Len(s) + 1 /\ new[Len(s) + 1] = e
      /\ \A i \in 1 .. Len(s) : new[i] = s[i]
  BY AppendProperties
<1> HIDE DEF new
<1>3. DOMAIN new = 1 .. Len(s) + 1
  BY <1>2, LenProperties
<1>4. \A i \in 1 .. Len(s) : s[i] # e
  BY <1>1 DEF ToSet
<1>5. Distinct(new)
  BY <1>1, <1>2, <1>3, <1>4 DEF Distinct
<1>6. ToSet(new) = ToSet(s) \cup {e}
  <2>1. ToSet(new) \subseteq ToSet(s) \cup {e}
    BY <1>1, <1>2, <1>3 DEF ToSet
  <2>2. ToSet(s) \cup {e} \subseteq ToSet(new)
    BY <1>1, <1>2, <1>3 DEF ToSet
  <2> QED BY <2>1, <2>2
<1> QED BY <1>2, <1>5, <1>6 DEF new

LEMMA AddObstacle ==
  ASSUME NEW before \in Counts, NEW m, Counted(before, m), NEW p \in Int \X Int
  PROVE  Counted(before, addObstacle(m, gridify(p)))
<1> DEFINE c == gridify(p)
           new == addObstacle(m, c)
           more == [m.seen EXCEPT ![c] = @ + 1]
<1>0. OBS_THRES \in Nat
  BY CountsAssumption
<1>1. CASE Erroneous(c)
  BY <1>1 DEF addObstacle
<1>2. CASE ~Erroneous(c)
  <2>1. c \in Cells /\ DOMAIN m.seen = Cells /\ m.seen[c] \in 0 .. OBS_THRES + 1
    BY <1>2, OnTheMap DEF Counted, Counts
  <2> HIDE DEF c
  <2>2. new = [seen |-> IF m.seen[c] <= OBS_THRES THEN more ELSE m.seen,
               obs  |-> IF Announces(m, c) THEN Append(m.obs, c) ELSE m.obs]
    BY <1>2, <2>1 DEF addObstacle
  <2>3. new.seen = (IF m.seen[c] <= OBS_THRES THEN more ELSE m.seen)
    BY <2>2
  <2>4. new.obs = (IF Announces(m, c) THEN Append(m.obs, c) ELSE m.obs)
    BY <2>2
  <2> HIDE DEF new
  <2>5. /\ m.seen[c] <= OBS_THRES =>
              more \in Counts /\ more[c] = m.seen[c] + 1 /\ \A d \in Cells \ {c} : more[d] = m.seen[d]
    BY <1>0, <2>1 DEF Counted, Counts
  <2> HIDE DEF more
  <2>6. /\ new.seen \in Counts /\ \A d \in Cells \ {c} : new.seen[d] = m.seen[d]
        /\ new.seen[c] = IF m.seen[c] <= OBS_THRES THEN m.seen[c] + 1 ELSE m.seen[c]
    BY <2>1, <2>3, <2>5 DEF Counted
  <2>7. \A d \in Cells : before[d] \in Int /\ m.seen[d] \in Int /\ new.seen[d] \in Int
    BY <1>0, <2>6 DEF Counted, Counts
  <2>8. \A d \in Cells : before[d] <= new.seen[d]
    BY <1>0, <2>1, <2>6, <2>7 DEF Counted
  <2>9. ASSUME Announces(m, c) PROVE Counted(before, new)
    <3>1. m.seen[c] <= OBS_THRES /\ new.seen[c] > OBS_THRES /\ c \notin ToSet(m.obs)
      BY <1>0, <2>1, <2>6, <2>9 DEF Announces, Counted
    <3>2. new.obs \in Seq(Cells) /\ Distinct(new.obs) /\ ToSet(new.obs) = ToSet(m.obs) \cup {c}
      BY <2>1, <2>4, <2>9, <3>1, AppendDistinct DEF Counted
    <3>3. before[c] <= OBS_THRES
      BY <1>0, <2>1, <2>7, <3>1 DEF Counted
    <3>4. ToSet(new.obs) = {d \in Cells : before[d] <= OBS_THRES /\ new.seen[d] > OBS_THRES}
      BY <2>1, <2>6, <3>1, <3>2, <3>3 DEF Counted
    <3> HIDE DEF Counts, ToSet, Distinct
    <3> QED BY ONLY <2>6, <2>8, <3>2, <3>4 DEF Counted
  <2>10. ASSUME ~Announces(m, c) PROVE Counted(before, new)
    <3>1. new.obs = m.obs
      BY <2>4, <2>10
    <3>2. \A d \in Cells : new.seen[d] > OBS_THRES <=> m.seen[d] > OBS_THRES
      BY <1>0, <2>1, <2>6, <2>7, <2>10 DEF Announces
    <3>3. ToSet(new.obs) = {d \in Cells : before[d] <= OBS_THRES /\ new.seen[d] > OBS_THRES}
      BY <3>1, <3>2 DEF Counted
    <3>4. new.obs \in Seq(Cells) /\ Distinct(new.obs)
      BY <3>1 DEF Counted
    <3> QED BY ONLY <2>6, <2>8, <3>3, <3>4 DEF Counted
  <2> QED BY <2>9, <2>10 DEF new, c
<1> QED BY <1>1, <1>2

(* The ranges of a message are taken one after the other. *)
LEMMA UpdateRounds ==
  ASSUME NEW d, Len(d.ranges) \in Nat
  PROVE  \E f : /\ f[0] = [seen |-> seen, obs |-> <<>>]
                /\ \A k \in 1 .. Len(d.ranges) : f[k] = addObstacle(f[k - 1], gridify(d.ranges[k]))
                /\ updateMap(d) = f[Len(d.ranges)]
<1>0. PICK before : before = seen
  OBVIOUS
<1> DEFINE N == Len(d.ranges)
           start == [seen |-> before, obs |-> <<>>]
           next(k, t) == addObstacle(t, gridify(d.ranges[k]))
           Is(f, n) == f = [k \in 0 .. n |-> IF k = 0 THEN start ELSE next(k, f[k - 1])]
           T == {n \in 0 .. N : \E f : Is(f, n)}
           h == CHOOSE f : Is(f, N)
<1>1. N \in Nat
  OBVIOUS
<1>2. updateMap(d) = h[N]
  BY <1>0 DEF updateMap
<1> HIDE DEF N, start, next
<1>3. 0 \in T
  <2> DEFINE g == [k \in 0 .. 0 |-> start]
  <2>1. Is(g, 0)
    OBVIOUS
  <2> HIDE DEF g, Is
  <2> QED BY <1>1, <2>1
<1>4. ASSUME NEW n \in 1 .. N, n - 1 \in T PROVE n \in T
  <2>1. PICK f : Is(f, n - 1)
    BY <1>4
  <2> DEFINE g == [k \in 0 .. n |-> IF k = n THEN next(n, f[n - 1]) ELSE f[k]]
  <2>2. \A k \in 0 .. n - 1 : g[k] = f[k]
    BY <1>1
  <2>3. g[0] = start /\ \A k \in 1 .. n : g[k] = next(k, g[k - 1])
    BY <1>1, <2>1, <2>2
  <2>4. Is(g, n)
    <3>1. g = [k \in 0 .. n |-> g[k]]
      OBVIOUS
    <3> HIDE DEF g
    <3>2. \A k \in 0 .. n : g[k] = IF k = 0 THEN start ELSE next(k, g[k - 1])
      BY <1>1, <2>3
    <3>3. g = [k \in 0 .. n |-> IF k = 0 THEN start ELSE next(k, g[k - 1])]
      BY ONLY <3>1, <3>2
    <3> QED BY <3>3
  <2> HIDE DEF g, Is
  <2> QED BY <1>1, <2>4
<1>5. \E f : Is(f, N)
  <2>1. N \in T
    <3> HIDE DEF T
    <3> QED BY ONLY <1>1, <1>3, <1>4, UpTo
  <2> QED BY <2>1
<1>6. Is(h, N)
  <2> HIDE DEF Is
  <2> QED BY <1>5
<1> HIDE DEF h
<1>7. h[0] = start /\ \A k \in 1 .. N : h[k] = next(k, h[k - 1])
  BY <1>1, <1>6
<1> QED BY <1>0, <1>2, <1>7 DEF next, start, N

(* What a message does to the map. *)
LEMMA UpdateCounts ==
  ASSUME NEW d \in Data, seen \in Counts
  PROVE  Counted(seen, updateMap(d))
<1>1. d.ranges \in Seq(Int \X Int) /\ Len(d.ranges) \in Nat
  BY ScansAssumption, LenProperties DEF Data
<1>2. PICK f : /\ f[0] = [seen |-> seen, obs |-> <<>>]
               /\ \A k \in 1 .. Len(d.ranges) : f[k] = addObstacle(f[k - 1], gridify(d.ranges[k]))
               /\ updateMap(d) = f[Len(d.ranges)]
  BY <1>1, UpdateRounds
<1>0. PICK before : before = seen
  OBVIOUS
<1> DEFINE N == Len(d.ranges)
           T == {k \in 0 .. N : Counted(before, f[k])}
<1>3. 0 \in T
  <2>1. f[0].seen = seen /\ f[0].obs = <<>> /\ before = seen
    BY <1>0, <1>2
  <2>2. <<>> \in Seq(Cells) /\ Distinct(<<>>) /\ ToSet(<<>>) = {}
    BY EmptySeq DEF Distinct, ToSet
  <2>3. \A c \in Cells : seen[c] \in Int /\ OBS_THRES \in Int
    BY CountsAssumption DEF Counts
  <2>4. \A c \in Cells : seen[c] <= seen[c] /\ ~(seen[c] <= OBS_THRES /\ seen[c] > OBS_THRES)
    BY <2>3
  <2>5. Counted(before, f[0])
    BY <2>1, <2>2, <2>4 DEF Counted
  <2> QED BY <1>1, <2>5
<1>4. ASSUME NEW k \in 1 .. N, k - 1 \in T PROVE k \in T
  <2>1. d.ranges[k] \in Int \X Int /\ Counted(before, f[k - 1]) /\ before \in Counts
    BY <1>0, <1>1, <1>4, ElementOfSeq
  <2> QED BY <1>1, <1>2, <2>1, AddObstacle
<1>5. N \in T
  <2>1. N \in Nat
    BY <1>1
  <2> HIDE DEF N, T
  <2> QED BY ONLY <2>1, <1>3, <1>4, UpTo
<1> QED BY <1>0, <1>2, <1>5

-----------------------------------------------------------------------------
(***************************************************************************)
(* The inductive invariant.                                                *)
(***************************************************************************)

(* A sequence is the end of another. *)
Ends(rest, whole) ==
  /\ Len(rest) <= Len(whole)
  /\ \A i \in 1 .. Len(rest) : rest[i] = whole[Len(whole) - Len(rest) + i]

(***************************************************************************)
(* A*, also in the middle of a turn: the way points left are the end of    *)
(* the route, which leads to the goal and, after a search that succeeded,  *)
(* around every obstacle known.                                            *)
(***************************************************************************)
OnRoute(a) ==
  /\ a \in AStarState
  /\ Ends(a.goal_path, a.route)
  /\ a.route # <<>> => a.route[Len(a.route)] = GoalCell

Planned(a) ==
  /\ OnRoute(a)
  /\ a.status = "solved" => a.route # <<>> /\ IsRoute(a.obstacles, free, a.route[1], a.route)

(* What ArtPot will head for when it has read all that was sent. *)
Heads(a) == IF a.sent = <<>> THEN Told ELSE <<Last(a.sent).point, Last(a.sent).n_point>>

(***************************************************************************)
(* A* knows what it sent last, if there was a second way point: ArtPot     *)
(* heads for these two or, past the first, for the second.  When no way    *)
(* points are left that is the goal, which A* sends again without noting   *)
(* it.                                                                     *)
(***************************************************************************)
Knows(a) ==
  a.n_current_goal # NoNode =>
     /\ Heads(a) \in {<<a.current_goal, a.n_current_goal>>, <<a.n_current_goal, a.n_current_goal>>}
     /\ a.goal_path = <<>> => a.n_current_goal = GoalCell

NavInv ==
  /\ TypeOK /\ MapsAgree
  /\ Planned(astar) /\ Knows(astar) /\ astar.sent = <<>>

(* A message is sent at the end of the turn. *)
LEMMA SendIs ==
  ASSUME NEW a \in AStarState, NEW p \in Area, NEW q \in Area
  PROVE  LET b == Send(a, p, q)
         IN  /\ b \in AStarState /\ b.pose = a.pose /\ b.obstacles = a.obstacles
             /\ b.goal_path = a.goal_path /\ b.status = a.status /\ b.route = a.route
             /\ b.current_goal = a.current_goal /\ b.n_current_goal = a.n_current_goal
             /\ b.sent # <<>> /\ Last(b.sent) = [point |-> p, n_point |-> q]
<1> DEFINE w == [point |-> p, n_point |-> q]
           sent == Append(a.sent, w)
           b == [a EXCEPT !.sent = sent]
<1>1. a.sent \in Seq(Waypoints) /\ w \in Waypoints
  BY DEF AStarState, Waypoints
<1> HIDE DEF w
<1>2. sent \in Seq(Waypoints) /\ sent # <<>> /\ sent[Len(sent)] = w
  BY <1>1, AppendProperties
<1>3. Send(a, p, q) = b
  BY DEF Send, w
<1> HIDE DEF sent
<1>4. /\ b \in AStarState /\ b.sent = sent /\ b.pose = a.pose /\ b.obstacles = a.obstacles
      /\ b.goal_path = a.goal_path /\ b.status = a.status /\ b.route = a.route
      /\ b.current_goal = a.current_goal /\ b.n_current_goal = a.n_current_goal
  BY <1>2 DEF AStarState
<1> QED BY <1>2, <1>3, <1>4 DEF Last, w

(* The end of an end. *)
LEMMA EndOfEnd ==
  ASSUME NEW T, NEW rest \in Seq(T), NEW whole \in Seq(T), Ends(rest, whole)
  PROVE  LET left == SubSeq(rest, 3, Len(rest))
         IN  /\ left \in Seq(T) /\ Ends(left, whole)
             /\ left = <<>> => Len(rest) <= 2
<1> DEFINE left == SubSeq(rest, 3, Len(rest))
<1>1. Len(rest) \in Nat /\ Len(whole) \in Nat /\ \A i \in 1 .. Len(rest) : rest[i] \in T
  BY LenProperties, ElementOfSeq
<1>2. /\ left \in Seq(T) /\ Len(left) = IF 3 <= Len(rest) THEN Len(rest) - 3 + 1 ELSE 0
      /\ \A i \in 1 .. Len(rest) - 3 + 1 : left[i] = rest[3 + i - 1]
  BY <1>1, SubSeqProperties
<1> HIDE DEF left
<1>3. ASSUME NEW i \in 1 .. Len(left)
      PROVE  left[i] = whole[Len(whole) - Len(left) + i]
  <2>1. Len(left) = Len(rest) - 2 /\ left[i] = rest[i + 2] /\ i + 2 \in 1 .. Len(rest)
    BY <1>1, <1>2
  <2>2. Len(whole) - Len(rest) + (i + 2) = Len(whole) - Len(left) + i
    BY <1>1, <2>1
  <2> QED BY <2>1, <2>2 DEF Ends
<1>4. Len(left) <= Len(whole)
  BY <1>1, <1>2 DEF Ends
<1>5. Ends(left, whole)
  BY <1>3, <1>4 DEF Ends
<1>6. ASSUME left = <<>> PROVE Len(rest) <= 2
  <2>1. ASSUME 3 <= Len(rest) PROVE left # <<>>
    <3>1. Len(left) \in Nat /\ Len(left) > 0
      BY <1>1, <1>2, <2>1
    <3> QED BY <3>1
  <2>2. ~(3 <= Len(rest))
    BY <1>6, <2>1
  <2> QED BY <1>1, <2>2
<1> QED BY <1>2, <1>5, <1>6 DEF left

(* sendWaypoints takes two way points, which it tells ArtPot if there are two. *)
LEMMA WaypointsKnown ==
  ASSUME NEW a, Planned(a)
  PROVE  LET b == sendWaypoints(a)
         IN  /\ Planned(b) /\ Knows(b) /\ b.pose = a.pose /\ b.obstacles = a.obstacles
             /\ b.status = a.status /\ b.route = a.route
             /\ Len(a.goal_path) >= 2 => Heads(b) = <<a.goal_path[1], a.goal_path[2]>>
<1> DEFINE path == a.goal_path
           p == Node(path, 1)
           q == Node(path, 2)
           left == SubSeq(path, 3, Len(path))
           taken == [a EXCEPT !.current_goal = p, !.n_current_goal = q, !.goal_path = left]
           b == sendWaypoints(a)
<1>1. GoalCell \in Area /\ NoNode \notin Area
  BY AreaTyped, GoalAssumption
<1>2. /\ a \in AStarState /\ path \in Seq(Area) /\ a.route \in Seq(Area) /\ Ends(path, a.route)
      /\ Len(path) \in Nat /\ \A i \in 1 .. Len(path) : path[i] \in Area
  BY LenProperties, ElementOfSeq DEF Planned, OnRoute, AStarState
<1>3. /\ left \in Seq(Area) /\ Ends(left, a.route)
      /\ left = <<>> => Len(path) <= 2
  BY <1>2, EndOfEnd
<1>4. /\ p = IF 1 <= Len(path) THEN path[1] ELSE NoNode
      /\ q = IF 2 <= Len(path) THEN path[2] ELSE NoNode
  BY DEF Node
<1>5. b = IF p = NoNode THEN Send(taken, GoalCell, GoalCell)
          ELSE IF q = NoNode THEN taken
          ELSE Send(taken, p, q)
  BY DEF sendWaypoints
<1> HIDE DEF p, q, left, path
<1>6. /\ taken \in AStarState /\ taken.pose = a.pose /\ taken.obstacles = a.obstacles
      /\ taken.status = a.status /\ taken.route = a.route /\ taken.goal_path = left
      /\ taken.current_goal = p /\ taken.n_current_goal = q
  <2>1. p \in Area \cup {NoNode} /\ q \in Area \cup {NoNode}
    BY <1>2, <1>4
  <2> QED BY <1>2, <1>3, <2>1 DEF AStarState
<1> HIDE DEF taken, b
<1>7. Planned(taken)
  BY <1>3, <1>6 DEF Planned, OnRoute
<1>8. ASSUME q # NoNode PROVE Len(path) >= 2 /\ p = path[1] /\ q = path[2] /\ p \in Area /\ q \in Area
  BY <1>2, <1>4, <1>8
<1>9. ASSUME q # NoNode, left = <<>> PROVE q = GoalCell
  <2>1. Len(path) <= 2 /\ Len(path) >= 2 /\ Len(path) \in Nat
    BY <1>2, <1>3, <1>8, <1>9, Zenon
  <2>2. Len(a.route) \in Nat /\ Len(path) <= Len(a.route)
    BY <1>2, LenProperties DEF Ends
  <2>3. Len(a.route) - Len(path) + 2 = Len(a.route) /\ 2 \in 1 .. Len(path) /\ a.route # <<>>
    BY <2>1, <2>2, EmptySeq
  <2>4. path[2] = a.route[Len(a.route)]
    BY <1>2, <2>3 DEF Ends
  <2> QED BY <1>8, <1>9, <2>3, <2>4 DEF Planned, OnRoute
<1>10. CASE q = NoNode
  <2>1. Len(path) < 2
    BY <1>1, <1>2, <1>4, <1>10
  <2>2. CASE p = NoNode
    <3>1. b = Send(taken, GoalCell, GoalCell)
      BY <1>5, <2>2
    <3>2. Planned(b) /\ b.n_current_goal = NoNode
      BY <1>1, <1>6, <1>7, <1>10, <3>1, SendIs DEF Planned, OnRoute
    <3>3. b.pose = a.pose /\ b.obstacles = a.obstacles /\ b.status = a.status /\ b.route = a.route
      BY <1>1, <1>6, <3>1, SendIs
    <3> QED BY <1>2, <2>1, <3>2, <3>3 DEF Knows, b, path
  <2>3. CASE p # NoNode
    <3>1. b = taken
      BY <1>5, <1>10, <2>3
    <3> QED BY <1>2, <1>6, <1>7, <1>10, <2>1, <3>1 DEF Knows, b, path
  <2> QED BY <2>2, <2>3
<1>11. CASE q # NoNode
  <2>1. p # NoNode /\ b = Send(taken, p, q)
    BY <1>1, <1>5, <1>8, <1>11
  <2>2. /\ Planned(b) /\ b.n_current_goal = q /\ b.current_goal = p /\ b.goal_path = left
        /\ b.sent # <<>> /\ Last(b.sent) = [point |-> p, n_point |-> q]
    BY <1>6, <1>7, <1>8, <1>11, <2>1, SendIs DEF Planned, OnRoute
  <2>3. b.pose = a.pose /\ b.obstacles = a.obstacles /\ b.status = a.status /\ b.route = a.route
    BY <1>6, <1>8, <1>11, <2>1, SendIs
  <2>4. Heads(b) = <<p, q>>
    BY <2>2 DEF Heads
  <2>5. Knows(b)
    BY <1>9, <2>2, <2>4 DEF Knows
  <2> QED BY <1>8, <1>11, <2>2, <2>3, <2>4, <2>5 DEF b, path
<1> QED BY <1>10, <1>11

(* command: a route found takes the place of the old one and is sent, unless ArtPot has it. *)
LEMMA CommandKeeps ==
  ASSUME NEW a, OnRoute(a), Knows(a), a.pose \in Area
  PROVE  LET r == Search(a.obstacles, free, a.pose)
             b == command(a, r)
         IN  /\ Planned(b) /\ Knows(b) /\ b.pose = a.pose /\ b.obstacles = a.obstacles
             /\ b.status = "solved" =>
                   /\ IsRoute(b.obstacles, free, b.pose, b.route)
                   /\ Len(b.route) >= 2 => /\ Heads(b)[1] \in {b.route[1], b.route[2]}
                                           /\ Heads(b)[2] = b.route[2]
             /\ b.status = "failed" => \A p \in Seq(Area) : ~IsRoute(b.obstacles, free, b.pose, p)
<1> DEFINE r == Search(a.obstacles, free, a.pose)
           path == r.path
           b == command(a, r)
           failed == [a EXCEPT !.status = r.status]
           c == [a EXCEPT !.status = "solved", !.route = path, !.goal_path = NewPath(@, path)]
<1>1. /\ r.status \in {"solved", "failed", "crashed"} /\ path \in Seq(Area)
      /\ r.status = "solved" => IsRoute(a.obstacles, free, a.pose, path)
      /\ r.status = "failed" => \A p \in Seq(Area) : ~IsRoute(a.obstacles, free, a.pose, p)
  BY SearchFinds
<1>2. b = IF r.status # "solved" THEN failed ELSE IF SamePath(a, path) THEN c ELSE sendWaypoints(c)
  BY DEF command
<1> HIDE DEF r, b
<1>3. CASE r.status # "solved"
  <2>1. /\ failed \in AStarState /\ failed.status = r.status /\ failed.pose = a.pose
        /\ failed.obstacles = a.obstacles /\ failed.goal_path = a.goal_path
        /\ failed.route = a.route /\ failed.current_goal = a.current_goal
        /\ failed.n_current_goal = a.n_current_goal /\ failed.sent = a.sent
    BY <1>1 DEF OnRoute, AStarState
  <2> HIDE DEF failed
  <2>2. b = failed
    BY <1>2, <1>3
  <2>3. Planned(failed) /\ Knows(failed)
    BY <1>3, <2>1 DEF Planned, OnRoute, Knows, Heads
  <2> QED BY <1>1, <1>3, <2>1, <2>2, <2>3 DEF b, r
<1>4. CASE r.status = "solved"
  <2>1. /\ c \in AStarState /\ c.status = "solved" /\ c.pose = a.pose
        /\ c.obstacles = a.obstacles /\ c.goal_path = path
        /\ c.route = path /\ c.current_goal = a.current_goal
        /\ c.n_current_goal = a.n_current_goal /\ c.sent = a.sent
    BY <1>1 DEF OnRoute, AStarState, NewPath
  <2> HIDE DEF c
  <2>2. Len(path) \in Nat /\ (\A i \in 1 .. Len(path) : path[i] \in Area) /\ NoNode \notin Area
    BY <1>1, LenProperties, ElementOfSeq, AreaTyped
  <2>3. /\ path # <<>> /\ path[Len(path)] = GoalCell /\ path[1] = a.pose
        /\ IsRoute(a.obstacles, free, path[1], path)
    BY <1>1, <1>4 DEF IsRoute
  <2>4. Ends(path, path)
    <3>1. \A i \in 1 .. Len(path) : Len(path) - Len(path) + i = i
      BY <2>2
    <3> QED BY <2>2, <3>1 DEF Ends
  <2>5. Planned(c)
    BY <2>1, <2>3, <2>4 DEF Planned, OnRoute
  <2>6. CASE SamePath(a, path)
    <3>1. b = c
      BY <1>2, <1>4, <2>6
    <3>2. Heads(c) = Heads(a)
      BY <2>1 DEF Heads
    <3>3. Knows(c)
      BY <2>1, <2>3, <3>2 DEF Knows
    <3>4. ASSUME Len(path) >= 2
          PROVE  Heads(c)[1] \in {path[1], path[2]} /\ Heads(c)[2] = path[2]
      <4>1. Node(path, 1) = path[1] /\ Node(path, 2) = path[2] /\ path[2] # NoNode
        BY <2>2, <3>4 DEF Node
      <4>2. a.current_goal = path[1] /\ a.n_current_goal = path[2]
        BY <2>6, <4>1 DEF SamePath, nodeEquals
      <4>3. Heads(a) \in {<<path[1], path[2]>>, <<path[2], path[2]>>}
        BY <4>1, <4>2 DEF Knows
      <4> QED BY <3>2, <4>3
    <3> QED BY <2>1, <2>3, <2>5, <3>1, <3>3, <3>4 DEF b, r
  <2>7. CASE ~SamePath(a, path)
    <3>1. b = sendWaypoints(c)
      BY <1>2, <1>4, <2>7
    <3>2. /\ Planned(b) /\ Knows(b) /\ b.pose = c.pose /\ b.obstacles = c.obstacles
          /\ b.status = c.status /\ b.route = c.route
          /\ Len(c.goal_path) >= 2 => Heads(b) = <<c.goal_path[1], c.goal_path[2]>>
      BY <2>5, <3>1, WaypointsKnown
    <3>3. Len(path) >= 2 => Heads(b)[1] \in {path[1], path[2]} /\ Heads(b)[2] = path[2]
      BY <2>1, <3>2
    <3> QED BY <2>1, <2>3, <3>2, <3>3 DEF b, r
  <2> QED BY <2>6, <2>7
<1> QED BY <1>3, <1>4

(* The first half of a turn, from the state between turns. *)
LEMMA UpdatedKeeps ==
  ASSUME NavInv
  PROVE  LET b == updated(astar)
         IN  /\ Planned(b) /\ Knows(b)
             /\ b.obstacles = IF updates = <<>> THEN astar.obstacles
                              ELSE astar.obstacles \cup ToSet(Head(updates).obs)
             /\ b.obstacles # astar.obstacles /\ b.status = "solved" =>
                   /\ IsRoute(b.obstacles, free, b.pose, b.route)
                   /\ Len(b.route) >= 2 => /\ Heads(b)[1] \in {b.route[1], b.route[2]}
                                           /\ Heads(b)[2] = b.route[2]
             /\ b.obstacles # astar.obstacles /\ b.status = "failed" =>
                   \A p \in Seq(Area) : ~IsRoute(b.obstacles, free, b.pose, p)
<1> DEFINE b == updated(astar)
           u == Head(updates)
           marked == [astar EXCEPT !.pose = u.pose, !.obstacles = @ \cup Marked(u)]
<1>1. astar \in AStarState /\ Planned(astar) /\ Knows(astar)
  BY DEF NavInv, Planned, OnRoute
<1>2. CASE updates = <<>>
  <2>1. b = astar
    BY <1>2 DEF updated
  <2> HIDE DEF b
  <2> QED BY <1>1, <1>2, <2>1 DEF b
<1>3. CASE updates # <<>>
  <2>1. u \in [pose : Poses, obs : Seq(Cells)]
    BY <1>3, HeadTailProperties DEF NavInv, TypeOK
  <2>2. b = IF u.obs = <<>> THEN marked ELSE command(marked, Search(marked.obstacles, free, u.pose))
    BY <1>3 DEF updated
  <2> HIDE DEF u, b
  <2>3. u.pose \in Cells /\ u.obs \in Seq(Cells) /\ Marked(u) = ToSet(u.obs) /\ ToSet(u.obs) \subseteq Cells
    <3>1. u.pose \in Cells /\ u.obs \in Seq(Cells)
      BY <2>1, PoseAssumption
    <3>2. ToSet(u.obs) \subseteq Cells
      BY <3>1, LenProperties, ElementOfSeq DEF ToSet
    <3> QED BY <3>1, <3>2 DEF Marked
  <2>4. /\ marked \in AStarState /\ marked.status = astar.status /\ marked.pose = u.pose
        /\ marked.obstacles = astar.obstacles \cup ToSet(u.obs)
        /\ marked.goal_path = astar.goal_path
        /\ marked.route = astar.route /\ marked.current_goal = astar.current_goal
        /\ marked.n_current_goal = astar.n_current_goal /\ marked.sent = astar.sent
    BY <1>1, <2>3 DEF AStarState
  <2> HIDE DEF marked
  <2>5. OnRoute(marked) /\ Knows(marked)
    BY <1>1, <2>4 DEF Planned, OnRoute, Knows, Heads
  <2>6. CASE u.obs = <<>>
    <3>1. b = marked
      BY <2>2, <2>6
    <3>2. ToSet(u.obs) = {}
      BY <2>6 DEF ToSet
    <3>3. marked.obstacles = astar.obstacles
      BY <2>4, <3>2
    <3>4. Planned(marked)
      BY <1>1, <2>4, <2>5, <3>3 DEF Planned
    <3> QED BY <1>3, <2>4, <2>5, <3>1, <3>3, <3>4 DEF b, u
  <2>7. CASE u.obs # <<>>
    <3>1. b = command(marked, Search(marked.obstacles, free, marked.pose))
      BY <2>2, <2>4, <2>7
    <3>2. marked.pose \in Area
      BY <2>3, <2>4, AreaTyped
    <3>3. /\ Planned(b) /\ Knows(b) /\ b.pose = marked.pose /\ b.obstacles = marked.obstacles
          /\ b.status = "solved" =>
                /\ IsRoute(b.obstacles, free, b.pose, b.route)
                /\ Len(b.route) >= 2 => /\ Heads(b)[1] \in {b.route[1], b.route[2]}
                                        /\ Heads(b)[2] = b.route[2]
          /\ b.status = "failed" => \A p \in Seq(Area) : ~IsRoute(b.obstacles, free, b.pose, p)
      BY <2>5, <3>1, <3>2, CommandKeeps
    <3> QED BY <1>3, <2>4, <3>3 DEF b, u
  <2> QED BY <2>6, <2>7
<1> QED BY <1>2, <1>3

(* The second half: a request is answered. *)
LEMMA AnsweredKeeps ==
  ASSUME NEW b, Planned(b), Knows(b)
  PROVE  LET a == answered(b)
         IN  /\ Planned(a) /\ Knows(a) /\ a.pose = b.pose /\ a.obstacles = b.obstacles
             /\ a.status = b.status /\ a.route = b.route
             /\ requests = 0 => a = b
<1> DEFINE a == answered(b)
<1>1. CASE requests = 0 \/ b.status = "crashed"
  <2>1. a = b
    BY <1>1 DEF answered
  <2> HIDE DEF a
  <2> QED BY <2>1 DEF a
<1>2. CASE ~(requests = 0 \/ b.status = "crashed")
  <2>1. a = IF b.goal_path = <<>> THEN Send(b, GoalCell, GoalCell) ELSE sendWaypoints(b)
    BY <1>2 DEF answered, answer
  <2> HIDE DEF a
  <2>2. CASE b.goal_path = <<>>
    <3>1. a = Send(b, GoalCell, GoalCell) /\ GoalCell \in Area /\ b \in AStarState
      BY <2>1, <2>2, AreaTyped, GoalAssumption DEF Planned, OnRoute
    <3>2. /\ a \in AStarState /\ a.pose = b.pose /\ a.obstacles = b.obstacles
          /\ a.goal_path = b.goal_path /\ a.status = b.status /\ a.route = b.route
          /\ a.current_goal = b.current_goal /\ a.n_current_goal = b.n_current_goal
          /\ a.sent # <<>> /\ Last(a.sent) = [point |-> GoalCell, n_point |-> GoalCell]
      BY <3>1, SendIs
    <3>3. Heads(a) = <<GoalCell, GoalCell>>
      BY <3>2 DEF Heads
    <3>4. Planned(a)
      BY <3>2 DEF Planned, OnRoute
    <3>5. Knows(a)
      BY <2>2, <3>2, <3>3 DEF Knows
    <3> QED BY <1>2, <3>2, <3>4, <3>5 DEF a
  <2>3. CASE b.goal_path # <<>>
    <3>1. a = sendWaypoints(b)
      BY <2>1, <2>3
    <3>2. /\ Planned(a) /\ Knows(a) /\ a.pose = b.pose /\ a.obstacles = b.obstacles
          /\ a.status = b.status /\ a.route = b.route
      BY <3>1, WaypointsKnown
    <3> QED BY <1>2, <3>2 DEF a
  <2> QED BY <2>2, <2>3
<1> QED BY <1>1, <1>2

-----------------------------------------------------------------------------
(***************************************************************************)
(* The steps.                                                              *)
(***************************************************************************)
LEMMA NavInit == Init => NavInv
<1> SUFFICES ASSUME Init PROVE NavInv
  OBVIOUS
<1> USE DEF Init
<1>1. Origin \in Area
  <2>1. GRID_NUM \div 2 \in 0 .. GRID_NUM - 1
    BY GridAssumption
  <2>2. Truncated(GRID_NUM) = GRID_NUM \div 2
    BY GridAssumption DEF Truncated
  <2>3. AtEdge(Truncated(GRID_NUM)) \in 0 .. GRID_NUM - 1
    BY GridAssumption, <2>1, <2>2 DEF AtEdge
  <2>4. Origin \in Cells
    BY <2>3 DEF Origin, gridify, Cells
  <2> QED BY <2>4, AreaTyped
<1>2. astar \in AStarState
  BY EmptySeq DEF AStarState
<1>3. TypeOK
  <2>1. MaxData \in Nat /\ OBS_THRES \in Nat
    BY CountsAssumption
  <2> QED BY <1>1, <1>2, <2>1, EmptySeq DEF TypeOK
<1>4. MapsAgree
  <2>1. \A c \in Cells : ~(seen[c] > OBS_THRES)
    BY CountsAssumption
  <2>2. InFlight = {} /\ Once
    BY DEF InFlight, Once
  <2> QED BY <2>1, <2>2 DEF MapsAgree
<1>5. Planned(astar)
  <2>1. Ends(<<>>, <<>>)
    BY DEF Ends
  <2> QED BY <1>2, <2>1 DEF Planned, OnRoute
<1>6. Knows(astar) /\ astar.sent = <<>>
  BY DEF Knows
<1> QED BY <1>3, <1>4, <1>5, <1>6 DEF NavInv

(* Nothing A* is concerned with has changed. *)
LEMMA AStarRests ==
  ASSUME NavInv, UNCHANGED <<free, astar>>, Told' = Told
  PROVE  Planned(astar)' /\ Knows(astar)' /\ (astar.sent = <<>>)'
<1>1. Planned(astar)'
  BY DEF NavInv, Planned, OnRoute
<1>2. Knows(astar)'
  BY DEF NavInv, Knows, Heads
<1> QED BY <1>1, <1>2 DEF NavInv

LEMMA FeedKeeps ==
  ASSUME NavInv, NEW d \in Data, Feed(d)
  PROVE  NavInv'
<1> USE DEF Feed
<1>1. Planned(astar)' /\ Knows(astar)' /\ (astar.sent = <<>>)'
  BY AStarRests DEF Told
<1>2. TypeOK'
  <2>1. fed + 1 \in 0 .. MaxData
    BY CountsAssumption DEF NavInv, TypeOK
  <2>2. mapData' \in Seq(Data) /\ artData' \in Seq(Data)
    BY AppendProperties DEF NavInv, TypeOK
  <2> QED BY <2>1, <2>2 DEF NavInv, TypeOK
<1>3. MapsAgree'
  BY DEF NavInv, MapsAgree, InFlight, Once
<1> QED BY <1>1, <1>2, <1>3 DEF NavInv

(* An update joins those on their way to A*. *)
Updates == [pose : Poses, obs : Seq(Cells)]

LEMMA UpdateSent ==
  ASSUME NavInv, NEW u \in Updates, updates' = Append(updates, u), Distinct(u.obs),
         InFlight \cap ToSet(u.obs) = {}
  PROVE  /\ updates' \in Seq(Updates) /\ InFlight' = InFlight \cup ToSet(u.obs) /\ Once'
<1> DEFINE n == Len(updates)
<1>1. updates \in Seq(Updates) /\ n \in Nat /\ DOMAIN updates = 1 .. n
  BY LenProperties DEF NavInv, TypeOK, Updates
<1>2. /\ updates' \in Seq(Updates) /\ DOMAIN updates' = 1 .. n + 1 /\ updates'[n + 1] = u
      /\ \A i \in 1 .. n : updates'[i] = updates[i]
  BY <1>1, AppendProperties, LenProperties
<1> HIDE DEF n
<1>3. InFlight' = InFlight \cup ToSet(u.obs)
  <2>1. InFlight' \subseteq InFlight \cup ToSet(u.obs)
    BY <1>1, <1>2 DEF InFlight
  <2>2. InFlight \cup ToSet(u.obs) \subseteq InFlight'
    BY <1>1, <1>2 DEF InFlight
  <2> QED BY <2>1, <2>2
<1>4. Once'
  <2> SUFFICES ASSUME NEW i \in 1 .. n + 1, NEW j \in 1 .. n + 1,
                      NEW k \in DOMAIN updates'[i].obs, NEW l \in DOMAIN updates'[j].obs,
                      updates'[i].obs[k] = updates'[j].obs[l]
               PROVE  i = j /\ k = l
    BY <1>2 DEF Once
  <2>1. updates'[i].obs[k] \in ToSet(updates'[i].obs) /\ updates'[j].obs[l] \in ToSet(updates'[j].obs)
    BY DEF ToSet
  <2>2. \A h \in 1 .. n : ToSet(updates'[h].obs) \subseteq InFlight
    BY <1>1, <1>2 DEF InFlight
  <2>3. CASE i \in 1 .. n /\ j \in 1 .. n
    BY <1>1, <1>2, <2>3 DEF NavInv, MapsAgree, Once
  <2>4. CASE i = n + 1 /\ j = n + 1
    BY <1>2, <2>4 DEF Distinct
  <2>5. CASE i \in 1 .. n /\ j = n + 1
    BY <1>2, <2>1, <2>2, <2>5
  <2>6. CASE i = n + 1 /\ j \in 1 .. n
    BY <1>2, <2>1, <2>2, <2>6
  <2> QED BY <1>1, <2>3, <2>4, <2>5, <2>6
<1> QED BY <1>2, <1>3, <1>4

LEMMA MapperKeeps ==
  ASSUME NavInv, MapperTurn
  PROVE  NavInv'
<1> USE DEF MapperTurn
<1>1. Planned(astar)' /\ Knows(astar)' /\ (astar.sent = <<>>)'
  BY AStarRests DEF Told
<1>2. acks' \in Nat
  BY DEF NavInv, TypeOK
<1>3. CASE mapData = <<>>
  <2>1. UNCHANGED <<seen, updates, mapData>>
    BY <1>3
  <2>2. TypeOK'
    BY <1>2, <2>1 DEF NavInv, TypeOK
  <2>3. MapsAgree'
    BY <2>1 DEF NavInv, MapsAgree, InFlight, Once
  <2> QED BY <1>1, <2>2, <2>3 DEF NavInv
<1>4. CASE mapData # <<>>
  <2> DEFINE d == Head(mapData)
             m == updateMap(d)
             u == [pose |-> d.pose, obs |-> m.obs]
  <2>1. d \in Data /\ Tail(mapData) \in Seq(Data)
    BY <1>4, HeadTailProperties DEF NavInv, TypeOK
  <2>2. seen' = m.seen /\ updates' = Append(updates, u) /\ mapData' = Tail(mapData)
    BY <1>4
  <2> HIDE DEF d
  <2>3. seen \in Counts
    BY DEF NavInv, TypeOK, Counts
  <2>4. Counted(seen, m)
    BY <2>1, <2>3, UpdateCounts
  <2> HIDE DEF m
  <2>5. u \in Updates /\ u.obs = m.obs
    BY <2>1, <2>4 DEF Counted, Updates, Data
  <2> HIDE DEF u
  <2>6. \A c \in Cells : seen[c] \in Int /\ m.seen[c] \in Int /\ seen[c] <= m.seen[c] /\ OBS_THRES \in Int
    BY <2>3, <2>4, CountsAssumption DEF Counted, Counts
  <2>7. astar.obstacles \cup InFlight = {c \in Cells : seen[c] > OBS_THRES}
    BY DEF NavInv, MapsAgree
  <2>8. ToSet(m.obs) = {c \in Cells : seen[c] <= OBS_THRES /\ m.seen[c] > OBS_THRES}
    BY <2>4 DEF Counted
  <2>9. (astar.obstacles \cup InFlight) \cap ToSet(m.obs) = {}
    BY <2>6, <2>7, <2>8
  <2>10. updates' \in Seq(Updates) /\ InFlight' = InFlight \cup ToSet(u.obs) /\ Once'
    BY <2>2, <2>4, <2>5, <2>9, UpdateSent DEF Counted
  <2>11. astar.obstacles \cup InFlight \cup ToSet(m.obs) = {c \in Cells : m.seen[c] > OBS_THRES}
    BY <2>6, <2>7, <2>8
  <2>12. MapsAgree'
    <3>1. astar.obstacles \cap InFlight = {}
      BY DEF NavInv, MapsAgree
    <3>2. astar.obstacles \cup InFlight' = {c \in Cells : seen'[c] > OBS_THRES}
      BY <2>2, <2>5, <2>10, <2>11
    <3>3. astar.obstacles \cap InFlight' = {}
      BY <2>5, <2>9, <2>10, <3>1
    <3> QED BY <2>10, <3>2, <3>3 DEF MapsAgree
  <2>13. TypeOK'
    <3>1. seen' \in [Cells -> 0 .. OBS_THRES + 1]
      BY <2>2, <2>4 DEF Counted, Counts
    <3>2. updates' \in Seq([pose : Poses, obs : Seq(Cells)])
      BY <2>10 DEF Updates
    <3> QED BY <1>2, <2>1, <2>2, <3>1, <3>2 DEF NavInv, TypeOK
  <2> QED BY <1>1, <2>12, <2>13 DEF NavInv
<1> QED BY <1>3, <1>4

(* The first update is taken: its cells are no longer on their way. *)
LEMMA UpdateRead ==
  ASSUME NavInv, updates # <<>>, updates' = Tail(updates)
  PROVE  /\ updates' \in Seq(Updates) /\ Once'
         /\ InFlight = ToSet(Head(updates).obs) \cup InFlight'
         /\ ToSet(Head(updates).obs) \cap InFlight' = {}
<1> DEFINE n == Len(updates)
           u == Head(updates)
<1>1. updates \in Seq(Updates) /\ n \in Nat \ {0} /\ DOMAIN updates = 1 .. n /\ u = updates[1]
  BY LenProperties, EmptySeq DEF NavInv, TypeOK, Updates
<1>2. /\ updates' \in Seq(Updates) /\ DOMAIN updates' = 1 .. n - 1
      /\ \A i \in 1 .. n - 1 : updates'[i] = updates[i + 1]
  BY <1>1, HeadTailProperties, LenProperties
<1> HIDE DEF n, u
<1>3. \A i \in 1 .. n - 1 : i + 1 \in 1 .. n /\ i + 1 # 1
  BY <1>1
<1>4. \A i \in 1 .. n : i # 1 => i - 1 \in 1 .. n - 1 /\ (i - 1) + 1 = i
  BY <1>1
<1>5. InFlight = ToSet(u.obs) \cup InFlight'
  <2>1. InFlight \subseteq ToSet(u.obs) \cup InFlight'
    <3> SUFFICES ASSUME NEW i \in 1 .. n PROVE ToSet(updates[i].obs) \subseteq ToSet(u.obs) \cup InFlight'
      BY <1>1 DEF InFlight
    <3>1. CASE i = 1
      BY <1>1, <3>1
    <3>2. CASE i # 1
      <4>1. i - 1 \in DOMAIN updates' /\ updates'[i - 1] = updates[i]
        BY <1>2, <1>4, <3>2
      <4>2. ToSet(updates'[i - 1].obs) \subseteq InFlight'
        BY <4>1 DEF InFlight
      <4> QED BY <4>1, <4>2
    <3> QED BY <3>1, <3>2
  <2>2. InFlight' \subseteq InFlight
    <3> SUFFICES ASSUME NEW i \in 1 .. n - 1 PROVE ToSet(updates'[i].obs) \subseteq InFlight
      BY <1>2 DEF InFlight
    <3>1. i + 1 \in DOMAIN updates /\ updates'[i] = updates[i + 1]
      BY <1>1, <1>2, <1>3
    <3> QED BY <3>1 DEF InFlight
  <2>3. ToSet(u.obs) \subseteq InFlight
    <3>1. 1 \in DOMAIN updates
      BY <1>1
    <3> QED BY <1>1, <3>1 DEF InFlight
  <2> QED BY <2>1, <2>2, <2>3
<1>6. Once
  BY DEF NavInv, MapsAgree
<1>7. Once'
  <2> SUFFICES ASSUME NEW i \in 1 .. n - 1, NEW j \in 1 .. n - 1,
                      NEW k \in DOMAIN updates'[i].obs, NEW l \in DOMAIN updates'[j].obs,
                      updates'[i].obs[k] = updates'[j].obs[l]
               PROVE  i = j /\ k = l
    BY <1>2 DEF Once
  <2>1. updates'[i] = updates[i + 1] /\ updates'[j] = updates[j + 1]
    BY <1>2
  <2>2. i + 1 \in DOMAIN updates /\ j + 1 \in DOMAIN updates
    BY <1>1, <1>3
  <2>3. i + 1 = j + 1 /\ k = l
    BY <1>6, <2>1, <2>2 DEF Once
  <2> QED BY <2>3
<1>8. ASSUME NEW c \in ToSet(u.obs), c \in InFlight' PROVE FALSE
  <2>1. PICK k \in DOMAIN u.obs : c = u.obs[k]
    BY DEF ToSet
  <2>2. PICK i \in 1 .. n - 1 : c \in ToSet(updates'[i].obs)
    BY <1>2, <1>8 DEF InFlight
  <2>3. PICK l \in DOMAIN updates'[i].obs : c = updates'[i].obs[l]
    BY <2>2 DEF ToSet
  <2>4. 1 \in DOMAIN updates /\ i + 1 \in DOMAIN updates /\ updates'[i] = updates[i + 1] /\ i + 1 # 1
    BY <1>1, <1>2, <1>3
  <2>5. PICK h : h = i + 1
    OBVIOUS
  <2>6. k \in DOMAIN updates[1].obs /\ l \in DOMAIN updates[h].obs /\ updates[1].obs[k] = updates[h].obs[l]
    BY <1>1, <2>1, <2>3, <2>4, <2>5
  <2>7. 1 = h
    BY <1>6, <2>4, <2>5, <2>6 DEF Once
  <2> QED BY <2>4, <2>5, <2>7
<1> QED BY <1>2, <1>5, <1>7, <1>8 DEF u

(***************************************************************************)
(* A turn of A*: what it knows of ArtPot holds for the messages sent, and  *)
(* a search that succeeded has left a route that ArtPot heads for, one     *)
(* that failed could not succeed.                                          *)
(***************************************************************************)
TurnFinds ==
  astar'.obstacles # astar.obstacles =>
     /\ astar'.status = "solved" =>
           /\ IsRoute(astar'.obstacles, free, astar'.pose, astar'.route)
           /\ (Len(astar'.route) >= 2 /\ requests = 0) =>
                 /\ Told'[1] \in {astar'.route[1], astar'.route[2]}
                 /\ Told'[2] = astar'.route[2]
     /\ astar'.status = "failed" =>
           \A p \in Seq(Area) : ~IsRoute(astar'.obstacles, free, astar'.pose, p)

LEMMA AStarKeeps ==
  ASSUME NavInv, AStarTurn
  PROVE  NavInv' /\ TurnFinds
<1> DEFINE b == updated(astar)
           a == answered(b)
<1>1. /\ Planned(b) /\ Knows(b)
      /\ b.obstacles = IF updates = <<>> THEN astar.obstacles
                       ELSE astar.obstacles \cup ToSet(Head(updates).obs)
      /\ b.obstacles # astar.obstacles /\ b.status = "solved" =>
            /\ IsRoute(b.obstacles, free, b.pose, b.route)
            /\ Len(b.route) >= 2 => /\ Heads(b)[1] \in {b.route[1], b.route[2]}
                                    /\ Heads(b)[2] = b.route[2]
      /\ b.obstacles # astar.obstacles /\ b.status = "failed" =>
            \A p \in Seq(Area) : ~IsRoute(b.obstacles, free, b.pose, p)
  BY UpdatedKeeps
<1>2. /\ astar' = [a EXCEPT !.sent = <<>>]
      /\ responses' = responses \o a.sent
      /\ requests' = IF requests > 0 /\ a.status # "crashed" THEN requests - 1 ELSE requests
      /\ updates' = IF updates # <<>> THEN Tail(updates) ELSE updates
      /\ acks' = IF updates # <<>> THEN acks + 1 ELSE acks
      /\ UNCHANGED <<fed, free, mapData, artData, seen, artpot>>
  BY DEF AStarTurn
<1> HIDE DEF b
<1>3. /\ Planned(a) /\ Knows(a) /\ a.pose = b.pose /\ a.obstacles = b.obstacles
      /\ a.status = b.status /\ a.route = b.route /\ (requests = 0 => a = b)
  BY <1>1, AnsweredKeeps
<1> HIDE DEF a
<1>4. a \in AStarState /\ a.sent \in Seq(Waypoints) /\ responses \in Seq(Waypoints)
  BY <1>3 DEF Planned, OnRoute, AStarState, NavInv, TypeOK
<1>5. /\ astar' \in AStarState /\ astar'.sent = <<>> /\ astar'.pose = a.pose
      /\ astar'.obstacles = a.obstacles /\ astar'.goal_path = a.goal_path
      /\ astar'.status = a.status /\ astar'.route = a.route
      /\ astar'.current_goal = a.current_goal /\ astar'.n_current_goal = a.n_current_goal
  <2>1. <<>> \in Seq(Waypoints)
    BY EmptySeq
  <2> QED BY <1>2, <1>4, <2>1 DEF AStarState
<1>6. Heads(a) = Told'
  <2>1. Len(responses) \in Nat /\ Len(a.sent) \in Nat
    BY <1>4, LenProperties
  <2>2. CASE a.sent = <<>>
    <3>1. responses' = responses
      BY <1>2, <1>4, <2>2, ConcatEmptySeq
    <3> QED BY <1>2, <2>2, <3>1 DEF Heads, Told
  <2>3. CASE a.sent # <<>>
    <3>1. Len(a.sent) \in Nat \ {0}
      BY <1>4, <2>3, EmptySeq
    <3>2. /\ Len(responses \o a.sent) = Len(responses) + Len(a.sent)
          /\ \A i \in 1 .. Len(responses) + Len(a.sent) : (responses \o a.sent)[i] =
                IF i <= Len(responses) THEN responses[i] ELSE a.sent[i - Len(responses)]
      BY <1>4, ConcatProperties
    <3>3. Len(responses) + Len(a.sent) - Len(responses) = Len(a.sent)
      BY <2>1
    <3>4. (responses \o a.sent)[Len(responses) + Len(a.sent)] = a.sent[Len(a.sent)]
      BY <2>1, <3>1, <3>2, <3>3
    <3>5. Last(responses') = Last(a.sent)
      BY <1>2, <3>2, <3>4 DEF Last
    <3>6. responses' # <<>>
      <4>1. Len(responses') \in Nat /\ Len(responses') > 0
        BY <1>2, <2>1, <3>1, <3>2
      <4> QED BY <4>1
    <3> QED BY <2>3, <3>5, <3>6 DEF Heads, Told
  <2> QED BY <2>2, <2>3
<1>7. Planned(astar)'
  BY <1>2, <1>3, <1>5 DEF Planned, OnRoute
<1>8. Knows(astar)'
  <2>1. Heads(astar)' = Heads(a)
    BY <1>5, <1>6 DEF Heads
  <2> QED BY <1>3, <1>5, <2>1 DEF Knows
<1>9. MapsAgree' /\ updates' \in Seq(Updates)
  <2>1. /\ astar.obstacles \cup InFlight = {c \in Cells : seen[c] > OBS_THRES}
        /\ astar.obstacles \cap InFlight = {} /\ Once /\ seen' = seen
    BY <1>2 DEF NavInv, MapsAgree
  <2>2. CASE updates = <<>>
    <3>1. updates' = updates /\ astar'.obstacles = astar.obstacles
      BY <1>1, <1>2, <1>3, <1>5, <2>2
    <3>2. InFlight' = InFlight /\ Once'
      BY <2>1, <3>1 DEF InFlight, Once
    <3> QED BY <2>1, <3>1, <3>2 DEF MapsAgree, NavInv, TypeOK, Updates
  <2>3. CASE updates # <<>>
    <3>1. updates' = Tail(updates) /\ astar'.obstacles = astar.obstacles \cup ToSet(Head(updates).obs)
      BY <1>1, <1>2, <1>3, <1>5, <2>3
    <3>2. /\ updates' \in Seq(Updates) /\ Once'
          /\ InFlight = ToSet(Head(updates).obs) \cup InFlight'
          /\ ToSet(Head(updates).obs) \cap InFlight' = {}
      BY <2>3, <3>1, UpdateRead
    <3>3. astar'.obstacles \cup InFlight' = {c \in Cells : seen'[c] > OBS_THRES}
      BY <2>1, <3>1, <3>2
    <3>4. astar'.obstacles \cap InFlight' = {}
      BY <2>1, <3>1, <3>2
    <3> QED BY <3>2, <3>3, <3>4 DEF MapsAgree
  <2> QED BY <2>2, <2>3
<1>10. TypeOK'
  <2>1. responses' \in Seq(Waypoints)
    BY <1>2, <1>4, ConcatProperties
  <2>2. acks' \in Nat /\ requests' \in Nat
    BY <1>2 DEF NavInv, TypeOK
  <2>3. updates' \in Seq([pose : Poses, obs : Seq(Cells)])
    BY <1>9 DEF Updates
  <2> QED BY <1>2, <1>5, <2>1, <2>2, <2>3 DEF NavInv, TypeOK
<1>11. ASSUME astar'.obstacles # astar.obstacles, astar'.status = "solved"
       PROVE  /\ IsRoute(astar'.obstacles, free, astar'.pose, astar'.route)
              /\ (Len(astar'.route) >= 2 /\ requests = 0) =>
                    /\ Told'[1] \in {astar'.route[1], astar'.route[2]}
                    /\ Told'[2] = astar'.route[2]
  <2>1. /\ IsRoute(b.obstacles, free, b.pose, b.route)
        /\ Len(b.route) >= 2 => /\ Heads(b)[1] \in {b.route[1], b.route[2]}
                                /\ Heads(b)[2] = b.route[2]
    BY <1>1, <1>3, <1>5, <1>11
  <2>2. requests = 0 => Heads(b) = Told'
    BY <1>3, <1>6
  <2>3. IsRoute(astar'.obstacles, free, astar'.pose, astar'.route) /\ astar'.route = b.route
    BY <1>3, <1>5, <2>1
  <2> QED BY <2>1, <2>2, <2>3
<1>12. ASSUME astar'.obstacles # astar.obstacles, astar'.status = "failed"
       PROVE  \A p \in Seq(Area) : ~IsRoute(astar'.obstacles, free, astar'.pose, p)
  BY <1>1, <1>3, <1>5, <1>12
<1>13. TurnFinds
  BY <1>11, <1>12 DEF TurnFinds
<1> QED BY <1>5, <1>7, <1>8, <1>9, <1>10, <1>13 DEF NavInv

LEMMA ArtPotKeeps ==
  ASSUME NavInv, ArtPotTurn
  PROVE  NavInv'
<1> DEFINE asks == artData # <<>> /\ There(Head(artData).pose, artpot.goal)
           moved == IF asks THEN [artpot EXCEPT !.goal = artpot.next_goal] ELSE artpot
           w == Head(responses)
<1>1. /\ requests' = IF asks THEN requests + 1 ELSE requests
      /\ artpot' = IF responses # <<>> THEN [goal |-> w.point, next_goal |-> w.n_point] ELSE moved
      /\ artData' = IF artData # <<>> THEN Tail(artData) ELSE artData
      /\ responses' = IF responses # <<>> THEN Tail(responses) ELSE responses
      /\ UNCHANGED <<fed, free, mapData, updates, acks, seen, astar>>
  BY DEF ArtPotTurn
<1>2. TypeOK
  BY DEF NavInv
<1>3. requests' \in Nat
  <2> HIDE DEF asks
  <2> QED BY <1>1, <1>2 DEF TypeOK
<1>4. moved \in [goal : Area, next_goal : Area] /\ moved.next_goal = artpot.next_goal
      /\ moved.goal \in {artpot.goal, artpot.next_goal}
  <2> HIDE DEF asks
  <2> QED BY <1>2 DEF TypeOK
<1> HIDE DEF asks, moved
<1>5. artData' \in Seq(Data)
  BY <1>1, <1>2, HeadTailProperties DEF TypeOK
<1>6. ASSUME responses # <<>>
      PROVE  /\ w \in Waypoints /\ responses' \in Seq(Waypoints)
             /\ responses' # <<>> => Last(responses') = Last(responses)
             /\ responses' = <<>> => w = Last(responses)
  <2> DEFINE n == Len(responses)
  <2>1. responses \in Seq(Waypoints) /\ n \in Nat \ {0} /\ w = responses[1] /\ responses' = Tail(responses)
    BY <1>1, <1>2, <1>6, EmptySeq DEF TypeOK
  <2>2. /\ w \in Waypoints /\ responses' \in Seq(Waypoints) /\ Len(responses') = n - 1
        /\ \A i \in 1 .. n - 1 : responses'[i] = responses[i + 1]
    BY <1>6, <2>1, HeadTailProperties
  <2>3. ASSUME responses' # <<>> PROVE Last(responses') = Last(responses)
    <3>1. n - 1 \in 1 .. n - 1 /\ (n - 1) + 1 = n
      BY <2>1, <2>2, <2>3, EmptySeq
    <3> QED BY <2>2, <3>1 DEF Last
  <2>4. ASSUME responses' = <<>> PROVE w = Last(responses)
    <3>1. n = 1
      BY <2>1, <2>2, <2>4, EmptySeq
    <3> QED BY <2>1, <3>1 DEF Last
  <2> QED BY <2>2, <2>3, <2>4
<1>7. Knows(astar)'
  <2>1. CASE responses = <<>>
    <3>1. Told' \in {Told, <<Told[2], Told[2]>>}
      BY <1>1, <1>4, <2>1 DEF Told
    <3>2. Heads(astar) = Told /\ Heads(astar)' = Told' /\ astar' = astar
      BY <1>1 DEF Heads, NavInv
    <3> QED BY <3>1, <3>2 DEF Knows, NavInv
  <2>2. CASE responses # <<>>
    <3>1. Told' = Told
      BY <1>1, <1>6, <2>2 DEF Told
    <3> QED BY <1>1, <3>1, AStarRests
  <2> QED BY <2>1, <2>2
<1>8. Planned(astar)' /\ (astar.sent = <<>>)'
  BY <1>1 DEF NavInv, Planned, OnRoute
<1>9. TypeOK'
  <2>1. artpot' \in [goal : Area, next_goal : Area] /\ responses' \in Seq(Waypoints)
    BY <1>1, <1>2, <1>4, <1>6 DEF TypeOK, Waypoints
  <2> QED BY <1>1, <1>2, <1>3, <1>5, <2>1 DEF TypeOK
<1>10. MapsAgree'
  BY <1>1 DEF NavInv, MapsAgree, InFlight, Once
<1> QED BY <1>7, <1>8, <1>9, <1>10 DEF NavInv

LEMMA NavNext == NavInv /\ [Next]_vars => NavInv'
<1> SUFFICES ASSUME NavInv, [Next]_vars PROVE NavInv'
  OBVIOUS
<1>1. CASE \E d \in Data : Feed(d)
  BY <1>1, FeedKeeps
<1>2. CASE MapperTurn
  BY <1>2, MapperKeeps
<1>3. CASE AStarTurn
  BY <1>3, AStarKeeps
<1>4. CASE ArtPotTurn
  BY <1>4, ArtPotKeeps
<1>5. CASE UNCHANGED vars
  <2>1. Planned(astar)' /\ Knows(astar)' /\ (astar.sent = <<>>)'
    BY <1>5, AStarRests DEF vars, Told
  <2>2. TypeOK' /\ MapsAgree'
    BY <1>5 DEF vars, NavInv, TypeOK, MapsAgree, InFlight, Once
  <2> QED BY <2>1, <2>2 DEF NavInv
<1> QED BY <1>1, <1>2, <1>3, <1>4, <1>5 DEF Next

LEMMA NavAlways == Spec => []NavInv
<1> QED BY NavInit, NavNext, PTL DEF Spec

-----------------------------------------------------------------------------
(***************************************************************************)
(* The theorems.                                                           *)
(***************************************************************************)

(***************************************************************************)
(* A robot whose surroundings are walled in, with no free way to the edge  *)
(* of the map: whatever the memory around the map reads as, the search of  *)
(* command (a_star.c) sees no node outside the walls, genNeighbors reads   *)
(* obstacle_map in range only (a_star.c:72, :78), and after as many rounds *)
(* as there are cells within the walls the loop has ended, with an empty   *)
(* open list, the goal at its head or the crash.  Nothing is said of a     *)
(* search that leaves the map: there the code reads other memory, rows of  *)
(* the map under other indexes among it, and nothing in it ends the loop.  *)
(***************************************************************************)
THEOREM SearchEnds ==
  ASSUME NEW obs, NEW ring, NEW Room, IsRoom(obs, Room), NEW pose \in Room, NEW n \in Nat
  PROVE  LET s == SearchAfter(obs, ring, pose, n)
         IN  /\ n >= Cardinality(Room) => Stopped(s)
             /\ Seen(s) \subseteq Room
             /\ \A a \in Seen(s), j \in DOMAIN Offsets : Neighbour(a, j) \in Cells
<1> DEFINE s == SearchAfter(obs, ring, pose, n)
<1>1. Room \subseteq Area /\ pose \in Area /\ IsFiniteSet(Room)
  BY AreaTyped, AreaSize, FS_Subset DEF IsRoom
<1>2. Searched(obs, ring, pose, s, n)
  BY <1>1, SearchKeeps
<1> HIDE DEF s
<1>3. Seen(s) \subseteq Room
  BY <1>2, SeenInRoom DEF Searched
<1>4. n >= Cardinality(Room) => Stopped(s)
  BY <1>1, <1>2, <1>3, SearchExhausts
<1>5. \A a \in Seen(s), j \in DOMAIN Offsets : Neighbour(a, j) \in Cells
  BY <1>3, RoomInside
<1> QED BY <1>3, <1>4, <1>5 DEF s

(* Types: in particular, no update names a cell that is not on the map (mapper.c:79). *)
THEOREM NavigationTypes == Spec => []TypeOK
<1>1. NavInv => TypeOK
  BY DEF NavInv
<1> QED BY <1>1, NavAlways, PTL

(***************************************************************************)
(* What the Mapper has counted as an obstacle is known to A* or on its     *)
(* way, once, and nothing else is.                                         *)
(***************************************************************************)
THEOREM MapsInStep == Spec => []MapsAgree
<1>1. NavInv => MapsAgree
  BY DEF NavInv
<1> QED BY <1>1, NavAlways, PTL

LEMMA SuffixIs ==
  ASSUME NEW T, NEW rest \in Seq(T), NEW whole \in Seq(T), Ends(rest, whole)
  PROVE  IsSuffix(rest, whole)
<1> DEFINE n == Len(rest)
           r == Reverse(rest)
           w == Reverse(whole)
<1>1. n \in Nat /\ Len(whole) \in Nat /\ n <= Len(whole)
  BY LenProperties DEF Ends
<1>2. /\ Len(r) = n /\ Len(w) = Len(whole)
      /\ \A i \in 1 .. n : r[i] = rest[n - i + 1]
      /\ \A i \in 1 .. Len(whole) : w[i] = whole[Len(whole) - i + 1]
  BY <1>1 DEF Reverse
<1> HIDE DEF r, w
<1>3. ASSUME NEW i \in 1 .. n PROVE r[i] = w[i]
  <2>1. n - i + 1 \in 1 .. n /\ Len(whole) - n + (n - i + 1) = Len(whole) - i + 1
        /\ i \in 1 .. Len(whole)
    BY <1>1
  <2> QED BY <1>2, <2>1 DEF Ends
<1>4. SubSeq(r, 1, n) = SubSeq(w, 1, n)
  BY <1>1, <1>3
<1> QED BY <1>1, <1>2, <1>4 DEF IsSuffix, IsPrefix, r, w

(***************************************************************************)
(* The way points that A* has still to send are the end of its last route, *)
(* and after a search that succeeded no known obstacle is among them, but  *)
(* for the cell the robot was in.                                          *)
(***************************************************************************)
THEOREM PathStaysAhead == Spec => []PathAhead
<1>1. ASSUME NavInv PROVE PathAhead
  <2> DEFINE path == astar.goal_path
             route == astar.route
  <2>1. /\ path \in Seq(Area) /\ route \in Seq(Area) /\ Ends(path, route)
        /\ astar.status = "solved" => IsRoute(astar.obstacles, free, route[1], route)
        /\ astar.obstacles \subseteq Cells
    BY <1>1 DEF NavInv, Planned, OnRoute, AStarState
  <2>2. Len(path) \in Nat /\ Len(route) \in Nat /\ DOMAIN path = 1 .. Len(path)
    BY <2>1, LenProperties
  <2>3. ASSUME astar.status = "solved", NEW i \in 1 .. Len(path), path[i] \in astar.obstacles
        PROVE  path[i] = route[1]
    <3> DEFINE j == Len(route) - Len(path) + i
    <3>0. Len(path) <= Len(route) /\ path[i] = route[j]
      BY <2>1 DEF Ends
    <3> HIDE DEF path, route
    <3>1. j \in 1 .. Len(route) /\ path[i] = route[j]
      BY ONLY <2>2, <3>0, i \in 1 .. Len(path)
    <3>2. ASSUME j # 1 PROVE FALSE
      <4>1. j - 1 \in 1 .. Len(route) - 1 /\ (j - 1) + 1 = j
        BY ONLY <2>2, <3>1, <3>2
      <4> HIDE DEF j
      <4>2. route[(j - 1) + 1] \in genNeighbors(astar.obstacles, free, route[j - 1])
        BY <2>1, <2>3, <4>1 DEF IsRoute
      <4>3. route[j] \in genNeighbors(astar.obstacles, free, route[j - 1])
        BY <4>1, <4>2
      <4>4. route[j] \in Cells => route[j] \notin astar.obstacles
        BY <4>3, AreaTyped
      <4> QED BY <2>1, <2>3, <3>1, <4>4
    <3> QED BY <3>1, <3>2
  <2>4. IsSuffix(path, route)
    BY <2>1, SuffixIs
  <2>5. astar.status = "solved" => ToSet(path) \cap astar.obstacles \subseteq {route[1]}
    BY <2>2, <2>3 DEF ToSet
  <2> QED BY <2>4, <2>5 DEF PathAhead
<1> QED BY <1>1, NavAlways, PTL

(* Only a turn of A* changes what A* knows. *)
LEMMA StepFinds == NavInv /\ [Next]_vars => TurnFinds
<1> SUFFICES ASSUME NavInv, [Next]_vars PROVE TurnFinds
  OBVIOUS
<1>1. CASE AStarTurn
  BY <1>1, AStarKeeps
<1>2. CASE UNCHANGED astar
  BY <1>2 DEF TurnFinds
<1> QED BY <1>1, <1>2 DEF Next, Feed, MapperTurn, ArtPotTurn, vars

(***************************************************************************)
(* A route that A* plans leads from the robot to the goal, each step to a  *)
(* neighbouring cell that is not a known obstacle and not past two corners *)
(* that touch (command, genNeighbors).                                     *)
(***************************************************************************)
THEOREM RouteLeads ==
  Spec => [][(Plans /\ astar'.status = "solved") =>
                IsRoute(astar'.obstacles, free, astar'.pose, astar'.route)]_vars
<1>1. NavInv /\ [Next]_vars =>
        [(Plans /\ astar'.status = "solved") =>
            IsRoute(astar'.obstacles, free, astar'.pose, astar'.route)]_vars
  BY StepFinds DEF Plans, TurnFinds
<1> QED BY <1>1, NavAlways, PTL DEF Spec

(***************************************************************************)
(* A* reports that there is no way only if there is none: the cells it     *)
(* closed are then all that can be reached (command, findNode).            *)
(***************************************************************************)
THEOREM FailsOnlyWithoutRoute ==
  Spec => [][(Plans /\ astar'.status = "failed") =>
                \A p \in Seq(Area) : ~IsRoute(astar'.obstacles, free, astar'.pose, p)]_vars
<1>1. NavInv /\ [Next]_vars =>
        [(Plans /\ astar'.status = "failed") =>
            \A p \in Seq(Area) : ~IsRoute(astar'.obstacles, free, astar'.pose, p)]_vars
  BY StepFinds DEF Plans, TurnFinds
<1> QED BY <1>1, NavAlways, PTL DEF Spec

(***************************************************************************)
(* The comparison by which A* saves a message never keeps a new route from *)
(* ArtPot: what A* remembers of its last message is what ArtPot heads for, *)
(* or what is left of it.                                                  *)
(***************************************************************************)
THEOREM ArtPotToldTheRoute == Spec => ToldTheRoute
<1>1. NavInv /\ [Next]_vars =>
        [(Plans /\ astar'.status = "solved" /\ Len(astar'.route) >= 2 /\ requests = 0) =>
            /\ Told'[1] \in {astar'.route[1], astar'.route[2]}
            /\ Told'[2] = astar'.route[2]]_vars
  BY StepFinds DEF Plans, TurnFinds
<1> QED BY <1>1, NavAlways, PTL DEF Spec, ToldTheRoute
=============================================================================
