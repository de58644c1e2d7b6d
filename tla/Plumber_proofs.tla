-------------------------- MODULE Plumber_proofs --------------------------
(***************************************************************************)
(* Proofs about the plumber, for every set of lines, every script made of  *)
(* them and every limit: what is launched is what the script says.         *)
(***************************************************************************)
EXTENDS Plumber, FiniteSetTheorems, SequenceTheorems, WellFoundedInduction, TLAPS

(***************************************************************************)
(* What the script says, for any script s and list of nodes ns, since a    *)
(* step compares the script before a line with the one after it.           *)
(***************************************************************************)
Sides == {"from", "to"}
Entries == [line : Lines, done : BOOLEAN]
CommNames == CommTypes \cup {"COMM_ERROR"}
Ends == [type : CommNames, fd_in : Nat, fd_out : Nat, timed : BOOLEAN]
Decls == {l \in Lines : l.kind = "decl"}
Nodes ==
    [name : {l.name : l \in Decls}, value : {l.value : l \in Decls},
     rep_strat : RepTypes, voter_timer : Int, priority : {l.priority : l \in Decls},
     pipes : Seq(Ends)]

Links(e, side, name) == e.line.kind = "link" /\ e.done /\ Side(e.line, side) = name

MentionsIn(s, name) == {m \in (1 .. Len(s)) \X Sides : Links(s[m[1]], m[2], name)}

UpTo(s, name, m) ==
    {k \in MentionsIn(s, name) :
        k[1] < m[1] \/ (k[1] = m[1] /\ (k[2] = "from" \/ m[2] = "to"))}

PlaceIn(s, name, m) == Cardinality(UpTo(s, name, m))

DeclaresIn(s, i, name) ==
    /\ s[i].line.kind = "decl" /\ s[i].line.name = name
    /\ \A j \in 1 .. i - 1 : s[j].line.kind = "decl" => s[j].line.name # name

(* end is what link_bench or link_node makes of that side of a link. *)
Matches(line, side, end) ==
    /\ end \in Ends
    /\ end.type = commToEnum(line.type)
    /\ end.timed = Timed(line, side)
    /\ side = "from" => end.fd_in = 0 /\ end.fd_out # 0
    /\ side = "to" => end.fd_in # 0 /\ end.fd_out = 0

(* ps are the ends of the links of s that name a component, in their order. *)
EndsAs(s, name, ps) ==
    /\ Len(ps) = Cardinality(MentionsIn(s, name))
    /\ \A m \in MentionsIn(s, name) : Matches(s[m[1]].line, m[2], ps[PlaceIn(s, name, m)])
    /\ \A k \in 1 .. Len(ps) : \E m \in MentionsIn(s, name) : PlaceIn(s, name, m) = k

Distinct(ns) == \A i, j \in 1 .. Len(ns) : ns[i].name = ns[j].name => i = j

(* The nodes are the components in the order of the lines that declare them. *)
Listed(s, ns) ==
    /\ Distinct(ns)
    /\ \A i \in 1 .. Len(ns) : \E d \in 1 .. Len(s) :
          /\ DeclaresIn(s, d, ns[i].name)
          /\ ns[i].value = s[d].line.value
          /\ ns[i].rep_strat = s[d].line.rep
          /\ ns[i].priority = s[d].line.priority
    /\ \A i, j \in 1 .. Len(ns) : \A d, e \in 1 .. Len(s) :
          i < j /\ DeclaresIn(s, d, ns[i].name) /\ DeclaresIn(s, e, ns[j].name) => d < e
    /\ \A d \in 1 .. Len(s) : s[d].line.kind = "decl" =>
          \E i \in 1 .. Len(ns) : ns[i].name = s[d].line.name

(* Each has the ends of its links, and a link is made between components that are there. *)
Wired(s, ns) ==
    /\ \A i \in 1 .. Len(ns) : EndsAs(s, ns[i].name, ns[i].pipes)
    /\ \A k \in 1 .. Len(s) : \A side \in Sides :
          s[k].line.kind = "link" /\ s[k].done /\ Side(s[k].line, side) # "Bench" =>
             \E i \in 1 .. Len(ns) : ns[i].name = Side(s[k].line, side)

Made(s) ==
    {k \in 1 .. Len(s) : /\ s[k].line.kind = "link" /\ s[k].done
                         /\ "Bench" \notin {s[k].line.from, s[k].line.to}}
Writes(s, ns, i, k) == ns[i].pipes[PlaceIn(s, ns[i].name, <<k, "from">>)].fd_out
Reads(s, ns, i, k) == ns[i].pipes[PlaceIn(s, ns[i].name, <<k, "to">>)].fd_in

(* The ends of a link are the two of one pipe; fd and later ones are not used yet. *)
Paired(s, ns, fd) ==
    \A k \in Made(s) : \A i, j \in 1 .. Len(ns) :
        ns[i].name = s[k].line.from /\ ns[j].name = s[k].line.to =>
            /\ Writes(s, ns, i, k) = Reads(s, ns, j, k) + 1
            /\ Reads(s, ns, j, k) < fd
            /\ \A l \in Made(s) : \A h \in 1 .. Len(ns) :
                  ns[h].name = s[l].line.to /\ k # l => Reads(s, ns, j, k) # Reads(s, ns, h, l)

(***************************************************************************)
(* The invariant.  A write outside of a node ends the parse with a link    *)
(* that is read and not made, and with nothing launched.                   *)
(***************************************************************************)
Processes ==
    {Process(n) : n \in Nodes} \cup {[Process(n) EXCEPT !.status = "lost"] : n \in Nodes}

Shape ==
    /\ phase \in {"parse", "launch", "done", "cut", "crashed"}
    /\ script \in Seq(Entries) /\ Len(script) <= MaxLines
    /\ nodes \in Seq(Nodes) /\ nfd \in Nat \ {0} /\ faults \in 0 .. MaxFaults
    /\ procs \in Seq(Processes)
    /\ \A i \in 1 .. Len(nodes) : Len(nodes[i].pipes) <= PIPE_LIMIT

Launched ==
    /\ Len(procs) <= Len(nodes)
    /\ phase = "parse" => procs = <<>>
    /\ phase = "done" => Len(procs) = Len(nodes)
    /\ \A i \in 1 .. Len(procs) :
          procs[i] \in {Process(nodes[i]), [Process(nodes[i]) EXCEPT !.status = "lost"]}

Linked ==
    \/ Wired(script, nodes) /\ Paired(script, nodes, nfd)
    \/ phase = "crashed" /\ procs = <<>>

Inv == Shape /\ Listed(script, nodes) /\ Launched /\ Linked

-----------------------------------------------------------------------------
(***************************************************************************)
(* Mentions and their places.                                              *)
(***************************************************************************)

(* A script has finitely many mentions, and they are counted from 1. *)
LEMMA MentionsFinite ==
  ASSUME NEW s \in Seq(Entries), NEW name
  PROVE  /\ IsFiniteSet(MentionsIn(s, name))
         /\ Cardinality(MentionsIn(s, name)) \in Nat
         /\ \A m : /\ IsFiniteSet(UpTo(s, name, m))
                   /\ PlaceIn(s, name, m) \in Nat
                   /\ PlaceIn(s, name, m) <= Cardinality(MentionsIn(s, name))
<1>1. Len(s) \in Nat /\ 1 \in Int /\ Len(s) \in Int
  BY LenProperties
<1>2. IsFiniteSet(1 .. Len(s))
  BY <1>1, FS_Interval
<1>3. IsFiniteSet(Sides)
  <2>1. Sides = ({} \cup {"from"}) \cup {"to"}
    BY DEF Sides
  <2>. QED  BY <2>1, FS_EmptySet, FS_AddElement
<1>4. IsFiniteSet((1 .. Len(s)) \X Sides)
  BY <1>2, <1>3, FS_Product
<1>5. MentionsIn(s, name) \in SUBSET ((1 .. Len(s)) \X Sides)
  BY DEF MentionsIn
<1>6. IsFiniteSet(MentionsIn(s, name))
  BY <1>4, <1>5, FS_Subset
<1>7. Cardinality(MentionsIn(s, name)) \in Nat
  BY <1>6, FS_CardinalityType
<1>8. ASSUME NEW m
      PROVE  /\ IsFiniteSet(UpTo(s, name, m))
             /\ PlaceIn(s, name, m) \in Nat
             /\ PlaceIn(s, name, m) <= Cardinality(MentionsIn(s, name))
  <2>1. UpTo(s, name, m) \in SUBSET MentionsIn(s, name)
    BY DEF UpTo
  <2>2. /\ IsFiniteSet(UpTo(s, name, m))
        /\ Cardinality(UpTo(s, name, m)) <= Cardinality(MentionsIn(s, name))
    BY <1>6, <2>1, FS_Subset
  <2>. QED  BY <2>2, FS_CardinalityType DEF PlaceIn
<1>. QED  BY <1>6, <1>7, <1>8

(* A mention has a place of its own, and later ones have later places. *)
LEMMA PlacesRise ==
  ASSUME NEW s \in Seq(Entries), NEW name, NEW k \in MentionsIn(s, name),
         NEW m \in MentionsIn(s, name)
  PROVE  /\ PlaceIn(s, name, m) \in 1 .. Cardinality(MentionsIn(s, name))
         /\ k[1] < m[1] => PlaceIn(s, name, k) < PlaceIn(s, name, m)
<1>1. m[1] \in Nat /\ k[1] \in Nat /\ m[2] \in Sides /\ k[2] \in Sides
  BY DEF MentionsIn
<1>2. m \in UpTo(s, name, m)
  BY <1>1 DEF UpTo, Sides
<1>3. PlaceIn(s, name, m) # 0
  BY <1>2, MentionsFinite, FS_EmptySet DEF PlaceIn
<1>4. ASSUME k[1] < m[1]
      PROVE  PlaceIn(s, name, k) < PlaceIn(s, name, m)
  <2>1. UpTo(s, name, k) \in SUBSET UpTo(s, name, m)
    <3>1. ASSUME NEW j \in UpTo(s, name, k)
          PROVE  j \in UpTo(s, name, m)
      <4>1. j \in MentionsIn(s, name) /\ j[1] <= k[1] /\ j[1] \in Nat
        BY <1>1 DEF UpTo, MentionsIn
      <4>. QED  BY <1>1, <1>4, <4>1 DEF UpTo
    <3>. QED  BY <3>1
  <2>2. m \notin UpTo(s, name, k)
    BY <1>1, <1>4 DEF UpTo
  <2>3. IsFiniteSet(UpTo(s, name, m))
    BY MentionsFinite
  <2>4. /\ Cardinality(UpTo(s, name, k)) <= Cardinality(UpTo(s, name, m))
        /\ Cardinality(UpTo(s, name, k)) # Cardinality(UpTo(s, name, m))
    <3>. HIDE DEF UpTo
    <3>. QED  BY <1>2, <2>1, <2>2, <2>3, FS_Subset
  <2>. QED  BY <2>4, MentionsFinite DEF PlaceIn
<1>. QED  BY <1>3, <1>4, MentionsFinite

(* A line adds the mentions it makes, after those there were. *)
LEMMA MentionsGrow ==
  ASSUME NEW s \in Seq(Entries), NEW e \in Entries, NEW name
  PROVE  /\ MentionsIn(Append(s, e), name) =
               MentionsIn(s, name) \cup {m \in {Len(s) + 1} \X Sides : Links(e, m[2], name)}
         /\ \A m \in MentionsIn(s, name) :
               /\ UpTo(Append(s, e), name, m) = UpTo(s, name, m)
               /\ Append(s, e)[m[1]] = s[m[1]]
               /\ m[1] \in 1 .. Len(s) /\ m[2] \in Sides
<1>. DEFINE t == Append(s, e)
            new == {m \in {Len(s) + 1} \X Sides : Links(e, m[2], name)}
<1>1. /\ Len(s) \in Nat /\ Len(t) = Len(s) + 1
      /\ t[Len(s) + 1] = e /\ \A i \in 1 .. Len(s) : t[i] = s[i]
  BY AppendProperties, LenProperties
<1>. HIDE DEF t
<1>2. MentionsIn(t, name) = MentionsIn(s, name) \cup new
  <2>1. ASSUME NEW m \in MentionsIn(t, name)
        PROVE  m \in MentionsIn(s, name) \cup new
    BY <1>1 DEF MentionsIn
  <2>2. ASSUME NEW m \in MentionsIn(s, name)
        PROVE  m \in MentionsIn(t, name)
    BY <1>1 DEF MentionsIn
  <2>3. ASSUME NEW m \in new
        PROVE  m \in MentionsIn(t, name)
    BY <1>1 DEF MentionsIn
  <2>. QED  BY <2>1, <2>2, <2>3
<1>3. ASSUME NEW m \in MentionsIn(s, name)
      PROVE  /\ m[1] \in 1 .. Len(s) /\ m[2] \in Sides
             /\ t[m[1]] = s[m[1]]
             /\ UpTo(t, name, m) = UpTo(s, name, m)
  <2>1. m[1] \in 1 .. Len(s) /\ m[2] \in Sides
    BY DEF MentionsIn
  <2>2. \A k \in new : k[1] = Len(s) + 1
    OBVIOUS
  <2>3. \A k \in new : ~(k[1] < m[1]) /\ k[1] # m[1]
    BY <1>1, <2>1, <2>2
  <2>4. UpTo(t, name, m) = UpTo(s, name, m)
    <3>. HIDE DEF new
    <3>. QED  BY <1>2, <2>3 DEF UpTo
  <2>. QED  BY <1>1, <2>1, <2>4
<1>. QED  BY <1>2, <1>3 DEF t

(***************************************************************************)
(* The ends of a component, when a line is read.                           *)
(***************************************************************************)

(* Ends added at the back leave those of earlier links where they were. *)
LEMMA EndsStay ==
  ASSUME NEW s \in Seq(Entries), NEW e \in Entries, NEW name,
         NEW ps \in Seq(Ends), EndsAs(s, name, ps),
         NEW qs \in Seq(Ends), Len(qs) >= Len(ps),
         \A k \in 1 .. Len(ps) : qs[k] = ps[k]
  PROVE  \A m \in MentionsIn(s, name) :
            /\ PlaceIn(Append(s, e), name, m) = PlaceIn(s, name, m)
            /\ PlaceIn(s, name, m) \in 1 .. Len(ps)
            /\ Matches(Append(s, e)[m[1]].line, m[2], qs[PlaceIn(Append(s, e), name, m)])
<1>. TAKE m \in MentionsIn(s, name)
<1>1. PlaceIn(Append(s, e), name, m) = PlaceIn(s, name, m)
  BY MentionsGrow DEF PlaceIn
<1>2. PlaceIn(s, name, m) \in 1 .. Len(ps)
  BY PlacesRise DEF EndsAs
<1>3. Matches(s[m[1]].line, m[2], ps[PlaceIn(s, name, m)])
  BY DEF EndsAs
<1>4. Append(s, e)[m[1]] = s[m[1]]
  BY MentionsGrow
<1>. QED  BY <1>1, <1>2, <1>3, <1>4

(* A line that makes no link to a component leaves its ends as they are. *)
LEMMA EndsKept ==
  ASSUME NEW s \in Seq(Entries), NEW e \in Entries, NEW name,
         NEW ps \in Seq(Ends), EndsAs(s, name, ps),
         \A side \in Sides : ~Links(e, side, name)
  PROVE  EndsAs(Append(s, e), name, ps)
<1>1. MentionsIn(Append(s, e), name) = MentionsIn(s, name)
  <2>. DEFINE more == {m \in {Len(s) + 1} \X Sides : Links(e, m[2], name)}
  <2>1. more = {}
    OBVIOUS
  <2>2. MentionsIn(Append(s, e), name) = MentionsIn(s, name) \cup more
    BY MentionsGrow
  <2>. HIDE DEF more
  <2>. QED  BY <2>1, <2>2
<1>2. Len(ps) >= Len(ps) /\ \A k \in 1 .. Len(ps) : ps[k] = ps[k]
  BY LenProperties
<1>3. \A m \in MentionsIn(s, name) :
         /\ PlaceIn(Append(s, e), name, m) = PlaceIn(s, name, m)
         /\ Matches(Append(s, e)[m[1]].line, m[2], ps[PlaceIn(Append(s, e), name, m)])
  BY <1>2, EndsStay, Zenon
<1>. QED  BY <1>1, <1>3 DEF EndsAs

(* A line with one link to a component gives it the next end. *)
LEMMA EndsOne ==
  ASSUME NEW s \in Seq(Entries), NEW e \in Entries, NEW name,
         NEW ps \in Seq(Ends), EndsAs(s, name, ps),
         NEW side \in Sides, Links(e, side, name),
         \A other \in Sides : other # side => ~Links(e, other, name),
         NEW end, Matches(e.line, side, end)
  PROVE  /\ EndsAs(Append(s, e), name, Append(ps, end))
         /\ PlaceIn(Append(s, e), name, <<Len(s) + 1, side>>) = Len(ps) + 1
<1>. DEFINE t == Append(s, e)
            qs == Append(ps, end)
            new == <<Len(s) + 1, side>>
<1>1. Len(s) \in Nat /\ Len(ps) \in Nat /\ end \in Ends
  BY LenProperties DEF Matches
<1>2. qs \in Seq(Ends) /\ Len(qs) = Len(ps) + 1 /\ qs[Len(ps) + 1] = end
      /\ \A k \in 1 .. Len(ps) : qs[k] = ps[k]
  BY <1>1, AppendProperties
<1>3. t \in Seq(Entries) /\ t[Len(s) + 1] = e
  BY AppendProperties
<1>4. MentionsIn(t, name) = MentionsIn(s, name) \cup {new}
  <2>1. {m \in {Len(s) + 1} \X Sides : Links(e, m[2], name)} = {new}
    OBVIOUS
  <2>. QED  BY <2>1, MentionsGrow
<1>5. new \notin MentionsIn(s, name)
  <2>1. \A m \in MentionsIn(s, name) : m[1] # Len(s) + 1
    BY <1>1, MentionsGrow
  <2>. QED  BY <2>1
<1>6. UpTo(t, name, new) = MentionsIn(t, name)
  <2>1. \A m \in MentionsIn(s, name) : m[1] < new[1]
    BY <1>1, MentionsGrow
  <2>2. new[1] = new[1] /\ (new[2] = "from" \/ new[2] = "to")
    BY DEF Sides
  <2>. HIDE DEF new, t
  <2>. QED  BY <1>4, <2>1, <2>2 DEF UpTo
<1>7. Cardinality(MentionsIn(t, name)) = Len(ps) + 1
  <2>1. Cardinality(MentionsIn(s, name)) = Len(ps)
    BY DEF EndsAs
  <2>. HIDE DEF new, t
  <2>. QED  BY <1>4, <1>5, <2>1, MentionsFinite, FS_AddElement
<1>8. PlaceIn(t, name, new) = Len(ps) + 1
  BY <1>6, <1>7 DEF PlaceIn
<1>9. \A m \in MentionsIn(s, name) :
         /\ PlaceIn(t, name, m) = PlaceIn(s, name, m)
         /\ Matches(t[m[1]].line, m[2], qs[PlaceIn(t, name, m)])
  <2>1. Len(qs) >= Len(ps)
    BY <1>1, <1>2
  <2>2. \A k \in 1 .. Len(ps) : qs[k] = ps[k]
    BY <1>2
  <2>3. qs \in Seq(Ends)
    BY <1>2
  <2>. HIDE DEF qs, new
  <2>4. \A m \in MentionsIn(s, name) :
           /\ PlaceIn(Append(s, e), name, m) = PlaceIn(s, name, m)
           /\ PlaceIn(s, name, m) \in 1 .. Len(ps)
           /\ Matches(Append(s, e)[m[1]].line, m[2], qs[PlaceIn(Append(s, e), name, m)])
    BY <2>1, <2>2, <2>3, EndsStay
  <2>. QED  BY <2>4
<1>10. Matches(t[new[1]].line, new[2], qs[PlaceIn(t, name, new)])
  BY <1>2, <1>3, <1>8
<1>11. \A k \in 1 .. Len(qs) : \E m \in MentionsIn(t, name) : PlaceIn(t, name, m) = k
  <2>1. \A k \in 1 .. Len(ps) : \E m \in MentionsIn(s, name) : PlaceIn(s, name, m) = k
    BY DEF EndsAs
  <2>. HIDE DEF t, qs, new
  <2>. QED  BY <1>1, <1>2, <1>4, <1>8, <1>9, <2>1
<1>12. EndsAs(t, name, qs)
  <2>. HIDE DEF t, qs, new
  <2>. QED  BY <1>2, <1>4, <1>7, <1>9, <1>10, <1>11 DEF EndsAs
<1>. QED  BY <1>8, <1>12

(* A link of a component to itself gives it two. *)
LEMMA EndsBoth ==
  ASSUME NEW s \in Seq(Entries), NEW e \in Entries, NEW name,
         NEW ps \in Seq(Ends), EndsAs(s, name, ps),
         Links(e, "from", name), Links(e, "to", name),
         NEW a, Matches(e.line, "from", a), NEW b, Matches(e.line, "to", b)
  PROVE  /\ EndsAs(Append(s, e), name, Append(Append(ps, a), b))
         /\ PlaceIn(Append(s, e), name, <<Len(s) + 1, "from">>) = Len(ps) + 1
         /\ PlaceIn(Append(s, e), name, <<Len(s) + 1, "to">>) = Len(ps) + 2
<1>. DEFINE t == Append(s, e)
            rs == Append(ps, a)
            qs == Append(rs, b)
            first == <<Len(s) + 1, "from">>
            second == <<Len(s) + 1, "to">>
<1>1. Len(s) \in Nat /\ Len(ps) \in Nat /\ a \in Ends /\ b \in Ends
  BY LenProperties DEF Matches
<1>2. rs \in Seq(Ends) /\ Len(rs) = Len(ps) + 1 /\ rs[Len(ps) + 1] = a
      /\ \A k \in 1 .. Len(ps) : rs[k] = ps[k]
  BY <1>1, AppendProperties
<1>3. qs \in Seq(Ends) /\ Len(qs) = Len(ps) + 2 /\ qs[Len(ps) + 1] = a
      /\ qs[Len(ps) + 2] = b /\ \A k \in 1 .. Len(ps) : qs[k] = ps[k]
  <2>1. Len(qs) = Len(rs) + 1 /\ qs[Len(rs) + 1] = b /\ qs \in Seq(Ends)
        /\ \A k \in 1 .. Len(rs) : qs[k] = rs[k]
    BY <1>1, <1>2, AppendProperties
  <2>. HIDE DEF rs, qs
  <2>. QED  BY <1>1, <1>2, <2>1
<1>4. t \in Seq(Entries) /\ t[Len(s) + 1] = e
  BY AppendProperties
<1>5. MentionsIn(t, name) = (MentionsIn(s, name) \cup {first}) \cup {second}
  <2>1. {m \in {Len(s) + 1} \X Sides : Links(e, m[2], name)} = {first, second}
    BY DEF Sides
  <2>. QED  BY <2>1, MentionsGrow
<1>6. first \notin MentionsIn(s, name) /\ second \notin MentionsIn(s, name) \cup {first}
  <2>1. \A m \in MentionsIn(s, name) : m[1] # Len(s) + 1
    BY <1>1, MentionsGrow
  <2>2. first # second
    OBVIOUS
  <2>. QED  BY <2>1, <2>2
<1>7. /\ UpTo(t, name, first) = MentionsIn(s, name) \cup {first}
      /\ UpTo(t, name, second) = MentionsIn(t, name)
  <2>1. \A m \in MentionsIn(s, name) : m[1] < first[1] /\ m[1] < second[1]
    BY <1>1, MentionsGrow
  <2>2. first[1] = second[1] /\ first[2] = "from" /\ second[2] = "to"
        /\ ~(second[1] < first[1])
    BY <1>1
  <2>. HIDE DEF first, second, t
  <2>. QED  BY <1>5, <2>1, <2>2 DEF UpTo
<1>8. /\ Cardinality(MentionsIn(s, name) \cup {first}) = Len(ps) + 1
      /\ Cardinality(MentionsIn(t, name)) = Len(ps) + 2
  <2>1. Cardinality(MentionsIn(s, name)) = Len(ps) /\ IsFiniteSet(MentionsIn(s, name))
    BY MentionsFinite DEF EndsAs
  <2>. HIDE DEF first, second, t
  <2>2. /\ Cardinality(MentionsIn(s, name) \cup {first}) = Len(ps) + 1
        /\ IsFiniteSet(MentionsIn(s, name) \cup {first})
    BY <1>6, <2>1, FS_AddElement
  <2>3. Cardinality(MentionsIn(t, name)) = (Len(ps) + 1) + 1
    BY <1>5, <1>6, <2>2, FS_AddElement
  <2>. QED  BY <1>1, <2>2, <2>3
<1>9. PlaceIn(t, name, first) = Len(ps) + 1 /\ PlaceIn(t, name, second) = Len(ps) + 2
  BY <1>7, <1>8 DEF PlaceIn
<1>10. \A m \in MentionsIn(s, name) :
         /\ PlaceIn(t, name, m) = PlaceIn(s, name, m)
         /\ Matches(t[m[1]].line, m[2], qs[PlaceIn(t, name, m)])
  <2>1. Len(qs) >= Len(ps)
    BY <1>1, <1>3
  <2>2. \A k \in 1 .. Len(ps) : qs[k] = ps[k]
    BY <1>3
  <2>3. qs \in Seq(Ends)
    BY <1>3
  <2>. HIDE DEF qs
  <2>4. \A m \in MentionsIn(s, name) :
           /\ PlaceIn(Append(s, e), name, m) = PlaceIn(s, name, m)
           /\ PlaceIn(s, name, m) \in 1 .. Len(ps)
           /\ Matches(Append(s, e)[m[1]].line, m[2], qs[PlaceIn(Append(s, e), name, m)])
    BY <2>1, <2>2, <2>3, EndsStay
  <2>. QED  BY <2>4
<1>11. /\ Matches(t[first[1]].line, first[2], qs[PlaceIn(t, name, first)])
       /\ Matches(t[second[1]].line, second[2], qs[PlaceIn(t, name, second)])
  BY <1>3, <1>4, <1>9
<1>12. \A k \in 1 .. Len(qs) : \E m \in MentionsIn(t, name) : PlaceIn(t, name, m) = k
  <2>1. \A k \in 1 .. Len(ps) : \E m \in MentionsIn(s, name) : PlaceIn(s, name, m) = k
    BY DEF EndsAs
  <2>. HIDE DEF t, qs, first, second
  <2>2. \A k \in 1 .. Len(qs) : k \in 1 .. Len(ps) \/ k = Len(ps) + 1 \/ k = Len(ps) + 2
    BY <1>1, <1>3
  <2>. QED  BY <1>5, <1>9, <1>10, <2>1, <2>2
<1>13. EndsAs(t, name, qs)
  <2>. HIDE DEF t, qs, first, second
  <2>. QED  BY <1>3, <1>5, <1>8, <1>10, <1>11, <1>12 DEF EndsAs
<1>. QED  BY <1>9, <1>13

-----------------------------------------------------------------------------
(***************************************************************************)
(* The list of nodes, when a line is read.                                 *)
(***************************************************************************)

(* The lines that are there declare what they did. *)
LEMMA DeclaresKept ==
  ASSUME NEW s \in Seq(Entries), NEW e \in Entries, NEW name, NEW d \in 1 .. Len(s)
  PROVE  DeclaresIn(Append(s, e), d, name) <=> DeclaresIn(s, d, name)
<1>1. Len(s) \in Nat /\ \A j \in 1 .. Len(s) : Append(s, e)[j] = s[j]
  BY AppendProperties, LenProperties
<1>2. \A j \in 1 .. d - 1 : j \in 1 .. Len(s)
  BY <1>1
<1>3. Append(s, e)[d] = s[d] /\ \A j \in 1 .. d - 1 : Append(s, e)[j] = s[j]
  BY <1>1, <1>2
<1>. QED  BY <1>3 DEF DeclaresIn

(* A line declares what no line before it does. *)
LEMMA DeclaresGrow ==
  ASSUME NEW s \in Seq(Entries), NEW e \in Entries, NEW name
  PROVE  DeclaresIn(Append(s, e), Len(s) + 1, name) <=>
            /\ e.line.kind = "decl" /\ e.line.name = name
            /\ \A d \in 1 .. Len(s) : s[d].line.kind = "decl" => s[d].line.name # name
<1>1. /\ Len(s) \in Nat /\ Append(s, e)[Len(s) + 1] = e
      /\ \A d \in 1 .. Len(s) : Append(s, e)[d] = s[d]
  BY AppendProperties, LenProperties
<1>2. 1 .. (Len(s) + 1) - 1 = 1 .. Len(s)
  BY <1>1
<1>. QED  BY <1>1, <1>2 DEF DeclaresIn

(* A link, or a component declared again, adds no node. *)
LEMMA ListedKept ==
  ASSUME NEW s \in Seq(Entries), NEW e \in Entries, NEW ns, NEW ms,
         Listed(s, ns), Len(ms) = Len(ns),
         \A i \in 1 .. Len(ns) : /\ ms[i].name = ns[i].name /\ ms[i].value = ns[i].value
                                 /\ ms[i].rep_strat = ns[i].rep_strat
                                 /\ ms[i].priority = ns[i].priority,
         e.line.kind = "decl" => \E i \in 1 .. Len(ns) : ns[i].name = e.line.name
  PROVE  Listed(Append(s, e), ms)
<1>. DEFINE t == Append(s, e)
<1>1. Len(s) \in Nat /\ Len(t) = Len(s) + 1 /\ t[Len(s) + 1] = e
  BY AppendProperties, LenProperties
<1>2. \A d \in 1 .. Len(s) : t[d] = s[d]
  BY AppendProperties
<1>3. \A i \in 1 .. Len(ns) : \A d \in 1 .. Len(t) :
        DeclaresIn(t, d, ns[i].name) <=> d \in 1 .. Len(s) /\ DeclaresIn(s, d, ns[i].name)
  <2>. SUFFICES ASSUME NEW i \in 1 .. Len(ns), NEW d \in 1 .. Len(t)
                PROVE  DeclaresIn(t, d, ns[i].name) <=>
                          d \in 1 .. Len(s) /\ DeclaresIn(s, d, ns[i].name)
    OBVIOUS
  <2>1. CASE d \in 1 .. Len(s)
    <3>1. DeclaresIn(t, d, ns[i].name) <=> DeclaresIn(s, d, ns[i].name)
      BY <2>1, DeclaresKept
    <3>. QED  BY <2>1, <3>1, Zenon
  <2>2. CASE d = Len(s) + 1
    <3>1. \E c \in 1 .. Len(s) : s[c].line.kind = "decl" /\ s[c].line.name = ns[i].name
      BY DEF Listed, DeclaresIn
    <3>2. ~DeclaresIn(t, Len(s) + 1, ns[i].name)
      BY <3>1, DeclaresGrow
    <3>. QED  BY <1>1, <2>2, <3>2
  <2>. QED  BY <1>1, <2>1, <2>2
<1>. HIDE DEF t
<1>4. Distinct(ms)
  BY DEF Listed, Distinct
<1>5. \A i \in 1 .. Len(ms) : \E d \in 1 .. Len(t) :
         /\ DeclaresIn(t, d, ms[i].name)
         /\ ms[i].value = t[d].line.value
         /\ ms[i].rep_strat = t[d].line.rep
         /\ ms[i].priority = t[d].line.priority
  <2>. TAKE i \in 1 .. Len(ms)
  <2>1. PICK d \in 1 .. Len(s) : /\ DeclaresIn(s, d, ns[i].name)
                                 /\ ns[i].value = s[d].line.value
                                 /\ ns[i].rep_strat = s[d].line.rep
                                 /\ ns[i].priority = s[d].line.priority
    BY DEF Listed
  <2>2. d \in 1 .. Len(t)
    BY <1>1
  <2>. QED  BY <1>2, <1>3, <2>1, <2>2
<1>6. \A i, j \in 1 .. Len(ms) : \A c, d \in 1 .. Len(t) :
         i < j /\ DeclaresIn(t, c, ms[i].name) /\ DeclaresIn(t, d, ms[j].name) => c < d
  BY <1>3 DEF Listed
<1>7. \A d \in 1 .. Len(t) : t[d].line.kind = "decl" =>
         \E i \in 1 .. Len(ms) : ms[i].name = t[d].line.name
  <2>. TAKE d \in 1 .. Len(t)
  <2>1. CASE d \in 1 .. Len(s)
    <3>1. s[d].line.kind = "decl" => \E i \in 1 .. Len(ns) : ns[i].name = s[d].line.name
      BY <2>1, Zenon DEF Listed
    <3>2. t[d] = s[d]
      BY <1>2, <2>1
    <3>. QED  BY <3>1, <3>2
  <2>2. CASE d = Len(s) + 1
    BY <1>1, <2>2
  <2>. QED  BY <1>1, <2>1, <2>2
<1>. QED  BY <1>4, <1>5, <1>6, <1>7 DEF Listed, t

(* A new component is the last of the list. *)
LEMMA ListedGrows ==
  ASSUME NEW s \in Seq(Entries), NEW e \in Entries, NEW ns \in Seq(Nodes), NEW n \in Nodes,
         Listed(s, ns), e.line.kind = "decl",
         n.name = e.line.name, n.value = e.line.value, n.rep_strat = e.line.rep,
         n.priority = e.line.priority,
         \A i \in 1 .. Len(ns) : ns[i].name # e.line.name
  PROVE  Listed(Append(s, e), Append(ns, n))
<1>. DEFINE t == Append(s, e)
            ms == Append(ns, n)
<1>1. Len(s) \in Nat /\ Len(t) = Len(s) + 1 /\ t[Len(s) + 1] = e
  BY AppendProperties, LenProperties
<1>2. \A d \in 1 .. Len(s) : t[d] = s[d]
  BY AppendProperties
<1>3. /\ Len(ns) \in Nat /\ Len(ms) = Len(ns) + 1 /\ ms[Len(ns) + 1] = n
      /\ \A i \in 1 .. Len(ns) : ms[i] = ns[i]
  BY AppendProperties, LenProperties
<1>4. \A i \in 1 .. Len(ns) : \A d \in 1 .. Len(t) :
        DeclaresIn(t, d, ns[i].name) <=> d \in 1 .. Len(s) /\ DeclaresIn(s, d, ns[i].name)
  <2>. SUFFICES ASSUME NEW i \in 1 .. Len(ns), NEW d \in 1 .. Len(t)
                PROVE  DeclaresIn(t, d, ns[i].name) <=>
                          d \in 1 .. Len(s) /\ DeclaresIn(s, d, ns[i].name)
    OBVIOUS
  <2>1. CASE d \in 1 .. Len(s)
    <3>1. DeclaresIn(t, d, ns[i].name) <=> DeclaresIn(s, d, ns[i].name)
      BY <2>1, DeclaresKept
    <3>. QED  BY <2>1, <3>1, Zenon
  <2>2. CASE d = Len(s) + 1
    <3>1. ~DeclaresIn(t, Len(s) + 1, ns[i].name)
      BY DeclaresGrow
    <3>. QED  BY <1>1, <2>2, <3>1
  <2>. QED  BY <1>1, <2>1, <2>2
<1>5. \A d \in 1 .. Len(t) : DeclaresIn(t, d, n.name) <=> d = Len(s) + 1
  <2>1. \A d \in 1 .. Len(s) : s[d].line.kind = "decl" => s[d].line.name # n.name
    BY DEF Listed
  <2>2. DeclaresIn(t, Len(s) + 1, n.name)
    BY <2>1, DeclaresGrow
  <2>3. \A d \in 1 .. Len(s) : ~DeclaresIn(t, d, n.name)
    BY <2>1, DeclaresKept DEF DeclaresIn
  <2>. HIDE DEF t
  <2>. QED  BY <1>1, <2>2, <2>3
<1>. HIDE DEF t, ms
<1>6. \A i \in 1 .. Len(ms) : i \in 1 .. Len(ns) \/ i = Len(ns) + 1
  BY <1>3
<1>7. Distinct(ms)
  <2>1. Distinct(ns)
    BY DEF Listed
  <2>. QED  BY <1>3, <1>6, <2>1 DEF Distinct
<1>8. \A i \in 1 .. Len(ms) : \E d \in 1 .. Len(t) :
         /\ DeclaresIn(t, d, ms[i].name)
         /\ ms[i].value = t[d].line.value
         /\ ms[i].rep_strat = t[d].line.rep
         /\ ms[i].priority = t[d].line.priority
  <2>. TAKE i \in 1 .. Len(ms)
  <2>1. CASE i \in 1 .. Len(ns)
    <3>1. PICK d \in 1 .. Len(s) : /\ DeclaresIn(s, d, ns[i].name)
                                   /\ ns[i].value = s[d].line.value
                                   /\ ns[i].rep_strat = s[d].line.rep
                                   /\ ns[i].priority = s[d].line.priority
      BY <2>1 DEF Listed
    <3>2. d \in 1 .. Len(t)
      BY <1>1
    <3>. QED  BY <1>2, <1>3, <1>4, <2>1, <3>1, <3>2
  <2>2. CASE i = Len(ns) + 1
    <3>1. Len(s) + 1 \in 1 .. Len(t)
      BY <1>1
    <3>2. DeclaresIn(t, Len(s) + 1, n.name)
      BY <1>5, <3>1
    <3>. QED  BY <1>1, <1>3, <2>2, <3>1, <3>2
  <2>. QED  BY <1>6, <2>1, <2>2
<1>9. \A i, j \in 1 .. Len(ms) : \A c, d \in 1 .. Len(t) :
         i < j /\ DeclaresIn(t, c, ms[i].name) /\ DeclaresIn(t, d, ms[j].name) => c < d
  <2>. SUFFICES ASSUME NEW i \in 1 .. Len(ms), NEW j \in 1 .. Len(ms), NEW c \in 1 .. Len(t),
                       NEW d \in 1 .. Len(t), i < j,
                       DeclaresIn(t, c, ms[i].name), DeclaresIn(t, d, ms[j].name)
                PROVE  c < d
    OBVIOUS
  <2>1. i \in 1 .. Len(ns) /\ ms[i] = ns[i]
    BY <1>3
  <2>2. c \in 1 .. Len(s) /\ DeclaresIn(s, c, ns[i].name)
    BY <1>4, <2>1
  <2>3. CASE j \in 1 .. Len(ns)
    <3>1. d \in 1 .. Len(s) /\ DeclaresIn(s, d, ns[j].name)
      BY <1>3, <1>4, <2>3
    <3>. QED  BY <2>1, <2>2, <2>3, <3>1 DEF Listed
  <2>4. CASE j = Len(ns) + 1
    <3>1. d = Len(s) + 1
      BY <1>3, <1>5, <2>4
    <3>. QED  BY <1>1, <2>2, <3>1
  <2>. QED  BY <1>6, <2>3, <2>4
<1>10. \A d \in 1 .. Len(t) : t[d].line.kind = "decl" =>
         \E i \in 1 .. Len(ms) : ms[i].name = t[d].line.name
  <2>. TAKE d \in 1 .. Len(t)
  <2>1. CASE d \in 1 .. Len(s)
    <3>1. s[d].line.kind = "decl" => \E i \in 1 .. Len(ns) : ns[i].name = s[d].line.name
      BY <2>1, Zenon DEF Listed
    <3>2. t[d] = s[d]
      BY <1>2, <2>1
    <3>. QED  BY <1>3, <3>1, <3>2
  <2>2. CASE d = Len(s) + 1
    BY <1>1, <1>3, <2>2
  <2>. QED  BY <1>1, <2>1, <2>2
<1>. QED  BY <1>7, <1>8, <1>9, <1>10 DEF Listed, t, ms

(* Where a name is in the list; 0 if it is not. *)
LEMMA NodeFound ==
  ASSUME nodes \in Seq(Nodes), Listed(script, nodes), NEW name
  PROVE  /\ get_node(name) \in 1 .. Len(nodes) => nodes[get_node(name)].name = name
         /\ get_node(name) \notin 1 .. Len(nodes) =>
               /\ get_node(name) = 0
               /\ \A i \in 1 .. Len(nodes) : nodes[i].name # name
         /\ \A i \in 1 .. Len(nodes) : nodes[i].name = name => get_node(name) = i
<1>. DEFINE Named == {i \in 1 .. Len(nodes) : nodes[i].name = name}
<1>1. DOMAIN nodes = 1 .. Len(nodes) /\ Len(nodes) \in Nat
  BY LenProperties
<1>2. get_node(name) = IF Named = {} THEN 0 ELSE CHOOSE i \in Named : \A j \in Named : i <= j
  BY <1>1 DEF get_node
<1>3. ASSUME NEW i \in Named PROVE get_node(name) = i
  <2>1. \A j \in Named : j = i
    BY DEF Listed, Distinct
  <2>2. i <= i
    BY <1>1
  <2>3. Named = {i} /\ Named # {}
    BY <2>1
  <2>. HIDE DEF Named
  <2>. QED  BY <1>2, <2>2, <2>3
<1>4. Named = {} => get_node(name) = 0
  BY <1>2
<1>. QED  BY <1>1, <1>3, <1>4

(* Attach changes the ends of one node. *)
LEMMA AttachIs ==
  ASSUME NEW ns \in Seq(Nodes), NEW i \in 1 .. Len(ns), NEW end \in Ends
  PROVE  /\ Attach(ns, i, end) \in Seq(Nodes)
         /\ Len(Attach(ns, i, end)) = Len(ns)
         /\ \A j \in 1 .. Len(ns) : j # i => Attach(ns, i, end)[j] = ns[j]
         /\ Attach(ns, i, end)[i].pipes = Append(ns[i].pipes, end)
         /\ Attach(ns, i, end)[i].name = ns[i].name
         /\ Attach(ns, i, end)[i].value = ns[i].value
         /\ Attach(ns, i, end)[i].rep_strat = ns[i].rep_strat
         /\ Attach(ns, i, end)[i].priority = ns[i].priority
<1>. DEFINE n == [ns[i] EXCEPT !.pipes = Append(@, end)]
<1>1. ns[i] \in Nodes /\ ns[i].pipes \in Seq(Ends)
  <2>1. ns[i] \in Nodes
    BY ElementOfSeq
  <2>. QED  BY <2>1 DEF Nodes
<1>2. Append(ns[i].pipes, end) \in Seq(Ends)
  BY <1>1, AppendProperties
<1>3. /\ n \in Nodes
      /\ n.pipes = Append(ns[i].pipes, end) /\ n.name = ns[i].name /\ n.value = ns[i].value
      /\ n.rep_strat = ns[i].rep_strat /\ n.priority = ns[i].priority
  BY <1>1, <1>2 DEF Nodes
<1>4. Attach(ns, i, end) = [ns EXCEPT ![i] = n]
  BY DEF Attach
<1>. HIDE DEF n
<1>5. /\ [ns EXCEPT ![i] = n] \in Seq(Nodes)
      /\ Len([ns EXCEPT ![i] = n]) = Len(ns)
      /\ \A j \in 1 .. Len(ns) : j # i => [ns EXCEPT ![i] = n][j] = ns[j]
      /\ [ns EXCEPT ![i] = n][i] = n
  BY <1>3, ExceptSeq
<1>. QED  BY <1>3, <1>4, <1>5

-----------------------------------------------------------------------------
(***************************************************************************)
(* The wiring, when a line is read.                                        *)
(***************************************************************************)

(* ms is ns with more ends, or with more nodes. *)
Grown(ns, ms) ==
    /\ Len(ns) <= Len(ms)
    /\ \A i \in 1 .. Len(ns) :
          /\ ms[i].name = ns[i].name
          /\ \A k \in 1 .. Len(ns[i].pipes) : ms[i].pipes[k] = ns[i].pipes[k]

(* Both ends of a link that was made stay where they are. *)
LEMMA OldLink ==
  ASSUME NEW s \in Seq(Entries), NEW e \in Entries, NEW ns \in Seq(Nodes), NEW ms \in Seq(Nodes),
         Wired(s, ns), Grown(ns, ms),
         Distinct(ms),
         NEW k \in Made(s), NEW side \in Sides, NEW i \in 1 .. Len(ms),
         ms[i].name = Side(s[k].line, side)
  PROVE  /\ i \in 1 .. Len(ns) /\ ns[i].name = ms[i].name
         /\ ms[i].pipes[PlaceIn(Append(s, e), ms[i].name, <<k, side>>)] =
               ns[i].pipes[PlaceIn(s, ns[i].name, <<k, side>>)]
         /\ ns[i].pipes[PlaceIn(s, ns[i].name, <<k, side>>)] \in Ends
<1>. DEFINE name == Side(s[k].line, side)
            m == <<k, side>>
<1>1. k \in 1 .. Len(s) /\ s[k].line.kind = "link" /\ s[k].done /\ name # "Bench"
  BY DEF Made, Side, Sides
<1>2. m \in MentionsIn(s, name)
  BY <1>1 DEF MentionsIn, Links
<1>3. i \in 1 .. Len(ns) /\ ns[i].name = name
  <2>1. PICK j \in 1 .. Len(ns) : ns[j].name = name
    BY <1>1 DEF Wired
  <2>2. j \in 1 .. Len(ms) /\ ms[j].name = name
    BY <2>1, LenProperties DEF Grown
  <2>3. j = i
    BY <2>2 DEF Distinct
  <2>. QED  BY <2>1, <2>3
<1>. HIDE DEF name, m
<1>4. EndsAs(s, name, ns[i].pipes) /\ ns[i].pipes \in Seq(Ends)
  <2>1. ns[i] \in Nodes
    BY <1>3, ElementOfSeq
  <2>2. ns[i].pipes \in Seq(Ends)
    BY <2>1 DEF Nodes
  <2>. QED  BY <1>3, <2>2 DEF Wired
<1>5. PlaceIn(s, name, m) \in 1 .. Len(ns[i].pipes)
  BY <1>2, <1>4, PlacesRise DEF EndsAs
<1>6. PlaceIn(Append(s, e), name, m) = PlaceIn(s, name, m)
  BY <1>2, MentionsGrow DEF PlaceIn
<1>7. ns[i].pipes[PlaceIn(s, name, m)] \in Ends
  BY <1>4, <1>5, ElementOfSeq
<1>8. ms[i].pipes[PlaceIn(s, name, m)] = ns[i].pipes[PlaceIn(s, name, m)]
  BY <1>3, <1>5 DEF Grown
<1>9. ms[i].name = name
  BY DEF name
<1>. QED  BY <1>3, <1>6, <1>7, <1>8, <1>9 DEF m

(* So they stay the ends of a pipe of their own. *)
LEMMA PairedOld ==
  ASSUME NEW s \in Seq(Entries), NEW e \in Entries, NEW ns \in Seq(Nodes), NEW ms \in Seq(Nodes),
         Wired(s, ns), Grown(ns, ms), NEW fd, Paired(s, ns, fd),
         Distinct(ms),
         NEW k \in Made(s), NEW i \in 1 .. Len(ms), NEW j \in 1 .. Len(ms),
         ms[i].name = s[k].line.from, ms[j].name = s[k].line.to
  PROVE  /\ Writes(Append(s, e), ms, i, k) = Reads(Append(s, e), ms, j, k) + 1
         /\ Reads(Append(s, e), ms, j, k) \in Nat
         /\ Reads(Append(s, e), ms, j, k) < fd
         /\ \A l \in Made(s) : \A h \in 1 .. Len(ms) :
               ms[h].name = s[l].line.to /\ k # l =>
                  Reads(Append(s, e), ms, j, k) # Reads(Append(s, e), ms, h, l)
<1>. DEFINE t == Append(s, e)
<1>1. \A l \in Made(s) : \A h \in 1 .. Len(ms) : ms[h].name = s[l].line.to =>
         /\ h \in 1 .. Len(ns) /\ ns[h].name = s[l].line.to
         /\ Reads(t, ms, h, l) = Reads(s, ns, h, l)
         /\ Reads(s, ns, h, l) \in Nat
  <2>. SUFFICES ASSUME NEW l \in Made(s), NEW h \in 1 .. Len(ms), ms[h].name = s[l].line.to
                PROVE  /\ h \in 1 .. Len(ns) /\ ns[h].name = s[l].line.to
                       /\ Reads(t, ms, h, l) = Reads(s, ns, h, l)
                       /\ Reads(s, ns, h, l) \in Nat
    OBVIOUS
  <2>1. ms[h].name = Side(s[l].line, "to") /\ "to" \in Sides
    BY DEF Side, Sides
  <2>2. /\ h \in 1 .. Len(ns) /\ ns[h].name = ms[h].name
        /\ ms[h].pipes[PlaceIn(t, ms[h].name, <<l, "to">>)] =
              ns[h].pipes[PlaceIn(s, ns[h].name, <<l, "to">>)]
        /\ ns[h].pipes[PlaceIn(s, ns[h].name, <<l, "to">>)] \in Ends
    BY <2>1, OldLink
  <2>. QED  BY <2>2 DEF Reads, Ends
<1>2. /\ i \in 1 .. Len(ns) /\ ns[i].name = s[k].line.from
      /\ Writes(t, ms, i, k) = Writes(s, ns, i, k)
  <2>1. ms[i].name = Side(s[k].line, "from") /\ "from" \in Sides
    BY DEF Side, Sides
  <2>2. /\ i \in 1 .. Len(ns) /\ ns[i].name = ms[i].name
        /\ ms[i].pipes[PlaceIn(t, ms[i].name, <<k, "from">>)] =
              ns[i].pipes[PlaceIn(s, ns[i].name, <<k, "from">>)]
    BY <2>1, OldLink
  <2>. QED  BY <2>2 DEF Writes
<1>. HIDE DEF t
<1>3. j \in 1 .. Len(ns) /\ ns[j].name = s[k].line.to
      /\ Reads(t, ms, j, k) = Reads(s, ns, j, k) /\ Reads(s, ns, j, k) \in Nat
  BY <1>1
<1>4. /\ Writes(s, ns, i, k) = Reads(s, ns, j, k) + 1
      /\ Reads(s, ns, j, k) < fd
      /\ \A l \in Made(s) : \A h \in 1 .. Len(ns) :
            ns[h].name = s[l].line.to /\ k # l => Reads(s, ns, j, k) # Reads(s, ns, h, l)
  BY <1>2, <1>3 DEF Paired
<1>. QED  BY <1>1, <1>2, <1>3, <1>4 DEF t

(* A line that links nothing to another component. *)
LEMMA PairedKept ==
  ASSUME NEW s \in Seq(Entries), NEW e \in Entries, NEW ns \in Seq(Nodes), NEW ms \in Seq(Nodes),
         Wired(s, ns), Grown(ns, ms), NEW fd, Paired(s, ns, fd),
         Distinct(ms),
         \/ e.line.kind # "link" \/ ~e.done \/ "Bench" \in {e.line.from, e.line.to}
  PROVE  Paired(Append(s, e), ms, fd)
<1>. DEFINE t == Append(s, e)
<1>1. Made(t) = Made(s) /\ \A k \in Made(s) : t[k] = s[k]
  <2>1. /\ Len(s) \in Nat /\ Len(t) = Len(s) + 1 /\ t[Len(s) + 1] = e
        /\ \A k \in 1 .. Len(s) : t[k] = s[k]
    BY AppendProperties, LenProperties
  <2>. HIDE DEF t
  <2>. QED  BY <2>1 DEF Made
<1>2. \A k \in Made(s) : \A i, j \in 1 .. Len(ms) :
        ms[i].name = s[k].line.from /\ ms[j].name = s[k].line.to =>
         /\ Writes(t, ms, i, k) = Reads(t, ms, j, k) + 1
         /\ Reads(t, ms, j, k) < fd
         /\ \A l \in Made(s) : \A h \in 1 .. Len(ms) :
               ms[h].name = s[l].line.to /\ k # l => Reads(t, ms, j, k) # Reads(t, ms, h, l)
  BY PairedOld
<1>. HIDE DEF t
<1>3. Paired(t, ms, fd)
  BY <1>1, <1>2 DEF Paired
<1>. QED  BY <1>3 DEF t

(* A link between components has the two ends of the pipe made for it. *)
LEMMA PairedGrows ==
  ASSUME NEW s \in Seq(Entries), NEW e \in Entries, NEW ns \in Seq(Nodes), NEW ms \in Seq(Nodes),
         Wired(s, ns), Grown(ns, ms), NEW fd \in Nat, Paired(s, ns, fd),
         Distinct(ms),
         e.line.kind = "link", e.done, "Bench" \notin {e.line.from, e.line.to},
         \A i \in 1 .. Len(ms) : ms[i].name = e.line.from =>
             Writes(Append(s, e), ms, i, Len(s) + 1) = fd + 1,
         \A i \in 1 .. Len(ms) : ms[i].name = e.line.to =>
             Reads(Append(s, e), ms, i, Len(s) + 1) = fd
  PROVE  Paired(Append(s, e), ms, fd + 2)
<1>. DEFINE t == Append(s, e)
            n == Len(s) + 1
<1>1. /\ Made(t) = Made(s) \cup {n} /\ \A k \in Made(s) : t[k] = s[k] /\ k # n
      /\ t[n] = e
  <2>1. /\ Len(s) \in Nat /\ Len(t) = Len(s) + 1 /\ t[Len(s) + 1] = e
        /\ \A k \in 1 .. Len(s) : t[k] = s[k]
    BY AppendProperties, LenProperties
  <2>. HIDE DEF t
  <2>. QED  BY <2>1 DEF Made
<1>2. \A k \in Made(s) : \A i, j \in 1 .. Len(ms) :
        ms[i].name = s[k].line.from /\ ms[j].name = s[k].line.to =>
         /\ Writes(t, ms, i, k) = Reads(t, ms, j, k) + 1
         /\ Reads(t, ms, j, k) \in Nat
         /\ Reads(t, ms, j, k) < fd
         /\ \A l \in Made(s) : \A h \in 1 .. Len(ms) :
               ms[h].name = s[l].line.to /\ k # l => Reads(t, ms, j, k) # Reads(t, ms, h, l)
  BY PairedOld
<1>3. \A i \in 1 .. Len(ms) : /\ ms[i].name = e.line.from => Writes(t, ms, i, n) = fd + 1
                              /\ ms[i].name = e.line.to => Reads(t, ms, i, n) = fd
  OBVIOUS
<1>. HIDE DEF t, n
<1>4. \A k \in Made(s) : \A j \in 1 .. Len(ms) :
        ms[j].name = s[k].line.to => Reads(t, ms, j, k) # fd /\ Reads(t, ms, j, k) < fd + 2
  <2>1. \A k \in Made(s) : \E i \in 1 .. Len(ms) : ms[i].name = s[k].line.from
    <3>. TAKE k \in Made(s)
    <3>1. k \in 1 .. Len(s) /\ s[k].line.kind = "link" /\ s[k].done /\ s[k].line.from # "Bench"
      BY DEF Made
    <3>2. "from" \in Sides /\ Side(s[k].line, "from") = s[k].line.from
      BY DEF Side, Sides
    <3>3. \E i \in 1 .. Len(ns) : ns[i].name = s[k].line.from
      BY <3>1, <3>2 DEF Wired
    <3>. QED  BY <3>3, LenProperties DEF Grown
  <2>. QED  BY <1>2, <2>1
<1>5. ASSUME NEW k \in Made(t), NEW i \in 1 .. Len(ms), NEW j \in 1 .. Len(ms),
             ms[i].name = t[k].line.from, ms[j].name = t[k].line.to
      PROVE  /\ Writes(t, ms, i, k) = Reads(t, ms, j, k) + 1
             /\ Reads(t, ms, j, k) < fd + 2
             /\ \A l \in Made(t) : \A h \in 1 .. Len(ms) :
                   ms[h].name = t[l].line.to /\ k # l => Reads(t, ms, j, k) # Reads(t, ms, h, l)
  <2>1. CASE k \in Made(s)
    <3>1. ms[i].name = s[k].line.from /\ ms[j].name = s[k].line.to /\ k # n
      BY <1>1, <1>5, <2>1
    <3>2. Reads(t, ms, j, k) # fd /\ Reads(t, ms, j, k) < fd + 2
      BY <1>4, <2>1, <3>1
    <3>3. \A l \in Made(s) : \A h \in 1 .. Len(ms) :
             ms[h].name = t[l].line.to /\ k # l => Reads(t, ms, j, k) # Reads(t, ms, h, l)
      BY <1>1, <1>2, <2>1, <3>1
    <3>4. \A h \in 1 .. Len(ms) :
             ms[h].name = t[n].line.to => Reads(t, ms, j, k) # Reads(t, ms, h, n)
      BY <1>1, <1>3, <3>2
    <3>5. Writes(t, ms, i, k) = Reads(t, ms, j, k) + 1
      BY <1>2, <2>1, <3>1
    <3>. QED  BY <1>1, <3>2, <3>3, <3>4, <3>5
  <2>2. CASE k = n
    <3>1. Writes(t, ms, i, k) = fd + 1 /\ Reads(t, ms, j, k) = fd
      BY <1>1, <1>3, <1>5, <2>2
    <3>2. \A l \in Made(t) : k # l => l \in Made(s) /\ t[l] = s[l]
      BY <1>1, <2>2
    <3>. QED  BY <1>4, <3>1, <3>2
  <2>. QED  BY <1>1, <2>1, <2>2
<1>6. Paired(t, ms, fd + 2)
  BY <1>5 DEF Paired
<1>. QED  BY <1>6 DEF t

(* What a line has to be checked for. *)
LEMMA WiredIf ==
  ASSUME NEW s \in Seq(Entries), NEW e \in Entries, NEW ns \in Seq(Nodes), NEW ms \in Seq(Nodes),
         Wired(s, ns), Grown(ns, ms),
         \A i \in 1 .. Len(ms) : EndsAs(Append(s, e), ms[i].name, ms[i].pipes),
         \A side \in Sides :
            e.line.kind = "link" /\ e.done /\ Side(e.line, side) # "Bench" =>
               \E i \in 1 .. Len(ns) : ns[i].name = Side(e.line, side)
  PROVE  Wired(Append(s, e), ms)
<1>. DEFINE t == Append(s, e)
<1>1. /\ Len(s) \in Nat /\ Len(t) = Len(s) + 1 /\ t[Len(s) + 1] = e
      /\ \A k \in 1 .. Len(s) : t[k] = s[k]
  BY AppendProperties, LenProperties
<1>2. Len(ns) \in Nat /\ Len(ms) \in Nat
  BY LenProperties
<1>3. ASSUME NEW k \in 1 .. Len(t), NEW side \in Sides, t[k].line.kind = "link", t[k].done,
             Side(t[k].line, side) # "Bench"
      PROVE  \E i \in 1 .. Len(ms) : ms[i].name = Side(t[k].line, side)
  <2>. HIDE DEF t
  <2>1. \E i \in 1 .. Len(ns) : ns[i].name = Side(t[k].line, side)
    <3>1. CASE k \in 1 .. Len(s)
      <4>1. t[k] = s[k]
        BY <1>1, <3>1
      <4>. QED  BY <1>3, <3>1, <4>1 DEF Wired
    <3>2. CASE k = Len(s) + 1
      BY <1>1, <1>3, <3>2
    <3>. QED  BY <1>1, <3>1, <3>2
  <2>. QED  BY <1>2, <2>1 DEF Grown
<1>. QED  BY <1>3 DEF Wired

(* A declaration or a link that was not made. *)
LEMMA WiredKept ==
  ASSUME NEW s \in Seq(Entries), NEW e \in Entries, NEW ns \in Seq(Nodes), Wired(s, ns),
         e.line.kind # "link" \/ ~e.done
  PROVE  Wired(Append(s, e), ns) /\ Grown(ns, ns)
<1>1. Grown(ns, ns)
  BY LenProperties DEF Grown
<1>2. ASSUME NEW i \in 1 .. Len(ns)
      PROVE  EndsAs(Append(s, e), ns[i].name, ns[i].pipes)
  <2>1. ns[i] \in Nodes
    BY ElementOfSeq
  <2>2. ns[i].pipes \in Seq(Ends)
    BY <2>1 DEF Nodes
  <2>3. EndsAs(s, ns[i].name, ns[i].pipes)
    BY DEF Wired
  <2>4. \A side \in Sides : ~Links(e, side, ns[i].name)
    BY DEF Links
  <2>. QED  BY <2>2, <2>3, <2>4, EndsKept
<1>. QED  BY <1>1, <1>2, WiredIf

(* A new component has no ends, since no link could be made to it. *)
LEMMA WiredGrows ==
  ASSUME NEW s \in Seq(Entries), NEW e \in Entries, NEW ns \in Seq(Nodes), NEW n \in Nodes,
         Wired(s, ns), e.line.kind = "decl", n.name # "Bench", n.pipes = <<>>,
         \A i \in 1 .. Len(ns) : ns[i].name # n.name
  PROVE  Wired(Append(s, e), Append(ns, n)) /\ Grown(ns, Append(ns, n))
<1>. DEFINE ms == Append(ns, n)
<1>1. /\ Len(ns) \in Nat /\ Len(ms) = Len(ns) + 1 /\ ms[Len(ns) + 1] = n /\ ms \in Seq(Nodes)
      /\ \A i \in 1 .. Len(ns) : ms[i] = ns[i]
  BY AppendProperties, LenProperties
<1>. HIDE DEF ms
<1>2. Grown(ns, ms)
  BY <1>1 DEF Grown
<1>3. \A name : \A side \in Sides : ~Links(e, side, name)
  BY DEF Links
<1>4. MentionsIn(s, n.name) = {}
  <2>. SUFFICES ASSUME NEW m \in MentionsIn(s, n.name) PROVE FALSE
    OBVIOUS
  <2>1. /\ m[1] \in 1 .. Len(s) /\ m[2] \in Sides
        /\ s[m[1]].line.kind = "link" /\ s[m[1]].done /\ Side(s[m[1]].line, m[2]) = n.name
    BY DEF MentionsIn, Links
  <2>. QED  BY <2>1 DEF Wired
<1>5. <<>> \in Seq(Ends) /\ Len(<<>>) = 0
  OBVIOUS
<1>6. EndsAs(s, n.name, <<>>)
  <2>1. Cardinality(MentionsIn(s, n.name)) = 0
    BY <1>4, FS_EmptySet
  <2>. QED  BY <1>4, <1>5, <2>1 DEF EndsAs
<1>7. ASSUME NEW i \in 1 .. Len(ms)
      PROVE  EndsAs(Append(s, e), ms[i].name, ms[i].pipes)
  <2>1. CASE i \in 1 .. Len(ns)
    BY <1>1, <2>1, WiredKept DEF Wired
  <2>2. CASE i = Len(ns) + 1
    <3>1. EndsAs(Append(s, e), n.name, <<>>)
      BY <1>3, <1>5, <1>6, EndsKept
    <3>. QED  BY <1>1, <2>2, <3>1
  <2>. QED  BY <1>1, <2>1, <2>2
<1>8. Wired(Append(s, e), ms)
  BY <1>1, <1>2, <1>7, WiredIf
<1>. QED  BY <1>2, <1>8 DEF ms

(* Attach leaves the other ends alone. *)
LEMMA AttachGrows ==
  ASSUME NEW ns \in Seq(Nodes), NEW i \in 1 .. Len(ns), NEW end \in Ends
  PROVE  Grown(ns, Attach(ns, i, end))
<1>. DEFINE ms == Attach(ns, i, end)
<1>1. Len(ns) \in Nat /\ Len(ms) = Len(ns)
  BY AttachIs, LenProperties
<1>2. ms[i].name = ns[i].name /\ ms[i].pipes = Append(ns[i].pipes, end)
  BY AttachIs
<1>3. \A j \in 1 .. Len(ns) : j # i => ms[j] = ns[j]
  BY AttachIs
<1>4. ns[i].pipes \in Seq(Ends)
  <2>1. ns[i] \in Nodes
    BY ElementOfSeq
  <2>. QED  BY <2>1 DEF Nodes
<1>5. \A k \in 1 .. Len(ns[i].pipes) : Append(ns[i].pipes, end)[k] = ns[i].pipes[k]
  BY <1>4, AppendProperties
<1>. HIDE DEF ms
<1>6. Grown(ns, ms)
  BY <1>1, <1>2, <1>3, <1>5 DEF Grown
<1>. QED  BY <1>6 DEF ms

(* A link with Bench. *)
LEMMA WiredBench ==
  ASSUME NEW s \in Seq(Entries), NEW e \in Entries, NEW ns \in Seq(Nodes), Wired(s, ns),
         e.line.kind = "link", e.done, NEW side \in Sides,
         \A other \in Sides : other # side => Side(e.line, other) = "Bench",
         NEW i \in 1 .. Len(ns), ns[i].name = Side(e.line, side),
         \A j \in 1 .. Len(ns) : ns[j].name # "Bench" /\ (ns[j].name = ns[i].name => j = i),
         NEW end, Matches(e.line, side, end)
  PROVE  Wired(Append(s, e), Attach(ns, i, end))
<1>. DEFINE ms == Attach(ns, i, end)
<1>1. end \in Ends
  BY DEF Matches
<1>2. /\ ms \in Seq(Nodes) /\ Len(ms) = Len(ns) /\ ms[i].name = ns[i].name
      /\ ms[i].pipes = Append(ns[i].pipes, end)
      /\ \A j \in 1 .. Len(ns) : j # i => ms[j] = ns[j]
  BY <1>1, AttachIs
<1>3. Grown(ns, ms)
  BY <1>1, AttachGrows
<1>. HIDE DEF ms
<1>4. ASSUME NEW j \in 1 .. Len(ms)
      PROVE  EndsAs(Append(s, e), ms[j].name, ms[j].pipes)
  <2>1. ns[j] \in Nodes /\ j \in 1 .. Len(ns)
    BY <1>2, ElementOfSeq
  <2>2. ns[j].pipes \in Seq(Ends)
    BY <2>1 DEF Nodes
  <2>3. EndsAs(s, ns[j].name, ns[j].pipes)
    BY <2>1 DEF Wired
  <2>4. CASE j = i
    <3>1. /\ Links(e, side, ns[i].name)
          /\ \A other \in Sides : other # side => ~Links(e, other, ns[i].name)
      BY DEF Links
    <3>2. EndsAs(Append(s, e), ns[i].name, Append(ns[i].pipes, end))
      BY <2>2, <2>3, <2>4, <3>1, EndsOne
    <3>. QED  BY <1>2, <2>4, <3>2
  <2>5. CASE j # i
    <3>1. \A other \in Sides : ~Links(e, other, ns[j].name)
      BY <2>1, <2>5 DEF Links
    <3>2. EndsAs(Append(s, e), ns[j].name, ns[j].pipes)
      BY <2>2, <2>3, <3>1, EndsKept
    <3>. QED  BY <1>2, <2>1, <2>5, <3>2
  <2>. QED  BY <2>4, <2>5
<1>5. \A other \in Sides : Side(e.line, other) # "Bench" =>
         \E j \in 1 .. Len(ns) : ns[j].name = Side(e.line, other)
  OBVIOUS
<1>6. Wired(Append(s, e), ms)
  BY <1>2, <1>3, <1>4, <1>5, WiredIf
<1>. QED  BY <1>6 DEF ms

(* A link from one component to another, or to itself. *)
LEMMA WiredLink ==
  ASSUME NEW s \in Seq(Entries), NEW e \in Entries, NEW ns \in Seq(Nodes), Wired(s, ns),
         e.line.kind = "link", e.done,
         NEW i \in 1 .. Len(ns), ns[i].name = e.line.from,
         NEW j \in 1 .. Len(ns), ns[j].name = e.line.to,
         Distinct(ns),
         NEW a, Matches(e.line, "from", a), NEW b, Matches(e.line, "to", b)
  PROVE  LET ms == Attach(Attach(ns, i, a), j, b)
         IN  /\ Wired(Append(s, e), ms) /\ Grown(ns, ms)
             /\ Writes(Append(s, e), ms, i, Len(s) + 1) = a.fd_out
             /\ Reads(Append(s, e), ms, j, Len(s) + 1) = b.fd_in
<1>. DEFINE t == Append(s, e)
            hs == Attach(ns, i, a)
            ms == Attach(hs, j, b)

<1>1. a \in Ends /\ b \in Ends
  BY DEF Matches
<1>2. /\ hs \in Seq(Nodes) /\ Len(hs) = Len(ns) /\ hs[i].name = ns[i].name
      /\ hs[i].pipes = Append(ns[i].pipes, a)
      /\ \A g \in 1 .. Len(ns) : g # i => hs[g] = ns[g]
  BY <1>1, AttachIs
<1>3. Grown(ns, hs)
  BY <1>1, AttachGrows
<1>. HIDE DEF hs
<1>4. /\ ms \in Seq(Nodes) /\ Len(ms) = Len(hs) /\ ms[j].name = hs[j].name
      /\ ms[j].pipes = Append(hs[j].pipes, b)
      /\ \A g \in 1 .. Len(hs) : g # j => ms[g] = hs[g]
  <2>1. j \in 1 .. Len(hs) /\ hs \in Seq(Nodes)
    BY <1>2
  <2>. QED  BY <1>1, <2>1, AttachIs
<1>5. Grown(hs, ms)
  BY <1>1, <1>2, AttachGrows
<1>. HIDE DEF ms
<1>6. \A g \in 1 .. Len(ns) : /\ ns[g].pipes \in Seq(Ends) /\ ms[g].name = ns[g].name
                              /\ EndsAs(s, ns[g].name, ns[g].pipes)
  <2>. TAKE g \in 1 .. Len(ns)
  <2>1. ns[g] \in Nodes
    BY ElementOfSeq
  <2>2. ns[g].pipes \in Seq(Ends)
    BY <2>1 DEF Nodes
  <2>3. ms[g].name = ns[g].name
    BY <1>2, <1>4
  <2>. QED  BY <2>2, <2>3 DEF Wired
<1>7. Grown(ns, ms)
  <2>1. \A g \in 1 .. Len(ns) : \A k \in 1 .. Len(ns[g].pipes) : k \in 1 .. Len(hs[g].pipes)
    <3>1. \A g \in 1 .. Len(ns) : Len(ns[g].pipes) \in Nat /\ Len(hs[g].pipes) \in Nat
                                  /\ Len(ns[g].pipes) <= Len(hs[g].pipes)
      <4>1. Len(ns[i].pipes) \in Nat /\ Len(Append(ns[i].pipes, a)) = Len(ns[i].pipes) + 1
        BY <1>1, <1>6, AppendProperties, LenProperties
      <4>2. \A g \in 1 .. Len(ns) : Len(ns[g].pipes) \in Nat
        BY <1>6, LenProperties
      <4>3. \A g \in 1 .. Len(ns) : g # i => hs[g].pipes = ns[g].pipes
        BY <1>2
      <4>. QED  BY <1>2, <4>1, <4>2, <4>3
    <3>. QED  BY <3>1
  <2>. QED  BY <1>2, <1>3, <1>4, <1>5, <2>1 DEF Grown
<1>8. "from" \in Sides /\ "to" \in Sides /\ \A side \in Sides : side = "from" \/ side = "to"
  BY DEF Sides
<1>9. ASSUME NEW g \in 1 .. Len(ns), g # i, g # j
      PROVE  EndsAs(t, ms[g].name, ms[g].pipes)
  <2>1. \A side \in Sides : ~Links(e, side, ns[g].name)
    BY <1>8, <1>9 DEF Links, Side, Distinct
  <2>2. EndsAs(t, ns[g].name, ns[g].pipes)
    BY <1>6, <2>1, EndsKept
  <2>. QED  BY <1>2, <1>4, <1>9, <2>2
<1>10. /\ EndsAs(t, ms[i].name, ms[i].pipes) /\ EndsAs(t, ms[j].name, ms[j].pipes)
       /\ ms[i].pipes[PlaceIn(t, ms[i].name, <<Len(s) + 1, "from">>)] = a
       /\ ms[j].pipes[PlaceIn(t, ms[j].name, <<Len(s) + 1, "to">>)] = b
  <2>1. CASE i = j
    <3>1. Links(e, "from", ns[i].name) /\ Links(e, "to", ns[i].name)
      BY <2>1 DEF Links, Side
    <3>2. /\ EndsAs(t, ns[i].name, Append(Append(ns[i].pipes, a), b))
          /\ PlaceIn(t, ns[i].name, <<Len(s) + 1, "from">>) = Len(ns[i].pipes) + 1
          /\ PlaceIn(t, ns[i].name, <<Len(s) + 1, "to">>) = Len(ns[i].pipes) + 2
      <4>1. ns[i].pipes \in Seq(Ends) /\ EndsAs(s, ns[i].name, ns[i].pipes)
        BY <1>6
      <4>. DEFINE nm == ns[i].name
                  ps == ns[i].pipes
      <4>2. ps \in Seq(Ends) /\ EndsAs(s, nm, ps) /\ Links(e, "from", nm) /\ Links(e, "to", nm)
        BY <3>1, <4>1
      <4>. HIDE DEF nm, ps
      <4>3. /\ EndsAs(t, nm, Append(Append(ps, a), b))
            /\ PlaceIn(t, nm, <<Len(s) + 1, "from">>) = Len(ps) + 1
            /\ PlaceIn(t, nm, <<Len(s) + 1, "to">>) = Len(ps) + 2
        BY <4>2, EndsBoth
      <4>. QED  BY <4>3 DEF nm, ps
    <3>3. ms[i].pipes = Append(Append(ns[i].pipes, a), b)
      BY <1>2, <1>4, <2>1
    <3>4. /\ Len(ns[i].pipes) \in Nat /\ Append(ns[i].pipes, a) \in Seq(Ends)
          /\ Len(Append(ns[i].pipes, a)) = Len(ns[i].pipes) + 1
          /\ Append(ns[i].pipes, a)[Len(ns[i].pipes) + 1] = a
      BY <1>1, <1>6, AppendProperties, LenProperties
    <3>5. /\ Append(Append(ns[i].pipes, a), b)[Len(ns[i].pipes) + 1] = a
          /\ Append(Append(ns[i].pipes, a), b)[Len(ns[i].pipes) + 2] = b
      <4>. DEFINE q == Append(ns[i].pipes, a)
      <4>1. Append(q, b)[Len(q) + 1] = b /\ \A k \in 1 .. Len(q) : Append(q, b)[k] = q[k]
        BY <1>1, <3>4, AppendProperties
      <4>. HIDE DEF q
      <4>2. Len(q) = Len(ns[i].pipes) + 1 /\ q[Len(ns[i].pipes) + 1] = a
        BY <3>4 DEF q
      <4>3. Append(q, b)[Len(ns[i].pipes) + 1] = a /\ Append(q, b)[Len(ns[i].pipes) + 2] = b
        BY <3>4, <4>1, <4>2
      <4>. QED  BY <4>3 DEF q
    <3>. QED  BY <1>6, <2>1, <3>2, <3>3, <3>5
  <2>2. CASE i # j
    <3>1. /\ Links(e, "from", ns[i].name) /\ Links(e, "to", ns[j].name)
          /\ \A side \in Sides : side # "from" => ~Links(e, side, ns[i].name)
          /\ \A side \in Sides : side # "to" => ~Links(e, side, ns[j].name)
      BY <1>8, <2>2 DEF Links, Side, Distinct
    <3>2. /\ EndsAs(t, ns[i].name, Append(ns[i].pipes, a))
          /\ PlaceIn(t, ns[i].name, <<Len(s) + 1, "from">>) = Len(ns[i].pipes) + 1
      <4>1. ns[i].pipes \in Seq(Ends) /\ EndsAs(s, ns[i].name, ns[i].pipes)
        BY <1>6
      <4>. DEFINE nm == ns[i].name
                  ps == ns[i].pipes
      <4>2. /\ ps \in Seq(Ends) /\ EndsAs(s, nm, ps) /\ Links(e, "from", nm)
            /\ \A side \in Sides : side # "from" => ~Links(e, side, nm)
        BY <3>1, <4>1
      <4>. HIDE DEF nm, ps
      <4>3. /\ EndsAs(t, nm, Append(ps, a))
            /\ PlaceIn(t, nm, <<Len(s) + 1, "from">>) = Len(ps) + 1
        <5>1. "from" \in Sides
          BY <1>8
        <5>. QED  BY <4>2, <5>1, EndsOne
      <4>. QED  BY <4>3 DEF nm, ps
    <3>3. /\ EndsAs(t, ns[j].name, Append(ns[j].pipes, b))
          /\ PlaceIn(t, ns[j].name, <<Len(s) + 1, "to">>) = Len(ns[j].pipes) + 1
      <4>1. ns[j].pipes \in Seq(Ends) /\ EndsAs(s, ns[j].name, ns[j].pipes)
        BY <1>6
      <4>. DEFINE nm == ns[j].name
                  ps == ns[j].pipes
      <4>2. /\ ps \in Seq(Ends) /\ EndsAs(s, nm, ps) /\ Links(e, "to", nm)
            /\ \A side \in Sides : side # "to" => ~Links(e, side, nm)
        BY <3>1, <4>1
      <4>. HIDE DEF nm, ps
      <4>3. /\ EndsAs(t, nm, Append(ps, b))
            /\ PlaceIn(t, nm, <<Len(s) + 1, "to">>) = Len(ps) + 1
        <5>1. "to" \in Sides
          BY <1>8
        <5>. QED  BY <4>2, <5>1, EndsOne
      <4>. QED  BY <4>3 DEF nm, ps
    <3>4. ms[i].pipes = Append(ns[i].pipes, a) /\ ms[j].pipes = Append(ns[j].pipes, b)
      BY <1>2, <1>4, <2>2
    <3>5. /\ Append(ns[i].pipes, a)[Len(ns[i].pipes) + 1] = a
          /\ Append(ns[j].pipes, b)[Len(ns[j].pipes) + 1] = b
      BY <1>1, <1>6, AppendProperties
    <3>. QED  BY <1>6, <3>2, <3>3, <3>4, <3>5
  <2>. QED  BY <2>1, <2>2
<1>11. \A side \in Sides : \E g \in 1 .. Len(ns) : ns[g].name = Side(e.line, side)
  BY DEF Side
<1>12. \A g \in 1 .. Len(ms) : EndsAs(t, ms[g].name, ms[g].pipes)
  BY <1>2, <1>4, <1>9, <1>10
<1>13. Wired(t, ms)
  BY <1>4, <1>7, <1>11, <1>12, WiredIf
<1>14. Writes(t, ms, i, Len(s) + 1) = a.fd_out /\ Reads(t, ms, j, Len(s) + 1) = b.fd_in
  BY <1>10 DEF Writes, Reads
<1>. QED  BY <1>7, <1>13, <1>14 DEF ms, hs

-----------------------------------------------------------------------------
(***************************************************************************)
(* The steps of the parser.                                                *)
(***************************************************************************)

(* The plumber's two descriptors of Bench. *)
LEMMA BenchEnds == data_in.fd_in = 7 /\ cmd_out.fd_out = 10
<1>1. /\ fake_pipes[1] = [rep_info |-> "RANGE_POSE_DATA", fd_in |-> 1, fd_out |-> 0]
      /\ fake_pipes[2] = [rep_info |-> "MOV_CMD", fd_in |-> 0, fd_out |-> 1]
  BY DEF fake_pipes
<1>2. \A ext, fd : ext.fd_in # 0 =>
         /\ createPipe(ext, fd).fd_in = fd /\ createPipe(ext, fd).fd_out = 0
  BY DEF createPipe
<1>3. \A ext, fd : ext.fd_in = 0 =>
         /\ createPipe(ext, fd).fd_in = 0 /\ createPipe(ext, fd).fd_out = fd + 1
  BY DEF createPipe
<1>4. \A ext, fd : Passed(ext, fd).fd_in = createPipe(ext, fd).fd_in
  BY DEF Passed, deserializePipe, serializePipe, convertVoteToTyped
<1>5. \A ext, fd : createPipe(ext, fd).fd_in = 0 =>
         Passed(ext, fd).fd_out = createPipe(ext, fd).fd_out
  BY DEF Passed, deserializePipe, serializePipe, convertVoteToTyped
<1>6. trans_pipes[1] = Passed(fake_pipes[1], 3) /\ trans_pipes[2] = Passed(fake_pipes[2], 5)
  BY DEF trans_pipes
<1>7. trans_pipes[1].fd_in = 3
  BY <1>1, <1>2, <1>4, <1>6
<1>8. trans_pipes[2].fd_in = 0
  BY <1>1, <1>3, <1>4, <1>6
<1>9. /\ convertTypedToVote(trans_pipes[1]).fd_in = 3
      /\ convertTypedToVote(trans_pipes[2]).fd_in = 0
  BY <1>7, <1>8 DEF convertTypedToVote
<1>10. data_in.fd_in = 7
  BY <1>2, <1>4, <1>9 DEF data_in
<1>11. cmd_out.fd_out = 10
  BY <1>3, <1>4, <1>5, <1>9 DEF cmd_out
<1>. QED  BY <1>10, <1>11

(* No component is called Bench. *)
LEMMA NotBench ==
  ASSUME nodes \in Seq(Nodes), NEW i \in 1 .. Len(nodes)
  PROVE  /\ nodes[i] \in Nodes /\ nodes[i].name # "Bench"
         /\ nodes[i].pipes \in Seq(Ends) /\ Len(nodes[i].pipes) \in Nat
<1>1. nodes[i] \in Nodes
  BY ElementOfSeq
<1>2. nodes[i].name \in {l.name : l \in Decls} /\ nodes[i].pipes \in Seq(Ends)
  BY <1>1 DEF Nodes
<1>3. nodes[i].name # "Bench"
  BY <1>2, LinesAssumption DEF Decls
<1>. QED  BY <1>1, <1>2, <1>3, LenProperties

(* What holds whenever a line is read. *)
LEMMA Reading ==
  ASSUME Inv, NEW l \in Lines, NEW done \in BOOLEAN, ReadLine(l, done)
  PROVE  /\ [line |-> l, done |-> done] \in Entries
         /\ [line |-> l, done |-> done].line = l /\ [line |-> l, done |-> done].done = done
         /\ script' = Append(script, [line |-> l, done |-> done])
         /\ script' \in Seq(Entries) /\ Len(script') <= MaxLines
         /\ Wired(script, nodes) /\ Paired(script, nodes, nfd) /\ Distinct(nodes)
         /\ phase = "parse" /\ procs = <<>>
<1>1. [line |-> l, done |-> done] \in Entries
  BY DEF Entries
<1>2. script \in Seq(Entries) /\ Len(script) < MaxLines /\ MaxLines \in Nat
      /\ script' = Append(script, [line |-> l, done |-> done])
  BY BoundAssumption DEF Inv, Shape, ReadLine
<1>3. script' \in Seq(Entries) /\ Len(script') = Len(script) + 1 /\ Len(script) \in Nat
  BY <1>1, <1>2, AppendProperties, LenProperties
<1>4. phase = "parse" /\ procs = <<>>
  BY DEF ReadLine, Inv, Launched
<1>5. Wired(script, nodes) /\ Paired(script, nodes, nfd) /\ Distinct(nodes)
  BY <1>4 DEF Inv, Linked, Listed
<1>. QED  BY <1>1, <1>2, <1>3, <1>4, <1>5

(* While the script is read nothing is launched. *)
LEMMA NothingLaunched ==
  ASSUME nodes' \in Seq(Nodes), procs' = <<>>, phase' # "done"
  PROVE  Launched' /\ procs' \in Seq(Processes)
<1>1. Len(<<>>) = 0 /\ <<>> \in Seq(Processes) /\ Len(nodes') \in Nat
  BY LenProperties
<1>2. 1 .. Len(procs') = {}
  BY <1>1
<1>. QED  BY <1>1, <1>2 DEF Launched

(* Declare keeps the invariant: a new node has no ends yet. *)
LEMMA DeclareInv ==
  ASSUME Inv, NEW l \in Lines, Declare(l)
  PROVE  Inv'
<1>. DEFINE e == [line |-> l, done |-> TRUE]
<1>1. l.kind = "decl" /\ ReadLine(l, TRUE) /\ nodes' = add_node(l)
      /\ UNCHANGED <<phase, nfd, procs, faults>>
  BY DEF Declare
<1>2. /\ e \in Entries /\ e.line = l
      /\ script' = Append(script, e) /\ script' \in Seq(Entries) /\ Len(script') <= MaxLines
      /\ Wired(script, nodes) /\ Paired(script, nodes, nfd) /\ Distinct(nodes)
      /\ phase = "parse" /\ procs = <<>>
  BY <1>1, Reading
<1>3. script \in Seq(Entries) /\ nodes \in Seq(Nodes) /\ Listed(script, nodes)
  BY DEF Inv, Shape
<1>4. l.name # "Bench" /\ l \in Decls /\ l.rep \in RepTypes /\ l.timer \in Int
  BY <1>1, LinesAssumption DEF Decls
<1>. HIDE DEF e
<1>5. CASE get_node(l.name) = 0
  <2>. DEFINE n == new_node(l)
  <2>1. nodes' = Append(nodes, n)
    BY <1>1, <1>5 DEF add_node
  <2>2. n \in Nodes /\ n.name = l.name /\ n.value = l.value /\ n.rep_strat = l.rep
        /\ n.priority = l.priority /\ n.pipes = <<>>
    <3>1. <<>> \in Seq(Ends)
      OBVIOUS
    <3>. QED  BY <1>4, <3>1 DEF new_node, Nodes
  <2>. HIDE DEF n
  <2>3. \A i \in 1 .. Len(nodes) : nodes[i].name # l.name
    <3>1. \A i \in 1 .. Len(nodes) : nodes[i].name = l.name => i = 0
      BY <1>3, <1>5, NodeFound
    <3>. QED  BY <3>1
  <2>4. Listed(script, nodes)'
    BY <1>1, <1>2, <1>3, <2>1, <2>2, <2>3, ListedGrows
  <2>5. Wired(script', nodes') /\ Grown(nodes, nodes')
    BY <1>1, <1>2, <1>3, <1>4, <2>1, <2>2, <2>3, WiredGrows
  <2>6. /\ nodes' \in Seq(Nodes) /\ Len(nodes') = Len(nodes) + 1 /\ Len(nodes) \in Nat
        /\ nodes'[Len(nodes) + 1] = n /\ \A i \in 1 .. Len(nodes) : nodes'[i] = nodes[i]
    BY <1>3, <2>1, <2>2, AppendProperties, LenProperties
  <2>7. Paired(script', nodes', nfd)
    <3>1. Distinct(nodes') /\ e.line.kind # "link"
      BY <1>1, <1>2, <2>4 DEF Listed
    <3>. QED  BY <1>2, <1>3, <2>5, <2>6, <3>1, PairedKept
  <2>8. \A i \in 1 .. Len(nodes') : Len(nodes'[i].pipes) <= PIPE_LIMIT
    <3>1. Len(<<>>) <= PIPE_LIMIT
      BY LimitAssumption
    <3>2. \A i \in 1 .. Len(nodes) : Len(nodes[i].pipes) <= PIPE_LIMIT
      BY DEF Inv, Shape
    <3>. QED  BY <2>2, <2>6, <3>1, <3>2
  <2>9. Launched' /\ procs' \in Seq(Processes)
    BY <1>1, <1>2, <2>6, NothingLaunched
  <2>10. Shape'
    BY <1>1, <1>2, <2>6, <2>8, <2>9 DEF Inv, Shape
  <2>11. Linked'
    BY <1>1, <2>5, <2>7 DEF Linked
  <2>. QED  BY <2>4, <2>9, <2>10, <2>11 DEF Inv
<1>6. CASE get_node(l.name) # 0
  <2>1. nodes' = nodes
    BY <1>1, <1>6 DEF add_node
  <2>2. \E i \in 1 .. Len(nodes) : nodes[i].name = l.name
    BY <1>3, <1>6, NodeFound
  <2>3. Listed(script, nodes)'
    BY <1>2, <1>3, <2>1, <2>2, ListedKept
  <2>4. e.line.kind # "link"
    BY <1>1, <1>2
  <2>5. Wired(script', nodes') /\ Grown(nodes, nodes')
    BY <1>2, <1>3, <2>1, <2>4, WiredKept
  <2>6. Paired(script', nodes', nfd)
    BY <1>2, <1>3, <2>1, <2>4, <2>5, PairedKept
  <2>7. Launched' /\ procs' \in Seq(Processes)
    BY <1>1, <1>2, <1>3, <2>1, NothingLaunched
  <2>8. Shape'
    BY <1>1, <1>2, <2>1, <2>7 DEF Inv, Shape
  <2>9. Linked'
    BY <1>1, <2>5, <2>6 DEF Linked
  <2>. QED  BY <2>3, <2>7, <2>8, <2>9 DEF Inv
<1>. QED  BY <1>5, <1>6

(* A write outside of a node. *)
LEMMA CrashInv ==
  ASSUME Inv, NEW l \in Lines, ReadLine(l, TRUE), l.kind = "link", phase' = "crashed",
         UNCHANGED <<nodes, procs, faults>>, nfd' \in Nat \ {0}
  PROVE  Inv'
<1>. DEFINE e == [line |-> l, done |-> TRUE]
<1>1. /\ e \in Entries /\ e.line = l
      /\ script' = Append(script, e) /\ script' \in Seq(Entries) /\ Len(script') <= MaxLines
      /\ procs = <<>>
  BY Reading
<1>2. script \in Seq(Entries) /\ nodes \in Seq(Nodes) /\ Listed(script, nodes)
  BY DEF Inv, Shape
<1>. HIDE DEF e
<1>3. e.line.kind # "decl"
  BY <1>1
<1>4. Listed(script', nodes)
  BY <1>1, <1>2, <1>3, ListedKept
<1>5. Launched' /\ procs' \in Seq(Processes)
  BY <1>1, <1>2, NothingLaunched
<1>6. Shape'
  BY <1>1, <1>5 DEF Inv, Shape
<1>7. Linked'
  BY <1>1 DEF Linked
<1>. QED  BY <1>4, <1>5, <1>6, <1>7 DEF Inv

(* A node gets an end: it stays within its limit, and the list stays what it is. *)
LEMMA Attached ==
  ASSUME NEW ns \in Seq(Nodes), \A i \in 1 .. Len(ns) : Len(ns[i].pipes) <= PIPE_LIMIT,
         NEW i \in 1 .. Len(ns), Fits(ns, i), NEW end \in Ends
  PROVE  LET ms == Attach(ns, i, end)
         IN  /\ \A j \in 1 .. Len(ms) : Len(ms[j].pipes) <= PIPE_LIMIT
             /\ \A j \in 1 .. Len(ns) : /\ ms[j].name = ns[j].name /\ ms[j].value = ns[j].value
                                         /\ ms[j].rep_strat = ns[j].rep_strat
                                         /\ ms[j].priority = ns[j].priority
<1>. DEFINE ms == Attach(ns, i, end)
<1>1. /\ Len(ms) = Len(ns) /\ ms[i].pipes = Append(ns[i].pipes, end)
      /\ ms[i].name = ns[i].name /\ ms[i].value = ns[i].value
      /\ ms[i].rep_strat = ns[i].rep_strat /\ ms[i].priority = ns[i].priority
      /\ \A j \in 1 .. Len(ns) : j # i => ms[j] = ns[j]
  BY AttachIs
<1>2. ns[i] \in Nodes
  BY ElementOfSeq
<1>3. ns[i].pipes \in Seq(Ends)
  BY <1>2 DEF Nodes
<1>4. Len(Append(ns[i].pipes, end)) = Len(ns[i].pipes) + 1 /\ Len(ns[i].pipes) \in Nat
  BY <1>3, AppendProperties, LenProperties
<1>. HIDE DEF ms
<1>5. Len(ms[i].pipes) <= PIPE_LIMIT
  BY <1>1, <1>4, LimitAssumption DEF Fits
<1>. QED  BY <1>1, <1>5 DEF ms

(* LinkBench keeps it: one more end of one node. *)
LEMMA LinkBenchInv ==
  ASSUME Inv, NEW l \in Lines, LinkBench(l)
  PROVE  Inv'
<1>. DEFINE e == [line |-> l, done |-> TRUE]
            side == IF l.from = "Bench" THEN "to" ELSE "from"
            n == get_node(IF l.from = "Bench" THEN l.to ELSE l.from)
            end == IF l.from = "Bench"
                   THEN [type |-> commToEnum(l.type), fd_in |-> data_in.fd_in,
                         fd_out |-> 0, timed |-> l.toTimed]
                   ELSE [type |-> commToEnum(l.type), fd_in |-> 0,
                         fd_out |-> cmd_out.fd_out, timed |-> l.fromTimed]
<1>1. /\ l.kind = "link" /\ "Bench" \in {l.from, l.to} /\ ReadLine(l, TRUE)
      /\ UNCHANGED <<nfd, procs, faults>>
      /\ \/ Fits(nodes, n) /\ nodes' = Attach(nodes, n, end) /\ UNCHANGED phase
         \/ phase' = "crashed" /\ UNCHANGED nodes
  BY DEF LinkBench
<1>2. /\ e \in Entries /\ e.line = l /\ e.done = TRUE
      /\ script' = Append(script, e) /\ script' \in Seq(Entries) /\ Len(script') <= MaxLines
      /\ Wired(script, nodes) /\ Paired(script, nodes, nfd) /\ Distinct(nodes)
      /\ phase = "parse" /\ procs = <<>>
  BY <1>1, Reading
<1>3. /\ script \in Seq(Entries) /\ nodes \in Seq(Nodes) /\ Listed(script, nodes)
      /\ nfd \in Nat \ {0} /\ \A i \in 1 .. Len(nodes) : Len(nodes[i].pipes) <= PIPE_LIMIT
  BY DEF Inv, Shape
<1>4. CASE phase' = "crashed" /\ UNCHANGED nodes
  BY <1>1, <1>3, <1>4, CrashInv
<1>5. CASE Fits(nodes, n) /\ nodes' = Attach(nodes, n, end) /\ UNCHANGED phase
  <2>1. Matches(l, side, end)
    <3>1. commToEnum(l.type) \in CommNames
      BY DEF commToEnum, CommNames
    <3>2. l.toTimed \in BOOLEAN /\ l.fromTimed \in BOOLEAN
      BY <1>1, LinesAssumption
    <3>3. CASE l.from = "Bench"
      <4>1. end = [type |-> commToEnum(l.type), fd_in |-> 7, fd_out |-> 0, timed |-> l.toTimed]
        BY <3>3, BenchEnds
      <4>2. side = "to" /\ Timed(l, "to") = l.toTimed
        BY <3>3 DEF Timed
      <4>. HIDE DEF side, end
      <4>3. end \in Ends
        BY <3>1, <3>2, <4>1 DEF Ends
      <4>. QED  BY <4>1, <4>2, <4>3 DEF Matches
    <3>4. CASE l.from # "Bench"
      <4>1. end = [type |-> commToEnum(l.type), fd_in |-> 0, fd_out |-> 10, timed |-> l.fromTimed]
        BY <3>4, BenchEnds
      <4>2. side = "from" /\ Timed(l, "from") = l.fromTimed
        BY <3>4 DEF Timed
      <4>. HIDE DEF side, end
      <4>3. end \in Ends
        BY <3>1, <3>2, <4>1 DEF Ends
      <4>. QED  BY <4>1, <4>2, <4>3 DEF Matches
    <3>. QED  BY <3>3, <3>4
  <2>2. Side(l, side) = IF l.from = "Bench" THEN l.to ELSE l.from
    BY DEF Side
  <2>3. n \in 1 .. Len(nodes) /\ nodes[n].name = Side(l, side)
    <3>1. n > 0
      BY <1>5 DEF Fits
    <3>2. n \notin 1 .. Len(nodes) => n = 0
      BY <1>3, NodeFound
    <3>3. n \in 1 .. Len(nodes)
      BY <3>1, <3>2
    <3>. QED  BY <1>3, <2>2, <3>3, NodeFound
  <2>4. side \in Sides /\ \A other \in Sides : other # side => Side(l, other) = "Bench"
    <3>1. nodes[n].name # "Bench"
      BY <1>3, <2>3, NotBench
    <3>. QED  BY <1>1, <2>2, <2>3, <3>1 DEF Side, Sides
  <2>. HIDE DEF e, side, n, end
  <2>5. end \in Ends
    BY <2>1 DEF Matches
  <2>6. /\ nodes' \in Seq(Nodes) /\ Len(nodes') = Len(nodes) /\ Grown(nodes, nodes')
    BY <1>3, <1>5, <2>3, <2>5, AttachIs, AttachGrows
  <2>7. /\ \A i \in 1 .. Len(nodes') : Len(nodes'[i].pipes) <= PIPE_LIMIT
        /\ \A i \in 1 .. Len(nodes) :
              /\ nodes'[i].name = nodes[i].name /\ nodes'[i].value = nodes[i].value
              /\ nodes'[i].rep_strat = nodes[i].rep_strat
              /\ nodes'[i].priority = nodes[i].priority
    BY <1>3, <1>5, <2>3, <2>5, Attached
  <2>8. e.line.kind # "decl" /\ e.line.kind = "link" /\ "Bench" \in {e.line.from, e.line.to}
    BY <1>1, <1>2
  <2>9. Listed(script, nodes)'
    BY <1>2, <1>3, <2>6, <2>7, <2>8, ListedKept
  <2>10. Wired(script', nodes')
    <3>1. \A j \in 1 .. Len(nodes) :
             nodes[j].name # "Bench" /\ (nodes[j].name = nodes[n].name => j = n)
      BY <1>2, <1>3, <2>3, NotBench DEF Distinct
    <3>. QED  BY <1>2, <1>3, <1>5, <2>1, <2>3, <2>4, <2>8, <3>1, WiredBench
  <2>11. Paired(script', nodes', nfd)
    <3>1. Distinct(nodes')
      BY <2>9 DEF Listed
    <3>. QED  BY <1>2, <1>3, <2>6, <2>8, <3>1, PairedKept
  <2>12. Launched' /\ procs' \in Seq(Processes)
    BY <1>1, <1>2, <1>5, <2>6, NothingLaunched
  <2>13. Shape'
    BY <1>1, <1>2, <1>5, <2>6, <2>7, <2>12 DEF Inv, Shape
  <2>14. Linked'
    BY <1>1, <2>10, <2>11 DEF Linked
  <2>. QED  BY <2>9, <2>12, <2>13, <2>14 DEF Inv
<1>. QED  BY <1>1, <1>4, <1>5

(* LinkNodes keeps it: the two ends of a new pipe. *)
LEMMA LinkNodesInv ==
  ASSUME Inv, NEW l \in Lines, LinkNodes(l)
  PROVE  Inv'
<1>. DEFINE e == [line |-> l, done |-> TRUE]
            i == get_node(l.from)
            j == get_node(l.to)
            a == [type |-> l.type, fd_in |-> 0, fd_out |-> WriteEnd(nfd), timed |-> l.fromTimed]
            b == [type |-> l.type, fd_in |-> nfd, fd_out |-> 0, timed |-> l.toTimed]
            half == Attach(nodes, i, a)
<1>1. /\ l.kind = "link" /\ "Bench" \notin {l.from, l.to} /\ commToEnum(l.type) # "COMM_ERROR"
      /\ ReadLine(l, TRUE) /\ nfd' = nfd + 2 /\ UNCHANGED <<procs, faults>>
      /\ \/ phase' = "crashed" /\ UNCHANGED nodes
         \/ /\ Fits(nodes, i) /\ Fits(half, j)
            /\ nodes' = Attach(half, j, b) /\ UNCHANGED phase
  BY DEF LinkNodes
<1>2. /\ e \in Entries /\ e.line = l /\ e.done = TRUE
      /\ script' = Append(script, e) /\ script' \in Seq(Entries) /\ Len(script') <= MaxLines
      /\ Wired(script, nodes) /\ Paired(script, nodes, nfd) /\ Distinct(nodes)
      /\ phase = "parse" /\ procs = <<>>
  BY <1>1, Reading
<1>3. /\ script \in Seq(Entries) /\ nodes \in Seq(Nodes) /\ Listed(script, nodes)
      /\ nfd \in Nat \ {0} /\ \A g \in 1 .. Len(nodes) : Len(nodes[g].pipes) <= PIPE_LIMIT
  BY DEF Inv, Shape
<1>4. nfd' \in Nat \ {0}
  BY <1>1, <1>3
<1>5. CASE phase' = "crashed" /\ UNCHANGED nodes
  BY <1>1, <1>4, <1>5, CrashInv
<1>6. CASE /\ Fits(nodes, i) /\ Fits(half, j)
           /\ nodes' = Attach(half, j, b) /\ UNCHANGED phase
  <2>1. Matches(l, "from", a) /\ Matches(l, "to", b) /\ a \in Ends /\ b \in Ends
        /\ a.fd_out = nfd + 1 /\ b.fd_in = nfd
    <3>1. l.type \in CommNames /\ commToEnum(l.type) = l.type
      BY <1>1 DEF commToEnum, CommNames
    <3>2. l.toTimed \in BOOLEAN /\ l.fromTimed \in BOOLEAN
      BY <1>1, LinesAssumption
    <3>3. WriteEnd(nfd) = nfd + 1 /\ nfd + 1 \in Nat /\ nfd + 1 # 0
      BY <1>3 DEF WriteEnd
    <3>4. a \in Ends /\ b \in Ends
      BY <1>3, <3>1, <3>2, <3>3 DEF Ends
    <3>5. Timed(l, "from") = l.fromTimed /\ Timed(l, "to") = l.toTimed
      BY DEF Timed
    <3>. QED  BY <1>3, <3>1, <3>3, <3>4, <3>5 DEF Matches
  <2>2. i \in 1 .. Len(nodes) /\ nodes[i].name = l.from
    <3>1. i > 0
      BY <1>6 DEF Fits
    <3>2. i \notin 1 .. Len(nodes) => i = 0
      BY <1>3, NodeFound
    <3>3. i \in 1 .. Len(nodes)
      BY <3>1, <3>2
    <3>. QED  BY <1>3, <3>3, NodeFound
  <2>3. j \in 1 .. Len(nodes) /\ nodes[j].name = l.to
    <3>1. j > 0
      BY <1>6 DEF Fits
    <3>2. j \notin 1 .. Len(nodes) => j = 0
      BY <1>3, NodeFound
    <3>3. j \in 1 .. Len(nodes)
      BY <3>1, <3>2
    <3>. QED  BY <1>3, <3>3, NodeFound
  <2>. HIDE DEF e, i, j, a, b
  <2>4. /\ half \in Seq(Nodes) /\ Len(half) = Len(nodes)
    BY <1>3, <2>1, <2>2, AttachIs
  <2>5. /\ \A g \in 1 .. Len(half) : Len(half[g].pipes) <= PIPE_LIMIT
        /\ \A g \in 1 .. Len(nodes) :
              /\ half[g].name = nodes[g].name /\ half[g].value = nodes[g].value
              /\ half[g].rep_strat = nodes[g].rep_strat
              /\ half[g].priority = nodes[g].priority
    BY <1>3, <1>6, <2>1, <2>2, Attached
  <2>6. /\ Wired(script', nodes') /\ Grown(nodes, nodes')
        /\ Writes(script', nodes', i, Len(script) + 1) = nfd + 1
        /\ Reads(script', nodes', j, Len(script) + 1) = nfd
    <3>1. e.line.kind = "link" /\ nodes[i].name = e.line.from /\ nodes[j].name = e.line.to
          /\ Matches(e.line, "from", a) /\ Matches(e.line, "to", b) /\ e.done
      BY <1>1, <1>2, <2>1, <2>2, <2>3
    <3>2. e \in Entries /\ Wired(script, nodes) /\ Distinct(nodes)
      BY <1>2
    <3>3. i \in 1 .. Len(nodes) /\ j \in 1 .. Len(nodes)
      BY <2>2, <2>3
    <3>4. script \in Seq(Entries) /\ nodes \in Seq(Nodes)
      BY <1>3
    <3>. DEFINE ms == Attach(Attach(nodes, i, a), j, b)
    <3>5. /\ Wired(Append(script, e), ms) /\ Grown(nodes, ms)
          /\ Writes(Append(script, e), ms, i, Len(script) + 1) = a.fd_out
          /\ Reads(Append(script, e), ms, j, Len(script) + 1) = b.fd_in
      BY <3>1, <3>2, <3>3, <3>4, WiredLink
    <3>6. nodes' = ms /\ script' = Append(script, e)
      BY <1>2, <1>6
    <3>. HIDE DEF ms
    <3>. QED  BY <2>1, <3>5, <3>6
  <2>. HIDE DEF half
  <2>7. /\ nodes' \in Seq(Nodes) /\ Len(nodes') = Len(half)
    BY <1>6, <2>1, <2>3, <2>4, AttachIs
  <2>8. /\ \A g \in 1 .. Len(nodes') : Len(nodes'[g].pipes) <= PIPE_LIMIT
        /\ \A g \in 1 .. Len(half) :
              /\ nodes'[g].name = half[g].name /\ nodes'[g].value = half[g].value
              /\ nodes'[g].rep_strat = half[g].rep_strat
              /\ nodes'[g].priority = half[g].priority
    <3>1. j \in 1 .. Len(half) /\ Fits(half, j) /\ nodes' = Attach(half, j, b)
      BY <1>6, <2>3, <2>4
    <3>2. \A g \in 1 .. Len(half) : Len(half[g].pipes) <= PIPE_LIMIT
      BY <2>5
    <3>. QED  BY <2>1, <2>4, <3>1, <3>2, Attached
  <2>9. Listed(script, nodes)'
    <3>1. \A g \in 1 .. Len(nodes) :
             /\ nodes'[g].name = nodes[g].name /\ nodes'[g].value = nodes[g].value
             /\ nodes'[g].rep_strat = nodes[g].rep_strat
             /\ nodes'[g].priority = nodes[g].priority
      BY <2>4, <2>5, <2>8
    <3>2. e.line.kind # "decl" /\ Len(nodes') = Len(nodes)
      BY <1>1, <1>2, <2>4, <2>7
    <3>. QED  BY <1>2, <1>3, <3>1, <3>2, ListedKept
  <2>10. Paired(script', nodes', nfd')
    <3>1. Distinct(nodes')
      BY <2>9 DEF Listed
    <3>2. nodes'[i].name = l.from /\ nodes'[j].name = l.to
      BY <2>2, <2>3, <2>6 DEF Grown
    <3>3. i \in 1 .. Len(nodes') /\ j \in 1 .. Len(nodes')
      BY <2>2, <2>3, <2>4, <2>7
    <3>4. /\ \A g \in 1 .. Len(nodes') : nodes'[g].name = l.from =>
                Writes(script', nodes', g, Len(script) + 1) = nfd + 1
          /\ \A g \in 1 .. Len(nodes') : nodes'[g].name = l.to =>
                Reads(script', nodes', g, Len(script) + 1) = nfd
      BY <2>6, <3>1, <3>2, <3>3 DEF Distinct
    <3>5. e.line.kind = "link" /\ e.done /\ "Bench" \notin {e.line.from, e.line.to}
          /\ e.line.from = l.from /\ e.line.to = l.to
      BY <1>1, <1>2
    <3>6. nfd \in Nat
      BY <1>3
    <3>7. Paired(script', nodes', nfd + 2)
      BY <1>2, <1>3, <2>6, <2>7, <3>1, <3>4, <3>5, <3>6, PairedGrows
    <3>. QED  BY <1>1, <3>7
  <2>11. Launched' /\ procs' \in Seq(Processes)
    BY <1>1, <1>2, <1>6, <2>7, NothingLaunched
  <2>12. Shape'
    BY <1>1, <1>2, <1>4, <1>6, <2>7, <2>8, <2>11 DEF Inv, Shape
  <2>13. Linked'
    BY <2>6, <2>10 DEF Linked
  <2>. QED  BY <2>9, <2>11, <2>12, <2>13 DEF Inv
<1>. QED  BY <1>1, <1>5, <1>6

(* A link that is read and not made: pipe() failed, or the type is unknown. *)
LEMMA NotMadeInv ==
  ASSUME Inv, NEW l \in Lines, l.kind = "link", ReadLine(l, FALSE),
         phase' \in {"parse", "launch"}, faults' \in 0 .. MaxFaults,
         UNCHANGED <<nodes, nfd, procs>>
  PROVE  Inv'
<1>. DEFINE e == [line |-> l, done |-> FALSE]
<1>1. /\ e \in Entries /\ e.line = l /\ e.done = FALSE
      /\ script' = Append(script, e) /\ script' \in Seq(Entries) /\ Len(script') <= MaxLines
      /\ Wired(script, nodes) /\ Paired(script, nodes, nfd) /\ Distinct(nodes)
      /\ phase = "parse" /\ procs = <<>>
  BY Reading
<1>2. script \in Seq(Entries) /\ nodes \in Seq(Nodes) /\ Listed(script, nodes)
  BY DEF Inv, Shape
<1>. HIDE DEF e
<1>3. e.line.kind # "decl" /\ ~e.done
  BY <1>1
<1>4. Listed(script', nodes)
  BY <1>1, <1>2, <1>3, ListedKept
<1>5. Wired(script', nodes) /\ Grown(nodes, nodes)
  BY <1>1, <1>2, <1>3, WiredKept
<1>6. Paired(script', nodes, nfd)
  BY <1>1, <1>2, <1>3, <1>5, PairedKept
<1>7. Launched' /\ procs' \in Seq(Processes)
  BY <1>1, <1>2, NothingLaunched
<1>8. Shape'
  BY <1>1, <1>7 DEF Inv, Shape
<1>9. Linked'
  BY <1>5, <1>6 DEF Linked
<1>. QED  BY <1>4, <1>7, <1>8, <1>9 DEF Inv

(* A call that fails is counted. *)
LEMMA FaultCounted ==
  ASSUME Inv, Fault
  PROVE  faults' \in 0 .. MaxFaults
BY BoundAssumption DEF Fault, Inv, Shape

(* The phase alone moves on. *)
LEMMA PhaseInv ==
  ASSUME Inv, UNCHANGED <<script, nodes, nfd, procs>>, faults' \in 0 .. MaxFaults,
         phase # "crashed", phase' \in {"launch", "cut", "crashed", "done"},
         phase' = "done" => Len(procs) = Len(nodes)
  PROVE  Inv'
<1>1. Shape'
  BY DEF Inv, Shape
<1>2. Launched'
  BY DEF Inv, Launched
<1>3. Linked' /\ Listed(script, nodes)'
  BY DEF Inv, Linked
<1>. QED  BY <1>1, <1>2, <1>3 DEF Inv

(* A process is made from the next node. *)
LEMMA LaunchInv ==
  ASSUME Inv, phase = "launch", Len(procs) < Len(nodes), NEW p,
         p \in {Process(Current), [Process(Current) EXCEPT !.status = "lost"]},
         procs' = Append(procs, p), faults' \in 0 .. MaxFaults,
         UNCHANGED <<phase, script, nodes, nfd>>
  PROVE  Inv'
<1>1. /\ procs \in Seq(Processes) /\ nodes \in Seq(Nodes)
      /\ Len(procs) \in Nat /\ Len(nodes) \in Nat
  BY LenProperties DEF Inv, Shape
<1>2. Len(procs) + 1 \in 1 .. Len(nodes) /\ Current \in Nodes
  BY <1>1, ElementOfSeq DEF Current
<1>3. p \in Processes
  BY <1>2 DEF Processes
<1>4. /\ procs' \in Seq(Processes) /\ Len(procs') = Len(procs) + 1
      /\ procs'[Len(procs) + 1] = p /\ \A i \in 1 .. Len(procs) : procs'[i] = procs[i]
  BY <1>1, <1>3, AppendProperties
<1>5. Shape'
  BY <1>4 DEF Inv, Shape
<1>6. \A i \in 1 .. Len(procs') :
         procs'[i] \in {Process(nodes[i]), [Process(nodes[i]) EXCEPT !.status = "lost"]}
  <2>. TAKE i \in 1 .. Len(procs')
  <2>1. CASE i \in 1 .. Len(procs)
    BY <1>4, <2>1 DEF Inv, Launched
  <2>2. CASE i = Len(procs) + 1
    BY <1>4, <2>2 DEF Current
  <2>. QED  BY <1>1, <1>4, <2>1, <2>2
<1>7. Launched'
  BY <1>1, <1>2, <1>4, <1>6 DEF Launched
<1>8. Linked' /\ Listed(script, nodes)'
  BY DEF Inv, Linked
<1>. QED  BY <1>5, <1>7, <1>8 DEF Inv

(* The invariant holds at the start. *)
LEMMA InitInv ==
  ASSUME Init
  PROVE  Inv
<1>1. /\ phase = "parse" /\ script = <<>> /\ nodes = <<>> /\ procs = <<>>
      /\ nfd = 11 /\ faults = 0
  BY DEF Init
<1>2. Len(<<>>) = 0 /\ <<>> \in Seq(Entries) /\ <<>> \in Seq(Nodes) /\ <<>> \in Seq(Processes)
  OBVIOUS
<1>3. 1 .. Len(<<>>) = {}
  BY <1>2
<1>4. Shape
  BY <1>1, <1>2, <1>3, BoundAssumption DEF Shape
<1>5. Listed(script, nodes)
  BY <1>1, <1>3 DEF Listed, Distinct
<1>6. Launched
  BY <1>1, <1>2, <1>3 DEF Launched
<1>7. Made(script) = {}
  BY <1>1, <1>3 DEF Made
<1>8. Linked
  BY <1>1, <1>3, <1>7 DEF Linked, Wired, Paired
<1>. QED  BY <1>4, <1>5, <1>6, <1>8 DEF Inv

(* Every step keeps it. *)
LEMMA NextInv ==
  ASSUME Inv, [Next]_vars
  PROVE  Inv'
<1>1. ASSUME NEW l \in Lines, Declare(l) PROVE Inv'
  BY <1>1, DeclareInv
<1>2. ASSUME NEW l \in Lines, LinkBench(l) PROVE Inv'
  BY <1>2, LinkBenchInv
<1>3. ASSUME NEW l \in Lines, LinkNodes(l) PROVE Inv'
  BY <1>3, LinkNodesInv
<1>4. ASSUME NEW l \in Lines, PipeFails(l) PROVE Inv'
  <2>1. phase' \in {"parse", "launch"}
    BY <1>4 DEF PipeFails, ReadLine
  <2>2. faults' \in 0 .. MaxFaults
    BY <1>4, FaultCounted DEF PipeFails
  <2>. QED  BY <1>4, <2>1, <2>2, NotMadeInv DEF PipeFails
<1>5. ASSUME NEW l \in Lines, CommError(l) PROVE Inv'
  <2>1. faults' \in 0 .. MaxFaults
    BY <1>5 DEF CommError, Inv, Shape
  <2>. QED  BY <1>5, <2>1, NotMadeInv DEF CommError
<1>6. CASE EndOfParse
  <2>1. faults' \in 0 .. MaxFaults
    BY <1>6 DEF EndOfParse, Inv, Shape
  <2>. QED  BY <1>6, <2>1, PhaseInv DEF EndOfParse
<1>7. CASE ReadUninitialized
  <2>1. faults' \in 0 .. MaxFaults
    BY <1>7 DEF ReadUninitialized, Inv, Shape
  <2>. QED  BY <1>7, <2>1, PhaseInv DEF ReadUninitialized
<1>8. CASE launch_node
  <2>1. faults' \in 0 .. MaxFaults
    BY <1>8 DEF launch_node, Inv, Shape
  <2>. QED  BY <1>8, <2>1, LaunchInv DEF launch_node
<1>9. CASE ExecFails
  <2>1. faults' \in 0 .. MaxFaults
    BY <1>9, FaultCounted DEF ExecFails
  <2>. QED  BY <1>9, <2>1, LaunchInv DEF ExecFails
<1>10. CASE ForkFails
  <2>1. faults' \in 0 .. MaxFaults
    BY <1>10, FaultCounted DEF ForkFails
  <2>. QED  BY <1>10, <2>1, PhaseInv DEF ForkFails
<1>11. CASE EndOfList
  <2>1. faults' \in 0 .. MaxFaults
    BY <1>11 DEF EndOfList, Inv, Shape
  <2>. QED  BY <1>11, <2>1, PhaseInv DEF EndOfList
<1>12. CASE UNCHANGED vars
  BY <1>12 DEF vars, Inv, Shape, Launched, Linked
<1>. QED  BY <1>1, <1>2, <1>3, <1>4, <1>5, <1>6, <1>7, <1>8, <1>9, <1>10, <1>11, <1>12 DEF Next

(* It is an invariant. *)
LEMMA Invariance == Spec => []Inv
BY InitInv, NextInv, PTL DEF Spec

-----------------------------------------------------------------------------
(***************************************************************************)
(* What a process makes of its arguments.                                  *)
(***************************************************************************)

(* A set of places that is not empty has a last one. *)
LEMMA LastPlace ==
  ASSUME NEW n \in Nat, NEW T \in SUBSET (1 .. n), T # {}
  PROVE  \E i \in T : \A j \in T : i >= j
<1>. DEFINE U == {n - i : i \in T}
<1>1. U \in SUBSET Nat /\ U # {}
  <2>1. \A i \in T : i \in 1 .. n
    OBVIOUS
  <2>2. \A i \in T : n - i \in Nat
    BY <2>1
  <2>3. PICK i \in T : TRUE
    OBVIOUS
  <2>. QED  BY <2>2, <2>3
<1>2. PICK x \in U : \A y \in U : ~(<<y, x>> \in OpToRel(<, Nat))
  <2>. HIDE DEF U
  <2>. QED  BY <1>1, WFMin, NatLessThanWellFounded
<1>3. PICK i \in T : x = n - i
  OBVIOUS
<1>4. ASSUME NEW j \in T PROVE i >= j
  <2>1. n - j \in U /\ n - j \in Nat /\ x \in Nat
    BY <1>1
  <2>. HIDE DEF U
  <2>2. ~(n - j < x)
    BY <1>2, <2>1 DEF OpToRel
  <2>. QED  BY <1>3, <2>2
<1>. QED  BY <1>4

TimedAt(ps, in) == {i \in 1 .. Len(ps) : ps[i].timed /\ (ps[i].fd_in # 0) = in}

(* The index VoterD keeps is that of the last timed pipe of its direction. *)
LEMMA LastTimedIs ==
  ASSUME NEW ps, DOMAIN ps = 1 .. Len(ps), Len(ps) \in Nat, NEW in
  PROVE  /\ TimedAt(ps, in) = {} => LastTimed(ps, in) = 0
         /\ TimedAt(ps, in) # {} => \E i \in TimedAt(ps, in) :
               LastTimed(ps, in) = i - 1 /\ \A j \in TimedAt(ps, in) : i >= j
<1>. DEFINE T == TimedAt(ps, in)
<1>1. LastTimed(ps, in) =
        IF T = {} THEN 0 ELSE (CHOOSE i \in T : \A j \in T : i >= j) - 1
  BY DEF LastTimed, TimedAt
<1>2. T \in SUBSET (1 .. Len(ps))
  BY DEF TimedAt
<1>. HIDE DEF T
<1>3. ASSUME T # {}
      PROVE  \E i \in T : LastTimed(ps, in) = i - 1 /\ \A j \in T : i >= j
  <2>1. \E i \in T : \A j \in T : i >= j
    BY <1>2, <1>3, LastPlace
  <2>. QED  BY <1>1, <1>3, <2>1
<1>. QED  BY <1>1, <1>3 DEF T

(* What is written to argv is read from it. *)
LEMMA ProcessIs ==
  ASSUME NEW n \in Nodes,
         \A k \in 1 .. Len(n.pipes) : n.pipes[k].fd_in = 0 \/ n.pipes[k].fd_out = 0,
         NEW p \in {Process(n), [Process(n) EXCEPT !.status = "lost"]}
  PROVE  /\ p.name = n.name /\ p.controller = n.value /\ p.rep = n.rep_strat
         /\ p.priority = n.priority /\ Len(p.pipes) = Len(n.pipes)
         /\ \A k \in 1 .. Len(n.pipes) :
               /\ p.pipes[k].type = n.pipes[k].type
               /\ p.pipes[k].fd_in = n.pipes[k].fd_in /\ p.pipes[k].fd_out = n.pipes[k].fd_out
         /\ n.rep_strat # "NONE" =>
               /\ p.voting_timeout = voting_timeout(n.voter_timer)
               /\ p.timer_start_index = LastTimed(n.pipes, TRUE)
               /\ p.timer_stop_index = LastTimed(n.pipes, FALSE)
<1>1. /\ n.pipes \in Seq(Ends) /\ n.rep_strat \in RepTypes
  BY DEF Nodes
<1>2. /\ Len(n.pipes) \in Nat /\ DOMAIN n.pipes = 1 .. Len(n.pipes)
      /\ \A k \in 1 .. Len(n.pipes) : n.pipes[k] \in Ends
  BY <1>1, LenProperties, ElementOfSeq
<1>3. \A k \in 1 .. Len(n.pipes) :
         /\ n.pipes[k].type \in CommNames
         /\ commToEnum(n.pipes[k].type) = n.pipes[k].type
  BY <1>2 DEF Ends, CommNames, commToEnum
<1>4. \A k \in 1 .. Len(n.pipes) :
         LET text == serializePipe(n.pipes[k])
         IN  text.type = n.pipes[k].type /\ text.in = n.pipes[k].fd_in
             /\ text.out = n.pipes[k].fd_out
  <2>. TAKE k \in 1 .. Len(n.pipes)
  <2>1. CASE n.pipes[k].fd_in = 0
    BY <2>1 DEF serializePipe
  <2>2. CASE n.pipes[k].fd_in # 0
    BY <2>2 DEF serializePipe
  <2>. QED  BY <2>1, <2>2
<1>5. CASE n.rep_strat = "NONE"
  <2>. DEFINE q == LoggerArgs(n)
              ps == [k \in 1 .. Len(n.pipes) |-> deserializePipe(argv(n)[k])]
  <2>1. p \in {q, [q EXCEPT !.status = "lost"]}
    BY <1>5 DEF Process
  <2>2. /\ q.name = n.name /\ q.controller = n.value /\ q.rep = "NONE"
        /\ q.priority = n.priority /\ q.pipes = ps
    BY <1>2 DEF LoggerArgs
  <2>3. /\ p.name = q.name /\ p.controller = q.controller /\ p.rep = q.rep
        /\ p.priority = q.priority /\ p.pipes = q.pipes
    BY <2>1 DEF LoggerArgs
  <2>4. \A k \in 1 .. Len(n.pipes) : argv(n)[k] = serializePipe(n.pipes[k])
    BY <1>2, <1>5 DEF argv
  <2>5. \A k \in 1 .. Len(n.pipes) :
           /\ ps[k].type = n.pipes[k].type
           /\ ps[k].fd_in = n.pipes[k].fd_in /\ ps[k].fd_out = n.pipes[k].fd_out
    BY <1>3, <1>4, <2>4 DEF deserializePipe
  <2>6. Len(ps) = Len(n.pipes)
    BY <1>2
  <2>. HIDE DEF q, ps
  <2>. QED  BY <1>5, <2>2, <2>3, <2>5, <2>6
<1>6. CASE n.rep_strat # "NONE"
  <2>. DEFINE q == VoterArgs(n)
              ps == [k \in 1 .. Len(n.pipes) |-> parsePipe(argv(n)[k])]
  <2>1. p \in {q, [q EXCEPT !.status = "lost"]}
    BY <1>6 DEF Process
  <2>2. /\ q.name = n.name /\ q.controller = n.value /\ q.rep = reptypeToEnum(n.rep_strat)
        /\ q.priority = n.priority /\ q.pipes = ps
        /\ q.voting_timeout = voting_timeout(n.voter_timer)
        /\ q.timer_start_index = LastTimed(ps, TRUE)
        /\ q.timer_stop_index = LastTimed(ps, FALSE)
    BY <1>2 DEF VoterArgs
  <2>3. /\ p.name = q.name /\ p.controller = q.controller /\ p.rep = q.rep
        /\ p.priority = q.priority /\ p.pipes = q.pipes
        /\ p.voting_timeout = q.voting_timeout
        /\ p.timer_start_index = q.timer_start_index
        /\ p.timer_stop_index = q.timer_stop_index
    BY <2>1 DEF VoterArgs
  <2>4. \A k \in 1 .. Len(n.pipes) :
           argv(n)[k] = [type |-> serializePipe(n.pipes[k]).type,
                         in |-> serializePipe(n.pipes[k]).in,
                         out |-> serializePipe(n.pipes[k]).out, timed |-> n.pipes[k].timed]
    BY <1>2, <1>6 DEF argv
  <2>5. \A k \in 1 .. Len(n.pipes) :
           /\ ps[k].type = n.pipes[k].type /\ ps[k].timed = n.pipes[k].timed
           /\ ps[k].fd_in = n.pipes[k].fd_in /\ ps[k].fd_out = n.pipes[k].fd_out
    <3>. TAKE k \in 1 .. Len(n.pipes)
    <3>1. ps[k] = [type |-> argv(n)[k].type, fd_in |-> argv(n)[k].in,
                   fd_out |-> argv(n)[k].out, timed |-> argv(n)[k].timed]
      BY DEF parsePipe
    <3>2. argv(n)[k] = [type |-> serializePipe(n.pipes[k]).type,
                        in |-> serializePipe(n.pipes[k]).in,
                        out |-> serializePipe(n.pipes[k]).out, timed |-> n.pipes[k].timed]
      BY <2>4
    <3>3. /\ argv(n)[k].type = n.pipes[k].type /\ argv(n)[k].in = n.pipes[k].fd_in
          /\ argv(n)[k].out = n.pipes[k].fd_out /\ argv(n)[k].timed = n.pipes[k].timed
      BY <1>4, <3>2
    <3>. HIDE DEF ps
    <3>. QED  BY <3>1, <3>2, <3>3
  <2>6. Len(ps) = Len(n.pipes) /\ DOMAIN ps = DOMAIN n.pipes
    BY <1>2
  <2>. HIDE DEF q, ps
  <2>7. \A in : LastTimed(ps, in) = LastTimed(n.pipes, in)
    <3>. TAKE in
    <3>. DEFINE A == {i \in DOMAIN ps : ps[i].timed /\ (ps[i].fd_in # 0) = in}
                B == {i \in DOMAIN n.pipes : n.pipes[i].timed /\ (n.pipes[i].fd_in # 0) = in}
    <3>1. A = B
      BY <1>2, <2>5, <2>6
    <3>2. LastTimed(ps, in) = IF A = {} THEN 0 ELSE (CHOOSE i \in A : \A j \in A : i >= j) - 1
      BY DEF LastTimed
    <3>3. LastTimed(n.pipes, in) =
             IF B = {} THEN 0 ELSE (CHOOSE i \in B : \A j \in B : i >= j) - 1
      BY DEF LastTimed
    <3>. HIDE DEF A, B
    <3>. QED  BY <3>1, <3>2, <3>3
  <2>8. reptypeToEnum(n.rep_strat) = n.rep_strat
    BY <1>1 DEF reptypeToEnum
  <2>. QED  BY <2>2, <2>3, <2>5, <2>6, <2>7, <2>8
<1>. QED  BY <1>5, <1>6

-----------------------------------------------------------------------------
(***************************************************************************)
(* The theorems.                                                           *)
(***************************************************************************)

(* The operators of the properties are those above, for the script as it is. *)
LEMMA OfScript ==
  ASSUME script \in Seq(Entries)
  PROVE  /\ DOMAIN script = 1 .. Len(script)
         /\ \A name : Mentions(name) = MentionsIn(script, name)
         /\ \A name, m : Place(name, m) = PlaceIn(script, name, m)
         /\ \A d, name : Declares(d, name) <=> DeclaresIn(script, d, name)
<1>1. DOMAIN script = 1 .. Len(script)
  BY LenProperties
<1>2. ASSUME NEW name PROVE Mentions(name) = MentionsIn(script, name)
  BY <1>1 DEF Mentions, MentionsIn, Links, Sides
<1>3. ASSUME NEW name, NEW m PROVE Place(name, m) = PlaceIn(script, name, m)
  BY <1>2 DEF Place, PlaceIn, UpTo
<1>4. ASSUME NEW d, NEW name PROVE Declares(d, name) <=> DeclaresIn(script, d, name)
  BY DEF Declares, DeclaresIn
<1>. QED  BY <1>1, <1>2, <1>3, <1>4

(* A process that was launched, and its node. *)
LEMMA Running ==
  ASSUME Inv, NEW i \in 1 .. Len(procs)
  PROVE  /\ i \in 1 .. Len(nodes) /\ nodes[i] \in Nodes
         /\ nodes[i].pipes \in Seq(Ends) /\ Len(nodes[i].pipes) \in Nat
         /\ Len(nodes[i].pipes) <= PIPE_LIMIT
         /\ EndsAs(script, nodes[i].name, nodes[i].pipes)
         /\ procs[i].name = nodes[i].name /\ procs[i].controller = nodes[i].value
         /\ procs[i].rep = nodes[i].rep_strat /\ procs[i].priority = nodes[i].priority
         /\ Len(procs[i].pipes) = Len(nodes[i].pipes)
         /\ \A k \in 1 .. Len(nodes[i].pipes) :
               /\ procs[i].pipes[k].type = nodes[i].pipes[k].type
               /\ procs[i].pipes[k].fd_in = nodes[i].pipes[k].fd_in
               /\ procs[i].pipes[k].fd_out = nodes[i].pipes[k].fd_out
         /\ nodes[i].rep_strat # "NONE" =>
               /\ procs[i].voting_timeout = voting_timeout(nodes[i].voter_timer)
               /\ procs[i].timer_start_index = LastTimed(nodes[i].pipes, TRUE)
               /\ procs[i].timer_stop_index = LastTimed(nodes[i].pipes, FALSE)
<1>1. /\ script \in Seq(Entries) /\ nodes \in Seq(Nodes) /\ procs \in Seq(Processes)
      /\ Len(procs) <= Len(nodes) /\ Len(procs) \in Nat /\ Len(nodes) \in Nat
  BY LenProperties DEF Inv, Shape, Launched
<1>2. i \in 1 .. Len(nodes) /\ Len(nodes[i].pipes) <= PIPE_LIMIT
  BY <1>1 DEF Inv, Shape
<1>3. nodes[i] \in Nodes /\ nodes[i].pipes \in Seq(Ends) /\ Len(nodes[i].pipes) \in Nat
  BY <1>1, <1>2, NotBench
<1>4. procs # <<>>
  <2>1. procs = <<>> => Len(procs) = 0
    OBVIOUS
  <2>. QED  BY <1>1, <2>1
<1>5. EndsAs(script, nodes[i].name, nodes[i].pipes)
  BY <1>2, <1>4 DEF Inv, Linked, Wired
<1>6. \A k \in 1 .. Len(nodes[i].pipes) :
         nodes[i].pipes[k].fd_in = 0 \/ nodes[i].pipes[k].fd_out = 0
  <2>. TAKE k \in 1 .. Len(nodes[i].pipes)
  <2>1. PICK m \in MentionsIn(script, nodes[i].name) : PlaceIn(script, nodes[i].name, m) = k
    BY <1>5 DEF EndsAs
  <2>2. Matches(script[m[1]].line, m[2], nodes[i].pipes[k])
    BY <1>5, <2>1 DEF EndsAs
  <2>3. m[2] = "from" \/ m[2] = "to"
    BY DEF MentionsIn, Sides
  <2>. QED  BY <2>2, <2>3 DEF Matches
<1>7. procs[i] \in {Process(nodes[i]), [Process(nodes[i]) EXCEPT !.status = "lost"]}
  BY DEF Inv, Launched
<1>. DEFINE n == nodes[i]
            p == procs[i]
<1>8. n \in Nodes /\ \A k \in 1 .. Len(n.pipes) : n.pipes[k].fd_in = 0 \/ n.pipes[k].fd_out = 0
  BY <1>3, <1>6
<1>9. p \in {Process(n), [Process(n) EXCEPT !.status = "lost"]}
  BY <1>7
<1>. HIDE DEF n, p
<1>10. /\ p.name = n.name /\ p.controller = n.value /\ p.rep = n.rep_strat
       /\ p.priority = n.priority /\ Len(p.pipes) = Len(n.pipes)
       /\ \A k \in 1 .. Len(n.pipes) :
             /\ p.pipes[k].type = n.pipes[k].type
             /\ p.pipes[k].fd_in = n.pipes[k].fd_in /\ p.pipes[k].fd_out = n.pipes[k].fd_out
       /\ n.rep_strat # "NONE" =>
             /\ p.voting_timeout = voting_timeout(n.voter_timer)
             /\ p.timer_start_index = LastTimed(n.pipes, TRUE)
             /\ p.timer_stop_index = LastTimed(n.pipes, FALSE)
  BY <1>8, <1>9, ProcessIs
<1>. QED  BY <1>2, <1>3, <1>5, <1>10 DEF n, p

(***************************************************************************)
(* No node gets more ends than it has room for, and no voter starts with a *)
(* timeout of zero or with its timer on a pipe that it does not have,      *)
(* whatever the script is (plumbing.c, parseArgs of voterd.c).             *)
(***************************************************************************)
THEOREM PlumberTypes == Spec => []TypeOK
<1>1. ASSUME Inv PROVE TypeOK
  <2>1. /\ DOMAIN nodes = 1 .. Len(nodes) /\ DOMAIN procs = 1 .. Len(procs)
    BY <1>1, LenProperties DEF Inv, Shape
  <2>2. ASSUME NEW i \in 1 .. Len(procs), procs[i].rep # "NONE"
        PROVE  /\ procs[i].voting_timeout \in Int \ {0}
               /\ procs[i].timer_start_index \in 0 .. PIPE_LIMIT - 1
               /\ procs[i].timer_stop_index \in 0 .. PIPE_LIMIT - 1
    <3>1. /\ nodes[i] \in Nodes /\ nodes[i].pipes \in Seq(Ends)
          /\ Len(nodes[i].pipes) \in Nat /\ Len(nodes[i].pipes) <= PIPE_LIMIT
          /\ procs[i].voting_timeout = voting_timeout(nodes[i].voter_timer)
          /\ procs[i].timer_start_index = LastTimed(nodes[i].pipes, TRUE)
          /\ procs[i].timer_stop_index = LastTimed(nodes[i].pipes, FALSE)
      BY <1>1, <2>2, Running
    <3>2. nodes[i].voter_timer \in Int
      BY <3>1 DEF Nodes
    <3>3. voting_timeout(nodes[i].voter_timer) \in Int \ {0}
      BY <3>2, PeriodAssumption DEF voting_timeout
    <3>4. ASSUME NEW in PROVE LastTimed(nodes[i].pipes, in) \in 0 .. PIPE_LIMIT - 1
      <4>. DEFINE ps == nodes[i].pipes
      <4>1. DOMAIN ps = 1 .. Len(ps) /\ Len(ps) \in Nat /\ Len(ps) <= PIPE_LIMIT
        BY <3>1, LenProperties
      <4>. HIDE DEF ps
      <4>2. LastTimed(ps, in) \in 0 .. PIPE_LIMIT - 1
        <5>1. CASE TimedAt(ps, in) = {}
          BY <4>1, <5>1, LastTimedIs, LimitAssumption
        <5>2. CASE TimedAt(ps, in) # {}
          <6>1. PICK k \in TimedAt(ps, in) : LastTimed(ps, in) = k - 1
            BY <4>1, <5>2, LastTimedIs
          <6>2. k \in 1 .. Len(ps)
            BY DEF TimedAt
          <6>. QED  BY <4>1, <6>1, <6>2, LimitAssumption
        <5>. QED  BY <5>1, <5>2
      <4>. QED  BY <4>2 DEF ps
    <3>. QED  BY <3>1, <3>3, <3>4
  <2>. QED  BY <1>1, <2>1, <2>2 DEF Inv, Shape, TypeOK
<1>. QED  BY <1>1, Invariance, PTL

(***************************************************************************)
(* Every component of a script is launched once and in order (launch_node),*)
(* whatever is declared twice, linked wrongly or fails.                    *)
(***************************************************************************)
THEOREM EachLaunchedOnce == Spec => []LaunchedOnce
<1>1. ASSUME Inv PROVE LaunchedOnce
  <2>1. /\ script \in Seq(Entries) /\ procs \in Seq(Processes) /\ Listed(script, nodes)
        /\ nodes \in Seq(Nodes)
    BY <1>1 DEF Inv, Shape
  <2>2. /\ DOMAIN script = 1 .. Len(script) /\ DOMAIN procs = 1 .. Len(procs)
    BY <2>1, LenProperties
  <2>3. \A d, name : Declares(d, name) <=> DeclaresIn(script, d, name)
    BY <2>1, OfScript
  <2>4. \A i \in 1 .. Len(procs) : i \in 1 .. Len(nodes) /\ procs[i].name = nodes[i].name
    BY <1>1, Running
  <2>5. \A i, j \in 1 .. Len(procs) : i # j => procs[i].name # procs[j].name
    <3>1. Distinct(nodes)
      BY <2>1 DEF Listed
    <3>. QED  BY <2>4, <3>1 DEF Distinct
  <2>6. \A i, j \in 1 .. Len(procs) : \A d, e \in 1 .. Len(script) :
           i < j /\ Declares(d, procs[i].name) /\ Declares(e, procs[j].name) => d < e
    <3>. SUFFICES ASSUME NEW i \in 1 .. Len(procs), NEW j \in 1 .. Len(procs),
                         NEW d \in 1 .. Len(script), NEW e \in 1 .. Len(script), i < j,
                         Declares(d, procs[i].name), Declares(e, procs[j].name)
                  PROVE  d < e
      OBVIOUS
    <3>1. DeclaresIn(script, d, nodes[i].name) /\ DeclaresIn(script, e, nodes[j].name)
      BY <2>3, <2>4
    <3>. QED  BY <2>1, <2>4, <3>1 DEF Listed
  <2>7. phase = "done" => \A d \in 1 .. Len(script) : script[d].line.kind = "decl" =>
           \E i \in 1 .. Len(procs) : procs[i].name = script[d].line.name
    <3>1. phase = "done" => Len(procs) = Len(nodes)
      BY <1>1 DEF Inv, Launched
    <3>2. \A d \in 1 .. Len(script) : script[d].line.kind = "decl" =>
             \E i \in 1 .. Len(nodes) : nodes[i].name = script[d].line.name
      BY <2>1 DEF Listed
    <3>. QED  BY <2>4, <3>1, <3>2
  <2>. QED  BY <2>2, <2>5, <2>6, <2>7 DEF LaunchedOnce
<1>. QED  BY <1>1, Invariance, PTL

(***************************************************************************)
(* What one end of a link writes, the other end of that line reads, and no *)
(* pipe is given to two links: every script that does not crash the        *)
(* plumber is connected as it is written (link_node).                      *)
(***************************************************************************)
THEOREM LinksConnected == Spec => []Connected
<1>1. ASSUME Inv PROVE Connected
  <2>. SUFFICES ASSUME phase # "crashed"
                PROVE  /\ \A k \in Made(script) :
                             End(<<k, "from">>).fd_out = End(<<k, "to">>).fd_in + 1
                       /\ \A k, l \in Made(script) : k # l =>
                             End(<<k, "to">>).fd_in # End(<<l, "to">>).fd_in
    <3>1. DOMAIN script = 1 .. Len(script)
      BY <1>1, LenProperties DEF Inv, Shape
    <3>. QED  BY <3>1 DEF Connected, Made
  <2>1. /\ script \in Seq(Entries) /\ nodes \in Seq(Nodes) /\ Listed(script, nodes)
        /\ Wired(script, nodes) /\ Paired(script, nodes, nfd)
    BY <1>1 DEF Inv, Shape, Linked
  <2>2. ASSUME NEW k \in Made(script), NEW side \in Sides
        PROVE  \E i \in 1 .. Len(nodes) :
                  /\ nodes[i].name = Side(script[k].line, side)
                  /\ End(<<k, side>>) =
                        nodes[i].pipes[PlaceIn(script, nodes[i].name, <<k, side>>)]
    <3>1. /\ k \in 1 .. Len(script) /\ script[k].line.kind = "link" /\ script[k].done
          /\ Side(script[k].line, side) # "Bench"
      BY DEF Made, Side, Sides
    <3>2. PICK i \in 1 .. Len(nodes) : nodes[i].name = Side(script[k].line, side)
      BY <2>1, <3>1 DEF Wired
    <3>3. get_node(Side(script[k].line, side)) = i
      BY <2>1, <3>2, NodeFound
    <3>4. \A name, m : Place(name, m) = PlaceIn(script, name, m)
      BY <2>1, OfScript
    <3>5. End(<<k, side>>) = nodes[get_node(Side(script[k].line, side))].pipes[
                                Place(Side(script[k].line, side), <<k, side>>)]
      BY DEF End
    <3>. QED  BY <3>2, <3>3, <3>4, <3>5
  <2>3. ASSUME NEW k \in Made(script)
        PROVE  /\ \E i \in 1 .. Len(nodes) :
                     /\ nodes[i].name = script[k].line.from
                     /\ End(<<k, "from">>).fd_out = Writes(script, nodes, i, k)
               /\ \E i \in 1 .. Len(nodes) :
                     /\ nodes[i].name = script[k].line.to
                     /\ End(<<k, "to">>).fd_in = Reads(script, nodes, i, k)
    <3>1. "from" \in Sides /\ "to" \in Sides
          /\ Side(script[k].line, "from") = script[k].line.from
          /\ Side(script[k].line, "to") = script[k].line.to
      BY DEF Sides, Side
    <3>2. PICK i \in 1 .. Len(nodes) :
             /\ nodes[i].name = script[k].line.from
             /\ End(<<k, "from">>) = nodes[i].pipes[PlaceIn(script, nodes[i].name, <<k, "from">>)]
      BY <2>2, <3>1
    <3>3. PICK j \in 1 .. Len(nodes) :
             /\ nodes[j].name = script[k].line.to
             /\ End(<<k, "to">>) = nodes[j].pipes[PlaceIn(script, nodes[j].name, <<k, "to">>)]
      BY <2>2, <3>1
    <3>. QED  BY <3>2, <3>3 DEF Writes, Reads
  <2>4. ASSUME NEW k \in Made(script)
        PROVE  End(<<k, "from">>).fd_out = End(<<k, "to">>).fd_in + 1
    BY <2>1, <2>3 DEF Paired
  <2>5. ASSUME NEW k \in Made(script), NEW l \in Made(script), k # l
        PROVE  End(<<k, "to">>).fd_in # End(<<l, "to">>).fd_in
    <3>1. PICK i \in 1 .. Len(nodes) : nodes[i].name = script[k].line.from
      BY <2>3
    <3>2. PICK j \in 1 .. Len(nodes) : /\ nodes[j].name = script[k].line.to
                                       /\ End(<<k, "to">>).fd_in = Reads(script, nodes, j, k)
      BY <2>3
    <3>3. PICK h \in 1 .. Len(nodes) : /\ nodes[h].name = script[l].line.to
                                       /\ End(<<l, "to">>).fd_in = Reads(script, nodes, h, l)
      BY <2>3
    <3>4. Reads(script, nodes, j, k) # Reads(script, nodes, h, l)
      BY <2>1, <2>5, <3>1, <3>2, <3>3 DEF Paired
    <3>. QED  BY <3>2, <3>3, <3>4
  <2>. QED  BY <2>4, <2>5
<1>. QED  BY <1>1, Invariance, PTL

(***************************************************************************)
(* A process has the controller, the replication and the ends that the     *)
(* script gives its component, in the order of the script, after their way *)
(* through the text of argv (launch_node, parseArgs).                      *)
(***************************************************************************)
THEOREM AsWritten == Spec => []LaunchedAsWritten
<1>1. ASSUME Inv PROVE LaunchedAsWritten
  <2>1. /\ script \in Seq(Entries) /\ procs \in Seq(Processes) /\ Listed(script, nodes)
    BY <1>1 DEF Inv, Shape
  <2>2. /\ DOMAIN script = 1 .. Len(script) /\ DOMAIN procs = 1 .. Len(procs)
    BY <2>1, LenProperties
  <2>3. /\ \A d, name : Declares(d, name) <=> DeclaresIn(script, d, name)
        /\ \A name : Mentions(name) = MentionsIn(script, name)
        /\ \A name, m : Place(name, m) = PlaceIn(script, name, m)
    BY <2>1, OfScript
  <2>4. ASSUME NEW i \in 1 .. Len(procs)
        PROVE  \E d \in 1 .. Len(script) :
                  /\ Declares(d, procs[i].name)
                  /\ procs[i].controller = script[d].line.value
                  /\ procs[i].rep = script[d].line.rep
                  /\ procs[i].priority = script[d].line.priority
    <3>1. /\ i \in 1 .. Len(nodes) /\ procs[i].name = nodes[i].name
          /\ procs[i].controller = nodes[i].value /\ procs[i].rep = nodes[i].rep_strat
          /\ procs[i].priority = nodes[i].priority
      BY <1>1, Running
    <3>2. PICK d \in 1 .. Len(script) : /\ DeclaresIn(script, d, nodes[i].name)
                                        /\ nodes[i].value = script[d].line.value
                                        /\ nodes[i].rep_strat = script[d].line.rep
                                        /\ nodes[i].priority = script[d].line.priority
      BY <2>1, <3>1 DEF Listed
    <3>. QED  BY <2>3, <3>1, <3>2
  <2>5. ASSUME NEW i \in 1 .. Len(procs)
        PROVE  /\ Len(procs[i].pipes) = Cardinality(Mentions(procs[i].name))
               /\ \A m \in Mentions(procs[i].name) :
                     LET end == procs[i].pipes[Place(procs[i].name, m)] IN
                     /\ end.type = commToEnum(script[m[1]].line.type)
                     /\ IF m[2] = "from" THEN end.fd_in = 0 /\ end.fd_out # 0
                                         ELSE end.fd_in # 0 /\ end.fd_out = 0
    <3>. DEFINE name == nodes[i].name
                ps == nodes[i].pipes
                qs == procs[i].pipes
    <3>1. /\ EndsAs(script, name, ps) /\ procs[i].name = name /\ Len(qs) = Len(ps)
          /\ \A k \in 1 .. Len(ps) : /\ qs[k].type = ps[k].type
                                      /\ qs[k].fd_in = ps[k].fd_in /\ qs[k].fd_out = ps[k].fd_out
      BY <1>1, Running
    <3>. HIDE DEF name, ps, qs
    <3>2. Len(qs) = Cardinality(Mentions(name))
      BY <2>3, <3>1 DEF EndsAs
    <3>3. ASSUME NEW m \in Mentions(name)
          PROVE  LET end == qs[Place(name, m)] IN
                 /\ end.type = commToEnum(script[m[1]].line.type)
                 /\ IF m[2] = "from" THEN end.fd_in = 0 /\ end.fd_out # 0
                                     ELSE end.fd_in # 0 /\ end.fd_out = 0
      <4>1. m \in MentionsIn(script, name) /\ Place(name, m) = PlaceIn(script, name, m)
        BY <2>3
      <4>2. PlaceIn(script, name, m) \in 1 .. Len(ps)
        BY <2>1, <3>1, <4>1, PlacesRise DEF EndsAs
      <4>3. Matches(script[m[1]].line, m[2], ps[PlaceIn(script, name, m)])
        BY <3>1, <4>1 DEF EndsAs
      <4>4. m[2] = "from" \/ m[2] = "to"
        BY <4>1 DEF MentionsIn, Sides
      <4>5. /\ qs[Place(name, m)].type = ps[PlaceIn(script, name, m)].type
            /\ qs[Place(name, m)].fd_in = ps[PlaceIn(script, name, m)].fd_in
            /\ qs[Place(name, m)].fd_out = ps[PlaceIn(script, name, m)].fd_out
        BY <3>1, <4>1, <4>2
      <4>. QED  BY <4>3, <4>4, <4>5 DEF Matches
    <3>. QED  BY <3>1, <3>2, <3>3 DEF qs
  <2>. QED  BY <2>2, <2>4, <2>5 DEF LaunchedAsWritten
<1>. QED  BY <1>1, Invariance, PTL

(* The mentions of name in the script s that are marked on one side. *)
MarksOf(s, name, side) ==
  {m \in MentionsIn(s, name) : m[2] = side /\ Timed(s[m[1]].line, m[2])}

(* A mark on the same side in a later line. *)
MarkedLater(s, name, side, m) == \E k \in MarksOf(s, name, side) : k[1] > m[1]

(* The voter's index is the place of the mark of the script that comes last on its side. *)
LEMMA LastMark ==
  ASSUME NEW s \in Seq(Entries), NEW name, NEW ps \in Seq(Ends), EndsAs(s, name, ps),
         NEW side, NEW in, (side = "to" /\ in = TRUE) \/ (side = "from" /\ in = FALSE),
         NEW m \in MarksOf(s, name, side)
  PROVE  \/ LastTimed(ps, in) = PlaceIn(s, name, m) - 1
         \/ MarkedLater(s, name, side, m)
<1>0. m \in MentionsIn(s, name) /\ m[2] = side /\ Timed(s[m[1]].line, m[2])
  BY DEF MarksOf
<1>1. DOMAIN ps = 1 .. Len(ps) /\ Len(ps) \in Nat
  BY LenProperties
<1>2. \A k \in MentionsIn(s, name) :
         /\ PlaceIn(s, name, k) \in 1 .. Len(ps)
         /\ Matches(s[k[1]].line, k[2], ps[PlaceIn(s, name, k)])
         /\ k[2] \in Sides /\ k[1] \in Nat
  <2>. TAKE k \in MentionsIn(s, name)
  <2>1. PlaceIn(s, name, k) \in 1 .. Len(ps)
    BY PlacesRise DEF EndsAs
  <2>2. Matches(s[k[1]].line, k[2], ps[PlaceIn(s, name, k)])
    BY DEF EndsAs
  <2>. QED  BY <2>1, <2>2 DEF MentionsIn
<1>3. \A k \in MentionsIn(s, name) :
         PlaceIn(s, name, k) \in TimedAt(ps, in) <=> k[2] = side /\ Timed(s[k[1]].line, k[2])
  <2>. TAKE k \in MentionsIn(s, name)
  <2>. DEFINE end == ps[PlaceIn(s, name, k)]
  <2>1. Matches(s[k[1]].line, k[2], end) /\ PlaceIn(s, name, k) \in 1 .. Len(ps)
    BY <1>2
  <2>. HIDE DEF end
  <2>2. (end.fd_in # 0) <=> (k[2] = "to")
    BY <1>2, <2>1 DEF Matches, Sides
  <2>3. ((end.fd_in # 0) = in) <=> (k[2] = side)
    <3>1. CASE side = "to" /\ in = TRUE
      BY <2>2, <3>1
    <3>2. CASE side = "from" /\ in = FALSE
      BY <1>2, <2>2, <3>2 DEF Sides
    <3>. QED  BY <3>1, <3>2
  <2>4. end.timed = Timed(s[k[1]].line, k[2])
    BY <2>1 DEF Matches
  <2>5. PlaceIn(s, name, k) \in TimedAt(ps, in) <=> end.timed /\ ((end.fd_in # 0) = in)
    BY <2>1 DEF TimedAt, end
  <2>. QED  BY <2>3, <2>4, <2>5
<1>4. PlaceIn(s, name, m) \in TimedAt(ps, in)
  BY <1>0, <1>3
<1>5. PICK i \in TimedAt(ps, in) :
         LastTimed(ps, in) = i - 1 /\ \A j \in TimedAt(ps, in) : i >= j
  BY <1>1, <1>4, LastTimedIs
<1>6. PICK k \in MentionsIn(s, name) : PlaceIn(s, name, k) = i
  <2>1. i \in 1 .. Len(ps)
    BY DEF TimedAt
  <2>. QED  BY <2>1 DEF EndsAs
<1>7. k[2] = side /\ Timed(s[k[1]].line, k[2])
  BY <1>3, <1>6
<1>8. ~(k[1] < m[1])
  <2>1. k[1] < m[1] => PlaceIn(s, name, k) < PlaceIn(s, name, m)
    BY <1>0, PlacesRise
  <2>2. i >= PlaceIn(s, name, m) /\ i \in Nat /\ PlaceIn(s, name, m) \in Nat
    BY <1>0, <1>2, <1>4, <1>5, <1>6
  <2>. QED  BY <1>6, <2>1, <2>2
<1>9. CASE k[1] = m[1]
  <2>1. k = m
    BY <1>0, <1>7, <1>9 DEF MentionsIn
  <2>. QED  BY <1>5, <1>6, <2>1
<1>10. CASE k[1] > m[1]
  BY <1>7, <1>10 DEF MarkedLater, MarksOf
<1>. QED  BY <1>0, <1>2, <1>8, <1>9, <1>10

(***************************************************************************)
(* A voter times from the input to the output that the script puts in      *)
(* parentheses last, for every script (parseArgs of voterd.c).             *)
(***************************************************************************)
THEOREM TimersAsMarked == Spec => []TimedAsMarked
<1>1. ASSUME Inv PROVE TimedAsMarked
  <2>1. script \in Seq(Entries) /\ procs \in Seq(Processes)
    BY <1>1 DEF Inv, Shape
  <2>2. DOMAIN procs = 1 .. Len(procs)
    BY <2>1, LenProperties
  <2>3. /\ \A name : Mentions(name) = MentionsIn(script, name)
        /\ \A name, m : Place(name, m) = PlaceIn(script, name, m)
    BY <2>1, OfScript
  <2>4. ASSUME NEW i \in 1 .. Len(procs), procs[i].rep # "NONE"
        PROVE  LET p == procs[i]
                   marked(side) == {m \in Mentions(p.name) : m[2] = side /\ Marked(m)}
               IN  /\ \A m \in marked("to") : \/ p.timer_start_index = Place(p.name, m) - 1
                                               \/ \E k \in marked("to") : k[1] > m[1]
                   /\ \A m \in marked("from") : \/ p.timer_stop_index = Place(p.name, m) - 1
                                                 \/ \E k \in marked("from") : k[1] > m[1]
    <3>. DEFINE name == nodes[i].name
                ps == nodes[i].pipes
    <3>1. /\ EndsAs(script, name, ps) /\ ps \in Seq(Ends) /\ procs[i].name = name
          /\ procs[i].timer_start_index = LastTimed(ps, TRUE)
          /\ procs[i].timer_stop_index = LastTimed(ps, FALSE)
      BY <1>1, <2>4, Running
    <3>. HIDE DEF name, ps
    <3>2. ASSUME NEW m \in MarksOf(script, name, "to")
          PROVE  \/ LastTimed(ps, TRUE) = PlaceIn(script, name, m) - 1
                 \/ MarkedLater(script, name, "to", m)
      BY <2>1, <3>1, LastMark
    <3>3. ASSUME NEW m \in MarksOf(script, name, "from")
          PROVE  \/ LastTimed(ps, FALSE) = PlaceIn(script, name, m) - 1
                 \/ MarkedLater(script, name, "from", m)
      BY <2>1, <3>1, LastMark
    <3>4. \A side : {m \in Mentions(name) : m[2] = side /\ Marked(m)}
                      = MarksOf(script, name, side)
      BY <2>3 DEF MarksOf, Marked
    <3>. QED  BY <2>3, <3>1, <3>2, <3>3, <3>4 DEF MarkedLater
  <2>. QED  BY <2>2, <2>4 DEF TimedAsMarked
<1>. QED  BY <1>1, Invariance, PTL
=============================================================================
