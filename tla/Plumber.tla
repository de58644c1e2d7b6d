------------------------------ MODULE Plumber ------------------------------
(***************************************************************************)
(* The plumber (plumber/pb.y, plumbing.c): it reads a script that declares *)
(* components and the links between them, makes a pipe for each link, and  *)
(* forks one process per component with its ends of the pipes as text in   *)
(* argv.  The other half of that text is read by VoterD (voterd.c) and, for*)
(* a component that is not replicated, by Logger (logger.c).               *)
(*                                                                         *)
(* A line of the script is a record, as bison hands it to an action:       *)
(*   [kind |-> "decl", name, value, rep, timer, priority]                  *)
(*   [kind |-> "link", from, to, fromTimed, toTimed, type]                 *)
(* with "Bench" as the from or the to of a link.  The timed flags are the  *)
(* parentheses around a name.                                              *)
(***************************************************************************)
EXTENDS Integers, Sequences, FiniteSets

CONSTANTS
    Lines,        \* the lines a script is made of
    MaxLines,     \* bound: the length of a script
    PIPE_LIMIT,
    PIPE_COUNT,   \* Logger's own limit
    PERIOD_USEC,
    MaxFaults     \* bound: calls of pipe, fork and exec that fail

RepTypes == {"NONE", "SMR", "DMR", "TMR"}

ASSUME LimitAssumption == PIPE_LIMIT \in Nat \ {0} /\ PIPE_COUNT \in Nat
ASSUME PeriodAssumption == PERIOD_USEC \in Nat \ {0}
ASSUME BoundAssumption == MaxLines \in Nat /\ MaxFaults \in Nat

(* What pb.l and the rules of pb.y let through: Bench is no name, a number has a sign. *)
ASSUME LinesAssumption ==
    \A l \in Lines :
        /\ l.kind \in {"decl", "link"}
        /\ l.kind = "decl" => l.name # "Bench" /\ l.rep \in RepTypes /\ l.timer \in Int
        /\ l.kind = "link" => l.fromTimed \in BOOLEAN /\ l.toTimed \in BOOLEAN

VARIABLES
    phase,    \* parse, launch, and the ends: done, cut (fork failed), crashed
    script,   \* the lines read: [line, done], done if pipe() succeeded
    nodes,    \* all_nodes
    nfd,      \* the next free descriptor
    procs,    \* the processes forked, as they are after their parseArgs
    faults

vars == <<phase, script, nodes, nfd, procs, faults>>

CommTypes == {"WAY_REQ", "WAY_RES", "MOV_CMD", "RANGE_POSE_DATA", "MAP_UPDATE",
              "COMM_ACK", "MSG_BUFFER"}

commToEnum(name) == IF name \in CommTypes THEN name ELSE "COMM_ERROR"

reptypeToEnum(name) == IF name \in RepTypes THEN name ELSE "REP_TYPE_ERROR"

-----------------------------------------------------------------------------
(***************************************************************************)
(* The text of a pipe: its type, fd_in and fd_out, for a voter also timed. *)
(***************************************************************************)
serializePipeIn(p) == [type |-> p.type, in |-> p.fd_in, out |-> 0]

serializePipe(p) ==
    IF p.fd_in = 0
    THEN [type |-> p.type, in |-> 0, out |-> p.fd_out]
    ELSE [type |-> p.type, in |-> p.fd_in, out |-> 0]

deserializePipe(text) ==
    [type |-> commToEnum(text.type), fd_in |-> text.in, fd_out |-> text.out]

parsePipe(text) ==
    [type |-> text.type, fd_in |-> text.in, fd_out |-> text.out, timed |-> text.timed]

convertTypedToVote(p) == [rep_info |-> p.type, fd_in |-> p.fd_in, fd_out |-> p.fd_out]

convertVoteToTyped(p) ==
    [type |-> commToEnum(p.rep_info), fd_in |-> p.fd_in, fd_out |-> p.fd_out]

(* The replica's side of the pipe fd, fd + 1, made for a parent's pipe ext. *)
createPipe(ext, fd) ==
    IF ext.fd_in # 0
    THEN [rep_info |-> ext.rep_info, fd_in |-> fd, fd_out |-> 0]
    ELSE [rep_info |-> ext.rep_info, fd_in |-> 0, fd_out |-> fd + 1]

(* A pipe from a parent to its child, as the child reads it from argv. *)
Passed(ext, fd) == deserializePipe(serializePipe(convertVoteToTyped(createPipe(ext, fd))))

(***************************************************************************)
(* The translator driver starts the BenchMarker, and it the plumber, each  *)
(* with two pipes of its own; fd 0 to 2 are the standard ones.             *)
(***************************************************************************)
fake_pipes ==
    <<[rep_info |-> "RANGE_POSE_DATA", fd_in |-> 1, fd_out |-> 0],
      [rep_info |-> "MOV_CMD", fd_in |-> 0, fd_out |-> 1]>>
trans_pipes == <<Passed(fake_pipes[1], 3), Passed(fake_pipes[2], 5)>>

data_in == Passed(convertTypedToVote(trans_pipes[1]), 7)
cmd_out == Passed(convertTypedToVote(trans_pipes[2]), 9)

Init ==
    /\ phase = "parse"
    /\ script = <<>> /\ nodes = <<>> /\ procs = <<>>
    /\ nfd = 11
    /\ faults = 0

Fault == faults < MaxFaults /\ faults' = faults + 1

-----------------------------------------------------------------------------
(***************************************************************************)
(* The parser's actions.                                                   *)
(***************************************************************************)

(* The first node of that name, 0 for NULL. *)
get_node(name) ==
    LET Named == {i \in DOMAIN nodes : nodes[i].name = name}
    IN  IF Named = {} THEN 0 ELSE CHOOSE i \in Named : \A j \in Named : i <= j

new_node(l) ==
    [name |-> l.name, value |-> l.value, rep_strat |-> l.rep, voter_timer |-> l.timer,
     priority |-> l.priority, pipes |-> <<>>]

add_nodeAlways(l) == Append(nodes, new_node(l))

(* A component that is there already is kept as it was. *)
add_node(l) == IF get_node(l.name) = 0 THEN Append(nodes, new_node(l)) ELSE nodes

ReadLine(l, done) ==
    /\ phase = "parse" /\ Len(script) < MaxLines
    /\ script' = Append(script, [line |-> l, done |-> done])

Declare(l) ==
    /\ l.kind = "decl"
    /\ ReadLine(l, TRUE)
    /\ nodes' = add_node(l)
    /\ UNCHANGED <<phase, nfd, procs, faults>>

(***************************************************************************)
(* With NULL, or with one end too many, the write is outside of the node:  *)
(* what the plumber does after that is not modelled.                       *)
(***************************************************************************)
Fits(ns, i) == i > 0 /\ Len(ns[i].pipes) < PIPE_LIMIT

Attach(ns, i, end) == [ns EXCEPT ![i].pipes = Append(@, end)]

(* Whatever the type is, and each time with the same descriptor of Bench. *)
LinkBench(l) ==
    /\ l.kind = "link" /\ "Bench" \in {l.from, l.to}
    /\ LET n == get_node(IF l.from = "Bench" THEN l.to ELSE l.from)
           end == IF l.from = "Bench"
                  THEN [type |-> commToEnum(l.type), fd_in |-> data_in.fd_in,
                        fd_out |-> 0, timed |-> l.toTimed]
                  ELSE [type |-> commToEnum(l.type), fd_in |-> 0,
                        fd_out |-> cmd_out.fd_out, timed |-> l.fromTimed]
       IN  \/ /\ Fits(nodes, n)
              /\ nodes' = Attach(nodes, n, end)
              /\ UNCHANGED phase
           \/ /\ ~Fits(nodes, n)
              /\ phase' = "crashed"
              /\ UNCHANGED nodes
    /\ ReadLine(l, TRUE)
    /\ UNCHANGED <<nfd, procs, faults>>

WriteEndWrong(fd) == fd

WriteEnd(fd) == fd + 1

(* pipe(), the writing half to from and the reading half to to. *)
LinkNodes(l) ==
    /\ l.kind = "link" /\ "Bench" \notin {l.from, l.to}
    /\ commToEnum(l.type) # "COMM_ERROR"
    /\ LET from == get_node(l.from)
           to == get_node(l.to)
           half == Attach(nodes, from, [type |-> l.type, fd_in |-> 0,
                          fd_out |-> WriteEnd(nfd), timed |-> l.fromTimed])
           fits == Fits(nodes, from) /\ Fits(half, to)
       IN  \/ /\ ~fits
              /\ phase' = "crashed"
              /\ UNCHANGED nodes
           \/ /\ fits
              /\ nodes' = Attach(half, to, [type |-> l.type, fd_in |-> nfd,
                                 fd_out |-> 0, timed |-> l.toTimed])
              /\ UNCHANGED phase
    /\ ReadLine(l, TRUE)
    /\ nfd' = nfd + 2
    /\ UNCHANGED <<procs, faults>>

(* The link is left out, and the parser goes on. *)
PipeFails(l) ==
    /\ l.kind = "link" /\ "Bench" \notin {l.from, l.to}
    /\ commToEnum(l.type) # "COMM_ERROR"
    /\ ReadLine(l, FALSE)
    /\ Fault
    /\ UNCHANGED <<phase, nodes, nfd, procs>>

(* "Comm type doesn't exist!": yyparse returns, and main launches what there is. *)
CommError(l) ==
    /\ l.kind = "link" /\ "Bench" \notin {l.from, l.to}
    /\ commToEnum(l.type) = "COMM_ERROR"
    /\ ReadLine(l, FALSE)
    /\ phase' = "launch"
    /\ UNCHANGED <<nodes, nfd, procs, faults>>

(* The end of the file, or a syntax error: main ignores what yyparse returns. *)
EndOfParse ==
    /\ phase = "parse"
    /\ phase' = "launch"
    /\ UNCHANGED <<script, nodes, nfd, procs, faults>>

(***************************************************************************)
(* add_node, get_node and launch_node stop at a NULL current, which the    *)
(* malloc of the last nodelist does not write: garbage there is followed.  *)
(***************************************************************************)
ReadUninitialized ==
    /\ phase \in {"parse", "launch"} /\ nodes # <<>>
    /\ phase' = "crashed"
    /\ UNCHANGED <<script, nodes, nfd, procs, faults>>

-----------------------------------------------------------------------------
(***************************************************************************)
(* launch_node, and what the new process makes of its arguments.           *)
(***************************************************************************)
argv(n) ==
    LET timed(text, p) == [type |-> text.type, in |-> text.in, out |-> text.out,
                           timed |-> p.timed]
        text(p) == IF n.rep_strat = "NONE" THEN serializePipe(p)
                                           ELSE timed(serializePipe(p), p)
    IN  [i \in DOMAIN n.pipes |-> text(n.pipes[i])]

(* Logger's: none to read from argv, too many, or deserialised one by one. *)
LoggerArgs(n) ==
    [name |-> n.name, controller |-> n.value, rep |-> "NONE", priority |-> n.priority,
     status |-> IF Len(n.pipes) = 0 THEN "asks"
                ELSE IF Len(n.pipes) > PIPE_COUNT THEN "exits" ELSE "runs",
     pipes |-> [i \in DOMAIN n.pipes |-> deserializePipe(argv(n)[i])]]

voting_timeoutAsGiven(timer) == timer

voting_timeout(timer) == IF timer = 0 THEN PERIOD_USEC ELSE timer

LastTimedFirst(ps, in) ==
    LET timed == {i \in DOMAIN ps : ps[i].timed /\ (ps[i].fd_in # 0) = in}
    IN  IF timed = {} THEN 0 ELSE (CHOOSE i \in timed : \A j \in timed : i <= j) - 1

(* The last timed pipe of that direction; the index stays 0 if there is none. *)
LastTimed(ps, in) ==
    LET timed == {i \in DOMAIN ps : ps[i].timed /\ (ps[i].fd_in # 0) = in}
    IN  IF timed = {} THEN 0 ELSE (CHOOSE i \in timed : \A j \in timed : i >= j) - 1

VoterArgs(n) ==
    LET ext_pipes == [i \in DOMAIN n.pipes |-> parsePipe(argv(n)[i])]
    IN  [name |-> n.name, controller |-> n.value, rep |-> reptypeToEnum(n.rep_strat),
         priority |-> n.priority, status |-> "runs",
         voting_timeout |-> voting_timeout(n.voter_timer),
         pipes |-> ext_pipes,
         timer_start_index |-> LastTimed(ext_pipes, TRUE),
         timer_stop_index |-> LastTimed(ext_pipes, FALSE)]

Process(n) == IF n.rep_strat = "NONE" THEN LoggerArgs(n) ELSE VoterArgs(n)

Current == nodes[Len(procs) + 1]

launch_node ==
    /\ phase = "launch" /\ Len(procs) < Len(nodes)
    /\ procs' = Append(procs, Process(Current))
    /\ UNCHANGED <<phase, script, nodes, nfd, faults>>

(* Only this child is lost: it unwinds launch_node, and leaves main. *)
ExecFails ==
    /\ phase = "launch" /\ Len(procs) < Len(nodes)
    /\ procs' = Append(procs, [Process(Current) EXCEPT !.status = "lost"])
    /\ Fault
    /\ UNCHANGED <<phase, script, nodes, nfd>>

(* The rest of the list is not launched. *)
ForkFails ==
    /\ phase = "launch" /\ Len(procs) < Len(nodes)
    /\ phase' = "cut"
    /\ Fault
    /\ UNCHANGED <<script, nodes, nfd, procs>>

EndOfList ==
    /\ phase = "launch" /\ Len(procs) = Len(nodes)
    /\ phase' = "done"
    /\ UNCHANGED <<script, nodes, nfd, procs, faults>>

Next ==
    \/ \E l \in Lines : Declare(l) \/ LinkBench(l) \/ LinkNodes(l) \/ PipeFails(l)
                        \/ CommError(l)
    \/ EndOfParse \/ ReadUninitialized
    \/ launch_node \/ ExecFails \/ ForkFails \/ EndOfList

Spec == Init /\ [][Next]_vars

-----------------------------------------------------------------------------
(***************************************************************************)
(* Properties.                                                             *)
(***************************************************************************)

(* The types of the state; no voter gets a timeout of zero, or an index out of its pipes. *)
TypeOK ==
    /\ phase \in {"parse", "launch", "done", "cut", "crashed"}
    /\ Len(script) <= MaxLines /\ faults \in 0..MaxFaults
    /\ \A i \in DOMAIN nodes : Len(nodes[i].pipes) <= PIPE_LIMIT
    /\ \A i \in DOMAIN procs :
          procs[i].rep # "NONE" =>
             /\ procs[i].voting_timeout \in Int \ {0}
             /\ procs[i].timer_start_index \in 0..PIPE_LIMIT - 1
             /\ procs[i].timer_stop_index \in 0..PIPE_LIMIT - 1

(* What the script says: line i is the one that declares name. *)
Declares(i, name) ==
    /\ script[i].line.kind = "decl" /\ script[i].line.name = name
    /\ \A j \in 1..i - 1 : script[j].line.kind = "decl" => script[j].line.name # name

Side(line, side) == IF side = "from" THEN line.from ELSE line.to
Timed(line, side) == IF side = "from" THEN line.fromTimed ELSE line.toTimed

(* The places where a link that was made names a component, in their order. *)
Mentions(name) ==
    {m \in (DOMAIN script) \X {"from", "to"} :
        /\ script[m[1]].line.kind = "link" /\ script[m[1]].done
        /\ Side(script[m[1]].line, m[2]) = name}
Place(name, m) ==
    Cardinality({k \in Mentions(name) :
                    k[1] < m[1] \/ (k[1] = m[1] /\ (k[2] = "from" \/ m[2] = "to"))})
Marked(m) == Timed(script[m[1]].line, m[2])

(***************************************************************************)
(* Each process has the controller, the replication and the ends that the  *)
(* script says, the ends in the order of the script, since components find *)
(* theirs by position (setPipeIndexes); after errors in the script, links  *)
(* that failed, and the way through argv.                                  *)
(***************************************************************************)
LaunchedAsWritten ==
    \A i \in DOMAIN procs : LET p == procs[i] IN
        /\ \E d \in DOMAIN script :
              /\ Declares(d, p.name)
              /\ p.controller = script[d].line.value
              /\ p.rep = script[d].line.rep
              /\ p.priority = script[d].line.priority
        /\ Len(p.pipes) = Cardinality(Mentions(p.name))
        /\ \A m \in Mentions(p.name) :
              LET end == p.pipes[Place(p.name, m)] IN
              /\ end.type = commToEnum(script[m[1]].line.type)
              /\ IF m[2] = "from" THEN end.fd_in = 0 /\ end.fd_out # 0
                                  ELSE end.fd_in # 0 /\ end.fd_out = 0

(***************************************************************************)
(* What a component writes to a link is read by the component at the other *)
(* end of that line of the script and by no one else; only the descriptors *)
(* of Bench are given to several ends (pb.y:69, 77).                       *)
(***************************************************************************)
End(m) ==
    LET name == Side(script[m[1]].line, m[2])
        i == get_node(name)
    IN  nodes[i].pipes[Place(name, m)]
Connected ==
    LET made == {i \in DOMAIN script :
                    /\ script[i].line.kind = "link" /\ script[i].done
                    /\ "Bench" \notin {script[i].line.from, script[i].line.to}}
    IN  phase # "crashed" =>
        /\ \A i \in made : End(<<i, "from">>).fd_out = End(<<i, "to">>).fd_in + 1
        /\ \A i, j \in made : i # j => End(<<i, "to">>).fd_in # End(<<j, "to">>).fd_in

(***************************************************************************)
(* "in graph, () indicates that this is the timed piped."                  *)
(* (controllers/configs/all_tri_wl.cfg:3): the voter starts its timer on   *)
(* the input, and stops it on the output, that the script marks last.      *)
(***************************************************************************)
TimedAsMarked ==
    \A i \in DOMAIN procs : LET p == procs[i]
                                marked(side) == {m \in Mentions(p.name) :
                                                    m[2] = side /\ Marked(m)}
        IN  p.rep # "NONE" =>
            /\ \A m \in marked("to") : \/ p.timer_start_index = Place(p.name, m) - 1
                                       \/ \E k \in marked("to") : k[1] > m[1]
            /\ \A m \in marked("from") : \/ p.timer_stop_index = Place(p.name, m) - 1
                                         \/ \E k \in marked("from") : k[1] > m[1]

(***************************************************************************)
(* The processes are the components of the script in its order, each once, *)
(* all of them unless a fork failed or the plumber crashed; an error in    *)
(* the script does not keep the components before it from being launched.  *)
(***************************************************************************)
LaunchedOnce ==
    /\ \A i, j \in DOMAIN procs : i # j => procs[i].name # procs[j].name
    /\ \A i, j \in DOMAIN procs : \A d, e \in DOMAIN script :
          i < j /\ Declares(d, procs[i].name) /\ Declares(e, procs[j].name) => d < e
    /\ phase = "done" =>
          \A d \in DOMAIN script : script[d].line.kind = "decl" =>
              \E i \in DOMAIN procs : procs[i].name = script[d].line.name
=============================================================================
