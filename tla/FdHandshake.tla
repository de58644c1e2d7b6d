---------------------------- MODULE FdHandshake ----------------------------
(***************************************************************************)
(* How a replica comes into service (src/fd_server.c, src/fd_client.c,     *)
(* src/replicas.c, src/controller.c).  The voter forks its replicas, or    *)
(* signals one of them to fork; the new process connects to the voter's    *)
(* socket, is sent the descriptors of its pipes, and answers with its pid. *)
(* The voter serves connections in the order of arrival, one at a time,    *)
(* and waits for each without a timeout.  A process may die at any stage.  *)
(*                                                                         *)
(* Which replica is restarted is Voter's concern: here it is any.  The     *)
(* priorities and the votes that restartReplica also moves are there too.  *)
(***************************************************************************)
EXTENDS Integers, Sequences

CONSTANTS
    N,              \* rep_count: two or three replicas
    MaxRestarts,    \* bound on restarts
    MaxFaults,      \* bound on deaths and failed forks
    MaxPid          \* bound on processes

ASSUME CountAssumption == N \in Nat /\ N >= 2
ASSUME BoundAssumption == MaxRestarts \in Nat /\ MaxFaults \in Nat /\ MaxPid \in Nat

VARIABLES
    pc,         \* where the voter is: forking, in accept, in read, in its loop, gone
    booting,    \* startReplicas is running, as opposed to restartReplica
    turn,       \* the replica being forked or served
    pid,        \* replicas[i].pid
    pipes,      \* the restart that created the pipes of replica i, 0 for the first ones
    restarts,   \* number of calls of restartReplica
    proc,       \* the processes
    backlog,    \* connections that wait for accept, oldest first
    conn,       \* the process at the other end of connection_fd
    wrote,      \* its pid is in the socket
    signals,    \* number of RESTART_SIGNALs queued for a process
    faults,     \* number of faults so far
    quiet,      \* no fault since this start or restart began, on a live restarter
    broadcast   \* RESTART_SIGNAL was sent to pid -1

voterVars == <<pc, booting, turn, pid, pipes, restarts>>
socketVars == <<backlog, conn, wrote>>
auxVars == <<faults, quiet, broadcast>>
vars == <<voterVars, socketVars, auxVars, proc, signals>>

Slots == 0 .. N-1
Pids == 1 .. MaxPid
NoPid == -1
NoPipes == [slot |-> -1, made |-> 0]

Stages == {"unborn", "forked", "queued", "served", "up", "dead"}
Processes == [stage : Stages,
              pipes : [slot : Slots \cup {-1}, made : 0 .. MaxRestarts],
              born : 0 .. MaxRestarts]

Live(p) == proc[p].stage \notin {"unborn", "dead"}

-----------------------------------------------------------------------------
(***************************************************************************)
(* The voter.                                                              *)
(***************************************************************************)
Init ==
    /\ pc = "fork"
    /\ booting = TRUE
    /\ turn = 0
    /\ pid = [i \in Slots |-> NoPid]
    /\ pipes = [i \in Slots |-> 0]
    /\ restarts = 0
    /\ proc = [p \in Pids |-> [stage |-> "unborn", pipes |-> NoPipes, born |-> 0]]
    /\ backlog = <<>>
    /\ conn = NoPid
    /\ wrote = FALSE
    /\ signals = [p \in Pids |-> 0]
    /\ faults = 0
    /\ quiet = TRUE
    /\ broadcast = FALSE

(* A new process; pids are taken in order and not used again. *)
Born(p) ==
    /\ proc[p].stage = "unborn"
    /\ \A q \in Pids : q < p => proc[q].stage # "unborn"
    /\ proc' = [proc EXCEPT ![p] = [stage |-> "forked", pipes |-> NoPipes, born |-> restarts]]

Fault ==
    /\ faults < MaxFaults
    /\ faults' = faults + 1
    /\ quiet' = FALSE

(* forkReplicas, one replica at a time: a failed fork leaves -1. *)
ForkReplica ==
    /\ pc = "fork"
    /\ \/ \E p \in Pids :
            /\ Born(p)
            /\ pid' = [pid EXCEPT ![turn] = p]
            /\ UNCHANGED <<faults, quiet>>
       \/ /\ Fault
          /\ pid' = [pid EXCEPT ![turn] = NoPid]
          /\ UNCHANGED proc
    /\ IF turn < N-1
         THEN turn' = turn + 1 /\ UNCHANGED pc
         ELSE turn' = 0 /\ pc' = "accept"
    /\ UNCHANGED <<booting, pipes, restarts, socketVars, signals, broadcast>>

(***************************************************************************)
(* acceptSendFDS up to the read.  sendmsg to a process that died in the    *)
(* queue raises SIGPIPE, which no program of the repository handles: the   *)
(* voter is gone.                                                          *)
(***************************************************************************)
AcceptSend ==
    /\ pc = "accept"
    /\ backlog # <<>>
    /\ LET p == Head(backlog) IN
         IF proc[p].stage = "dead"
           THEN pc' = "gone" /\ UNCHANGED <<proc, conn>>
           ELSE /\ pc' = "read"
                /\ conn' = p
                /\ proc' = [proc EXCEPT ![p].stage = "served",
                                        ![p].pipes = [slot |-> turn, made |-> pipes[turn]]]
    /\ backlog' = Tail(backlog)
    /\ wrote' = FALSE
    /\ UNCHANGED <<booting, turn, pid, pipes, restarts, signals, auxVars>>

(* What follows a served replica: the next one at start-up, else the loop. *)
ServedUpTo(last) ==
    IF booting /\ turn < last
      THEN pc' = "accept" /\ turn' = turn + 1 /\ UNCHANGED booting
      ELSE pc' = "run" /\ booting' = FALSE /\ UNCHANGED turn

AfterServePastEnd == ServedUpTo(N)

AfterServe == ServedUpTo(N-1)

(* Where the read puts the pid: over the one that fork returned. *)
RecordPidIfNew == pid' = IF pid[turn] = NoPid THEN [pid EXCEPT ![turn] = conn] ELSE pid

RecordPid == pid' = [pid EXCEPT ![turn] = conn]

(***************************************************************************)
(* The read of the pid.  The connection closed without one fails the read: *)
(* startReplicas exits, restartReplica does not look at the result.        *)
(***************************************************************************)
ReadPid ==
    /\ pc = "read"
    /\ \/ wrote /\ RecordPid /\ AfterServe
       \/ /\ ~wrote /\ proc[conn].stage = "dead"
          /\ UNCHANGED pid
          /\ IF booting THEN pc' = "gone" /\ UNCHANGED <<booting, turn>>
                        ELSE AfterServe
    /\ conn' = NoPid
    /\ wrote' = FALSE
    /\ UNCHANGED <<pipes, restarts, backlog, proc, signals, auxVars>>

(* kill: the pid -1 stands for every process. *)
Addressed(q) == IF q = NoPid THEN {p \in Pids : Live(p)} ELSE {q}

(* cleanupReplica: the processes its kill reaches. *)
KilledByNone(ee) == {}

KilledBy(ee) == Addressed(pid[ee])

Neighbour(ee) == (ee + (N - 1)) % N

(* The processes that are told to fork. *)
SignalledFailed(ee) == Addressed(pid[ee])

SignalledAll(ee) == UNION {Addressed(pid[i]) : i \in Slots \ {ee}}

Signalled(ee) == Addressed(pid[Neighbour(ee)])

(***************************************************************************)
(* voterRestartHandler and restartReplica up to the accept: kill, signal,  *)
(* pid -1 and new pipes.  A broadcast that would meet a process in the     *)
(* middle of its own hand-over is outside the model.                       *)
(***************************************************************************)
Restart(ee) ==
    LET er == Neighbour(ee) IN
    /\ pc = "run"
    /\ restarts < MaxRestarts
    /\ pid[er] = NoPid => \A p \in Pids : Live(p) => proc[p].stage = "up"
    /\ proc' = [p \in Pids |-> IF p \in KilledBy(ee) THEN [proc[p] EXCEPT !.stage = "dead"] ELSE proc[p]]
    /\ signals' = [p \in Pids |-> IF p \in Signalled(ee) /\ proc'[p].stage # "dead"
                                    THEN signals[p] + 1
                                    ELSE signals[p]]
    /\ quiet' = (pid[ee] # NoPid /\ pid[er] # NoPid /\ Live(pid[er]))
    /\ broadcast' = (broadcast \/ pid[er] = NoPid)
    /\ pid' = [pid EXCEPT ![ee] = NoPid]
    /\ pipes' = [pipes EXCEPT ![ee] = restarts + 1]
    /\ restarts' = restarts + 1
    /\ turn' = ee
    /\ pc' = "accept"
    /\ UNCHANGED <<booting, socketVars, faults>>

-----------------------------------------------------------------------------
(***************************************************************************)
(* The replicas.                                                           *)
(***************************************************************************)

(* connectRecvFDS up to recvmsg. *)
Connect(p) ==
    /\ proc[p].stage = "forked"
    /\ proc' = [proc EXCEPT ![p].stage = "queued"]
    /\ backlog' = Append(backlog, p)
    /\ UNCHANGED <<voterVars, conn, wrote, signals, auxVars>>

(***************************************************************************)
(* The rest of connectRecvFDS: receive the descriptors, write the pid.  A  *)
(* program just executed then installs its handlers (initController); the  *)
(* voter's main sleeps a second before its loop, taken to be enough.       *)
(***************************************************************************)
SendPid(p) ==
    /\ pc = "read" /\ conn = p
    /\ proc[p].stage = "served"
    /\ proc' = [proc EXCEPT ![p].stage = "up"]
    /\ wrote' = TRUE
    /\ UNCHANGED <<voterVars, backlog, conn, signals, auxVars>>

(* restartHandler: the child drops the pipes it inherited and will connect; or the fork fails. *)
RestartHandler(p) ==
    /\ proc[p].stage = "up"
    /\ signals[p] > 0
    /\ signals' = [signals EXCEPT ![p] = @ - 1]
    /\ \/ (\E q \in Pids : Born(q)) /\ UNCHANGED <<faults, quiet>>
       \/ Fault /\ UNCHANGED proc
    /\ UNCHANGED <<voterVars, socketVars, broadcast>>

(* An upset ends a process, at whatever stage. *)
Die(p) ==
    /\ Live(p)
    /\ Fault
    /\ proc' = [proc EXCEPT ![p].stage = "dead"]
    /\ UNCHANGED <<voterVars, socketVars, signals, broadcast>>

-----------------------------------------------------------------------------
VoterStep == ForkReplica \/ AcceptSend \/ ReadPid

Next ==
    \/ VoterStep
    \/ \E ee \in Slots : Restart(ee)
    \/ \E p \in Pids : Connect(p) \/ SendPid(p) \/ RestartHandler(p) \/ Die(p)

(* The voter and every process go on when they can; restarts and faults need not come. *)
Fairness ==
    /\ WF_vars(VoterStep)
    /\ \A p \in Pids : WF_vars(Connect(p)) /\ WF_vars(SendPid(p)) /\ WF_vars(RestartHandler(p))

Spec == Init /\ [][Next]_vars /\ Fairness

-----------------------------------------------------------------------------
(* Every variable has its type. *)
TypeOK ==
    /\ pc \in {"fork", "accept", "read", "run", "gone"}
    /\ booting \in BOOLEAN
    /\ turn \in Slots
    /\ pid \in [Slots -> Pids \cup {NoPid}]
    /\ pipes \in [Slots -> 0 .. MaxRestarts]
    /\ restarts \in 0 .. MaxRestarts
    /\ proc \in [Pids -> Processes]
    /\ backlog \in Seq(Pids)
    /\ conn \in Pids \cup {NoPid}
    /\ wrote \in BOOLEAN
    /\ signals \in [Pids -> Nat]
    /\ faults \in 0 .. MaxFaults
    /\ quiet \in BOOLEAN
    /\ broadcast \in BOOLEAN

(***************************************************************************)
(* The pid that the voter has for a replica is the one that holds that     *)
(* replica's present pipes, in whatever order the processes connected and  *)
(* whichever died: kill and sched_setscheduler address the process whose   *)
(* votes are read (acceptSendFDS, forkReplicas, restartReplica).           *)
(***************************************************************************)
SlotsMatch ==
    pc = "run" =>
        \A i \in Slots :
            pid[i] # NoPid => proc[pid[i]].pipes = [slot |-> i, made |-> pipes[i]]

(***************************************************************************)
(* No process is in service behind the voter's back: one that has pipes    *)
(* and runs is on record, or its pid is just being read.  Otherwise two    *)
(* processes would work as one replica and the voter could stop neither    *)
(* (cleanupReplica, acceptSendFDS).                                        *)
(***************************************************************************)
NoOrphans ==
    \A p \in Pids :
        proc[p].stage = "up" =>
            \/ pid[proc[p].pipes.slot] = p
            \/ pc = "read" /\ conn = p

(***************************************************************************)
(* A replica restarted is a copy made for this restart, not a process left *)
(* waiting from an earlier one, whose state would be old; provided no      *)
(* RESTART_SIGNAL went to everybody (restartReplica, restartHandler).      *)
(***************************************************************************)
FreshCopy ==
    (pc = "run" /\ ~broadcast) =>
        \A i \in Slots : pid[i] # NoPid => proc[pid[i]].born = pipes[i]

(***************************************************************************)
(* A start or a restart comes to its end unless a fault strikes during it: *)
(* the voter's accept and read, which have no timeout, are both answered   *)
(* (acceptSendFDS: "You better know a client is about to connect!").       *)
(***************************************************************************)
HandshakeEnds == (pc # "run" /\ quiet) ~> (pc = "run" \/ ~quiet)
=============================================================================
