------------------------- MODULE FdHandshake_proofs -------------------------
(***************************************************************************)
(* Proofs about the hand-over of descriptors, for every number of replicas *)
(* and every bound: types, that pids, pipes and processes match, and that  *)
(* a restart leaves its own copy in service.                               *)
(***************************************************************************)
EXTENDS FdHandshake, FiniteSetTheorems, TLAPS

(***************************************************************************)
(* The invariant.  Settled(i) is what the voter may rely on for replica i; *)
(* the rest says from when on it may, and who can hold pipes until then.   *)
(***************************************************************************)
Settled(i) == pid[i] # NoPid => proc[pid[i]].pipes = [slot |-> i, made |-> pipes[i]]

(* At start replicas are settled in order; afterwards all are, but for the one restarted. *)
Records ==
    /\ pc = "fork" => booting
    /\ pc = "run" => ~booting
    /\ pc \in {"accept", "read"} /\ booting => \A i \in Slots : i < turn => Settled(i)
    /\ pc \in {"accept", "read", "run"} /\ ~booting => \A i \in Slots : Settled(i)
    /\ pc \in {"accept", "read"} /\ ~booting => pid[turn] = NoPid

(* The process at the other end of the connection has the pipes of this turn. *)
Connected ==
    pc = "read" =>
        /\ conn \in Pids
        /\ proc[conn].stage \in {"served", "up", "dead"}
        /\ proc[conn].pipes = [slot |-> turn, made |-> pipes[turn]]

(* A process has no pipes before it is served. *)
Newcomers ==
    \A p \in Pids : proc[p].stage \in {"unborn", "forked", "queued"} => proc[p].pipes = NoPipes

(* Those in the queue are new, each once. *)
Queued ==
    /\ \A k \in 1 .. Len(backlog) :
           proc[backlog[k]].stage \in {"queued", "dead"} /\ proc[backlog[k]].pipes = NoPipes
    /\ \A j, k \in 1 .. Len(backlog) : backlog[j] = backlog[k] => j = k

(* At start nobody has pipes of a replica whose turn is still to come. *)
BootOrder ==
    /\ pc = "fork" => \A p \in Pids : proc[p].pipes = NoPipes
    /\ pc \in {"accept", "read"} /\ booting =>
           \A p \in Pids : proc[p].pipes.slot < turn \/ (pc = "read" /\ p = conn)

(* One in service has the pipes of some replica. *)
InService == \A p \in Pids : proc[p].stage = "up" => proc[p].pipes.slot \in Slots

Inv == Records /\ Connected /\ Newcomers /\ Queued /\ BootOrder /\ InService /\ NoOrphans
-----------------------------------------------------------------------------
(***************************************************************************)
(* Types.                                                                  *)
(***************************************************************************)

(* A new process is one of the type. *)
LEMMA BornTyped ==
  ASSUME TypeOK, NEW p \in Pids, Born(p)
  PROVE  proc' \in [Pids -> Processes]
<1>1. [stage |-> "forked", pipes |-> NoPipes, born |-> restarts] \in Processes
  BY BoundAssumption DEF TypeOK, Processes, Stages, NoPipes
<1> QED BY <1>1 DEF TypeOK, Born

(* A fault keeps the types of what it counts. *)
LEMMA FaultTyped ==
  ASSUME TypeOK
  PROVE  /\ Fault => faults' \in 0 .. MaxFaults /\ quiet' \in BOOLEAN
         /\ UNCHANGED <<faults, quiet>> => faults' \in 0 .. MaxFaults /\ quiet' \in BOOLEAN
<1>1. Fault => faults' \in 0 .. MaxFaults
  BY BoundAssumption DEF TypeOK, Fault
<1>2. Fault => quiet' \in BOOLEAN
  BY Zenon DEF Fault
<1>3. UNCHANGED <<faults, quiet>> => faults' \in 0 .. MaxFaults /\ quiet' \in BOOLEAN
  BY Zenon DEF TypeOK
<1> QED BY <1>1, <1>2, <1>3

(* Every variable keeps its type, whoever takes a step. *)
LEMMA TypeStep ==
  ASSUME TypeOK, [Next]_vars
  PROVE  TypeOK'
<1> USE CountAssumption, BoundAssumption DEF TypeOK
<1>1. CASE ForkReplica
  <2>1. pid' \in [Slots -> Pids \cup {NoPid}]
    BY <1>1 DEF ForkReplica
  <2>2. proc' \in [Pids -> Processes] /\ faults' \in 0 .. MaxFaults /\ quiet' \in BOOLEAN
    <3>1. CASE \E p \in Pids : Born(p) /\ UNCHANGED <<faults, quiet>>
      BY <3>1, BornTyped, FaultTyped
    <3>2. CASE Fault /\ UNCHANGED proc
      BY <3>2, FaultTyped
    <3> QED BY <1>1, <3>1, <3>2 DEF ForkReplica
  <2>3. turn' \in Slots /\ pc' \in {"fork", "accept"}
    BY <1>1 DEF ForkReplica, Slots
  <2> QED BY <1>1, <2>1, <2>2, <2>3 DEF ForkReplica, socketVars
<1>2. CASE AcceptSend
  <2>1. Head(backlog) \in Pids /\ Tail(backlog) \in Seq(Pids)
    BY <1>2 DEF AcceptSend
  <2>2. proc' \in [Pids -> Processes]
    <3> DEFINE p == Head(backlog)
               served == [proc[p] EXCEPT !.stage = "served",
                                         !.pipes = [slot |-> turn, made |-> pipes[turn]]]
    <3>1. served \in Processes
      BY <2>1 DEF Processes, Stages
    <3>2. proc' = proc \/ proc' = [proc EXCEPT ![p] = served]
      BY <1>2, <2>1 DEF AcceptSend
    <3> QED BY <2>1, <3>1, <3>2
  <2> QED BY <1>2, <2>1, <2>2 DEF AcceptSend, auxVars
<1>3. CASE ReadPid
  <2>1. turn' \in Slots /\ pc' \in {"accept", "run", "gone"}
    BY <1>3 DEF ReadPid, AfterServe, ServedUpTo, Slots
  <2>3. booting' \in BOOLEAN
    BY <1>3, Zenon DEF ReadPid, AfterServe, ServedUpTo
  <2>2. pid' \in [Slots -> Pids \cup {NoPid}]
    BY <1>3 DEF ReadPid, RecordPid
  <2> QED BY <1>3, <2>1, <2>2, <2>3 DEF ReadPid, auxVars
<1>4. ASSUME NEW ee \in Slots, Restart(ee) PROVE TypeOK'
  <2>1. proc' \in [Pids -> Processes]
    BY <1>4 DEF Restart, Processes, Stages
  <2>2. signals' \in [Pids -> Nat]
    BY <1>4 DEF Restart
  <2>3. /\ restarts' \in 0 .. MaxRestarts /\ pipes' \in [Slots -> 0 .. MaxRestarts]
        /\ pid' \in [Slots -> Pids \cup {NoPid}] /\ turn' \in Slots
    BY <1>4 DEF Restart
  <2>4. quiet' \in BOOLEAN /\ broadcast' \in BOOLEAN
    BY <1>4, Zenon DEF Restart
  <2> QED BY <1>4, <2>1, <2>2, <2>3, <2>4 DEF Restart, socketVars
<1>5. ASSUME NEW p \in Pids, Connect(p) PROVE TypeOK'
  <2>1. proc' \in [Pids -> Processes]
    BY <1>5 DEF Connect, Processes, Stages
  <2>2. backlog' \in Seq(Pids)
    BY <1>5 DEF Connect
  <2> QED BY <1>5, <2>1, <2>2 DEF Connect, voterVars, auxVars
<1>6. ASSUME NEW p \in Pids, SendPid(p) PROVE TypeOK'
  <2>1. proc' \in [Pids -> Processes]
    BY <1>6 DEF SendPid, Processes, Stages
  <2> QED BY <1>6, <2>1 DEF SendPid, voterVars, auxVars
<1>7. ASSUME NEW p \in Pids, RestartHandler(p) PROVE TypeOK'
  <2>1. proc' \in [Pids -> Processes] /\ faults' \in 0 .. MaxFaults /\ quiet' \in BOOLEAN
    <3>1. CASE (\E q \in Pids : Born(q)) /\ UNCHANGED <<faults, quiet>>
      BY <3>1, BornTyped, FaultTyped
    <3>2. CASE Fault /\ UNCHANGED proc
      BY <3>2, FaultTyped
    <3> QED BY <1>7, <3>1, <3>2 DEF RestartHandler
  <2>2. signals' \in [Pids -> Nat]
    BY <1>7 DEF RestartHandler
  <2> QED BY <1>7, <2>1, <2>2 DEF RestartHandler, voterVars, socketVars
<1>8. ASSUME NEW p \in Pids, Die(p) PROVE TypeOK'
  <2>1. proc' \in [Pids -> Processes]
    BY <1>8 DEF Die, Processes, Stages
  <2> QED BY <1>8, <2>1, FaultTyped DEF Die, voterVars, socketVars
<1>9. CASE UNCHANGED vars
  BY <1>9 DEF vars, voterVars, socketVars, auxVars
<1> QED BY <1>1, <1>2, <1>3, <1>4, <1>5, <1>6, <1>7, <1>8, <1>9 DEF Next, VoterStep

(***************************************************************************)
(* The voter's tables, the socket and the processes keep their types; no   *)
(* index of replicas[] leaves it in startReplicas and restartReplica.      *)
(***************************************************************************)
THEOREM HandshakeTyped == Spec => []TypeOK
<1>1. Init => TypeOK
  <2> SUFFICES ASSUME Init PROVE TypeOK
    OBVIOUS
  <2>1. proc \in [Pids -> Processes]
    BY BoundAssumption DEF Init, NoPipes, Processes, Stages
  <2>2. turn \in Slots /\ pipes \in [Slots -> 0 .. MaxRestarts] /\ restarts \in 0 .. MaxRestarts
    BY CountAssumption, BoundAssumption DEF Init, Slots
  <2>3. faults \in 0 .. MaxFaults /\ signals \in [Pids -> Nat] /\ backlog \in Seq(Pids)
    BY BoundAssumption DEF Init
  <2>4. /\ pc \in {"fork", "accept", "read", "run", "gone"}
        /\ pid \in [Slots -> Pids \cup {NoPid}] /\ conn \in Pids \cup {NoPid}
    BY DEF Init
  <2>5. booting \in BOOLEAN /\ wrote \in BOOLEAN /\ quiet \in BOOLEAN /\ broadcast \in BOOLEAN
    BY Zenon DEF Init
  <2> QED BY <2>1, <2>2, <2>3, <2>4, <2>5 DEF TypeOK
<1> QED BY <1>1, TypeStep, PTL DEF Spec

-----------------------------------------------------------------------------
(***************************************************************************)
(* The invariant, one lemma per action.                                    *)
(***************************************************************************)

(* Before the first fork nobody has pipes and nobody is served. *)
LEMMA InvInit == Init => Inv
BY DEF Init, Inv, Records, Connected, Newcomers, Queued, BootOrder, InService, NoOrphans

(* A birth gives a process without pipes, and leaves the others alone. *)
LEMMA BornAlone ==
  ASSUME TypeOK, NEW p \in Pids, Born(p)
  PROVE  /\ proc[p].stage = "unborn"
         /\ proc'[p].stage = "forked" /\ proc'[p].pipes = NoPipes
         /\ \A q \in Pids \ {p} : proc'[q] = proc[q]
BY DEF TypeOK, Born

(* Only processes are in the queue. *)
LEMMA QueueTyped ==
  ASSUME TypeOK, NEW k \in 1 .. Len(backlog)
  PROVE  backlog[k] \in Pids
BY DEF TypeOK

(* A replica forked at the start: its pid is provisional. *)
LEMMA InvForkReplica ==
  ASSUME TypeOK, Inv, ForkReplica
  PROVE  Inv'
<1>1. /\ pc = "fork" /\ booting /\ booting'
      /\ pc' = "fork" \/ (pc' = "accept" /\ turn' = 0)
      /\ backlog' = backlog /\ conn' = conn
  BY Zenon DEF ForkReplica, Inv, Records, socketVars
<1>2. \A q \in Pids : /\ proc'[q].pipes = NoPipes
                      /\ \/ proc'[q].stage = proc[q].stage
                         \/ proc[q].stage = "unborn" /\ proc'[q].stage = "forked"
  <2>1. \A q \in Pids : proc[q].pipes = NoPipes
    BY <1>1 DEF Inv, BootOrder
  <2>2. CASE \E p \in Pids : Born(p)
    BY <2>1, <2>2, BornAlone
  <2>3. CASE UNCHANGED proc
    BY <2>1, <2>3
  <2> QED BY <2>2, <2>3 DEF ForkReplica
<1>3. \A q \in Pids : proc[q].stage # "up"
  BY <1>1 DEF Inv, BootOrder, InService, NoPipes, Slots
<1>4. Records'
  BY <1>1 DEF Records, Slots
<1>5. Connected' /\ Newcomers' /\ InService' /\ NoOrphans'
  BY <1>1, <1>2, <1>3 DEF Connected, Newcomers, InService, NoOrphans
<1>6. Queued'
  BY <1>1, <1>2, QueueTyped DEF Inv, Queued
<1>7. BootOrder'
  BY <1>1, <1>2 DEF BootOrder, NoPipes
<1> QED BY <1>4, <1>5, <1>6, <1>7 DEF Inv

(* The queue without its first: the others move up. *)
LEMMA QueueTail ==
  ASSUME TypeOK, backlog # <<>>
  PROVE  /\ Head(backlog) = backlog[1] /\ 1 \in 1 .. Len(backlog)
         /\ Len(Tail(backlog)) = Len(backlog) - 1
         /\ \A k \in 1 .. Len(Tail(backlog)) :
                k + 1 \in 1 .. Len(backlog) /\ Tail(backlog)[k] = backlog[k + 1]
BY DEF TypeOK

(* One who settles a replica already has its pipes. *)
LEMMA SettledHasPipes ==
  ASSUME TypeOK, NEW i \in Slots, Settled(i), pid[i] # NoPid
  PROVE  pid[i] \in Pids /\ proc[pid[i]].pipes # NoPipes
<1>1. proc[pid[i]].pipes = [slot |-> i, made |-> pipes[i]] /\ pid[i] \in Pids
  BY DEF Settled, TypeOK
<1>2. i # -1
  BY CountAssumption DEF Slots
<1> QED BY <1>1, <1>2 DEF NoPipes

(* The next in the queue is given the pipes of this turn. *)
LEMMA InvAcceptSend ==
  ASSUME TypeOK, Inv, AcceptSend
  PROVE  Inv'
<1> DEFINE p == Head(backlog)
<1>1. /\ pc = "accept" /\ backlog # <<>> /\ backlog' = Tail(backlog)
      /\ UNCHANGED <<booting, turn, pid, pipes>>
  BY DEF AcceptSend
<1>2. p \in Pids /\ proc[p].stage \in {"queued", "dead"} /\ proc[p].pipes = NoPipes
  BY <1>1, QueueTail, QueueTyped DEF Inv, Queued
<1>3. \A k \in 1 .. Len(backlog') :
        /\ backlog'[k] \in Pids \ {p}
        /\ proc[backlog'[k]].stage \in {"queued", "dead"} /\ proc[backlog'[k]].pipes = NoPipes
  <2> SUFFICES ASSUME NEW k \in 1 .. Len(backlog')
               PROVE  /\ backlog'[k] \in Pids \ {p}
                      /\ proc[backlog'[k]].stage \in {"queued", "dead"}
                      /\ proc[backlog'[k]].pipes = NoPipes
    OBVIOUS
  <2>1. k + 1 \in 1 .. Len(backlog) /\ backlog'[k] = backlog[k + 1] /\ k + 1 # 1
    BY <1>1, QueueTail
  <2> QED BY <1>1, <2>1, QueueTail, QueueTyped DEF Inv, Queued
<1>4. \A j, k \in 1 .. Len(backlog') : backlog'[j] = backlog'[k] => j = k
  <2> SUFFICES ASSUME NEW j \in 1 .. Len(backlog'), NEW k \in 1 .. Len(backlog'),
                      backlog'[j] = backlog'[k]
               PROVE  j = k
    OBVIOUS
  <2>1. /\ j + 1 \in 1 .. Len(backlog) /\ backlog'[j] = backlog[j + 1]
        /\ k + 1 \in 1 .. Len(backlog) /\ backlog'[k] = backlog[k + 1]
    BY <1>1, QueueTail
  <2>2. j + 1 = k + 1
    BY <2>1 DEF Inv, Queued
  <2> QED BY <2>2
<1>5. CASE proc[p].stage = "dead"
  <2>1. pc' = "gone" /\ UNCHANGED <<proc, conn>>
    BY <1>5 DEF AcceptSend
  <2>2. Records' /\ Connected' /\ BootOrder'
    BY <2>1 DEF Records, Connected, BootOrder
  <2>3. Newcomers' /\ InService' /\ NoOrphans'
    BY <1>1, <2>1 DEF Inv, Newcomers, InService, NoOrphans
  <2>4. Queued'
    BY <1>3, <1>4, <2>1 DEF Queued
  <2> QED BY <2>2, <2>3, <2>4 DEF Inv
<1>6. CASE proc[p].stage # "dead"
  <2>1. /\ pc' = "read" /\ conn' = p
        /\ proc' = [proc EXCEPT ![p].stage = "served",
                                ![p].pipes = [slot |-> turn, made |-> pipes[turn]]]
    BY <1>6 DEF AcceptSend
  <2>2. /\ proc'[p].stage = "served"
        /\ proc'[p].pipes = [slot |-> turn, made |-> pipes[turn]]
        /\ \A q \in Pids \ {p} : proc'[q] = proc[q]
    BY <1>2, <2>1 DEF TypeOK, Processes
  <2>3. ASSUME NEW i \in Slots, Settled(i) PROVE Settled(i)'
    BY <1>1, <1>2, <2>2, <2>3, SettledHasPipes DEF Settled
  <2>4. Records'
    BY <1>1, <2>1, <2>3 DEF Inv, Records
  <2>5. Connected'
    BY <1>1, <1>2, <2>1, <2>2 DEF Connected
  <2>6. Newcomers' /\ InService' /\ NoOrphans'
    BY <1>1, <1>2, <2>1, <2>2 DEF Inv, Newcomers, InService, NoOrphans
  <2>7. Queued'
    BY <1>3, <1>4, <2>2 DEF Queued
  <2>8. BootOrder'
    BY <1>1, <1>2, <2>1, <2>2 DEF Inv, BootOrder
  <2> QED BY <2>4, <2>5, <2>6, <2>7, <2>8 DEF Inv
<1> QED BY <1>5, <1>6

(* The pid read is that of the process that was given the pipes. *)
LEMMA InvReadPid ==
  ASSUME TypeOK, Inv, ReadPid
  PROVE  Inv'
<1>1. /\ pc = "read" /\ turn \in Slots
      /\ UNCHANGED <<pipes, backlog, proc>>
  BY DEF ReadPid, TypeOK
<1>2. /\ conn \in Pids /\ proc[conn].pipes = [slot |-> turn, made |-> pipes[turn]]
  BY <1>1 DEF Inv, Connected
<1>3. pc' # "read" /\ pc' # "fork"
  BY DEF ReadPid, AfterServe, ServedUpTo
<1>4. Connected' /\ Newcomers' /\ Queued' /\ InService'
  BY <1>1, <1>3 DEF Inv, Connected, Newcomers, Queued, InService
<1>5. CASE wrote /\ RecordPid /\ AfterServe
  <2>1. pid' = [pid EXCEPT ![turn] = conn] /\ pid \in [Slots -> Pids \cup {NoPid}]
    BY <1>5 DEF RecordPid, TypeOK
  <2>2. ASSUME NEW i \in Slots, i = turn PROVE Settled(i)'
    BY <1>1, <1>2, <2>1, <2>2 DEF Settled
  <2>3. ASSUME NEW i \in Slots, i # turn, Settled(i) PROVE Settled(i)'
    BY <1>1, <2>1, <2>3 DEF Settled
  <2>4. NoOrphans'
    <3> SUFFICES ASSUME NEW q \in Pids, proc[q].stage = "up"
                 PROVE  pid'[proc[q].pipes.slot] = q
      BY <1>1 DEF NoOrphans
    <3>1. proc[q].pipes.slot \in Slots
      BY DEF Inv, InService
    <3>2. CASE proc[q].pipes.slot = turn
      <4>1. q = conn
        <5>1. CASE booting
          BY <1>1, <3>2, <5>1 DEF Inv, BootOrder, Slots
        <5>2. CASE ~booting
          <6>1. pid[turn] = NoPid
            BY <1>1, <5>2 DEF Inv, Records
          <6>2. pid[turn] # q
            BY <6>1 DEF NoPid, Pids
          <6> QED BY <1>1, <3>2, <6>2 DEF Inv, NoOrphans
        <5> QED BY <5>1, <5>2
      <4> QED BY <1>1, <2>1, <3>2, <4>1
    <3>3. CASE proc[q].pipes.slot # turn
      <4>1. q # conn
        BY <1>2, <3>3
      <4>2. pid[proc[q].pipes.slot] = q
        BY <4>1 DEF Inv, NoOrphans
      <4> QED BY <2>1, <3>1, <3>3, <4>2
    <3> QED BY <3>2, <3>3
  <2>5. CASE booting /\ turn < N-1
    <3>1. pc' = "accept" /\ turn' = turn + 1 /\ booting' = booting
      BY <1>5, <2>5 DEF AfterServe, ServedUpTo
    <3>2. \A i \in Slots : i < turn + 1 => Settled(i)'
      <4>1. \A i \in Slots : i < turn => Settled(i)
        BY <1>1, <2>5 DEF Inv, Records
      <4>2. \A i \in Slots : i < turn + 1 => i < turn \/ i = turn
        BY <1>1, CountAssumption DEF Slots
      <4>3. \A i \in Slots : i < turn => i # turn
        BY <1>1, CountAssumption DEF Slots
      <4> QED BY <2>2, <2>3, <4>1, <4>2, <4>3
    <3>3. Records'
      BY <2>5, <3>1, <3>2 DEF Records
    <3>4. BootOrder'
      <4>1. \A q \in Pids : proc[q].pipes.slot < turn \/ q = conn
        BY <1>1, <2>5 DEF Inv, BootOrder
      <4>2. \A q \in Pids : proc[q].pipes.slot \in Slots \cup {-1}
        BY DEF TypeOK, Processes
      <4>3. \A q \in Pids : proc[q].pipes.slot < turn + 1
        BY <1>1, <1>2, <4>1, <4>2, CountAssumption DEF Slots
      <4> QED BY <1>1, <3>1, <4>3 DEF BootOrder
    <3> QED BY <1>4, <2>4, <3>3, <3>4 DEF Inv
  <2>6. CASE ~(booting /\ turn < N-1)
    <3>1. pc' = "run" /\ booting' = FALSE
      BY <1>5, <2>6 DEF AfterServe, ServedUpTo
    <3>2. ASSUME NEW i \in Slots, i # turn PROVE Settled(i)
      <4>1. CASE booting
        <5>1. i < turn
          BY <1>1, <2>6, <3>2, <4>1, CountAssumption DEF Slots
        <5> QED BY <1>1, <4>1, <5>1 DEF Inv, Records
      <4>2. CASE ~booting
        BY <1>1, <4>2 DEF Inv, Records
      <4> QED BY <4>1, <4>2
    <3>3. \A i \in Slots : Settled(i)'
      BY <2>2, <2>3, <3>2
    <3>4. Records' /\ BootOrder'
      BY <3>1, <3>3 DEF Records, BootOrder
    <3> QED BY <1>4, <2>4, <3>4 DEF Inv
  <2> QED BY <2>5, <2>6
<1>6. CASE ~wrote /\ proc[conn].stage = "dead" /\ UNCHANGED pid
  <2>1. NoOrphans'
    BY <1>1, <1>6 DEF Inv, NoOrphans
  <2>2. CASE booting
    <3>1. pc' = "gone"
      BY <1>6, <2>2 DEF ReadPid
    <3>2. Records' /\ BootOrder'
      BY <3>1 DEF Records, BootOrder
    <3> QED BY <1>4, <2>1, <3>2 DEF Inv
  <2>3. CASE ~booting
    <3>1. pc' = "run" /\ booting' = FALSE
      BY <1>6, <2>3 DEF ReadPid, AfterServe, ServedUpTo
    <3>2. \A i \in Slots : Settled(i)'
      BY <1>1, <1>6, <2>3 DEF Inv, Records, Settled
    <3>3. Records' /\ BootOrder'
      BY <3>1, <3>2 DEF Records, BootOrder
    <3> QED BY <1>4, <2>1, <3>3 DEF Inv
  <2> QED BY <2>2, <2>3
<1> QED BY <1>5, <1>6 DEF ReadPid

(***************************************************************************)
(* A restart: the process on record is killed, so nobody is left who holds *)
(* the pipes of the replica restarted.                                     *)
(***************************************************************************)
LEMMA InvRestart ==
  ASSUME TypeOK, Inv, NEW ee \in Slots, Restart(ee)
  PROVE  Inv'
<1>1. /\ pc = "run" /\ pc' = "accept" /\ turn' = ee
      /\ UNCHANGED <<booting, backlog, conn>>
      /\ pid' = [pid EXCEPT ![ee] = NoPid]
      /\ pipes' = [pipes EXCEPT ![ee] = restarts + 1]
  BY DEF Restart, socketVars
<1>2. \A q \in Pids : /\ proc'[q].pipes = proc[q].pipes
                      /\ proc'[q].stage = IF q \in KilledBy(ee) THEN "dead" ELSE proc[q].stage
  BY DEF Restart, TypeOK, Processes
<1>3. ~booting /\ \A i \in Slots : Settled(i)
  BY <1>1 DEF Inv, Records
<1>4. Records'
  <2>1. \A i \in Slots : Settled(i)'
    BY <1>1, <1>2, <1>3 DEF Settled, TypeOK
  <2> QED BY <1>1, <1>3, <2>1 DEF Records, TypeOK
<1>5. Connected' /\ Newcomers' /\ BootOrder' /\ InService'
  BY <1>1, <1>2, <1>3 DEF Inv, Connected, Newcomers, BootOrder, InService
<1>6. Queued'
  BY <1>1, <1>2, QueueTyped DEF Inv, Queued
<1>7. NoOrphans'
  <2> SUFFICES ASSUME NEW q \in Pids, proc'[q].stage = "up"
               PROVE  pid'[proc'[q].pipes.slot] = q
    BY DEF NoOrphans
  <2>1. q \notin KilledBy(ee) /\ proc[q].stage = "up"
    BY <1>2
  <2>2. proc[q].pipes.slot \in Slots /\ pid[proc[q].pipes.slot] = q
    BY <1>1, <2>1 DEF Inv, InService, NoOrphans
  <2>3. proc[q].pipes.slot # ee
    BY <2>1, <2>2 DEF KilledBy, Addressed, Live
  <2> QED BY <1>1, <1>2, <2>2, <2>3 DEF TypeOK
<1> QED BY <1>4, <1>5, <1>6, <1>7 DEF Inv

(* While the pipes that processes hold do not change, what the voter relies on holds. *)
LEMMA PipesKept ==
  ASSUME TypeOK, Inv, UNCHANGED <<voterVars, conn>>,
         \A q \in Pids : proc'[q].pipes = proc[q].pipes
  PROVE  Records' /\ BootOrder'
<1>1. \A i \in Slots : Settled(i) => Settled(i)'
  BY DEF Settled, TypeOK, voterVars
<1>2. Records'
  BY <1>1 DEF Inv, Records, voterVars
<1>3. BootOrder'
  BY DEF Inv, BootOrder, voterVars
<1> QED BY <1>2, <1>3

(* A connection joins the queue at its end. *)
LEMMA InvConnect ==
  ASSUME TypeOK, Inv, NEW p \in Pids, Connect(p)
  PROVE  Inv'
<1>1. /\ proc[p].stage = "forked" /\ backlog' = Append(backlog, p)
      /\ UNCHANGED <<voterVars, conn>>
  BY DEF Connect
<1>2. /\ \A q \in Pids : proc'[q].pipes = proc[q].pipes
      /\ proc'[p].stage = "queued"
      /\ \A q \in Pids \ {p} : proc'[q].stage = proc[q].stage
  BY DEF Connect, TypeOK, Processes
<1>3. Records' /\ BootOrder'
  BY <1>1, <1>2, PipesKept
<1>4. Connected' /\ Newcomers' /\ InService' /\ NoOrphans'
  BY <1>1, <1>2 DEF Inv, Connected, Newcomers, InService, NoOrphans, voterVars
<1>5. \A k \in 1 .. Len(backlog') :
        \/ k \in 1 .. Len(backlog) /\ backlog'[k] = backlog[k] /\ backlog[k] \in Pids \ {p}
        \/ k = Len(backlog) + 1 /\ backlog'[k] = p
  <2>1. \A k \in 1 .. Len(backlog) : backlog[k] \in Pids \ {p}
    BY <1>1, QueueTyped DEF Inv, Queued
  <2>2. \A k \in 1 .. Len(backlog') :
          \/ k \in 1 .. Len(backlog) /\ backlog'[k] = backlog[k]
          \/ k = Len(backlog) + 1 /\ backlog'[k] = p
    BY <1>1 DEF TypeOK
  <2> QED BY <2>1, <2>2
<1>6. Queued'
  <2>1. \A k \in 1 .. Len(backlog') :
          proc'[backlog'[k]].stage \in {"queued", "dead"} /\ proc'[backlog'[k]].pipes = NoPipes
    BY <1>1, <1>2, <1>5 DEF Inv, Queued, Newcomers
  <2>2. \A j, k \in 1 .. Len(backlog') : backlog'[j] = backlog'[k] => j = k
    BY <1>5 DEF Inv, Queued
  <2> QED BY <2>1, <2>2 DEF Queued
<1> QED BY <1>3, <1>4, <1>6 DEF Inv

(* The process connected comes up with the pipes of this turn. *)
LEMMA InvSendPid ==
  ASSUME TypeOK, Inv, NEW p \in Pids, SendPid(p)
  PROVE  Inv'
<1>1. /\ pc = "read" /\ conn = p /\ proc[p].stage = "served"
      /\ UNCHANGED <<voterVars, conn, backlog>>
  BY DEF SendPid
<1>2. /\ \A q \in Pids : proc'[q].pipes = proc[q].pipes
      /\ proc'[p].stage = "up"
      /\ \A q \in Pids \ {p} : proc'[q].stage = proc[q].stage
  BY DEF SendPid, TypeOK, Processes
<1>3. Records' /\ BootOrder'
  BY <1>1, <1>2, PipesKept
<1>4. Connected' /\ Newcomers' /\ NoOrphans'
  BY <1>1, <1>2 DEF Inv, Connected, Newcomers, NoOrphans, voterVars
<1>5. InService'
  <2>1. proc[p].pipes.slot = turn /\ turn \in Slots
    BY <1>1 DEF Inv, Connected, TypeOK
  <2> QED BY <1>2, <2>1 DEF Inv, InService
<1>6. Queued'
  BY <1>1, <1>2, QueueTyped DEF Inv, Queued
<1> QED BY <1>3, <1>4, <1>5, <1>6 DEF Inv

(* A copy forked has no pipes of its own yet. *)
LEMMA InvRestartHandler ==
  ASSUME TypeOK, Inv, NEW p \in Pids, RestartHandler(p)
  PROVE  Inv'
<1>1. UNCHANGED <<voterVars, conn, backlog>>
  BY DEF RestartHandler, socketVars
<1>2. \A q \in Pids : /\ proc'[q].pipes = proc[q].pipes
                      /\ \/ proc'[q].stage = proc[q].stage
                         \/ proc[q].stage = "unborn" /\ proc'[q].stage = "forked"
  <2>1. CASE \E q \in Pids : Born(q)
    BY <2>1, BornAlone DEF Inv, Newcomers
  <2>2. CASE UNCHANGED proc
    BY <2>2
  <2> QED BY <2>1, <2>2 DEF RestartHandler
<1>3. Records' /\ BootOrder'
  BY <1>1, <1>2, PipesKept
<1>4. Connected' /\ Newcomers' /\ InService' /\ NoOrphans'
  BY <1>1, <1>2 DEF Inv, Connected, Newcomers, InService, NoOrphans, voterVars
<1>5. Queued'
  BY <1>1, <1>2, QueueTyped DEF Inv, Queued
<1> QED BY <1>3, <1>4, <1>5 DEF Inv

(* The dead keep their entries, and their pipes. *)
LEMMA InvDie ==
  ASSUME TypeOK, Inv, NEW p \in Pids, Die(p)
  PROVE  Inv'
<1>1. UNCHANGED <<voterVars, conn, backlog>>
  BY DEF Die, socketVars
<1>2. \A q \in Pids : /\ proc'[q].pipes = proc[q].pipes
                      /\ proc'[q].stage = IF q = p THEN "dead" ELSE proc[q].stage
  BY DEF Die, TypeOK, Processes
<1>3. Records' /\ BootOrder'
  BY <1>1, <1>2, PipesKept
<1>4. Connected' /\ Newcomers' /\ InService' /\ NoOrphans'
  BY <1>1, <1>2 DEF Inv, Connected, Newcomers, InService, NoOrphans, voterVars
<1>5. Queued'
  BY <1>1, <1>2, QueueTyped DEF Inv, Queued
<1> QED BY <1>3, <1>4, <1>5 DEF Inv

(* No step of anybody breaks the invariant. *)
LEMMA InvStep ==
  ASSUME TypeOK, Inv, [Next]_vars
  PROVE  Inv'
<1>1. CASE UNCHANGED vars
  BY <1>1 DEF vars, voterVars, socketVars, auxVars, Inv, Records, Settled, Connected,
              Newcomers, Queued, BootOrder, InService, NoOrphans
<1> QED BY <1>1, InvForkReplica, InvAcceptSend, InvReadPid, InvRestart, InvConnect,
           InvSendPid, InvRestartHandler, InvDie DEF Next, VoterStep

(* The invariant holds in every state of every behaviour. *)
LEMMA InvHolds == Spec => []Inv
BY InvInit, InvStep, HandshakeTyped, PTL DEF Spec

-----------------------------------------------------------------------------
(***************************************************************************)
(* In whatever order the replicas connect and whichever die, the pid that  *)
(* acceptSendFDS leaves on record is that of the process that holds the    *)
(* replica's present pipes: kill and sched_setscheduler reach the right    *)
(* process.                                                                *)
(***************************************************************************)
THEOREM PidsMatchPipes == Spec => []SlotsMatch
<1>1. Inv => SlotsMatch
  BY DEF Inv, Records, Settled, SlotsMatch
<1> QED BY <1>1, InvHolds, PTL

(***************************************************************************)
(* No process is in service that the voter does not have on record: the    *)
(* kill of cleanupReplica before each restart leaves no second copy.       *)
(***************************************************************************)
THEOREM NobodyUnrecorded == Spec => []NoOrphans
<1>1. Inv => NoOrphans
  BY DEF Inv
<1> QED BY <1>1, InvHolds, PTL

-----------------------------------------------------------------------------
(***************************************************************************)
(* Fresh copies.  A process waits for pipes from its fork until it is      *)
(* served, dead in the queue or not.  The argument counts: at the start    *)
(* the voter accepts as many times as it forked, so that nobody is left    *)
(* waiting; afterwards a restart sends one signal, which becomes at most   *)
(* one process, which that restart serves or, dead, ends with.             *)
(***************************************************************************)
Waiting == {p \in Pids : proc[p].stage = "forked"} \cup {backlog[k] : k \in 1 .. Len(backlog)}

(* A process that has yet to fork a copy. *)
Told(p) == proc[p].stage # "dead" /\ signals[p] # 0

(* At start there are the first pipes, first processes and no signals. *)
FirstPipes ==
    booting => /\ restarts = 0
               /\ \A i \in Slots : pipes[i] = 0
               /\ \A p \in Pids : proc[p].born = 0 /\ signals[p] = 0

(* At start no more processes wait than the voter will still serve. *)
Expected ==
    /\ pc = "fork" => Cardinality(Waiting) <= turn
    /\ pc = "accept" /\ booting => Cardinality(Waiting) <= N - turn
    /\ pc = "read" /\ booting => Cardinality(Waiting) <= N - turn - 1

(* Afterwards a restart has one signal or one process under way; else there is neither. *)
OneCopy ==
    ~booting /\ ~broadcast =>
        /\ pc \in {"run", "read"} => Waiting = {} /\ \A p \in Pids : ~Told(p)
        /\ pc = "accept" =>
              /\ \A p, q \in Pids : Told(p) /\ Told(q) => p = q
              /\ \A p \in Pids : Told(p) => /\ signals[p] = 1 /\ proc[p].stage # "unborn"
                                            /\ Waiting = {}
              /\ \A p, q \in Waiting : p = q
              /\ \A q \in Waiting : proc[q].born = restarts

(* The processes on record, and the one being served, are as old as their pipes. *)
Current ==
    ~booting /\ ~broadcast =>
        /\ pc \in {"accept", "read"} => pipes[turn] = restarts
        /\ pc = "read" => proc[conn].born = restarts
        /\ pc \in {"accept", "read", "run"} =>
             \A i \in Slots : pid[i] # NoPid => proc[pid[i]].born = pipes[i]

Fresh == FirstPipes /\ Expected /\ OneCopy /\ Current

(* Only processes wait, and so only finitely many. *)
LEMMA WaitingFinite ==
  ASSUME TypeOK
  PROVE  /\ Waiting \subseteq Pids /\ IsFiniteSet(Waiting)
         /\ Cardinality(Waiting) \in Nat
<1>1. Waiting \subseteq Pids
  BY QueueTyped DEF Waiting
<1>2. IsFiniteSet(Pids)
  BY BoundAssumption, FS_Interval DEF Pids
<1>3. IsFiniteSet(Waiting)
  BY <1>1, <1>2, FS_Subset
<1> QED BY <1>1, <1>3, FS_CardinalityType

(* One more waits after a birth. *)
LEMMA WaitingBorn ==
  ASSUME TypeOK, NEW p \in Pids, Born(p), backlog' = backlog
  PROVE  Waiting' = Waiting \cup {p}
<1>1. {q \in Pids : proc'[q].stage = "forked"} = {q \in Pids : proc[q].stage = "forked"} \cup {p}
  BY BornAlone
<1>2. {backlog'[k] : k \in 1 .. Len(backlog')} = {backlog[k] : k \in 1 .. Len(backlog)}
  OBVIOUS
<1> QED BY <1>1, <1>2, Zenon DEF Waiting

(* Nobody waits who did not, when nobody is forked and the queue stays. *)
LEMMA WaitingLess ==
  ASSUME TypeOK, backlog' = backlog,
         \A q \in Pids : proc'[q].stage = "forked" => proc[q].stage = "forked"
  PROVE  Waiting' \subseteq Waiting
BY DEF Waiting

(* Connecting is still waiting. *)
LEMMA WaitingConnect ==
  ASSUME TypeOK, NEW p \in Pids, Connect(p)
  PROVE  Waiting' = Waiting
<1>1. /\ proc[p].stage = "forked" /\ backlog' = Append(backlog, p)
      /\ proc'[p].stage = "queued"
      /\ \A q \in Pids \ {p} : proc'[q].stage = proc[q].stage
  BY DEF Connect, TypeOK, Processes
<1>2. {backlog'[k] : k \in 1 .. Len(backlog')} = {backlog[k] : k \in 1 .. Len(backlog)} \cup {p}
  <2>1. /\ Len(backlog') = Len(backlog) + 1 /\ Len(backlog) \in Nat
        /\ backlog'[Len(backlog) + 1] = p
        /\ \A k \in 1 .. Len(backlog) : backlog'[k] = backlog[k]
    BY <1>1 DEF TypeOK
  <2>2. 1 .. Len(backlog') = (1 .. Len(backlog)) \cup {Len(backlog) + 1}
    BY <2>1
  <2> QED BY <2>1, <2>2
<1>3. {q \in Pids : proc'[q].stage = "forked"} = {q \in Pids : proc[q].stage = "forked"} \ {p}
  BY <1>1
<1>4. p \in {q \in Pids : proc[q].stage = "forked"}
  BY <1>1
<1> QED BY <1>2, <1>3, <1>4, Zenon DEF Waiting

(* The one accepted, and no other, waits no longer. *)
LEMMA WaitingAccept ==
  ASSUME TypeOK, Inv, AcceptSend
  PROVE  /\ Head(backlog) \in Pids \cap Waiting
         /\ Waiting' = Waiting \ {Head(backlog)}
<1> DEFINE p == Head(backlog)
<1>1. /\ backlog # <<>> /\ backlog' = Tail(backlog)
      /\ p = backlog[1] /\ 1 \in 1 .. Len(backlog) /\ p \in Pids
      /\ proc[p].stage \in {"queued", "dead"}
  BY QueueTail, QueueTyped DEF AcceptSend, Inv, Queued
<1>2. \A q \in Pids : (proc'[q].stage = "forked") <=> (proc[q].stage = "forked")
  BY <1>1 DEF AcceptSend, TypeOK, Processes
<1>3. {backlog'[k] : k \in 1 .. Len(backlog')} = {backlog[k] : k \in 1 .. Len(backlog)} \ {p}
  <2>1. ASSUME NEW k \in 1 .. Len(backlog')
        PROVE  backlog'[k] \in {backlog[j] : j \in 1 .. Len(backlog)} \ {p}
    <3>1. k + 1 \in 1 .. Len(backlog) /\ backlog'[k] = backlog[k + 1] /\ k + 1 # 1
      BY <1>1, QueueTail
    <3>2. backlog[k + 1] # p
      BY <1>1, <3>1 DEF Inv, Queued
    <3> QED BY <3>1, <3>2
  <2>2. ASSUME NEW j \in 1 .. Len(backlog), backlog[j] # p
        PROVE  backlog[j] \in {backlog'[k] : k \in 1 .. Len(backlog')}
    <3>1. /\ j - 1 \in 1 .. Len(backlog') /\ (j - 1) + 1 = j
      BY <1>1, <2>2, QueueTail
    <3>2. backlog'[j - 1] = backlog[j]
      BY <1>1, <3>1, QueueTail
    <3> QED BY <3>1, <3>2
  <2> QED BY <2>1, <2>2
<1>4. {q \in Pids : proc'[q].stage = "forked"} = {q \in Pids : proc[q].stage = "forked"} \ {p}
  BY <1>1, <1>2
<1>5. p \in {backlog[k] : k \in 1 .. Len(backlog)}
  BY <1>1
<1> QED BY <1>1, <1>3, <1>4, <1>5, Zenon DEF Waiting

(* A set of processes that only lost some is no larger. *)
LEMMA WaitingBound ==
  ASSUME TypeOK, Waiting' \subseteq Waiting
  PROVE  Cardinality(Waiting') \in Nat /\ Cardinality(Waiting') <= Cardinality(Waiting)
<1>1. IsFiniteSet(Waiting') /\ Cardinality(Waiting') <= Cardinality(Waiting)
  BY WaitingFinite, FS_Subset
<1> QED BY <1>1, FS_CardinalityType

(* Before the first fork nobody waits. *)
LEMMA FreshInit == Init => Fresh
<1> SUFFICES ASSUME Init PROVE Fresh
  OBVIOUS
<1>1. Waiting = {}
  BY DEF Init, Waiting
<1>2. Cardinality(Waiting) = 0
  BY <1>1, FS_EmptySet
<1>3. FirstPipes
  BY DEF Init, FirstPipes
<1>4. Expected
  BY <1>2 DEF Init, Expected
<1>5. OneCopy /\ Current
  BY DEF Init, OneCopy, Current
<1> QED BY <1>3, <1>4, <1>5 DEF Fresh

(* A step of the processes that forks nobody keeps the count. *)
LEMMA FreshKept ==
  ASSUME TypeOK, TypeOK', Inv, Fresh, UNCHANGED <<voterVars, conn, broadcast, signals>>,
         \A q \in Pids : /\ proc'[q].born = proc[q].born
                         /\ proc[q].stage = "dead" => proc'[q].stage = "dead"
                         /\ proc'[q].stage = "unborn" => proc[q].stage = "unborn"
                         /\ proc[q].stage = "unborn" => proc'[q].stage = "unborn",
         Waiting' \subseteq Waiting
  PROVE  Fresh'
<1>1. FirstPipes'
  BY DEF Fresh, FirstPipes, voterVars
<1>2. Expected'
  <2>1. Cardinality(Waiting') <= Cardinality(Waiting)
    BY WaitingBound
  <2>2. turn \in Int /\ N \in Int /\ Cardinality(Waiting) \in Nat /\ Cardinality(Waiting') \in Nat
    <3>1. turn \in Int /\ N \in Int
      BY CountAssumption DEF TypeOK, Slots
    <3> QED BY <3>1, WaitingFinite, WaitingBound
  <2>3. pc' = pc /\ turn' = turn /\ booting' = booting
    BY DEF voterVars
  <2>4. pc = "fork" => Cardinality(Waiting') <= turn
    BY <2>1, <2>2 DEF Fresh, Expected
  <2>5. pc = "accept" /\ booting => Cardinality(Waiting') <= N - turn
    BY <2>1, <2>2 DEF Fresh, Expected
  <2>6. pc = "read" /\ booting => Cardinality(Waiting') <= N - turn - 1
    BY <2>1, <2>2 DEF Fresh, Expected
  <2> QED BY <2>3, <2>4, <2>5, <2>6 DEF Expected
<1>3. OneCopy'
  <2>1. \A q \in Pids : Told(q)' => Told(q)
    BY DEF Told
  <2>2. Waiting \subseteq Pids
    BY WaitingFinite
  <2> QED BY <2>1, <2>2 DEF Fresh, OneCopy, voterVars
<1>4. Current'
  <2>1. \A i \in Slots : pid[i] # NoPid => pid[i] \in Pids
    BY DEF TypeOK
  <2> QED BY <2>1 DEF Fresh, Current, Inv, Connected, voterVars
<1> QED BY <1>1, <1>2, <1>3, <1>4 DEF Fresh

(* Each fork of the start adds one process to be served. *)
LEMMA FreshForkReplica ==
  ASSUME TypeOK, TypeOK', Inv, Fresh, ForkReplica
  PROVE  Fresh'
<1>1. /\ pc = "fork" /\ backlog' = backlog
      /\ UNCHANGED <<pipes, restarts, signals>>
  BY DEF ForkReplica, socketVars
<1>2. booting /\ booting'
  BY <1>1, Zenon DEF ForkReplica, Inv, Records
<1>3. FirstPipes'
  <2>1. \A q \in Pids : proc'[q].born = 0
    <3>1. restarts = 0 /\ \A q \in Pids : proc[q].born = 0
      BY <1>2 DEF Fresh, FirstPipes
    <3>2. CASE \E p \in Pids : Born(p)
      BY <3>1, <3>2 DEF Born, TypeOK
    <3> QED BY <3>1, <3>2 DEF ForkReplica
  <2> QED BY <1>1, <1>2, <2>1 DEF Fresh, FirstPipes
<1>4. Expected'
  <2>1. Cardinality(Waiting') <= Cardinality(Waiting) + 1 /\ Cardinality(Waiting') \in Nat
    <3>1. CASE \E p \in Pids : Born(p)
      <4>1. PICK p \in Pids : Born(p)
        BY <3>1
      <4>2. Waiting' = Waiting \cup {p}
        BY <1>1, <4>1, WaitingBorn
      <4>3. /\ IsFiniteSet(Waiting')
            /\ Cardinality(Waiting') = Cardinality(Waiting) \/ Cardinality(Waiting') = Cardinality(Waiting) + 1
        BY <4>2, WaitingFinite, FS_AddElement
      <4> QED BY <4>3, WaitingFinite, FS_CardinalityType
    <3>2. CASE UNCHANGED proc
      <4>1. Waiting' \subseteq Waiting
        BY <1>1, <3>2, WaitingLess
      <4>2. Cardinality(Waiting') \in Nat /\ Cardinality(Waiting') <= Cardinality(Waiting)
        BY <4>1, WaitingBound
      <4> QED BY <4>2, WaitingFinite
    <3> QED BY <3>1, <3>2 DEF ForkReplica
  <2>2. Cardinality(Waiting) <= turn
    BY <1>1 DEF Fresh, Expected
  <2>3. Cardinality(Waiting) \in Nat /\ turn \in Slots
    BY WaitingFinite DEF TypeOK
  <2>4. \/ pc' = "fork" /\ turn' = turn + 1
        \/ pc' = "accept" /\ turn' = 0 /\ turn >= N-1
    BY <1>1, <2>3, CountAssumption DEF ForkReplica, Slots
  <2> QED BY <2>1, <2>2, <2>3, <2>4, CountAssumption DEF Expected, Slots
<1>5. OneCopy' /\ Current'
  BY <1>2 DEF OneCopy, Current
<1> QED BY <1>3, <1>4, <1>5 DEF Fresh

(* Each accept takes one away; after a restart it is the copy just made. *)
LEMMA FreshAcceptSend ==
  ASSUME TypeOK, TypeOK', Inv, Fresh, AcceptSend
  PROVE  Fresh'
<1> DEFINE p == Head(backlog)
<1>1. /\ pc = "accept"
      /\ UNCHANGED <<booting, turn, pid, pipes, restarts, signals, broadcast>>
  BY DEF AcceptSend, auxVars
<1>2. p \in Pids /\ p \in Waiting /\ Waiting' = Waiting \ {p}
  BY WaitingAccept
<1>3. \A q \in Pids : /\ proc'[q].born = proc[q].born
                      /\ proc[q].stage = "dead" => proc'[q].stage = "dead"
  <2>1. CASE proc[p].stage = "dead"
    BY <2>1 DEF AcceptSend
  <2>2. CASE proc[p].stage # "dead"
    <3>1. proc' = [proc EXCEPT ![p].stage = "served",
                               ![p].pipes = [slot |-> turn, made |-> pipes[turn]]]
      BY <2>2 DEF AcceptSend
    <3> QED BY <1>2, <2>2, <3>1 DEF TypeOK, Processes
  <2> QED BY <2>1, <2>2
<1>4. FirstPipes'
  BY <1>1, <1>3 DEF Fresh, FirstPipes
<1>5. CASE proc[p].stage = "dead"
  <2>1. pc' = "gone"
    BY <1>5 DEF AcceptSend
  <2> QED BY <1>4, <2>1 DEF Fresh, Expected, OneCopy, Current
<1>6. CASE proc[p].stage # "dead"
  <2>1. pc' = "read" /\ conn' = p
    BY <1>6 DEF AcceptSend
  <2>2. Expected'
    <3>1. Cardinality(Waiting') = Cardinality(Waiting) - 1
      BY <1>2, WaitingFinite, FS_RemoveElement
    <3>2. Cardinality(Waiting) \in Nat /\ turn \in Int
      BY WaitingFinite DEF TypeOK, Slots
    <3>3. booting => Cardinality(Waiting) <= N - turn
      BY <1>1 DEF Fresh, Expected
    <3>4. booting => Cardinality(Waiting') <= N - turn - 1
      BY <3>1, <3>2, <3>3, CountAssumption
    <3> QED BY <1>1, <2>1, <3>4 DEF Expected
  <2>3. ASSUME ~booting, ~broadcast
        PROVE  /\ Waiting' = {} /\ \A q \in Pids : ~Told(q)
               /\ proc[p].born = restarts
    BY <1>1, <1>2, <2>3 DEF Fresh, OneCopy
  <2>4. OneCopy'
    <3>1. \A q \in Pids : Told(q)' => Told(q)
      BY <1>1, <1>3 DEF Told
    <3> QED BY <1>1, <2>1, <2>3, <3>1 DEF OneCopy
  <2>5. Current'
    <3>1. \A i \in Slots : pid[i] # NoPid => pid[i] \in Pids
      BY DEF TypeOK
    <3> QED BY <1>1, <1>2, <1>3, <2>1, <2>3, <3>1 DEF Fresh, Current
  <2> QED BY <1>4, <2>2, <2>4, <2>5 DEF Fresh
<1> QED BY <1>5, <1>6

(* The last served at the start leaves nobody waiting. *)
LEMMA FreshReadPid ==
  ASSUME TypeOK, TypeOK', Inv, Fresh, ReadPid
  PROVE  Fresh'
<1>1. /\ pc = "read" /\ UNCHANGED <<pipes, restarts, backlog, proc, signals, broadcast>>
      /\ turn \in Slots
  BY DEF ReadPid, auxVars, TypeOK
<1>2. /\ Waiting' = Waiting /\ \A q \in Pids : Told(q)' <=> Told(q)
  BY <1>1, Zenon DEF Waiting, Told
<1>3. booting' => booting
  BY Zenon DEF ReadPid, AfterServe, ServedUpTo
<1>4. FirstPipes'
  BY <1>1, <1>3 DEF Fresh, FirstPipes
<1>5. CASE booting /\ turn < N-1 /\ pc' = "accept" /\ turn' = turn + 1 /\ booting'
  <2>1. Cardinality(Waiting) <= N - turn - 1 /\ Cardinality(Waiting) \in Nat
    BY <1>1, <1>5, WaitingFinite DEF Fresh, Expected
  <2>2. Cardinality(Waiting') <= N - turn'
    BY <1>1, <1>2, <1>5, <2>1, CountAssumption DEF Slots
  <2> QED BY <1>4, <1>5, <2>2 DEF Fresh, Expected, OneCopy, Current
<1>6. CASE pc' = "gone"
  BY <1>4, <1>6 DEF Fresh, Expected, OneCopy, Current
<1>7. CASE pc' = "run" /\ (booting => turn >= N-1)
  <2>1. Expected'
    BY <1>7 DEF Expected
  <2>2. OneCopy'
    <3>1. CASE booting
      <4>1. Cardinality(Waiting) <= N - turn - 1 /\ Cardinality(Waiting) \in Nat
        BY <1>1, <3>1, WaitingFinite DEF Fresh, Expected
      <4>2. Cardinality(Waiting) = 0
        BY <1>1, <1>7, <3>1, <4>1, CountAssumption DEF Slots
      <4>3. Waiting = {}
        BY <4>2, WaitingFinite, FS_EmptySet
      <4>4. \A q \in Pids : ~Told(q)
        BY <3>1 DEF Fresh, FirstPipes, Told
      <4> QED BY <1>2, <1>7, <4>3, <4>4 DEF OneCopy
    <3>2. CASE ~booting
      BY <1>1, <1>2, <1>7, <3>2 DEF Fresh, OneCopy
    <3> QED BY <3>1, <3>2
  <2>3. Current'
    <3>1. \A i \in Slots : pid'[i] # NoPid => pid'[i] \in Pids
      BY DEF TypeOK
    <3>2. CASE booting
      BY <1>1, <1>7, <3>1, <3>2 DEF Fresh, FirstPipes, Current
    <3>3. CASE ~booting
      <4>1. \/ pid' = [pid EXCEPT ![turn] = conn]
            \/ pid' = pid
        BY DEF ReadPid, RecordPid
      <4>2. pid \in [Slots -> Pids \cup {NoPid}]
        BY DEF TypeOK
      <4> QED BY <1>1, <1>7, <3>1, <3>3, <4>1, <4>2 DEF Fresh, Current
    <3> QED BY <3>2, <3>3
  <2> QED BY <1>4, <2>1, <2>2, <2>3 DEF Fresh
<1>8. \/ booting /\ turn < N-1 /\ pc' = "accept" /\ turn' = turn + 1 /\ booting'
      \/ pc' = "gone"
      \/ pc' = "run" /\ (booting => ~(turn < N-1))
  BY Zenon DEF ReadPid, AfterServe, ServedUpTo
<1>9. ~(turn < N-1) => turn >= N-1
  BY <1>1, CountAssumption DEF Slots
<1> QED BY <1>5, <1>6, <1>7, <1>8, <1>9

(* The index of the neighbour is one of a replica. *)
LEMMA NeighbourSlot == \A ee \in Slots : Neighbour(ee) \in Slots
BY CountAssumption DEF Neighbour, Slots

(* A restart sends its one signal when none is under way. *)
LEMMA FreshRestart ==
  ASSUME TypeOK, TypeOK', Inv, Fresh, NEW ee \in Slots, Restart(ee)
  PROVE  Fresh'
<1> DEFINE er == Neighbour(ee)
<1>1. /\ pc = "run" /\ pc' = "accept" /\ turn' = ee
      /\ UNCHANGED <<booting, backlog>>
      /\ pid' = [pid EXCEPT ![ee] = NoPid]
      /\ pipes' = [pipes EXCEPT ![ee] = restarts + 1]
      /\ restarts' = restarts + 1
  BY DEF Restart, socketVars
<1>2. \A q \in Pids : /\ proc'[q].born = proc[q].born
                      /\ proc'[q].stage = IF q \in KilledBy(ee) THEN "dead" ELSE proc[q].stage
                      /\ signals'[q] = IF q \in Signalled(ee) /\ proc'[q].stage # "dead"
                                         THEN signals[q] + 1 ELSE signals[q]
  BY DEF Restart, TypeOK, Processes
<1>3. ~booting /\ \A i \in Slots : Settled(i)
  BY <1>1 DEF Inv, Records
<1>4. FirstPipes' /\ Expected'
  BY <1>1, <1>3 DEF FirstPipes, Expected
<1>5. ASSUME ~broadcast'
      PROVE  ~broadcast /\ pid[er] # NoPid
  BY <1>5, Zenon DEF Restart
<1>6. OneCopy'
  <2> SUFFICES ASSUME ~broadcast'
               PROVE  /\ \A p, q \in Pids : Told(p)' /\ Told(q)' => p = q
                      /\ \A p \in Pids : Told(p)' => /\ signals'[p] = 1 /\ proc'[p].stage # "unborn"
                                                     /\ Waiting' = {}
                      /\ Waiting' = {}
    BY <1>1 DEF OneCopy
  <2>1. Waiting = {} /\ \A q \in Pids : ~Told(q)
    BY <1>1, <1>3, <1>5 DEF Fresh, OneCopy
  <2>2. Waiting' = {}
    BY <1>1, <1>2, <2>1, WaitingLess
  <2>3. Signalled(ee) = {pid[er]}
    BY <1>5 DEF Signalled, Addressed
  <2>4. pid[er] \in Pids /\ proc[pid[er]].stage # "unborn"
    BY <1>3, <1>5, NeighbourSlot, SettledHasPipes DEF Inv, Newcomers
  <2>5. ASSUME NEW p \in Pids, Told(p)'
        PROVE  p = pid[er] /\ signals'[p] = 1 /\ proc'[p].stage # "unborn"
    <3>1. proc'[p].stage # "dead" /\ signals'[p] # 0
      BY <2>5 DEF Told
    <3>2. proc[p].stage # "dead" /\ proc'[p].stage = proc[p].stage
      BY <1>2, <3>1
    <3>3. signals[p] = 0
      BY <2>1, <3>2 DEF Told
    <3>4. p = pid[er]
      BY <1>2, <2>3, <3>1, <3>3
    <3> QED BY <1>2, <2>3, <2>4, <3>1, <3>2, <3>3, <3>4
  <2> QED BY <2>2, <2>5
<1>7. Current'
  <2> SUFFICES ASSUME ~broadcast'
               PROVE  /\ pipes'[ee] = restarts'
                      /\ \A i \in Slots : pid'[i] # NoPid => proc'[pid'[i]].born = pipes'[i]
    BY <1>1 DEF Current
  <2>1. \A i \in Slots : pid[i] # NoPid => pid[i] \in Pids /\ proc[pid[i]].born = pipes[i]
    BY <1>1, <1>3, <1>5 DEF Fresh, Current, TypeOK
  <2> QED BY <1>1, <1>2, <2>1 DEF TypeOK
<1> QED BY <1>4, <1>6, <1>7 DEF Fresh

(* The signal becomes a process, or is lost with the fork. *)
LEMMA FreshRestartHandler ==
  ASSUME TypeOK, TypeOK', Inv, Fresh, NEW p \in Pids, RestartHandler(p)
  PROVE  Fresh'
<1>1. /\ proc[p].stage = "up" /\ signals[p] # 0 /\ signals' = [signals EXCEPT ![p] = @ - 1]
      /\ UNCHANGED <<voterVars, conn, backlog, broadcast>>
  BY DEF RestartHandler, socketVars, TypeOK
<1>2. ~booting /\ pc # "fork"
  BY <1>1 DEF Fresh, FirstPipes, Inv, Records
<1>3. FirstPipes' /\ Expected'
  BY <1>1, <1>2 DEF FirstPipes, Expected, voterVars
<1>4. Told(p)
  BY <1>1 DEF Told
<1>5. CASE broadcast \/ pc \notin {"accept", "read", "run"}
  BY <1>1, <1>3, <1>5 DEF Fresh, OneCopy, Current, voterVars
<1>6. CASE ~broadcast /\ pc \in {"accept", "read", "run"}
  <2>1. /\ pc = "accept" /\ signals[p] = 1 /\ Waiting = {}
        /\ \A q \in Pids : Told(q) => q = p
    BY <1>2, <1>4, <1>6 DEF Fresh, OneCopy
  <2>2. \A q \in Pids : signals'[q] = IF q = p THEN 0 ELSE signals[q]
    BY <1>1, <2>1 DEF TypeOK
  <2>3. CASE \E q \in Pids : Born(q)
    <3>1. PICK q \in Pids : Born(q)
      BY <2>3
    <3>2. /\ proc[q].stage = "unborn" /\ proc'[q].stage = "forked" /\ proc'[q].born = restarts
          /\ \A r \in Pids \ {q} : proc'[r] = proc[r]
      BY <3>1 DEF Born, TypeOK
    <3>3. Waiting' = {q}
      BY <1>1, <2>1, <3>1, WaitingBorn
    <3>4. \A r \in Pids : ~Told(r)'
      BY <2>1, <2>2, <3>2 DEF Told
    <3>5. OneCopy'
      BY <1>1, <2>1, <3>2, <3>3, <3>4 DEF OneCopy, voterVars
    <3>6. \A i \in Slots : pid[i] # NoPid => pid[i] \in Pids \ {q}
      BY <1>2, <2>1, <3>2, SettledHasPipes DEF Inv, Records, Newcomers
    <3>7. Current'
      BY <1>1, <1>2, <1>6, <2>1, <3>2, <3>6 DEF Fresh, Current, voterVars
    <3> QED BY <1>3, <3>5, <3>7 DEF Fresh
  <2>4. CASE UNCHANGED proc
    <3>1. Waiting' = {}
      BY <1>1, <2>1, <2>4, WaitingLess
    <3>2. \A r \in Pids : ~Told(r)'
      BY <2>1, <2>2, <2>4 DEF Told
    <3>3. OneCopy'
      BY <1>1, <2>1, <3>1, <3>2 DEF OneCopy, voterVars
    <3>4. Current'
      BY <1>1, <1>2, <1>6, <2>1, <2>4 DEF Fresh, Current, voterVars
    <3> QED BY <1>3, <3>3, <3>4 DEF Fresh
  <2> QED BY <2>3, <2>4 DEF RestartHandler
<1> QED BY <1>5, <1>6

(* No step breaks the count. *)
LEMMA FreshStep ==
  ASSUME TypeOK, TypeOK', Inv, Fresh, [Next]_vars
  PROVE  Fresh'
<1>1. ASSUME NEW p \in Pids, Connect(p) PROVE Fresh'
  <2>1. /\ UNCHANGED <<voterVars, conn, broadcast, signals>>
        /\ proc[p].stage = "forked"
    BY <1>1 DEF Connect, auxVars
  <2>2. /\ \A q \in Pids : proc'[q].born = proc[q].born
        /\ proc'[p].stage = "queued"
        /\ \A q \in Pids \ {p} : proc'[q].stage = proc[q].stage
    BY <1>1 DEF Connect, TypeOK, Processes
  <2> QED BY <1>1, <2>1, <2>2, FreshKept, WaitingConnect
<1>2. ASSUME NEW p \in Pids, SendPid(p) PROVE Fresh'
  <2>1. /\ UNCHANGED <<voterVars, conn, broadcast, signals, backlog>>
        /\ proc[p].stage = "served"
    BY <1>2 DEF SendPid, auxVars
  <2>2. /\ \A q \in Pids : proc'[q].born = proc[q].born
        /\ proc'[p].stage = "up"
        /\ \A q \in Pids \ {p} : proc'[q].stage = proc[q].stage
    BY <1>2 DEF SendPid, TypeOK, Processes
  <2>3. Waiting' \subseteq Waiting
    BY <2>1, <2>2, WaitingLess
  <2> QED BY <2>1, <2>2, <2>3, FreshKept
<1>3. ASSUME NEW p \in Pids, Die(p) PROVE Fresh'
  <2>1. /\ UNCHANGED <<voterVars, conn, broadcast, signals, backlog>>
        /\ proc[p].stage # "unborn"
    BY <1>3 DEF Die, Live, socketVars
  <2>2. /\ \A q \in Pids : proc'[q].born = proc[q].born
        /\ \A q \in Pids : proc'[q].stage = IF q = p THEN "dead" ELSE proc[q].stage
    BY <1>3 DEF Die, TypeOK, Processes
  <2>3. Waiting' \subseteq Waiting
    BY <2>1, <2>2, WaitingLess
  <2> QED BY <2>1, <2>2, <2>3, FreshKept
<1>4. CASE UNCHANGED vars
  <2>1. UNCHANGED <<voterVars, conn, broadcast, signals, proc, backlog>>
    BY <1>4 DEF vars, socketVars, auxVars
  <2>2. Waiting' \subseteq Waiting
    BY <2>1, WaitingLess
  <2> QED BY <2>1, <2>2, FreshKept
<1> QED BY <1>1, <1>2, <1>3, <1>4, FreshForkReplica, FreshAcceptSend, FreshReadPid,
           FreshRestart, FreshRestartHandler DEF Next, VoterStep

(***************************************************************************)
(* The replica that restartReplica leaves in service was forked by that    *)
(* restart: restartHandler's copy cannot be taken for one left waiting by  *)
(* an earlier failed restart, as long as no signal went to pid -1.         *)
(***************************************************************************)
THEOREM RestartedAreFresh == Spec => []FreshCopy
<1>1. Inv /\ Fresh => FreshCopy
  <2> SUFFICES ASSUME Inv, Fresh, pc = "run", ~broadcast
               PROVE  \A i \in Slots : pid[i] # NoPid => proc[pid[i]].born = pipes[i]
    BY DEF FreshCopy
  <2> QED BY DEF Inv, Records, Fresh, Current
<1> QED BY <1>1, FreshInit, FreshStep, InvHolds, HandshakeTyped, PTL DEF Spec
=============================================================================
