------------------------------- MODULE Voter -------------------------------
(***************************************************************************)
(* VoterD (voter/voterd.c) with the replicas it guards, for DMR and TMR.   *)
(*                                                                         *)
(* The voter is one thread; its steps are cut where it meets the kernel    *)
(* pipes or waits: the select of doOneUpdate, the read of the external     *)
(* pipe, the read of one replica's pipe with the vote on it, and the       *)
(* restart of a replica (steal its twin's input, wait for the fork, hand   *)
(* over).  A replica is a controller shaped like controllers/filter.c: it  *)
(* reads one message, computes, and writes one message to every output     *)
(* pipe in order.                                                          *)
(*                                                                         *)
(* Messages are numbered.  Input k yields output k on every pipe; a        *)
(* corrupted output is -k.  All messages of a pipe have one size, so       *)
(* counts and the ring index are in messages (VoteBuff has the bytes).     *)
(***************************************************************************)
EXTENDS Replicas, Sequences

CONSTANTS
  Configs,     \* the configurations of the voter to be checked
  MaxIn        \* bound: inputs the environment sends

(***************************************************************************)
(* What VoterD is told on its command line, what its surroundings are, and *)
(* bounds:                                                                 *)
(*   RepType      rep_type: "DMR" or "TMR"                                 *)
(*   NOut         outgoing pipes of the controller                         *)
(*   TimerStop    timer_stop_index: the timed one of them                  *)
(*   RealTime     voter_priority >= 5: RT replicas, no lag timer           *)
(*   Preempts     the voter runs on its replicas' CPU at a higher priority *)
(*   Ring         MAX_VOTE_PIPE_BUFF, in output messages                   *)
(*   Block        MAX_VOTE_PIPE_BUFF, in input messages: what one read of  *)
(*                an input pipe takes at most                              *)
(*   Window       inputs the environment has in flight at most             *)
(*   MaxFaults    bound: faults injected, one at a time                    *)
(*   FaultKinds   subset of {"crash", "hang", "sdc"}                       *)
(*   MaxLate      bound: expiries of the watchdog on healthy replicas      *)
(*                still at work                                            *)
(***************************************************************************)
ASSUME ConfigAssumption ==
  \A c \in Configs :
    /\ c.RepType \in {"DMR", "TMR"}
    /\ c.NOut \in Nat \ {0} /\ c.TimerStop \in 1 .. c.NOut
    /\ c.RealTime \in BOOLEAN /\ c.Preempts \in BOOLEAN
    /\ c.Ring \in Nat \ {0} /\ c.Block \in Nat \ {0} /\ c.Window \in Nat \ {0}
    /\ c.MaxFaults \in Nat /\ c.MaxLate \in Nat
    /\ c.FaultKinds \subseteq {"crash", "hang", "sdc"}
ASSUME BoundAssumption == MaxIn \in Nat

VARIABLE conf   \* the configuration: set by parseArgs, never changed

\* reptypeToCount
rep_count == IF conf.RepType = "TMR" THEN 3 ELSE 2
Reps == 0 .. rep_count - 1
Outs == 1 .. conf.NOut
AnyRep == 0 .. 2                       \* a replica of any configuration

Msg == 1 .. MaxIn                      \* input messages
Value == -MaxIn .. MaxIn               \* output messages, negative: corrupted

VARIABLES
  \* the voter
  pc,        \* where doOneUpdate stands
  timer,     \* timer_started
  ready,     \* select_set after select: what is left of it to read
  vot,       \* vot[p][r]: vote buffer of replica r on pipe p
  prio,      \* replicas[r].priority - replica_priority, as the voter records it
  job,       \* the restart in progress: restartee, restarter, stolen input
  \* kernel pipes
  extin,     \* external input pipe
  inq,       \* inq[r]: input pipe of replica r
  outq,      \* outq[p][r]: output pipe p of replica r
  sent,      \* sent[p]: everything written to external output pipe p
  \* the replica processes
  status,    \* "ok", "hung" (control flow error) or "dead"
  work,      \* outputs computed and not yet written
  sdc,       \* insertSDC: the next output computed will be wrong
  child,     \* the process the restarter has forked, not yet connected
  sched,     \* sched[r]: the priority the scheduler uses, like prio
  handler,   \* replicas still inside restartHandler, after its fork
  \* bounds
  given, faults, lates

voterVars == <<pc, timer, ready, vot, prio, job>>
pipeVars  == <<extin, inq, outq, sent>>
repVars   == <<status, work, sdc, child, sched, handler>>
bounds    == <<given, faults, lates>>
vars == <<conf, voterVars, pipeVars, repVars, bounds>>

----------------------------------------------------------------------------
(* Helpers.                                                                *)

Process == [status : {"ok", "hung"}, work : Seq([pipe : Outs, val : Value]),
            sdc : BOOLEAN]
NoChild == [status |-> "none"]

EmptyBuff == [index |-> 0, q |-> <<>>]
DropN(q, n) == SubSeq(q, n + 1, Len(q))

\* read(fd, buffer, n messages): what it takes; DropN is what it leaves.
TakeN(q, n) == SubSeq(q, 1, IF Len(q) <= n THEN Len(q) ELSE n)

Counts(v) == [p \in Outs |-> [r \in Reps |-> Len(v[p][r].q)]]

\* checkSync: on every pipe all replicas have the same number of votes.
checkSync == \A p \in Outs : \A r, s \in Reps : Len(vot[p][r].q) = Len(vot[p][s].q)

\* sched_set_policy on each replica: it may fail on a dead one, whose recorded
\* priority then stays.
SetPriorities(alive, wanted) ==
  /\ \E stuck \in SUBSET {r \in Reps : alive[r] = "dead"} :
        prio' = [r \in Reps |-> IF r \in stuck THEN prio[r] ELSE wanted[r]]
  /\ sched' = wanted

\* fakeToPipe on every replica (buffToPipe on the one that is sent).
AdvanceUnwrapped(v, p, n) ==
  [v EXCEPT ![p] = [r \in Reps |-> [index |-> v[p][r].index + n,
                                    q |-> DropN(v[p][r].q, n)]]]
Advance(v, p, n) ==
  [v EXCEPT ![p] = [r \in Reps |-> [index |-> (v[p][r].index + n) % conf.Ring,
                                    q |-> DropN(v[p][r].q, n)]]]

\* compareBuffs(a, b, n) = 0
Agree(a, b, n) == a.index = b.index /\ SubSeq(a.q, 1, n) = SubSeq(b.q, 1, n)

----------------------------------------------------------------------------
(* The processor.  InitTAS binds the voter and its replicas to one CPU and *)
(* initVoterD gives the replicas a priority below the voter's, so a        *)
(* replica runs only while the voter is blocked in a system call.          *)

\* What select reports: external input, which is asked for only when the replicas
\* are in sync, and the replicas' pipes that hold data.
SelectEverything == [ext |-> checkSync /\ extin # <<>>, rep |-> Outs \X Reps]
SelectSet ==
  [ext |-> checkSync /\ extin # <<>>,
   rep |-> {x \in Outs \X Reps : outq[x[1]][x[2]] # <<>>}]
Nothing == [ext |-> FALSE, rep |-> {}]

\* The order of the loops of doOneUpdate: pipe by pipe, replica by replica.
FirstReadyDescending ==
  CHOOSE x \in ready.rep :
     \A y \in ready.rep : x[1] > y[1] \/ (x[1] = y[1] /\ x[2] <= y[2])
FirstReady ==
  CHOOSE x \in ready.rep :
     \A y \in ready.rep : x[1] < y[1] \/ (x[1] = y[1] /\ x[2] <= y[2])

VoterBlocked ==
  \/ pc = "wait" /\ SelectSet = Nothing
  \/ pc = "rep" /\ outq[FirstReady[1]][FirstReady[2]] = <<>>
  \/ pc = "accept"

Signalled(r) == pc = "accept" /\ job.er = r /\ child = NoChild

Runnable(r) ==
  \/ status[r] = "hung" \/ r \in handler
  \/ status[r] = "ok" /\ (work[r] # <<>> \/ inq[r] # <<>>)

\* RT replicas: fixed priorities, equal ones share (SCHED_RR).
HasCpu(r) ==
  /\ conf.Preempts => VoterBlocked
  /\ conf.RealTime => \A s \in Reps : Runnable(s) => sched[s] <= sched[r]

\* A signal is delivered before the process does anything else, but not while it
\* is still in the handler of the last one.
MayRun(r) == HasCpu(r) /\ r \notin handler /\ (conf.Preempts => ~Signalled(r))

----------------------------------------------------------------------------
(* The environment and the replicas.                                       *)

Init ==
  /\ conf \in Configs
  /\ pc = "top" /\ timer = FALSE /\ ready = Nothing
  /\ vot = [p \in Outs |-> [r \in Reps |-> EmptyBuff]]
  /\ prio = [r \in Reps |-> 0]
  /\ job = [ee |-> 0, er |-> 0, stolen |-> <<>>, ret |-> "select"]
  /\ extin = <<>>
  /\ inq = [r \in Reps |-> <<>>]
  /\ outq = [p \in Outs |-> [r \in Reps |-> <<>>]]
  /\ sent = [p \in Outs |-> <<>>]
  /\ status = [r \in Reps |-> "ok"]
  /\ work = [r \in Reps |-> <<>>]
  /\ sdc = [r \in Reps |-> FALSE]
  /\ child = NoChild /\ handler = {}
  /\ sched = [r \in Reps |-> 0]
  /\ given = 0 /\ faults = 0 /\ lates = 0

\* The component upstream.  The Benchmarker calls it an error to send while it
\* still waits for an answer: where the sensor period leaves the cycle its time,
\* Window = 1; a burst is Window = 2.
EnvSend ==
  /\ given < MaxIn
  /\ given - Len(sent[conf.TimerStop]) < conf.Window
  /\ given' = given + 1
  /\ extin' = Append(extin, given + 1)
  /\ UNCHANGED <<voterVars, inq, outq, sent, repVars, faults, lates>>

\* A controller reads one message and computes its outputs; insertSDC corrupts
\* what command() is about to write, once.
RepRead(r) ==
  /\ status[r] = "ok" /\ work[r] = <<>> /\ inq[r] # <<>>
  /\ MayRun(r)
  /\ LET v == IF sdc[r] THEN -Head(inq[r]) ELSE Head(inq[r])
     IN  work' = [work EXCEPT ![r] = [p \in Outs |-> [pipe |-> p, val |-> v]]]
  /\ sdc' = [sdc EXCEPT ![r] = FALSE]
  /\ inq' = [inq EXCEPT ![r] = Tail(@)]
  /\ UNCHANGED <<voterVars, extin, outq, sent, status, child, sched, handler, bounds>>

\* It writes the outputs one pipe after the other.
RepWrite(r) ==
  /\ status[r] = "ok" /\ work[r] # <<>>
  /\ MayRun(r)
  /\ LET w == Head(work[r])
     IN  outq' = [outq EXCEPT ![w.pipe][r] = Append(@, w.val)]
  /\ work' = [work EXCEPT ![r] = Tail(@)]
  /\ UNCHANGED <<voterVars, extin, inq, sent, status, sdc, child, sched, handler, bounds>>

\* restartHandler in the restarter: fork; the child has its parent's memory,
\* also when the signal interrupts a computation or an endless loop.
Fork ==
  /\ Signalled(job.er) /\ status[job.er] # "dead" /\ job.er \notin handler
  /\ child' = [status |-> status[job.er], work |-> work[job.er], sdc |-> sdc[job.er]]
  /\ handler' = handler \cup {job.er}
  /\ UNCHANGED <<voterVars, pipeVars, status, work, sdc, sched, bounds>>

\* The parent's end of the handler: InitTAS with the priority it was started with,
\* whatever the voter has set since.
Resume(r) ==
  /\ r \in handler /\ status[r] # "dead"
  /\ HasCpu(r)
  /\ handler' = handler \ {r}
  /\ sched' = [sched EXCEPT ![r] = 0]
  /\ UNCHANGED <<voterVars, pipeVars, status, work, sdc, child, bounds>>

----------------------------------------------------------------------------
(* Single event upsets: one at a time.  The next one strikes only after    *)
(* the effects of the last are gone: all replicas live and in step, their  *)
(* priorities as recorded, and the watchdog, which a restart stops, not    *)
(* needed or running again.                                                *)

Ideal(n) == [k \in 1 .. n |-> k]

\* A controller has at most one message left to write to each pipe.
Owed(w, p) ==
  LET mine == {i \in DOMAIN w : w[i].pipe = p}
  IN  IF mine = {} THEN <<>> ELSE <<w[CHOOSE i \in mine : TRUE].val>>
Pending(p, r) == Owed(work[r], p)

\* All outputs of replica r on pipe p, past and to come, from the inputs the
\* voter has handed out.
Stream(p, r) == sent[p] \o vot[p][r].q \o outq[p][r] \o Pending(p, r) \o inq[r]

InStep(r) == \A p \in Outs : Stream(p, r) = Ideal(given - Len(extin))

Restarting == pc \in {"steal", "accept"}

Healthy == \A r \in Reps : status[r] = "ok" /\ ~sdc[r] /\ InStep(r)

Recovered ==
  /\ ~Restarting /\ Healthy
  /\ handler = {} /\ sched = prio
  /\ timer \/ \A p \in Outs : Len(sent[p]) = given - Len(extin)

Upset == faults < conf.MaxFaults /\ Recovered /\ faults' = faults + 1

\* The process dies, or its control flow goes wrong and it spins for ever.
Crash(r) ==
  /\ Upset /\ "crash" \in conf.FaultKinds
  /\ status' = [status EXCEPT ![r] = "dead"]
  /\ UNCHANGED <<voterVars, pipeVars, work, sdc, child, sched, handler, given, lates>>

Hang(r) ==
  /\ Upset /\ "hang" \in conf.FaultKinds
  /\ status' = [status EXCEPT ![r] = "hung"]
  /\ UNCHANGED <<voterVars, pipeVars, work, sdc, child, sched, handler, given, lates>>

Corrupt(r) ==
  /\ Upset /\ "sdc" \in conf.FaultKinds
  /\ sdc' = [sdc EXCEPT ![r] = TRUE]
  /\ UNCHANGED <<voterVars, pipeVars, status, work, child, sched, handler, given, lates>>

----------------------------------------------------------------------------
(* The voter.                                                              *)

\* A replica is answering when it has input to work on, or its answer is in a
\* pipe.  A timely expiry of the watchdog leaves it the time to do so; an early
\* one is a disturbance of its own, and strikes healthy replicas.
Starved(r) == conf.RealTime /\ \E s \in Reps : status[s] = "hung" /\ sched[s] > sched[r]
Working(r) == status[r] = "ok" /\ (work[r] # <<>> \/ inq[r] # <<>>) /\ ~Starved(r)
Answering == (\E r \in Reps : Working(r)) \/ SelectSet.rep # {}

NeighbourSelf(r) == (r + rep_count) % rep_count
Neighbour(r) == (r + (rep_count - 1)) % rep_count

\* voterRestartHandler on the watchdog: the one behind on the timer pipe is
\* restarted from its neighbour.  The timer is looked at when an iteration
\* starts, which is also what happens when select times out; only without
\* preemption can an answer arrive between that timeout and the look.
voterRestartHandler ==
  LET ee == behindRep(Counts(vot)[conf.TimerStop], prio)
  IN  job' = [ee |-> ee, er |-> Neighbour(ee), stolen |-> <<>>, ret |-> "select"]

Expire ==
  /\ timer
  /\ pc = "top" \/ (pc = "wait" /\ (conf.Preempts => SelectSet = Nothing))
  /\ \/ ~Answering /\ UNCHANGED lates
     \/ Answering /\ Healthy /\ lates < conf.MaxLate /\ lates' = lates + 1
  /\ voterRestartHandler
  /\ pc' = "steal"
  /\ UNCHANGED <<timer, ready, vot, prio, pipeVars, repVars, given, faults>>

\* The rest of doOneUpdate up to and with select.  External input is looked at
\* only when the replicas are in sync; if they are not, a non-RT voter starts
\* the timer.  select itself times out and the loop comes round: from "wait" to
\* "wait".
Select ==
  /\ pc \in {"top", "select", "wait"}
  /\ timer' = (timer \/ ~(checkSync \/ conf.RealTime))
  /\ ready' = SelectSet
  /\ pc' = IF SelectSet.ext THEN "ext" ELSE IF SelectSet.rep # {} THEN "rep" ELSE "wait"
  /\ UNCHANGED <<vot, prio, job, pipeVars, repVars, bounds>>

\* processData: start the timer, balance, write the data to every replica.
processData(data) ==
  /\ timer' = TRUE
  /\ SetPriorities(status, balanceReps(Counts(vot), rep_count))
  /\ inq' = [r \in Reps |-> inq[r] \o data]

\* One read takes a block of what is there; the rest waits for the next select.
ReadExt ==
  /\ pc = "ext"
  /\ processData(TakeN(extin, conf.Block))
  /\ extin' = DropN(extin, conf.Block)
  /\ ready' = [ready EXCEPT !.ext = FALSE]
  /\ pc' = IF ready.rep # {} THEN "rep" ELSE "top"
  /\ UNCHANGED <<vot, job, outq, sent, status, work, sdc, child, handler, bounds>>

\* pipeToBuff: what does not fit is read and lost.
PipeToBuff(b, block) ==
  IF Len(block) < conf.Ring - Len(b.q) THEN [b EXCEPT !.q = @ \o block] ELSE b

\* checkSDC, as a verdict: nothing to do, send the bytes of a replica, or restart
\* the one that disagrees with two that agree.
Wait == [do |-> "wait"]
SendOf(r) == [do |-> "send", rep |-> r]
RestartOf(ee, er) == [do |-> "restart", ee |-> ee, er |-> er]

checkSDC(v, p) ==
  LET n == bytesReady(Counts(v)[p])
      b == v[p]
      Next3(r, d) == (r + d) % rep_count
      pairs == {r \in Reps : Agree(b[r], b[Next3(r, 1)], n)}
      first == CHOOSE r \in pairs : \A s \in pairs : r <= s
  IN  IF n = 0 THEN Wait
      ELSE IF conf.RepType = "DMR" THEN SendOf(0)
      ELSE IF pairs = {} THEN Wait
      ELSE IF Agree(b[first], b[Next3(first, 2)], n) THEN SendOf(first)
      ELSE RestartOf(Next3(first, 2), first)

\* sendPipe
SendPipe(v, p, r) ==
  LET n == bytesReady(Counts(v)[p])
  IN  [out |-> SubSeq(v[p][r].q, 1, n), vot |-> Advance(v, p, n)]

\* processFromRep for the first descriptor left in select_set.  The read blocks
\* while the pipe is empty, and takes a ring of messages at most.
FromRep ==
  /\ pc = "rep"
  /\ LET p == FirstReady[1]
         r == FirstReady[2]
         v == [vot EXCEPT ![p][r] = PipeToBuff(@, outq[p][r])]
         fits == Len(outq[p][r]) < conf.Ring - Len(vot[p][r].q)
         verdict == IF fits THEN checkSDC(v, p) ELSE Wait
         left == ready.rep \ {<<p, r>>}
         onward == IF left = {} THEN "top" ELSE "rep"
     IN  /\ outq[p][r] # <<>>
         /\ outq' = [outq EXCEPT ![p][r] = DropN(@, conf.Ring)]
         /\ ready' = [ready EXCEPT !.rep = left]
         /\ IF fits THEN SetPriorities(status, balanceReps(Counts(v), rep_count))
                    ELSE UNCHANGED <<prio, sched>>
         /\ \/ /\ verdict.do = "wait"
               /\ vot' = v /\ pc' = onward
               /\ UNCHANGED <<timer, sent, job>>
            \/ /\ verdict.do = "send"
               /\ LET s == SendPipe(v, p, verdict.rep)
                  IN  vot' = s.vot /\ sent' = [sent EXCEPT ![p] = @ \o s.out]
               /\ timer' = (timer /\ p # conf.TimerStop)
               /\ pc' = onward
               /\ UNCHANGED job
            \/ /\ verdict.do = "restart"
               /\ vot' = v /\ pc' = "steal"
               /\ job' = [ee |-> verdict.ee, er |-> verdict.er, stolen |-> <<>>,
                          ret |-> IF left = {} THEN "top" ELSE "rep"]
               /\ UNCHANGED <<timer, sent>>
  /\ UNCHANGED <<extin, inq, status, work, sdc, child, handler, bounds>>

\* stealPipes(restarter): a block of its pending input.  returnPipes(r): the same
\* input back, behind what was left or has come since.
stealPipesDropping(r) == <<>>
stealPipes(r) == TakeN(inq[r], conf.Block)
returnPipesRestarter(r, stolen) == IF r = job.er THEN inq[r] \o stolen ELSE inq[r]
returnPipes(r, stolen) == inq[r] \o stolen

\* cleanupReplica: kill the process; its pipes go with it.
cleanupReplica(ee) ==
  /\ status' = [status EXCEPT ![ee] = "dead"]
  /\ work' = [work EXCEPT ![ee] = <<>>]
  /\ sdc' = [sdc EXCEPT ![ee] = FALSE]
  /\ handler' = handler \ {ee}

\* "Make the restarter the most special of all the replicas": the others, and the
\* restartee by initReplicas, have the default priority.
RestarterFirst(ee, er) ==
  LET wanted == [r \in Reps |-> IF r = er THEN 2 ELSE 0]
  IN  /\ \E stuck \in SUBSET {r \in Reps \ {ee} : status[r] = "dead"} :
            prio' = [r \in Reps |-> IF r \in stuck THEN prio[r] ELSE wanted[r]]
      /\ sched' = wanted

\* initReplicas and createPipes for the restartee: fresh pipes, empty votes.
createPipes(ee) ==
  /\ outq' = [p \in Outs |-> [outq[p] EXCEPT ![ee] = <<>>]]
  /\ vot' = [p \in Outs |-> [vot[p] EXCEPT ![ee] = EmptyBuff]]

\* restart_prep up to the accept: take the restarter's pending input, stop the
\* timer, kill the restartee, signal the restarter, make new pipes.
Steal ==
  /\ pc = "steal"
  /\ job' = [job EXCEPT !.stolen = stealPipes(job.er)]
  /\ inq' = [inq EXCEPT ![job.er] = DropN(@, conf.Block), ![job.ee] = <<>>]
  /\ timer' = FALSE
  /\ cleanupReplica(job.ee)
  /\ RestarterFirst(job.ee, job.er)
  /\ createPipes(job.ee)
  /\ pc' = "accept"
  /\ UNCHANGED <<ready, extin, sent, child, bounds>>

\* The child has connected (acceptSendFDS): balance, copy the restarter's votes
\* to it and send what all have, pipe by pipe, then give both the stolen input.
CopyVotesOnly(v, ee, er) ==
  [p \in Outs |-> [v[p] EXCEPT ![ee] = [@ EXCEPT !.q = v[p][er].q]]]
CopyVotes(v, ee, er) == [p \in Outs |-> [v[p] EXCEPT ![ee] = v[p][er]]]

HandOver ==
  /\ pc = "accept" /\ child # NoChild
  /\ LET ee == job.ee
         er == job.er
         v == CopyVotes(vot, ee, er)
     IN  /\ status' = [status EXCEPT ![ee] = child.status]
         /\ work' = [work EXCEPT ![ee] = child.work]
         /\ sdc' = [sdc EXCEPT ![ee] = child.sdc]
         /\ SetPriorities(status', balanceReps(Counts(vot), rep_count))
         /\ vot' = [p \in Outs |-> SendPipe(v, p, er).vot[p]]
         /\ sent' = [p \in Outs |-> sent[p] \o SendPipe(v, p, er).out]
         /\ inq' = [inq EXCEPT ![ee] = returnPipes(ee, job.stolen),
                             ![er] = returnPipes(er, job.stolen)]
  /\ child' = NoChild
  /\ pc' = job.ret
  /\ job' = [job EXCEPT !.stolen = <<>>]
  /\ UNCHANGED <<timer, ready, extin, outq, handler, bounds>>

----------------------------------------------------------------------------
RepStep(r) ==
  r \in Reps /\ (RepRead(r) \/ RepWrite(r) \/ Resume(r)) /\ UNCHANGED conf

Step ==
  \/ EnvSend
  \/ \E r \in Reps : RepRead(r)
  \/ \E r \in Reps : RepWrite(r)
  \/ Fork
  \/ \E r \in Reps : Resume(r)
  \/ \E r \in Reps : Crash(r)
  \/ \E r \in Reps : Hang(r)
  \/ \E r \in Reps : Corrupt(r)
  \/ Expire \/ Select \/ ReadExt \/ FromRep \/ Steal \/ HandOver

Next == Step /\ UNCHANGED conf

Spec == Init /\ [][Next]_vars

\* The voter has a step to take.
VoterReady ==
  \/ pc \in {"top", "select", "ext", "steal"}
  \/ pc \in {"wait", "rep"} /\ ~VoterBlocked
  \/ pc = "accept" /\ child # NoChild

\* Every process keeps running: the voter, when it has a step to take, takes one
\* (weak fairness, written with VoterReady for ENABLED), a replica that may run
\* does, a signal is delivered, time passes until the watchdog has expired.
Fairness ==
  /\ []<>(~VoterReady) \/ []<><<TRUE>>_voterVars
  /\ WF_vars(Expire /\ ~Answering /\ UNCHANGED conf)
  /\ WF_vars(Fork /\ UNCHANGED conf)
  /\ \A r \in AnyRep : WF_vars(RepStep(r))

FairSpec == Spec /\ Fairness
----------------------------------------------------------------------------
(* Properties.                                                             *)

Buff == [index : 0 .. conf.Ring - 1, q : Seq(Value)]

\* The types of the voter's and the replicas' state.
TypeOK ==
  /\ conf \in Configs
  /\ pc \in {"top", "select", "wait", "ext", "rep", "steal", "accept"}
  /\ timer \in BOOLEAN
  /\ ready \in [ext : BOOLEAN, rep : SUBSET (Outs \X Reps)]
  /\ vot \in [Outs -> [Reps -> Buff]]
  /\ prio \in [Reps -> 0 .. 2]
  /\ job \in [ee : Reps, er : Reps, stolen : Seq(Msg), ret : {"select", "top", "rep"}]
  /\ extin \in Seq(Msg)
  /\ inq \in [Reps -> Seq(Msg)]
  /\ outq \in [Outs -> [Reps -> Seq(Value)]]
  /\ sent \in [Outs -> Seq(Value)]
  /\ status \in [Reps -> {"ok", "hung", "dead"}]
  /\ work \in [Reps -> Seq([pipe : Outs, val : Value])]
  /\ sdc \in [Reps -> BOOLEAN]
  /\ child \in Process \cup {NoChild}
  /\ sched \in [Reps -> 0 .. 2]
  /\ handler \in SUBSET Reps
  /\ given \in 0 .. MaxIn /\ faults \in 0 .. conf.MaxFaults /\ lates \in 0 .. conf.MaxLate

\* Triple redundancy masks single upsets: what leaves the voter on each pipe is
\* the fault-free stream of outputs, none wrong, lost, repeated or out of order,
\* through crashes, hangs, corrupted votes and restarts (DoesNotFail, below, says
\* this and in which order the pipes are written).
Masked == \A p \in Outs : sent[p] = Ideal(Len(sent[p]))

\* compareBuffs refuses buffers at different ring indices, so all replicas must
\* stay at one index per pipe, across sends and restarts.
IndexesAligned ==
  pc # "accept" =>
    \A p \in Outs : \A r, s \in Reps : vot[p][r].index = vot[p][s].index

\* voterd.c:192 "The failed rep should be the one behind on the timer pipe": a
\* replica that has failed is the one restarted, and so never the restarter,
\* for whose fork the voter waits without a timeout.
RestartsTheFailed ==
  conf.Preempts /\ pc = "steal" => \A r \in Reps : status[r] # "ok" => r = job.ee

\* The voter never blocks in the read of a replica's pipe: a descriptor left in
\* select_set when the replica behind it is restarted does not lead it there.
ReadsNeverBlock == conf.Preempts /\ pc = "rep" => outq[FirstReady[1]][FirstReady[2]] # <<>>

\* vote_buff.c:67 "Vote_buff overflow!!!": pipeToBuff then loses what it has read.
\* Whatever upset strikes, what waits in a replica's pipe fits into its buffer.
VotesFit ==
  conf.Preempts /\ pc = "rep" =>
    \A p \in Outs, r \in Reps : Len(outq[p][r]) < conf.Ring - Len(vot[p][r].q)

\* What voterd.c reads of an input pipe, of the external one to hand it out
\* (voterd.c:344) or of the restarter's to return it (voterd.c:226), fits into its
\* one buffer; what is stolen is otherwise returned behind what was not.
InputFits ==
  /\ pc = "ext" => Len(extin) <= conf.Block
  /\ pc = "steal" => Len(inq[job.er]) <= conf.Block

\* Every live replica owes, buffers, pipes and input together, exactly the
\* outputs the others do: a restart neither skips nor repeats a message for the
\* new replica or for the one it was forked from.
Magnitude(q) == [k \in 1 .. Len(q) |-> IF q[k] < 0 THEN -q[k] ELSE q[k]]
SurvivorsInStep ==
  conf.Preempts => \A r \in Reps : status[r] # "dead" =>
    \A p \in Outs :
       Magnitude(Stream(p, r) \o (IF r = job.er THEN job.stolen ELSE <<>>))
         = Ideal(given - Len(extin))

\* replicas.c:113 "most behind rep gets data first": after a vote has arrived, and
\* what all have is sent, a live replica at the top priority is one of those
\* furthest behind over all pipes, while the dead fall back and their recorded
\* priorities stay.
Furthest(cnt) == {r \in Reps : \A s \in Reps : rep_gap(cnt, s) <= rep_gap(cnt, r)}
MostBehindFirst ==
  [][pc = "rep" /\ ready' # ready /\ pc' # "steal" =>
       \A r \in Reps : status[r] = "ok" /\ prio'[r] = 2 => r \in Furthest(Counts(vot'))]_vars

\* Every input is answered, whatever upset strikes on the way.
Answered ==
  \A k \in Msg : (conf.Preempts /\ given >= k) ~> (\A p \in Outs : Len(sent[p]) >= k)

\* A replica that has failed and is handed an input is replaced by a live one.
FailedAtWork(r) == conf.RealTime /\ r \in Reps /\ status[r] # "ok" /\ inq[r] # <<>>
Alive(r) == r \in Reps => status[r] = "ok"
Repaired == \A r \in AnyRep : FailedAtWork(r) ~> Alive(r)

\* voterd.c and its replicas are, to the components at the far ends of their pipes,
\* one controller that does not fail: whatever strikes and whatever is restarted,
\* they see the steps of Component.
Reliable == INSTANCE Component
DoesNotFail == Reliable!Spec
=============================================================================
