------------------------------ MODULE VoterSMR ------------------------------
(***************************************************************************)
(* VoterD (voter/voterd.c) guarding a single replica: rep_type SMR.  There *)
(* is nobody to fork from, so a replica that exits (found by waitpid) or   *)
(* is late (the watchdog) is started cold, and the last data read from the *)
(* external pipe is sent to it again.                                      *)
(*                                                                         *)
(* A process is identified by its pid; a pid is free again when its        *)
(* process has been reaped.  A killed process becomes a zombie some time   *)
(* after the kill ("Seems to take a while for to clean up zombies",        *)
(* voterd.c:274).  Input k yields output k on the one output pipe, which   *)
(* is the timed one.                                                       *)
(***************************************************************************)
EXTENDS Integers, SequencesExt

CONSTANTS
  Window,     \* inputs in flight at most
  MaxIn,      \* bound: inputs sent
  MaxFaults,  \* bound: faults injected
  MaxPid,     \* bound: processes not yet reaped at one time
  MaxLate     \* bound: expiries of the watchdog while the replica still works

ASSUME BoundAssumption ==
  /\ Window \in Nat \ {0} /\ MaxPid \in Nat \ {0}
  /\ MaxIn \in Nat /\ MaxFaults \in Nat /\ MaxLate \in Nat

Msg == 1 .. MaxIn
Pids == 1 .. MaxPid

VARIABLES
  pc,         \* where doOneUpdate stands
  timer,      \* timer_started
  expired,    \* the time since watchdog exceeds voting_timeout
  last_dead,  \* the pid last given up by the voter, 0 before that
  buff,       \* ext_pipes[].buffer: the last data read from the external pipe
  ready,      \* select_set after select
  extin, inq, outq,   \* kernel pipes, as in Voter
  answered,   \* the input whose answer was sent last, 0 before that
  pid,        \* replicas[0].pid
  status,     \* of that process: "ok", "hung" or "dead"
  work,       \* outputs computed and not yet written
  dying,      \* killed processes that have not exited yet
  zombies,    \* exited children waitpid has not reported
  killed,     \* history: the unreaped processes the voter killed alive
  given, faults, lates

voterVars == <<pc, timer, expired, last_dead, buff, ready, pid>>
pipeVars == <<extin, inq, outq, answered>>
procVars == <<status, work, dying, zombies, killed>>
bounds == <<given, faults, lates>>
vars == <<voterVars, pipeVars, procVars, bounds>>

Nothing == [ext |-> FALSE, rep |-> FALSE]

Init ==
  /\ pc = "top" /\ timer = FALSE /\ expired = FALSE /\ last_dead = 0
  /\ buff = <<>> /\ ready = Nothing /\ pid = 1
  /\ extin = <<>> /\ inq = <<>> /\ outq = <<>> /\ answered = 0
  /\ status = "ok" /\ work = <<>> /\ dying = {} /\ zombies = {} /\ killed = {}
  /\ given = 0 /\ faults = 0 /\ lates = 0

----------------------------------------------------------------------------
(* The environment, the replica and its faults.                            *)

EnvSend ==
  /\ given < MaxIn
  /\ given - answered < Window
  /\ given' = given + 1
  /\ extin' = Append(extin, given + 1)
  /\ UNCHANGED <<voterVars, inq, outq, answered, procVars, faults, lates>>

RepRead ==
  /\ status = "ok" /\ work = <<>> /\ inq # <<>>
  /\ work' = <<Head(inq)>> /\ inq' = Tail(inq)
  /\ UNCHANGED <<voterVars, extin, outq, answered, status, dying, zombies, killed, bounds>>

RepWrite ==
  /\ status = "ok" /\ work # <<>>
  /\ outq' = outq \o work /\ work' = <<>>
  /\ UNCHANGED <<voterVars, extin, inq, answered, status, dying, zombies, killed, bounds>>

\* One upset at a time: the next strikes when the effects of the last are gone:
\* the process it cost is reaped, its resent data answered, and the watchdog,
\* which a restart after an exit leaves stopped, not needed or running again.
Recovered ==
  /\ status = "ok" /\ dying = {} /\ zombies = {}
  /\ outq \o work \o inq = [k \in 1 .. given - Len(extin) - answered |-> answered + k]
  /\ timer \/ answered = given - Len(extin)

Upset == faults < MaxFaults /\ Recovered /\ faults' = faults + 1

\* The replica exits on its own (controllers/load.c runs out of memory), or
\* stops making progress.
Crash ==
  /\ Upset
  /\ status' = "dead" /\ zombies' = zombies \cup {pid}
  /\ UNCHANGED <<voterVars, pipeVars, work, dying, killed, given, lates>>

Hang ==
  /\ Upset
  /\ status' = "hung"
  /\ UNCHANGED <<voterVars, pipeVars, work, dying, zombies, killed, given, lates>>

\* A process that was killed exits.
Exit(p) ==
  /\ p \in dying
  /\ dying' = dying \ {p} /\ zombies' = zombies \cup {p}
  /\ UNCHANGED <<voterVars, pipeVars, status, work, killed, bounds>>

\* Time passes until the watchdog has expired; a select that has nothing to
\* return ends then.  A timely replica answers before that.
Answering == status = "ok" /\ (work # <<>> \/ inq # <<>> \/ outq # <<>>)
InTime ==
  \/ ~Answering /\ UNCHANGED lates
  \/ Answering /\ lates < MaxLate /\ lates' = lates + 1

Elapse ==
  /\ timer /\ ~expired
  /\ InTime
  /\ expired' = TRUE
  /\ pc' = IF pc = "select" /\ extin = <<>> /\ outq = <<>> THEN "top" ELSE pc
  /\ UNCHANGED <<timer, last_dead, buff, ready, pid, pipeVars, procVars, given, faults>>

----------------------------------------------------------------------------
(* The voter.                                                              *)

\* The data the restarted replica is given: "Resend last data".
ResendNothing == <<>>
Resend == buff

\* voterRestartHandler: remember and kill the old process, start a new one on
\* fresh pipes, and processData the last data again.
FreePids == Pids \ ({pid} \cup dying \cup zombies)
FreePid == CHOOSE p \in FreePids : TRUE

\* The pid remembered: the old one, read before startReplicas stores the new one.
GivenUpLate(old, new) == new
GivenUp(old, new) == old

RestartHandler(reaped) ==
  /\ FreePids # {}
  /\ last_dead' = GivenUp(pid, FreePid)
  /\ dying' = IF status = "dead" THEN dying ELSE dying \cup {pid}
  /\ killed' = (killed \ reaped) \cup (dying' \ dying)
  /\ zombies' = zombies \ reaped
  /\ pid' = FreePid
  /\ status' = "ok" /\ work' = <<>>
  /\ inq' = Resend /\ outq' = <<>>

\* waitpid(-1, WNOHANG) reports one exited child; one that is not the last the
\* voter gave up has exited on its own.  The handler's processData starts the
\* timer, the assignment after it stops it again.
OwnExitAny(p) == TRUE
OwnExit(p) == p # last_dead
TimerAfterReap == FALSE

Reap ==
  /\ pc = "top"
  /\ \/ /\ zombies = {}
        /\ UNCHANGED <<timer, expired, last_dead, pid, inq, outq, procVars>>
     \/ \E p \in zombies :
           /\ OwnExit(p)
           /\ RestartHandler({p})
           /\ timer' = TimerAfterReap /\ expired' = FALSE
     \/ \E p \in zombies :
           /\ ~OwnExit(p)
           /\ zombies' = zombies \ {p} /\ killed' = killed \ {p}
           /\ UNCHANGED <<timer, expired, last_dead, pid, inq, outq, status, work, dying>>
  /\ pc' = "timer"
  /\ UNCHANGED <<buff, ready, extin, answered, bounds>>

\* The watchdog.  timer_started and watchdog keep their values: processData sets
\* them only when the timer is not running.
CheckTimer ==
  /\ pc = "timer"
  /\ IF timer /\ expired
     THEN RestartHandler({})
     ELSE UNCHANGED <<last_dead, pid, inq, outq, procVars>>
  /\ pc' = "select"
  /\ UNCHANGED <<timer, expired, buff, ready, extin, answered, bounds>>

\* A lone replica is always in sync, so both kinds of pipe are selected.
Select ==
  /\ pc = "select"
  /\ extin # <<>> \/ outq # <<>>
  /\ ready' = [ext |-> extin # <<>>, rep |-> outq # <<>>]
  /\ pc' = IF extin # <<>> THEN "ext" ELSE "rep"
  /\ UNCHANGED <<timer, expired, last_dead, buff, pid, pipeVars, procVars, bounds>>

\* Without a running watchdog, or with one that has just expired, select gives
\* up after 50 ms, in which a timely replica answers too.
SelectTimeout ==
  /\ pc = "select"
  /\ extin = <<>> /\ outq = <<>>
  /\ timer => expired
  /\ InTime
  /\ pc' = "top"
  /\ UNCHANGED <<timer, expired, last_dead, buff, ready, pid, pipeVars, procVars,
                 given, faults>>

\* Read the external pipe and processData.  The read overwrites the buffer.
LastDataAccumulated(read) == buff \o read
LastData(read) == read

ReadExt ==
  /\ pc = "ext"
  /\ buff' = LastData(extin) /\ extin' = <<>>
  /\ inq' = inq \o extin
  /\ timer' = TRUE
  /\ expired' = (timer /\ expired)
  /\ pc' = IF ready.rep THEN "rep" ELSE "top"
  /\ UNCHANGED <<last_dead, ready, pid, outq, answered, procVars, bounds>>

\* processFromRep: checkSDC trusts the one replica, sendPipe stops the timer.
FromRep ==
  /\ pc = "rep"
  /\ outq # <<>>
  /\ answered' = Last(outq) /\ outq' = <<>>
  /\ timer' = FALSE /\ expired' = FALSE
  /\ pc' = "top"
  /\ UNCHANGED <<last_dead, buff, ready, pid, extin, inq, procVars, bounds>>

Next ==
  \/ EnvSend \/ RepRead \/ RepWrite \/ Crash \/ Hang \/ Elapse
  \/ \E p \in Pids : Exit(p)
  \/ Reap \/ CheckTimer \/ Select \/ SelectTimeout \/ ReadExt \/ FromRep

Spec == Init /\ [][Next]_vars

\* The loop of the voter goes round, the replica runs, the killed exit, time
\* passes.
Fairness ==
  /\ WF_vars(Reap \/ CheckTimer \/ Select \/ SelectTimeout \/ ReadExt \/ FromRep)
  /\ WF_vars(RepRead \/ RepWrite)
  /\ \A p \in Pids : WF_vars(Exit(p))
  /\ SF_vars(Elapse /\ ~Answering)

FairSpec == Spec /\ Fairness

----------------------------------------------------------------------------
(* Properties.                                                             *)

\* The types of the state; the process in service is neither one that has been
\* given up nor one that is dying.
TypeOK ==
  /\ pc \in {"top", "timer", "select", "ext", "rep"}
  /\ timer \in BOOLEAN /\ expired \in BOOLEAN
  /\ last_dead \in 0 .. MaxPid /\ pid \in Pids
  /\ buff \in Seq(Msg) /\ ready \in [ext : BOOLEAN, rep : BOOLEAN]
  /\ extin \in Seq(Msg) /\ inq \in Seq(Msg) /\ outq \in Seq(Msg) /\ answered \in 0 .. MaxIn
  /\ status \in {"ok", "hung", "dead"} /\ work \in Seq(Msg)
  /\ dying \in SUBSET Pids /\ zombies \in SUBSET Pids /\ killed \in SUBSET Pids
  /\ pid # last_dead /\ pid \notin dying
  /\ given \in 0 .. MaxIn /\ faults \in 0 .. MaxFaults /\ lates \in 0 .. MaxLate

\* At least once, in order: through exits, kills, cold starts and resends no
\* input is skipped and none comes back after a later one was answered; of the
\* answers that are sent (processFromRep), each repeats the last or is the next.
AtLeastOnceInOrder ==
  pc = "rep" =>
    LET answers == <<answered>> \o outq
    IN  \A i \in 1 .. Len(outq) : answers[i+1] - answers[i] \in {0, 1}

\* Every input is answered, whether the replica dies, hangs, or is only late.
Answered == \A k \in Msg : (given >= k) ~> (answered >= k)

\* The voter comes to rest: as long as it never has two killed processes to reap at
\* one time, no restart is the cause of another one for ever, and the replica it
\* has started last is the one that stays.
RestartsEnd ==
  [](\A p, q \in dying \cup zombies : p = q) => <>[][pid' = pid]_vars

\* voterd.c:286 "PID %d exited on its own.": the exit that waitpid reports, when
\* it makes the voter start a new replica, is not that of a process the voter has
\* killed itself.
OnlySelfKills ==
  [][(pc = "top" /\ pid' # pid) => (zombies \ zombies') \cap killed = {}]_vars
=============================================================================
