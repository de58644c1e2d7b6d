-------------------------------- MODULE Loop --------------------------------
(***************************************************************************)
(* The control loop around the robot: Player's translator driver           *)
(* (translator_driver.cc) sends range readings, the BenchMarker            *)
(* (benchmarker.c) passes them on, a voter (voterd.c) copies them to a     *)
(* controller (empty.c), and its commands come back the same way.          *)
(*                                                                         *)
(*    translator --a--> bench --b--> voter --c--> controller               *)
(*    translator <--f-- bench <--e-- voter <--d-- controller               *)
(*                                                                         *)
(* Each process is one thread that reads and then writes, and blocks while *)
(* the pipe it writes to is full.  BenchMarker and voter read once from    *)
(* each pipe that select has reported before they select again.  Readings  *)
(* are numbered, and a pipe of readings holds bytes: the number of the     *)
(* reading, Size times.  A command is the number of the reading it         *)
(* answers; commands are never split, since their 16 bytes divide          *)
(* MAX_VOTE_PIPE_BUFF.                                                     *)
(*                                                                         *)
(* The voter is the healthy one here; Voter and VoterSMR model it in full. *)
(***************************************************************************)
EXTENDS Integers, Sequences

CONSTANTS
    MaxReadings,  \* bound: readings sent
    MaxSessions,  \* bound: calls of MainSetup
    MaxLater,     \* bound: readings sent by the end of any session but the first
    QueueCap,     \* bound: readings in Player's InQueue
    Size,         \* sizeof(struct comm_range_pose_data)
    Block,        \* MAX_VOTE_PIPE_BUFF
    CmdBlock,     \* the same in commands
    RangeCap,     \* readings a pipe holds
    CmdCap        \* commands a pipe holds

(* 64 KiB hold 431 readings of 152 bytes, or 4096 commands of 16; 4096 bytes, 256 of them. *)
ASSUME CapacityAssumption ==
    /\ Size \in Nat \ {0} /\ Block \in Nat /\ Block >= Size
    /\ RangeCap \in Nat \ {0} /\ CmdBlock \in Nat \ {0}
    /\ CmdCap \in Nat \ {0}
ASSUME BoundAssumption ==
    /\ MaxReadings \in Nat /\ MaxSessions \in Nat /\ QueueCap \in Nat
    /\ MaxLater \in 0..MaxReadings

VARIABLES
    driver,    \* the translator's thread: down, at its queue, at its read
    queued,    \* ranger messages in InQueue; the others change only pose and curr_goal
    sending,   \* ProcessRanger is in its write
    session,   \* the pipes in rep.vot_pipes are those of loop[session]
    loop,      \* the processes and pipes of each session; none is ever stopped
    ready,     \* the pipes in the select_sets of BenchMarker and voter, still to be read
    robot,     \* the command the odometry device got last
    nread,     \* readings sent
    answered   \* the last reading answered; at first, the last of earlier sessions

vars == <<driver, queued, sending, session, loop, ready, robot, nread, answered>>

Stop == 0
Garbage == -1
Sessions == 1..MaxSessions

Idle ==
    [a |-> <<>>, b |-> <<>>, c |-> <<>>, d |-> <<>>, e |-> <<>>, f |-> <<>>,
     toB |-> <<>>, toF |-> <<>>,     \* what the BenchMarker has read and not written
     toC |-> <<>>, toE |-> <<>>,     \* the voter
     toD |-> <<>>,                   \* the controller
     waiting_response |-> FALSE,
     last |-> 0,                     \* the reading the BenchMarker sent last
     reported |-> FALSE,             \* "ERROR, sending data but still waiting ..."
     out |-> 0,                      \* readings sent and not answered
     over |-> FALSE]                 \* b or d has held more than the voter's buffer takes

Init ==
    /\ driver = "down" /\ queued = 0 /\ sending = FALSE
    /\ session = 0 /\ loop = [s \in Sessions |-> Idle] /\ ready = [s \in Sessions |-> {}]
    /\ robot = Stop
    /\ nread = 0 /\ answered = 0

Bytes(n) == [i \in 1..Size |-> n]
Least(m, n) == IF m <= n THEN m ELSE n
Taken(pipe, n) == SubSeq(pipe, 1, Least(n, Len(pipe)))
Rest(pipe, n) == SubSeq(pipe, Least(n, Len(pipe)) + 1, Len(pipe))
FitsRange(pipe, bytes) == Len(pipe) + Len(bytes) <= RangeCap * Size
FitsCmd(pipe, cmds) == Len(pipe) + Len(cmds) <= CmdCap

-----------------------------------------------------------------------------
(***************************************************************************)
(* The translator driver.                                                  *)
(***************************************************************************)

(* initReplicas, createPipes, forkReplicas: everything of the session is new. *)
NewSessionReused == IF session = 0 THEN 1 ELSE session

NewSession == session + 1

MainSetup ==
    /\ driver = "down" /\ session < MaxSessions /\ (session > 0 => nread <= MaxLater)
    /\ session' = NewSession
    /\ driver' = "queue"
    /\ answered' = nread
    /\ UNCHANGED <<queued, sending, loop, ready, robot, nread>>

(* SetupOdom or SetupRanger fails, when the BenchMarker has been forked already. *)
SetupFails ==
    /\ driver = "down" /\ session < MaxSessions /\ (session > 0 => nread <= MaxLater)
    /\ session' = NewSession
    /\ UNCHANGED <<driver, queued, sending, loop, ready, robot, nread, answered>>

PutCommand(cmd) == robot' = cmd

(* The robot is stopped, and then the odometry device unsubscribed. *)
ShutdownOdom == PutCommand(Stop)

(* Player cancels the thread wherever it is. *)
MainShutdown ==
    /\ driver # "down"
    /\ driver' = "down"
    /\ sending' = FALSE
    /\ ShutdownOdom
    /\ UNCHANGED <<queued, session, loop, ready, nread, answered>>

(* The ranger publishes to its subscribers. *)
Publish ==
    /\ driver # "down" /\ queued < QueueCap
    /\ nread + queued + (IF sending THEN 1 ELSE 0) < IF session > 1 THEN MaxLater ELSE MaxReadings
    /\ queued' = queued + 1
    /\ UNCHANGED <<driver, sending, session, loop, ready, robot, nread, answered>>

ProcessMessage ==
    /\ driver = "queue" /\ queued > 0 /\ ~sending
    /\ queued' = queued - 1
    /\ sending' = TRUE
    /\ UNCHANGED <<driver, session, loop, ready, robot, nread, answered>>

ProcessRanger ==
    /\ driver = "queue" /\ sending
    /\ FitsRange(loop[session].a, Bytes(nread + 1))
    /\ loop' = [loop EXCEPT ![session].a = @ \o Bytes(nread + 1)]
    /\ nread' = nread + 1
    /\ sending' = FALSE
    /\ UNCHANGED <<driver, queued, session, ready, robot, answered>>

(* ProcessMessages returns when InQueue is empty. *)
Processed ==
    /\ driver = "queue" /\ queued = 0 /\ ~sending
    /\ driver' = "read"
    /\ UNCHANGED <<queued, sending, session, loop, ready, robot, nread, answered>>

(* One read per update, which does not block. *)
DoOneUpdate ==
    /\ driver = "read"
    /\ driver' = "queue"
    /\ LET f == loop[session].f IN
       \/ f = <<>> /\ UNCHANGED <<loop, robot, answered>>
       \/ /\ f # <<>>
          /\ PutCommand(Head(f))
          /\ answered' = IF Head(f) > answered THEN Head(f) ELSE answered
          /\ loop' = [loop EXCEPT ![session].f = Tail(f)]
    /\ UNCHANGED <<queued, sending, session, ready, nread>>

Translator == ProcessMessage \/ ProcessRanger \/ Processed \/ DoOneUpdate

-----------------------------------------------------------------------------
(***************************************************************************)
(* The BenchMarker, the voter and the controller of a session.  L is the   *)
(* session's state before the step.                                        *)
(***************************************************************************)
Becomes(s, L) ==
    /\ loop' = [loop EXCEPT ![s] = L]
    /\ UNCHANGED <<driver, queued, sending, session, robot, nread, answered>>

(* select on the pipes of a process that has read all of its last select_set. *)
Selects(s, pipes) ==
    LET now == {p \in pipes : loop[s][p] # <<>>} IN
    /\ ready[s] \cap pipes = {} /\ now # {}
    /\ ready' = [ready EXCEPT ![s] = @ \cup now]
    /\ UNCHANGED <<driver, queued, sending, session, loop, robot, nread, answered>>

ReadsFrom(s, pipe) == pipe \in ready[s] /\ ready' = [ready EXCEPT ![s] = @ \ {pipe}]

BenchIdle(L) == L.toB = <<>> /\ L.toF = <<>>

BenchSelect(s) == BenchIdle(loop[s]) /\ Selects(s, {"a", "e"})

(* A read of another size is dropped. *)
WholeOnly(bytes) == IF Len(bytes) = Size THEN bytes ELSE <<>>

AskNotWaiting(L, bytes) ==
    [L EXCEPT !.last = bytes[1], !.reported = @ \/ L.waiting_response, !.out = @ + 1]

(* waiting_response, and the time of the last reading (TIME_FULL_BENCH). *)
Ask(L, bytes) ==
    [L EXCEPT !.waiting_response = TRUE, !.last = bytes[1],
              !.reported = @ \/ L.waiting_response, !.out = @ + 1]

BenchRange(s) == LET L == loop[s] IN
    /\ BenchIdle(L) /\ L.a # <<>> /\ ReadsFrom(s, "a")
    /\ LET bytes == WholeOnly(Taken(L.a, Size))
           M == [L EXCEPT !.a = Rest(@, Size), !.toB = bytes]
       IN  Becomes(s, IF bytes = <<>> THEN M ELSE Ask(M, bytes))

BenchRangeWrite(s) == LET L == loop[s] IN
    /\ L.toB # <<>> /\ FitsRange(L.b, L.toB)
    /\ Becomes(s, [L EXCEPT !.b = @ \o L.toB, !.toB = <<>>,
                            !.over = @ \/ Len(L.b \o L.toB) > Block])
    /\ UNCHANGED ready

ForwardedIfWaiting(L, cmd) == IF L.waiting_response THEN <<cmd>> ELSE <<>>

(* Every command is passed on, also one that was not waited for. *)
Forwarded(L, cmd) == <<cmd>>

BenchCommand(s) == LET L == loop[s] IN
    /\ BenchIdle(L) /\ L.e # <<>> /\ "a" \notin ready[s] /\ ReadsFrom(s, "e")
    /\ Becomes(s, [L EXCEPT !.e = Tail(@), !.toF = Forwarded(L, Head(L.e)),
                            !.waiting_response = FALSE,
                            !.out = @ - 1, !.reported = @ /\ L.out > 1])

BenchCommandWrite(s) == LET L == loop[s] IN
    /\ L.toF # <<>> /\ FitsCmd(L.f, L.toF)
    /\ Becomes(s, [L EXCEPT !.f = @ \o L.toF, !.toF = <<>>])
    /\ UNCHANGED ready

VoterIdle(L) == L.toC = <<>> /\ L.toE = <<>>

VoterSelect(s) == VoterIdle(loop[s]) /\ Selects(s, {"b", "d"})

VoterBlockAll(pipe) == Len(pipe)

(* How much of its external pipe the voter reads at once. *)
VoterBlock(pipe) == Block

VoterRange(s) == LET L == loop[s] IN
    /\ VoterIdle(L) /\ L.b # <<>> /\ ReadsFrom(s, "b")
    /\ Becomes(s, [L EXCEPT !.toC = Taken(L.b, VoterBlock(L.b)),
                            !.b = Rest(@, VoterBlock(L.b))])

VoterRangeWrite(s) == LET L == loop[s] IN
    /\ L.toC # <<>> /\ FitsRange(L.c, L.toC)
    /\ Becomes(s, [L EXCEPT !.c = @ \o L.toC, !.toC = <<>>])
    /\ UNCHANGED ready

(* pipeToBuff takes a block; a full one does not fit its ring and is lost.  What fits *)
(* is written at once.                                                                *)
Kept(cmds) == IF Len(cmds) < CmdBlock THEN cmds ELSE <<>>

VoterCommand(s) == LET L == loop[s] IN
    /\ VoterIdle(L) /\ L.d # <<>> /\ "b" \notin ready[s] /\ ReadsFrom(s, "d")
    /\ Becomes(s, [L EXCEPT !.toE = Kept(L.d), !.d = Rest(@, CmdBlock),
                            !.over = @ \/ Len(L.d) >= CmdBlock])

VoterCommandWrite(s) == LET L == loop[s] IN
    /\ L.toE # <<>> /\ FitsCmd(L.e, L.toE)
    /\ Becomes(s, [L EXCEPT !.e = @ \o L.toE, !.toE = <<>>])
    /\ UNCHANGED ready

(* A full read that mixes two readings passes for one. *)
CommandFor(bytes) ==
    IF Len(bytes) < Size THEN <<>>
    ELSE IF \A i \in 1..Size : bytes[i] = bytes[1] THEN <<bytes[1]>> ELSE <<Garbage>>

Controller(s) == LET L == loop[s] IN
    /\ L.toD = <<>> /\ L.c # <<>>
    /\ Becomes(s, [L EXCEPT !.c = Rest(@, Size), !.toD = CommandFor(Taken(L.c, Size))])
    /\ UNCHANGED ready

ControllerWrite(s) == LET L == loop[s] IN
    /\ L.toD # <<>> /\ FitsCmd(L.d, L.toD)
    /\ Becomes(s, [L EXCEPT !.d = @ \o L.toD, !.toD = <<>>])
    /\ UNCHANGED ready

BenchMarker(s) ==
    BenchSelect(s) \/ BenchRange(s) \/ BenchRangeWrite(s) \/ BenchCommand(s) \/ BenchCommandWrite(s)
VoterD(s) ==
    VoterSelect(s) \/ VoterRange(s) \/ VoterRangeWrite(s) \/ VoterCommand(s) \/ VoterCommandWrite(s)
Empty(s) == Controller(s) \/ ControllerWrite(s)

Next ==
    \/ MainSetup \/ SetupFails \/ MainShutdown \/ Publish
    \/ ProcessMessage \/ ProcessRanger \/ Processed \/ DoOneUpdate
    \/ \E s \in Sessions :
        \/ BenchSelect(s)
        \/ BenchRange(s) \/ BenchRangeWrite(s) \/ BenchCommand(s) \/ BenchCommandWrite(s)
        \/ VoterSelect(s)
        \/ VoterRange(s) \/ VoterRangeWrite(s) \/ VoterCommand(s) \/ VoterCommandWrite(s)
        \/ Controller(s) \/ ControllerWrite(s)

(***************************************************************************)
(* Every process runs.  Nothing is assumed of Player: publishing, setup    *)
(* and shutdown.                                                           *)
(***************************************************************************)
Fairness ==
    /\ WF_vars(Translator)
    /\ \A s \in Sessions : WF_vars(BenchMarker(s)) /\ WF_vars(VoterD(s)) /\ WF_vars(Empty(s))

Spec == Init /\ [][Next]_vars

FairSpec == Spec /\ Fairness

-----------------------------------------------------------------------------
(***************************************************************************)
(* Properties.                                                             *)
(***************************************************************************)

(* The types of the state; the voter's buffer holds what it reads. *)
TypeOK ==
    /\ driver \in {"down", "queue", "read"}
    /\ queued \in 0..QueueCap /\ sending \in BOOLEAN
    /\ session \in 0..MaxSessions
    /\ robot \in Garbage..MaxReadings
    /\ nread \in 0..MaxReadings /\ answered \in 0..MaxReadings
    /\ \A s \in Sessions : LET L == loop[s] IN
          /\ Len(L.toC) <= Block
          /\ Len(L.a) <= RangeCap * Size /\ Len(L.b) <= RangeCap * Size
          /\ Len(L.c) <= RangeCap * Size
          /\ Len(L.d) <= CmdCap /\ Len(L.e) <= CmdCap /\ Len(L.f) <= CmdCap
          /\ L.out \in Nat
    /\ ready \in [Sessions -> SUBSET {"a", "b", "d", "e"}]

(***************************************************************************)
(* The robot gets one command for each reading of this session, in their   *)
(* order, none from a session before, as long as the voter's backlog stays *)
(* within MAX_VOTE_PIPE_BUFF (voterd.c:344).  When it does not, a reading  *)
(* can be torn: commands are missing or garbage, but still never repeated  *)
(* or out of order.                                                        *)
(***************************************************************************)
CommandsInOrder ==
    [][driver = "read" /\ driver' = "queue" /\ loop[session].f # <<>> =>
         \/ robot' = answered + 1
         \/ loop[session].over /\ (robot' = Garbage \/ robot' > answered)]_vars

(***************************************************************************)
(* The time the BenchMarker prints with a command is that of the command's *)
(* own reading, unless it has complained of an overlap since it was last   *)
(* quiet, although any response clears waiting_response while others are   *)
(* still to come (benchmarker.c:170).                                      *)
(***************************************************************************)
RoundTripTimed ==
    [][\A s \in Sessions :
         Len(loop'[s].e) < Len(loop[s].e) =>
            Head(loop[s].e) = loop[s].last \/ loop[s].reported]_vars

(***************************************************************************)
(* The translator waits in its write for the BenchMarker to read, which    *)
(* waits in its own for the translator to read (translator_driver.cc:368,  *)
(* benchmarker.c:178).  Nobody gives way.                                  *)
(***************************************************************************)
Jammed ==
    /\ sending /\ ~FitsRange(loop[session].a, Bytes(nread + 1))
    /\ loop[session].toF # <<>> /\ ~FitsCmd(loop[session].f, loop[session].toF)

(***************************************************************************)
(* Every reading is answered, unless the driver is shut down or readings   *)
(* or commands have been lost at the voter.  The ring of blocking writes   *)
(* stands still in one way only, Jammed, and not before the translator is  *)
(* more readings ahead of the commands it has read than a pipe of commands *)
(* and one of readings hold together.  It gets ahead when it sends several *)
(* readings in an update and reads one command (translator_driver.cc:265). *)
(***************************************************************************)
Answered ==
    []<>(\/ answered = nread \/ driver = "down" \/ loop[session].over
         \/ Jammed /\ nread - answered > CmdCap + RangeCap)
=============================================================================
