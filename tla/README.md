# A TLA+ verification project for PINT

PINT runs the components of a robot's control system as processes joined by
pipes, and guards each component with a *voter* (`voter/voterd.c`) that runs
one, two or three replicas of it (SMR, DMR, TMR).  A replica that dies, hangs
or writes wrong data because of a single event upset must be masked and
replaced by a fork of a healthy one, without losing, repeating or changing a
message.  This project models the voter and what it rests on, the plumber that starts
it, the loop through the robot that it serves, the controllers that map and plan, and
the heartbeat between two machines; it model-checks them with TLC on small instances,
and proves what TLAPS can prove for all instances.

Paths below are relative to the repository.

## 1. Inventory

| Component | State | Operations | Meets |
|---|---|---|---|
| Vote buffer (`voter/vote_buff.c`) | a byte ring per replica and pipe: `buff_index`, `buff_count`, `buffer` | `pipeToBuff`, `buffToPipe`, `fakeToPipe`, `compareBuffs`, `copyBuffer`, `copyPipe`, `resetVotePipe` | called by the voter; reads and writes kernel pipes |
| Voter (`voter/voterd.c`) | `replicas[]`, `ext_pipes[]`, `timer_started`, `watchdog`, `timer_stop_index`, `last_dead` | `doOneUpdate` (waitpid, watchdog, select, read, vote), `processData`, `processFromRep`, `checkSDC`, `sendPipe`, `voterRestartHandler`, `restart_prep`, `stealPipes`, `returnPipes` | kernel pipes, signals, sockets, the scheduler |
| Replica bookkeeping (`src/replicas.c`) | `struct replica`: pid, priority, pipes | `initReplicas`, `createPipes`, `startReplicas`, `restartReplica`, `cleanupReplica`, `balanceReps`, `behindRep`, `aheadRep`, `bytesReady`, `rep_gap` | called by the voter; `fork`, `kill`, `sched_setscheduler` |
| Descriptor server and client (`src/fd_server.c`, `src/fd_client.c`) | a Unix socket per component name | accept, send descriptors, receive pid | voter and every controller, at start and at restart |
| Restart support (`src/controller.c`) | the signal handlers of a controller | `restartHandler` (fork, child reconnects, parent resets its priority), `testSDCHandler`, `testCFEHandler` | signalled by the voter and by the injector |
| Message types (`src/commtypes.c`) | two-part messages with a length field | `commSend*`, `commRecv*`, pipe type conversion | every controller |
| Plumber (`plumber/`) | the graph of components and links read from a configuration | parse, `add_node`, `link_node`, `link_bench`, `launch_node` | starts every voter, marks the timed pipes |
| Player translator driver (`player_translator_driver/`) | the pose, the goal, two pipes | setup, shutdown, messages of Player, one update per turn | Player; starts the BenchMarker and exchanges readings and commands with it |
| Benchmarker (`controllers/benchmarker.c`) | `waiting_response`, `last` | pass a reading on, pass a command back, time the round trip | translator and first voter; starts the plumber |
| Filter, Mapper, A\*, ArtPot, Logger, Load, Empty (`controllers/`) | a window, a map, a path, a goal, ... | read a message, compute, write | each other, through their voters |
| Client, server (`controllers/client.c`, `server.c`) | `got_reply`, an alarm, an urgent byte in each socket | request and reply out of band, takeover | each other, over TCP; the client starts `stage_control/basic` |
| Real-time library (`tas_lib/`) | CPU binding, priorities, locked memory | `InitTAS`, `sched_set_policy`, ... | voter and replicas |
| Stage control, fault injection, tests | | | simulators and test drivers |

What is hard here, and what would make each part right:

* **Vote buffer.** Wrapping reads and writes, with stale bytes in the ring; a
  comparison that refuses rings at different indices.  It must be a bounded
  FIFO queue, and the comparison must be one of the two byte streams.
* **Voter.** Three processes of which any can fail at any step, a watchdog that
  can expire on a healthy replica, a restart that forks a process in the middle
  of its computation, descriptors closed and reopened under a loop that still
  uses the old `select_set`, a blocking `read` and a blocking `accept`.  It must
  mask single upsets, restart the replica that failed, keep the survivors in
  step, and answer every input.
* **Voter with one replica.** No twin to fork from: a cold start and a resend,
  and exits of killed processes that are reported late.  Every input must be
  answered, in order, and restarts must come to an end.
* **Replica bookkeeping.** The order in which replicas run is what decides, on a
  tie, which of them is believed to have failed.  The furthest behind runs first.
* **Descriptor hand-over.** A child that dies between connecting and sending its
  pid; replicas that connect in another order than they were forked; `accept`
  and `read` without a timeout.  The pid on record must be that of the process
  that holds the replica's pipes, and no process may serve unrecorded.
* **Message types.** A read that returns a part of a two-part message.
* **Plumber.** A script with errors, a pipe or a fork that fails half-way, arrays
  and a list without an end, and two parsers that must agree on a text with its
  writer.  Each process must get the ends the script gives it, in that order, and
  the timed pipes that are marked.
* **Translator, BenchMarker and loop.** Readings that overtake the loop, blocks that
  cut a message, a ring of blocking writes, a session started beside the remains of
  another.  The robot must get the commands of this session, in order.
* **Mapper, A\* and ArtPot.** Two maps kept equal by messages alone; indices at the
  border of the map; a sorted list; a path consumed by two kinds of message that
  come in any order.  A route must be a shortest one around the known obstacles,
  and ArtPot must learn of it.
* **Client and server.** Two signal handlers that interrupt each other, a late reply
  that races the alarm, one urgent byte per socket, a server that falls silent or
  closes.  A loss must be noticed, and the takeover started once.

## 2. Plan

Done:

1. `VoteBuff`, with the abstract `ByteQueue` it implements; `VoteBuff_proofs`.
2. `Replicas`: the decisions on who is behind and who runs first.
3. `Voter`: TMR and DMR, with upsets, watchdog, restart and scheduling, and the abstract
   `Component` it implements; `Voter_proofs` on its types, rings and priorities, and on
   what redundancy achieves.
4. `VoterSMR`: the single-replica path; `VoterSMR_proofs`.
5. `FdHandshake`: how a process comes into service; `FdHandshake_proofs`.
6. `Mapping`, `AStar`, `Navigation`: Mapper, A\* and ArtPot over their pipes, and
   `Routes`, which compares with shortest routes; `Navigation_proofs`.
7. `Heartbeat`: client and server; `Heartbeat_proofs`.
8. `Plumber`: the script, its pipes, the launch and the arguments; `Plumber_proofs`.
9. `Loop`: translator driver, BenchMarker, voter and controller as one ring; `Loop_proofs`.

Left:

10. The framing of map updates and message buffers (`commtypes.c`) as bytes.
11. More than one input pipe per voter.

## 3. Modules and the code

**`VoteBuff`** keeps the ring of `vote_buff.c` byte by byte: the two-part
`memcpy`, the strict comparison that never lets the ring fill, the modulus.
`vp[p]` is `struct vote_pipe` without its descriptors.  One action per function;
the voter may call them in any order, with the arguments it passes.  A `read`
appears as the block it returned.  **`ByteQueue`** is the promise: one bounded
queue of bytes per pipe.

**`Replicas`** holds `bytesReady`, `aheadRep`, `behindRep`, `rep_gap` and
`balanceReps` as operators on the counts of buffered votes.

**`Voter`** composes the voter, its replicas and the kernel pipes between them,
for DMR and TMR.  How a voter is configured (replication, outputs, timed output, real
time, and the bounds on upsets) is a record `conf`, chosen at the start from
`Configs`; **`MCVoter`** names the configurations, so that one run covers all of them.

| Action | Code |
|---|---|
| `Expire` | the watchdog test of `doOneUpdate`, with `voterRestartHandler` |
| `Select` | the building of `select_set` (external input only when in sync, lag timer if not) and `select` |
| `ReadExt` | the read of the external pipe and `processData` |
| `FromRep` | `processFromRep`: read, `balanceReps`, `checkSDC`, `sendPipe` |
| `Steal`, `HandOver` | `restart_prep` before and after the `accept` |
| `Fork`, `Resume` | `restartHandler` in the restarter: the fork, and the end of the handler |
| `RepRead`, `RepWrite` | a controller shaped like `filter.c`: one message in, one out on each pipe in order |
| `Crash`, `Hang`, `Corrupt` | the upsets, as the signals of `controller.c` and `injector.py` inject them |
| `EnvSend` | the component upstream |

The voter is one thread, and is cut into steps where it meets a kernel pipe or
blocks.  Messages are numbers: input *k* yields output *k* on every pipe and a
corrupted output is *-k*; all messages of a pipe have one size, so the ring
counts messages here (`VoteBuff` has the bytes).  A restart is the code's: the
input pending at the restarter is taken, the failed replica killed, the
restarter told to fork wherever it happens to be, the votes copied and sent, and
the input given to both.  `prio` is the priority the voter has recorded and
`sched` the one the scheduler uses: they differ after `Resume`, where the
restarter's handler sets its start-up priority again (`src/controller.c:101`).

**`Component`** is the promise of a voter and its replicas to their neighbours: a
controller that does not fail, answers input *k* with output *k* on every pipe, and
writes pipe by pipe.  It is what the neighbours of a voter are modelled on: in
`Navigation` and in `Loop` controllers do not fail.

**`VoterSMR`** is the same loop with one replica, where other code runs:
`waitpid`, `last_dead`, cold start, resend of the last block read.  Processes
have pids; a killed process exits some time later, and a pid is free again only
when its process has been reaped.  `answered` is the last answer sent; those before it
have been judged when they were.

**`FdHandshake`** follows every process of one voter from its fork to its end:
`forked`, `queued` (connected, not accepted), `served` (has the descriptors), `up`
(has written its pid), `dead`.  The voter forks its replicas, then accepts one
connection for each (`startReplicas`), or kills one, signals its neighbour and
accepts one (`restartReplica`).

| Action | Code |
|---|---|
| `ForkReplica` | one round of `forkReplicas`; the fork may fail |
| `AcceptSend` | `acceptSendFDS` with `sendFDS`, up to the read |
| `ReadPid` | its read of the pid, and what the caller does with the result |
| `Restart` | `voterRestartHandler` and `restartReplica` up to the accept |
| `Connect`, `SendPid` | the halves of `connectRecvFDS`, before and after the accept |
| `RestartHandler` | `restartHandler`; the fork may fail |
| `Die` | a process ends, at whatever stage |

`pipes[i]` names the set of pipes of replica *i* by the restart that made them.  A
pid of -1 reaches every process, as for `kill`; a broadcast of the restart signal
to processes in the middle of their own hand-over is outside the model.  The
voter's `sleep(1)` before its loop is taken to be enough for the replicas to
install their handlers.  Pids are not used again.

**`Mapping`** has the grid (`gridify`, with truncation towards zero and the far edge) and
the sorted list of `mapping.c`; **`AStar`** the search of `command` in `a_star.c` as an
operator, its loops as recursive functions of the number of rounds; **`Navigation`** the
three controllers, one action per turn of their loops.  A round of the search closes a node,
so the function that stands for the `while` loop ends after as many rounds as there are
nodes; that the loop has stopped by then is the lemma `SearchStops`, of the model: of
cells beyond the ring it says that they are obstacles, which the code does not.  What holds
of the code too is `SearchEnds`.  **`Routes`** has a reference for the result (shortest
distances by relaxation), with recursive operators, for TLC only.

| Action | Code |
|---|---|
| `Feed` | Filter's two copies of a message |
| `MapperTurn` | `enterLoop` of `mapper.c`: `updateMap`, `addObstacle`, then an acknowledgement |
| `AStarTurn` | `enterLoop` of `a_star.c`: the map update with `command`, then a request |
| `ArtPotTurn` | `enterLoop` of `art_pot.c`: goal reached, next goal, request; then a response |

A distance is in thousandths, rounded down; sums of the few steps of a route that
differ stay different.  `genNeighbors` reads `obstacle_map` outside its bounds: what
is there is undefined (`obstacle_map[x][80]` is `[x + 1][0]`, and further out it is other
memory), and `free` chooses for the ring of cells around the map whether it reads as free, so
that the search may leave the map.  That it goes no further than the ring is a bound of the
model; how far the code goes depends on that memory.  The list that
`removeNode` leaves NULL ends the process (`crashed`).  `MCNavigation` has the map
and the scans.

**`Heartbeat`** cuts `sig_handler` of the client where a signal can come in: the SIGALRM
part into test, send, alarm, `got_reply = 0`, the SIGURG part into recv and assignment.
`stack` is the stack of handlers that interrupt `main` and each other.  A request or
reply on its way takes any time; a socket keeps one urgent byte, and a SIGURG merges
with a pending one.  The server may fall silent (`crashed`: nothing more comes, the
connection stays) or end (`exited`: recv returns 0).  A request that arrives before the
servlet has claimed SIGURG signals nobody.  `late`, `answered` and `unclaimed` record
the history that `FalseAlarms` speaks of.  A send to a connection that the server has closed
may raise SIGPIPE and end the client (`client.c:24`, `:68`); to the alarm and the takeover
this is the same as `main` leaving its loop, which the model has.

| Action | Code |
|---|---|
| `TypeLine`, `Recv` | the client's loop, `gets` and `send`, then `recv` |
| `Expire`, `Deliver` | the alarm, and the kernel's delivery of a signal |
| `RecvOob`, `SetReply` | the SIGURG part of `sig_handler` |
| `Test`, `SendRequest`, `Arm`, `Clear` | the SIGALRM part with a reply |
| `System`, `BasicFails` | the SIGALRM part without: `system`, and its return if `basic` cannot connect |
| `Accept`, `Answer`, `Echo` | the server: accept and fork, the servlet's handler, its loop |
| `RequestArrives`, `ReplyArrives`, `Fail` | the network, and the loss of the server |

**`Plumber`** reads a script line by line.  A line is what bison hands to an action of
`pb.y`.  One action per kind of line (`Declare`, `LinkBench`, `LinkNodes`, and `CommError`
and `PipeFails` for those that go wrong), `EndOfParse`, and for the launch `launch_node`,
`ExecFails`, `ForkFails`, `EndOfList`.  A pipe is text on its way (`serializePipe`), so a
process is recorded as what its own parser (`VoterArgs` of `voterd.c`, `LoggerArgs` of
`logger.c`) makes of its `argv`.  The two descriptors the plumber itself starts with come
the same way through the translator driver and the BenchMarker (`fake_pipes`,
`trans_pipes`, `data_in`, `cmd_out`).  `ReadUninitialized` is the cell at the end of the
list, from `malloc` and never written; after it, after NULL from `get_node` and after a
link past `PIPE_LIMIT`, the model stops (`crashed`).  `LinesAssumption` says what a line
is, and nothing about the order or the sense of a script.  **`MCPlumber`** has the lines.

**`Loop`** is the ring translator, BenchMarker, voter, controller and back, a read and a
write of each process being two actions, since the write blocks while its pipe is full.
Pipes of readings hold bytes, so that the voter's block can cut a reading
(`VoterBlock`); the controller is `empty.c`, which drops a short read and takes a full
one that mixes two readings.  A command pipe is read a block at a time as well
(`CmdBlock`), and a full block of commands does not fit the voter's ring and is lost; `over`
notes it, like a backlog of readings.  BenchMarker and voter read once from each pipe that
their `select` has found ready, in the order of the code, before they select again: `ready`
is what is left to read.  A session is a call of `MainSetup`; nothing stops the
processes of the one before, and a setup that fails leaves its own behind.

| Action | Code |
|---|---|
| `MainSetup`, `SetupFails`, `MainShutdown` | the driver's, with its fork of the BenchMarker |
| `Publish` | Player's ranger (external) |
| `ProcessMessage`, `ProcessRanger`, `Processed` | `ProcessMessages`, and its write of a reading |
| `DoOneUpdate` | the read that does not block, and `PutCommand` |
| `BenchSelect`, `VoterSelect` | the `select` of each |
| `BenchRange`, `BenchRangeWrite`, `BenchCommand`, `BenchCommandWrite` | the two halves of the BenchMarker's loop |
| `VoterRange`, ..., `VoterCommandWrite` | the voter's reads and writes while nothing fails |
| `Controller`, `ControllerWrite` | `enterLoop` of `empty.c` |

### Scheduling

`InitTAS` (`tas_lib/taslimited.c`) binds the voter and its replicas to one CPU,
and `initVoterD` gives the replicas a priority below the voter's.  A replica
therefore runs only while the voter is blocked: `Preempts = TRUE`.  Among
replicas with real-time priority (`RealTime = TRUE`, `voter_priority >= 5`) one
runs only if no runnable one has a higher priority; without it they share in any
order.  `Preempts = FALSE` drops the rule: everything interleaves.

### Upsets

Besides upsets, the watchdog may expire early (`MaxLate`), while healthy replicas
are still at work: a disturbance of its own, which strikes when all are healthy.

Upsets are single: the next one strikes when the effects of the last are gone
(`Recovered`): all replicas live and in step, no replica in its restart handler,
priorities as recorded, and the watchdog, which a restart stops, either running
again or not needed.  These conditions are not decoration: each names a window
in which the code cannot bear a second upset (see the hazards at
`voterd.c:99`, `controller.c:101` and `voterd.c:288`).

### Fairness

*Voter*: the voter's loop never sleeps while it has something to do, so when it has a step
it takes one; a replica that is given the CPU runs; a signal is delivered; time passes, so
the watchdog expires in the end if nobody answers. *VoterSMR*: the same, and a killed
process exits in the end. *FdHandshake*: the voter and every process go on when they can;
restarts and faults need not come.  *Heartbeat*: an alarm that is set expires, a pending
signal is delivered, and a handler that is on top runs; nothing is assumed of the network,
the server, the user or the return of `system`.  *Loop*: each of the four processes takes a
step when it has one, and nothing is said of which: that the BenchMarker and the voter
neglect neither side follows from `select`.  Player need not publish, set up or shut down.
*Navigation* and *Plumber* have only safety properties and no fairness.  Nothing is assumed
of the environment, which need not send, nor of the upsets.  A replica starved by a hung one
of a higher priority is given no fairness, since it is never enabled.

## 4. Runs

| Run | Instance | Shows |
|---|---|---|
| `VoteBuff_queue` | 2 rings of 3 bytes, 2 byte values | the indices stay in the ring, the rings are queues (`ImplementsQueues`), the comparison is by stream |
| `Voter_configs` | four configurations, 3 inputs each (below) | output is the fault-free stream; indices stay aligned; the failed replica is the one restarted; the voter never blocks in a read; survivors stay in step; every input is answered and every failure repaired; a live replica at the top priority is furthest behind; all in all, the group is one component that does not fail (`DoesNotFail`) |
| `VoterSMR_upsets` | 3 inputs, 2 upsets, 1 early expiry, processes that exit late | in order, answered, and restarts end unless two killed processes await reaping at one time |
| `FdHandshake_all` | 3 replicas, 3 restarts, 2 deaths or failed forks | the pid on record is that of the process with the replica's pipes, nobody serves unrecorded, a restarted replica is a fresh copy, a hand-over without a fault ends |
| `Navigation_plan` | 4 by 4 cells, 2 poses, 4 scans, 3 messages, threshold 1 | the two maps agree; routes are shortest; the path kept is the rest of the route and free; a new route reaches ArtPot |
| `Heartbeat_watch` | one client, delays of any length, every failure of the server | at most one request or reply exists anywhere (`UrgentByteKept`); the takeover is started once; a server that is up is taken for lost in three ways only (`FalseAlarms`); a lost one is noticed, unless the client leaves first |
| `Plumber_scripts` | every script of up to 6 of 9 lines, one failing pipe, fork or exec | each process has the controller, replication and ends its script gives it, in order, after argv and its parsers; what one end writes the other end of that line reads; the timed pipes are those marked; each component is launched once |
| `Loop_rounds` | 6 readings, 2 sessions, readings of 2 bytes, blocks of 3 bytes or 2 commands, pipes of 2 readings or 2 commands | one command per reading, in order, none of an earlier session, as long as nothing is torn or lost at the voter; the time printed with a command is that of its reading unless an overlap was reported, torn or not; every reading is answered, unless translator and BenchMarker wait for each other |

The configurations of `Voter_configs`:

| | Instance | What is claimed |
|---|---|---|
| `Tmr` | real time, 2 outputs of which the last is timed, 2 upsets of any kind, 1 early expiry | everything |
| `Dmr` | the same with two replicas, 2 crashes or hangs | everything |
| `Lag` | TMR, no real time, 1 output, bursts of 2, 1 upset, 1 early expiry; the lag timer runs | everything |
| `Unscheduled` | TMR, free interleaving of voter and replicas, 1 upset | nothing wrong is ever sent and indices stay aligned; the other properties are not claimed |

Why the bounds are enough.  A ring of 3 bytes reaches every index, every level and blocks
that wrap at each place; a larger one adds no new case of the two-part copies, and the
theorems of section 5 cover every size.  Three inputs are one before, one during and one
after a repair, and wrap a ring of 3; two upsets are one on the original replicas and one on
a group that holds a forked process; two outputs are a timed one and another, the smallest
number in which a replica can die between two writes; bursts of 2 let an input wait behind
another.  Six pids are more than the runs ever keep unreaped.  Three restarts let each
replica be restarted, or one be restarted from one that was; nine pids are three replicas,
three copies and three more from a broadcast.  In `Navigation_plan` the scans close a gap,
block the way, graze the far edge and fall off the map; three of them in any order make and
break routes, and two poses are one far from the goal and one from which ArtPot asks for
more.  The threshold of 2 sightings in the code is 1 here, and a scan has each end point
twice.  `Heartbeat` needs no bound: its states are finite.  Six lines are two declarations
and four links, of which the last exceeds a `PIPE_LIMIT` of 3, or a Logger's `PIPE_COUNT` of
2.  A reading of 2 bytes and a block of 3 are the smallest of which the one does not divide
the other; two readings fill a pipe, so that every write of a reading blocks; two commands
fill one, so that every write of a command can block too. Six readings are two more than a
pipe of readings and one of commands hold, which is how far ahead the translator has to be
for the ring of blocking writes to close, and it closes in the run: without its exception,
`Jammed`, TLC refutes `Answered`.  In the model the two sides of the loop are of like size;
64 KiB hold nine times as many commands as readings, so the code needs more readings for the
same.  Two sessions let one reach the second while pipes of the first are full; the second
begins when at most `MaxLater` readings have been sent, and ends with as many.

Findings, each a run that TLC refutes:

| Run | What the code does | What it says |
|---|---|---|
| `Voter_timed_first` | with the timed output written first, a crash between two writes stops the watchdog and stalls the voter for ever | `README.md:6` "protect against them using triple redundancy" |
| `Voter_behind` | with two outputs and no real-time order, a healthy replica is killed and the dead one is asked to fork | `voterd.c:192` "The failed rep should be the one behind on the timer pipe" |
| `VoterSMR_exits` | a process the voter killed is reaped late and taken for a failure; the healthy one is killed | `voterd.c:286` "PID %d exited on its own." |
| `Navigation_null` | a better way to the only open node leaves the open list NULL, and A\* dereferences it; all its replicas would | `mapping.c:163` "Never an empty list" |

Limits of the code that the runs respect rather than refute: a block that exactly
fills the ring is refused, and the bytes read are lost; only the restarter's
pending input is stolen, so the third replica works on during a restart; with two inputs in
flight the SMR voter loses one, since only the last block read is resent; two
overlapping SMR restarts can chain into needless ones without end; a corrupted
output under DMR is sent, since `checkSDC` compares nothing with two replicas; an
early expiry while another replica has failed may restart the wrong one;
`balanceReps` does not reconsider the index it displaces as first for second place;
a child that dies before its pid is read leaves -1 on record, and the next `kill`
reaches every process; a process that dies in the listen queue takes the voter with
it (SIGPIPE); a search without solution keeps the old path; a request that finds one
node left is not answered; requests in flight skip way points; the timer that an SMR
resend starts is stopped again after it; a child whose `exec` fails in `forkSingle` goes on
as a second voter; two components linked from Bench share one descriptor, and compete for
the readings; the plumber ends its list with a cell it never initialises; a link past
`PIPE_LIMIT` writes outside its node (the scripts of the repository give no component more
than four ends, of ten); without preemption and with two inputs under way, a restart leaves
a descriptor in `select_set` and the voter blocks in reading it, which `ReadsNeverBlock` does
not speak of and TLC reaches with `Unscheduled` and a window of 2; with more than
`MAX_VOTE_PIPE_BUFF` pending at the restarter, `stealPipes` takes a part of it, and
`returnPipes` puts it behind the rest.

The ring of blocking writes can close.  The driver sends any number of readings in an update
and reads one command (`translator_driver.cc:265`).  Each further reading of an update leaves
one more command in the pipes, and the surplus adds up over updates; once the pipe of commands
is full, the BenchMarker waits in its write (`benchmarker.c:178`), the pipe of readings
fills, and the driver waits in its own (`translator_driver.cc:368`).  Nobody gives way.  With
pipes of 64 KiB it takes a surplus of more than 4096 commands and 431 readings; `Answered` has
the bound, `CmdCap + RangeCap`, as its exception, and says that there is no other way to stand
still.

## 5. Proofs

`VoteBuff_proofs`, for every ring size, set of pipes and set of byte values, from
`MaxAssumption` (the ring has at least one byte) and `ByteAssumption` (0, with
which the globals start, is a byte):

* `RingTyped`: `Spec => []TypeOK`.  `TypeOK` is inductive as it stands because it
  bounds `buff_count` by `Max - 1`, which is what the strict comparison of
  `pipeToBuff` keeps.  Each `memcpy` is shown to read and write inside its arrays
  (`MemcpyType` with `StoreType`, `CopyBufferType`, `CopyPipeType`).
* `VoteComparesStreams`: `Spec => []CompareIsByStream`.  It follows from `TypeOK`
  alone: an index and a count below `Max` add up to less than two turns of the
  ring, so the modulus subtracts `Max` at most once (`ModOnce`), the k-th oldest
  byte lies at one of two places (`ContentsAt`), and the two parts compared by
  `compareBuffs` are exactly these places (`CompareByStream`).
* `RingsAreQueues`: `Spec => ImplementsQueues`, the refinement of `ByteQueue` under
  the mapping `queue <- Contents`.  One lemma per function says what it does to the
  contents: `StoreAppends` (the old bytes stay, the two parts of the block lie where
  the reader looks), `CopyBufferTakes`, `FakeToPipeDrops`, `CopyPipeCopies`.
  `StepIsQueueStep` maps each action to an operation of the queue; `TypeOK` is the
  invariant it needs.  A block that does not fit maps to `Lose`.

`FdHandshake_proofs`, for every number of replicas from two on and every bound on
restarts, faults and processes (`CountAssumption`, `BoundAssumption`):

* `HandshakeTyped`: `Spec => []TypeOK`, inductive as it stands.
* `PidsMatchPipes` and `NobodyUnrecorded`: `Spec => []SlotsMatch` and
  `Spec => []NoOrphans`.  Neither is inductive: `SlotsMatch` speaks of the voter's loop
  only, and `NoOrphans` does not say who holds the pipes of a replica whose turn is
  still to come.  `Inv` adds this.  `Records`: at start the replicas before `turn` are
  settled, after it all are, but for the one restarted, whose pid is -1.  `Connected`:
  the process at the other end has this turn's pipes.  `Newcomers`, `Queued`: nobody
  has pipes before being served, and each is queued once, so that serving the head of
  the queue takes nothing from a settled replica.  `BootOrder`: at start nobody has
  pipes beyond `turn`.  One lemma per action; `PipesKept` serves the four in which no
  process changes its pipes.  TLC has checked `Inv` on the instance of
  `FdHandshake_all`.
* `RestartedAreFresh`: `Spec => []FreshCopy`.  The argument counts the processes that wait
  for pipes (`Waiting`).  `Expected`: at start they are at most as many as the voter will
  still accept, so none is left when it enters its loop.  `OneCopy`: a restart sends one
  signal, which becomes at most one waiting process, of this restart.  `Current`: the
  processes on record are as old as their pipes.  A signal to pid -1 makes as many
  processes as it reaches, and is the exception `FreshCopy` states.

`Heartbeat_proofs`, for behaviours of any length (there is no constant):

* `HeartbeatTyped`: `Spec => []TypeOK`.  It is not inductive: that no handler nests in
  itself needs `Stacked`, by which a handler stands somewhere if and only if it is on
  the stack.
* `UrgentBytes`: `Spec => []UrgentByteKept`.  `Exchange` says why: `got_reply` is set only
  when nothing is under way, except between the send and `got_reply = 0` of one handler,
  so the next request leaves when the last one and its reply are gone; and a pending
  SIGURG has its byte in the socket.
* `SingleTakeover`: `Spec => []TakesOverOnce`, from `OneAlarm`: an alarm is counting,
  pending or handled, one at a time, and none after the takeover.
* `FalseAlarmsOnly`: `Spec => FalseAlarms`, an action property.  Only `System` changes
  `takeovers`, and `Watched` follows the request from its send to the alarm: while the
  alarm counts, the answer is under way, taken, or there is none; when it has gone off,
  the answer was under way then (`late`), or taken and erased.

`IInv` is the conjunction, and like `Watched` was checked by TLC before; one lemma per
action.  The five stacks are told apart in `Stacks` and `Distinct`, and `StackView` says
what is on top of each.

`VoterSMR_proofs`, for any number of inputs, upsets, early expiries and processes
(`BoundAssumption`):

* `ColdStartTyped`: `Spec => []TypeOK`, inductive as it stands; it holds that the process
  in service is neither `last_dead` nor dying.
* `ResendKeepsOrder`: with `Window = 1`, `Spec => []AtLeastOnceInOrder`.  The hypothesis is
  the one the run has: with a second input in flight an input is lost, as section 4 says.
  `Flow` is the invariant.  `Given`: the last block read is the last answer or the next
  one, and nothing waits outside beyond it.  `UnderWay`: whatever the replica's pipes and
  its memory hold is the last answer or the next, and in order from the output to the
  input, so that a copy resent behind them does no harm.

`Voter_proofs` has two parts.  First, for every set `Configs` that `ConfigAssumption` admits
(two or three replicas, any number of outputs, any ring, with or without real time and
preemption, any number and kind of upsets) and any number of inputs:

* `VoterTypes`: `Spec => []TypeOK`, and `RingsLevel`: `Spec => []IndexesAligned`.  Both rest
  on `Inv`, that is `TypeOK`, `Jobs` and `Level`.  The operators of `Replicas` and
  `checkSDC` choose, so their lemmas show that what is chosen exists: a smallest count, a
  first replica among the furthest behind, a first agreeing pair, a first descriptor in
  `select_set`, which is why `Jobs` keeps `ready` from running empty.  `Level` is
  `IndexesAligned` with the restart in it: during the accept all buffers but the
  restartee's are level, and `CopyVotes` takes the restarter's index.
* The lemmas about `rep_gap` and `balanceReps`.  The gap of a replica is a sum over the
  pipes, a recursive function: `SumExists` builds it, and `UpTo`, an induction stated over
  sets, carries facts along it.  `GapGrows` and `GapSent` say what a vote read and votes
  sent do to it, `BalanceFirst` that the replica put first is one of those furthest
  behind, `BalanceSent` that it is so before and after the votes are sent.

The second part is about the groups that `Sized` describes: the voter outranks its replicas
(`Preempts`), the timed pipe is the one written last, the ring holds more than the
environment has under way (`Window < Ring`) and one read takes no less than that 
(`Window <= Block`), and votes are corrupted only where there are three of them.  `Tmr`, `Dmr` and `Lag`
of the run are such groups.  Each of these is needed: without preemption a read or the
accept may block for ever (`Unscheduled`); with the timed pipe first, `Voter_timed_first`
and `Voter_behind` are possible; a ring that overflows loses a message (`Lose`); input
beyond a block is stolen in part and returned behind what was left (`voterd.c:226`, `:240`);
and of two replicas a corrupted vote is sent, because `checkSDC` compares nothing for DMR.
For `Sized` groups, any number of outputs, inputs, upsets of any kind one at a time, and
early expiries:

* `UpsetsMasked`, `RestartsInStep`, `ReadsFindData`, `BuffersSuffice`: `Masked`,
  `SurvivorsInStep`, `ReadsNeverBlock`, and `VotesFit` with `InputFits` hold always.  The run
  checks `Masked` as a part of `DoesNotFail`; `VotesFit`, what `vote_buff.c:67` prints about
  when it does not hold, and `InputFits`, that a read of the external pipe or of the
  restarter's takes all there is, are no properties of a run.  `Safe` is the invariant.
  `InChain`: of every replica, on every pipe, what is sent, its votes, its output pipe,
  what it owes, its input and the input stolen from it follow each other without a gap
  from message 1 to the last one handed out (`Chain`, built of `Run`s); each action moves
  a piece from one link to the next, and there is one lemma for each such move (`ChainRead`
  to `ChainFork`).  During a restart the restartee is exempt, and `Accepting` keeps for it
  what the child will bring: what the child owes is what the restarter owed or has written
  since.  `OneWrong`: at most one replica is wrong, it is never restarted from, and votes
  that disagree are read one at a time, so that `checkSDC` sends what two agree on
  (`Verdict`).  `NoneReady`: what all have voted on is sent.  `PipeByPipe`: no pipe is ahead
  of those before it.  `Due`: the timer runs only while the last pipe owes a message, and
  so, with `PipeByPipe`, the window bounds what any buffer has to hold (`Fits`).
  `Reading`: `select_set` is exactly what holds data.
* `MaskedWhileBuffersFit`: with `[]VotesFit` and `[]InputFits` in place of the timed pipe and
  the window, the same for every preempting group (the timed pipe still the last if votes may
  be corrupted).  Both are hypotheses about the traffic: beyond them the code does lose and
  reorder messages.
* `VoterIsReliable`: `Spec /\ Sized => DoesNotFail`, the refinement of `Component`.
  `SafeAnswers` reads off `Safe` what the neighbours see; only `FromRep` and `HandOver` send,
  and what is sent grows (`SentGrows`), which `ReliableStep` maps to `Answer`.
* `FailedIsRestarted`: `RestartsTheFailed`.  `OneFailed`: outside of a restart one replica
  at most has failed, and a restart replaces it.  That the watchdog finds it is
  `ExpiryFindsFailed`.  A dead replica, or one that hangs without real time, leaves the others to
  finish, so it is the one behind.  One that spins at real time priority may starve
  another, which then has no vote on the timed pipe either.  Were the starved one chosen,
  the spinning one would have votes there, because `behindRep` breaks a tie in favour of
  its higher priority; so it is not the furthest behind over all pipes, and the top priority is a
  third replica's.  That one nobody starves, so it has answered and is less far behind than
  the starved one, while the top priority is for the furthest behind: a contradiction.
  It needs the scheduler to have the priorities on record (`Spinning`), and these to be as
  `balanceReps` finds them for the votes now there (`Spread`).  `FailedFound` is the
  conjunction of the three; TLC was run on it, with the instance of the run, before it was proved.
* `FurthestGetsDataFirst`: `MostBehindFirst` for every group while what it reads fits, and
  `SizedFurthestFirst` for `Sized` groups, where it does.

`Plumber_proofs`, for every set of lines of the shape of `LinesAssumption`, every script of
them and every `PIPE_LIMIT` and `PIPE_COUNT`:

* `PlumberTypes`, `EachLaunchedOnce`, `LinksConnected`, `AsWritten`, `TimersAsMarked`:
  `Spec => []TypeOK`, `[]LaunchedOnce`, `[]Connected`, `[]LaunchedAsWritten` and
  `[]TimedAsMarked`.  The properties speak of processes and of the script; the invariant
  speaks of the nodes between them, after each line.  `Listed`: the nodes are the
  components in the order of their first declarations.  `Wired`: the ends of a node are
  the mentions of its name in links that were made, in the order of the script, each with
  its direction, type and mark.  `Paired`: the two ends of a link are those of one pipe,
  and no later pipe has them.  `Launched`: the processes are the first of the nodes.  A
  write outside of a node leaves the script ahead of the nodes, and nothing is launched.
  The places of mentions are cardinalities; `MentionsFinite` and the lemmas after it say
  how they move when a line is read.

`Loop_proofs`, for every size of a reading, of the pipes, and of the voter's block, which takes
at least one reading (`CapacityAssumption`), and any number of readings and sessions:

* `LoopTypes`: `Spec => []TypeOK`, and `ResponsesTimed`: `Spec => RoundTripTimed`.  `Good`
  is the invariant of a session.  `Budget`: what is on its way from the BenchMarker back
  to it, a command counted as `Size` bytes, is at most `Size * out`; a torn reading makes
  it less, never more, so `out` does not fall below 0.  `Quiet`: without an overlap
  reported, at most one reading is out, and all bytes and commands on their way are its
  own.  `Whole`: the driver's pipe holds whole readings, so the BenchMarker never drops one.
  The first proof attempt showed that the property needs no exception for torn readings,
  which it had had.
* `CommandsOrdered`: `Spec => CommandsInOrder`.  `Ahead` joins the pipes and buffers of the
  driver's session to one stream of bytes and one of commands (`Stream`, `Answers`), so that
  what its processes read and write leaves both as they are (`SameFlow`), with two
  exceptions: the controller's read turns the head of the one into the end of the other, and
  the voter's read of a full block of commands drops them (`RisingLost`).  `Rising` holds
  always: commands and bytes lie between the last answer and the last reading, and rise, a
  byte strictly over `Size` places; so a command for a torn reading is garbage, and any
  other is new.  `InStep` holds until the backlog exceeds the block, of readings or of
  commands: the streams are the readings `answered + 1` to `nread`, whole and each once,
  since every pipe then holds a multiple of `Size` (`Aligned`).  A new session starts with
  idle processes, and answers to none of the old.

`Navigation_proofs`, for maps of any size, every goal on them (`GridAssumption`,
`GoalAssumption`), any poses, scans and thresholds (`PoseAssumption`, `ScansAssumption`,
`CountsAssumption`), any number of messages, and whatever the memory around the map reads
as:

* `SearchEnds`: of a robot with no free way to the edge of the map.  Its room is any set of
  cells on the map that `genNeighbors` does not leave, whatever is read beyond the edge.  The
  search then sees no cell outside the room, reads `obstacle_map` within its bounds only, and
  the `while` loop of `command` has ended after as many rounds as the room has cells, with the
  goal, an empty list or the NULL list of `Navigation_null`.  Each round closes one more node
  (`RoundKeeps`), and none twice, as a closed node is skipped; what is seen is linked back to
  the robot (`SeenInRoom`).  Of a search that leaves the map nothing is claimed: in the code
  nothing bounds it (`a_star.c:72`, `:78`), in the model the ring does (`SearchStops`), and
  that is what the other theorems about searches rest on.
* `RouteLeads`: a search that succeeds has a route from the robot's cell to the goal, by
  steps of `genNeighbors`.  The danger is a cycle of back links, along which `command`
  would push for ever: nodes of the open list get new links, to nodes closed later.
  `Ranked` excludes it: `rank` is the order of closing, a link leads to a lower rank, and a
  closed node keeps its link.  `Linked` says that a link leads to a neighbour and that only
  the start has none.  `Walked` is the invariant of the path's extraction.
* `FailsOnlyWithoutRoute`: a search that fails has seen all that can be reached.
  `Explored`: all neighbours of a closed node have been seen, and no closed node is the
  goal; with an empty open list, a way of any length from the robot's cell stays among
  the closed nodes (`NoRoute`).
* `NavigationTypes`, `MapsInStep`, `PathStaysAhead`, `ArtPotToldTheRoute`: `TypeOK`,
  `MapsAgree`, `PathAhead` and `ToldTheRoute`, each from `NavInv`, with one lemma per
  action.  `MapsAgree` is inductive with `TypeOK`, once `Counted` says what `updateMap`
  does over a message: a cell is listed in the update, once, exactly when its count
  passes the threshold in it.  `OnRoute`: the way points left are the end of the route,
  which ends in the goal.  `Planned`: after a search that succeeded, the route in force
  avoids all obstacles known, which is so because every new obstacle makes A\* plan anew.
  `Knows`: `current_goal` and `n_current_goal`, by which A\* decides to save a message, are
  what ArtPot heads for, or will when it has read its pipe.  The exception it needs is the
  end of a path: the goal is then sent again without a note of it.

The nodes are those of the map with the ring of cells around it, beyond which the model
reads obstacles.  The lemmas about the sorted list say which nodes it has, not their order,
which only the length of a route depends on.

TLC has checked each of these invariants on the instance of its run, too.

Model-checked only:

* liveness under fairness, which is out of the prover's reach (`Answered`, `Repaired`,
  `RestartsEnd`, `HandshakeEnds`, `LossNoticed`);
* that a route is a shortest one (`RouteShortest`): the reference, `ShortestLength`, is an
  iteration to a fixed point, and what it computes would take an induction over data.  The
  other parts of `RouteShortest`, that a route leads to the goal and that a failure means
  that there is none, are `RouteLeads` and `FailsOnlyWithoutRoute`.

## 6. Not modelled

* Player and the simulators are external: that Player calls the driver's setup and
  shutdown, cancels its thread and publishes readings is assumed as the driver uses it.
  Pose and goal are data.
* What the plumber does after a write outside of a node or through NULL, or with
  garbage behind the end of its list other than to crash.  Its lexer: a line is what
  the grammar gets.  Names are values, so the allocations that are one byte short do
  not appear.
* Map updates and message buffers as bytes: `Navigation` moves whole messages.
* Logger's output, Load's use of libccv, `generic_empty.c`, the timing and logging output
  of all components.
* `cs.c` and `ris.c`, drafts of the heartbeat merged with the BenchMarker that do not
  compile; the register injector (its effect is the upsets); the tests; libccv.
* Floating point: the potential field of ArtPot and the averages of Filter.
* Memory locking, failures of memory allocation, and of `exec` outside of the plumber.
