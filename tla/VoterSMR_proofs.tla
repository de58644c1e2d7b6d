--------------------------- MODULE VoterSMR_proofs ---------------------------
(***************************************************************************)
(* Proofs about the voter of a single replica, for any number of inputs,   *)
(* upsets, expiries and processes.                                         *)
(***************************************************************************)
EXTENDS VoterSMR, TLAPS

-----------------------------------------------------------------------------
(***************************************************************************)
(* Types.                                                                  *)
(***************************************************************************)

(* The pid a cold start gets is free: nobody in service, dying or unreaped has it. *)
LEMMA FreePidIsFree ==
  ASSUME FreePids # {}
  PROVE  FreePid \in Pids /\ FreePid # pid /\ FreePid \notin dying
BY DEF FreePid, FreePids

(* voterRestartHandler: the new process is neither the one given up nor a dying one. *)
LEMMA RestartTyped ==
  ASSUME TypeOK, NEW reaped, RestartHandler(reaped)
  PROVE  /\ last_dead' \in 0 .. MaxPid /\ pid' \in Pids
         /\ pid' # last_dead' /\ pid' \notin dying'
         /\ status' = "ok" /\ work' \in Seq(Msg) /\ inq' \in Seq(Msg) /\ outq' \in Seq(Msg)
         /\ dying' \in SUBSET Pids /\ zombies' \in SUBSET Pids /\ killed' \in SUBSET Pids
<1>1. /\ pid \in Pids /\ pid' = FreePid /\ last_dead' = pid
      /\ FreePid \in Pids /\ FreePid # pid /\ FreePid \notin dying
  BY FreePidIsFree DEF TypeOK, RestartHandler, GivenUp
<1>2. last_dead' \in 0 .. MaxPid
  BY <1>1, BoundAssumption DEF Pids
<1>3. dying' \in SUBSET Pids /\ pid' \notin dying'
  BY <1>1 DEF TypeOK, RestartHandler
<1>4. zombies' \in SUBSET Pids /\ killed' \in SUBSET Pids
  BY <1>3 DEF TypeOK, RestartHandler
<1>5. status' = "ok" /\ work' \in Seq(Msg) /\ inq' \in Seq(Msg) /\ outq' \in Seq(Msg)
  BY DEF TypeOK, RestartHandler, Resend
<1> QED BY <1>1, <1>2, <1>3, <1>4, <1>5

(* The count of early expiries stays within its bound. *)
LEMMA InTimeTyped ==
  ASSUME TypeOK, InTime
  PROVE  lates' \in 0 .. MaxLate
BY BoundAssumption DEF TypeOK, InTime

(* Every variable keeps its type. *)
LEMMA TypeStep ==
  ASSUME TypeOK, [Next]_vars
  PROVE  TypeOK'
<1>1. CASE EnvSend
  <2>1. given' \in 0 .. MaxIn /\ extin' \in Seq(Msg)
    BY <1>1, BoundAssumption DEF EnvSend, TypeOK, Msg
  <2> QED BY <1>1, <2>1 DEF EnvSend, TypeOK, voterVars, procVars
<1>2. CASE RepRead
  <2>1. work' \in Seq(Msg) /\ inq' \in Seq(Msg)
    BY <1>2 DEF RepRead, TypeOK
  <2> QED BY <1>2, <2>1 DEF RepRead, TypeOK, voterVars, bounds
<1>3. CASE RepWrite
  <2>1. outq' \in Seq(Msg) /\ work' \in Seq(Msg)
    BY <1>3 DEF RepWrite, TypeOK
  <2> QED BY <1>3, <2>1 DEF RepWrite, TypeOK, voterVars, bounds
<1>4. CASE Crash \/ Hang
  <2>1. faults' \in 0 .. MaxFaults /\ zombies' \in SUBSET Pids /\ status' \in {"ok", "hung", "dead"}
    BY <1>4, BoundAssumption DEF Crash, Hang, Upset, TypeOK
  <2> QED BY <1>4, <2>1 DEF Crash, Hang, TypeOK, voterVars, pipeVars
<1>5. CASE Elapse
  <2>1. lates' \in 0 .. MaxLate /\ pc' \in {"top", "timer", "select", "ext", "rep"}
    BY <1>5, InTimeTyped DEF Elapse, TypeOK
  <2>2. expired' \in BOOLEAN
    BY <1>5, Zenon DEF Elapse
  <2> QED BY <1>5, <2>1, <2>2 DEF Elapse, TypeOK, pipeVars, procVars
<1>6. ASSUME NEW p \in Pids, Exit(p) PROVE TypeOK'
  BY <1>6 DEF Exit, TypeOK, voterVars, pipeVars, bounds
<1>7. CASE Reap
  <2>1. /\ pc' = "timer"
        /\ UNCHANGED <<buff, ready, extin, answered, bounds>>
    BY <1>7 DEF Reap
  <2>2. CASE UNCHANGED <<timer, expired, last_dead, pid, inq, outq, procVars>>
    BY <2>1, <2>2 DEF TypeOK, procVars, bounds
  <2>3. ASSUME NEW p \in zombies, RestartHandler({p}),
               timer' = TimerAfterReap, expired' = FALSE
        PROVE  TypeOK'
    <3>1. timer' \in BOOLEAN /\ expired' \in BOOLEAN
      BY <2>3, Zenon DEF TimerAfterReap
    <3> QED BY <2>1, <2>3, <3>1, RestartTyped DEF TypeOK, bounds
  <2>4. ASSUME NEW p \in zombies, zombies' = zombies \ {p}, killed' = killed \ {p},
               UNCHANGED <<timer, expired, last_dead, pid, inq, outq, status, work, dying>>
        PROVE  TypeOK'
    BY <2>1, <2>4 DEF TypeOK, bounds
  <2> QED BY <1>7, <2>2, <2>3, <2>4 DEF Reap
<1>8. CASE CheckTimer
  <2>1. /\ pc' = "select"
        /\ UNCHANGED <<timer, expired, buff, ready, extin, answered, bounds>>
    BY <1>8 DEF CheckTimer
  <2>2. CASE RestartHandler({})
    BY <2>1, <2>2, RestartTyped DEF TypeOK, bounds
  <2>3. CASE UNCHANGED <<last_dead, pid, inq, outq, procVars>>
    BY <2>1, <2>3 DEF TypeOK, procVars, bounds
  <2> QED BY <1>8, <2>2, <2>3 DEF CheckTimer
<1>9. CASE Select
  <2>1. pc' \in {"ext", "rep"}
    BY <1>9 DEF Select
  <2>2. ready' \in [ext : BOOLEAN, rep : BOOLEAN]
    BY <1>9 DEF Select
  <2> QED BY <1>9, <2>1, <2>2 DEF Select, TypeOK, pipeVars, procVars, bounds
<1>10. CASE SelectTimeout
  BY <1>10, InTimeTyped DEF SelectTimeout, TypeOK, pipeVars, procVars
<1>11. CASE ReadExt
  <2>1. pc' \in {"rep", "top"} /\ buff' \in Seq(Msg) /\ extin' \in Seq(Msg) /\ inq' \in Seq(Msg)
    BY <1>11 DEF ReadExt, LastData, TypeOK
  <2>2. timer' \in BOOLEAN /\ expired' \in BOOLEAN
    BY <1>11, Zenon DEF ReadExt
  <2> QED BY <1>11, <2>1, <2>2 DEF ReadExt, TypeOK, procVars, bounds
<1>12. CASE FromRep
  <2>1. answered' \in 0 .. MaxIn /\ outq' \in Seq(Msg)
    BY <1>12, BoundAssumption DEF FromRep, TypeOK, Last, Msg
  <2>2. timer' \in BOOLEAN /\ expired' \in BOOLEAN
    BY <1>12, Zenon DEF FromRep
  <2> QED BY <1>12, <2>1, <2>2 DEF FromRep, TypeOK, procVars, bounds
<1>13. CASE UNCHANGED vars
  BY <1>13 DEF vars, voterVars, pipeVars, procVars, bounds, TypeOK
<1> QED BY <1>1, <1>2, <1>3, <1>4, <1>5, <1>6, <1>7, <1>8, <1>9, <1>10, <1>11, <1>12, <1>13
        DEF Next

(***************************************************************************)
(* Whatever exits, hangs or is late, and however slowly the killed exit:   *)
(* the process that voterRestartHandler puts in service is never the one   *)
(* it has just given up, nor one that is still dying.                      *)
(***************************************************************************)
THEOREM ColdStartTyped == Spec => []TypeOK
<1>1. Init => TypeOK
  <2> SUFFICES ASSUME Init PROVE TypeOK
    OBVIOUS
  <2>1. /\ pc = "top" /\ last_dead \in 0 .. MaxPid /\ pid \in Pids /\ pid # last_dead
        /\ answered \in 0 .. MaxIn /\ given \in 0 .. MaxIn
        /\ faults \in 0 .. MaxFaults /\ lates \in 0 .. MaxLate
    BY BoundAssumption DEF Init, Pids
  <2>2. /\ buff \in Seq(Msg) /\ extin \in Seq(Msg) /\ inq \in Seq(Msg) /\ outq \in Seq(Msg)
        /\ work \in Seq(Msg) /\ status = "ok"
    BY DEF Init
  <2>3. dying \in SUBSET Pids /\ zombies \in SUBSET Pids /\ killed \in SUBSET Pids /\ pid \notin dying
    BY DEF Init
  <2>4. timer \in BOOLEAN /\ expired \in BOOLEAN
    BY Zenon DEF Init
  <2>5. ready \in [ext : BOOLEAN, rep : BOOLEAN]
    BY DEF Init, Nothing
  <2> QED BY <2>1, <2>2, <2>3, <2>4, <2>5 DEF TypeOK
<1> QED BY <1>1, TypeStep, PTL DEF Spec

-----------------------------------------------------------------------------
(***************************************************************************)
(* Order.  With one input in flight, the case in which the BenchMarker     *)
(* reports no error (benchmarker.c:131), everything in the replica and its *)
(* pipes is the answer sent last or the next one, in order; a cold start   *)
(* throws it away and puts the last block read in its place, which is one  *)
(* of the two.                                                             *)
(***************************************************************************)
LastRead == given - Len(extin)

Sorted(s) == \A i \in 1 .. Len(s) : \A j \in i .. Len(s) : s[i] <= s[j]
Before(s, t) == \A i \in 1 .. Len(s) : \A j \in 1 .. Len(t) : s[i] <= t[j]
Due(s) == \A i \in 1 .. Len(s) : s[i] \in {answered, LastRead}

(* What the environment has sent and the voter has read. *)
Given ==
  /\ given \in {answered, answered + 1}
  /\ extin = <<>> \/ (extin = <<given>> /\ given = answered + 1)
  /\ pc = "ext" => extin # <<>>
  /\ \/ buff = <<>> /\ LastRead = 0
     \/ buff = <<LastRead>>

(* What the replica holds and its pipes. *)
UnderWay ==
  /\ Due(outq) /\ Due(work) /\ Due(inq)
  /\ Sorted(outq) /\ Sorted(work) /\ Sorted(inq)
  /\ Before(outq, work) /\ Before(outq, inq) /\ Before(work, inq)

Flow == Given /\ UnderWay

(* Types of the numbers and queues the argument is about. *)
LEMMA FlowTyped ==
  ASSUME TypeOK
  PROVE  /\ given \in Int /\ answered \in Int /\ Len(extin) \in Nat /\ LastRead \in Int
         /\ outq \in Seq(Int) /\ work \in Seq(Int) /\ inq \in Seq(Int)
<1>1. \A s \in Seq(Msg) : s \in Seq(Int)
  BY BoundAssumption DEF Msg
<1> QED BY <1>1, BoundAssumption DEF TypeOK, LastRead, Msg

(* Before the first input nothing is under way. *)
LEMMA FlowInit == Init => Flow
<1> SUFFICES ASSUME Init PROVE Flow
  OBVIOUS
<1>1. /\ given = 0 /\ answered = 0 /\ extin = <<>> /\ buff = <<>> /\ pc = "top"
      /\ outq = <<>> /\ work = <<>> /\ inq = <<>>
  BY DEF Init
<1>2. LastRead = 0
  <2>1. given = 0 /\ Len(extin) = 0
    BY <1>1
  <2> QED BY <2>1 DEF LastRead
<1>3. Given
  BY <1>1, <1>2 DEF Given
<1>4. UnderWay
  BY <1>1 DEF UnderWay, Due, Sorted, Before
<1> QED BY <1>3, <1>4 DEF Flow

(* The last block read is the answer sent last or the next one. *)
LEMMA LastReadIsDue ==
  ASSUME TypeOK, Given
  PROVE  LastRead \in {answered, answered + 1}
<1>1. CASE extin = <<>>
  BY <1>1, FlowTyped DEF Given, LastRead
<1>2. CASE extin = <<given>> /\ given = answered + 1
  <2>1. Len(extin) = 1
    BY <1>2
  <2> QED BY <1>2, <2>1, FlowTyped DEF LastRead
<1> QED BY <1>1, <1>2 DEF Given

(* A cold start leaves the last block read in the input pipe, and nothing else. *)
LEMMA FlowRestart ==
  ASSUME TypeOK, Flow, NEW reaped, RestartHandler(reaped),
         UNCHANGED <<given, answered, extin, buff>>, pc' # "ext"
  PROVE  Flow'
<1>1. outq' = <<>> /\ work' = <<>> /\ inq' = buff /\ LastRead' = LastRead
  BY DEF RestartHandler, Resend, LastRead
<1>2. Given'
  BY <1>1 DEF Flow, Given
<1>3. inq' = <<>> \/ inq' = <<LastRead>>
  BY <1>1 DEF Flow, Given
<1>4. LastRead \in Int
  BY FlowTyped
<1>5. Due(outq)' /\ Due(work)' /\ Due(inq)'
  BY <1>1, <1>3 DEF Due
<1>6. Sorted(outq)' /\ Sorted(work)' /\ Sorted(inq)'
  BY <1>1, <1>3, <1>4 DEF Sorted
<1>7. Before(outq, work)' /\ Before(outq, inq)' /\ Before(work, inq)'
  BY <1>1 DEF Before
<1> QED BY <1>2, <1>5, <1>6, <1>7 DEF Flow, UnderWay

(* Steps that move no data keep the order. *)
LEMMA FlowKept ==
  ASSUME Flow, UNCHANGED <<given, answered, extin, buff, outq, work, inq>>,
         pc' = "ext" => extin # <<>>
  PROVE  Flow'
BY DEF Flow, Given, UnderWay, LastRead, Due, Sorted, Before

(* A new input is the next one, and follows only when the last was answered. *)
LEMMA FlowEnvSend ==
  ASSUME TypeOK, Flow, Window = 1, EnvSend
  PROVE  Flow'
<1>1. /\ given - answered < 1 /\ given' = given + 1 /\ extin' = Append(extin, given + 1)
      /\ UNCHANGED <<answered, buff, outq, work, inq, pc>>
  BY DEF EnvSend, voterVars, procVars
<1>2. given = answered /\ extin = <<>>
  BY <1>1, FlowTyped DEF Flow, Given
<1>3. extin' = <<given'>> /\ Len(extin') = 1 /\ Len(extin) = 0
  BY <1>1, <1>2
<1>4. LastRead' = LastRead
  BY <1>1, <1>3, FlowTyped DEF LastRead
<1>5. Given'
  BY <1>1, <1>2, <1>3, <1>4, FlowTyped DEF Flow, Given
<1>6. UnderWay'
  BY <1>1, <1>4 DEF Flow, UnderWay, Due, Sorted, Before
<1> QED BY <1>5, <1>6 DEF Flow

(* The replica takes the first input. *)
LEMMA FlowRepRead ==
  ASSUME TypeOK, Flow, RepRead
  PROVE  Flow'
<1>1. /\ work = <<>> /\ inq # <<>> /\ work' = <<Head(inq)>> /\ inq' = Tail(inq)
      /\ UNCHANGED <<given, answered, extin, buff, outq, pc>>
  BY DEF RepRead, voterVars, bounds
<1>2. LastRead' = LastRead /\ Given'
  BY <1>1 DEF LastRead, Flow, Given
<1>3. /\ Len(work') = 1 /\ work'[1] = inq[1] /\ 1 \in 1 .. Len(inq)
      /\ \A j \in 1 .. Len(inq') : j + 1 \in 1 .. Len(inq) /\ inq'[j] = inq[j + 1]
      /\ Len(inq) \in Nat /\ Len(inq') \in Nat
      /\ inq[1] \in Int
  BY <1>1, FlowTyped
<1>4. Due(outq)' /\ Due(work)' /\ Due(inq)'
  BY <1>1, <1>2, <1>3 DEF Flow, UnderWay, Due
<1>5. Sorted(outq)' /\ Sorted(work)'
  BY <1>1, <1>3 DEF Flow, UnderWay, Sorted
<1>6. Sorted(inq)'
  <2> SUFFICES ASSUME NEW i \in 1 .. Len(inq'), NEW j \in i .. Len(inq')
               PROVE  inq'[i] <= inq'[j]
    BY DEF Sorted
  <2>1. /\ i + 1 \in 1 .. Len(inq) /\ j + 1 \in i + 1 .. Len(inq)
        /\ inq'[i] = inq[i + 1] /\ inq'[j] = inq[j + 1]
    BY <1>3
  <2> QED BY <2>1 DEF Flow, UnderWay, Sorted
<1>7. Before(outq, work)' /\ Before(outq, inq)'
  BY <1>1, <1>3 DEF Flow, UnderWay, Before
<1>8. Before(work, inq)'
  <2> SUFFICES ASSUME NEW j \in 1 .. Len(inq')
               PROVE  inq[1] <= inq'[j]
    BY <1>3 DEF Before
  <2>1. j + 1 \in 1 .. Len(inq) /\ inq'[j] = inq[j + 1]
    BY <1>3
  <2> QED BY <1>3, <2>1 DEF Flow, UnderWay, Sorted
<1> QED BY <1>2, <1>4, <1>5, <1>6, <1>7, <1>8 DEF Flow, UnderWay

(* Two sequences in order, one after the other, are one in order. *)
LEMMA JoinSorted ==
  ASSUME NEW s \in Seq(Int), NEW t \in Seq(Int), Sorted(s), Sorted(t), Before(s, t)
  PROVE  Sorted(s \o t)
<1> SUFFICES ASSUME NEW i \in 1 .. Len(s \o t), NEW j \in i .. Len(s \o t)
             PROVE  (s \o t)[i] <= (s \o t)[j]
  BY DEF Sorted
<1>1. CASE j <= Len(s)
  BY <1>1 DEF Sorted
<1>2. CASE i <= Len(s) /\ j > Len(s)
  BY <1>2 DEF Before
<1>3. CASE i > Len(s)
  <2>1. /\ i - Len(s) \in 1 .. Len(t) /\ j - Len(s) \in i - Len(s) .. Len(t)
        /\ (s \o t)[i] = t[i - Len(s)] /\ (s \o t)[j] = t[j - Len(s)]
    BY <1>3
  <2> QED BY <2>1 DEF Sorted
<1> QED BY <1>1, <1>2, <1>3

(* An element of two sequences joined is one of the first or of the second. *)
LEMMA JoinParts ==
  ASSUME NEW s \in Seq(Int), NEW t \in Seq(Int), NEW i \in 1 .. Len(s \o t)
  PROVE  \/ i \in 1 .. Len(s) /\ (s \o t)[i] = s[i]
         \/ i - Len(s) \in 1 .. Len(t) /\ (s \o t)[i] = t[i - Len(s)]
OBVIOUS

(* The replica writes what it has computed. *)
LEMMA FlowRepWrite ==
  ASSUME TypeOK, Flow, RepWrite
  PROVE  Flow'
<1>1. /\ outq' = outq \o work /\ work' = <<>>
      /\ UNCHANGED <<given, answered, extin, buff, inq, pc>>
  BY DEF RepWrite, voterVars, bounds
<1>2. LastRead' = LastRead /\ Given'
  BY <1>1 DEF LastRead, Flow, Given
<1>3. Sorted(outq')
  BY <1>1, FlowTyped, JoinSorted DEF Flow, UnderWay
<1>4. \A i \in 1 .. Len(outq') : \/ \E j \in 1 .. Len(outq) : outq'[i] = outq[j]
                                \/ \E j \in 1 .. Len(work) : outq'[i] = work[j]
  <2>1. ASSUME NEW i \in 1 .. Len(outq \o work)
        PROVE  \/ \E j \in 1 .. Len(outq) : (outq \o work)[i] = outq[j]
               \/ \E j \in 1 .. Len(work) : (outq \o work)[i] = work[j]
    BY FlowTyped, JoinParts
  <2> QED BY <1>1, <2>1, Zenon
<1>5. Due(outq)' /\ Due(work)' /\ Due(inq)'
  BY <1>1, <1>2, <1>4 DEF Flow, UnderWay, Due
<1>6. Sorted(work)' /\ Sorted(inq)'
  BY <1>1 DEF Flow, UnderWay, Sorted
<1>7. Before(outq, work)' /\ Before(outq, inq)' /\ Before(work, inq)'
  BY <1>1, <1>4 DEF Flow, UnderWay, Before
<1>8. Sorted(outq)'
  BY <1>3 DEF Sorted
<1> QED BY <1>2, <1>5, <1>6, <1>7, <1>8 DEF Flow, UnderWay

(* The voter reads the next input and passes it on. *)
LEMMA FlowReadExt ==
  ASSUME TypeOK, Flow, ReadExt
  PROVE  Flow'
<1>1. /\ pc = "ext" /\ pc' # "ext" /\ buff' = extin /\ extin' = <<>> /\ inq' = inq \o extin
      /\ UNCHANGED <<given, answered, outq, work>>
  BY DEF ReadExt, LastData, procVars, bounds
<1>2. extin = <<given>> /\ given = answered + 1 /\ Len(extin) = 1
  BY <1>1 DEF Flow, Given
<1>3. LastRead' = given /\ LastRead = answered
  BY <1>1, <1>2, FlowTyped DEF LastRead
<1>4. Given'
  BY <1>1, <1>2, <1>3 DEF Flow, Given
<1>5. \A i \in 1 .. Len(inq') : \/ i \in 1 .. Len(inq) /\ inq'[i] = inq[i]
                               \/ inq'[i] = given
  BY <1>1, <1>2, FlowTyped, JoinParts
<1>6. \A s \in {outq, work, inq} : \A i \in 1 .. Len(s) : s[i] = answered
  BY <1>3 DEF Flow, UnderWay, Due
<1>7. Due(outq)' /\ Due(work)' /\ Due(inq)'
  BY <1>1, <1>3, <1>5, <1>6 DEF Due
<1>8. Before(inq, extin) /\ Sorted(extin) /\ extin \in Seq(Int)
  BY <1>2, <1>6, FlowTyped DEF Before, Sorted
<1>9. Sorted(inq')
  BY <1>1, <1>8, FlowTyped, JoinSorted DEF Flow, UnderWay
<1>10. Sorted(outq)' /\ Sorted(work)' /\ Sorted(inq)'
  BY <1>1, <1>9 DEF Flow, UnderWay, Sorted
<1>11. Before(outq, work)' /\ Before(outq, inq)' /\ Before(work, inq)'
  <2>1. answered <= given /\ answered <= answered
    BY <1>2, FlowTyped
  <2>2. \A i \in 1 .. Len(inq') : inq'[i] \in {answered, given}
    BY <1>5, <1>6
  <2> QED BY <1>1, <1>6, <2>1, <2>2 DEF Before
<1> QED BY <1>4, <1>7, <1>10, <1>11 DEF Flow, UnderWay

(* What is sent is passed by what stays. *)
LEMMA FlowFromRep ==
  ASSUME TypeOK, Flow, FromRep
  PROVE  Flow'
<1>1. /\ outq # <<>> /\ answered' = outq[Len(outq)] /\ outq' = <<>> /\ pc' = "top"
      /\ UNCHANGED <<given, extin, buff, inq, work>>
  BY DEF FromRep, Last, procVars, bounds
<1>2. LastRead' = LastRead /\ Len(outq) \in 1 .. Len(outq)
  BY <1>1, FlowTyped DEF LastRead
<1>3. answered' \in {answered, LastRead} /\ LastRead \in {answered, answered + 1}
  BY <1>1, <1>2, LastReadIsDue DEF Flow, UnderWay, Due
<1>4. Given'
  <2>1. CASE extin = <<>>
    <3>1. LastRead = given
      BY <2>1, FlowTyped DEF LastRead
    <3>2. given' \in {answered', answered' + 1}
      BY <1>1, <1>3, <3>1, FlowTyped DEF Flow, Given
    <3> QED BY <1>1, <1>2, <2>1, <3>2 DEF Flow, Given
  <2>2. CASE extin = <<given>> /\ given = answered + 1
    <3>1. LastRead = answered /\ answered' = answered
      BY <1>3, <2>2, FlowTyped DEF LastRead
    <3> QED BY <1>1, <1>2, <2>2, <3>1 DEF Flow, Given
  <2> QED BY <2>1, <2>2 DEF Flow, Given
<1>5. ASSUME NEW s \in {work, inq}, NEW i \in 1 .. Len(s)
      PROVE  s[i] \in {answered', LastRead}
  <2>1. answered' <= s[i]
    BY <1>1, <1>2, <1>5 DEF Flow, UnderWay, Before
  <2>2. s[i] \in {answered, LastRead}
    BY <1>5 DEF Flow, UnderWay, Due
  <2> QED BY <1>3, <2>1, <2>2, FlowTyped
<1>6. Due(outq)' /\ Due(work)' /\ Due(inq)'
  BY <1>1, <1>2, <1>5 DEF Due
<1>7. UnderWay'
  BY <1>1, <1>6 DEF Flow, UnderWay, Sorted, Before
<1> QED BY <1>4, <1>7 DEF Flow

(* No step puts an input out of order. *)
LEMMA FlowStep ==
  ASSUME TypeOK, Flow, Window = 1, [Next]_vars
  PROVE  Flow'
<1>1. CASE Crash \/ Hang
  BY <1>1, FlowKept DEF Crash, Hang, Flow, Given, voterVars, pipeVars, bounds
<1>2. CASE Elapse
  BY <1>2, FlowKept DEF Elapse, Flow, Given, pipeVars, procVars
<1>3. ASSUME NEW p \in Pids, Exit(p) PROVE Flow'
  BY <1>3, FlowKept DEF Exit, Flow, Given, voterVars, pipeVars, bounds
<1>4. CASE Reap
  <2>1. pc' = "timer" /\ UNCHANGED <<given, answered, extin, buff>>
    BY <1>4 DEF Reap, bounds
  <2>2. CASE \E p \in zombies : RestartHandler({p})
    BY <2>1, <2>2, FlowRestart
  <2>3. CASE UNCHANGED <<outq, work, inq>>
    BY <2>1, <2>3, FlowKept
  <2> QED BY <1>4, <2>2, <2>3 DEF Reap, procVars
<1>5. CASE CheckTimer
  <2>1. pc' = "select" /\ UNCHANGED <<given, answered, extin, buff>>
    BY <1>5 DEF CheckTimer, bounds
  <2>2. CASE RestartHandler({})
    BY <2>1, <2>2, FlowRestart
  <2>3. CASE UNCHANGED <<outq, work, inq>>
    BY <2>1, <2>3, FlowKept
  <2> QED BY <1>5, <2>2, <2>3 DEF CheckTimer, procVars
<1>6. CASE Select
  BY <1>6, FlowKept DEF Select, pipeVars, procVars, bounds
<1>7. CASE SelectTimeout
  BY <1>7, FlowKept DEF SelectTimeout, pipeVars, procVars
<1>8. CASE UNCHANGED vars
  BY <1>8, FlowKept DEF Flow, Given, vars, voterVars, pipeVars, procVars, bounds
<1> QED BY <1>1, <1>2, <1>3, <1>4, <1>5, <1>6, <1>7, <1>8, FlowEnvSend, FlowRepRead,
           FlowRepWrite, FlowReadExt, FlowFromRep DEF Next

(***************************************************************************)
(* With one input in flight, the case that the BenchMarker does not report *)
(* as an error (it sends the next input all the same), any number of       *)
(* exits, kills, late answers and cold starts leaves the answers in order: *)
(* what processFromRep sends repeats the last answer or is the next one,   *)
(* since voterRestartHandler resends just the last block read.             *)
(***************************************************************************)
THEOREM ResendKeepsOrder ==
  ASSUME Window = 1
  PROVE  Spec => []AtLeastOnceInOrder
<1>1. TypeOK /\ Flow => AtLeastOnceInOrder
  <2> SUFFICES ASSUME TypeOK, Flow, NEW i \in 1 .. Len(outq)
               PROVE  (<<answered>> \o outq)[i+1] - (<<answered>> \o outq)[i] \in {0, 1}
    BY DEF AtLeastOnceInOrder
  <2> DEFINE prev == IF i = 1 THEN answered ELSE outq[i-1]
  <2>1. (<<answered>> \o outq)[i+1] = outq[i] /\ (<<answered>> \o outq)[i] = prev
    BY FlowTyped
  <2>2. LastRead \in {answered, answered + 1} /\ answered \in Int
    BY LastReadIsDue, FlowTyped DEF Flow
  <2>3. outq[i] \in {answered, LastRead}
    BY DEF Flow, UnderWay, Due
  <2>4. i # 1 => i - 1 \in 1 .. Len(outq) /\ i \in i - 1 .. Len(outq)
    BY FlowTyped
  <2>5. i # 1 => outq[i-1] \in {answered, LastRead} /\ outq[i-1] <= outq[i]
    BY <2>4 DEF Flow, UnderWay, Due, Sorted
  <2>6. outq[i] - prev \in {0, 1}
    BY <2>2, <2>3, <2>5
  <2> QED BY <2>1, <2>6
<1>2. TypeOK /\ Flow /\ [Next]_vars => Flow'
  BY FlowStep
<1> QED BY <1>1, <1>2, FlowInit, ColdStartTyped, PTL DEF Spec
=============================================================================
