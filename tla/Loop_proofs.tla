---------------------------- MODULE Loop_proofs ----------------------------
(***************************************************************************)
(* Proofs about Loop, for every number of readings and sessions, every     *)
(* size of a reading, of the voter's buffer and of the pipes.              *)
(*                                                                         *)
(* Each session keeps two books.  Its budget: what is on its way from the  *)
(* BenchMarker back to it, in bytes and in commands, never exceeds the     *)
(* readings it has sent and not had answered, although torn readings make  *)
(* it less.  And its quiet: while the BenchMarker has not reported an      *)
(* overlap, at most one reading is out, and whatever is on its way is that *)
(* reading or the command for it.  The order of the commands rests on what *)
(* the pipes and buffers of a session hold, taken together (Ahead).        *)
(***************************************************************************)
EXTENDS Loop, SequenceTheorems, TLAPS

Values == 1 .. MaxReadings
Commands == Values \cup {Garbage}

Session ==
  [a : Seq(Values), b : Seq(Values), c : Seq(Values), toB : Seq(Values), toC : Seq(Values),
   d : Seq(Commands), e : Seq(Commands), f : Seq(Commands),
   toD : Seq(Commands), toE : Seq(Commands), toF : Seq(Commands),
   waiting_response : BOOLEAN, last : Nat, reported : BOOLEAN, out : Nat, over : BOOLEAN]

(* The pipes and the voter's buffer hold what is in them. *)
Room(L) ==
  /\ Len(L.toC) <= Block
  /\ Len(L.a) <= RangeCap * Size /\ Len(L.b) <= RangeCap * Size /\ Len(L.c) <= RangeCap * Size
  /\ Len(L.d) <= CmdCap /\ Len(L.e) <= CmdCap /\ Len(L.f) <= CmdCap

Read(L) == Len(L.toB) + Len(L.b) + Len(L.toC) + Len(L.c)
Said(L) == Len(L.toD) + Len(L.d) + Len(L.toE) + Len(L.e)

Budget(L) == Read(L) + Size * Said(L) <= Size * L.out

(* Everything on its way is of one reading. *)
OnlyOf(L, n) ==
  /\ L.toB \in Seq({n}) /\ L.b \in Seq({n}) /\ L.toC \in Seq({n}) /\ L.c \in Seq({n})
  /\ L.toD \in Seq({n}) /\ L.d \in Seq({n}) /\ L.toE \in Seq({n}) /\ L.e \in Seq({n})

Quiet(L) ==
  ~L.reported => /\ L.out = 0 \/ (L.out = 1 /\ L.waiting_response)
                 /\ OnlyOf(L, L.last)

(* The driver's pipe holds whole readings. *)
Whole(pipe) ==
  \E k \in Nat :
    /\ Len(pipe) = Size * k
    /\ \A j \in 0 .. k - 1 : \A r \in 1 .. Size : pipe[Size * j + r] = pipe[Size * j + 1]

Good(L) == L \in Session /\ Room(L) /\ Whole(L.a) /\ Budget(L) /\ Quiet(L)

Due == nread + queued + (IF sending THEN 1 ELSE 0)

Driver ==
  /\ driver \in {"down", "queue", "read"}
  /\ queued \in 0 .. QueueCap /\ sending \in BOOLEAN
  /\ session \in 0 .. MaxSessions /\ (driver # "down" => session \in Sessions)
  /\ robot \in Garbage .. MaxReadings
  /\ nread \in 0 .. MaxReadings /\ answered \in 0 .. MaxReadings
  /\ Due <= MaxReadings

Inv ==
  /\ Driver
  /\ loop \in [Sessions -> Session]
  /\ \A s \in Sessions : Good(loop[s])

-----------------------------------------------------------------------------
(***************************************************************************)
(* What is read from a pipe, and what is left in it.                       *)
(***************************************************************************)

(* A larger multiple of the size of a reading. *)
LEMMA Multiples ==
  ASSUME NEW m \in Nat, NEW n \in Nat, m <= n, NEW z \in Nat
  PROVE  z * m \in Nat /\ z * m <= z * n
<1>1. z * (n - m) \in Nat /\ z * m \in Nat
  OBVIOUS
<1>2. z * n = z * m + z * (n - m)
  OBVIOUS
<1>. QED  BY <1>1, <1>2

(* A read takes from the front what there is, up to its size. *)
LEMMA ReadSplits ==
  ASSUME NEW S, NEW pipe \in Seq(S), NEW n \in Nat
  PROVE  /\ Least(n, Len(pipe)) \in 0 .. Len(pipe) /\ Len(pipe) \in Nat
         /\ Taken(pipe, n) \in Seq(S) /\ Len(Taken(pipe, n)) = Least(n, Len(pipe))
         /\ Rest(pipe, n) \in Seq(S) /\ Len(Rest(pipe, n)) = Len(pipe) - Least(n, Len(pipe))
         /\ \A i \in 1 .. Least(n, Len(pipe)) : Taken(pipe, n)[i] = pipe[i]
         /\ \A i \in 1 .. Len(pipe) - Least(n, Len(pipe)) :
              Rest(pipe, n)[i] = pipe[Least(n, Len(pipe)) + i]
<1>. DEFINE m == Least(n, Len(pipe))
<1>1. Len(pipe) \in Nat /\ \A i \in 1 .. Len(pipe) : pipe[i] \in S
  BY LenProperties, ElementOfSeq
<1>2. m \in 0 .. Len(pipe)
  BY <1>1 DEF Least
<1>. HIDE DEF m
<1>3. /\ SubSeq(pipe, 1, m) \in Seq(S) /\ Len(SubSeq(pipe, 1, m)) = m
      /\ \A i \in 1 .. m : SubSeq(pipe, 1, m)[i] = pipe[i]
  <2>1. \A i \in 1 .. m : pipe[i] \in S
    BY <1>1, <1>2
  <2>2. /\ SubSeq(pipe, 1, m) \in Seq(S)
        /\ Len(SubSeq(pipe, 1, m)) = IF 1 <= m THEN m - 1 + 1 ELSE 0
        /\ \A i \in 1 .. m - 1 + 1 : SubSeq(pipe, 1, m)[i] = pipe[1 + i - 1]
    BY <1>2, <2>1, SubSeqProperties
  <2>. QED  BY <1>2, <2>2
<1>4. /\ SubSeq(pipe, m + 1, Len(pipe)) \in Seq(S)
      /\ Len(SubSeq(pipe, m + 1, Len(pipe))) = Len(pipe) - m
      /\ \A i \in 1 .. Len(pipe) - m : SubSeq(pipe, m + 1, Len(pipe))[i] = pipe[m + i]
  <2>1. \A i \in m + 1 .. Len(pipe) : pipe[i] \in S
    BY <1>1, <1>2
  <2>2. LET rest == SubSeq(pipe, m + 1, Len(pipe))
        IN  /\ rest \in Seq(S)
            /\ Len(rest) = IF m + 1 <= Len(pipe) THEN Len(pipe) - (m + 1) + 1 ELSE 0
            /\ \A i \in 1 .. Len(pipe) - (m + 1) + 1 : rest[i] = pipe[m + 1 + i - 1]
    BY <1>1, <1>2, <2>1, SubSeqProperties
  <2>. QED  BY <1>1, <1>2, <2>2
<1>. QED  BY <1>1, <1>2, <1>3, <1>4 DEF Taken, Rest, m

(* write appends the bytes of one reading. *)
LEMMA BytesOf ==
  ASSUME NEW n
  PROVE  /\ Bytes(n) \in Seq({n}) /\ Len(Bytes(n)) = Size
         /\ \A i \in 1 .. Size : Bytes(n)[i] = n
<1>1. Size \in Nat
  BY CapacityAssumption
<1>2. Bytes(n) \in [1 .. Size -> {n}]
  BY DEF Bytes

<1>3. Bytes(n) \in Seq({n})
  BY <1>1, <1>2
<1>4. DOMAIN Bytes(n) = 1 .. Size /\ DOMAIN Bytes(n) = 1 .. Len(Bytes(n))
  BY <1>2, <1>3, LenProperties
<1>5. Len(Bytes(n)) \in Nat
  BY <1>3, LenProperties
<1>. QED  BY <1>1, <1>2, <1>3, <1>4, <1>5

(* The translator writes whole readings. *)
LEMMA WholeWrite ==
  ASSUME NEW pipe \in Seq(Values), Whole(pipe), NEW n \in Values
  PROVE  /\ pipe \o Bytes(n) \in Seq(Values) /\ Whole(pipe \o Bytes(n))
         /\ Len(pipe \o Bytes(n)) = Len(pipe) + Size
<1>1. Size \in Nat \ {0}
  BY CapacityAssumption
<1>2. Bytes(n) \in Seq(Values)
  <2>1. Bytes(n) \in Seq({n}) /\ {n} \subseteq Values
    BY BytesOf
  <2>. QED  BY <2>1, SeqMonotonic
<1>3. /\ pipe \o Bytes(n) \in Seq(Values)
      /\ Len(pipe \o Bytes(n)) = Len(pipe) + Size
      /\ \A i \in 1 .. Len(pipe) + Size :
           (pipe \o Bytes(n))[i] = IF i <= Len(pipe) THEN pipe[i] ELSE Bytes(n)[i - Len(pipe)]
  <2>1. Len(Bytes(n)) = Size
    BY BytesOf
  <2>. QED  BY <1>2, <2>1, ConcatProperties
<1>4. PICK k \in Nat :
        /\ Len(pipe) = Size * k
        /\ \A j \in 0 .. k - 1 : \A r \in 1 .. Size : pipe[Size * j + r] = pipe[Size * j + 1]
  BY DEF Whole
<1>5. Len(pipe \o Bytes(n)) = Size * (k + 1) /\ Size * k \in Nat
  BY <1>1, <1>3, <1>4
<1>. DEFINE q == pipe \o Bytes(n)
<1>6. ASSUME NEW j \in 0 .. (k + 1) - 1, NEW r \in 1 .. Size
      PROVE  q[Size * j + r] = q[Size * j + 1]
  <2>1. CASE j = k
    <3>1. \A i \in 1 .. Size : q[Len(pipe) + i] = Bytes(n)[i]
      <4>. TAKE i \in 1 .. Size
      <4>1. /\ Len(pipe) + i \in 1 .. Len(pipe) + Size /\ ~(Len(pipe) + i <= Len(pipe))
            /\ (Len(pipe) + i) - Len(pipe) = i
        BY <1>1, <1>4, <1>5
      <4>. QED  BY <1>3, <4>1
    <3>2. q[Len(pipe) + r] = n /\ q[Len(pipe) + 1] = n
      <4>1. \A i \in 1 .. Size : Bytes(n)[i] = n
        BY BytesOf
      <4>2. 1 \in 1 .. Size
        BY <1>1
      <4>. HIDE DEF q
      <4>. QED  BY <3>1, <4>1, <4>2
    <3>. HIDE DEF q
    <3>. QED  BY <1>4, <2>1, <3>2
  <2>2. CASE j < k
    <3>1. Size * (j + 1) <= Size * k /\ Size * j \in Nat /\ Size * (j + 1) = Size * j + Size
      BY <1>1, <2>2, Multiples
    <3>2. Size * j + r \in 1 .. Len(pipe) /\ Size * j + 1 \in 1 .. Len(pipe)
      BY <1>1, <1>4, <1>5, <3>1
    <3>3. q[Size * j + r] = pipe[Size * j + r] /\ q[Size * j + 1] = pipe[Size * j + 1]
      <4>. DEFINE x == Size * j + r
                  y == Size * j + 1
      <4>1. x \in 1 .. Len(pipe) /\ y \in 1 .. Len(pipe) /\ Len(pipe) \in Nat
        BY <1>4, <1>5, <3>2
      <4>. HIDE DEF x, y
      <4>2. q[x] = pipe[x] /\ q[y] = pipe[y]
        BY <1>1, <1>3, <4>1
      <4>. QED  BY <4>2 DEF x, y
    <3>4. pipe[Size * j + r] = pipe[Size * j + 1]
      BY <1>4, <2>2
    <3>. HIDE DEF q
    <3>. QED  BY <3>3, <3>4
  <2>3. j = k \/ j < k
    OBVIOUS
  <2>. HIDE DEF q
  <2>. QED  BY <2>1, <2>2, <2>3
<1>7. Whole(q)
  <2>1. k + 1 \in Nat /\ Len(q) = Size * (k + 1)
    BY <1>5
  <2>. HIDE DEF q
  <2>. QED  BY <1>6, <2>1 DEF Whole
<1>. QED  BY <1>3, <1>7

(* The BenchMarker reads one reading, and leaves whole ones. *)
LEMMA WholeRead ==
  ASSUME NEW pipe \in Seq(Values), Whole(pipe), pipe # <<>>
  PROVE  /\ Taken(pipe, Size) \in Seq({pipe[1]}) /\ Taken(pipe, Size) \in Seq(Values)
         /\ Len(Taken(pipe, Size)) = Size /\ Taken(pipe, Size)[1] = pipe[1]
         /\ Rest(pipe, Size) \in Seq(Values) /\ Whole(Rest(pipe, Size))
         /\ Len(Rest(pipe, Size)) <= Len(pipe)
<1>1. Size \in Nat \ {0} /\ Len(pipe) \in Nat \ {0}
  BY CapacityAssumption, EmptySeq
<1>2. PICK k \in Nat :
        /\ Len(pipe) = Size * k
        /\ \A j \in 0 .. k - 1 : \A r \in 1 .. Size : pipe[Size * j + r] = pipe[Size * j + 1]
  BY DEF Whole
<1>3. k >= 1
  BY <1>1, <1>2
<1>4. Size <= Len(pipe) /\ Len(pipe) - Size = Size * (k - 1)
  <2>1. Size * 1 <= Size * k
    BY <1>1, <1>3, Multiples
  <2>. QED  BY <1>1, <1>2, <2>1
<1>5. Least(Size, Len(pipe)) = Size
  BY <1>1, <1>4 DEF Least
<1>6. /\ Taken(pipe, Size) \in Seq(Values) /\ Len(Taken(pipe, Size)) = Size
      /\ Rest(pipe, Size) \in Seq(Values) /\ Len(Rest(pipe, Size)) = Len(pipe) - Size
      /\ \A i \in 1 .. Size : Taken(pipe, Size)[i] = pipe[i]
      /\ \A i \in 1 .. Len(pipe) - Size : Rest(pipe, Size)[i] = pipe[Size + i]
  <2>. DEFINE m == Least(Size, Len(pipe))
  <2>1. /\ Taken(pipe, Size) \in Seq(Values) /\ Len(Taken(pipe, Size)) = m
        /\ Rest(pipe, Size) \in Seq(Values) /\ Len(Rest(pipe, Size)) = Len(pipe) - m
        /\ \A i \in 1 .. m : Taken(pipe, Size)[i] = pipe[i]
        /\ \A i \in 1 .. Len(pipe) - m : Rest(pipe, Size)[i] = pipe[m + i]
    BY <1>1, ReadSplits
  <2>. QED  BY <1>5, <2>1
<1>7. \A i \in 1 .. Size : pipe[i] = pipe[1]
  <2>. TAKE i \in 1 .. Size
  <2>1. pipe[Size * 0 + i] = pipe[Size * 0 + 1]
    BY <1>2, <1>3
  <2>. QED  BY <1>1, <2>1
<1>8. Taken(pipe, Size) \in Seq({pipe[1]})
  <2>1. Taken(pipe, Size) \in [1 .. Size -> Values]
    BY <1>6, LenProperties
  <2>2. Taken(pipe, Size) \in [1 .. Size -> {pipe[1]}]
    BY <1>6, <1>7, <2>1
  <2>. QED  BY <1>1, <2>2, SeqDef
<1>. DEFINE q == Rest(pipe, Size)
<1>9. ASSUME NEW j \in 0 .. (k - 1) - 1, NEW r \in 1 .. Size
      PROVE  q[Size * j + r] = q[Size * j + 1]
  <2>1. /\ Size * (j + 1) <= Size * (k - 1) /\ Size * j \in Nat
        /\ Size * (j + 1) = Size * j + Size
    BY <1>1, <1>3, Multiples
  <2>2. Size * j + r \in 1 .. Len(pipe) - Size /\ Size * j + 1 \in 1 .. Len(pipe) - Size
    BY <1>1, <1>4, <2>1
  <2>3. /\ q[Size * j + r] = pipe[Size + (Size * j + r)]
        /\ q[Size * j + 1] = pipe[Size + (Size * j + 1)]
    BY <1>6, <2>2
  <2>4. pipe[Size * (j + 1) + r] = pipe[Size * (j + 1) + 1]
    BY <1>2, <1>3
  <2>5. /\ Size + (Size * j + r) = Size * (j + 1) + r
        /\ Size + (Size * j + 1) = Size * (j + 1) + 1
    BY <1>1, <2>1
  <2>. QED  BY <2>3, <2>4, <2>5
<1>10. Whole(q)
  <2>1. k - 1 \in Nat /\ Len(q) = Size * (k - 1)
    BY <1>3, <1>4, <1>6
  <2>. HIDE DEF q
  <2>. QED  BY <1>9, <2>1 DEF Whole
<1>. QED  BY <1>1, <1>6, <1>8, <1>10

-----------------------------------------------------------------------------
(***************************************************************************)
(* The steps of a session, one lemma for each process and direction.       *)
(***************************************************************************)

(* The lengths of a session's pipes and buffers. *)
LEMMA Lengths ==
  ASSUME NEW L, L \in Session
  PROVE  /\ Len(L.a) \in Nat /\ Len(L.b) \in Nat /\ Len(L.c) \in Nat /\ Len(L.d) \in Nat
         /\ Len(L.e) \in Nat /\ Len(L.f) \in Nat /\ Len(L.toB) \in Nat /\ Len(L.toC) \in Nat
         /\ Len(L.toD) \in Nat /\ Len(L.toE) \in Nat /\ Len(L.toF) \in Nat
         /\ Read(L) \in Nat /\ Said(L) \in Nat /\ L.out \in Nat
<1>1. /\ Len(L.a) \in Nat /\ Len(L.b) \in Nat /\ Len(L.c) \in Nat
      /\ Len(L.toB) \in Nat /\ Len(L.toC) \in Nat
  BY DEF Session
<1>2. /\ Len(L.d) \in Nat /\ Len(L.e) \in Nat /\ Len(L.f) \in Nat
      /\ Len(L.toD) \in Nat /\ Len(L.toE) \in Nat /\ Len(L.toF) \in Nat
  BY DEF Session
<1>3. L.out \in Nat
  BY DEF Session
<1>4. Read(L) \in Nat /\ Said(L) \in Nat
  BY DEF Read, Said, Session
<1>. QED  BY ONLY <1>1, <1>2, <1>3, <1>4

(* With no reading out, nothing is on its way. *)
LEMMA NothingOut ==
  ASSUME NEW L, L \in Session, Budget(L), L.out = 0
  PROVE  /\ L.toB = <<>> /\ L.b = <<>> /\ L.toC = <<>> /\ L.c = <<>>
         /\ L.toD = <<>> /\ L.d = <<>> /\ L.toE = <<>> /\ L.e = <<>>
<1>1. Read(L) = 0 /\ Said(L) = 0
  <2>1. Size \in Nat \ {0} /\ Read(L) \in Nat /\ Said(L) \in Nat
    BY CapacityAssumption, Lengths
  <2>2. Read(L) + Size * Said(L) <= 0
    BY <2>1 DEF Budget
  <2>. QED  BY <2>1, <2>2
<1>2. /\ Len(L.toB) = 0 /\ Len(L.b) = 0 /\ Len(L.toC) = 0 /\ Len(L.c) = 0
      /\ Len(L.toD) = 0 /\ Len(L.d) = 0 /\ Len(L.toE) = 0 /\ Len(L.e) = 0
  BY <1>1 DEF Read, Said, Session
<1>. QED  BY <1>2 DEF Session

(* Nothing is of any reading. *)
LEMMA NothingOnlyOf ==
  ASSUME NEW L, L \in Session, Budget(L), L.out = 0, NEW n
  PROVE  OnlyOf(L, n)
<1>1. <<>> \in Seq({n})
  OBVIOUS
<1>. QED  BY <1>1, NothingOut DEF OnlyOf

(* The BenchMarker reads a reading: it is out, and was not waited for or is reported. *)
LEMMA BenchRangeGood ==
  ASSUME NEW L, Good(L), BenchIdle(L), L.a # <<>>,
         NEW bytes, bytes = WholeOnly(Taken(L.a, Size)),
         NEW M, M = [L EXCEPT !.a = Rest(@, Size), !.toB = bytes]
  PROVE  bytes # <<>> /\ Good(Ask(M, bytes))
<1>1. L \in Session /\ L.a \in Seq(Values) /\ L.toB = <<>> /\ Size \in Nat \ {0}
  BY CapacityAssumption DEF Good, Session, BenchIdle
<1>2. /\ bytes \in Seq({L.a[1]}) /\ bytes \in Seq(Values) /\ Len(bytes) = Size
      /\ bytes[1] = L.a[1] /\ Rest(L.a, Size) \in Seq(Values) /\ Whole(Rest(L.a, Size))
      /\ Len(Rest(L.a, Size)) <= Len(L.a)
  BY <1>1, WholeRead DEF Good, WholeOnly
<1>3. bytes # <<>> /\ bytes[1] \in Nat
  <2>1. Len(<<>>) = 0
    OBVIOUS
  <2>2. bytes[1] \in Values
    BY <1>1, <1>2, ElementOfSeq
  <2>. QED  BY <1>1, <1>2, <2>1, <2>2 DEF Values
<1>. DEFINE N == Ask(M, bytes)
            reported == M.reported \/ M.waiting_response
<1>4. M \in Session /\ N \in Session
  <2>1. M \in Session
    BY <1>1, <1>2 DEF Session
  <2>2. reported \in BOOLEAN
    OBVIOUS
  <2>. DEFINE last == bytes[1]
              out == M.out + 1
  <2>3. N = [M EXCEPT !.waiting_response = TRUE, !.last = last,
                      !.reported = reported, !.out = out]
    BY DEF Ask
  <2>4. last \in Nat /\ out \in Nat /\ TRUE \in BOOLEAN
    <3>1. M.out \in Nat
      BY <2>1 DEF Session
    <3>2. out \in Nat
      BY <3>1
    <3>. QED  BY <1>3, <3>2
  <2>. HIDE DEF N, reported, last, out
  <2>5. N \in Session
    BY ONLY <2>1, <2>2, <2>3, <2>4 DEF Session
  <2>. QED  BY <2>1, <2>5
<1>5. /\ N.a = Rest(L.a, Size) /\ N.toB = bytes /\ N.b = L.b /\ N.toC = L.toC /\ N.c = L.c
      /\ N.d = L.d /\ N.e = L.e /\ N.f = L.f /\ N.toD = L.toD /\ N.toE = L.toE
      /\ N.out = L.out + 1 /\ N.waiting_response = TRUE /\ N.last = bytes[1]
  BY <1>1 DEF Ask, Session
<1>6. ~N.reported => ~L.reported /\ ~L.waiting_response
  BY <1>1 DEF Ask, Session
<1>. HIDE DEF N
<1>7. Room(N)
  <2>1. Len(N.a) \in Nat /\ Len(L.a) \in Nat /\ RangeCap * Size \in Nat
    BY <1>1, <1>2, <1>4, <1>5, CapacityAssumption, LenProperties
  <2>2. Len(N.a) <= RangeCap * Size
    BY <1>2, <1>5, <2>1 DEF Good, Room
  <2>. QED  BY <1>5, <2>2 DEF Good, Room
<1>8. Budget(N)
  <2>1. Read(N) = Read(L) + Size /\ Said(N) = Said(L)
    <3>1. Len(L.toB) = 0 /\ Len(N.toB) = Size
      BY <1>1, <1>2, <1>5
    <3>2. /\ Len(N.b) = Len(L.b) /\ Len(N.toC) = Len(L.toC) /\ Len(N.c) = Len(L.c)
      BY <1>5
    <3>3. Said(N) = Said(L)
      BY <1>5 DEF Said
    <3>. DEFINE b == Len(L.b)
                toC == Len(L.toC)
                c == Len(L.c)
    <3>4. Read(L) = 0 + b + toC + c /\ Read(N) = Size + b + toC + c
      BY <3>1, <3>2 DEF Read
    <3>5. b \in Nat /\ toC \in Nat /\ c \in Nat
      BY <1>1, Lengths
    <3>. HIDE DEF b, toC, c
    <3>6. Read(N) = Read(L) + Size
      BY <1>1, <3>4, <3>5
    <3>. QED  BY <3>3, <3>6
  <2>2. Size * (L.out + 1) = Size * L.out + Size
    BY <1>1, Lengths
  <2>3. Read(L) + Size * Said(L) <= Size * L.out
    BY DEF Good, Budget
  <2>4. Read(L) \in Nat /\ Size * Said(L) \in Nat /\ Size * L.out \in Nat
    BY <1>1, Lengths
  <2>. QED  BY <1>1, <1>5, <2>1, <2>2, <2>3, <2>4 DEF Budget
<1>9. Quiet(N)
  <2>. SUFFICES ASSUME ~N.reported
                PROVE  /\ N.out = 1 /\ N.waiting_response
                       /\ OnlyOf(N, N.last)
    BY DEF Quiet
  <2>1. L.out = 0
    BY <1>6 DEF Good, Quiet
  <2>2. /\ L.b = <<>> /\ L.toC = <<>> /\ L.c = <<>>
        /\ L.toD = <<>> /\ L.d = <<>> /\ L.toE = <<>> /\ L.e = <<>>
    BY <1>1, <2>1, NothingOut DEF Good
  <2>3. OnlyOf(N, N.last)
    BY <1>2, <1>5, <2>2 DEF OnlyOf
  <2>. QED  BY <1>5, <2>1, <2>3
<1>. QED  BY <1>2, <1>3, <1>4, <1>5, <1>7, <1>8, <1>9 DEF Good, N

(* The BenchMarker passes the reading on. *)
LEMMA BenchRangeWriteGood ==
  ASSUME NEW L, Good(L), L.toB # <<>>, FitsRange(L.b, L.toB)
  PROVE  Good([L EXCEPT !.b = @ \o L.toB, !.toB = <<>>,
                        !.over = @ \/ Len(L.b \o L.toB) > Block])
<1>1. L \in Session /\ L.b \in Seq(Values) /\ L.toB \in Seq(Values)
  BY DEF Good, Session
<1>2. L.b \o L.toB \in Seq(Values) /\ Len(L.b \o L.toB) = Len(L.b) + Len(L.toB)
  BY <1>1, ConcatProperties
<1>3. (L.over \/ Len(L.b \o L.toB) > Block) \in BOOLEAN
  OBVIOUS
<1>. DEFINE over == L.over \/ Len(L.b \o L.toB) > Block
            N == [L EXCEPT !.b = @ \o L.toB, !.toB = <<>>, !.over = over]
<1>. HIDE DEF over
<1>4. N \in Session
  <2>1. over \in BOOLEAN
    BY DEF over
  <2>2. <<>> \in Seq(Values)
    OBVIOUS
  <2>. QED  BY <1>1, <1>2, <2>1, <2>2 DEF Session
<1>5. /\ N.a = L.a /\ N.toB = <<>> /\ N.b = L.b \o L.toB /\ N.toC = L.toC /\ N.c = L.c
      /\ N.d = L.d /\ N.e = L.e /\ N.f = L.f /\ N.toD = L.toD /\ N.toE = L.toE
      /\ N.out = L.out /\ N.waiting_response = L.waiting_response /\ N.last = L.last
      /\ N.reported = L.reported
  BY <1>1 DEF Session
<1>. HIDE DEF N
<1>6. Room(N)
  BY <1>1, <1>2, <1>5 DEF Good, Room, FitsRange
<1>7. Read(N) = Read(L) /\ Said(N) = Said(L)
  <2>1. Len(<<>>) = 0
    OBVIOUS
  <2>. QED  BY <1>1, <1>2, <1>4, <1>5, <2>1 DEF Read, Said, Session
<1>8. OnlyOf(L, L.last) => OnlyOf(N, L.last)
  BY <1>5, ConcatProperties DEF OnlyOf
<1>9. Budget(N) /\ Quiet(N) /\ Whole(N.a)
  BY <1>5, <1>7, <1>8 DEF Good, Budget, Quiet
<1>. QED  BY <1>4, <1>6, <1>9 DEF Good, N, over

(* The BenchMarker reads a command: a reading less is out, and with none out it is quiet. *)
LEMMA BenchCommandGood ==
  ASSUME NEW L, Good(L), BenchIdle(L), L.e # <<>>
  PROVE  Good([L EXCEPT !.e = Tail(@), !.toF = Forwarded(L, Head(L.e)),
                        !.waiting_response = FALSE,
                        !.out = @ - 1, !.reported = @ /\ L.out > 1])
<1>1. L \in Session /\ L.e \in Seq(Commands) /\ Size \in Nat \ {0}
  BY CapacityAssumption DEF Good, Session
<1>2. /\ Head(L.e) \in Commands /\ Tail(L.e) \in Seq(Commands)
      /\ Len(Tail(L.e)) = Len(L.e) - 1 /\ Len(L.e) \in Nat \ {0}
  BY <1>1, HeadTailProperties, EmptySeq
<1>3. Forwarded(L, Head(L.e)) \in Seq(Commands)
  BY <1>2 DEF Forwarded
<1>4. /\ Read(L) \in Nat /\ Said(L) \in Nat /\ L.out \in Nat
      /\ Read(L) + Size * Said(L) <= Size * L.out
  BY <1>1, Lengths DEF Good, Budget
<1>. DEFINE toD == Len(L.toD)
            d == Len(L.d)
            toE == Len(L.toE)
            n == Len(L.e)
<1>5. /\ toD \in Nat /\ d \in Nat /\ toE \in Nat /\ Said(L) = toD + d + toE + n
      /\ n \in Nat \ {0} /\ Len(Tail(L.e)) = n - 1
  BY <1>1, <1>2, Lengths DEF Said
<1>. HIDE DEF toD, d, toE, n
<1>6. Said(L) >= 1
  BY ONLY <1>5
<1>7. L.out >= 1
  <2>1. Size * 1 <= Size * Said(L)
    BY <1>1, <1>4, <1>6, Multiples
  <2>. QED  BY <1>1, <1>4, <2>1
<1>. DEFINE reported == L.reported /\ L.out > 1
            out == L.out - 1
            e == Tail(L.e)
            toF == Forwarded(L, Head(L.e))
            N == [L EXCEPT !.e = e, !.toF = toF, !.waiting_response = FALSE,
                           !.out = out, !.reported = reported]
<1>8. /\ reported \in BOOLEAN /\ FALSE \in BOOLEAN
      /\ out \in Nat /\ e \in Seq(Commands) /\ toF \in Seq(Commands)
  <2>1. reported \in BOOLEAN /\ FALSE \in BOOLEAN
    OBVIOUS
  <2>2. out \in Nat
    BY <1>4, <1>7
  <2>. QED  BY <1>2, <1>3, <2>1, <2>2
<1>. HIDE DEF reported, out, e, toF
<1>9. N \in Session
  BY ONLY <1>1, <1>8 DEF Session
<1>10. /\ N.a = L.a /\ N.toB = L.toB /\ N.b = L.b /\ N.toC = L.toC /\ N.c = L.c
       /\ N.d = L.d /\ N.f = L.f /\ N.toD = L.toD /\ N.toE = L.toE
       /\ N.e = e /\ N.out = out /\ N.reported = reported
  BY ONLY <1>1, <1>8 DEF Session
<1>. HIDE DEF N
<1>11. Room(N)
  <2>1. Len(e) <= CmdCap
    BY <1>1, <1>2, CapacityAssumption DEF Good, Room, e
  <2>. QED  BY <1>10, <2>1 DEF Good, Room
<1>12. Budget(N)
  <2>1. Read(N) = Read(L) /\ Said(N) = toD + d + toE + Len(e)
    BY <1>10 DEF Read, Said, toD, d, toE
  <2>2. Said(N) = Said(L) - 1
    <3>1. Len(e) = n - 1
      BY <1>5 DEF e
    <3>. QED  BY ONLY <1>5, <2>1, <3>1
  <2>3. Size * (Said(L) - 1) = Size * Said(L) - Size /\ Size * (L.out - 1) = Size * L.out - Size
    BY <1>1, <1>4
  <2>4. Read(L) + Size * (Said(L) - 1) <= Size * (L.out - 1)
    BY <1>1, <1>4, <2>3
  <2>. QED  BY <1>10, <2>1, <2>2, <2>4 DEF Budget, out
<1>13. Quiet(N)
  <2>. SUFFICES ASSUME ~N.reported
                PROVE  N.out = 0
    BY <1>9, <1>12, NothingOnlyOf DEF Quiet
  <2>1. ~L.reported \/ ~(L.out > 1)
    BY <1>10 DEF reported
  <2>2. ~L.reported => L.out = 0 \/ L.out = 1
    BY DEF Good, Quiet
  <2>3. L.out = 1
    BY <1>4, <1>7, <2>1, <2>2
  <2>. QED  BY <1>10, <2>3 DEF out
<1>14. Good(N)
  BY <1>9, <1>10, <1>11, <1>12, <1>13 DEF Good
<1>. QED  BY <1>14 DEF N, e, toF, out, reported

(* The BenchMarker passes the command on. *)
LEMMA BenchCommandWriteGood ==
  ASSUME NEW L, Good(L), L.toF # <<>>, FitsCmd(L.f, L.toF)
  PROVE  Good([L EXCEPT !.f = @ \o L.toF, !.toF = <<>>])
<1>1. L \in Session /\ L.f \in Seq(Commands) /\ L.toF \in Seq(Commands)
  BY DEF Good, Session
<1>. DEFINE f == L.f \o L.toF
            N == [L EXCEPT !.f = f, !.toF = <<>>]
<1>2. f \in Seq(Commands) /\ Len(f) = Len(L.f) + Len(L.toF) /\ <<>> \in Seq(Commands)
  BY <1>1, ConcatProperties
<1>3. Len(f) <= CmdCap
  BY <1>2 DEF FitsCmd
<1>. HIDE DEF f
<1>4. N \in Session
  BY ONLY <1>1, <1>2 DEF Session
<1>5. /\ N.a = L.a /\ N.toB = L.toB /\ N.b = L.b /\ N.toC = L.toC /\ N.c = L.c
      /\ N.d = L.d /\ N.e = L.e /\ N.toD = L.toD /\ N.toE = L.toE /\ N.f = f
      /\ N.out = L.out /\ N.waiting_response = L.waiting_response /\ N.last = L.last
      /\ N.reported = L.reported
  BY ONLY <1>1, <1>2 DEF Session
<1>. HIDE DEF N
<1>6. Room(N) /\ Whole(N.a) /\ Budget(N) /\ Quiet(N)
  BY <1>3, <1>5 DEF Good, Room, Budget, Read, Said, Quiet, OnlyOf
<1>7. Good(N)
  BY <1>4, <1>6 DEF Good
<1>. QED  BY <1>7 DEF N, f

(* The voter reads its external pipe, up to what its buffer holds. *)
LEMMA VoterRangeGood ==
  ASSUME NEW L, Good(L), VoterIdle(L), L.b # <<>>
  PROVE  Good([L EXCEPT !.toC = Taken(L.b, VoterBlock(L.b)), !.b = Rest(@, VoterBlock(L.b))])
<1>1. L \in Session /\ L.b \in Seq(Values) /\ L.toC = <<>> /\ Block \in Nat
  BY CapacityAssumption DEF Good, Session, VoterIdle
<1>. DEFINE n == Len(L.b)
            m == Least(Block, n)
            toC == Taken(L.b, VoterBlock(L.b))
            b == Rest(L.b, VoterBlock(L.b))
            N == [L EXCEPT !.toC = toC, !.b = b]
<1>2. /\ m \in 0 .. n /\ n \in Nat /\ m <= Block /\ toC \in Seq(Values) /\ b \in Seq(Values)
      /\ Len(toC) = m /\ Len(b) = n - m
  <2>1. m <= Block
    BY <1>1, LenProperties DEF Least
  <2>. QED  BY <1>1, <2>1, ReadSplits DEF VoterBlock
<1>3. \A v : L.b \in Seq({v}) => toC \in Seq({v}) /\ b \in Seq({v})
  BY <1>1, ReadSplits DEF VoterBlock
<1>4. n <= RangeCap * Size /\ Size \in Nat /\ RangeCap \in Nat
  BY CapacityAssumption DEF Good, Room
<1>. HIDE DEF m, toC, b
<1>5. N \in Session
  BY ONLY <1>1, <1>2 DEF Session
<1>6. /\ N.a = L.a /\ N.toB = L.toB /\ N.b = b /\ N.toC = toC /\ N.c = L.c
      /\ N.d = L.d /\ N.e = L.e /\ N.f = L.f /\ N.toD = L.toD /\ N.toE = L.toE
      /\ N.out = L.out /\ N.waiting_response = L.waiting_response /\ N.last = L.last
      /\ N.reported = L.reported
  BY ONLY <1>1, <1>2 DEF Session
<1>. HIDE DEF N
<1>7. Room(N)
  <2>1. Len(b) <= RangeCap * Size /\ Len(toC) <= Block
    <3>. HIDE DEF n
    <3>. QED  BY ONLY <1>1, <1>2, <1>4
  <2>. QED  BY <1>6, <2>1 DEF Good, Room
<1>8. Read(N) = Read(L) /\ Said(N) = Said(L)
  <2>. DEFINE toB == Len(L.toB)
              c == Len(L.c)
  <2>1. /\ Read(L) = toB + n + 0 + c
        /\ Read(N) = toB + Len(b) + Len(toC) + c
    BY <1>1, <1>6 DEF Read
  <2>2. toB \in Nat /\ c \in Nat
    BY <1>1, Lengths
  <2>3. Said(N) = Said(L)
    BY <1>6 DEF Said
  <2>. HIDE DEF toB, c, n
  <2>4. Read(N) = Read(L)
    BY ONLY <1>2, <2>1, <2>2
  <2>. QED  BY <2>3, <2>4
<1>9. OnlyOf(L, L.last) => OnlyOf(N, L.last)
  BY <1>3, <1>6 DEF OnlyOf
<1>10. Whole(N.a) /\ Budget(N) /\ Quiet(N)
  BY <1>6, <1>8, <1>9 DEF Good, Budget, Quiet
<1>11. Good(N)
  BY <1>5, <1>7, <1>10 DEF Good
<1>. QED  BY <1>11 DEF N, b, toC

(* The voter writes what it has read to its replica. *)
LEMMA VoterRangeWriteGood ==
  ASSUME NEW L, Good(L), L.toC # <<>>, FitsRange(L.c, L.toC)
  PROVE  Good([L EXCEPT !.c = @ \o L.toC, !.toC = <<>>])
<1>1. L \in Session /\ L.c \in Seq(Values) /\ L.toC \in Seq(Values)
  BY DEF Good, Session
<1>. DEFINE c == L.c \o L.toC
            N == [L EXCEPT !.c = c, !.toC = <<>>]
<1>2. c \in Seq(Values) /\ Len(c) = Len(L.c) + Len(L.toC) /\ <<>> \in Seq(Values)
  BY <1>1, ConcatProperties
<1>3. Len(c) <= RangeCap * Size
  BY <1>2 DEF FitsRange
<1>4. \A v : L.c \in Seq({v}) /\ L.toC \in Seq({v}) => c \in Seq({v})
  BY ConcatProperties
<1>. HIDE DEF c
<1>5. N \in Session
  BY ONLY <1>1, <1>2 DEF Session
<1>6. /\ N.a = L.a /\ N.toB = L.toB /\ N.b = L.b /\ N.toC = <<>> /\ N.c = c
      /\ N.d = L.d /\ N.e = L.e /\ N.f = L.f /\ N.toD = L.toD /\ N.toE = L.toE
      /\ N.out = L.out /\ N.waiting_response = L.waiting_response /\ N.last = L.last
      /\ N.reported = L.reported
  BY ONLY <1>1, <1>2 DEF Session
<1>. HIDE DEF N
<1>7. Len(N.toC) = 0
  BY <1>6
<1>8. Room(N)
  BY <1>3, <1>6, <1>7, CapacityAssumption DEF Good, Room
<1>9. Read(N) = Read(L) /\ Said(N) = Said(L)
  <2>. DEFINE toB == Len(L.toB)
              b == Len(L.b)
              toC == Len(L.toC)
              k == Len(L.c)
  <2>1. Read(L) = toB + b + toC + k /\ Read(N) = toB + b + 0 + (k + toC)
    BY <1>2, <1>6, <1>7 DEF Read
  <2>2. toB \in Nat /\ b \in Nat /\ toC \in Nat /\ k \in Nat
    BY <1>1, Lengths
  <2>3. Said(N) = Said(L)
    BY <1>6 DEF Said
  <2>. HIDE DEF toB, b, toC, k
  <2>4. Read(N) = Read(L)
    BY ONLY <2>1, <2>2
  <2>. QED  BY <2>3, <2>4
<1>10. OnlyOf(L, L.last) => OnlyOf(N, L.last)
  <2>1. <<>> \in Seq({L.last})
    OBVIOUS
  <2>. QED  BY <1>4, <1>6, <2>1 DEF OnlyOf
<1>11. Whole(N.a) /\ Budget(N) /\ Quiet(N)
  BY <1>6, <1>9, <1>10 DEF Good, Budget, Quiet
<1>12. Good(N)
  BY <1>5, <1>8, <1>11 DEF Good
<1>. QED  BY <1>12 DEF N, c

(* What the voter keeps of the commands it reads, and what it leaves. *)
LEMMA CommandsKept ==
  ASSUME NEW S, NEW pipe \in Seq(S)
  PROVE  /\ Kept(pipe) \in Seq(S) /\ Rest(pipe, CmdBlock) \in Seq(S)
         /\ Len(pipe) \in Nat /\ Len(Kept(pipe)) \in Nat /\ Len(Rest(pipe, CmdBlock)) \in Nat
         /\ Len(Kept(pipe)) + Len(Rest(pipe, CmdBlock)) <= Len(pipe)
         /\ Len(pipe) < CmdBlock => Kept(pipe) = pipe /\ Rest(pipe, CmdBlock) = <<>>
         /\ ~(Len(pipe) < CmdBlock) => Kept(pipe) = <<>>
<1>. DEFINE rest == Rest(pipe, CmdBlock)
            n == Len(pipe)
<1>1. CmdBlock \in Nat \ {0}
  BY CapacityAssumption
<1>2. /\ rest \in Seq(S) /\ n \in Nat /\ Len(rest) = n - Least(CmdBlock, n)
      /\ Least(CmdBlock, n) \in 0 .. n
  BY <1>1, ReadSplits
<1>3. <<>> \in Seq(S) /\ Len(<<>>) = 0
  OBVIOUS
<1>4. CASE n < CmdBlock
  <2>1. Kept(pipe) = pipe
    BY <1>4 DEF Kept
  <2>2. Least(CmdBlock, n) = n
    BY <1>1, <1>2, <1>4 DEF Least
  <2>. HIDE DEF n, rest
  <2>3. Len(rest) = 0
    BY <1>2, <2>2
  <2>4. rest = <<>>
    BY ONLY <1>2, <2>3, EmptySeq
  <2>5. Len(pipe) = n
    BY DEF n
  <2>. QED  BY <1>2, <1>3, <1>4, <2>1, <2>3, <2>4, <2>5 DEF rest
<1>5. CASE ~(n < CmdBlock)
  <2>1. Kept(pipe) = <<>>
    BY <1>5 DEF Kept
  <2>. HIDE DEF rest
  <2>2. Len(rest) \in Nat /\ 0 + Len(rest) <= n
    BY <1>2
  <2>. QED  BY <1>2, <1>3, <1>5, <2>1, <2>2 DEF rest
<1>. QED  BY <1>4, <1>5

(* The voter takes a block of its replica's commands, and loses it when it is full. *)
LEMMA VoterCommandGood ==
  ASSUME NEW L, Good(L), VoterIdle(L), L.d # <<>>
  PROVE  Good([L EXCEPT !.toE = Kept(L.d), !.d = Rest(@, CmdBlock),
                        !.over = @ \/ Len(L.d) >= CmdBlock])
<1>1. L \in Session /\ L.d \in Seq(Commands) /\ L.toE = <<>>
  BY DEF Good, Session, VoterIdle
<1>. DEFINE toE == Kept(L.d)
            d == Rest(L.d, CmdBlock)
            over == L.over \/ Len(L.d) >= CmdBlock
            N == [L EXCEPT !.toE = toE, !.d = d, !.over = over]
<1>2. /\ toE \in Seq(Commands) /\ d \in Seq(Commands) /\ over \in BOOLEAN
      /\ Len(toE) \in Nat /\ Len(d) \in Nat /\ Len(toE) + Len(d) <= Len(L.d)
  BY <1>1, CommandsKept
<1>3. \A v : L.d \in Seq({v}) => toE \in Seq({v}) /\ d \in Seq({v})
  BY CommandsKept
<1>. HIDE DEF toE, d, over
<1>4. N \in Session
  BY ONLY <1>1, <1>2 DEF Session
<1>5. /\ N.a = L.a /\ N.toB = L.toB /\ N.b = L.b /\ N.toC = L.toC /\ N.c = L.c
      /\ N.d = d /\ N.e = L.e /\ N.f = L.f /\ N.toD = L.toD /\ N.toE = toE
      /\ N.out = L.out /\ N.waiting_response = L.waiting_response /\ N.last = L.last
      /\ N.reported = L.reported
  BY ONLY <1>1, <1>2 DEF Session
<1>. HIDE DEF N
<1>6. Room(N)
  <2>1. Len(L.d) \in Nat /\ Len(L.d) <= CmdCap /\ CmdCap \in Nat
    BY <1>1, Lengths, CapacityAssumption DEF Good, Room
  <2>2. Len(d) <= CmdCap
    BY ONLY <1>2, <2>1
  <2>. QED  BY <1>5, <2>2 DEF Good, Room
<1>7. Read(N) = Read(L) /\ Said(N) <= Said(L) /\ Said(N) \in Nat /\ Said(L) \in Nat
  <2>. DEFINE to == Len(L.toD)
              k == Len(L.d)
              e == Len(L.e)
  <2>1. Said(L) = to + k + 0 + e /\ Said(N) = to + Len(d) + Len(toE) + e
    <3>1. Len(<<>>) = 0
      OBVIOUS
    <3>. QED  BY <1>1, <1>5, <3>1 DEF Said
  <2>2. to \in Nat /\ k \in Nat /\ e \in Nat /\ Len(toE) + Len(d) <= k
    BY <1>1, <1>2, Lengths
  <2>3. Read(N) = Read(L)
    BY <1>5 DEF Read
  <2>. HIDE DEF to, k, e
  <2>4. Said(N) <= Said(L) /\ Said(N) \in Nat /\ Said(L) \in Nat
    BY ONLY <1>2, <2>1, <2>2
  <2>. QED  BY <2>3, <2>4
<1>8. Budget(N)
  <2>1. Size \in Nat /\ Read(L) \in Nat /\ L.out \in Nat
    BY <1>1, Lengths, CapacityAssumption
  <2>2. Size * Said(N) <= Size * Said(L) /\ Size * Said(N) \in Nat
    BY <1>7, <2>1, Multiples
  <2>3. Read(L) + Size * Said(L) <= Size * L.out
    BY DEF Good, Budget
  <2>4. Size * Said(L) \in Nat /\ Size * L.out \in Nat
    BY <1>7, <2>1
  <2>. DEFINE x == Size * Said(N)
              y == Size * Said(L)
              z == Size * L.out
  <2>5. x <= y /\ x \in Nat /\ y \in Nat /\ z \in Nat /\ Read(L) + y <= z
    BY <2>2, <2>3, <2>4
  <2>. HIDE DEF x, y, z
  <2>6. Read(L) + x <= z
    BY ONLY <2>1, <2>5
  <2>. QED  BY <1>5, <1>7, <2>6 DEF Budget, x, z
<1>9. OnlyOf(L, L.last) => OnlyOf(N, L.last)
  BY <1>3, <1>5 DEF OnlyOf
<1>10. Whole(N.a) /\ Quiet(N)
  BY <1>5, <1>9 DEF Good, Quiet
<1>11. Good(N)
  BY <1>4, <1>6, <1>8, <1>10 DEF Good
<1>. QED  BY <1>11 DEF N, toE, d, over

(* The voter sends the commands on. *)
LEMMA VoterCommandWriteGood ==
  ASSUME NEW L, Good(L), L.toE # <<>>, FitsCmd(L.e, L.toE)
  PROVE  Good([L EXCEPT !.e = @ \o L.toE, !.toE = <<>>])
<1>1. L \in Session /\ L.e \in Seq(Commands) /\ L.toE \in Seq(Commands)
  BY DEF Good, Session
<1>. DEFINE to == L.e \o L.toE
            N == [L EXCEPT !.e = to, !.toE = <<>>]
<1>2. /\ to \in Seq(Commands) /\ Len(to) = Len(L.e) + Len(L.toE)
      /\ <<>> \in Seq(Commands)
  BY <1>1, ConcatProperties
<1>3. Len(to) <= CmdCap
  BY <1>2 DEF FitsCmd
<1>4. \A v : L.e \in Seq({v}) /\ L.toE \in Seq({v}) => to \in Seq({v})
  BY ConcatProperties
<1>. HIDE DEF to
<1>5. N \in Session
  BY ONLY <1>1, <1>2 DEF Session
<1>6. /\ N.a = L.a /\ N.toB = L.toB /\ N.b = L.b /\ N.toC = L.toC /\ N.c = L.c
      /\ N.d = L.d /\ N.e = to /\ N.f = L.f /\ N.toD = L.toD /\ N.toE = <<>>
      /\ N.out = L.out /\ N.waiting_response = L.waiting_response /\ N.last = L.last
      /\ N.reported = L.reported
  BY ONLY <1>1, <1>2 DEF Session
<1>. HIDE DEF N
<1>7. Len(N.toE) = 0
  BY <1>6
<1>8. Room(N)
  BY <1>3, <1>6, <1>7, CapacityAssumption DEF Good, Room
<1>9. Read(N) = Read(L) /\ Said(N) = Said(L)
  <2>. DEFINE toDn == Len(L.toD)
              dn == Len(L.d)
              w == Len(L.toE)
              k == Len(L.e)
  <2>1. /\ Said(L) = toDn + dn + w + k
        /\ Said(N) = toDn + dn + 0 + (k + w)
    BY <1>2, <1>6, <1>7 DEF Said
  <2>2. toDn \in Nat /\ dn \in Nat /\ w \in Nat /\ k \in Nat
    BY <1>1, Lengths
  <2>3. Read(N) = Read(L)
    BY <1>6 DEF Read
  <2>. HIDE DEF toDn, dn, w, k
  <2>4. Said(N) = Said(L)
    BY ONLY <2>1, <2>2
  <2>. QED  BY <2>3, <2>4
<1>10. OnlyOf(L, L.last) => OnlyOf(N, L.last)
  <2>1. <<>> \in Seq({L.last})
    OBVIOUS
  <2>. QED  BY <1>4, <1>6, <2>1 DEF OnlyOf
<1>11. Whole(N.a) /\ Budget(N) /\ Quiet(N)
  BY <1>6, <1>9, <1>10 DEF Good, Budget, Quiet
<1>12. Good(N)
  BY <1>5, <1>8, <1>11 DEF Good
<1>. QED  BY <1>12 DEF N, to

(* A command for each read of the size of a reading, of that reading if of any. *)
LEMMA CommandOf ==
  ASSUME NEW bytes \in Seq(Values)
  PROVE  /\ CommandFor(bytes) \in Seq(Commands)
         /\ Len(CommandFor(bytes)) = IF Len(bytes) < Size THEN 0 ELSE 1
         /\ \A v : bytes \in Seq({v}) => CommandFor(bytes) \in Seq({v})
<1>1. Size \in Nat \ {0} /\ Len(bytes) \in Nat
  BY CapacityAssumption, LenProperties
<1>2. CASE Len(bytes) < Size
  <2>1. CommandFor(bytes) = <<>>
    BY <1>2 DEF CommandFor
  <2>2. <<>> \in Seq(Commands) /\ \A v : <<>> \in Seq({v})
    OBVIOUS
  <2>. QED  BY <1>2, <2>1, <2>2
<1>3. CASE ~(Len(bytes) < Size)
  <2>1. 1 \in 1 .. Len(bytes) /\ \A i \in 1 .. Size : i \in 1 .. Len(bytes)
    BY <1>1, <1>3
  <2>2. bytes[1] \in Values
    BY <2>1, ElementOfSeq
  <2>3. \E x \in Commands : CommandFor(bytes) = <<x>>
    BY <1>3, <2>2 DEF CommandFor, Commands
  <2>4. ASSUME NEW v, bytes \in Seq({v})
        PROVE  CommandFor(bytes) = <<v>>
    <3>1. \A i \in 1 .. Len(bytes) : bytes[i] \in {v}
      BY <2>4, ElementOfSeq
    <3>2. \A i \in 1 .. Size : bytes[i] = v
      BY <2>1, <3>1
    <3>3. bytes[1] = v
      BY <2>1, <3>1
    <3>. QED  BY <1>3, <3>2, <3>3 DEF CommandFor
  <2>5. \A v : <<v>> \in Seq({v})
    OBVIOUS
  <2>6. \A v : bytes \in Seq({v}) => CommandFor(bytes) \in Seq({v})
    BY <2>4, <2>5
  <2>7. CommandFor(bytes) \in Seq(Commands) /\ Len(CommandFor(bytes)) = 1
    BY <2>3
  <2>. QED  BY <1>3, <2>6, <2>7
<1>. QED  BY <1>2, <1>3

(* The controller reads: a whole read is answered, a shorter one is lost. *)
LEMMA ControllerGood ==
  ASSUME NEW L, Good(L), L.toD = <<>>, L.c # <<>>
  PROVE  Good([L EXCEPT !.c = Rest(@, Size), !.toD = CommandFor(Taken(L.c, Size))])
<1>1. L \in Session /\ L.c \in Seq(Values) /\ Size \in Nat \ {0}
  BY CapacityAssumption DEF Good, Session
<1>. DEFINE n == Len(L.c)
            m == Least(Size, n)
            bytes == Taken(L.c, Size)
            c == Rest(L.c, Size)
            toD == CommandFor(bytes)
            N == [L EXCEPT !.c = c, !.toD = toD]
<1>2. /\ m \in 0 .. n /\ n \in Nat /\ bytes \in Seq(Values) /\ c \in Seq(Values)
      /\ Len(bytes) = m /\ Len(c) = n - m
  BY <1>1, ReadSplits
<1>3. \A v : L.c \in Seq({v}) => bytes \in Seq({v}) /\ c \in Seq({v})
  BY <1>1, ReadSplits
<1>. HIDE DEF n, m, bytes, c
<1>4. /\ toD \in Seq(Commands) /\ Len(toD) = IF m < Size THEN 0 ELSE 1
      /\ \A v : bytes \in Seq({v}) => toD \in Seq({v})
  BY <1>2, CommandOf
<1>. HIDE DEF toD
<1>5. N \in Session
  BY ONLY <1>1, <1>2, <1>4 DEF Session
<1>6. /\ N.a = L.a /\ N.toB = L.toB /\ N.b = L.b /\ N.toC = L.toC /\ N.c = c
      /\ N.d = L.d /\ N.e = L.e /\ N.f = L.f /\ N.toD = toD /\ N.toE = L.toE
      /\ N.out = L.out /\ N.waiting_response = L.waiting_response /\ N.last = L.last
      /\ N.reported = L.reported
  BY ONLY <1>1, <1>2, <1>4 DEF Session
<1>. HIDE DEF N
<1>7. Room(N)
  <2>1. n <= RangeCap * Size /\ RangeCap \in Nat
    BY CapacityAssumption DEF Good, Room, n
  <2>2. Len(c) <= RangeCap * Size
    BY ONLY <1>1, <1>2, <2>1
  <2>. QED  BY <1>6, <2>2 DEF Good, Room
<1>8. Budget(N)
  <2>. DEFINE toB == Len(L.toB)
              b == Len(L.b)
              toC == Len(L.toC)
              d == Len(L.d)
              toE == Len(L.toE)
              e == Len(L.e)
              rest == d + toE + e
  <2>1. /\ Read(L) = toB + b + toC + n /\ Read(N) = toB + b + toC + Len(c)
        /\ Said(L) = 0 + d + toE + e /\ Said(N) = Len(toD) + d + toE + e
    <3>1. Len(L.toD) = 0
      OBVIOUS
    <3>. QED  BY <1>6, <3>1 DEF Read, Said, n
  <2>2. /\ toB \in Nat /\ b \in Nat /\ toC \in Nat
        /\ d \in Nat /\ toE \in Nat /\ e \in Nat
    BY <1>1, Lengths
  <2>3. Read(L) + Size * Said(L) <= Size * L.out /\ L.out \in Nat
    BY <1>1, Lengths DEF Good, Budget
  <2>. HIDE DEF toB, b, toC, d, toE, e
  <2>4. rest \in Nat /\ Said(L) = rest /\ Said(N) = Len(toD) + rest
    BY ONLY <1>4, <2>1, <2>2
  <2>. HIDE DEF rest
  <2>5. CASE m < Size
    <3>1. Said(N) = Said(L) /\ Read(N) <= Read(L) /\ Read(N) \in Nat /\ Read(L) \in Nat
      BY ONLY <1>2, <1>4, <2>1, <2>2, <2>4, <2>5
    <3>2. Size * Said(L) \in Nat /\ Size * L.out \in Nat
      BY ONLY <1>1, <2>3, <2>4
    <3>3. Read(N) + Size * Said(L) <= Size * L.out
      BY ONLY <2>3, <3>1, <3>2
    <3>. QED  BY <1>6, <3>1, <3>3 DEF Budget
  <2>6. CASE ~(m < Size)
    <3>1. m = Size
      BY <1>1, <1>2, <2>6 DEF m, Least
    <3>2. Said(N) = Said(L) + 1 /\ Read(N) = Read(L) - Size /\ Read(L) \in Nat
      BY ONLY <1>1, <1>2, <1>4, <2>1, <2>2, <2>4, <3>1
    <3>3. Size * (Said(L) + 1) = Size * Said(L) + Size
      BY ONLY <1>1, <2>4
    <3>4. Size * Said(L) \in Nat /\ Size * L.out \in Nat
      BY ONLY <1>1, <2>3, <2>4
    <3>5. Read(N) + Size * Said(N) <= Size * L.out
      BY ONLY <1>1, <2>3, <3>2, <3>3, <3>4
    <3>. QED  BY <1>6, <3>5 DEF Budget
  <2>. QED  BY <2>5, <2>6
<1>9. OnlyOf(L, L.last) => OnlyOf(N, L.last)
  BY <1>3, <1>4, <1>6 DEF OnlyOf
<1>10. Whole(N.a) /\ Quiet(N)
  BY <1>6, <1>9 DEF Good, Quiet
<1>11. Good(N)
  BY <1>5, <1>7, <1>8, <1>10 DEF Good
<1>. QED  BY <1>11 DEF N, c, toD, bytes

(* The controller writes its command. *)
LEMMA ControllerWriteGood ==
  ASSUME NEW L, Good(L), L.toD # <<>>, FitsCmd(L.d, L.toD)
  PROVE  Good([L EXCEPT !.d = @ \o L.toD, !.toD = <<>>])
<1>1. L \in Session /\ L.d \in Seq(Commands) /\ L.toD \in Seq(Commands)
  BY DEF Good, Session
<1>. DEFINE to == L.d \o L.toD
            N == [L EXCEPT !.d = to, !.toD = <<>>]
<1>2. /\ to \in Seq(Commands) /\ Len(to) = Len(L.d) + Len(L.toD)
      /\ <<>> \in Seq(Commands)
  BY <1>1, ConcatProperties
<1>3. Len(to) <= CmdCap
  BY <1>2 DEF FitsCmd
<1>4. \A v : L.d \in Seq({v}) /\ L.toD \in Seq({v}) => to \in Seq({v})
  BY ConcatProperties
<1>. HIDE DEF to
<1>5. N \in Session
  BY ONLY <1>1, <1>2 DEF Session
<1>6. /\ N.a = L.a /\ N.toB = L.toB /\ N.b = L.b /\ N.toC = L.toC /\ N.c = L.c
      /\ N.d = to /\ N.e = L.e /\ N.f = L.f /\ N.toD = <<>> /\ N.toE = L.toE
      /\ N.out = L.out /\ N.waiting_response = L.waiting_response /\ N.last = L.last
      /\ N.reported = L.reported
  BY ONLY <1>1, <1>2 DEF Session
<1>. HIDE DEF N
<1>7. Len(N.toD) = 0
  BY <1>6
<1>8. Room(N)
  BY <1>3, <1>6, <1>7, CapacityAssumption DEF Good, Room
<1>9. Read(N) = Read(L) /\ Said(N) = Said(L)
  <2>. DEFINE toEn == Len(L.toE)
              en == Len(L.e)
              w == Len(L.toD)
              k == Len(L.d)
  <2>1. /\ Said(L) = w + k + toEn + en
        /\ Said(N) = 0 + (k + w) + toEn + en
    BY <1>2, <1>6, <1>7 DEF Said
  <2>2. toEn \in Nat /\ en \in Nat /\ w \in Nat /\ k \in Nat
    BY <1>1, Lengths
  <2>3. Read(N) = Read(L)
    BY <1>6 DEF Read
  <2>. HIDE DEF toEn, en, w, k
  <2>4. Said(N) = Said(L)
    BY ONLY <2>1, <2>2
  <2>. QED  BY <2>3, <2>4
<1>10. OnlyOf(L, L.last) => OnlyOf(N, L.last)
  <2>1. <<>> \in Seq({L.last})
    OBVIOUS
  <2>. QED  BY <1>4, <1>6, <2>1 DEF OnlyOf
<1>11. Whole(N.a) /\ Budget(N) /\ Quiet(N)
  BY <1>6, <1>9, <1>10 DEF Good, Budget, Quiet
<1>12. Good(N)
  BY <1>5, <1>8, <1>11 DEF Good
<1>. QED  BY <1>12 DEF N, to

(* The translator writes a reading. *)
LEMMA RangerGood ==
  ASSUME NEW L, Good(L), NEW n \in Values, FitsRange(L.a, Bytes(n))
  PROVE  Good([L EXCEPT !.a = @ \o Bytes(n)])
<1>1. L \in Session /\ L.a \in Seq(Values) /\ Whole(L.a)
  BY DEF Good, Session
<1>. DEFINE a == L.a \o Bytes(n)
            N == [L EXCEPT !.a = a]
<1>2. a \in Seq(Values) /\ Whole(a) /\ Len(a) <= RangeCap * Size
  BY <1>1, WholeWrite, BytesOf DEF FitsRange
<1>. HIDE DEF a
<1>3. N \in Session
  BY ONLY <1>1, <1>2 DEF Session
<1>4. /\ N.a = a /\ N.toB = L.toB /\ N.b = L.b /\ N.toC = L.toC /\ N.c = L.c
      /\ N.d = L.d /\ N.e = L.e /\ N.f = L.f /\ N.toD = L.toD /\ N.toE = L.toE
      /\ N.out = L.out /\ N.waiting_response = L.waiting_response /\ N.last = L.last
      /\ N.reported = L.reported
  BY ONLY <1>1, <1>2 DEF Session
<1>. HIDE DEF N
<1>5. Room(N) /\ Whole(N.a) /\ Budget(N) /\ Quiet(N)
  BY <1>2, <1>4 DEF Good, Room, Budget, Read, Said, Quiet, OnlyOf
<1>6. Good(N)
  BY <1>3, <1>5 DEF Good
<1>. QED  BY <1>6 DEF N, a

(* The translator reads a command. *)
LEMMA UpdateGood ==
  ASSUME NEW L, Good(L), L.f # <<>>
  PROVE  Good([L EXCEPT !.f = Tail(L.f)]) /\ Head(L.f) \in Commands
<1>1. L \in Session /\ L.f \in Seq(Commands)
  BY DEF Good, Session
<1>. DEFINE f == Tail(L.f)
            N == [L EXCEPT !.f = f]
<1>2. f \in Seq(Commands) /\ Head(L.f) \in Commands /\ Len(f) <= CmdCap
  <2>1. /\ f \in Seq(Commands) /\ Head(L.f) \in Commands
        /\ Len(f) = Len(L.f) - 1 /\ Len(L.f) \in Nat
    BY <1>1, HeadTailProperties, LenProperties
  <2>2. Len(L.f) <= CmdCap /\ CmdCap \in Nat
    BY CapacityAssumption DEF Good, Room
  <2>. DEFINE n == Len(L.f)
              m == Len(f)
  <2>3. m = n - 1 /\ n \in Nat /\ n <= CmdCap
    BY <2>1, <2>2
  <2>. HIDE DEF n, m
  <2>4. m <= CmdCap
    BY ONLY <2>2, <2>3
  <2>. QED  BY <2>1, <2>4 DEF m
<1>. HIDE DEF f
<1>3. N \in Session
  BY ONLY <1>1, <1>2 DEF Session
<1>4. /\ N.a = L.a /\ N.toB = L.toB /\ N.b = L.b /\ N.toC = L.toC /\ N.c = L.c
      /\ N.d = L.d /\ N.e = L.e /\ N.f = f /\ N.toD = L.toD /\ N.toE = L.toE
      /\ N.out = L.out /\ N.waiting_response = L.waiting_response /\ N.last = L.last
      /\ N.reported = L.reported
  BY ONLY <1>1, <1>2 DEF Session
<1>. HIDE DEF N
<1>5. Room(N) /\ Whole(N.a) /\ Budget(N) /\ Quiet(N)
  BY <1>2, <1>4 DEF Good, Room, Budget, Read, Said, Quiet, OnlyOf
<1>6. Good(N)
  BY <1>3, <1>5 DEF Good
<1>. QED  BY <1>2, <1>6 DEF N, f

-----------------------------------------------------------------------------
(***************************************************************************)
(* The invariant of the whole loop.                                        *)
(***************************************************************************)

(* A step that replaces one session's state by a good one. *)
LEMMA OneSession ==
  ASSUME loop \in [Sessions -> Session], \A t \in Sessions : Good(loop[t]),
         NEW s \in Sessions, NEW N, Good(N), loop' = [loop EXCEPT ![s] = N]
  PROVE  loop' \in [Sessions -> Session] /\ \A t \in Sessions : Good(loop'[t])
<1>1. N \in Session
  BY DEF Good
<1>2. loop' \in [Sessions -> Session]
  BY <1>1
<1>3. ASSUME NEW t \in Sessions
      PROVE  Good(loop'[t])
  <2>1. loop'[t] = IF t = s THEN N ELSE loop[t]
    OBVIOUS
  <2>. QED  BY <2>1
<1>. QED  BY <1>2, <1>3

(* A step of a session's own processes. *)
LEMMA SessionStep ==
  ASSUME Inv, NEW s \in Sessions, NEW N, Good(N), Becomes(s, N)
  PROVE  Inv'
<1>1. loop' \in [Sessions -> Session] /\ \A t \in Sessions : Good(loop'[t])
  BY OneSession DEF Inv, Becomes
<1>2. Driver'
  BY DEF Inv, Becomes, Driver, Due
<1>. QED  BY <1>1, <1>2 DEF Inv

(* Nothing is in a session at first. *)
LEMMA IdleGood == Good(Idle)
<1>1. Idle \in Session
  <2>1. <<>> \in Seq(Values) /\ <<>> \in Seq(Commands)
    OBVIOUS
  <2>2. FALSE \in BOOLEAN /\ 0 \in Nat
    OBVIOUS
  <2>. QED  BY <2>1, <2>2 DEF Idle, Session
<1>2. Size \in Nat /\ RangeCap \in Nat /\ Block \in Nat /\ CmdCap \in Nat
  BY CapacityAssumption
<1>3. Room(Idle)
  BY <1>2 DEF Idle, Room
<1>4. Whole(Idle.a)
  <2>1. Len(<<>>) = Size * 0
    BY <1>2
  <2>2. \A j \in 0 .. 0 - 1 : FALSE
    OBVIOUS
  <2>3. Whole(<<>>)
    BY <2>1, <2>2 DEF Whole
  <2>. QED  BY <2>3 DEF Idle
<1>5. Budget(Idle)
  <2>1. Read(Idle) = 0 /\ Said(Idle) = 0 /\ Idle.out = 0
    BY DEF Read, Said, Idle
  <2>. QED  BY <1>2, <2>1 DEF Budget
<1>6. Quiet(Idle)
  <2>1. Idle.out = 0
    BY DEF Idle
  <2>. QED  BY <1>1, <1>5, <2>1, NothingOnlyOf DEF Quiet
<1>. QED  BY <1>1, <1>3, <1>4, <1>5, <1>6 DEF Good

(* Inv holds at the start: all sessions idle, nothing read. *)
LEMMA Start == Init => Inv
<1>. SUFFICES ASSUME Init PROVE Inv
  OBVIOUS
<1>1. loop \in [Sessions -> Session] /\ \A s \in Sessions : Good(loop[s])
  BY IdleGood DEF Init, Good
<1>2. Driver
  <2>1. sending \in BOOLEAN
    BY DEF Init
  <2>2. nread = 0 /\ queued = 0 /\ ~sending /\ Due = 0
    BY DEF Init, Due
  <2>3. /\ queued \in 0 .. QueueCap /\ session \in 0 .. MaxSessions
        /\ robot \in Garbage .. MaxReadings
        /\ nread \in 0 .. MaxReadings /\ answered \in 0 .. MaxReadings
    BY BoundAssumption DEF Init, Stop, Garbage
  <2>4. Due <= MaxReadings
    BY <2>2, BoundAssumption
  <2>. QED  BY <2>1, <2>3, <2>4 DEF Init, Driver
<1>. QED  BY <1>1, <1>2 DEF Inv

(* The processes of a session. *)
SessionNext(s) ==
  \/ BenchRange(s) \/ BenchRangeWrite(s) \/ BenchCommand(s) \/ BenchCommandWrite(s)
  \/ VoterRange(s) \/ VoterRangeWrite(s) \/ VoterCommand(s) \/ VoterCommandWrite(s)
  \/ Controller(s) \/ ControllerWrite(s)

(* Every step of the processes of a session keeps Inv. *)
LEMMA SessionSteps ==
  ASSUME Inv, NEW s \in Sessions, SessionNext(s)
  PROVE  Inv'
<1>0. Good(loop[s])
  BY DEF Inv
<1>1. CASE BenchRange(s)
  <2>. DEFINE bytes == WholeOnly(Taken(loop[s].a, Size))
              M == [loop[s] EXCEPT !.a = Rest(@, Size), !.toB = bytes]
  <2>1. BenchIdle(loop[s]) /\ loop[s].a # <<>>
    BY <1>1 DEF BenchRange
  <2>2. Becomes(s, IF bytes = <<>> THEN M ELSE Ask(M, bytes))
    BY <1>1 DEF BenchRange
  <2>3. bytes # <<>> /\ Good(Ask(M, bytes))
    BY <1>0, <2>1, BenchRangeGood
  <2>. HIDE DEF bytes, M
  <2>4. Becomes(s, Ask(M, bytes))
    BY <2>2, <2>3
  <2>. QED  BY <2>3, <2>4, SessionStep
<1>2. CASE BenchRangeWrite(s)
  <2>. PICK N : Good(N) /\ Becomes(s, N)
    BY <1>2, <1>0, BenchRangeWriteGood DEF BenchRangeWrite
  <2>. QED  BY SessionStep
<1>3. CASE BenchCommand(s)
  <2>. PICK N : Good(N) /\ Becomes(s, N)
    BY <1>3, <1>0, BenchCommandGood DEF BenchCommand
  <2>. QED  BY SessionStep
<1>4. CASE BenchCommandWrite(s)
  <2>. PICK N : Good(N) /\ Becomes(s, N)
    BY <1>4, <1>0, BenchCommandWriteGood DEF BenchCommandWrite
  <2>. QED  BY SessionStep
<1>5. CASE VoterRange(s)
  <2>. PICK N : Good(N) /\ Becomes(s, N)
    BY <1>5, <1>0, VoterRangeGood DEF VoterRange
  <2>. QED  BY SessionStep
<1>6. CASE VoterRangeWrite(s)
  <2>. PICK N : Good(N) /\ Becomes(s, N)
    BY <1>6, <1>0, VoterRangeWriteGood DEF VoterRangeWrite
  <2>. QED  BY SessionStep
<1>7. CASE VoterCommand(s)
  <2>. PICK N : Good(N) /\ Becomes(s, N)
    BY <1>7, <1>0, VoterCommandGood DEF VoterCommand
  <2>. QED  BY SessionStep
<1>8. CASE VoterCommandWrite(s)
  <2>. PICK N : Good(N) /\ Becomes(s, N)
    BY <1>8, <1>0, VoterCommandWriteGood DEF VoterCommandWrite
  <2>. QED  BY SessionStep
<1>9. CASE Controller(s)
  <2>. PICK N : Good(N) /\ Becomes(s, N)
    BY <1>9, <1>0, ControllerGood DEF Controller
  <2>. QED  BY SessionStep
<1>10. CASE ControllerWrite(s)
  <2>. PICK N : Good(N) /\ Becomes(s, N)
    BY <1>10, <1>0, ControllerWriteGood DEF ControllerWrite
  <2>. QED  BY SessionStep
<1>. QED  BY <1>1, <1>2, <1>3, <1>4, <1>5, <1>6, <1>7, <1>8, <1>9, <1>10 DEF SessionNext

(* MainSetup, SetupFails and MainShutdown leave the sessions' pipes and processes alone. *)
LEMMA PlayerSteps ==
  ASSUME Inv, MainSetup \/ SetupFails \/ MainShutdown
  PROVE  Inv'
<1>0. Driver /\ MaxSessions \in Nat /\ MaxReadings \in Nat
  BY BoundAssumption DEF Inv
<1>1. loop' = loop
  BY DEF MainSetup, SetupFails, MainShutdown
<1>2. Driver'
  <2>1. CASE MainSetup
    <3>1. session' \in 0 .. MaxSessions /\ session' \in Sessions /\ answered' \in 0 .. MaxReadings
      BY <1>0, <2>1 DEF MainSetup, NewSession, Driver, Sessions
    <3>2. Due' = Due
      BY <2>1 DEF MainSetup, Due
    <3>. QED  BY <1>0, <2>1, <3>1, <3>2 DEF MainSetup, Driver
  <2>2. CASE SetupFails
    <3>1. session' \in 0 .. MaxSessions /\ session' \in Sessions
      BY <1>0, <2>2 DEF SetupFails, NewSession, Driver, Sessions
    <3>2. Due' = Due
      BY <2>2 DEF SetupFails, Due
    <3>. QED  BY <1>0, <2>2, <3>1, <3>2 DEF SetupFails, Driver
  <2>3. CASE MainShutdown
    <3>1. robot' \in Garbage .. MaxReadings
      BY <1>0, <2>3 DEF MainShutdown, ShutdownOdom, PutCommand, Stop, Garbage
    <3>2. Due' <= Due /\ Due \in Nat /\ Due' \in Nat
      BY <1>0, <2>3 DEF MainShutdown, Driver, Due
    <3>3. Due' <= MaxReadings
      BY <1>0, <3>2 DEF Driver
    <3>4. sending' \in BOOLEAN
      BY <2>3 DEF MainShutdown
    <3>. QED  BY <1>0, <2>3, <3>1, <3>3, <3>4 DEF MainShutdown, Driver
  <2>. QED  BY <2>1, <2>2, <2>3
<1>. QED  BY <1>1, <1>2 DEF Inv

(* The driver's queue: each reading published is sent once. *)
LEMMA QueueSteps ==
  ASSUME Inv, Publish \/ ProcessMessage \/ Processed
  PROVE  Inv'
<1>0. Driver /\ MaxReadings \in Nat /\ QueueCap \in Nat
  BY BoundAssumption DEF Inv
<1>1. loop' = loop
  BY DEF Publish, ProcessMessage, Processed
<1>2. Driver'
  <2>1. CASE Publish
    <3>0. Due < MaxReadings
      BY <1>0, <2>1, BoundAssumption DEF Publish, Driver, Due
    <3>1. queued' \in 0 .. QueueCap /\ Due' <= MaxReadings
      BY <1>0, <2>1, <3>0 DEF Publish, Driver, Due
    <3>. QED  BY <1>0, <2>1, <3>1 DEF Publish, Driver
  <2>2. CASE ProcessMessage
    <3>1. queued' \in 0 .. QueueCap /\ Due' = Due
      BY <1>0, <2>2 DEF ProcessMessage, Driver, Due
    <3>2. sending' \in BOOLEAN
      BY <2>2 DEF ProcessMessage
    <3>. QED  BY <1>0, <2>2, <3>1, <3>2 DEF ProcessMessage, Driver
  <2>3. CASE Processed
    <3>1. Due' = Due
      BY <2>3 DEF Processed, Due
    <3>. QED  BY <1>0, <2>3, <3>1 DEF Processed, Driver
  <2>. QED  BY <2>1, <2>2, <2>3
<1>. QED  BY <1>1, <1>2 DEF Inv

(* The driver's write of a reading. *)
LEMMA RangerStep ==
  ASSUME Inv, ProcessRanger
  PROVE  Inv'
<1>0. /\ Driver /\ session \in Sessions /\ MaxReadings \in Nat /\ sending
      /\ nread' = nread + 1 /\ queued' = queued /\ ~sending'
  BY BoundAssumption DEF Inv, Driver, ProcessRanger
<1>1. nread + 1 \in Values /\ Due' = Due /\ nread' \in 0 .. MaxReadings
  <2>1. nread \in 0 .. MaxReadings /\ queued \in Nat /\ Due <= MaxReadings
    BY <1>0 DEF Driver
  <2>2. Due = nread + queued + 1 /\ Due' = nread' + queued' + 0
    BY <1>0 DEF Due
  <2>. QED  BY <1>0, <2>1, <2>2 DEF Values
<1>. DEFINE N == [loop[session] EXCEPT !.a = @ \o Bytes(nread + 1)]
<1>2. Good(N)
  BY <1>0, <1>1, RangerGood DEF Inv, ProcessRanger
<1>3. loop' = [loop EXCEPT ![session] = N]
  BY <1>0 DEF Inv, ProcessRanger
<1>. HIDE DEF N
<1>4. loop' \in [Sessions -> Session] /\ \A t \in Sessions : Good(loop'[t])
  BY <1>0, <1>2, <1>3, OneSession DEF Inv
<1>5. Driver'
  <2>1. sending' \in BOOLEAN
    BY DEF ProcessRanger
  <2>. QED  BY <1>0, <1>1, <2>1 DEF ProcessRanger, Driver
<1>. QED  BY <1>4, <1>5 DEF Inv

(* The driver's read of a command. *)
LEMMA UpdateStep ==
  ASSUME Inv, DoOneUpdate
  PROVE  Inv'
<1>0. Driver /\ session \in Sessions /\ MaxReadings \in Nat
  BY BoundAssumption DEF Inv, Driver, DoOneUpdate
<1>1. Due' = Due
  BY DEF DoOneUpdate, Due
<1>2. CASE loop[session].f = <<>> /\ UNCHANGED <<loop, robot, answered>>
  <2>1. Driver'
    BY <1>0, <1>1, <1>2 DEF DoOneUpdate, Driver
  <2>. QED  BY <1>2, <2>1 DEF Inv
<1>3. CASE /\ loop[session].f # <<>>
           /\ PutCommand(Head(loop[session].f))
           /\ answered' = IF Head(loop[session].f) > answered THEN Head(loop[session].f)
                                                              ELSE answered
           /\ loop' = [loop EXCEPT ![session].f = Tail(loop[session].f)]
  <2>. DEFINE h == Head(loop[session].f)
              N == [loop[session] EXCEPT !.f = Tail(loop[session].f)]
  <2>1. Good(N) /\ h \in Commands
    BY <1>0, <1>3, UpdateGood DEF Inv
  <2>2. loop' = [loop EXCEPT ![session] = N]
    BY <1>0, <1>3 DEF Inv
  <2>3. answered' = IF h > answered THEN h ELSE answered
    BY <1>3
  <2>4. robot' = h
    BY <1>3 DEF PutCommand
  <2>. HIDE DEF h, N
  <2>5. loop' \in [Sessions -> Session] /\ \A t \in Sessions : Good(loop'[t])
    BY <1>0, <2>1, <2>2, OneSession DEF Inv
  <2>6. robot' \in Garbage .. MaxReadings /\ answered' \in 0 .. MaxReadings
    BY <1>0, <2>1, <2>3, <2>4 DEF Commands, Values, Garbage, Driver
  <2>7. Driver'
    BY <1>0, <1>1, <2>6 DEF DoOneUpdate, Driver
  <2>. QED  BY <2>5, <2>7 DEF Inv
<1>. QED  BY <1>2, <1>3 DEF DoOneUpdate

(* A select changes neither pipes nor driver. *)
LEMMA SelectLeaves ==
  ASSUME NEW s \in Sessions, BenchSelect(s) \/ VoterSelect(s)
  PROVE  UNCHANGED <<driver, queued, sending, session, loop, robot, nread, answered>>
BY DEF BenchSelect, VoterSelect, Selects

(* The steps there are. *)
LEMMA Steps ==
  ASSUME Next
  PROVE  \/ MainSetup \/ SetupFails \/ MainShutdown
         \/ Publish \/ ProcessMessage \/ Processed
         \/ ProcessRanger \/ DoOneUpdate
         \/ \E s \in Sessions : SessionNext(s)
         \/ UNCHANGED <<driver, queued, sending, session, loop, robot, nread, answered>>
<1>1. \A s \in Sessions : BenchSelect(s) \/ VoterSelect(s) =>
        UNCHANGED <<driver, queued, sending, session, loop, robot, nread, answered>>
  BY SelectLeaves
<1>. QED  BY <1>1 DEF Next, SessionNext

(* Every step keeps Inv. *)
LEMMA Step == Inv /\ [Next]_vars => Inv'
<1>. SUFFICES ASSUME Inv, [Next]_vars PROVE Inv'
  OBVIOUS
<1>1. CASE UNCHANGED <<driver, queued, sending, session, loop, robot, nread, answered>>
  BY <1>1 DEF Inv, Driver, Due
<1>2. CASE Next
  BY <1>1, <1>2, Steps, PlayerSteps, QueueSteps, RangerStep, UpdateStep, SessionSteps
<1>. QED  BY <1>1, <1>2 DEF vars

(* Inv is an invariant. *)
LEMMA Invariance == Spec => []Inv
BY Start, Step, PTL DEF Spec

(* The select_sets name pipes that BenchMarker and voter read. *)
Selected == ready \in [Sessions -> SUBSET {"a", "b", "d", "e"}]

LEMMA SelectedStep == Selected /\ [Next]_vars => Selected'
<1>. SUFFICES ASSUME Selected, [Next]_vars PROVE Selected'
  OBVIOUS
<1>. DEFINE pipes == {"a", "b", "d", "e"}
<1>1. CASE UNCHANGED ready
  BY <1>1 DEF Selected
<1>2. ASSUME NEW s \in Sessions, NEW to \in SUBSET pipes, ready' = [ready EXCEPT ![s] = to]
      PROVE  Selected'
  BY <1>2 DEF Selected
<1>3. ASSUME NEW s \in Sessions, BenchSelect(s) \/ VoterSelect(s)
      PROVE  Selected'
  <2>1. PICK some \in SUBSET pipes :
          ready' = [ready EXCEPT ![s] = @ \cup {p \in some : loop[s][p] # <<>>}]
    <3>1. {"a", "e"} \in SUBSET pipes /\ {"b", "d"} \in SUBSET pipes
      OBVIOUS
    <3>2. CASE BenchSelect(s)
      BY <3>1, <3>2 DEF BenchSelect, Selects
    <3>3. CASE VoterSelect(s)
      BY <3>1, <3>3 DEF VoterSelect, Selects
    <3>. QED  BY <1>3, <3>2, <3>3
  <2>. DEFINE now == {p \in some : loop[s][p] # <<>>}
  <2>2. now \in SUBSET pipes
    OBVIOUS
  <2>. HIDE DEF now
  <2>3. ready' = [ready EXCEPT ![s] = ready[s] \cup now]
    BY <2>1 DEF Selected, now
  <2>4. ready[s] \cup now \in SUBSET pipes
    BY <2>2 DEF Selected
  <2>. QED  BY <1>2, <2>3, <2>4
<1>4. ASSUME NEW s \in Sessions, NEW p, ReadsFrom(s, p)
      PROVE  Selected'
  <2>1. ready' = [ready EXCEPT ![s] = ready[s] \ {p}]
    BY <1>4 DEF ReadsFrom, Selected
  <2>2. ready[s] \ {p} \in SUBSET pipes
    BY DEF Selected
  <2>. QED  BY <1>2, <2>1, <2>2
<1>5. ASSUME NEW s \in Sessions, SessionNext(s)
      PROVE  UNCHANGED ready \/ \E p : ReadsFrom(s, p)
  BY <1>5 DEF SessionNext, BenchRange, BenchRangeWrite, BenchCommand, BenchCommandWrite,
              VoterRange, VoterRangeWrite, VoterCommand, VoterCommandWrite,
              Controller, ControllerWrite
<1>6. Next =>
        \/ UNCHANGED ready
        \/ \E s \in Sessions : SessionNext(s) \/ BenchSelect(s) \/ VoterSelect(s)
  BY DEF Next, SessionNext, MainSetup, SetupFails, MainShutdown, Publish, ProcessMessage,
         Processed, ProcessRanger, DoOneUpdate
<1>7. UNCHANGED vars => UNCHANGED ready
  BY DEF vars
<1>. QED  BY <1>1, <1>3, <1>4, <1>5, <1>6, <1>7

(* Selected is an invariant. *)
LEMMA SelectedAlways == Spec => []Selected
<1>1. Init => Selected
  BY DEF Init, Selected
<1>. QED  BY <1>1, SelectedStep, PTL DEF Spec

(***************************************************************************)
(* The state keeps its types, for every number of readings and sessions    *)
(* and every size of pipe: no pipe is written beyond what it holds, the    *)
(* voter never has more than its buffer (voterd.c:344), and the            *)
(* BenchMarker never gets an answer it has not asked for (benchmarker.c).  *)
(***************************************************************************)
THEOREM LoopTypes == Spec => []TypeOK
<1>1. Inv /\ Selected => TypeOK
  <2>. SUFFICES ASSUME Inv, Selected PROVE TypeOK
    OBVIOUS
  <2>1. \A s \in Sessions : Room(loop[s]) /\ loop[s].out \in Nat
    BY Lengths DEF Inv, Good
  <2>. QED  BY <2>1 DEF Inv, Driver, Selected, TypeOK, Room
<1>. QED  BY <1>1, Invariance, SelectedAlways, PTL

(***************************************************************************)
(* While the BenchMarker has not reported an overlap, the command it reads *)
(* answers the reading it sent last, so the time it prints is that of the  *)
(* reading's own round trip (benchmarker.c), whatever the voter's backlog. *)
(***************************************************************************)
THEOREM ResponsesTimed == Spec => RoundTripTimed
<1>1. ASSUME Inv, Inv', NEW s \in Sessions, Len(loop'[s].e) < Len(loop[s].e), ~loop[s].reported
      PROVE  Head(loop[s].e) = loop[s].last
  <2>. DEFINE L == loop[s]
              e == loop[s].e
              n == Len(loop'[s].e)
  <2>1. Good(L) /\ Good(loop'[s])
    BY <1>1 DEF Inv
  <2>2. n \in Nat /\ Len(e) \in Nat /\ n < Len(e)
    BY <1>1, <2>1, Lengths DEF Good
  <2>3. e \in Seq({L.last})
    BY <1>1, <2>1 DEF Good, Quiet, OnlyOf
  <2>. HIDE DEF L, e, n
  <2>4. e # <<>>
    BY <2>2
  <2>5. Head(e) \in {L.last}
    BY <2>3, <2>4, HeadTailProperties
  <2>. QED  BY <2>5 DEF L, e
<1>2. Inv /\ Inv' => \A s \in Sessions :
                       Len(loop'[s].e) < Len(loop[s].e) =>
                          Head(loop[s].e) = loop[s].last \/ loop[s].reported
  BY <1>1
<1>. QED  BY <1>2, Step, Invariance, PTL DEF Spec, RoundTripTimed

-----------------------------------------------------------------------------
(***************************************************************************)
(* Order.  The bytes on their way to the controller are one stream, the    *)
(* commands on their way back another, through whichever pipes and buffers *)
(* they run.  The streams only rise, torn readings or not; and as long as  *)
(* the voter's backlog has fitted its buffer, nothing is torn, and they    *)
(* are the readings that have not been answered, one after the other.      *)
(***************************************************************************)
Stream(L) == L.c \o (L.toC \o (L.b \o (L.toB \o L.a)))
Answers(L) == L.f \o (L.toF \o (L.e \o (L.toE \o (L.d \o L.toD))))

(* C are the commands for readings after n, B the bytes of readings up to top. *)
Rising(C, B, n, top) ==
  /\ \A i \in 1 .. Len(B) : n < B[i] /\ B[i] <= top
  /\ \A i, j \in 1 .. Len(B) : (i <= j => B[i] <= B[j]) /\ (i + Size <= j => B[i] < B[j])
  /\ \A i \in 1 .. Len(C) :
       C[i] # Garbage => n < C[i] /\ C[i] <= top /\ \A j \in 1 .. Len(B) : C[i] < B[j]
  /\ \A i, j \in 1 .. Len(C) : i < j /\ C[i] # Garbage /\ C[j] # Garbage => C[i] < C[j]

(* C and B are the readings from n + 1 to top. *)
InStep(C, B, n, top) ==
  /\ \A i \in 1 .. Len(C) : C[i] = n + i
  /\ \E k \in Nat :
       /\ Len(B) = Size * k /\ n + Len(C) + k = top
       /\ \A j \in 0 .. k - 1 : \A r \in 1 .. Size : B[Size * j + r] = n + Len(C) + 1 + j

Multiple(n) == \E k \in Nat : n = Size * k

(* Whole readings everywhere, and no more of them before the voter than it reads at once. *)
Aligned(L) ==
  /\ Len(L.b) <= Block
  /\ Multiple(Len(L.c)) /\ Multiple(Len(L.toC)) /\ Multiple(Len(L.b)) /\ Multiple(Len(L.toB))

Flow(L, n, top) ==
  /\ Rising(Answers(L), Stream(L), n, top)
  /\ ~L.over => Aligned(L) /\ InStep(Answers(L), Stream(L), n, top)

(* The session of a running driver is in order, and those to come are still idle. *)
Ahead ==
  /\ driver # "down" => answered <= nread /\ Flow(loop[session], answered, nread)
  /\ \A s \in Sessions : s > session => loop[s] = Idle

-----------------------------------------------------------------------------
(***************************************************************************)
(* What concatenations hold.                                               *)
(***************************************************************************)
LEMMA Joined ==
  ASSUME NEW S, NEW p \in Seq(S), NEW q \in Seq(S)
  PROVE  /\ p \o q \in Seq(S) /\ Len(p) \in Nat /\ Len(q) \in Nat
         /\ Len(p \o q) = Len(p) + Len(q)
         /\ \A i \in 1 .. Len(p) : (p \o q)[i] = p[i]
         /\ \A i \in 1 .. Len(q) : (p \o q)[Len(p) + i] = q[i]
<1>. DEFINE A == p \o q
            m == Len(p)
            n == Len(q)
<1>1. /\ A \in Seq(S) /\ Len(A) = m + n /\ m \in Nat /\ n \in Nat
      /\ \A i \in 1 .. m + n : A[i] = IF i <= m THEN p[i] ELSE q[i - m]
  BY ConcatProperties, LenProperties
<1>. HIDE DEF A, m, n
<1>2. \A i \in 1 .. m : A[i] = p[i]
  BY <1>1
<1>3. ASSUME NEW i \in 1 .. n
      PROVE  A[m + i] = q[i]
  <2>1. m + i \in 1 .. m + n /\ ~(m + i <= m) /\ (m + i) - m = i
    BY <1>1
  <2>. QED  BY <1>1, <2>1
<1>. QED  BY <1>1, <1>2, <1>3 DEF A, m, n

(* What is read is the front of what was there. *)
LEMMA ReadJoins ==
  ASSUME NEW S, NEW pipe \in Seq(S), NEW n \in Nat
  PROVE  Taken(pipe, n) \o Rest(pipe, n) = pipe
<1>. DEFINE m == Least(n, Len(pipe))
            l == Len(pipe)
            p == Taken(pipe, n)
            q == Rest(pipe, n)
            A == p \o q
<1>1. /\ m \in 0 .. l /\ l \in Nat /\ p \in Seq(S) /\ Len(p) = m
      /\ q \in Seq(S) /\ Len(q) = l - m
      /\ \A i \in 1 .. m : p[i] = pipe[i]
      /\ \A i \in 1 .. l - m : q[i] = pipe[m + i]
  BY ReadSplits
<1>. HIDE DEF m, l, p, q
<1>2. /\ A \in Seq(S) /\ Len(A) = m + (l - m)
      /\ \A i \in 1 .. m : A[i] = p[i]
      /\ \A i \in 1 .. l - m : A[m + i] = q[i]
  <2>1. /\ A \in Seq(S) /\ Len(A) = Len(p) + Len(q)
        /\ \A i \in 1 .. Len(p) : A[i] = p[i]
        /\ \A i \in 1 .. Len(q) : A[Len(p) + i] = q[i]
    <3>1. p \in Seq(S) /\ q \in Seq(S)
      BY <1>1
    <3>. QED  BY ONLY <3>1, Joined
  <2>. QED  BY <1>1, <2>1
<1>. HIDE DEF A
<1>3. Len(A) = l
  BY <1>1, <1>2
<1>4. ASSUME NEW i \in 1 .. l
      PROVE  A[i] = pipe[i]
  <2>1. CASE i <= m
    BY <1>1, <1>2, <2>1
  <2>2. CASE ~(i <= m)
    <3>1. i - m \in 1 .. l - m /\ m + (i - m) = i
      BY <1>1, <2>2
    <3>2. A[m + (i - m)] = q[i - m] /\ q[i - m] = pipe[m + (i - m)]
      BY <1>1, <1>2, <3>1
    <3>. QED  BY <3>1, <3>2
  <2>. QED  BY <2>1, <2>2
<1>5. A = pipe
  BY <1>2, <1>3, <1>4, SeqEqual DEF l
<1>. QED  BY <1>5 DEF A, p, q

(* The first and the others. *)
LEMMA FirstJoins ==
  ASSUME NEW S, NEW s \in Seq(S), s # <<>>
  PROVE  <<Head(s)>> \o Tail(s) = s
<1>. DEFINE A == <<Head(s)>> \o Tail(s)
            h == <<Head(s)>>
            l == Len(s)
<1>1. /\ Head(s) \in S /\ Tail(s) \in Seq(S) /\ Len(Tail(s)) = l - 1 /\ l \in Nat \ {0}
      /\ \A i \in 1 .. l - 1 : Tail(s)[i] = s[i + 1]
  BY HeadTailProperties, EmptySeq
<1>2. h \in Seq(S) /\ Len(h) = 1 /\ h[1] = s[1]
  BY <1>1
<1>. HIDE DEF h, l
<1>3. /\ A \in Seq(S) /\ Len(A) = 1 + (l - 1)
      /\ \A i \in 1 .. 1 : A[i] = h[i]
      /\ \A i \in 1 .. l - 1 : A[1 + i] = Tail(s)[i]
  BY <1>1, <1>2, Joined DEF h
<1>. HIDE DEF A
<1>4. Len(A) = l
  BY <1>1, <1>3
<1>5. ASSUME NEW i \in 1 .. l
      PROVE  A[i] = s[i]
  <2>1. CASE i = 1
    BY <1>2, <1>3, <2>1
  <2>2. CASE i > 1
    <3>1. i - 1 \in 1 .. l - 1 /\ 1 + (i - 1) = i /\ (i - 1) + 1 = i
      BY <1>1, <2>2
    <3>2. A[1 + (i - 1)] = Tail(s)[i - 1] /\ Tail(s)[i - 1] = s[(i - 1) + 1]
      BY <1>1, <1>3, <3>1
    <3>. QED  BY <3>1, <3>2
  <2>. QED  BY <1>1, <2>1, <2>2
<1>6. A = s
  BY <1>3, <1>4, <1>5, SeqEqual DEF l
<1>. QED  BY <1>6 DEF A

(* Data that moves on within a stream leaves the stream as it was. *)
LEMMA Passed ==
  ASSUME NEW S, NEW p \in Seq(S), NEW q \in Seq(S), NEW r \in Seq(S)
  PROVE  (p \o q) \o (<<>> \o r) = p \o (q \o r)
<1>1. <<>> \o r = r
  BY ConcatEmptySeq
<1>2. (p \o q) \o r = p \o (q \o r)
  BY ConcatAssociative
<1>. QED  BY <1>1, <1>2

(* A stage that is empty adds nothing at the end of a stream. *)
LEMMA PassedLast ==
  ASSUME NEW S, NEW p \in Seq(S), NEW q \in Seq(S)
  PROVE  (p \o q) \o <<>> = p \o q
<1>1. p \o q \in Seq(S)
  BY ConcatProperties
<1>. QED  BY <1>1, ConcatEmptySeq

(* A read empties one stage into the next, which was empty. *)
LEMMA Slid ==
  ASSUME NEW S, NEW q \in Seq(S), NEW r \in Seq(S)
  PROVE  <<>> \o (q \o r) = q \o (<<>> \o r)
<1>1. q \o r \in Seq(S)
  BY ConcatProperties
<1>2. <<>> \o r = r /\ <<>> \o (q \o r) = q \o r
  BY <1>1, ConcatEmptySeq
<1>. QED  BY <1>2

(* A sequence is what is taken off it and the rest, also before others. *)
LEMMA ReadOff ==
  ASSUME NEW S, NEW q \in Seq(S), NEW r \in Seq(S), NEW n \in Nat
  PROVE  /\ q \o r = Taken(q, n) \o (Rest(q, n) \o r)
         /\ <<>> \o (q \o r) = Taken(q, n) \o (Rest(q, n) \o r)
<1>1. Taken(q, n) \in Seq(S) /\ Rest(q, n) \in Seq(S)
  BY ReadSplits
<1>2. Taken(q, n) \o Rest(q, n) = q
  BY ReadJoins
<1>3. (Taken(q, n) \o Rest(q, n)) \o r = Taken(q, n) \o (Rest(q, n) \o r)
  BY <1>1, ConcatAssociative
<1>4. q \o r \in Seq(S)
  BY ConcatProperties
<1>5. <<>> \o (q \o r) = q \o r
  BY <1>4, ConcatEmptySeq
<1>. QED  BY <1>2, <1>3, <1>5

(* The same with its first element. *)
LEMMA FirstOff ==
  ASSUME NEW S, NEW q \in Seq(S), NEW r \in Seq(S), q # <<>>
  PROVE  /\ q \o r = <<Head(q)>> \o (Tail(q) \o r)
         /\ <<>> \o (q \o r) = <<Head(q)>> \o (Tail(q) \o r)
<1>1. <<Head(q)>> \in Seq(S) /\ Tail(q) \in Seq(S)
  BY HeadTailProperties
<1>2. <<Head(q)>> \o Tail(q) = q
  BY FirstJoins
<1>3. (<<Head(q)>> \o Tail(q)) \o r = <<Head(q)>> \o (Tail(q) \o r)
  BY <1>1, ConcatAssociative
<1>4. q \o r \in Seq(S)
  BY ConcatProperties
<1>5. <<>> \o (q \o r) = q \o r
  BY <1>4, ConcatEmptySeq
<1>. QED  BY <1>2, <1>3, <1>5

-----------------------------------------------------------------------------
(***************************************************************************)
(* The streams: the controller takes from one and adds to the other, the   *)
(* driver takes a command and adds a reading.                              *)
(***************************************************************************)

(* A read that is lost. *)
LEMMA RisingLost ==
  ASSUME NEW C \in Seq(Commands), NEW P \in Seq(Values), NEW Q \in Seq(Values),
         NEW n \in Nat, NEW top \in Nat, Rising(C, P \o Q, n, top)
  PROVE  Rising(C, Q, n, top)
<1>. DEFINE A == P \o Q
            m == Len(P)
            l == Len(Q)
<1>1. /\ m \in Nat /\ l \in Nat /\ Len(A) = m + l
      /\ \A i \in 1 .. l : A[m + i] = Q[i]
  BY Joined
<1>2. Rising(C, A, n, top)
  OBVIOUS
<1>3. Size \in Nat
  BY CapacityAssumption
<1>. HIDE DEF A, m
<1>4. \A i \in 1 .. l : m + i \in 1 .. Len(A)
  BY <1>1
<1>5. \A i \in 1 .. l : n < Q[i] /\ Q[i] <= top
  BY <1>1, <1>2, <1>4 DEF Rising
<1>6. ASSUME NEW i \in 1 .. l, NEW j \in 1 .. l
      PROVE  (i <= j => Q[i] <= Q[j]) /\ (i + Size <= j => Q[i] < Q[j])
  <2>1. /\ m + i <= m + j => A[m + i] <= A[m + j]
        /\ (m + i) + Size <= m + j => A[m + i] < A[m + j]
    BY <1>2, <1>4 DEF Rising
  <2>2. (i <= j => m + i <= m + j) /\ (i + Size <= j => (m + i) + Size <= m + j)
    BY <1>1, <1>3
  <2>3. A[m + i] = Q[i] /\ A[m + j] = Q[j]
    BY <1>1
  <2>. QED  BY <2>1, <2>2, <2>3
<1>7. \A i \in 1 .. Len(C) :
        C[i] # Garbage => n < C[i] /\ C[i] <= top /\ \A j \in 1 .. l : C[i] < Q[j]
  BY <1>1, <1>2, <1>4 DEF Rising
<1>8. \A i, j \in 1 .. Len(C) : i < j /\ C[i] # Garbage /\ C[j] # Garbage => C[i] < C[j]
  BY <1>2 DEF Rising
<1>. QED  BY <1>5, <1>6, <1>7, <1>8 DEF Rising

(* Commands that are lost. *)
LEMMA RisingCut ==
  ASSUME NEW P \in Seq(Commands), NEW Q \in Seq(Commands), NEW R \in Seq(Commands),
         NEW B, NEW n, NEW top, Rising(P \o (Q \o R), B, n, top)
  PROVE  Rising(P \o R, B, n, top)
<1>. DEFINE A == P \o (Q \o R)
            D == P \o R
            p == Len(P)
            q == Len(Q)
            r == Len(R)
            at(i) == IF i <= p THEN i ELSE i + q
<1>1. /\ p \in Nat /\ q \in Nat /\ r \in Nat /\ Len(A) = p + (q + r) /\ Len(D) = p + r
      /\ \A i \in 1 .. p : A[i] = P[i] /\ D[i] = P[i]
      /\ \A i \in 1 .. r : D[p + i] = R[i] /\ A[p + (q + i)] = R[i]
  <2>. DEFINE S == Q \o R
  <2>1. /\ S \in Seq(Commands) /\ q \in Nat /\ r \in Nat /\ Len(S) = q + r
        /\ \A i \in 1 .. r : S[q + i] = R[i]
    BY Joined
  <2>. HIDE DEF S
  <2>2. /\ p \in Nat /\ Len(P \o S) = p + Len(S)
        /\ \A i \in 1 .. p : (P \o S)[i] = P[i]
        /\ \A i \in 1 .. Len(S) : (P \o S)[p + i] = S[i]
    <3>1. P \in Seq(Commands) /\ S \in Seq(Commands)
      BY <2>1
    <3>. QED  BY ONLY <3>1, Joined
  <2>3. /\ Len(D) = p + r
        /\ \A i \in 1 .. p : D[i] = P[i]
        /\ \A i \in 1 .. r : D[p + i] = R[i]
    BY Joined
  <2>. HIDE DEF p, q, r, D
  <2>4. \A i \in 1 .. r : q + i \in 1 .. Len(S)
    BY ONLY <2>1
  <2>5. \A i \in 1 .. r : (P \o S)[p + (q + i)] = R[i]
    BY <2>1, <2>2, <2>4
  <2>6. Len(P \o S) = p + (q + r)
    BY <2>1, <2>2
  <2>. QED  BY <2>1, <2>2, <2>3, <2>5, <2>6 DEF S
<1>2. Rising(A, B, n, top)
  OBVIOUS
<1>. HIDE DEF A, D, p, q, r
<1>3. ASSUME NEW i \in 1 .. Len(D)
      PROVE  at(i) \in 1 .. Len(A) /\ D[i] = A[at(i)]
  <2>1. CASE i <= p
    BY <1>1, <2>1
  <2>2. CASE ~(i <= p)
    <3>1. i - p \in 1 .. r /\ p + (i - p) = i /\ p + (q + (i - p)) = i + q
      BY <1>1, <2>2
    <3>2. D[i] = R[i - p] /\ A[i + q] = R[i - p]
      BY <1>1, <3>1
    <3>3. at(i) = i + q /\ i + q \in 1 .. Len(A)
      BY <1>1, <2>2, <3>1
    <3>. QED  BY <3>2, <3>3
  <2>. QED  BY <2>1, <2>2
<1>4. ASSUME NEW i \in 1 .. Len(D), NEW j \in 1 .. Len(D), i < j
      PROVE  at(i) < at(j)
  BY <1>1, <1>4
<1>. HIDE DEF at
<1>5. \A i \in 1 .. Len(D) :
        D[i] # Garbage => n < D[i] /\ D[i] <= top /\ \A j \in 1 .. Len(B) : D[i] < B[j]
  BY <1>2, <1>3 DEF Rising
<1>6. \A i, j \in 1 .. Len(D) : i < j /\ D[i] # Garbage /\ D[j] # Garbage => D[i] < D[j]
  BY <1>2, <1>3, <1>4 DEF Rising
<1>7. Rising(D, B, n, top)
  BY <1>2, <1>5, <1>6 DEF Rising
<1>. QED  BY <1>7 DEF D

(* A read that is answered, with the command for its reading or with garbage. *)
LEMMA RisingSaid ==
  ASSUME NEW C \in Seq(Commands), NEW P \in Seq(Values), NEW Q \in Seq(Values),
         NEW n \in Nat, NEW top \in Nat, Rising(C, P \o Q, n, top),
         Len(P) = Size, NEW x \in Commands, x # Garbage => P[1] = x
  PROVE  Rising(C \o <<x>>, Q, n, top)
<1>. DEFINE A == P \o Q
            D == C \o <<x>>
            k == Len(C)
            l == Len(Q)
<1>1. /\ l \in Nat /\ Len(A) = Size + l /\ A[1] = P[1] /\ Size \in Nat \ {0}
      /\ \A i \in 1 .. l : A[Size + i] = Q[i]
  <2>1. Size \in Nat \ {0}
    BY CapacityAssumption
  <2>2. /\ Len(Q) \in Nat /\ Len(A) = Len(P) + Len(Q)
        /\ \A i \in 1 .. Len(P) : A[i] = P[i]
        /\ \A i \in 1 .. Len(Q) : A[Len(P) + i] = Q[i]
    BY ONLY Joined
  <2>. QED  BY <2>1, <2>2
<1>2. /\ k \in Nat /\ Len(D) = k + 1 /\ D[k + 1] = x
      /\ \A i \in 1 .. k : D[i] = C[i]
  <2>1. <<x>> \in Seq(Commands) /\ Len(<<x>>) = 1 /\ <<x>>[1] = x
    OBVIOUS
  <2>2. /\ Len(C) \in Nat /\ Len(D) = Len(C) + Len(<<x>>)
        /\ \A i \in 1 .. Len(C) : D[i] = C[i]
        /\ \A i \in 1 .. Len(<<x>>) : D[Len(C) + i] = <<x>>[i]
    BY <2>1, Joined
  <2>3. D[Len(C) + 1] = <<x>>[1]
    BY <2>1, <2>2
  <2>. QED  BY <2>1, <2>2, <2>3
<1>3. Rising(C, A, n, top) /\ Rising(C, Q, n, top)
  BY RisingLost
<1>. HIDE DEF A, D, k, l
<1>4. 1 \in 1 .. Len(A) /\ \A j \in 1 .. l : Size + j \in 1 .. Len(A) /\ 1 + Size <= Size + j
  BY <1>1
<1>5. x # Garbage => n < x /\ x <= top /\ \A j \in 1 .. l : x < Q[j]
  BY <1>1, <1>3, <1>4 DEF Rising
<1>6. \A i \in 1 .. k : C[i] # Garbage /\ x # Garbage => C[i] < x
  BY <1>1, <1>3, <1>4 DEF Rising, k
<1>7. /\ \A i \in 1 .. l : n < Q[i] /\ Q[i] <= top
      /\ \A i, j \in 1 .. l : (i <= j => Q[i] <= Q[j]) /\ (i + Size <= j => Q[i] < Q[j])
  BY <1>3 DEF Rising, l
<1>8. /\ \A i \in 1 .. k :
           C[i] # Garbage => n < C[i] /\ C[i] <= top /\ \A j \in 1 .. l : C[i] < Q[j]
      /\ \A i, j \in 1 .. k : i < j /\ C[i] # Garbage /\ C[j] # Garbage => C[i] < C[j]
  BY <1>3 DEF Rising, k, l
<1>9. \A i \in 1 .. k + 1 : i \in 1 .. k \/ i = k + 1
  BY <1>2
<1>10. \A i \in 1 .. k + 1 :
         D[i] # Garbage => n < D[i] /\ D[i] <= top /\ \A j \in 1 .. l : D[i] < Q[j]
  BY <1>2, <1>5, <1>8, <1>9
<1>11. ASSUME NEW i \in 1 .. k + 1, NEW j \in 1 .. k + 1, i < j, D[i] # Garbage, D[j] # Garbage
       PROVE  D[i] < D[j]
  <2>1. i \in 1 .. k
    BY <1>2, <1>11
  <2>2. CASE j \in 1 .. k
    BY <1>2, <1>8, <1>11, <2>1, <2>2
  <2>3. CASE j = k + 1
    BY <1>2, <1>6, <1>11, <2>1, <2>3
  <2>. QED  BY <1>9, <2>2, <2>3
<1>12. Rising(D, Q, n, top)
  BY <1>2, <1>7, <1>10, <1>11 DEF Rising, l
<1>. QED  BY <1>12 DEF D

(* The driver takes a command: what is left comes after it. *)
LEMMA RisingPut ==
  ASSUME NEW h \in Commands, NEW C \in Seq(Commands), NEW B \in Seq(Values),
         NEW n \in Nat, NEW top \in Nat, Rising(<<h>> \o C, B, n, top)
  PROVE  /\ h = Garbage \/ (h > n /\ h <= top)
         /\ Rising(C, B, IF h > n THEN h ELSE n, top)
<1>. DEFINE D == <<h>> \o C
            k == Len(C)
            l == Len(B)
            m == IF h > n THEN h ELSE n
<1>1. /\ k \in Nat /\ Len(D) = 1 + k /\ D[1] = h
      /\ \A i \in 1 .. k : D[1 + i] = C[i]
  <2>1. <<h>> \in Seq(Commands) /\ Len(<<h>>) = 1 /\ <<h>>[1] = h
    OBVIOUS
  <2>2. /\ Len(C) \in Nat /\ Len(D) = Len(<<h>>) + Len(C)
        /\ \A i \in 1 .. Len(<<h>>) : D[i] = <<h>>[i]
        /\ \A i \in 1 .. Len(C) : D[Len(<<h>>) + i] = C[i]
    BY <2>1, Joined
  <2>3. D[1] = <<h>>[1]
    BY <2>1, <2>2
  <2>. QED  BY <2>1, <2>2, <2>3
<1>2. Rising(D, B, n, top)
  OBVIOUS
<1>. HIDE DEF D, k, l, m
<1>3. 1 \in 1 .. Len(D) /\ \A i \in 1 .. k : 1 + i \in 1 .. Len(D) /\ 1 < 1 + i
  BY <1>1
<1>4. h # Garbage => n < h /\ h <= top /\ \A j \in 1 .. l : h < B[j]
  BY <1>1, <1>2, <1>3 DEF Rising, l
<1>5. h = Garbage => m = n
  BY DEF Garbage, m
<1>6. h # Garbage => m = h
  BY <1>4 DEF m
<1>7. \A i \in 1 .. l : m < B[i] /\ B[i] <= top
  BY <1>2, <1>4, <1>5, <1>6 DEF Rising, l
<1>8. \A i, j \in 1 .. l : (i <= j => B[i] <= B[j]) /\ (i + Size <= j => B[i] < B[j])
  BY <1>2 DEF Rising, l
<1>9. ASSUME NEW i \in 1 .. k, C[i] # Garbage
      PROVE  m < C[i] /\ C[i] <= top /\ \A j \in 1 .. l : C[i] < B[j]
  <2>1. D[1 + i] # Garbage /\ D[1 + i] = C[i] /\ 1 + i \in 1 .. Len(D)
    BY <1>1, <1>3, <1>9
  <2>2. n < C[i] /\ C[i] <= top /\ \A j \in 1 .. l : C[i] < B[j]
    BY <1>2, <2>1 DEF Rising, l
  <2>3. h # Garbage => h < C[i]
    BY <1>1, <1>2, <1>3, <2>1 DEF Rising
  <2>. QED  BY <1>5, <1>6, <2>2, <2>3
<1>10. ASSUME NEW i \in 1 .. k, NEW j \in 1 .. k, i < j, C[i] # Garbage, C[j] # Garbage
       PROVE  C[i] < C[j]
  <2>1. 1 + i \in 1 .. Len(D) /\ 1 + j \in 1 .. Len(D) /\ 1 + i < 1 + j
    BY <1>1, <1>10
  <2>2. D[1 + i] = C[i] /\ D[1 + j] = C[j]
    BY <1>1
  <2>. QED  BY <1>2, <1>10, <2>1, <2>2 DEF Rising
<1>11. Rising(C, B, m, top)
  BY <1>7, <1>8, <1>9, <1>10 DEF Rising, k, l
<1>12. h = Garbage \/ (h > n /\ h <= top)
  <2>1. h \in Int
    BY BoundAssumption DEF Commands, Values, Garbage
  <2>. QED  BY <1>4, <2>1
<1>. QED  BY <1>11, <1>12 DEF m

(* The driver writes the next reading. *)
LEMMA RisingSent ==
  ASSUME NEW C \in Seq(Commands), NEW B \in Seq(Values), NEW n \in Nat, NEW top \in Nat,
         top + 1 \in Values, n <= top, Rising(C, B, n, top)
  PROVE  Rising(C, B \o Bytes(top + 1), n, top + 1)
<1>. DEFINE x == top + 1
            Z == Bytes(x)
            A == B \o Z
            l == Len(B)
<1>1. /\ Size \in Nat \ {0} /\ Z \in Seq(Values) /\ Len(Z) = Size
      /\ \A i \in 1 .. Size : Z[i] = x
  <2>1. Z \in Seq({x}) /\ {x} \subseteq Values /\ Len(Z) = Size /\ \A i \in 1 .. Size : Z[i] = x
    BY BytesOf
  <2>2. Z \in Seq(Values)
    BY <2>1, SeqMonotonic
  <2>. QED  BY <2>1, <2>2, CapacityAssumption
<1>2. /\ l \in Nat /\ Len(A) = l + Size
      /\ \A i \in 1 .. l : A[i] = B[i]
      /\ \A i \in 1 .. Size : A[l + i] = Z[i]
  <2>1. /\ Len(B) \in Nat /\ Len(A) = Len(B) + Len(Z)
        /\ \A i \in 1 .. Len(B) : A[i] = B[i]
        /\ \A i \in 1 .. Len(Z) : A[Len(B) + i] = Z[i]
    BY <1>1, Joined
  <2>. QED  BY <1>1, <2>1
<1>. HIDE DEF A, Z, l
<1>3. \A i \in 1 .. l + Size : i \in 1 .. l \/ (i > l /\ A[i] = x)
  <2>. TAKE i \in 1 .. l + Size
  <2>1. i \in 1 .. l \/ (i - l \in 1 .. Size /\ l + (i - l) = i /\ i > l)
    BY <1>1, <1>2
  <2>. QED  BY <1>1, <1>2, <2>1
<1>4. /\ \A i \in 1 .. l : n < B[i] /\ B[i] <= top /\ B[i] \in Nat
      /\ \A i, j \in 1 .. l : (i <= j => B[i] <= B[j]) /\ (i + Size <= j => B[i] < B[j])
  <2>1. \A i \in 1 .. l : B[i] \in Nat
    <3>1. \A i \in 1 .. l : B[i] \in Values
      BY ElementOfSeq DEF l
    <3>. QED  BY <3>1 DEF Values
  <2>. QED  BY <2>1 DEF Rising, l
<1>5. \A i \in 1 .. l + Size : n < A[i] /\ A[i] <= x
  BY <1>2, <1>3, <1>4
<1>6. ASSUME NEW i \in 1 .. l + Size, NEW j \in 1 .. l + Size
      PROVE  (i <= j => A[i] <= A[j]) /\ (i + Size <= j => A[i] < A[j])
  <2>1. CASE i \in 1 .. l /\ j \in 1 .. l
    BY <1>2, <1>4, <2>1
  <2>2. CASE i \in 1 .. l /\ j > l /\ A[j] = x
    <3>1. A[i] = B[i] /\ A[i] <= top /\ A[i] \in Nat
      BY <1>2, <1>4, <2>2
    <3>. QED  BY <2>2, <3>1
  <2>3. CASE i > l /\ A[i] = x /\ j \in 1 .. l
    BY <1>1, <1>2, <2>3
  <2>4. CASE i > l /\ A[i] = x /\ j > l /\ A[j] = x
    BY <1>1, <1>2, <2>4
  <2>. QED  BY <1>3, <2>1, <2>2, <2>3, <2>4
<1>7. ASSUME NEW i \in 1 .. Len(C), C[i] # Garbage
      PROVE  n < C[i] /\ C[i] <= x /\ \A j \in 1 .. l + Size : C[i] < A[j]
  <2>1. n < C[i] /\ C[i] <= top /\ \A j \in 1 .. l : C[i] < B[j]
    BY <1>7 DEF Rising, l
  <2>2. C[i] \in Int
    <3>1. C[i] \in Commands
      BY ElementOfSeq
    <3>. QED  BY <3>1 DEF Commands, Values, Garbage
  <2>3. C[i] < x /\ C[i] <= x
    BY <2>1, <2>2
  <2>4. \A j \in 1 .. l + Size : C[i] < A[j]
    BY <1>2, <1>3, <2>1, <2>3
  <2>. QED  BY <2>1, <2>3, <2>4
<1>8. \A i, j \in 1 .. Len(C) : i < j /\ C[i] # Garbage /\ C[j] # Garbage => C[i] < C[j]
  BY DEF Rising
<1>9. Rising(C, A, n, x)
  BY <1>2, <1>5, <1>6, <1>7, <1>8 DEF Rising
<1>. QED  BY <1>9 DEF A, Z

(* A read of a whole reading is answered with the next command. *)
LEMMA InStepSaid ==
  ASSUME NEW C \in Seq(Commands), NEW P \in Seq(Values), NEW Q \in Seq(Values),
         NEW n \in Nat, NEW top \in Nat, InStep(C, P \o Q, n, top), Len(P) = Size
  PROVE  /\ \A i \in 1 .. Size : P[i] = n + Len(C) + 1
         /\ \A x \in Commands : x = n + Len(C) + 1 => InStep(C \o <<x>>, Q, n, top)
<1>. DEFINE A == P \o Q
            c == Len(C)
            l == Len(Q)
<1>1. Size \in Nat \ {0} /\ c \in Nat
  BY CapacityAssumption, LenProperties
<1>2. /\ l \in Nat /\ Len(A) = Size + l
      /\ \A i \in 1 .. Size : A[i] = P[i]
      /\ \A i \in 1 .. l : A[Size + i] = Q[i]
  <2>1. /\ Len(Q) \in Nat /\ Len(A) = Len(P) + Len(Q)
        /\ \A i \in 1 .. Len(P) : A[i] = P[i]
        /\ \A i \in 1 .. Len(Q) : A[Len(P) + i] = Q[i]
    BY ONLY Joined
  <2>. QED  BY <2>1
<1>3. InStep(C, A, n, top)
  OBVIOUS
<1>. HIDE DEF A, c, l
<1>4. PICK k \in Nat :
        /\ Len(A) = Size * k /\ n + c + k = top
        /\ \A j \in 0 .. k - 1 : \A r \in 1 .. Size : A[Size * j + r] = n + c + 1 + j
  BY <1>3 DEF InStep, c
<1>5. k >= 1
  BY <1>1, <1>2, <1>4
<1>6. l = Size * (k - 1) /\ k - 1 \in Nat
  <2>1. Size * k = Size * (k - 1) + Size
    BY <1>1, <1>5
  <2>. QED  BY <1>1, <1>2, <1>4, <1>5, <2>1
<1>7. ASSUME NEW i \in 1 .. Size
      PROVE  P[i] = n + c + 1
  <2>1. A[Size * 0 + i] = n + c + 1 + 0
    BY <1>4, <1>5
  <2>2. Size * 0 + i = i /\ n + c + 1 + 0 = n + c + 1
    BY <1>1
  <2>. QED  BY <1>2, <2>1, <2>2
<1>8. ASSUME NEW x \in Commands, x = n + c + 1
      PROVE  InStep(C \o <<x>>, Q, n, top)
  <2>. DEFINE D == C \o <<x>>
  <2>1. /\ Len(D) = c + 1 /\ D[c + 1] = x
        /\ \A i \in 1 .. c : D[i] = C[i]
    <3>1. <<x>> \in Seq(Commands) /\ Len(<<x>>) = 1 /\ <<x>>[1] = x
      OBVIOUS
    <3>2. /\ Len(D) = Len(C) + Len(<<x>>)
          /\ \A i \in 1 .. Len(C) : D[i] = C[i]
          /\ \A i \in 1 .. Len(<<x>>) : D[Len(C) + i] = <<x>>[i]
      BY <3>1, Joined
    <3>3. D[Len(C) + 1] = <<x>>[1]
      BY <3>1, <3>2
    <3>. QED  BY <3>1, <3>2, <3>3 DEF c
  <2>. HIDE DEF D
  <2>2. \A i \in 1 .. c : C[i] = n + i
    BY <1>3 DEF InStep, c
  <2>3. \A i \in 1 .. c + 1 : D[i] = n + i
    <3>. TAKE i \in 1 .. c + 1
    <3>1. i \in 1 .. c \/ (i = c + 1 /\ n + c + 1 = n + i)
      BY <1>1
    <3>. QED  BY <1>8, <2>1, <2>2, <3>1
  <2>4. ASSUME NEW j \in 0 .. (k - 1) - 1, NEW r \in 1 .. Size
        PROVE  Q[Size * j + r] = n + (c + 1) + 1 + j
    <3>1. /\ Size * (j + 1) <= Size * (k - 1) /\ Size * j \in Nat
          /\ Size * (j + 1) = Size * j + Size
      BY <1>1, <1>6, Multiples
    <3>. DEFINE i == Size * j + r
    <3>2. i \in 1 .. l /\ Size + i = Size * (j + 1) + r
      BY <1>1, <1>6, <3>1
    <3>3. A[Size * (j + 1) + r] = n + c + 1 + (j + 1)
      BY <1>4, <1>5
    <3>. HIDE DEF i
    <3>4. Q[i] = n + c + 1 + (j + 1)
      BY <1>2, <3>2, <3>3
    <3>5. n + c + 1 + (j + 1) = n + (c + 1) + 1 + j
      BY <1>1
    <3>. QED  BY <3>4, <3>5 DEF i
  <2>5. n + (c + 1) + (k - 1) = top
    BY <1>1, <1>4, <1>5
  <2>6. InStep(D, Q, n, top)
    BY <1>6, <2>1, <2>3, <2>4, <2>5 DEF InStep, l
  <2>. QED  BY <2>6 DEF D
<1>. QED  BY <1>7, <1>8 DEF c

(* The driver takes the next command. *)
LEMMA InStepPut ==
  ASSUME NEW h \in Commands, NEW C \in Seq(Commands), NEW B \in Seq(Values),
         NEW n \in Nat, NEW top \in Nat, InStep(<<h>> \o C, B, n, top)
  PROVE  h = n + 1 /\ InStep(C, B, n + 1, top)
<1>. DEFINE D == <<h>> \o C
            c == Len(C)
<1>1. /\ c \in Nat /\ Len(D) = 1 + c /\ D[1] = h
      /\ \A i \in 1 .. c : D[1 + i] = C[i]
  <2>1. <<h>> \in Seq(Commands) /\ Len(<<h>>) = 1 /\ <<h>>[1] = h
    OBVIOUS
  <2>2. /\ Len(C) \in Nat /\ Len(D) = Len(<<h>>) + Len(C)
        /\ \A i \in 1 .. Len(<<h>>) : D[i] = <<h>>[i]
        /\ \A i \in 1 .. Len(C) : D[Len(<<h>>) + i] = C[i]
    BY <2>1, Joined
  <2>3. D[1] = <<h>>[1]
    BY <2>1, <2>2
  <2>. QED  BY <2>1, <2>2, <2>3
<1>2. InStep(D, B, n, top)
  OBVIOUS
<1>. HIDE DEF D, c
<1>3. \A i \in 1 .. 1 + c : D[i] = n + i
  BY <1>1, <1>2 DEF InStep
<1>4. h = n + 1
  BY <1>1, <1>3
<1>5. ASSUME NEW i \in 1 .. c
      PROVE  C[i] = n + 1 + i
  <2>1. 1 + i \in 1 .. 1 + c /\ n + (1 + i) = n + 1 + i
    BY <1>1
  <2>. QED  BY <1>1, <1>3, <2>1
<1>6. PICK k \in Nat :
        /\ Len(B) = Size * k /\ n + Len(D) + k = top
        /\ \A j \in 0 .. k - 1 : \A r \in 1 .. Size : B[Size * j + r] = n + Len(D) + 1 + j
  BY <1>2 DEF InStep
<1>7. \A j \in 0 .. k - 1 : n + Len(D) + 1 + j = n + 1 + c + 1 + j
  BY <1>1
<1>8. n + 1 + c + k = top
  BY <1>1, <1>6
<1>9. InStep(C, B, n + 1, top)
  <2>1. \A j \in 0 .. k - 1 : \A r \in 1 .. Size : B[Size * j + r] = n + 1 + c + 1 + j
    BY <1>6, <1>7
  <2>2. Len(B) = Size * k
    BY <1>6
  <2>. QED  BY <1>5, <1>8, <2>1, <2>2 DEF InStep, c
<1>. QED  BY <1>4, <1>9

(* The driver writes the next reading. *)
LEMMA InStepSent ==
  ASSUME NEW C \in Seq(Commands), NEW B \in Seq(Values), NEW n \in Nat, NEW top \in Nat,
         top + 1 \in Values, InStep(C, B, n, top)
  PROVE  InStep(C, B \o Bytes(top + 1), n, top + 1)
<1>. DEFINE x == top + 1
            Z == Bytes(x)
            A == B \o Z
            c == Len(C)
<1>1. /\ Size \in Nat \ {0} /\ Z \in Seq(Values) /\ Len(Z) = Size /\ c \in Nat
      /\ \A i \in 1 .. Size : Z[i] = x
  <2>1. Z \in Seq({x}) /\ {x} \subseteq Values /\ Len(Z) = Size /\ \A i \in 1 .. Size : Z[i] = x
    BY BytesOf
  <2>2. Z \in Seq(Values)
    BY <2>1, SeqMonotonic
  <2>3. c \in Nat
    BY LenProperties
  <2>. QED  BY <2>1, <2>2, <2>3, CapacityAssumption
<1>. HIDE DEF Z, c
<1>2. PICK k \in Nat :
        /\ Len(B) = Size * k /\ n + c + k = top
        /\ \A j \in 0 .. k - 1 : \A r \in 1 .. Size : B[Size * j + r] = n + c + 1 + j
  BY DEF InStep, c
<1>3. /\ Len(A) = Size * k + Size
      /\ \A i \in 1 .. Size * k : A[i] = B[i]
      /\ \A i \in 1 .. Size : A[Size * k + i] = x
  <2>1. /\ Len(A) = Len(B) + Len(Z)
        /\ \A i \in 1 .. Len(B) : A[i] = B[i]
        /\ \A i \in 1 .. Len(Z) : A[Len(B) + i] = Z[i]
    <3>1. Z \in Seq(Values)
      BY <1>1
    <3>. QED  BY ONLY <3>1, Joined
  <2>. QED  BY <1>1, <1>2, <2>1
<1>. HIDE DEF A
<1>4. Size * k + Size = Size * (k + 1) /\ Size * k \in Nat
  BY <1>1
<1>5. ASSUME NEW j \in 0 .. (k + 1) - 1, NEW r \in 1 .. Size
      PROVE  A[Size * j + r] = n + c + 1 + j
  <2>1. CASE j = k
    <3>1. x = n + c + 1 + j
      BY <1>1, <1>2, <2>1
    <3>. QED  BY <1>3, <2>1, <3>1
  <2>2. CASE j < k
    <3>1. Size * (j + 1) <= Size * k /\ Size * j \in Nat /\ Size * (j + 1) = Size * j + Size
      BY <1>1, <2>2, Multiples
    <3>. DEFINE i == Size * j + r
    <3>2. i \in 1 .. Size * k
      BY <1>1, <1>4, <3>1
    <3>3. B[i] = n + c + 1 + j
      BY <1>2, <2>2
    <3>. HIDE DEF i
    <3>4. A[i] = n + c + 1 + j
      BY <1>3, <3>2, <3>3
    <3>. QED  BY <3>4 DEF i
  <2>3. j = k \/ j < k
    OBVIOUS
  <2>. QED  BY <2>1, <2>2, <2>3
<1>6. n + c + (k + 1) = x /\ k + 1 \in Nat /\ Len(A) = Size * (k + 1)
  BY <1>1, <1>2, <1>3, <1>4
<1>7. \A i \in 1 .. c : C[i] = n + i
  BY DEF InStep, c
<1>. HIDE DEF x
<1>8. InStep(C, A, n, x)
  BY <1>5, <1>6, <1>7 DEF InStep, c
<1>. QED  BY <1>8 DEF A, Z, x

-----------------------------------------------------------------------------
(***************************************************************************)
(* The steps of a session move the streams on, and only the controller and *)
(* the driver change them.                                                 *)
(***************************************************************************)

(* Associativity, as deep as the streams are. *)
Chain(p, q, r, s, u) == p \o (q \o (r \o (s \o u)))

AllOver(S, p, q, r, s, u, z) ==
  /\ p \in Seq(S) /\ q \in Seq(S) /\ r \in Seq(S)
  /\ s \in Seq(S) /\ u \in Seq(S) /\ z \in Seq(S)

(* What is appended to the first stage is appended to the stream. *)
LEMMA Appended ==
  ASSUME NEW S, NEW p, NEW q, NEW r, NEW s, NEW u, NEW z, AllOver(S, p, q, r, s, u, z)
  PROVE  /\ Chain(p, q, r, s, u) \in Seq(S)
         /\ Chain(p, q, r, s, u \o z) = Chain(p, q, r, s, u) \o z
<1>. DEFINE v == s \o u
            w == r \o v
            x == q \o w
<1>1. s \in Seq(S) /\ u \in Seq(S) /\ z \in Seq(S)
  BY DEF AllOver
<1>2. v \in Seq(S)
  BY ONLY <1>1, ConcatProperties
<1>3. s \o (u \o z) = v \o z
  BY ONLY <1>1, ConcatAssociative
<1>. HIDE DEF v
<1>4. r \in Seq(S) /\ v \in Seq(S) /\ z \in Seq(S)
  BY <1>2 DEF AllOver
<1>5. w \in Seq(S)
  BY ONLY <1>4, ConcatProperties
<1>6. r \o (v \o z) = w \o z
  BY ONLY <1>4, ConcatAssociative
<1>. HIDE DEF w
<1>7. q \in Seq(S) /\ w \in Seq(S) /\ z \in Seq(S)
  BY <1>5 DEF AllOver
<1>8. x \in Seq(S)
  BY ONLY <1>7, ConcatProperties
<1>9. q \o (w \o z) = x \o z
  BY ONLY <1>7, ConcatAssociative
<1>. HIDE DEF x
<1>10. p \in Seq(S) /\ x \in Seq(S) /\ z \in Seq(S)
  BY <1>8 DEF AllOver
<1>11. p \o x \in Seq(S)
  BY ONLY <1>10, ConcatProperties
<1>12. p \o (x \o z) = (p \o x) \o z
  BY ONLY <1>10, ConcatAssociative
<1>. QED  BY <1>3, <1>6, <1>9, <1>11, <1>12 DEF v, w, x, Chain

(* The two streams of a session, and their parts, are sequences. *)
LEMMA StreamTypes ==
  ASSUME NEW L, L \in Session
  PROVE  /\ Stream(L) \in Seq(Values) /\ Answers(L) \in Seq(Commands)
         /\ L.a \in Seq(Values) /\ L.b \in Seq(Values) /\ L.c \in Seq(Values)
         /\ L.toB \in Seq(Values) /\ L.toC \in Seq(Values)
         /\ L.d \in Seq(Commands) /\ L.e \in Seq(Commands) /\ L.f \in Seq(Commands)
         /\ L.toD \in Seq(Commands) /\ L.toE \in Seq(Commands) /\ L.toF \in Seq(Commands)
<1>1. /\ L.a \in Seq(Values) /\ L.b \in Seq(Values) /\ L.c \in Seq(Values)
      /\ L.toB \in Seq(Values) /\ L.toC \in Seq(Values)
      /\ L.d \in Seq(Commands) /\ L.e \in Seq(Commands) /\ L.f \in Seq(Commands)
      /\ L.toD \in Seq(Commands) /\ L.toE \in Seq(Commands) /\ L.toF \in Seq(Commands)
  BY DEF Session
<1>2. Stream(L) \in Seq(Values)
  <2>1. AllOver(Values, L.c, L.toC, L.b, L.toB, L.a, L.a)
    BY ONLY <1>1 DEF AllOver
  <2>2. Chain(L.c, L.toC, L.b, L.toB, L.a) \in Seq(Values)
    BY ONLY <2>1, Appended
  <2>. QED  BY ONLY <2>2 DEF Stream, Chain
<1>3. L.d \o L.toD \in Seq(Commands)
  BY ONLY <1>1, ConcatProperties
<1>4. Answers(L) \in Seq(Commands)
  BY ONLY <1>1, <1>3, ConcatProperties DEF Answers
<1>. QED  BY ONLY <1>1, <1>2, <1>4

(* A step that leaves the streams as they were. *)
LEMMA SameFlow ==
  ASSUME NEW L, NEW N, NEW n, NEW top, Flow(L, n, top),
         Stream(N) = Stream(L), Answers(N) = Answers(L),
         ~N.over => ~L.over, ~N.over /\ Aligned(L) => Aligned(N)
  PROVE  Flow(N, n, top)
BY DEF Flow

(* Sums of whole readings are whole readings. *)
LEMMA MultipleSums ==
  ASSUME NEW m, NEW n, Multiple(m), Multiple(n)
  PROVE  Multiple(m + n)
<1>1. PICK j \in Nat : m = Size * j
  BY DEF Multiple
<1>2. PICK k \in Nat : n = Size * k
  BY DEF Multiple
<1>3. m + n = Size * (j + k) /\ j + k \in Nat
  BY <1>1, <1>2, CapacityAssumption
<1>. QED  BY <1>3 DEF Multiple

(* No reading and one reading are whole. *)
LEMMA Multiple01 == Multiple(0) /\ Multiple(Size)
<1>1. 0 = Size * 0 /\ Size = Size * 1
  BY CapacityAssumption
<1>. QED  BY <1>1 DEF Multiple

(* The BenchMarker writes a reading: a backlog beyond the voter's buffer is noted. *)
LEMMA BenchRangeWriteFlow ==
  ASSUME NEW L, Good(L), NEW n, NEW top, Flow(L, n, top)
  PROVE  Flow([L EXCEPT !.b = @ \o L.toB, !.toB = <<>>,
                        !.over = @ \/ Len(L.b \o L.toB) > Block], n, top)
<1>1. L \in Session
  BY DEF Good
<1>2. /\ L.a \in Seq(Values) /\ L.b \in Seq(Values) /\ L.c \in Seq(Values)
      /\ L.toB \in Seq(Values) /\ L.toC \in Seq(Values)
      /\ L.d \in Seq(Commands) /\ L.e \in Seq(Commands) /\ L.f \in Seq(Commands)
      /\ L.toD \in Seq(Commands) /\ L.toE \in Seq(Commands) /\ L.toF \in Seq(Commands)
  BY <1>1, StreamTypes
<1>. DEFINE to == L.b \o L.toB
            over == L.over \/ Len(L.b \o L.toB) > Block
            N == [L EXCEPT !.b = to, !.toB = <<>>, !.over = over]
            rest == L.a
<1>3. (L.b \o L.toB) \o (<<>> \o rest) = L.b \o (L.toB \o rest)
  <2>. DEFINE p == L.b
              q == L.toB
  <2>1. rest \in Seq(Values)
    BY ONLY <1>2, ConcatProperties
  <2>2. p \in Seq(Values) /\ q \in Seq(Values) /\ rest \in Seq(Values)
    BY <1>2, <2>1
  <2>. HIDE DEF p, q, rest
  <2>3. (p \o q) \o (<<>> \o rest) = p \o (q \o rest)
    BY ONLY <2>2, Passed
  <2>. QED  BY <2>3 DEF p, q
<1>4. Len(to) = Len(L.b) + Len(L.toB)
  BY ONLY <1>2, ConcatProperties
<1>. HIDE DEF to, over
<1>5. /\ N.a = L.a /\ N.toB = <<>> /\ N.b = to /\ N.toC = L.toC /\ N.c = L.c
      /\ N.d = L.d /\ N.e = L.e /\ N.f = L.f /\ N.toD = L.toD /\ N.toE = L.toE /\ N.toF = L.toF
      /\ N.over = over
  BY ONLY <1>1 DEF Session
<1>. HIDE DEF N
<1>6. Stream(N) = Stream(L) /\ Answers(N) = Answers(L)
  BY ONLY <1>3, <1>5 DEF Stream, Answers, to
<1>7. ~N.over => ~L.over /\ Len(to) <= Block
  <2>1. Len(to) \in Nat /\ Block \in Nat
    BY <1>2, CapacityAssumption, ConcatProperties, LenProperties DEF to
  <2>2. ~N.over => ~L.over /\ ~(Len(to) > Block)
    BY <1>5 DEF over, to
  <2>. QED  BY <2>1, <2>2
<1>8. Len(N.toB) = 0
  BY <1>5
<1>9. ~N.over /\ Aligned(L) => Aligned(N)
  BY <1>4, <1>5, <1>7, <1>8, MultipleSums, Multiple01 DEF Aligned
<1>10. Flow(N, n, top)
  BY <1>6, <1>7, <1>8, <1>9, SameFlow
<1>. QED  BY <1>10 DEF N, to, over

(* The BenchMarker writes a command. *)
LEMMA BenchCommandWriteFlow ==
  ASSUME NEW L, Good(L), NEW n, NEW top, Flow(L, n, top)
  PROVE  Flow([L EXCEPT !.f = @ \o L.toF, !.toF = <<>>], n, top)
<1>1. L \in Session
  BY DEF Good
<1>2. /\ L.a \in Seq(Values) /\ L.b \in Seq(Values) /\ L.c \in Seq(Values)
      /\ L.toB \in Seq(Values) /\ L.toC \in Seq(Values)
      /\ L.d \in Seq(Commands) /\ L.e \in Seq(Commands) /\ L.f \in Seq(Commands)
      /\ L.toD \in Seq(Commands) /\ L.toE \in Seq(Commands) /\ L.toF \in Seq(Commands)
  BY <1>1, StreamTypes
<1>. DEFINE to == L.f \o L.toF
            N == [L EXCEPT !.f = to, !.toF = <<>>]
            rest == L.e \o (L.toE \o (L.d \o L.toD))
<1>3. (L.f \o L.toF) \o (<<>> \o rest) = L.f \o (L.toF \o rest)
  <2>. DEFINE p == L.f
              q == L.toF
  <2>1. rest \in Seq(Commands)
    BY ONLY <1>2, ConcatProperties
  <2>2. p \in Seq(Commands) /\ q \in Seq(Commands) /\ rest \in Seq(Commands)
    BY <1>2, <2>1
  <2>. HIDE DEF p, q, rest
  <2>3. (p \o q) \o (<<>> \o rest) = p \o (q \o rest)
    BY ONLY <2>2, Passed
  <2>. QED  BY <2>3 DEF p, q
<1>4. Len(to) = Len(L.f) + Len(L.toF)
  BY ONLY <1>2, ConcatProperties
<1>. HIDE DEF to
<1>5. /\ N.a = L.a /\ N.toB = L.toB /\ N.b = L.b /\ N.toC = L.toC /\ N.c = L.c
      /\ N.d = L.d /\ N.e = L.e /\ N.f = to /\ N.toD = L.toD /\ N.toE = L.toE /\ N.toF = <<>>
      /\ N.over = L.over
  BY ONLY <1>1 DEF Session
<1>. HIDE DEF N
<1>6. Stream(N) = Stream(L) /\ Answers(N) = Answers(L)
  BY ONLY <1>3, <1>5 DEF Stream, Answers, to
<1>7. Aligned(L) => Aligned(N)
  BY ONLY <1>5 DEF Aligned
<1>8. ~N.over => ~L.over
  BY <1>5
<1>10. Flow(N, n, top)
  BY <1>6, <1>7, <1>8, SameFlow
<1>. QED  BY <1>10 DEF N, to

(* The voter writes to its replica. *)
LEMMA VoterRangeWriteFlow ==
  ASSUME NEW L, Good(L), NEW n, NEW top, Flow(L, n, top)
  PROVE  Flow([L EXCEPT !.c = @ \o L.toC, !.toC = <<>>], n, top)
<1>1. L \in Session
  BY DEF Good
<1>2. /\ L.a \in Seq(Values) /\ L.b \in Seq(Values) /\ L.c \in Seq(Values)
      /\ L.toB \in Seq(Values) /\ L.toC \in Seq(Values)
      /\ L.d \in Seq(Commands) /\ L.e \in Seq(Commands) /\ L.f \in Seq(Commands)
      /\ L.toD \in Seq(Commands) /\ L.toE \in Seq(Commands) /\ L.toF \in Seq(Commands)
  BY <1>1, StreamTypes
<1>. DEFINE to == L.c \o L.toC
            N == [L EXCEPT !.c = to, !.toC = <<>>]
            rest == L.b \o (L.toB \o L.a)
<1>3. (L.c \o L.toC) \o (<<>> \o rest) = L.c \o (L.toC \o rest)
  <2>. DEFINE p == L.c
              q == L.toC
  <2>1. rest \in Seq(Values)
    BY ONLY <1>2, ConcatProperties
  <2>2. p \in Seq(Values) /\ q \in Seq(Values) /\ rest \in Seq(Values)
    BY <1>2, <2>1
  <2>. HIDE DEF p, q, rest
  <2>3. (p \o q) \o (<<>> \o rest) = p \o (q \o rest)
    BY ONLY <2>2, Passed
  <2>. QED  BY <2>3 DEF p, q
<1>4. Len(to) = Len(L.c) + Len(L.toC)
  BY ONLY <1>2, ConcatProperties
<1>. HIDE DEF to
<1>5. /\ N.a = L.a /\ N.toB = L.toB /\ N.b = L.b /\ N.toC = <<>> /\ N.c = to
      /\ N.d = L.d /\ N.e = L.e /\ N.f = L.f /\ N.toD = L.toD /\ N.toE = L.toE /\ N.toF = L.toF
      /\ N.over = L.over
  BY ONLY <1>1 DEF Session
<1>. HIDE DEF N
<1>6. Stream(N) = Stream(L) /\ Answers(N) = Answers(L)
  BY ONLY <1>3, <1>5 DEF Stream, Answers, to
<1>7. Len(N.toC) = 0
  BY <1>5
<1>8. Aligned(L) => Aligned(N)
  BY <1>4, <1>5, <1>7, MultipleSums, Multiple01 DEF Aligned
<1>9. ~N.over => ~L.over
  BY <1>5
<1>10. Flow(N, n, top)
  BY <1>6, <1>7, <1>8, <1>9, SameFlow
<1>. QED  BY <1>10 DEF N, to

(* The voter sends commands on. *)
LEMMA VoterCommandWriteFlow ==
  ASSUME NEW L, Good(L), NEW n, NEW top, Flow(L, n, top)
  PROVE  Flow([L EXCEPT !.e = @ \o L.toE, !.toE = <<>>], n, top)
<1>1. L \in Session
  BY DEF Good
<1>2. /\ L.a \in Seq(Values) /\ L.b \in Seq(Values) /\ L.c \in Seq(Values)
      /\ L.toB \in Seq(Values) /\ L.toC \in Seq(Values)
      /\ L.d \in Seq(Commands) /\ L.e \in Seq(Commands) /\ L.f \in Seq(Commands)
      /\ L.toD \in Seq(Commands) /\ L.toE \in Seq(Commands) /\ L.toF \in Seq(Commands)
  BY <1>1, StreamTypes
<1>. DEFINE to == L.e \o L.toE
            N == [L EXCEPT !.e = to, !.toE = <<>>]
            rest == L.d \o L.toD
<1>3. (L.e \o L.toE) \o (<<>> \o rest) = L.e \o (L.toE \o rest)
  <2>. DEFINE p == L.e
              q == L.toE
  <2>1. rest \in Seq(Commands)
    BY ONLY <1>2, ConcatProperties
  <2>2. p \in Seq(Commands) /\ q \in Seq(Commands) /\ rest \in Seq(Commands)
    BY <1>2, <2>1
  <2>. HIDE DEF p, q, rest
  <2>3. (p \o q) \o (<<>> \o rest) = p \o (q \o rest)
    BY ONLY <2>2, Passed
  <2>. QED  BY <2>3 DEF p, q
<1>4. Len(to) = Len(L.e) + Len(L.toE)
  BY ONLY <1>2, ConcatProperties
<1>. HIDE DEF to
<1>5. /\ N.a = L.a /\ N.toB = L.toB /\ N.b = L.b /\ N.toC = L.toC /\ N.c = L.c
      /\ N.d = L.d /\ N.e = to /\ N.f = L.f /\ N.toD = L.toD /\ N.toE = <<>> /\ N.toF = L.toF
      /\ N.over = L.over
  BY ONLY <1>1 DEF Session
<1>. HIDE DEF N
<1>6. Stream(N) = Stream(L) /\ Answers(N) = Answers(L)
  BY ONLY <1>3, <1>5 DEF Stream, Answers, to
<1>7. Aligned(L) => Aligned(N)
  BY ONLY <1>5 DEF Aligned
<1>8. ~N.over => ~L.over
  BY <1>5
<1>10. Flow(N, n, top)
  BY <1>6, <1>7, <1>8, SameFlow
<1>. QED  BY <1>10 DEF N, to

(* The controller writes its command. *)
LEMMA ControllerWriteFlow ==
  ASSUME NEW L, Good(L), NEW n, NEW top, Flow(L, n, top)
  PROVE  Flow([L EXCEPT !.d = @ \o L.toD, !.toD = <<>>], n, top)
<1>1. L \in Session
  BY DEF Good
<1>2. /\ L.a \in Seq(Values) /\ L.b \in Seq(Values) /\ L.c \in Seq(Values)
      /\ L.toB \in Seq(Values) /\ L.toC \in Seq(Values)
      /\ L.d \in Seq(Commands) /\ L.e \in Seq(Commands) /\ L.f \in Seq(Commands)
      /\ L.toD \in Seq(Commands) /\ L.toE \in Seq(Commands) /\ L.toF \in Seq(Commands)
  BY <1>1, StreamTypes
<1>. DEFINE to == L.d \o L.toD
            N == [L EXCEPT !.d = to, !.toD = <<>>]
<1>3. (L.d \o L.toD) \o <<>> = L.d \o L.toD
  BY ONLY <1>2, PassedLast
<1>4. Len(to) = Len(L.d) + Len(L.toD)
  BY ONLY <1>2, ConcatProperties
<1>. HIDE DEF to
<1>5. /\ N.a = L.a /\ N.toB = L.toB /\ N.b = L.b /\ N.toC = L.toC /\ N.c = L.c
      /\ N.d = to /\ N.e = L.e /\ N.f = L.f /\ N.toD = <<>> /\ N.toE = L.toE /\ N.toF = L.toF
      /\ N.over = L.over
  BY ONLY <1>1 DEF Session
<1>. HIDE DEF N
<1>6. Stream(N) = Stream(L) /\ Answers(N) = Answers(L)
  BY ONLY <1>3, <1>5 DEF Stream, Answers, to
<1>7. Aligned(L) => Aligned(N)
  BY ONLY <1>5 DEF Aligned
<1>8. ~N.over => ~L.over
  BY <1>5
<1>10. Flow(N, n, top)
  BY <1>6, <1>7, <1>8, SameFlow
<1>. QED  BY <1>10 DEF N, to

(* The BenchMarker reads a whole reading. *)
LEMMA BenchRangeFlow ==
  ASSUME NEW L, Good(L), NEW n, NEW top, Flow(L, n, top), BenchIdle(L), L.a # <<>>,
         NEW bytes, bytes = WholeOnly(Taken(L.a, Size)),
         NEW M, M = [L EXCEPT !.a = Rest(@, Size), !.toB = bytes]
  PROVE  Flow(Ask(M, bytes), n, top)
<1>1. L \in Session /\ L.toB = <<>> /\ Whole(L.a) /\ Size \in Nat
  BY CapacityAssumption DEF Good, BenchIdle
<1>2. /\ L.a \in Seq(Values) /\ L.b \in Seq(Values) /\ L.c \in Seq(Values)
      /\ L.toB \in Seq(Values) /\ L.toC \in Seq(Values)
      /\ L.d \in Seq(Commands) /\ L.e \in Seq(Commands) /\ L.f \in Seq(Commands)
      /\ L.toD \in Seq(Commands) /\ L.toE \in Seq(Commands) /\ L.toF \in Seq(Commands)
  BY <1>1, StreamTypes
<1>3. bytes = Taken(L.a, Size) /\ Len(bytes) = Size
  BY <1>1, <1>2, WholeRead DEF WholeOnly
<1>. DEFINE a == Rest(L.a, Size)
            N == Ask(M, bytes)
<1>4. <<>> \o L.a = bytes \o a
  <2>. DEFINE p == L.a
  <2>1. p \in Seq(Values)
    BY <1>2
  <2>. HIDE DEF p
  <2>2. <<>> \o p = p /\ Taken(p, Size) \o Rest(p, Size) = p
    BY <1>1, <2>1, ConcatEmptySeq, ReadJoins
  <2>. QED  BY <1>3, <2>2 DEF p
<1>5. /\ N.a = a /\ N.toB = bytes /\ N.b = L.b /\ N.toC = L.toC /\ N.c = L.c
      /\ N.d = L.d /\ N.e = L.e /\ N.f = L.f /\ N.toD = L.toD /\ N.toE = L.toE /\ N.toF = L.toF
      /\ N.over = L.over
  BY <1>1 DEF Session, Ask
<1>. HIDE DEF N, a
<1>6. Stream(N) = Stream(L) /\ Answers(N) = Answers(L)
  BY ONLY <1>1, <1>4, <1>5 DEF Stream, Answers
<1>7. Aligned(L) => Aligned(N)
  BY <1>3, <1>5, Multiple01 DEF Aligned
<1>8. ~N.over => ~L.over
  BY <1>5
<1>9. Flow(N, n, top)
  BY <1>6, <1>7, <1>8, SameFlow
<1>. QED  BY <1>9 DEF N

(* The BenchMarker reads a command. *)
LEMMA BenchCommandFlow ==
  ASSUME NEW L, Good(L), NEW n, NEW top, Flow(L, n, top), BenchIdle(L), L.e # <<>>
  PROVE  Flow([L EXCEPT !.e = Tail(@), !.toF = Forwarded(L, Head(L.e)),
                        !.waiting_response = FALSE,
                        !.out = @ - 1, !.reported = @ /\ L.out > 1], n, top)
<1>1. L \in Session /\ L.toF = <<>>
  BY DEF Good, BenchIdle
<1>2. /\ L.a \in Seq(Values) /\ L.b \in Seq(Values) /\ L.c \in Seq(Values)
      /\ L.toB \in Seq(Values) /\ L.toC \in Seq(Values)
      /\ L.d \in Seq(Commands) /\ L.e \in Seq(Commands) /\ L.f \in Seq(Commands)
      /\ L.toD \in Seq(Commands) /\ L.toE \in Seq(Commands) /\ L.toF \in Seq(Commands)
  BY <1>1, StreamTypes
<1>. DEFINE e == Tail(L.e)
            toF == <<Head(L.e)>>
            out == L.out - 1
            reported == L.reported /\ L.out > 1
            rest == L.toE \o (L.d \o L.toD)
            N == [L EXCEPT !.e = e, !.toF = toF, !.waiting_response = FALSE,
                           !.out = out, !.reported = reported]
<1>3. <<>> \o (L.e \o rest) = toF \o (e \o rest)
  <2>. DEFINE q == L.e
  <2>1. rest \in Seq(Commands)
    BY ONLY <1>2, ConcatProperties
  <2>2. q \in Seq(Commands) /\ rest \in Seq(Commands) /\ q # <<>>
    BY <1>2, <2>1
  <2>. HIDE DEF q, rest
  <2>3. <<>> \o (q \o rest) = <<Head(q)>> \o (Tail(q) \o rest)
    BY ONLY <2>2, FirstOff
  <2>. QED  BY <2>3 DEF q
<1>. HIDE DEF e, toF, out, reported
<1>4. /\ N.a = L.a /\ N.toB = L.toB /\ N.b = L.b /\ N.toC = L.toC /\ N.c = L.c
      /\ N.d = L.d /\ N.e = e /\ N.f = L.f /\ N.toD = L.toD /\ N.toE = L.toE /\ N.toF = toF
      /\ N.over = L.over
  BY ONLY <1>1 DEF Session
<1>. HIDE DEF N
<1>5. Stream(N) = Stream(L) /\ Answers(N) = Answers(L)
  BY ONLY <1>1, <1>3, <1>4 DEF Stream, Answers
<1>6. (Aligned(L) => Aligned(N)) /\ (~N.over => ~L.over)
  BY ONLY <1>4 DEF Aligned
<1>7. Flow(N, n, top)
  BY <1>5, <1>6, SameFlow
<1>. QED  BY <1>7 DEF N, e, toF, out, reported, Forwarded

(* The voter reads: all there is, when it fits its buffer. *)
LEMMA VoterRangeFlow ==
  ASSUME NEW L, Good(L), NEW n, NEW top, Flow(L, n, top), VoterIdle(L)
  PROVE  Flow([L EXCEPT !.toC = Taken(L.b, VoterBlock(L.b)), !.b = Rest(@, VoterBlock(L.b))],
              n, top)
<1>1. L \in Session /\ L.toC = <<>> /\ Block \in Nat
  BY CapacityAssumption DEF Good, VoterIdle
<1>2. /\ L.a \in Seq(Values) /\ L.b \in Seq(Values) /\ L.c \in Seq(Values)
      /\ L.toB \in Seq(Values) /\ L.toC \in Seq(Values)
      /\ L.d \in Seq(Commands) /\ L.e \in Seq(Commands) /\ L.f \in Seq(Commands)
      /\ L.toD \in Seq(Commands) /\ L.toE \in Seq(Commands) /\ L.toF \in Seq(Commands)
  BY <1>1, StreamTypes
<1>. DEFINE toC == Taken(L.b, VoterBlock(L.b))
            b == Rest(L.b, VoterBlock(L.b))
            rest == L.toB \o L.a
            N == [L EXCEPT !.toC = toC, !.b = b]
<1>3. <<>> \o (L.b \o rest) = toC \o (b \o rest)
  <2>. DEFINE q == L.b
  <2>1. rest \in Seq(Values)
    BY ONLY <1>2, ConcatProperties
  <2>2. q \in Seq(Values) /\ rest \in Seq(Values) /\ Block \in Nat
    BY <1>1, <1>2, <2>1
  <2>. HIDE DEF q, rest
  <2>3. <<>> \o (q \o rest) = Taken(q, Block) \o (Rest(q, Block) \o rest)
    BY ONLY <2>2, ReadOff
  <2>. QED  BY <2>3 DEF q, VoterBlock
<1>4. Len(L.b) <= Block => Len(toC) = Len(L.b) /\ Len(b) = 0
  <2>. DEFINE q == L.b
              l == Len(q)
  <2>1. q \in Seq(Values) /\ Block \in Nat
    BY <1>1, <1>2
  <2>. HIDE DEF q
  <2>2. /\ l \in Nat /\ Len(Taken(q, Block)) = Least(Block, l)
        /\ Len(Rest(q, Block)) = l - Least(Block, l)
    BY ONLY <2>1, ReadSplits
  <2>. HIDE DEF l
  <2>3. l <= Block => Least(Block, l) = l
    BY ONLY <2>1, <2>2 DEF Least
  <2>4. l <= Block => Len(Taken(q, Block)) = l /\ Len(Rest(q, Block)) = 0
    BY ONLY <2>2, <2>3
  <2>. QED  BY <2>4 DEF q, l, VoterBlock
<1>. HIDE DEF toC, b
<1>5. /\ N.a = L.a /\ N.toB = L.toB /\ N.b = b /\ N.toC = toC /\ N.c = L.c
      /\ N.d = L.d /\ N.e = L.e /\ N.f = L.f /\ N.toD = L.toD /\ N.toE = L.toE /\ N.toF = L.toF
      /\ N.over = L.over
  BY ONLY <1>1 DEF Session
<1>. HIDE DEF N
<1>6. Stream(N) = Stream(L) /\ Answers(N) = Answers(L)
  BY ONLY <1>1, <1>3, <1>5 DEF Stream, Answers
<1>7. Aligned(L) => Aligned(N)
  <2>. SUFFICES ASSUME Aligned(L) PROVE Aligned(N)
    OBVIOUS
  <2>1. Len(toC) = Len(L.b) /\ Len(b) = 0 /\ 0 <= Block
    BY <1>1, <1>4 DEF Aligned
  <2>. QED  BY <1>5, <2>1, Multiple01 DEF Aligned
<1>8. ~N.over => ~L.over
  BY <1>5
<1>9. Flow(N, n, top)
  BY <1>6, <1>7, <1>8, SameFlow
<1>. QED  BY <1>9 DEF N, toC, b

(* The voter takes its replica's commands: a full block is lost, and that is noted. *)
LEMMA VoterCommandFlow ==
  ASSUME NEW L, Good(L), NEW n, NEW top, Flow(L, n, top), VoterIdle(L)
  PROVE  Flow([L EXCEPT !.toE = Kept(L.d), !.d = Rest(@, CmdBlock),
                        !.over = @ \/ Len(L.d) >= CmdBlock], n, top)
<1>1. L \in Session /\ L.toE = <<>>
  BY DEF Good, VoterIdle
<1>2. /\ L.a \in Seq(Values) /\ L.b \in Seq(Values) /\ L.c \in Seq(Values)
      /\ L.toB \in Seq(Values) /\ L.toC \in Seq(Values)
      /\ L.d \in Seq(Commands) /\ L.e \in Seq(Commands) /\ L.f \in Seq(Commands)
      /\ L.toD \in Seq(Commands) /\ L.toE \in Seq(Commands) /\ L.toF \in Seq(Commands)
  BY <1>1, StreamTypes
<1>. DEFINE toE == Kept(L.d)
            d == Rest(L.d, CmdBlock)
            over == L.over \/ Len(L.d) >= CmdBlock
            N == [L EXCEPT !.toE = toE, !.d = d, !.over = over]
<1>. HIDE DEF toE, d, over
<1>3. /\ N.a = L.a /\ N.toB = L.toB /\ N.b = L.b /\ N.toC = L.toC /\ N.c = L.c
      /\ N.d = d /\ N.e = L.e /\ N.f = L.f /\ N.toD = L.toD /\ N.toE = toE /\ N.toF = L.toF
      /\ N.over = over
  BY ONLY <1>1 DEF Session
<1>. HIDE DEF N
<1>4. Stream(N) = Stream(L) /\ (Aligned(L) => Aligned(N))
  BY ONLY <1>3 DEF Stream, Aligned
<1>5. Len(L.d) \in Nat /\ CmdBlock \in Nat
  BY <1>1, Lengths, CapacityAssumption
<1>6. CASE Len(L.d) < CmdBlock
  <2>1. toE = L.d /\ d = <<>>
    BY <1>2, <1>6, CommandsKept DEF toE, d
  <2>2. <<>> \o (L.d \o L.toD) = L.d \o (<<>> \o L.toD)
    <3>. DEFINE q == L.d
                r == L.toD
    <3>1. q \in Seq(Commands) /\ r \in Seq(Commands)
      BY <1>2
    <3>. HIDE DEF q, r
    <3>2. <<>> \o (q \o r) = q \o (<<>> \o r)
      BY ONLY <3>1, Slid
    <3>. QED  BY <3>2 DEF q, r
  <2>3. Answers(N) = Answers(L)
    BY ONLY <1>1, <1>3, <2>1, <2>2 DEF Answers
  <2>4. ~N.over => ~L.over
    BY <1>3 DEF over
  <2>. QED  BY <1>4, <2>3, <2>4, SameFlow DEF N, toE, d, over
<1>7. CASE ~(Len(L.d) < CmdBlock)
  <2>1. toE = <<>>
    BY <1>2, <1>7, CommandsKept DEF toE
  <2>. DEFINE P == Chain(L.f, L.toF, L.e, <<>>, <<>>)
              Q == Taken(L.d, CmdBlock)
              R == d \o L.toD
  <2>2. P \in Seq(Commands) /\ Q \in Seq(Commands) /\ R \in Seq(Commands)
    <3>1. AllOver(Commands, L.f, L.toF, L.e, <<>>, <<>>, <<>>)
      BY <1>2 DEF AllOver
    <3>2. d \in Seq(Commands) /\ Q \in Seq(Commands)
      BY <1>2, <1>5, ReadSplits DEF d
    <3>3. R \in Seq(Commands)
      BY ONLY <1>2, <3>2, ConcatProperties
    <3>. QED  BY <3>1, <3>2, <3>3, Appended
  <2>3. L.d \o L.toD = Q \o R
    <3>. DEFINE q == L.d
                r == L.toD
    <3>1. q \in Seq(Commands) /\ r \in Seq(Commands) /\ CmdBlock \in Nat
      BY <1>2, <1>5
    <3>. HIDE DEF q, r
    <3>2. q \o r = Taken(q, CmdBlock) \o (Rest(q, CmdBlock) \o r)
      BY ONLY <3>1, ReadOff
    <3>. QED  BY <3>2 DEF q, r, d
  <2>4. ASSUME NEW z \in Seq(Commands)
        PROVE  L.f \o (L.toF \o (L.e \o (<<>> \o z))) = P \o z
    <3>. DEFINE p == L.f
                q == L.toF
                r == L.e
                nil == <<>>
    <3>1. AllOver(Commands, p, q, r, nil, nil, z)
      BY <1>2, <2>4 DEF AllOver
    <3>2. nil \o z = z
      BY ConcatEmptySeq
    <3>. HIDE DEF p, q, r, nil
    <3>3. Chain(p, q, r, nil, nil \o z) = Chain(p, q, r, nil, nil) \o z
      BY ONLY <3>1, Appended
    <3>4. p \o (q \o (r \o (nil \o z))) = Chain(p, q, r, nil, nil) \o z
      BY ONLY <3>2, <3>3 DEF Chain
    <3>. QED  BY <3>4 DEF p, q, r, nil
  <2>. HIDE DEF P, Q, R
  <2>5. Answers(L) = P \o (Q \o R)
    <3>1. Q \o R \in Seq(Commands)
      BY ONLY <2>2, ConcatProperties
    <3>. QED  BY <1>1, <2>3, <2>4, <3>1 DEF Answers
  <2>6. Answers(N) = P \o R
    BY <1>3, <2>1, <2>2, <2>4 DEF Answers, R
  <2>7. Rising(P \o R, Stream(L), n, top)
    <3>. DEFINE B == Stream(L)
    <3>1. Rising(P \o (Q \o R), B, n, top)
      BY <2>5 DEF Flow
    <3>. HIDE DEF B
    <3>2. Rising(P \o R, B, n, top)
      BY ONLY <2>2, <3>1, RisingCut
    <3>. QED  BY <3>2 DEF B
  <2>8. N.over
    <3>. DEFINE k == Len(L.d)
    <3>1. k \in Nat /\ CmdBlock \in Nat /\ ~(k < CmdBlock)
      BY <1>5, <1>7
    <3>. HIDE DEF k
    <3>2. k >= CmdBlock
      BY ONLY <3>1
    <3>3. over = TRUE
      BY <3>2 DEF over, k
    <3>. QED  BY ONLY <1>3, <3>3
  <2>9. Flow(N, n, top)
    BY <1>4, <2>6, <2>7, <2>8 DEF Flow
  <2>. QED  BY <2>9 DEF N, toE, d, over
<1>. QED  BY <1>6, <1>7

(* The controller reads from one stream and adds to the other. *)
LEMMA ControllerFlow ==
  ASSUME NEW L, Good(L), NEW n \in Nat, NEW top \in Nat, Flow(L, n, top),
         L.toD = <<>>, L.c # <<>>
  PROVE  Flow([L EXCEPT !.c = Rest(@, Size), !.toD = CommandFor(Taken(L.c, Size))], n, top)
<1>1. L \in Session /\ Size \in Nat \ {0}
  BY CapacityAssumption DEF Good
<1>2. /\ L.a \in Seq(Values) /\ L.b \in Seq(Values) /\ L.c \in Seq(Values)
      /\ L.toB \in Seq(Values) /\ L.toC \in Seq(Values)
      /\ L.d \in Seq(Commands) /\ L.e \in Seq(Commands) /\ L.f \in Seq(Commands)
      /\ L.toD \in Seq(Commands) /\ L.toE \in Seq(Commands) /\ L.toF \in Seq(Commands)
  BY <1>1, StreamTypes
<1>. DEFINE c == Rest(L.c, Size)
            P == Taken(L.c, Size)
            toD == CommandFor(P)
            rest == L.toC \o (L.b \o (L.toB \o L.a))
            Q == c \o rest
            C == Answers(L)
            N == [L EXCEPT !.c = c, !.toD = toD]
<1>3. /\ rest \in Seq(Values) /\ c \in Seq(Values) /\ P \in Seq(Values)
      /\ Q \in Seq(Values) /\ C \in Seq(Commands)
  <2>1. rest \in Seq(Values)
    BY ONLY <1>2, ConcatProperties
  <2>2. c \in Seq(Values) /\ P \in Seq(Values)
    BY <1>1, <1>2, ReadSplits
  <2>3. Q \in Seq(Values)
    BY ONLY <2>1, <2>2, ConcatProperties
  <2>. QED  BY <1>1, <2>1, <2>2, <2>3, StreamTypes
<1>4. Stream(L) = P \o Q
  <2>. DEFINE q == L.c
  <2>1. q \in Seq(Values) /\ rest \in Seq(Values) /\ Size \in Nat
    BY <1>1, <1>2, <1>3
  <2>. HIDE DEF q, rest
  <2>2. q \o rest = Taken(q, Size) \o (Rest(q, Size) \o rest)
    BY ONLY <2>1, ReadOff
  <2>. QED  BY <2>2 DEF q, rest, Stream
<1>5. toD \in Seq(Commands)
  BY <1>3, CommandOf
<1>. HIDE DEF P, c, toD
<1>6. /\ N.a = L.a /\ N.toB = L.toB /\ N.b = L.b /\ N.toC = L.toC /\ N.c = c
      /\ N.d = L.d /\ N.e = L.e /\ N.f = L.f /\ N.toD = toD /\ N.toE = L.toE /\ N.toF = L.toF
      /\ N.over = L.over
  BY ONLY <1>1 DEF Session
<1>. HIDE DEF N
<1>7. Stream(N) = Q
  BY <1>6 DEF Stream
<1>8. Answers(N) = C \o toD
  <2>. DEFINE p == L.f
              q == L.toF
              r == L.e
              s == L.toE
              u == L.d
  <2>1. /\ p \in Seq(Commands) /\ q \in Seq(Commands) /\ r \in Seq(Commands)
        /\ s \in Seq(Commands) /\ u \in Seq(Commands) /\ toD \in Seq(Commands)
    BY <1>2, <1>5
  <2>2. C = p \o (q \o (r \o (s \o (u \o <<>>))))
    BY DEF Answers
  <2>3. Answers(N) = p \o (q \o (r \o (s \o (u \o toD))))
    BY <1>6 DEF Answers
  <2>. HIDE DEF p, q, r, s, u, C
  <2>. HIDE DEF toD
  <2>0. AllOver(Commands, p, q, r, s, u, toD)
    BY ONLY <2>1 DEF AllOver
  <2>4. Chain(p, q, r, s, u \o toD) = Chain(p, q, r, s, u) \o toD
    BY ONLY <2>0, Appended
  <2>5. u \o <<>> = u
    BY ONLY <2>1, ConcatEmptySeq
  <2>. QED  BY ONLY <2>2, <2>3, <2>4, <2>5 DEF Chain
<1>9. Rising(C, P \o Q, n, top)
  BY <1>4 DEF Flow
<1>10. ~L.over => Aligned(L) /\ InStep(C, P \o Q, n, top)
  BY <1>4 DEF Flow
<1>. HIDE DEF C, Q
<1>11. Len(P) = Least(Size, Len(L.c)) /\ Len(c) = Len(L.c) - Least(Size, Len(L.c))
       /\ Len(L.c) \in Nat \ {0}
  BY <1>1, <1>2, ReadSplits, EmptySeq DEF P, c
<1>12. Rising(C \o toD, Q, n, top)
  <2>1. CASE Len(P) < Size
    <3>1. toD = <<>>
      BY <2>1 DEF toD, CommandFor
    <3>2. C \o toD = C
      BY <1>3, <3>1, ConcatEmptySeq
    <3>. QED  BY <1>3, <1>9, <3>2, RisingLost
  <2>2. CASE ~(Len(P) < Size)
    <3>1. Len(P) = Size
      <4>. DEFINE l == Len(L.c)
                  k == Len(P)
      <4>1. l \in Nat \ {0} /\ k = Least(Size, l) /\ ~(k < Size)
        BY <1>11, <2>2
      <4>. HIDE DEF l, k
      <4>2. k = Size
        BY ONLY <1>1, <4>1 DEF Least
      <4>. QED  BY <4>2 DEF k
    <3>2. \E x \in Commands : toD = <<x>> /\ (x # Garbage => P[1] = x)
      <4>1. 1 \in 1 .. Len(P)
        BY <1>1, <3>1
      <4>2. P[1] \in Values
        BY <1>3, <4>1, ElementOfSeq
      <4>. QED  BY <2>2, <4>2 DEF toD, CommandFor, Commands
    <3>. QED  BY <1>3, <1>9, <3>1, <3>2, RisingSaid
  <2>. QED  BY <2>1, <2>2
<1>13. ~N.over => Aligned(N) /\ InStep(C \o toD, Q, n, top)
  <2>. SUFFICES ASSUME ~N.over PROVE Aligned(N) /\ InStep(C \o toD, Q, n, top)
    OBVIOUS
  <2>1. Aligned(L) /\ InStep(C, P \o Q, n, top)
    BY <1>6, <1>10
  <2>2. PICK k \in Nat : Len(L.c) = Size * k
    BY <2>1 DEF Aligned, Multiple
  <2>. DEFINE l == Len(L.c)
  <2>3. l \in Nat \ {0} /\ l = Size * k
    BY <1>11, <2>2
  <2>4. Len(P) = Least(Size, l) /\ Len(c) = l - Least(Size, l)
    BY <1>11
  <2>. HIDE DEF l
  <2>5. k >= 1
    BY ONLY <1>1, <2>2, <2>3
  <2>6. Size * 1 <= Size * k /\ Size * k = Size * (k - 1) + Size
    BY <1>1, <2>5, Multiples
  <2>7. Least(Size, l) = Size /\ l - Size = Size * (k - 1)
    BY <1>1, <2>3, <2>6 DEF Least
  <2>8. Len(P) = Size /\ Len(c) = Size * (k - 1) /\ k - 1 \in Nat
    BY <2>4, <2>5, <2>7
  <2>9. Aligned(N)
    <3>1. Multiple(Len(c))
      BY <2>8 DEF Multiple
    <3>. QED  BY <1>6, <2>1, <3>1 DEF Aligned
  <2>. DEFINE x == n + Len(C) + 1
  <2>10. /\ \A i \in 1 .. Size : P[i] = x
         /\ \A y \in Commands : y = x => InStep(C \o <<y>>, Q, n, top)
    BY <1>3, <2>1, <2>8, InStepSaid
  <2>. HIDE DEF x
  <2>11. 1 \in 1 .. Size /\ 1 \in 1 .. Len(P)
    BY <1>1, <2>8
  <2>12. P[1] = x /\ P[1] \in Commands
    <3>1. P[1] \in Values
      BY <1>3, <2>11, ElementOfSeq
    <3>. QED  BY <2>10, <2>11, <3>1 DEF Commands
  <2>13. toD = <<P[1]>>
    <3>1. ~(Len(P) < Size)
      BY <1>1, <2>8
    <3>2. \A i \in 1 .. Size : P[i] = P[1]
      BY <2>10, <2>12
    <3>. QED  BY <3>1, <3>2 DEF toD, CommandFor
  <2>. QED  BY <2>9, <2>10, <2>12, <2>13
<1>14. Flow(N, n, top)
  BY <1>7, <1>8, <1>12, <1>13 DEF Flow
<1>. QED  BY <1>14 DEF N, c, toD, P

(* The driver writes the next reading. *)
LEMMA RangerFlow ==
  ASSUME NEW L, Good(L), NEW n \in Nat, NEW top \in Nat, Flow(L, n, top),
         top + 1 \in Values, n <= top
  PROVE  Flow([L EXCEPT !.a = @ \o Bytes(top + 1)], n, top + 1)
<1>1. L \in Session
  BY DEF Good
<1>2. /\ L.a \in Seq(Values) /\ L.b \in Seq(Values) /\ L.c \in Seq(Values)
      /\ L.toB \in Seq(Values) /\ L.toC \in Seq(Values)
      /\ L.d \in Seq(Commands) /\ L.e \in Seq(Commands) /\ L.f \in Seq(Commands)
      /\ L.toD \in Seq(Commands) /\ L.toE \in Seq(Commands) /\ L.toF \in Seq(Commands)
  BY <1>1, StreamTypes
<1>. DEFINE x == top + 1
            Z == Bytes(x)
            a == L.a \o Z
            N == [L EXCEPT !.a = a]
<1>3. Z \in Seq(Values)
  <2>1. Z \in Seq({x}) /\ {x} \subseteq Values
    BY BytesOf
  <2>. QED  BY <2>1, SeqMonotonic
<1>4. Stream(L) \in Seq(Values) /\ Answers(L) \in Seq(Commands)
  BY <1>1, StreamTypes
<1>. HIDE DEF a, Z
<1>5. /\ N.a = a /\ N.toB = L.toB /\ N.b = L.b /\ N.toC = L.toC /\ N.c = L.c
      /\ N.d = L.d /\ N.e = L.e /\ N.f = L.f /\ N.toD = L.toD /\ N.toE = L.toE /\ N.toF = L.toF
      /\ N.over = L.over
  BY ONLY <1>1 DEF Session
<1>. HIDE DEF N
<1>6. Stream(N) = Stream(L) \o Z
  <2>. DEFINE p == L.c
              q == L.toC
              r == L.b
              s == L.toB
              u == L.a
  <2>1. /\ p \in Seq(Values) /\ q \in Seq(Values) /\ r \in Seq(Values)
        /\ s \in Seq(Values) /\ u \in Seq(Values) /\ Z \in Seq(Values)
    BY <1>2, <1>3
  <2>2. Stream(L) = p \o (q \o (r \o (s \o u)))
    BY DEF Stream
  <2>3. Stream(N) = p \o (q \o (r \o (s \o (u \o Z))))
    BY <1>5 DEF Stream, a
  <2>. HIDE DEF p, q, r, s, u
  <2>. HIDE DEF Z
  <2>0. AllOver(Values, p, q, r, s, u, Z)
    BY ONLY <2>1 DEF AllOver
  <2>4. Chain(p, q, r, s, u \o Z) = Chain(p, q, r, s, u) \o Z
    BY ONLY <2>0, Appended
  <2>. QED  BY ONLY <2>2, <2>3, <2>4 DEF Chain
<1>7. Answers(N) = Answers(L)
  BY <1>5 DEF Answers
<1>8. Rising(Answers(L), Stream(L) \o Z, n, x)
  BY <1>4, RisingSent DEF Flow, Z
<1>9. InStep(Answers(L), Stream(L), n, top) => InStep(Answers(L), Stream(L) \o Z, n, x)
  BY <1>4, InStepSent DEF Z
<1>10. Aligned(L) => Aligned(N)
  BY ONLY <1>5 DEF Aligned
<1>11. ~N.over => Aligned(L) /\ InStep(Answers(L), Stream(L), n, top)
  BY <1>5 DEF Flow
<1>. HIDE DEF x
<1>12. Flow(N, n, x)
  BY ONLY <1>6, <1>7, <1>8, <1>9, <1>10, <1>11 DEF Flow
<1>. QED  BY <1>12 DEF N, a, Z, x

(* The driver takes the first command. *)
LEMMA UpdateFlow ==
  ASSUME NEW L, Good(L), NEW n \in Nat, NEW top \in Nat, Flow(L, n, top), n <= top,
         L.f # <<>>
  PROVE  LET h == Head(L.f)
         IN  /\ h = n + 1 \/ (L.over /\ (h = Garbage \/ h > n))
             /\ (IF h > n THEN h ELSE n) <= top
             /\ Flow([L EXCEPT !.f = Tail(L.f)], IF h > n THEN h ELSE n, top)
<1>1. L \in Session
  BY DEF Good
<1>2. /\ L.a \in Seq(Values) /\ L.b \in Seq(Values) /\ L.c \in Seq(Values)
      /\ L.toB \in Seq(Values) /\ L.toC \in Seq(Values)
      /\ L.d \in Seq(Commands) /\ L.e \in Seq(Commands) /\ L.f \in Seq(Commands)
      /\ L.toD \in Seq(Commands) /\ L.toE \in Seq(Commands) /\ L.toF \in Seq(Commands)
  BY <1>1, StreamTypes
<1>. DEFINE h == Head(L.f)
            f == Tail(L.f)
            m == IF h > n THEN h ELSE n
            rest == L.toF \o (L.e \o (L.toE \o (L.d \o L.toD)))
            C == f \o rest
            B == Stream(L)
            N == [L EXCEPT !.f = f]
<1>3. /\ rest \in Seq(Commands) /\ C \in Seq(Commands) /\ B \in Seq(Values) /\ h \in Commands
      /\ Answers(L) = <<h>> \o C
  <2>. DEFINE q == L.f
  <2>1. rest \in Seq(Commands)
    <3>1. L.e \o (L.toE \o (L.d \o L.toD)) \in Seq(Commands)
      BY ONLY <1>2, ConcatProperties
    <3>. QED  BY <1>2, <3>1, ConcatProperties
  <2>2. q \in Seq(Commands) /\ rest \in Seq(Commands) /\ q # <<>>
    BY <1>2, <2>1
  <2>3. B \in Seq(Values)
    BY <1>1, StreamTypes
  <2>. HIDE DEF q, rest
  <2>4. h \in Commands /\ f \in Seq(Commands)
    BY <2>2, HeadTailProperties DEF q
  <2>5. C \in Seq(Commands)
    BY ONLY <2>2, <2>4, ConcatProperties
  <2>6. q \o rest = <<Head(q)>> \o (Tail(q) \o rest)
    BY ONLY <2>2, FirstOff
  <2>7. Answers(L) = <<h>> \o C
    BY <2>6 DEF q, rest, Answers
  <2>. QED  BY <2>2, <2>3, <2>4, <2>5, <2>7
<1>. HIDE DEF f
<1>4. /\ N.a = L.a /\ N.toB = L.toB /\ N.b = L.b /\ N.toC = L.toC /\ N.c = L.c
      /\ N.d = L.d /\ N.e = L.e /\ N.f = f /\ N.toD = L.toD /\ N.toE = L.toE /\ N.toF = L.toF
      /\ N.over = L.over
  BY ONLY <1>1 DEF Session
<1>. HIDE DEF N
<1>5. Answers(N) = C /\ Stream(N) = B
  BY <1>4 DEF Answers, Stream
<1>6. Rising(<<h>> \o C, B, n, top) /\ (~L.over => InStep(<<h>> \o C, B, n, top) /\ Aligned(L))
  BY <1>3 DEF Flow
<1>. HIDE DEF C, B, rest, h
<1>7. (h = Garbage \/ (h > n /\ h <= top)) /\ Rising(C, B, m, top)
  BY ONLY <1>3, <1>6, RisingPut
<1>8. ~L.over => h = n + 1 /\ InStep(C, B, n + 1, top)
  BY ONLY <1>3, <1>6, InStepPut
<1>9. ~L.over => m = n + 1
  BY <1>8
<1>10. m <= top
  BY <1>7 DEF Garbage
<1>. HIDE DEF m
<1>11. Aligned(L) => Aligned(N)
  BY ONLY <1>4 DEF Aligned
<1>12. Flow(N, m, top)
  BY ONLY <1>4, <1>5, <1>6, <1>7, <1>8, <1>9, <1>11 DEF Flow
<1>13. h = n + 1 \/ (L.over /\ (h = Garbage \/ h > n))
  BY <1>7, <1>8
<1>. QED  BY <1>10, <1>12, <1>13 DEF N, f, h, m

-----------------------------------------------------------------------------
(***************************************************************************)
(* The steps of the processes, and of the driver.                          *)
(***************************************************************************)
Keeps(L, N) == \A n, top \in Nat : Flow(L, n, top) => Flow(N, n, top)

(* What a process of a session does leaves the order alone, and in an idle session none runs. *)
LEMMA SessionKeeps ==
  ASSUME Inv, NEW s \in Sessions, SessionNext(s)
  PROVE  loop[s] # Idle /\ \E N : Becomes(s, N) /\ Keeps(loop[s], N)
<1>. DEFINE L == loop[s]
<1>0. Good(L)
  BY DEF Inv
<1>1. CASE BenchRange(s)
  <2>. DEFINE bytes == WholeOnly(Taken(L.a, Size))
              M == [L EXCEPT !.a = Rest(@, Size), !.toB = bytes]
              N == Ask(M, bytes)
  <2>1. BenchIdle(L) /\ L.a # <<>>
    BY <1>1 DEF BenchRange
  <2>2. Becomes(s, IF bytes = <<>> THEN M ELSE N)
    BY <1>1 DEF BenchRange
  <2>3. bytes # <<>>
    BY <1>0, <2>1, BenchRangeGood
  <2>4. Keeps(L, N)
    BY <1>0, <2>1, BenchRangeFlow DEF Keeps
  <2>5. L # Idle
    BY <2>1 DEF Idle
  <2>. HIDE DEF bytes, M, N, L
  <2>6. Becomes(s, N)
    BY <2>2, <2>3
  <2>. QED  BY <2>4, <2>5, <2>6 DEF L
<1>2. CASE BenchRangeWrite(s)
  <2>. DEFINE N == [L EXCEPT !.b = @ \o L.toB, !.toB = <<>>,
                             !.over = @ \/ Len(L.b \o L.toB) > Block]
  <2>1. L.toB # <<>> /\ Becomes(s, N)
    BY <1>2 DEF BenchRangeWrite
  <2>2. Keeps(L, N)
    BY <1>0, BenchRangeWriteFlow DEF Keeps
  <2>3. L # Idle
    BY <2>1 DEF Idle
  <2>. HIDE DEF N, L
  <2>. QED  BY <2>1, <2>2, <2>3 DEF L
<1>3. CASE BenchCommand(s)
  <2>. DEFINE N == [L EXCEPT !.e = Tail(@), !.toF = Forwarded(L, Head(L.e)),
                             !.waiting_response = FALSE,
                             !.out = @ - 1, !.reported = @ /\ L.out > 1]
  <2>1. BenchIdle(L) /\ L.e # <<>> /\ Becomes(s, N)
    BY <1>3 DEF BenchCommand
  <2>2. Keeps(L, N)
    BY <1>0, <2>1, BenchCommandFlow DEF Keeps
  <2>3. L # Idle
    BY <2>1 DEF Idle
  <2>. HIDE DEF N, L
  <2>. QED  BY <2>1, <2>2, <2>3 DEF L
<1>4. CASE BenchCommandWrite(s)
  <2>. DEFINE N == [L EXCEPT !.f = @ \o L.toF, !.toF = <<>>]
  <2>1. L.toF # <<>> /\ Becomes(s, N)
    BY <1>4 DEF BenchCommandWrite
  <2>2. Keeps(L, N)
    BY <1>0, BenchCommandWriteFlow DEF Keeps
  <2>3. L # Idle
    BY <2>1 DEF Idle
  <2>. HIDE DEF N, L
  <2>. QED  BY <2>1, <2>2, <2>3 DEF L
<1>5. CASE VoterRange(s)
  <2>. DEFINE N == [L EXCEPT !.toC = Taken(L.b, VoterBlock(L.b)),
                             !.b = Rest(@, VoterBlock(L.b))]
  <2>1. VoterIdle(L) /\ L.b # <<>> /\ Becomes(s, N)
    BY <1>5 DEF VoterRange
  <2>2. Keeps(L, N)
    BY <1>0, <2>1, VoterRangeFlow DEF Keeps
  <2>3. L # Idle
    BY <2>1 DEF Idle
  <2>. HIDE DEF N, L
  <2>. QED  BY <2>1, <2>2, <2>3 DEF L
<1>6. CASE VoterRangeWrite(s)
  <2>. DEFINE N == [L EXCEPT !.c = @ \o L.toC, !.toC = <<>>]
  <2>1. L.toC # <<>> /\ Becomes(s, N)
    BY <1>6 DEF VoterRangeWrite
  <2>2. Keeps(L, N)
    BY <1>0, VoterRangeWriteFlow DEF Keeps
  <2>3. L # Idle
    BY <2>1 DEF Idle
  <2>. HIDE DEF N, L
  <2>. QED  BY <2>1, <2>2, <2>3 DEF L
<1>7. CASE VoterCommand(s)
  <2>. DEFINE N == [L EXCEPT !.toE = Kept(L.d), !.d = Rest(@, CmdBlock),
                             !.over = @ \/ Len(L.d) >= CmdBlock]
  <2>1. VoterIdle(L) /\ L.d # <<>> /\ Becomes(s, N)
    BY <1>7 DEF VoterCommand
  <2>2. Keeps(L, N)
    BY <1>0, <2>1, VoterCommandFlow DEF Keeps
  <2>3. L # Idle
    BY <2>1 DEF Idle
  <2>. HIDE DEF N, L
  <2>. QED  BY <2>1, <2>2, <2>3 DEF L
<1>8. CASE VoterCommandWrite(s)
  <2>. DEFINE N == [L EXCEPT !.e = @ \o L.toE, !.toE = <<>>]
  <2>1. L.toE # <<>> /\ Becomes(s, N)
    BY <1>8 DEF VoterCommandWrite
  <2>2. Keeps(L, N)
    BY <1>0, VoterCommandWriteFlow DEF Keeps
  <2>3. L # Idle
    BY <2>1 DEF Idle
  <2>. HIDE DEF N, L
  <2>. QED  BY <2>1, <2>2, <2>3 DEF L
<1>9. CASE Controller(s)
  <2>. DEFINE N == [L EXCEPT !.c = Rest(@, Size), !.toD = CommandFor(Taken(L.c, Size))]
  <2>1. L.toD = <<>> /\ L.c # <<>> /\ Becomes(s, N)
    BY <1>9 DEF Controller
  <2>2. Keeps(L, N)
    BY <1>0, <2>1, ControllerFlow DEF Keeps
  <2>3. L # Idle
    BY <2>1 DEF Idle
  <2>. HIDE DEF N, L
  <2>. QED  BY <2>1, <2>2, <2>3 DEF L
<1>10. CASE ControllerWrite(s)
  <2>. DEFINE N == [L EXCEPT !.d = @ \o L.toD, !.toD = <<>>]
  <2>1. L.toD # <<>> /\ Becomes(s, N)
    BY <1>10 DEF ControllerWrite
  <2>2. Keeps(L, N)
    BY <1>0, ControllerWriteFlow DEF Keeps
  <2>3. L # Idle
    BY <2>1 DEF Idle
  <2>. HIDE DEF N, L
  <2>. QED  BY <2>1, <2>2, <2>3 DEF L
<1>. QED  BY <1>1, <1>2, <1>3, <1>4, <1>5, <1>6, <1>7, <1>8, <1>9, <1>10 DEF SessionNext

(* A new session starts after the readings sent so far. *)
LEMMA IdleFlow ==
  ASSUME NEW n \in Nat
  PROVE  Flow(Idle, n, n)
<1>1. Stream(Idle) = <<>> /\ Answers(Idle) = <<>>
  BY DEF Stream, Answers, Idle
<1>2. Size \in Nat /\ Block \in Nat
  BY CapacityAssumption
<1>3. Len(<<>>) = 0 /\ Size * 0 = 0 /\ n + 0 + 0 = n
  BY <1>2
<1>4. (\A i \in 1 .. 0 : FALSE) /\ (\A j \in 0 .. 0 - 1 : FALSE)
  OBVIOUS
<1>5. Rising(<<>>, <<>>, n, n)
  BY <1>3, <1>4 DEF Rising
<1>6. InStep(<<>>, <<>>, n, n)
  BY <1>3, <1>4 DEF InStep
<1>7. Aligned(Idle)
  <2>1. Idle.b = <<>> /\ Idle.c = <<>> /\ Idle.toB = <<>> /\ Idle.toC = <<>>
    BY DEF Idle
  <2>. QED  BY <1>2, <1>3, <2>1, Multiple01 DEF Aligned
<1>. QED  BY <1>1, <1>5, <1>6, <1>7 DEF Flow

(* Ahead holds at the start: there is no session. *)
LEMMA AheadAtFirst == Init => Ahead
BY BoundAssumption DEF Init, Ahead

(* The processes of a session keep Ahead. *)
LEMMA SessionsAhead ==
  ASSUME Inv, Ahead, NEW s \in Sessions, SessionNext(s)
  PROVE  Ahead'
<1>1. PICK N : Becomes(s, N) /\ Keeps(loop[s], N)
  BY SessionKeeps
<1>2. loop[s] # Idle
  BY SessionKeeps
<1>3. /\ loop' = [loop EXCEPT ![s] = N] /\ driver' = driver /\ session' = session
      /\ nread' = nread /\ answered' = answered
  BY <1>1 DEF Becomes
<1>4. ~(s > session)
  BY <1>2 DEF Ahead
<1>5. \A t \in Sessions : loop'[t] = IF t = s THEN N ELSE loop[t]
  BY <1>3 DEF Inv
<1>6. \A t \in Sessions : t > session' => loop'[t] = Idle
  BY <1>3, <1>4, <1>5 DEF Ahead
<1>7. ASSUME driver' # "down"
      PROVE  answered' <= nread' /\ Flow(loop'[session'], answered', nread')
  <2>1. /\ answered \in Nat /\ nread \in Nat /\ session \in Sessions /\ answered <= nread
        /\ Flow(loop[session], answered, nread)
    BY <1>3, <1>7 DEF Inv, Driver, Ahead
  <2>2. loop'[session] = loop[session] \/ (s = session /\ loop'[session] = N)
    BY <1>5, <2>1
  <2>3. Flow(loop'[session], answered, nread)
    BY <1>1, <2>1, <2>2 DEF Keeps
  <2>. QED  BY <1>3, <2>1, <2>3
<1>. QED  BY <1>6, <1>7 DEF Ahead

(* So do setup and shutdown: a new session starts with idle processes. *)
LEMMA PlayerAhead ==
  ASSUME Inv, Ahead, MainSetup \/ SetupFails \/ MainShutdown
  PROVE  Ahead'
<1>0. loop' = loop /\ session \in 0 .. MaxSessions /\ MaxSessions \in Nat /\ nread \in Nat
  BY BoundAssumption DEF Inv, Driver, MainSetup, SetupFails, MainShutdown
<1>1. CASE MainSetup
  <2>1. /\ session' = session + 1 /\ session' \in Sessions
        /\ nread' = nread /\ answered' = nread
    BY <1>0, <1>1 DEF MainSetup, NewSession, Sessions
  <2>2. \A t \in Sessions : t >= session' => t > session
    BY <1>0, <2>1 DEF Sessions
  <2>3. \A t \in Sessions : t >= session' => loop'[t] = Idle
    BY <1>0, <2>2 DEF Ahead
  <2>4. session' >= session' /\ nread <= nread
    BY <1>0, <2>1 DEF Sessions
  <2>5. Flow(loop'[session'], answered', nread')
    BY <1>0, <2>1, <2>3, <2>4, IdleFlow
  <2>6. \A t \in Sessions : t > session' => t >= session'
    BY <1>0, <2>1 DEF Sessions
  <2>. QED  BY <2>1, <2>3, <2>4, <2>5, <2>6 DEF Ahead
<1>2. CASE SetupFails
  <2>1. session' = session + 1 /\ driver' = "down"
    BY <1>2 DEF SetupFails, NewSession
  <2>2. \A t \in Sessions : t > session' => t > session
    BY <1>0, <2>1 DEF Sessions
  <2>. QED  BY <1>0, <2>1, <2>2 DEF Ahead
<1>3. CASE MainShutdown
  BY <1>0, <1>3 DEF MainShutdown, Ahead
<1>. QED  BY <1>1, <1>2, <1>3

(* So do the messages queued at the driver. *)
LEMMA QueueAhead ==
  ASSUME Inv, Ahead, Publish \/ ProcessMessage \/ Processed
  PROVE  Ahead'
<1>1. /\ loop' = loop /\ session' = session /\ nread' = nread /\ answered' = answered
      /\ (driver' # "down" => driver # "down")
  BY DEF Publish, ProcessMessage, Processed
<1>. QED  BY <1>1 DEF Ahead

(* A reading sent by the driver joins the stream as its last. *)
LEMMA RangerAhead ==
  ASSUME Inv, Ahead, ProcessRanger
  PROVE  Ahead'
<1>1. /\ driver # "down" /\ session \in Sessions /\ nread \in Nat /\ answered \in Nat
      /\ answered <= nread /\ Flow(loop[session], answered, nread) /\ Good(loop[session])
  BY DEF Inv, Driver, Ahead, ProcessRanger
<1>2. nread' = nread + 1 /\ answered' = answered /\ session' = session
  BY DEF ProcessRanger
<1>3. nread + 1 \in Values
  <2>1. queued \in Nat /\ Due <= MaxReadings /\ MaxReadings \in Nat /\ sending
    BY BoundAssumption DEF Inv, Driver, ProcessRanger
  <2>2. Due = nread + queued + 1
    BY <2>1 DEF Due
  <2>. QED  BY <1>1, <2>1, <2>2 DEF Values
<1>. DEFINE N == [loop[session] EXCEPT !.a = @ \o Bytes(nread + 1)]
<1>4. Flow(N, answered, nread + 1)
  BY <1>1, <1>3, RangerFlow
<1>5. loop' = [loop EXCEPT ![session] = N]
  BY <1>1 DEF Inv, ProcessRanger
<1>. HIDE DEF N
<1>6. \A t \in Sessions : loop'[t] = IF t = session THEN N ELSE loop[t]
  BY <1>5 DEF Inv
<1>7. \A t \in Sessions : t > session' => loop'[t] = Idle
  <2>1. \A t \in Sessions : t > session => t # session
    BY <1>1 DEF Sessions
  <2>. QED  BY <1>2, <1>6, <2>1 DEF Ahead
<1>8. answered' <= nread'
  BY <1>1, <1>2
<1>9. Flow(loop'[session'], answered', nread')
  BY <1>1, <1>2, <1>4, <1>6
<1>. QED  BY <1>7, <1>8, <1>9 DEF Ahead

(* The command the driver reads is the next one, or after torn readings garbage or a later one. *)
LEMMA UpdateAhead ==
  ASSUME Inv, Ahead, DoOneUpdate
  PROVE  /\ Ahead'
         /\ loop[session].f # <<>> =>
              \/ robot' = answered + 1
              \/ loop[session].over /\ (robot' = Garbage \/ robot' > answered)
<1>0. /\ driver # "down" /\ session \in Sessions /\ nread \in Nat /\ answered \in Nat
      /\ answered <= nread /\ Flow(loop[session], answered, nread) /\ Good(loop[session])
  BY DEF Inv, Driver, Ahead, DoOneUpdate
<1>1. session' = session /\ nread' = nread
  BY DEF DoOneUpdate
<1>2. CASE loop[session].f = <<>> /\ UNCHANGED <<loop, robot, answered>>
  BY <1>0, <1>1, <1>2 DEF Ahead
<1>3. CASE /\ loop[session].f # <<>>
           /\ PutCommand(Head(loop[session].f))
           /\ answered' = IF Head(loop[session].f) > answered THEN Head(loop[session].f)
                                                              ELSE answered
           /\ loop' = [loop EXCEPT ![session].f = Tail(loop[session].f)]
  <2>. DEFINE L == loop[session]
              h == Head(L.f)
              m == IF h > answered THEN h ELSE answered
              N == [L EXCEPT !.f = Tail(L.f)]
  <2>1. /\ h = answered + 1 \/ (L.over /\ (h = Garbage \/ h > answered))
        /\ m <= nread
        /\ Flow(N, m, nread)
    BY <1>0, <1>3, UpdateFlow
  <2>2. answered' = m /\ robot' = h
    BY <1>3 DEF PutCommand
  <2>3. loop' = [loop EXCEPT ![session] = N]
    BY <1>0, <1>3 DEF Inv
  <2>. HIDE DEF L, h, m, N
  <2>4. \A t \in Sessions : loop'[t] = IF t = session THEN N ELSE loop[t]
    BY <2>3 DEF Inv
  <2>5. \A t \in Sessions : t > session' => loop'[t] = Idle
    <3>1. \A t \in Sessions : t > session => t # session
      BY <1>0 DEF Sessions
    <3>. QED  BY <1>1, <2>4, <3>1 DEF Ahead
  <2>6. answered' <= nread' /\ Flow(loop'[session'], answered', nread')
    BY <1>0, <1>1, <2>1, <2>2, <2>4
  <2>7. \/ robot' = answered + 1
        \/ loop[session].over /\ (robot' = Garbage \/ robot' > answered)
    BY <2>1, <2>2 DEF L
  <2>. QED  BY <2>5, <2>6, <2>7 DEF Ahead
<1>. QED  BY <1>2, <1>3 DEF DoOneUpdate

(* Every step keeps Ahead. *)
LEMMA AheadStep == Inv /\ Ahead /\ [Next]_vars => Ahead'
<1>. SUFFICES ASSUME Inv, Ahead, [Next]_vars PROVE Ahead'
  OBVIOUS
<1>1. CASE UNCHANGED <<driver, queued, sending, session, loop, robot, nread, answered>>
  BY <1>1 DEF Ahead
<1>2. CASE Next
  <2>1. DoOneUpdate => Ahead'
    BY UpdateAhead
  <2>. QED  BY <1>1, <1>2, <2>1, Steps, PlayerAhead, QueueAhead, RangerAhead, SessionsAhead
<1>. QED  BY <1>1, <1>2 DEF vars

(***************************************************************************)
(* The driver's read of a command (DoOneUpdate, translator_driver.cc) gets *)
(* the one for the reading after the last answered, of its own session, as *)
(* long as the voter's backlog has stayed within MAX_VOTE_PIPE_BUFF        *)
(* (voterd.c:344); and never one it has had or passed, even when readings  *)
(* have been torn.  For every size of a reading, of the voter's buffer and *)
(* of the pipes.                                                           *)
(***************************************************************************)
THEOREM CommandsOrdered == Spec => CommandsInOrder
<1>1. Spec => []Ahead
  <2>1. Inv /\ Ahead /\ [Next]_vars => Ahead'
    BY AheadStep
  <2>. QED  BY <2>1, AheadAtFirst, Invariance, PTL DEF Spec
<1>2. ASSUME Inv, Ahead, Next, driver = "read", driver' = "queue", loop[session].f # <<>>
      PROVE  \/ robot' = answered + 1
             \/ loop[session].over /\ (robot' = Garbage \/ robot' > answered)
  <2>1. DoOneUpdate
    <3>1. \A s \in Sessions : SessionNext(s) => driver' = driver
      BY DEF SessionNext, BenchRange, BenchRangeWrite, BenchCommand, BenchCommandWrite, VoterRange,
             VoterRangeWrite, VoterCommand, VoterCommandWrite, Controller, ControllerWrite, Becomes
    <3>2. \/ MainSetup \/ SetupFails \/ MainShutdown
          \/ Publish \/ ProcessMessage \/ Processed
          \/ ProcessRanger \/ DoOneUpdate
          \/ \E s \in Sessions : SessionNext(s)
          \/ UNCHANGED driver
      BY <1>2, Steps
    <3>3. /\ ~MainSetup /\ ~SetupFails /\ ~MainShutdown /\ ~Publish
          /\ ~ProcessMessage /\ ~Processed /\ ~ProcessRanger
      BY <1>2 DEF MainSetup, SetupFails, MainShutdown, Publish, ProcessMessage, Processed,
                  ProcessRanger
    <3>. QED  BY <1>2, <3>1, <3>2, <3>3
  <2>. QED  BY <1>2, <2>1, UpdateAhead
<1>3. Inv /\ Ahead /\ [Next]_vars =>
        [driver = "read" /\ driver' = "queue" /\ loop[session].f # <<>> =>
           \/ robot' = answered + 1
           \/ loop[session].over /\ (robot' = Garbage \/ robot' > answered)]_vars
  BY <1>2
<1>. QED  BY <1>1, <1>3, Invariance, PTL DEF Spec, CommandsInOrder
=============================================================================
