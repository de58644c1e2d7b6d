--------------------------- MODULE VoteBuff_proofs ---------------------------
(***************************************************************************)
(* Proofs about VoteBuff, for every ring size, set of pipes and set of     *)
(* byte values: the ring is never overrun (TypeOK), the comparison that    *)
(* votes is the comparison of the two byte streams, and the rings          *)
(* implement the queues of ByteQueue.                                      *)
(***************************************************************************)
EXTENDS VoteBuff, SequenceTheorems, TLAPS

\* Every index computed modulo the size of the ring lies in the ring.
LEMMA ModInRing ==
  ASSUME NEW a \in Nat
  PROVE  a % Max \in 0 .. Max - 1
BY MaxAssumption DEF Max

\* One turn round the ring: the modulus subtracts Max once or not at all.
LEMMA ModOnce ==
  ASSUME NEW a \in 0 .. 2 * Max - 1
  PROVE  a % Max = IF a < Max THEN a ELSE a - Max
<1>1. Max \in Nat /\ Max > 0
  BY MaxAssumption DEF Max
<1>2. CASE a < Max
  BY <1>1, <1>2
<1>3. CASE a >= Max
  BY <1>1, <1>3
<1> QED BY <1>1, <1>2, <1>3

\* memcpy into an array of bytes leaves an array of bytes, when what it reads lies
\* in the source array.
LEMMA MemcpyType ==
  ASSUME NEW D, NEW S, NEW dst \in [D -> Byte], NEW src \in [S -> Byte],
         NEW d, NEW s, NEW m,
         \A i \in D : d <= i /\ i < d + m => s + (i - d) \in S
  PROVE  Memcpy(dst, d, src, s, m) \in [D -> Byte]
BY DEF Memcpy

\* A block that fits leaves a well-formed ring: neither memcpy of pipeToBuff
\* leaves the buffer or reads past the block.
LEMMA StoreType ==
  ASSUME NEW v \in VotePipe, NEW n \in Nat \ {0}, NEW block \in Blocks(n), Fits(v, n)
  PROVE  Store(v, block, n) \in VotePipe
<1> DEFINE end_index == EndIndex(v)
           wrapped   == (end_index + n) % Max
           part_read == n - wrapped
<1>1. /\ Max \in Nat \ {0}
      /\ v.buff_index \in 0 .. Max - 1 /\ v.buff_count \in 0 .. Max - 1
      /\ v.buffer \in [0 .. Max - 1 -> Byte]
      /\ v.buff_count + n \in 0 .. Max - 1 /\ n \in 1 .. Max - 1
  BY MaxAssumption DEF Max, VotePipe, Fits
<1>2. end_index \in 0 .. Max - 1
  <2>1. v.buff_index + v.buff_count \in Nat
    BY <1>1
  <2> QED BY <2>1, ModInRing DEF EndIndex
<1>3. wrapped = IF end_index + n < Max THEN end_index + n ELSE end_index + n - Max
  <2>1. end_index + n \in 0 .. 2 * Max - 1
    BY <1>1, <1>2
  <2> DEFINE a == end_index + n
  <2> HIDE DEF a
  <2>2. a \in 0 .. 2 * Max - 1
    BY <2>1 DEF a
  <2>3. a % Max = IF a < Max THEN a ELSE a - Max
    BY <2>2, ModOnce
  <2> QED BY <1>1, <1>2, <2>1, <2>3 DEF a
<1> HIDE DEF end_index, wrapped
<1>4. block \in [0 .. n - 1 -> Byte]
  BY DEF Blocks
<1>5. Memcpy(v.buffer, end_index, block, 0, n) \in [0 .. Max - 1 -> Byte]
  <2>1. \A i \in 0 .. Max - 1 :
           end_index <= i /\ i < end_index + n => 0 + (i - end_index) \in 0 .. n - 1
    BY <1>1, <1>2
  <2> QED BY <1>1, <1>4, <2>1, MemcpyType
<1>6. ASSUME end_index > wrapped
      PROVE  Memcpy(Memcpy(v.buffer, end_index, block, 0, part_read),
                    0, block, part_read, n - part_read) \in [0 .. Max - 1 -> Byte]
  <2>1. part_read \in 1 .. n
    BY <1>1, <1>2, <1>3, <1>6
  <2> HIDE DEF part_read
  <2>2. \A i \in 0 .. Max - 1 :
           end_index <= i /\ i < end_index + part_read => 0 + (i - end_index) \in 0 .. n - 1
    BY <1>1, <1>2, <2>1
  <2>3. Memcpy(v.buffer, end_index, block, 0, part_read) \in [0 .. Max - 1 -> Byte]
    BY <1>1, <1>4, <2>2, MemcpyType
  <2>4. \A i \in 0 .. Max - 1 :
           0 <= i /\ i < 0 + (n - part_read) => part_read + (i - 0) \in 0 .. n - 1
    BY <1>1, <2>1
  <2> QED BY <1>4, <2>3, <2>4, MemcpyType
<1>7. Store(v, block, n) =
        [v EXCEPT !.buffer = IF end_index > wrapped
                             THEN Memcpy(Memcpy(v.buffer, end_index, block, 0, part_read),
                                         0, block, part_read, n - part_read)
                             ELSE Memcpy(v.buffer, end_index, block, 0, n),
                  !.buff_count = @ + n]
  BY DEF Store, end_index, wrapped
<1> QED BY <1>1, <1>5, <1>6, <1>7 DEF VotePipe

\* What leaves the ring is a block of bytes: the two memcpys of buffToPipe read
\* inside the buffer.
LEMMA CopyBufferType ==
  ASSUME NEW v \in VotePipe, NEW n \in 0 .. v.buff_count
  PROVE  copyBuffer(v, n) \in Blocks(n)
<1> DEFINE idx == v.buff_index
           buf == v.buffer
           part_write == Max - idx
           zero == [i \in 0 .. n - 1 |-> 0]
<1>1. /\ Max \in Nat \ {0}
      /\ idx \in 0 .. Max - 1 /\ v.buff_count \in 0 .. Max - 1
      /\ buf \in [0 .. Max - 1 -> Byte]
      /\ n \in 0 .. Max - 1
      /\ part_write \in 1 .. Max
  BY MaxAssumption DEF Max, VotePipe
<1>2. zero \in [0 .. n - 1 -> Byte]
  BY ByteAssumption
<1> HIDE DEF part_write, zero, idx, buf
<1>3. CASE idx + n < Max
  <2>1. \A i \in 0 .. n - 1 : 0 <= i /\ i < 0 + n => idx + (i - 0) \in 0 .. Max - 1
    BY <1>1, <1>3
  <2>2. Memcpy(zero, 0, buf, idx, n) \in [0 .. n - 1 -> Byte]
    BY <1>1, <1>2, <2>1, MemcpyType
  <2> QED BY <1>3, <2>2 DEF copyBuffer, Blocks, zero, idx, buf
<1>4. CASE ~(idx + n < Max)
  <2>0. n - part_write \in 0 .. Max - 1
    BY <1>1, <1>4 DEF part_write
  <2>1. \A i \in 0 .. n - 1 : 0 <= i /\ i < 0 + part_write => idx + (i - 0) \in 0 .. Max - 1
    BY <1>1 DEF part_write
  <2>2. Memcpy(zero, 0, buf, idx, part_write) \in [0 .. n - 1 -> Byte]
    BY <1>1, <1>2, <2>1, MemcpyType
  <2>3. \A i \in 0 .. n - 1 :
           part_write <= i /\ i < part_write + (n - part_write)
             => 0 + (i - part_write) \in 0 .. Max - 1
    BY <1>1, <2>0
  <2>4. Memcpy(Memcpy(zero, 0, buf, idx, part_write),
               part_write, buf, 0, n - part_write) \in [0 .. n - 1 -> Byte]
    BY <1>1, <2>0, <2>2, <2>3, MemcpyType
  <2> QED BY <1>4, <2>4 DEF copyBuffer, Blocks, zero, idx, buf, part_write
<1> QED BY <1>3, <1>4

\* Dropping bytes that are there keeps the ring well formed.
LEMMA FakeToPipeType ==
  ASSUME NEW v \in VotePipe, NEW n \in 0 .. v.buff_count
  PROVE  fakeToPipe(v, n) \in VotePipe
<1>1. /\ Max \in Nat \ {0}
      /\ v.buff_index \in 0 .. Max - 1 /\ v.buff_count \in 0 .. Max - 1
  BY MaxAssumption DEF Max, VotePipe
<1>2. (v.buff_index + n) % Max \in 0 .. Max - 1
  BY <1>1, ModInRing
<1>3. v.buff_count - n \in 0 .. Max - 1
  BY <1>1
<1> QED BY <1>2, <1>3 DEF fakeToPipe, VotePipe

\* The copy of a well-formed ring is one.
LEMMA CopyPipeType ==
  ASSUME NEW dest \in VotePipe, NEW src \in VotePipe
  PROVE  copyPipe(dest, src) \in VotePipe
<1> DEFINE part_cpy == Max - src.buff_index
           s == src.buff_index
           c == src.buff_count
           from == src.buffer
           to == dest.buffer
<1>1. /\ Max \in Nat \ {0}
      /\ s \in 0 .. Max - 1 /\ c \in 0 .. Max - 1
      /\ from \in [0 .. Max - 1 -> Byte]
      /\ to \in [0 .. Max - 1 -> Byte]
      /\ part_cpy \in 1 .. Max
  BY MaxAssumption DEF Max, VotePipe
<1> HIDE DEF part_cpy, s, c, from, to
<1>2. CASE s + c < Max
  <2>1. \A i \in 0 .. Max - 1 : s <= i /\ i < s + c => s + (i - s) \in 0 .. Max - 1
    BY <1>1, <1>2
  <2>2. Memcpy(to, s, from, s, c) \in [0 .. Max - 1 -> Byte]
    BY <1>1, <2>1, MemcpyType
  <2> QED BY <1>1, <1>2, <2>2 DEF copyPipe, VotePipe, s, c, from, to
<1>3. CASE ~(s + c < Max)
  <2>0. c - part_cpy \in 0 .. Max - 1
    BY <1>1, <1>3 DEF part_cpy, s
  <2>1. \A i \in 0 .. Max - 1 : s <= i /\ i < s + part_cpy => s + (i - s) \in 0 .. Max - 1
    BY <1>1 DEF part_cpy, s
  <2>2. Memcpy(to, s, from, s, part_cpy) \in [0 .. Max - 1 -> Byte]
    BY <1>1, <2>1, MemcpyType
  <2>3. \A i \in 0 .. Max - 1 : 0 <= i /\ i < 0 + (c - part_cpy) => 0 + (i - 0) \in 0 .. Max - 1
    BY <1>1, <2>0
  <2>4. Memcpy(Memcpy(to, s, from, s, part_cpy),
               0, from, 0, c - part_cpy) \in [0 .. Max - 1 -> Byte]
    BY <1>1, <2>0, <2>2, <2>3, MemcpyType
  <2> QED BY <1>1, <1>3, <2>4 DEF copyPipe, VotePipe, s, c, from, to, part_cpy
<1> QED BY <1>2, <1>3

\* A block of bytes, as the sequence that moved records, is a sequence of bytes.
LEMMA AsSeqType ==
  ASSUME NEW n \in Nat, NEW block \in Blocks(n)
  PROVE  AsSeq(block, n) \in Seq(Byte)
<1>1. \A k \in 1 .. n : block[k - 1] \in Byte
  BY DEF Blocks
<1> QED BY <1>1 DEF AsSeq

\* The zeroed globals of the voter are empty, well-formed rings.
LEMMA InitType == Init => TypeOK
<1>1. /\ Max \in Nat \ {0}
      /\ [i \in 0 .. Max - 1 |-> 0] \in [0 .. Max - 1 -> Byte]
  BY MaxAssumption, ByteAssumption DEF Max
<1>2. 0 \in 0 .. Max - 1
  BY <1>1
<1>3. [buff_index |-> 0, buff_count |-> 0, buffer |-> [i \in 0 .. Max - 1 |-> 0]] \in VotePipe
  BY <1>1, <1>2 DEF VotePipe
<1>4. <<>> \in Seq(Byte)
  OBVIOUS
<1> QED BY <1>3, <1>4 DEF Init, TypeOK

\* Every operation of vote_buff.c keeps the rings well formed: TypeOK is inductive.
LEMMA NextType == TypeOK /\ [Next]_vars => TypeOK'
<1> SUFFICES ASSUME TypeOK, [Next]_vars PROVE TypeOK'
  OBVIOUS
<1>0. Max \in Nat \ {0} /\ <<>> \in Seq(Byte)
  BY MaxAssumption DEF Max
<1>1. ASSUME NEW p \in Pipes, PipeToBuff(p) PROVE TypeOK'
  <2>1. PICK n \in 1 .. Max : \E block \in Blocks(n) :
          /\ vp' = [vp EXCEPT ![p] = pipeToBuff(vp[p], block, n).pipe]
          /\ moved' = AsSeq(block, n)
    BY <1>1 DEF PipeToBuff
  <2>2. PICK block \in Blocks(n) :
          /\ vp' = [vp EXCEPT ![p] = pipeToBuff(vp[p], block, n).pipe]
          /\ moved' = AsSeq(block, n)
    BY <2>1
  <2>3. vp[p] \in VotePipe /\ n \in Nat \ {0}
    BY <1>0 DEF TypeOK
  <2>4. pipeToBuff(vp[p], block, n).pipe \in VotePipe
    BY <2>3, StoreType DEF pipeToBuff
  <2>5. moved' \in Seq(Byte)
    BY <2>2, <2>3, AsSeqType
  <2> QED BY <2>2, <2>4, <2>5 DEF TypeOK
<1>2. ASSUME NEW p \in Pipes, NEW n \in 0 .. Max - 1, BuffToPipe(p, n) PROVE TypeOK'
  <2>1. vp[p] \in VotePipe /\ n \in 0 .. vp[p].buff_count /\ n \in Nat
    BY <1>0, <1>2 DEF TypeOK, VotePipe, BuffToPipe
  <2>2. fakeToPipe(vp[p], n) \in VotePipe
    BY <2>1, FakeToPipeType
  <2>3. AsSeq(copyBuffer(vp[p], n), n) \in Seq(Byte)
    BY <2>1, CopyBufferType, AsSeqType
  <2> QED BY <1>2, <2>2, <2>3 DEF TypeOK, BuffToPipe
<1>3. ASSUME NEW p \in Pipes, NEW n \in 0 .. Max - 1, FakeToPipe(p, n) PROVE TypeOK'
  <2>1. vp[p] \in VotePipe /\ n \in 0 .. vp[p].buff_count
    BY <1>0, <1>3 DEF TypeOK, VotePipe, FakeToPipe
  <2>2. fakeToPipe(vp[p], n) \in VotePipe
    BY <2>1, FakeToPipeType
  <2> QED BY <1>0, <1>3, <2>2 DEF TypeOK, FakeToPipe
<1>4. ASSUME NEW p \in Pipes, NEW src \in Pipes, CopyPipe(p, src) PROVE TypeOK'
  <2>1. copyPipe(vp[p], vp[src]) \in VotePipe
    BY CopyPipeType DEF TypeOK
  <2> QED BY <1>0, <1>4, <2>1 DEF TypeOK, CopyPipe
<1>5. ASSUME NEW p \in Pipes, ResetVotePipe(p) PROVE TypeOK'
  <2>0. vp[p] \in VotePipe /\ 0 \in 0 .. Max - 1
    BY <1>0 DEF TypeOK
  <2>1. resetVotePipe(vp[p]) \in VotePipe
    BY <2>0 DEF VotePipe, resetVotePipe
  <2> QED BY <1>0, <1>5, <2>1 DEF TypeOK, ResetVotePipe
<1>6. CASE UNCHANGED vars
  BY <1>6 DEF vars, TypeOK
<1> QED BY <1>1, <1>2, <1>3, <1>4, <1>5, <1>6 DEF Next

\* vote_buff.c never leaves its ring, whatever its size, in whatever order the
\* voter calls its functions: index and count stay below MAX_VOTE_PIPE_BUFF.
THEOREM RingTyped == Spec => []TypeOK
<1>1. Init => TypeOK
  BY InitType
<1>2. TypeOK /\ [Next]_vars => TypeOK'
  BY NextType
<1> QED BY <1>1, <1>2, PTL DEF Spec

\* Where the k-th oldest byte of a ring lies.
LEMMA ContentsAt ==
  ASSUME NEW v \in VotePipe, NEW k \in 1 .. v.buff_count
  PROVE  Contents(v)[k] = v.buffer[IF v.buff_index + (k - 1) < Max
                                   THEN v.buff_index + (k - 1)
                                   ELSE v.buff_index + (k - 1) - Max]
<1> DEFINE a == v.buff_index + (k - 1)
<1>1. a \in 0 .. 2 * Max - 1
  BY MaxAssumption DEF Max, VotePipe
<1> HIDE DEF a
<1>2. a % Max = IF a < Max THEN a ELSE a - Max
  BY <1>1, ModOnce
<1>3. Contents(v)[k] = v.buffer[a % Max]
  BY DEF Contents, a
<1>4. Contents(v)[k] = v.buffer[IF a < Max THEN a ELSE a - Max]
  BY <1>2, <1>3
<1>5. Max \in Int /\ v.buff_index \in Int /\ k \in Int
  BY MaxAssumption DEF Max, VotePipe
<1> QED BY <1>4, <1>5 DEF a

\* compareBuffs on two rings at one index compares the n oldest bytes.
LEMMA CompareByStream ==
  ASSUME NEW a \in VotePipe, NEW b \in VotePipe, a.buff_index = b.buff_index,
         NEW n \in Nat, n <= a.buff_count, n <= b.buff_count
  PROVE  compareBuffs(a, b, n)
           <=> \A k \in 1 .. n : Contents(a)[k] = Contents(b)[k]
<1> DEFINE x == a.buff_index
           at(k) == IF x + (k - 1) < Max THEN x + (k - 1) ELSE x + (k - 1) - Max
<1>1. /\ Max \in Nat \ {0} /\ x \in 0 .. Max - 1
      /\ a.buff_count \in 0 .. Max - 1 /\ b.buff_count \in 0 .. Max - 1
  BY MaxAssumption DEF Max, VotePipe
<1>2. \A k \in 1 .. n : Contents(a)[k] = a.buffer[at(k)] /\ Contents(b)[k] = b.buffer[at(k)]
  <2> TAKE k \in 1 .. n
  <2>1. k \in 1 .. a.buff_count /\ k \in 1 .. b.buff_count
    BY <1>1
  <2> QED BY <2>1, ContentsAt
<1> HIDE DEF x
<1>3. CASE x + n < Max
  <2>1. compareBuffs(a, b, n) <=> \A i \in x .. x + n - 1 : a.buffer[i] = b.buffer[i]
    BY <1>3 DEF compareBuffs, SameBytes, x
  <2>2. ASSUME \A i \in x .. x + n - 1 : a.buffer[i] = b.buffer[i], NEW k \in 1 .. n
        PROVE  a.buffer[at(k)] = b.buffer[at(k)]
    <3>1. at(k) \in x .. x + n - 1
      BY <1>1, <1>3
    <3> QED BY <2>2, <3>1
  <2>3. ASSUME \A k \in 1 .. n : a.buffer[at(k)] = b.buffer[at(k)], NEW i \in x .. x + n - 1
        PROVE  a.buffer[i] = b.buffer[i]
    <3>1. i - x + 1 \in 1 .. n /\ at(i - x + 1) = i
      BY <1>1, <1>3
    <3> QED BY <2>3, <3>1
  <2> QED BY <1>2, <2>1, <2>2, <2>3
<1>4. CASE ~(x + n < Max)
  <2>1. compareBuffs(a, b, n) <=>
          /\ \A i \in x .. x + (Max - x) - 1 : a.buffer[i] = b.buffer[i]
          /\ \A i \in 0 .. 0 + (n - (Max - x)) - 1 : a.buffer[i] = b.buffer[i]
    BY <1>4 DEF compareBuffs, SameBytes, x
  <2>2. ASSUME \A i \in x .. x + (Max - x) - 1 : a.buffer[i] = b.buffer[i],
               \A i \in 0 .. 0 + (n - (Max - x)) - 1 : a.buffer[i] = b.buffer[i],
               NEW k \in 1 .. n
        PROVE  a.buffer[at(k)] = b.buffer[at(k)]
    <3>1. \/ at(k) \in x .. x + (Max - x) - 1
          \/ at(k) \in 0 .. 0 + (n - (Max - x)) - 1
      BY <1>1, <1>4
    <3> QED BY <2>2, <3>1
  <2>3. ASSUME \A k \in 1 .. n : a.buffer[at(k)] = b.buffer[at(k)],
               NEW i \in x .. x + (Max - x) - 1
        PROVE  a.buffer[i] = b.buffer[i]
    <3>1. i - x + 1 \in 1 .. n /\ at(i - x + 1) = i
      BY <1>1, <1>4
    <3> QED BY <2>3, <3>1
  <2>4. ASSUME \A k \in 1 .. n : a.buffer[at(k)] = b.buffer[at(k)],
               NEW i \in 0 .. 0 + (n - (Max - x)) - 1
        PROVE  a.buffer[i] = b.buffer[i]
    <3>1. i + (Max - x) + 1 \in 1 .. n /\ at(i + (Max - x) + 1) = i
      BY <1>1, <1>4
    <3> QED BY <2>4, <3>1
  <2> QED BY <1>2, <2>1, <2>2, <2>3, <2>4
<1> QED BY <1>3, <1>4

\* The vote compares what the replicas wrote, whatever their place in the ring:
\* compareBuffs says "agree" exactly when the next n bytes of both streams agree.
THEOREM VoteComparesStreams == Spec => []CompareIsByStream
<1>1. TypeOK => CompareIsByStream
  <2> SUFFICES ASSUME TypeOK, NEW p \in Pipes, NEW q \in Pipes, NEW n \in 0 .. Max - 1,
                      vp[p].buff_index = vp[q].buff_index,
                      n <= vp[p].buff_count, n <= vp[q].buff_count
               PROVE  compareBuffs(vp[p], vp[q], n) <=>
                        SubSeq(Contents(vp[p]), 1, n) = SubSeq(Contents(vp[q]), 1, n)
    BY DEF CompareIsByStream
  <2>1. /\ Max \in Nat \ {0} /\ n \in Nat
        /\ vp[p] \in VotePipe /\ vp[q] \in VotePipe
        /\ vp[p].buff_count \in Nat /\ vp[q].buff_count \in Nat
    BY MaxAssumption DEF Max, TypeOK, VotePipe
  <2>2. compareBuffs(vp[p], vp[q], n)
          <=> \A k \in 1 .. n : Contents(vp[p])[k] = Contents(vp[q])[k]
    BY <2>1, CompareByStream
  <2>3. \A r \in {p, q} :
          SubSeq(Contents(vp[r]), 1, n) = [k \in 1 .. n |-> Contents(vp[r])[k]]
    BY <2>1 DEF Contents
  <2> QED BY <2>2, <2>3
<1> QED BY <1>1, RingTyped, PTL

----------------------------------------------------------------------------
(* The ring is a queue: every operation of vote_buff.c maps to a step of   *)
(* ByteQueue, or to a stutter.                                             *)

\* The bytes a ring holds are a sequence as long as its count.
LEMMA ContentsType ==
  ASSUME NEW v \in VotePipe
  PROVE  /\ Contents(v) \in Seq(Byte)
         /\ Len(Contents(v)) = v.buff_count
         /\ DOMAIN Contents(v) = 1 .. v.buff_count
<1>1. /\ Max \in Nat \ {0}
      /\ v.buff_index \in 0 .. Max - 1 /\ v.buff_count \in Nat
      /\ v.buffer \in [0 .. Max - 1 -> Byte]
  BY MaxAssumption DEF Max, VotePipe
<1>2. \A k \in 1 .. v.buff_count : v.buffer[(v.buff_index + (k - 1)) % Max] \in Byte
  <2> TAKE k \in 1 .. v.buff_count
  <2>1. v.buff_index + (k - 1) \in Nat
    BY <1>1
  <2> QED BY <1>1, <2>1, ModInRing
<1>3. Contents(v) \in [1 .. v.buff_count -> Byte]
  BY <1>2 DEF Contents
<1> QED BY <1>1, <1>3

\* Dropping n bytes drops the n oldest.
LEMMA FakeToPipeDrops ==
  ASSUME NEW v \in VotePipe, NEW n \in 0 .. v.buff_count
  PROVE  Contents(fakeToPipe(v, n)) = SubSeq(Contents(v), n + 1, Len(Contents(v)))
<1> DEFINE w == fakeToPipe(v, n)
<1>1. /\ Max \in Nat \ {0}
      /\ v.buff_index \in 0 .. Max - 1 /\ v.buff_count \in 0 .. Max - 1
      /\ n \in Nat
  BY MaxAssumption DEF Max, VotePipe
<1>2. /\ w \in VotePipe
      /\ w.buffer = v.buffer /\ w.buff_count = v.buff_count - n
      /\ w.buff_index = (v.buff_index + n) % Max
  BY FakeToPipeType DEF fakeToPipe, VotePipe
<1>0. w.buff_index \in 0 .. Max - 1 /\ w.buff_count \in Nat
  BY <1>1, <1>2 DEF VotePipe
<1>3. w.buff_index = IF v.buff_index + n < Max THEN v.buff_index + n
                                               ELSE v.buff_index + n - Max
  <2> DEFINE a == v.buff_index + n
  <2>1. a \in 0 .. 2 * Max - 1
    BY <1>1
  <2> HIDE DEF a
  <2>2. a % Max = IF a < Max THEN a ELSE a - Max
    BY <2>1, ModOnce
  <2>3. w.buff_index = a % Max
    BY <1>2 DEF a
  <2>4. w.buff_index = IF a < Max THEN a ELSE a - Max
    BY <2>2, <2>3
  <2> QED BY <1>1, <2>4 DEF a
<1> HIDE DEF w
<1>4. ASSUME NEW k \in 1 .. w.buff_count
      PROVE  Contents(w)[k] = Contents(v)[n + k]
  <2>1. n + k \in 1 .. v.buff_count
    BY <1>1, <1>2
  <2>2. Contents(v)[n + k] = v.buffer[IF v.buff_index + (n + k - 1) < Max
                                      THEN v.buff_index + (n + k - 1)
                                      ELSE v.buff_index + (n + k - 1) - Max]
    BY <2>1, ContentsAt
  <2>3. Contents(w)[k] = v.buffer[IF w.buff_index + (k - 1) < Max
                                  THEN w.buff_index + (k - 1)
                                  ELSE w.buff_index + (k - 1) - Max]
    BY <1>2, ContentsAt
  <2>4. (IF w.buff_index + (k - 1) < Max
         THEN w.buff_index + (k - 1) ELSE w.buff_index + (k - 1) - Max)
        = (IF v.buff_index + (n + k - 1) < Max
           THEN v.buff_index + (n + k - 1) ELSE v.buff_index + (n + k - 1) - Max)
    BY <1>0, <1>1, <1>3, <2>1
  <2> QED BY <2>2, <2>3, <2>4
<1>5. /\ Contents(v) \in Seq(Byte) /\ Len(Contents(v)) = v.buff_count
      /\ Contents(w) \in Seq(Byte) /\ Len(Contents(w)) = w.buff_count
  BY <1>2, ContentsType
<1>6. /\ SubSeq(Contents(v), n + 1, v.buff_count) \in Seq(Byte)
      /\ Len(SubSeq(Contents(v), n + 1, v.buff_count)) = w.buff_count
      /\ \A k \in 1 .. w.buff_count :
            SubSeq(Contents(v), n + 1, v.buff_count)[k] = Contents(v)[n + k]
  BY <1>1, <1>2, <1>5
<1>7. Contents(w) = SubSeq(Contents(v), n + 1, v.buff_count)
  BY <1>4, <1>5, <1>6, SeqEqual
<1> QED BY <1>5, <1>7 DEF w

\* What buffToPipe writes are the n oldest bytes.
LEMMA CopyBufferTakes ==
  ASSUME NEW v \in VotePipe, NEW n \in 0 .. v.buff_count
  PROVE  AsSeq(copyBuffer(v, n), n) = SubSeq(Contents(v), 1, n)
<1> DEFINE idx == v.buff_index
           buf == v.buffer
           part_write == Max - idx
           zero == [i \in 0 .. n - 1 |-> 0]
<1>1. /\ Max \in Nat \ {0}
      /\ idx \in 0 .. Max - 1 /\ v.buff_count \in 0 .. Max - 1
      /\ n \in 0 .. Max - 1 /\ n \in Nat
  BY MaxAssumption DEF Max, VotePipe
<1>2. ASSUME NEW k \in 1 .. n
      PROVE  copyBuffer(v, n)[k - 1] = Contents(v)[k]
  <2>1. k \in 1 .. v.buff_count /\ k - 1 \in 0 .. n - 1
    BY <1>1
  <2>2. Contents(v)[k] = buf[IF idx + (k - 1) < Max THEN idx + (k - 1)
                                                     ELSE idx + (k - 1) - Max]
    BY <2>1, ContentsAt
  <2>3. DOMAIN zero = 0 .. n - 1
    OBVIOUS
  <2>4. copyBuffer(v, n) = IF idx + n < Max
          THEN Memcpy(zero, 0, buf, idx, n)
          ELSE Memcpy(Memcpy(zero, 0, buf, idx, part_write), part_write, buf, 0, n - part_write)
    BY DEF copyBuffer
  <2> HIDE DEF idx, buf, zero
  <2>5. CASE idx + n < Max
    <3>1. Memcpy(zero, 0, buf, idx, n)[k - 1] = buf[idx + ((k - 1) - 0)]
      BY <1>1, <2>1, <2>3 DEF Memcpy
    <3>2. idx + ((k - 1) - 0) = idx + (k - 1) /\ idx + (k - 1) < Max
      BY <1>1, <2>1, <2>5
    <3> QED BY <2>2, <2>4, <2>5, <3>1, <3>2
  <2>6. CASE ~(idx + n < Max)
    <3> DEFINE one == Memcpy(zero, 0, buf, idx, part_write)
               both == Memcpy(one, part_write, buf, 0, n - part_write)
    <3>1. DOMAIN one = 0 .. n - 1
      BY <2>3 DEF Memcpy
    <3>2. one[k - 1] = IF k - 1 < part_write THEN buf[idx + ((k - 1) - 0)] ELSE zero[k - 1]
      BY <1>1, <2>1, <2>3 DEF Memcpy
    <3>3. both[k - 1] = IF part_write <= k - 1 THEN buf[0 + ((k - 1) - part_write)] ELSE one[k - 1]
      <4>1. part_write + (n - part_write) = n
        BY <1>1
      <4> HIDE DEF one
      <4> QED BY <1>1, <2>1, <3>1, <4>1 DEF Memcpy
    <3>4. copyBuffer(v, n)[k - 1] = both[k - 1]
      BY <2>4, <2>6
    <3> HIDE DEF one, both
    <3>5. CASE k - 1 < part_write
      <4>1. idx + ((k - 1) - 0) = idx + (k - 1) /\ idx + (k - 1) < Max /\ ~(part_write <= k - 1)
        BY <1>1, <2>1, <3>5
      <4> QED BY <2>2, <3>2, <3>3, <3>4, <3>5, <4>1
    <3>6. CASE part_write <= k - 1
      <4>1. 0 + ((k - 1) - part_write) = idx + (k - 1) - Max /\ ~(idx + (k - 1) < Max)
        BY <1>1, <2>1, <3>6
      <4> QED BY <2>2, <3>3, <3>4, <3>6, <4>1
    <3> QED BY <1>1, <2>1, <3>5, <3>6
  <2> QED BY <2>5, <2>6
<1>3. Contents(v) \in Seq(Byte) /\ Len(Contents(v)) = v.buff_count
  BY ContentsType
<1>4. SubSeq(Contents(v), 1, n) = [k \in 1 .. n |-> Contents(v)[k]]
  BY <1>1, <1>3
<1> QED BY <1>2, <1>4 DEF AsSeq

\* memcpy, byte by byte.
LEMMA MemcpyAt ==
  ASSUME NEW dst, NEW src, NEW d \in Int, NEW s \in Int, NEW m \in Int,
         NEW i \in DOMAIN dst
  PROVE  /\ DOMAIN Memcpy(dst, d, src, s, m) = DOMAIN dst
         /\ d <= i /\ i < d + m => Memcpy(dst, d, src, s, m)[i] = src[s + (i - d)]
         /\ ~(d <= i /\ i < d + m) => Memcpy(dst, d, src, s, m)[i] = dst[i]
BY DEF Memcpy

\* pipeToBuff stores the block behind the bytes already there: it leaves those as
\* they are, and the two parts of the block lie where the reader looks for them.
LEMMA StoreAppends ==
  ASSUME NEW v \in VotePipe, NEW n \in Nat \ {0}, NEW block \in Blocks(n), Fits(v, n)
  PROVE  Contents(Store(v, block, n)) = Contents(v) \o AsSeq(block, n)
<1> DEFINE w == Store(v, block, n)
           idx == v.buff_index
           c == v.buff_count
           buf == v.buffer
           end_index == EndIndex(v)
           wrapped   == (end_index + n) % Max
           part_read == n - wrapped
           at(k) == IF idx + (k - 1) < Max THEN idx + (k - 1) ELSE idx + (k - 1) - Max
<1>1. /\ Max \in Nat \ {0}
      /\ idx \in 0 .. Max - 1 /\ c \in 0 .. Max - 1
      /\ buf \in [0 .. Max - 1 -> Byte]
      /\ c + n \in 0 .. Max - 1 /\ n \in 1 .. Max - 1
  BY MaxAssumption DEF Max, VotePipe, Fits
<1>2. /\ w \in VotePipe /\ w.buff_index = idx /\ w.buff_count = c + n
      /\ w.buffer = IF end_index > wrapped
                    THEN Memcpy(Memcpy(buf, end_index, block, 0, part_read),
                                0, block, part_read, n - part_read)
                    ELSE Memcpy(buf, end_index, block, 0, n)
  BY StoreType DEF Store, VotePipe
<1> HIDE DEF w
<1>3. end_index = IF idx + c < Max THEN idx + c ELSE idx + c - Max
  <2> DEFINE a == idx + c
  <2>1. a \in 0 .. 2 * Max - 1
    BY <1>1
  <2>0. end_index = a % Max
    BY DEF EndIndex
  <2> HIDE DEF a, end_index, idx, c
  <2>2. end_index = IF a < Max THEN a ELSE a - Max
    BY <2>0, <2>1, ModOnce
  <2> QED BY <1>1, <2>2 DEF a
<1> HIDE DEF end_index, idx, c, buf
<1>4. end_index \in 0 .. Max - 1
  BY <1>1, <1>3
<1>5. wrapped = IF end_index + n < Max THEN end_index + n ELSE end_index + n - Max
  <2> DEFINE a == end_index + n
  <2>1. a \in 0 .. 2 * Max - 1
    BY <1>1, <1>4
  <2>0. wrapped = a % Max
    OBVIOUS
  <2> HIDE DEF a, wrapped
  <2>2. wrapped = IF a < Max THEN a ELSE a - Max
    BY <2>0, <2>1, ModOnce
  <2> QED BY <1>1, <1>4, <2>2 DEF a
<1> HIDE DEF wrapped
<1>6. \A i \in 0 .. Max - 1 :
        w.buffer[i] = IF end_index <= i /\ i < end_index + n THEN block[i - end_index]
                      ELSE IF end_index + n > Max /\ i < end_index + n - Max
                           THEN block[Max - end_index + i]
                           ELSE buf[i]
  <2> TAKE i \in 0 .. Max - 1
  <2>1. CASE end_index > wrapped
    <3> DEFINE one == Memcpy(buf, end_index, block, 0, part_read)
               both == Memcpy(one, 0, block, part_read, n - part_read)
    <3>1. /\ end_index + n >= Max /\ wrapped = end_index + n - Max
          /\ part_read = Max - end_index /\ n - part_read = end_index + n - Max
          /\ part_read \in Int /\ n - part_read \in Int /\ wrapped \in Int
      BY <1>1, <1>4, <1>5, <2>1
    <3>2. i \in DOMAIN buf /\ DOMAIN one = DOMAIN buf
      BY <1>1 DEF Memcpy
    <3>3. /\ end_index <= i /\ i < end_index + part_read => one[i] = block[0 + (i - end_index)]
          /\ ~(end_index <= i /\ i < end_index + part_read) => one[i] = buf[i]
      BY <1>4, <3>1, <3>2, MemcpyAt
    <3> HIDE DEF one, part_read
    <3>4. /\ 0 <= i /\ i < 0 + (n - part_read) => both[i] = block[part_read + (i - 0)]
          /\ ~(0 <= i /\ i < 0 + (n - part_read)) => both[i] = one[i]
      <4> DEFINE m == n - part_read
      <4>1. m \in Int /\ part_read \in Int /\ 0 \in Int /\ i \in DOMAIN one
        BY <3>1, <3>2
      <4> HIDE DEF m
      <4>2. /\ 0 <= i /\ i < 0 + m => Memcpy(one, 0, block, part_read, m)[i] = block[part_read + (i - 0)]
            /\ ~(0 <= i /\ i < 0 + m) => Memcpy(one, 0, block, part_read, m)[i] = one[i]
        BY <4>1, MemcpyAt
      <4> QED BY <4>2 DEF m
    <3>5. w.buffer = both
      BY <1>2, <2>1 DEF one, part_read
    <3> HIDE DEF both
    <3>6. CASE end_index <= i
      <4>1. /\ i < end_index + part_read /\ i < end_index + n
            /\ ~(i < 0 + (n - part_read)) /\ 0 + (i - end_index) = i - end_index
        BY <1>1, <1>4, <3>1, <3>6
      <4> QED BY <3>3, <3>4, <3>5, <3>6, <4>1
    <3>7. CASE ~(end_index <= i) /\ i < end_index + n - Max
      <4>1. /\ end_index + n > Max /\ 0 <= i /\ i < 0 + (n - part_read)
            /\ part_read + (i - 0) = Max - end_index + i
        BY <1>1, <1>4, <3>1, <3>7
      <4> QED BY <3>4, <3>5, <3>7, <4>1
    <3>8. CASE ~(end_index <= i) /\ ~(i < end_index + n - Max)
      <4>1. ~(i < 0 + (n - part_read))
        BY <1>1, <1>4, <3>1, <3>8
      <4> QED BY <3>3, <3>4, <3>5, <3>8, <4>1
    <3> QED BY <3>6, <3>7, <3>8
  <2>2. CASE ~(end_index > wrapped)
    <3>1. end_index + n < Max
      BY <1>1, <1>4, <1>5, <2>2
    <3>2. i \in DOMAIN buf /\ n \in Int /\ end_index \in Int
      BY <1>1, <1>4
    <3>3. /\ end_index <= i /\ i < end_index + n => w.buffer[i] = block[0 + (i - end_index)]
          /\ ~(end_index <= i /\ i < end_index + n) => w.buffer[i] = buf[i]
      BY <1>2, <2>2, <3>2, MemcpyAt
    <3>4. ~(end_index + n > Max) /\ 0 + (i - end_index) = i - end_index
      BY <1>1, <1>4, <3>1
    <3> QED BY <3>3, <3>4
  <2> QED BY <2>1, <2>2
<1>7. ASSUME NEW k \in 1 .. c
      PROVE  Contents(w)[k] = Contents(v)[k]
  <2>1. k \in 1 .. w.buff_count
    BY <1>1, <1>2
  <2>2. Contents(w)[k] = w.buffer[at(k)]
    BY <1>2, <2>1, ContentsAt
  <2>3. Contents(v)[k] = buf[at(k)]
    BY ContentsAt DEF idx, c, buf
  <2>4. /\ at(k) \in 0 .. Max - 1
        /\ ~(end_index <= at(k) /\ at(k) < end_index + n)
        /\ ~(end_index + n > Max /\ at(k) < end_index + n - Max)
    BY <1>1, <1>3
  <2> QED BY <1>6, <2>2, <2>3, <2>4
<1>8. ASSUME NEW k \in 1 .. n
      PROVE  Contents(w)[c + k] = block[k - 1]
  <2>1. c + k \in 1 .. w.buff_count
    BY <1>1, <1>2
  <2>2. Contents(w)[c + k] = w.buffer[at(c + k)]
    BY <1>2, <2>1, ContentsAt
  <2>3. /\ at(c + k) \in 0 .. Max - 1
        /\ \/ /\ end_index <= at(c + k) /\ at(c + k) < end_index + n
              /\ at(c + k) - end_index = k - 1
           \/ /\ ~(end_index <= at(c + k))
              /\ end_index + n > Max /\ at(c + k) < end_index + n - Max
              /\ Max - end_index + at(c + k) = k - 1
    BY <1>1, <1>3
  <2> QED BY <1>6, <2>2, <2>3
<1>9. /\ Contents(v) \in Seq(Byte) /\ Len(Contents(v)) = c
      /\ Contents(w) \in Seq(Byte) /\ Len(Contents(w)) = c + n
  BY <1>2, ContentsType DEF c
<1>10. /\ AsSeq(block, n) \in Seq(Byte) /\ Len(AsSeq(block, n)) = n
       /\ \A k \in 1 .. n : AsSeq(block, n)[k] = block[k - 1]
  BY AsSeqType DEF AsSeq
<1>11. /\ Contents(v) \o AsSeq(block, n) \in Seq(Byte)
       /\ Len(Contents(v) \o AsSeq(block, n)) = c + n
       /\ \A i \in 1 .. c + n : (Contents(v) \o AsSeq(block, n))[i] =
             IF i <= c THEN Contents(v)[i] ELSE AsSeq(block, n)[i - c]
  BY <1>9, <1>10, ConcatProperties
<1>12. ASSUME NEW i \in 1 .. c + n
       PROVE  Contents(w)[i] = (Contents(v) \o AsSeq(block, n))[i]
  <2>1. CASE i <= c
    <3>1. i \in 1 .. c
      BY <1>1, <2>1
    <3> QED BY <1>7, <1>11, <2>1, <3>1
  <2>2. CASE ~(i <= c)
    <3>1. i - c \in 1 .. n /\ c + (i - c) = i
      BY <1>1, <2>2
    <3>2. Contents(w)[c + (i - c)] = block[(i - c) - 1]
      BY <1>8, <3>1
    <3>3. Contents(w)[i] = AsSeq(block, n)[i - c]
      BY <1>10, <3>1, <3>2
    <3> QED BY <1>11, <2>2, <3>3
  <2> QED BY <2>1, <2>2
<1>13. Contents(w) = Contents(v) \o AsSeq(block, n)
  BY <1>9, <1>11, <1>12, SeqEqual
<1> QED BY <1>13 DEF w

\* copyPipe copies the live bytes, whatever else is in the two rings.
LEMMA CopyPipeCopies ==
  ASSUME NEW dest \in VotePipe, NEW src \in VotePipe
  PROVE  Contents(copyPipe(dest, src)) = Contents(src)
<1> DEFINE w == copyPipe(dest, src)
           s == src.buff_index
           c == src.buff_count
           from == src.buffer
           to == dest.buffer
           part_cpy == Max - s
           at(k) == IF s + (k - 1) < Max THEN s + (k - 1) ELSE s + (k - 1) - Max
<1>1. /\ Max \in Nat \ {0}
      /\ s \in 0 .. Max - 1 /\ c \in 0 .. Max - 1
      /\ to \in [0 .. Max - 1 -> Byte]
  BY MaxAssumption DEF Max, VotePipe
<1>2. /\ w \in VotePipe /\ w.buff_index = s /\ w.buff_count = c
      /\ w.buffer = IF s + c < Max
                    THEN Memcpy(to, s, from, s, c)
                    ELSE Memcpy(Memcpy(to, s, from, s, part_cpy), 0, from, 0, c - part_cpy)
  BY CopyPipeType DEF copyPipe
<1> HIDE DEF w
<1>3. ASSUME NEW k \in 1 .. c
      PROVE  Contents(w)[k] = Contents(src)[k]
  <2>1. Contents(w)[k] = w.buffer[at(k)] /\ Contents(src)[k] = from[at(k)]
    BY <1>2, ContentsAt
  <2> HIDE DEF s, c, from, to
  <2>2. at(k) \in 0 .. Max - 1 /\ at(k) \in DOMAIN to
    BY <1>1
  <2>3. CASE s + c < Max
    <3>1. s <= at(k) /\ at(k) < s + c /\ s + (at(k) - s) = at(k) /\ s \in Int /\ c \in Int
      BY <1>1, <2>3
    <3> HIDE DEF at
    <3>2. Memcpy(to, s, from, s, c)[at(k)] = from[s + (at(k) - s)]
      BY <2>2, <3>1, MemcpyAt
    <3> QED BY <1>2, <2>1, <2>3, <3>1, <3>2
  <2>4. CASE ~(s + c < Max)
    <3> DEFINE one == Memcpy(to, s, from, s, part_cpy)
               m == c - part_cpy
               both == Memcpy(one, 0, from, 0, m)
    <3>0. w.buffer = both
      BY <1>2, <2>4
    <3>1. /\ s \in Int /\ part_cpy \in Int /\ m \in Int /\ 0 \in Int
          /\ \/ s <= at(k) /\ at(k) < s + part_cpy
             \/ 0 <= at(k) /\ at(k) < 0 + m
          /\ s + (at(k) - s) = at(k) /\ 0 + (at(k) - 0) = at(k)
      BY <1>1, <2>4
    <3> HIDE DEF at, part_cpy, m
    <3>2. /\ DOMAIN one = DOMAIN to
          /\ s <= at(k) /\ at(k) < s + part_cpy => one[at(k)] = from[s + (at(k) - s)]
      BY <2>2, <3>1, MemcpyAt
    <3> HIDE DEF one
    <3>3. at(k) \in DOMAIN one
      BY <2>2, <3>2
    <3>4. /\ 0 <= at(k) /\ at(k) < 0 + m => both[at(k)] = from[0 + (at(k) - 0)]
          /\ ~(0 <= at(k) /\ at(k) < 0 + m) => both[at(k)] = one[at(k)]
      BY <3>1, <3>3, MemcpyAt
    <3> QED BY <2>1, <3>0, <3>1, <3>2, <3>4
  <2> QED BY <2>3, <2>4
<1>4. /\ Contents(w) \in Seq(Byte) /\ Len(Contents(w)) = c
      /\ Contents(src) \in Seq(Byte) /\ Len(Contents(src)) = c
  BY <1>2, ContentsType
<1>5. Contents(w) = Contents(src)
  BY <1>3, <1>4, SeqEqual
<1> QED BY <1>5 DEF w

\* A block of at most m bytes is one of the strings of ByteQueue.
LEMMA AsSeqString ==
  ASSUME NEW m \in Nat, NEW n \in 0 .. m, NEW block \in Blocks(n)
  PROVE  /\ AsSeq(block, n) \in Queues!Strings(m)
         /\ Len(AsSeq(block, n)) = n
<1>1. \A k \in 1 .. n : block[k - 1] \in Byte
  BY DEF Blocks
<1>2. AsSeq(block, n) \in [1 .. n -> Byte] /\ n \in Nat
  BY <1>1 DEF AsSeq
<1> QED BY <1>2 DEF Queues!Strings

\* An empty ring is an empty queue.
LEMMA EmptyContents ==
  ASSUME NEW v \in VotePipe, v.buff_count = 0
  PROVE  Contents(v) = <<>>
<1>1. Contents(v) \in Seq(Byte) /\ Len(Contents(v)) = 0
  BY ContentsType
<1> QED BY <1>1

\* Every call of vote_buff.c is the corresponding operation of a queue.
LEMMA StepIsQueueStep ==
  ASSUME TypeOK, [Next]_vars
  PROVE  [Queues!Next]_<<[p \in Pipes |-> Contents(vp[p])], moved>>
<1> DEFINE queue == [p \in Pipes |-> Contents(vp[p])]
           next  == [p \in Pipes |-> Contents(vp'[p])]
           Room  == Max - 1
<1>0. /\ Max \in Nat \ {0} /\ Room \in Nat
      /\ vp \in [Pipes -> VotePipe] /\ vp' \in [Pipes -> VotePipe]
  <2>1. TypeOK'
    BY NextType
  <2> QED BY <2>1, MaxAssumption DEF Max, TypeOK
<1>a. queue' = next
  BY DEF Contents
<1>b. ASSUME NEW p \in Pipes, NEW w, vp' = [vp EXCEPT ![p] = w]
        PROVE  next = [queue EXCEPT ![p] = Contents(w)]
  BY <1>0, <1>b
<1> HIDE DEF next
<1>1. ASSUME NEW p \in Pipes, PipeToBuff(p)
      PROVE  Queues!Put(p) \/ Queues!Lose(p)
  <2>1. PICK n \in 1 .. Max : \E block \in Blocks(n) :
          /\ vp' = [vp EXCEPT ![p] = pipeToBuff(vp[p], block, n).pipe]
          /\ moved' = AsSeq(block, n)
    BY <1>1 DEF PipeToBuff
  <2>2. PICK block \in Blocks(n) :
          /\ vp' = [vp EXCEPT ![p] = pipeToBuff(vp[p], block, n).pipe]
          /\ moved' = AsSeq(block, n)
    BY <2>1
  <2>3. /\ vp[p] \in VotePipe /\ n \in Nat \ {0}
        /\ vp[p].buff_count \in 0 .. Max - 1
        /\ Len(queue[p]) = vp[p].buff_count
    BY <1>0, ContentsType DEF VotePipe
  <2>4. CASE Fits(vp[p], n)
    <3>1. vp' = [vp EXCEPT ![p] = Store(vp[p], block, n)]
      BY <2>2, <2>4 DEF pipeToBuff
    <3>2. Contents(Store(vp[p], block, n)) = queue[p] \o moved'
      BY <2>2, <2>3, <2>4, StoreAppends
    <3>3. next = [queue EXCEPT ![p] = queue[p] \o moved']
      BY <1>b, <3>1, <3>2
    <3>4. Room - Len(queue[p]) \in Nat /\ n \in 0 .. Room - Len(queue[p])
      BY <1>0, <2>3, <2>4 DEF Fits
    <3>5. moved' \in Queues!Strings(Room - Len(queue[p]))
      BY <2>2, <3>4, AsSeqString
    <3> QED BY <1>a, <3>3, <3>5 DEF Queues!Put
  <2>5. CASE ~Fits(vp[p], n)
    <3>1. vp' = vp
      BY <1>0, <2>2, <2>5 DEF pipeToBuff
    <3>2. Room + 1 \in Nat /\ n \in 0 .. Room + 1 /\ n > Room - Len(queue[p])
      BY <1>0, <2>3, <2>5 DEF Fits
    <3>3. moved' \in Queues!Strings(Room + 1) /\ Len(moved') = n
      BY <2>2, <3>2, AsSeqString
    <3>4. next = queue
      BY <3>1 DEF next
    <3> QED BY <1>a, <3>2, <3>3, <3>4 DEF Queues!Lose
  <2> QED BY <2>4, <2>5
<1>2. ASSUME NEW p \in Pipes, NEW n \in 0 .. Max - 1, BuffToPipe(p, n)
      PROVE  Queues!Take(p, n)
  <2>1. vp[p] \in VotePipe /\ n \in 0 .. vp[p].buff_count /\ Len(queue[p]) = vp[p].buff_count
    BY <1>0, <1>2, ContentsType DEF VotePipe, BuffToPipe
  <2>2. Contents(fakeToPipe(vp[p], n)) = SubSeq(queue[p], n + 1, Len(queue[p]))
    BY <2>1, FakeToPipeDrops
  <2>3. next = [queue EXCEPT ![p] = SubSeq(queue[p], n + 1, Len(queue[p]))]
    BY <1>b, <1>2, <2>2 DEF BuffToPipe
  <2>4. moved' = SubSeq(queue[p], 1, n)
    BY <1>2, <2>1, CopyBufferTakes DEF BuffToPipe
  <2>5. n <= Len(queue[p])
    BY <2>1
  <2> QED BY <1>a, <2>3, <2>4, <2>5 DEF Queues!Take
<1>3. ASSUME NEW p \in Pipes, NEW n \in 0 .. Max - 1, FakeToPipe(p, n)
      PROVE  Queues!Drop(p, n)
  <2>1. vp[p] \in VotePipe /\ n \in 0 .. vp[p].buff_count /\ Len(queue[p]) = vp[p].buff_count
    BY <1>0, <1>3, ContentsType DEF VotePipe, FakeToPipe
  <2>2. Contents(fakeToPipe(vp[p], n)) = SubSeq(queue[p], n + 1, Len(queue[p]))
    BY <2>1, FakeToPipeDrops
  <2>3. next = [queue EXCEPT ![p] = SubSeq(queue[p], n + 1, Len(queue[p]))]
    BY <1>b, <1>3, <2>2 DEF FakeToPipe
  <2>4. moved' = <<>> /\ n <= Len(queue[p])
    BY <1>3, <2>1 DEF FakeToPipe
  <2> QED BY <1>a, <2>3, <2>4 DEF Queues!Drop
<1>4. ASSUME NEW p \in Pipes, NEW src \in Pipes, CopyPipe(p, src)
      PROVE  Queues!Copy(p, src)
  <2>1. Contents(copyPipe(vp[p], vp[src])) = queue[src]
    BY <1>0, CopyPipeCopies
  <2>2. next = [queue EXCEPT ![p] = queue[src]]
    BY <1>b, <1>4, <2>1 DEF CopyPipe
  <2> QED BY <1>a, <1>4, <2>2 DEF Queues!Copy, CopyPipe
<1>5. ASSUME NEW p \in Pipes, ResetVotePipe(p)
      PROVE  Queues!Reset(p)
  <2>1. vp'[p] = resetVotePipe(vp[p]) /\ vp'[p] \in VotePipe /\ vp[p] \in VotePipe
    BY <1>0, <1>5 DEF ResetVotePipe
  <2>2. resetVotePipe(vp[p]).buff_count = 0
    BY <2>1 DEF resetVotePipe, VotePipe
  <2>3. Contents(resetVotePipe(vp[p])) = <<>>
    BY <2>1, <2>2, EmptyContents
  <2>4. next = [queue EXCEPT ![p] = <<>>]
    BY <1>b, <1>5, <2>3 DEF ResetVotePipe
  <2> QED BY <1>a, <1>5, <2>4 DEF Queues!Reset, ResetVotePipe
<1>6. ASSUME UNCHANGED vars PROVE UNCHANGED <<queue, moved>>
  <2>1. next = queue
    BY <1>6 DEF vars, next
  <2> QED BY <1>a, <1>6, <2>1 DEF vars
<1>7. CASE UNCHANGED vars
  BY <1>6, <1>7
<1>8. ASSUME NEW p \in Pipes,
             \/ PipeToBuff(p)
             \/ \E n \in 0 .. Max - 1 : BuffToPipe(p, n)
             \/ \E n \in 0 .. Max - 1 : FakeToPipe(p, n)
             \/ \E src \in Pipes : CopyPipe(p, src)
             \/ ResetVotePipe(p)
      PROVE  Queues!Next
  BY <1>1, <1>2, <1>3, <1>4, <1>5, <1>8 DEF Queues!Next
<1> QED BY <1>7, <1>8 DEF Next

\* vote_buff.c is a set of bounded first-in first-out queues, whatever the size of
\* the ring: a byte is never lost, doubled or moved by wrapping, and only a block
\* that does not fit is lost, as a whole.
THEOREM RingsAreQueues == Spec => ImplementsQueues
<1>1. Init => Queues!Init
  <2> SUFFICES ASSUME Init PROVE Queues!Init
    OBVIOUS
  <2>1. \A p \in Pipes : vp[p] \in VotePipe /\ vp[p].buff_count = 0
    BY InitType DEF Init, TypeOK
  <2>2. \A p \in Pipes : Contents(vp[p]) = <<>>
    BY <2>1, EmptyContents
  <2> QED BY <2>2 DEF Queues!Init, Init
<1>2. TypeOK /\ [Next]_vars => [Queues!Next]_<<[p \in Pipes |-> Contents(vp[p])], moved>>
  BY StepIsQueueStep
<1> QED BY <1>1, <1>2, RingTyped, PTL DEF Spec, ImplementsQueues, Queues!Spec

=============================================================================
