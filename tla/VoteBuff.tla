------------------------------ MODULE VoteBuff ------------------------------
(***************************************************************************)
(* The vote buffer of voter/vote_buff.c: a ring of MAX_VOTE_PIPE_BUFF      *)
(* bytes per pipe that holds what a replica has written and the voter has  *)
(* not yet voted on.  The ring arithmetic is kept as it is in the code     *)
(* (the two-part memcpy, the strict comparisons); a byte is an abstract    *)
(* value.  The kernel pipe in front of the buffer appears only through the *)
(* block of bytes one read() returns.                                      *)
(***************************************************************************)
EXTENDS Integers, Sequences

CONSTANTS MAX_VOTE_PIPE_BUFF,  \* size of the ring, in bytes
          Pipes,               \* the vote pipes, one per replica
          Byte                 \* the values of a byte

Max == MAX_VOTE_PIPE_BUFF

ASSUME MaxAssumption == MAX_VOTE_PIPE_BUFF \in Nat \ {0}
ASSUME ByteAssumption == 0 \in Byte

VARIABLES vp,      \* vp[p]: struct vote_pipe of pipe p, without its fds
          moved    \* the bytes the last call read from, or moved to, a kernel pipe

vars == <<vp, moved>>

VotePipe == [buff_index : 0 .. Max - 1,
             buff_count : 0 .. Max - 1,
             buffer     : [0 .. Max - 1 -> Byte]]

\* A block of n bytes read from a kernel pipe, or built in temp_buffer.
Blocks(n) == [0 .. n - 1 -> Byte]
AsSeq(block, n) == [k \in 1 .. n |-> block[k - 1]]

\* memcpy(&dst[d], &src[s], n)
Memcpy(dst, d, src, s, n) ==
  [i \in DOMAIN dst |-> IF d <= i /\ i < d + n THEN src[s + (i - d)] ELSE dst[i]]

----------------------------------------------------------------------------
(* The functions of vote_buff.c.                                           *)

resetVotePipe(v) == [v EXCEPT !.buff_count = 0, !.buff_index = 0]

\* Space for the data: strictly less than what is free, so a ring never fills.
FitsFilling(v, read_count) == read_count <= Max - v.buff_count
Fits(v, read_count) == read_count < Max - v.buff_count

EndIndex(v) == (v.buff_index + v.buff_count) % Max

\* The block behind the bytes already there, in two parts when it wraps.
StoreUnwrapped(v, block, n) ==
  [v EXCEPT !.buffer = Memcpy(@, EndIndex(v), block, 0, n), !.buff_count = @ + n]
Store(v, block, n) ==
  LET end_index == EndIndex(v)
      wrapped   == (end_index + n) % Max
      part_read == n - wrapped
      buffer    == IF end_index > wrapped
                   THEN Memcpy(Memcpy(v.buffer, end_index, block, 0, part_read),
                               0, block, part_read, n - part_read)
                   ELSE Memcpy(v.buffer, end_index, block, 0, n)
  IN  [v EXCEPT !.buffer = buffer, !.buff_count = @ + n]

\* pipeToBuff of a read that returned n bytes; 0 or -1 as the C function.
pipeToBuff(v, block, n) ==
  IF Fits(v, n) THEN [retval |-> 0, pipe |-> Store(v, block, n)]
                ELSE [retval |-> -1, pipe |-> v]

\* The n oldest bytes of the ring, copied out in one part or in two (copyBuffer,
\* and the temp_buffer of buffToPipe).
copyBuffer(v, n) ==
  LET part_write == Max - v.buff_index
      zero == [i \in 0 .. n - 1 |-> 0]
  IN  IF v.buff_index + n < Max
      THEN Memcpy(zero, 0, v.buffer, v.buff_index, n)
      ELSE Memcpy(Memcpy(zero, 0, v.buffer, v.buff_index, part_write),
                  part_write, v.buffer, 0, n - part_write)

fakeToPipe(v, n) ==
  [v EXCEPT !.buff_index = (@ + n) % Max, !.buff_count = @ - n]

\* memcmp(&a[s], &b[s], n) = 0
SameBytes(a, b, s, n) == \A i \in s .. s + n - 1 : a[i] = b[i]

\* compareBuffs(a, b, n) = 0
compareFromZero(a, b, n) ==
  a.buff_index = b.buff_index /\ SameBytes(a.buffer, b.buffer, 0, n)
compareBuffs(a, b, n) ==
  LET part_cmp == Max - a.buff_index
  IN  /\ a.buff_index = b.buff_index
      /\ IF a.buff_index + n < Max
         THEN SameBytes(a.buffer, b.buffer, a.buff_index, n)
         ELSE /\ SameBytes(a.buffer, b.buffer, a.buff_index, part_cmp)
              /\ SameBytes(a.buffer, b.buffer, 0, n - part_cmp)

\* copyPipe(dest, src): the live bytes only, at the same place in the ring.
copyPipe(dest, src) ==
  LET part_cpy == Max - src.buff_index
      s == src.buff_index
  IN  [buff_count |-> src.buff_count,
       buff_index |-> src.buff_index,
       buffer     |->
         IF src.buff_index + src.buff_count < Max
         THEN Memcpy(dest.buffer, s, src.buffer, s, src.buff_count)
         ELSE Memcpy(Memcpy(dest.buffer, s, src.buffer, s, part_cpy),
                     0, src.buffer, 0, src.buff_count - part_cpy)]

----------------------------------------------------------------------------
(* The state machine: the voter may call the functions in any order, with  *)
(* the arguments its code passes (no more bytes than are buffered).        *)

\* The globals of the voter start zeroed.
Init ==
  /\ vp = [p \in Pipes |-> [buff_index |-> 0, buff_count |-> 0,
                            buffer |-> [i \in 0 .. Max - 1 |-> 0]]]
  /\ moved = <<>>

\* A read of one to Max bytes; on overflow the bytes read are gone.
PipeToBuff(p) ==
  \E n \in 1 .. Max : \E block \in Blocks(n) :
        /\ vp' = [vp EXCEPT ![p] = pipeToBuff(@, block, n).pipe]
        /\ moved' = AsSeq(block, n)

\* buffToPipe returns early when asked for more than is buffered.
BuffToPipe(p, n) ==
  /\ n <= vp[p].buff_count
  /\ moved' = AsSeq(copyBuffer(vp[p], n), n)
  /\ vp' = [vp EXCEPT ![p] = fakeToPipe(@, n)]

\* Callers pass at most bytesReady, so n never exceeds the bytes buffered.
FakeToPipe(p, n) ==
  /\ n <= vp[p].buff_count
  /\ vp' = [vp EXCEPT ![p] = fakeToPipe(@, n)]
  /\ moved' = <<>>

CopyPipe(p, src) ==
  /\ vp' = [vp EXCEPT ![p] = copyPipe(@, vp[src])]
  /\ moved' = <<>>

ResetVotePipe(p) ==
  /\ vp' = [vp EXCEPT ![p] = resetVotePipe(@)]
  /\ moved' = <<>>

Next ==
  \E p \in Pipes :
     \/ PipeToBuff(p)
     \/ \E n \in 0 .. Max - 1 : BuffToPipe(p, n)
     \/ \E n \in 0 .. Max - 1 : FakeToPipe(p, n)
     \/ \E src \in Pipes : CopyPipe(p, src)
     \/ ResetVotePipe(p)

Spec == Init /\ [][Next]_vars

----------------------------------------------------------------------------
(* Properties.                                                             *)

\* Index and count stay inside the ring, so every memcpy of vote_buff.c stays
\* inside buffer[]; a ring never holds Max bytes, which is what keeps the wrap
\* test of pipeToBuff (a full ring looks like an empty one) unambiguous.
TypeOK == vp \in [Pipes -> VotePipe] /\ moved \in Seq(Byte)

\* The bytes a pipe holds, oldest first.
Contents(v) ==
  [k \in 1 .. v.buff_count |-> v.buffer[(v.buff_index + (k - 1)) % Max]]

\* Every operation of the ring is the operation of a queue: no byte is lost,
\* duplicated or reordered by wrapping, by a partial read or write, or by
\* copying a pipe to a restarted replica.
Queues == INSTANCE ByteQueue WITH
            Room  <- Max - 1,
            queue <- [p \in Pipes |-> Contents(vp[p])]
ImplementsQueues == Queues!Spec

\* compareBuffs answers "agree" exactly when the next n bytes of the two
\* streams agree, wherever in the ring they lie: this is the comparison that
\* votes (voterd.c checkSDC).
CompareIsByStream ==
  \A p, q \in Pipes : \A n \in 0 .. Max - 1 :
     (/\ vp[p].buff_index = vp[q].buff_index
      /\ n <= vp[p].buff_count
      /\ n <= vp[q].buff_count)
     => (compareBuffs(vp[p], vp[q], n)
           <=> SubSeq(Contents(vp[p]), 1, n) = SubSeq(Contents(vp[q]), 1, n))
=============================================================================
