----------------------------- MODULE ByteQueue -----------------------------
(***************************************************************************)
(* What a set of vote buffers promises its user, the voter: one bounded    *)
(* first-in first-out queue of bytes per pipe.  No ring, no indices.       *)
(* VoteBuff (voter/vote_buff.c) is shown to implement this specification.  *)
(***************************************************************************)
EXTENDS Naturals, Sequences

CONSTANTS Pipes,   \* the vote pipes
          Byte,    \* the values of a byte
          Room     \* a queue holds at most Room bytes

VARIABLES queue,   \* queue[p]: the bytes of pipe p, oldest first
          moved    \* the bytes the last operation read or wrote

Strings(n) == UNION {[1 .. k -> Byte] : k \in 0 .. n}

Init == queue = [p \in Pipes |-> <<>>] /\ moved = <<>>

\* Take in a whole block of bytes when there is room for all of it.
Put(p) ==
  /\ moved' \in Strings(Room - Len(queue[p]))
  /\ queue' = [queue EXCEPT ![p] = @ \o moved']

\* Lose a block of bytes there is no room for.
Lose(p) ==
  /\ moved' \in Strings(Room + 1)
  /\ Len(moved') > Room - Len(queue[p])
  /\ UNCHANGED queue

\* Hand out the n oldest bytes.
Take(p, n) ==
  /\ n <= Len(queue[p])
  /\ moved' = SubSeq(queue[p], 1, n)
  /\ queue' = [queue EXCEPT ![p] = SubSeq(@, n + 1, Len(@))]

\* Forget the n oldest bytes.
Drop(p, n) ==
  /\ n <= Len(queue[p])
  /\ queue' = [queue EXCEPT ![p] = SubSeq(@, n + 1, Len(@))]
  /\ moved' = <<>>

\* Make one queue a copy of another.
Copy(p, from) ==
  /\ queue' = [queue EXCEPT ![p] = queue[from]]
  /\ moved' = <<>>

\* Forget everything.
Reset(p) ==
  /\ queue' = [queue EXCEPT ![p] = <<>>]
  /\ moved' = <<>>

Next ==
  \E p \in Pipes :
     \/ Put(p) \/ Lose(p)
     \/ \E n \in 0 .. Room : Take(p, n) \/ Drop(p, n)
     \/ \E from \in Pipes : Copy(p, from)
     \/ Reset(p)

Spec == Init /\ [][Next]_<<queue, moved>>
=============================================================================
