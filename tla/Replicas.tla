------------------------------ MODULE Replicas ------------------------------
(***************************************************************************)
(* The decisions of src/replicas.c about a group of replicas: who is       *)
(* ahead, who is behind, how many bytes all of them have ready, and which  *)
(* priority each gets.  cnt[p][r] is buff_count of replica r on the        *)
(* outgoing pipe p; a priority is an offset to default_priority.           *)
(***************************************************************************)
EXTENDS Integers, Sequences

\* int bytesReady(reps, num, pipe): the smallest count.
bytesReadyFirst(c) == c[0]
bytesReady(c) == CHOOSE n \in {c[r] : r \in DOMAIN c} : \A r \in DOMAIN c : n <= c[r]

\* int aheadRep(reps, num, pipe): the first replica with the largest count.
aheadRep(c) ==
  CHOOSE r \in DOMAIN c :
     \A s \in DOMAIN c : c[s] < c[r] \/ (c[s] = c[r] /\ r <= s)

\* int behindRep(reps, num, pipe): the first among the replicas with the
\* smallest count and, of those, the largest priority.
behindRepAhead(c, prio) == aheadRep(c)
behindRepByCount(c, prio) ==
  CHOOSE r \in DOMAIN c :
     \A s \in DOMAIN c : c[r] < c[s] \/ (c[r] = c[s] /\ r <= s)
behindRep(c, prio) ==
  CHOOSE r \in DOMAIN c :
     \A s \in DOMAIN c :
        \/ c[r] < c[s]
        \/ c[r] = c[s] /\ prio[r] > prio[s]
        \/ c[r] = c[s] /\ prio[r] = prio[s] /\ r <= s

\* gap += ..., in the loop of rep_gap over the pipes.
SumOf(d) ==
  LET sum[p \in 0 .. Len(d)] == IF p = 0 THEN 0 ELSE sum[p - 1] + d[p]
  IN  sum[Len(d)]

\* int rep_gap(reps, num, rep): how far rep is behind, over all outgoing pipes.
rep_gap(cnt, r) == SumOf([p \in DOMAIN cnt |-> cnt[p][aheadRep(cnt[p])] - cnt[p][r]])

\* The loop of balanceReps over index = 0 .. num - 1: an index that becomes the
\* new "starting" is not considered for "second".
BalanceRound(s, gap, index) ==
  IF gap[index] > gap[s.starting] THEN [s EXCEPT !.starting = index]
  ELSE IF gap[index] > gap[s.second] /\ index # s.starting THEN [s EXCEPT !.second = index]
  ELSE s

BalanceScan(cnt, num) ==
  LET gap == [r \in 0 .. num - 1 |-> rep_gap(cnt, r)]
      scan[i \in 0 .. num] == IF i = 0 THEN [starting |-> 0, second |-> 1]
                              ELSE BalanceRound(scan[i - 1], gap, i - 1)
  IN  scan[num]

\* void balanceReps(reps, num, default_priority): the offsets it asks for.
balanceRepsSwapped(cnt, num) ==
  LET s == BalanceScan(cnt, num)
  IN  [r \in 0 .. num - 1 |-> IF r = s.second THEN 2
                              ELSE IF r = s.starting THEN 1 ELSE 0]
balanceReps(cnt, num) ==
  LET s == BalanceScan(cnt, num)
  IN  [r \in 0 .. num - 1 |-> IF r = s.starting THEN 2
                              ELSE IF r = s.second THEN 1 ELSE 0]
=============================================================================
