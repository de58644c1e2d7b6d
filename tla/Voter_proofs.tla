---------------------------- MODULE Voter_proofs ----------------------------
(***************************************************************************)
(* Proofs about the voter, for every set of configurations and any number  *)
(* of inputs.                                                              *)
(***************************************************************************)
EXTENDS Voter, SequenceTheorems, WellFoundedInduction, TLAPS

-----------------------------------------------------------------------------
(***************************************************************************)
(* The operators of Replicas: what they choose exists.                     *)
(***************************************************************************)

(* There are two or three replicas. *)
LEMMA TwoOrThree ==
  /\ rep_count \in {2, 3}
  /\ rep_count = 2 => Reps = {0, 1}
  /\ rep_count = 3 => Reps = {0, 1, 2}
BY DEF rep_count, Reps

(* bytesReady: the smallest count is one of the counts. *)
LEMMA BytesReadyTyped ==
  ASSUME NEW c \in [Reps -> Nat]
  PROVE  /\ bytesReady(c) \in Nat /\ \A r \in Reps : bytesReady(c) <= c[r]
         /\ \E r \in Reps : bytesReady(c) = c[r]
<1> DEFINE counts == {c[r] : r \in DOMAIN c}
<1>1. \E n \in counts : \A r \in DOMAIN c : n <= c[r]
  <2>1. \E k \in Reps : \A r \in Reps : c[k] <= c[r]
    <3>1. CASE rep_count = 2
      <4>1. Reps = {0, 1} /\ c[0] \in Nat /\ c[1] \in Nat
        BY <3>1, TwoOrThree
      <4> QED BY <4>1
    <3>2. CASE rep_count = 3
      <4>1. Reps = {0, 1, 2} /\ c[0] \in Nat /\ c[1] \in Nat /\ c[2] \in Nat
        BY <3>2, TwoOrThree
      <4> QED BY <4>1
    <3> QED BY <3>1, <3>2, TwoOrThree
  <2> QED BY <2>1
<1>2. bytesReady(c) \in counts /\ \A r \in DOMAIN c : bytesReady(c) <= c[r]
  BY <1>1 DEF bytesReady
<1> QED BY <1>2

(* behindRep: a first one among the furthest behind exists; none of them has a *)
(* higher priority.                                                            *)
LEMMA BehindRepTyped ==
  ASSUME NEW c \in [Reps -> Nat], NEW pr \in [Reps -> 0 .. 2]
  PROVE  /\ behindRep(c, pr) \in Reps /\ \A s \in Reps : c[behindRep(c, pr)] <= c[s]
         /\ \A s \in Reps : c[s] = c[behindRep(c, pr)] => pr[s] <= pr[behindRep(c, pr)]
<1> DEFINE Ahead(r, s) == \/ c[r] < c[s]
                          \/ c[r] = c[s] /\ pr[r] > pr[s]
                          \/ c[r] = c[s] /\ pr[r] = pr[s] /\ r <= s
<1>1. \E r \in Reps : \A s \in Reps : Ahead(r, s)
  <2>1. CASE rep_count = 2
    <3>1. /\ Reps = {0, 1} /\ c[0] \in Nat /\ c[1] \in Nat
          /\ pr[0] \in Nat /\ pr[1] \in Nat
      BY <2>1, TwoOrThree
    <3> QED BY <3>1
  <2>2. CASE rep_count = 3
    <3>1. /\ Reps = {0, 1, 2} /\ c[0] \in Nat /\ c[1] \in Nat /\ c[2] \in Nat
          /\ pr[0] \in Nat /\ pr[1] \in Nat /\ pr[2] \in Nat
      BY <2>2, TwoOrThree
    <3> QED BY <3>1
  <2> QED BY <2>1, <2>2, TwoOrThree
<1>2. \E r \in DOMAIN c : \A s \in DOMAIN c : Ahead(r, s)
  BY <1>1
<1>3. behindRep(c, pr) \in DOMAIN c /\ \A s \in DOMAIN c : Ahead(behindRep(c, pr), s)
  BY <1>2 DEF behindRep
<1>4. \A r, s \in Reps : Ahead(r, s) => c[r] <= c[s] /\ (c[s] = c[r] => pr[s] <= pr[r])
  <2> TAKE r, s \in Reps
  <2>1. c[r] \in Nat /\ c[s] \in Nat /\ pr[r] \in Nat /\ pr[s] \in Nat
    OBVIOUS
  <2> QED BY <2>1
<1> HIDE DEF Ahead
<1> QED BY <1>3, <1>4

(* balanceReps: whomever the scan finds, the priorities are offsets of 0, 1 and 2. *)
LEMMA BalanceTyped ==
  ASSUME NEW cnt
  PROVE  balanceReps(cnt, rep_count) \in [Reps -> 0 .. 2]
BY DEF balanceReps, Reps

(* The neighbour of a replica is another replica. *)
LEMMA NeighbourOther == \A r \in Reps : Neighbour(r) \in Reps /\ Neighbour(r) # r
<1>1. CASE rep_count = 2
  BY <1>1, TwoOrThree DEF Neighbour
<1>2. CASE rep_count = 3
  BY <1>2, TwoOrThree DEF Neighbour
<1> QED BY <1>1, <1>2, TwoOrThree

(* A set of natural numbers that is not empty has a least one. *)
LEMMA LeastNat ==
  ASSUME NEW T \in SUBSET Nat, T # {}
  PROVE  \E x \in T : \A y \in T : x <= y
<1>1. \E x \in T : \A y \in T : ~(<<y, x>> \in OpToRel(<, Nat))
  BY WFMin, NatLessThanWellFounded
<1>2. PICK x \in T : \A y \in T : ~(<<y, x>> \in OpToRel(<, Nat))
  BY <1>1
<1>3. \A y \in T : x <= y
  <2> TAKE y \in T
  <2>1. x \in Nat /\ y \in Nat
    OBVIOUS
  <2>2. ~(y < x)
    BY <1>2, <2>1 DEF OpToRel
  <2> QED BY <2>1, <2>2
<1> QED BY <1>3

(* Induction: a set that has 0, and with each number the next up to N. *)
LEMMA UpTo ==
  ASSUME NEW N \in Nat, NEW T, 0 \in T, \A n \in 1 .. N : n - 1 \in T => n \in T
  PROVE  \A n \in 0 .. N : n \in T
<1> DEFINE M == {n \in 0 .. N : n \notin T}
<1> SUFFICES ASSUME M # {} PROVE FALSE
  OBVIOUS
<1>1. M \in SUBSET Nat
  OBVIOUS
<1>2. PICK n \in M : \A m \in M : n <= m
  <2> HIDE DEF M
  <2> QED BY <1>1, LeastNat
<1>3. n \in 1 .. N /\ n - 1 \in 0 .. N
  OBVIOUS
<1>4. n - 1 \notin M
  BY <1>2, <1>3
<1> QED BY <1>3, <1>4

-----------------------------------------------------------------------------
(***************************************************************************)
(* rep_gap and balanceReps: the sum over the pipes, and the first of those *)
(* furthest behind.                                                        *)
(***************************************************************************)

(* f is what the loop of SumOf adds up. *)
IsSum(f, d) == f = [p \in 0 .. Len(d) |-> IF p = 0 THEN 0 ELSE f[p - 1] + d[p]]

(* The loop has a sum at each of its rounds. *)
LEMMA SumExists ==
  ASSUME NEW d \in Seq(Int)
  PROVE  \E f : IsSum(f, d)
<1> DEFINE N == Len(d)
           Upto(n) == \E f \in [0 .. n -> Int] :
                         f[0] = 0 /\ \A p \in 1 .. n : f[p] = f[p - 1] + d[p]
<1>1. N \in Nat /\ \A p \in 1 .. N : d[p] \in Int
  OBVIOUS
<1>2. Upto(0)
  <2> DEFINE g == [i \in 0 .. 0 |-> 0]
  <2>1. g \in [0 .. 0 -> Int] /\ g[0] = 0 /\ 1 .. 0 = {}
    OBVIOUS
  <2> HIDE DEF g
  <2> QED BY <2>1
<1>3. ASSUME NEW n \in 1 .. N, Upto(n - 1) PROVE Upto(n)
  <2>1. PICK f \in [0 .. n - 1 -> Int] :
           f[0] = 0 /\ \A p \in 1 .. n - 1 : f[p] = f[p - 1] + d[p]
    BY <1>3
  <2> DEFINE g == [p \in 0 .. n |-> IF p = n THEN f[n - 1] + d[n] ELSE f[p]]
  <2>2. d[n] \in Int /\ f[n - 1] \in Int
    BY <1>1, <1>3
  <2>3. g \in [0 .. n -> Int] /\ g[0] = 0
    BY <2>1, <2>2
  <2>4. \A p \in 1 .. n : g[p] = g[p - 1] + d[p]
    BY <2>1, <2>2
  <2> HIDE DEF g
  <2> QED BY <2>3, <2>4
<1>5. Upto(N)
  <2> DEFINE T == {n \in 0 .. N : Upto(n)}
  <2> HIDE DEF Upto
  <2>1. 0 \in T /\ \A n \in 1 .. N : n - 1 \in T => n \in T
    BY <1>1, <1>2, <1>3
  <2>2. \A n \in 0 .. N : n \in T
    <3> HIDE DEF T
    <3> QED BY <1>1, <2>1, UpTo
  <2> QED BY <1>1, <2>2
<1>6. PICK f \in [0 .. N -> Int] : f[0] = 0 /\ \A p \in 1 .. N : f[p] = f[p - 1] + d[p]
  BY <1>5
<1>7. f = [p \in 0 .. N |-> IF p = 0 THEN 0 ELSE f[p - 1] + d[p]]
  BY <1>1, <1>6
<1> QED BY <1>7 DEF IsSum

(* SumOf is the last of these. *)
LEMMA SumRounds ==
  ASSUME NEW d \in Seq(Int)
  PROVE  \E f : /\ f[0] = 0 /\ \A p \in 1 .. Len(d) : f[p] = f[p - 1] + d[p]
                /\ SumOf(d) = f[Len(d)]
<1> DEFINE f == CHOOSE x : x = [p \in 0 .. Len(d) |-> IF p = 0 THEN 0 ELSE x[p - 1] + d[p]]
<1>1. \E x : x = [p \in 0 .. Len(d) |-> IF p = 0 THEN 0 ELSE x[p - 1] + d[p]]
  BY SumExists DEF IsSum
<1>2. f = [p \in 0 .. Len(d) |-> IF p = 0 THEN 0 ELSE f[p - 1] + d[p]]
  BY <1>1
<1>3. SumOf(d) = f[Len(d)]
  BY DEF SumOf
<1>4. Len(d) \in Nat
  OBVIOUS
<1>5. f[0] = 0
  <2> HIDE DEF f
  <2> QED BY <1>2, <1>4
<1>6. ASSUME NEW p \in 1 .. Len(d) PROVE f[p] = f[p - 1] + d[p]
  <2> HIDE DEF f
  <2> QED BY <1>2, <1>4
<1> HIDE DEF f
<1> QED BY <1>3, <1>5, <1>6

(* It is a number. *)
LEMMA SumTyped ==
  ASSUME NEW d \in Seq(Int)
  PROVE  SumOf(d) \in Int
<1> DEFINE N == Len(d)
<1>1. N \in Nat /\ \A p \in 1 .. N : d[p] \in Int
  OBVIOUS
<1>2. PICK f : f[0] = 0 /\ (\A p \in 1 .. N : f[p] = f[p - 1] + d[p]) /\ SumOf(d) = f[N]
  BY SumRounds
<1> DEFINE T == {n \in 0 .. N : f[n] \in Int}
<1>4. 0 \in T /\ \A n \in 1 .. N : n - 1 \in T => n \in T
  BY <1>1, <1>2
<1>5. \A n \in 0 .. N : n \in T
  <2> HIDE DEF T
  <2> QED BY <1>1, <1>4, UpTo
<1> QED BY <1>1, <1>2, <1>5

LEMMA SumsCompare ==
  ASSUME NEW a \in Int, NEW b \in Int, NEW x \in Int, NEW y \in Int, a <= b, x <= y
  PROVE  a + x \in Int /\ b + y \in Int /\ a + x <= b + y
OBVIOUS

(* It grows with its terms. *)
LEMMA SumGrows ==
  ASSUME NEW d \in Seq(Int), NEW e \in Seq(Int), Len(e) = Len(d), Len(d) # 0,
         \A p \in 1 .. Len(d) : d[p] <= e[p], d[Len(d)] < e[Len(d)]
  PROVE  SumOf(d) < SumOf(e)
<1> DEFINE N == Len(d)
<1>1. N \in Nat /\ N # 0 /\ \A p \in 1 .. N : d[p] \in Int /\ e[p] \in Int /\ d[p] <= e[p]
  OBVIOUS
<1>2. PICK f : f[0] = 0 /\ (\A p \in 1 .. N : f[p] = f[p - 1] + d[p]) /\ SumOf(d) = f[N]
  BY SumRounds
<1>3. PICK g : g[0] = 0 /\ (\A p \in 1 .. N : g[p] = g[p - 1] + e[p]) /\ SumOf(e) = g[N]
  <2>1. \E g : g[0] = 0 /\ (\A p \in 1 .. Len(e) : g[p] = g[p - 1] + e[p]) /\ SumOf(e) = g[Len(e)]
    BY SumRounds
  <2> QED BY <2>1
<1>4. /\ f[0] = 0 /\ \A p \in 1 .. N : f[p] = f[p - 1] + d[p]
      /\ g[0] = 0 /\ \A p \in 1 .. N : g[p] = g[p - 1] + e[p]
  BY <1>2, <1>3
<1> DEFINE T == {n \in 0 .. N : f[n] \in Int /\ g[n] \in Int /\ f[n] <= g[n]}
<1>5. 0 \in T
  BY <1>1, <1>4
<1>6. ASSUME NEW n \in 1 .. N, n - 1 \in T PROVE n \in T
  <2>1. f[n] = f[n - 1] + d[n] /\ g[n] = g[n - 1] + e[n]
    BY <1>4
  <2>2. /\ f[n - 1] \in Int /\ g[n - 1] \in Int /\ f[n - 1] <= g[n - 1]
        /\ d[n] \in Int /\ e[n] \in Int /\ d[n] <= e[n]
    BY <1>1, <1>6
  <2>3. f[n] \in Int /\ g[n] \in Int /\ f[n] <= g[n]
    <3> HIDE DEF N, T
    <3>1. /\ f[n - 1] + d[n] \in Int /\ g[n - 1] + e[n] \in Int
          /\ f[n - 1] + d[n] <= g[n - 1] + e[n]
      BY ONLY <2>2, SumsCompare
    <3> QED BY ONLY <2>1, <3>1
  <2> QED BY <1>1, <2>3
<1>7. N - 1 \in T
  <2>1. \A n \in 0 .. N : n \in T
    <3> HIDE DEF T
    <3> QED BY <1>1, <1>5, <1>6, UpTo
  <2> QED BY <1>1, <2>1
<1>8. f[N] = f[N - 1] + d[N] /\ g[N] = g[N - 1] + e[N] /\ d[N] < e[N] /\ d[N] \in Int /\ e[N] \in Int
  BY <1>1, <1>4
<1> QED BY <1>2, <1>3, <1>7, <1>8

(* The first of those ahead. *)
First(c, r) == \A s \in Reps : c[s] < c[r] \/ (c[s] = c[r] /\ r <= s)

(* aheadRep: there is exactly one such replica. *)
LEMMA AheadRepTyped ==
  ASSUME NEW c \in [Reps -> Nat]
  PROVE  /\ aheadRep(c) \in Reps /\ First(c, aheadRep(c))
         /\ \A r \in Reps : First(c, r) => r = aheadRep(c)
<1>1. \E r \in Reps : First(c, r)
  <2>1. CASE rep_count = 2
    <3>1. Reps = {0, 1} /\ c[0] \in Nat /\ c[1] \in Nat
      BY <2>1, TwoOrThree
    <3> QED BY <3>1 DEF First
  <2>2. CASE rep_count = 3
    <3>1. Reps = {0, 1, 2} /\ c[0] \in Nat /\ c[1] \in Nat /\ c[2] \in Nat
      BY <2>2, TwoOrThree
    <3> QED BY <3>1 DEF First
  <2> QED BY <2>1, <2>2, TwoOrThree
<1>2. aheadRep(c) \in Reps /\ First(c, aheadRep(c))
  BY <1>1 DEF aheadRep, First
<1>3. ASSUME NEW r \in Reps, NEW s \in Reps, First(c, r), First(c, s) PROVE r = s
  <2>1. r \in Int /\ s \in Int /\ c[r] \in Nat /\ c[s] \in Nat
    BY DEF Reps
  <2>2. (c[s] < c[r] \/ (c[s] = c[r] /\ r <= s)) /\ (c[r] < c[s] \/ (c[s] = c[r] /\ s <= r))
    BY <1>3 DEF First
  <2> QED BY <2>1, <2>2
<1> QED BY <1>2, <1>3

(* What rep_gap adds up. *)
Gaps(cnt, r) == [p \in Outs |-> cnt[p][aheadRep(cnt[p])] - cnt[p][r]]

(* A gap is a sum over the outgoing pipes. *)
LEMMA GapTyped ==
  ASSUME conf \in Configs, NEW cnt \in [Outs -> [Reps -> Nat]], NEW r \in Reps
  PROVE  /\ Gaps(cnt, r) \in Seq(Int) /\ Len(Gaps(cnt, r)) = conf.NOut
         /\ rep_gap(cnt, r) = SumOf(Gaps(cnt, r)) /\ rep_gap(cnt, r) \in Int
<1>1. conf.NOut \in Nat /\ Outs = 1 .. conf.NOut
  BY ConfigAssumption DEF Outs
<1>2. ASSUME NEW p \in Outs PROVE cnt[p][aheadRep(cnt[p])] - cnt[p][r] \in Int
  <2>1. cnt[p] \in [Reps -> Nat]
    OBVIOUS
  <2>2. aheadRep(cnt[p]) \in Reps
    BY <2>1, AheadRepTyped
  <2> DEFINE a == cnt[p][aheadRep(cnt[p])]
             b == cnt[p][r]
  <2>3. a \in Nat /\ b \in Nat
    BY <2>1, <2>2
  <2> HIDE DEF a, b
  <2>4. a - b \in Int
    BY <2>3
  <2> QED BY <2>4 DEF a, b
<1>3. Gaps(cnt, r) \in [1 .. conf.NOut -> Int]
  BY <1>1, <1>2 DEF Gaps
<1>4. Gaps(cnt, r) \in Seq(Int) /\ Len(Gaps(cnt, r)) = conf.NOut
  <2> DEFINE g == Gaps(cnt, r)
  <2>1. g \in [1 .. conf.NOut -> Int]
    BY <1>3
  <2> HIDE DEF g
  <2>2. g \in Seq(Int) /\ Len(g) = conf.NOut
    BY <1>1, <2>1
  <2> QED BY <2>2 DEF g
<1>5. rep_gap(cnt, r) = SumOf(Gaps(cnt, r))
  BY DEF rep_gap, Gaps
<1> QED BY <1>4, <1>5, SumTyped

(* Who has fewer votes on the last pipe, and more on none, is further behind. *)
LEMMA GapGrows ==
  ASSUME conf \in Configs, NEW cnt \in [Outs -> [Reps -> Nat]], NEW r \in Reps, NEW s \in Reps,
         \A p \in Outs : cnt[p][r] <= cnt[p][s], cnt[conf.NOut][r] < cnt[conf.NOut][s]
  PROVE  rep_gap(cnt, s) < rep_gap(cnt, r)
<1>1. conf.NOut \in Nat \ {0} /\ Outs = 1 .. conf.NOut
  BY ConfigAssumption DEF Outs
<1>2. ASSUME NEW p \in Outs
      PROVE  /\ Gaps(cnt, s)[p] <= Gaps(cnt, r)[p]
             /\ cnt[p][r] < cnt[p][s] => Gaps(cnt, s)[p] < Gaps(cnt, r)[p]
  <2>1. cnt[p] \in [Reps -> Nat]
    OBVIOUS
  <2>2. aheadRep(cnt[p]) \in Reps
    BY <2>1, AheadRepTyped
  <2> DEFINE a == cnt[p][aheadRep(cnt[p])]
             b == cnt[p][r]
             c == cnt[p][s]
  <2>3. a \in Nat /\ b \in Nat /\ c \in Nat /\ b <= c
    BY <2>1, <2>2
  <2>4. Gaps(cnt, s)[p] = a - c /\ Gaps(cnt, r)[p] = a - b
    BY DEF Gaps
  <2>5. a - c <= a - b /\ (b < c => a - c < a - b)
    <3> HIDE DEF a, b, c
    <3> QED BY <2>3
  <2> HIDE DEF a
  <2> QED BY <2>4, <2>5
<1>3. /\ Gaps(cnt, s) \in Seq(Int) /\ Len(Gaps(cnt, s)) = conf.NOut
      /\ Gaps(cnt, r) \in Seq(Int) /\ Len(Gaps(cnt, r)) = conf.NOut
      /\ rep_gap(cnt, s) = SumOf(Gaps(cnt, s)) /\ rep_gap(cnt, r) = SumOf(Gaps(cnt, r))
  BY GapTyped
<1>4. /\ \A p \in 1 .. conf.NOut : Gaps(cnt, s)[p] <= Gaps(cnt, r)[p]
      /\ Gaps(cnt, s)[conf.NOut] < Gaps(cnt, r)[conf.NOut]
  BY <1>1, <1>2
<1>5. SumOf(Gaps(cnt, s)) < SumOf(Gaps(cnt, r))
  BY <1>1, <1>3, <1>4, SumGrows
<1> QED BY <1>3, <1>5

(* When as many votes of each replica are sent, all are as far behind as before. *)
LEMMA GapSent ==
  ASSUME conf \in Configs, NEW c \in [Outs -> [Reps -> Nat]], NEW d \in [Outs -> [Reps -> Nat]],
         NEW k \in [Outs -> Nat], \A p \in Outs, r \in Reps : d[p][r] = c[p][r] - k[p],
         NEW r \in Reps
  PROVE  rep_gap(d, r) = rep_gap(c, r)
<1>1. ASSUME NEW p \in Outs
      PROVE  d[p][aheadRep(d[p])] - d[p][r] = c[p][aheadRep(c[p])] - c[p][r]
  <2>1. /\ c[p] \in [Reps -> Nat] /\ d[p] \in [Reps -> Nat] /\ k[p] \in Nat
        /\ \A s \in Reps : d[p][s] = c[p][s] - k[p]
    OBVIOUS
  <2>2. aheadRep(c[p]) \in Reps /\ First(c[p], aheadRep(c[p]))
    BY <2>1, AheadRepTyped
  <2> DEFINE a == aheadRep(c[p])
             e == c[p]
             f == d[p]
  <2>3. First(f, a)
    <3>1. ASSUME NEW s \in Reps PROVE f[s] < f[a] \/ (f[s] = f[a] /\ a <= s)
      <4>1. e[s] < e[a] \/ (e[s] = e[a] /\ a <= s)
        BY <2>2 DEF First
      <4>2. /\ f[s] = e[s] - k[p] /\ f[a] = e[a] - k[p]
            /\ e[s] \in Nat /\ e[a] \in Nat /\ k[p] \in Nat
        BY <2>1, <2>2
      <4> HIDE DEF a, e, f
      <4> QED BY <4>1, <4>2
    <3> QED BY <3>1 DEF First
  <2>4. aheadRep(f) = a
    BY <2>1, <2>2, <2>3, AheadRepTyped
  <2>5. /\ f[a] = e[a] - k[p] /\ f[r] = e[r] - k[p]
        /\ e[a] \in Nat /\ e[r] \in Nat /\ k[p] \in Nat
    BY <2>1, <2>2
  <2>6. f[a] - f[r] = e[a] - e[r]
    <3> HIDE DEF a, e, f
    <3> QED BY <2>5
  <2> QED BY <2>4, <2>6
<1>2. Gaps(d, r) = Gaps(c, r)
  BY <1>1 DEF Gaps
<1> QED BY <1>2, GapTyped

(* balanceReps: a replica with priority 2 exists, and is one of the furthest behind. *)
LEMMA BalanceFirst ==
  ASSUME conf \in Configs, NEW cnt \in [Outs -> [Reps -> Nat]]
  PROVE  /\ \E r \in Reps : balanceReps(cnt, rep_count)[r] = 2
         /\ \A r \in Reps : balanceReps(cnt, rep_count)[r] = 2 => r \in Furthest(cnt)
<1> DEFINE num == rep_count
           gap == [r \in 0 .. num - 1 |-> rep_gap(cnt, r)]
           s0 == [starting |-> 0, second |-> 1]
           s1 == BalanceRound(s0, gap, 0)
           s2 == BalanceRound(s1, gap, 1)
           s3 == BalanceRound(s2, gap, 2)
           last == BalanceScan(cnt, num)
<1>1. \A r \in Reps : gap[r] = rep_gap(cnt, r) /\ gap[r] \in Int
  BY GapTyped DEF Reps
<1>2. last = IF num = 2 THEN s2 ELSE s3
  <2> DEFINE IsScan(f) ==
               f = [i \in 0 .. num |-> IF i = 0 THEN s0 ELSE BalanceRound(f[i - 1], gap, i - 1)]
             f1 == [i \in 0 .. num |-> IF i = 0 THEN s0 ELSE IF i = 1 THEN s1
                                       ELSE IF i = 2 THEN s2 ELSE s3]
             g == CHOOSE f : IsScan(f)
  <2>1. IsScan(f1)
    <3>1. /\ f1[0] = s0 /\ f1[1] = s1 /\ f1[2] = s2 /\ (num = 3 => f1[3] = s3)
          /\ num \in {2, 3}
      BY TwoOrThree
    <3> DEFINE f2 == [i \in 0 .. num |-> IF i = 0 THEN s0 ELSE BalanceRound(f1[i - 1], gap, i - 1)]
    <3>2. ASSUME NEW i \in 0 .. num PROVE f1[i] = f2[i]
      <4>1. i = 0 \/ i = 1 \/ i = 2 \/ (num = 3 /\ i = 3)
        BY <3>1
      <4>2. /\ f2[0] = s0 /\ f2[1] = BalanceRound(f1[0], gap, 0)
            /\ f2[2] = BalanceRound(f1[1], gap, 1)
            /\ num = 3 => f2[3] = BalanceRound(f1[2], gap, 2)
        <5> HIDE DEF f1, s0, gap, num
        <5> QED BY <3>1
      <4> HIDE DEF f1, f2
      <4> QED BY <3>1, <4>1, <4>2
    <3>3. f1 = f2
      <4> HIDE DEF s0, s1, s2, s3, gap
      <4> QED BY <3>2
    <3> QED BY <3>3
  <2>2. IsScan(g)
    <3> HIDE DEF IsScan
    <3> QED BY <2>1
  <2>3. g[0] = s0 /\ g[1] = s1 /\ g[2] = s2 /\ (num = 3 => g[3] = s3)
    <3>1. num \in {2, 3}
      BY TwoOrThree
    <3> HIDE DEF g, s0, gap, num
    <3>2. g[0] = s0
      BY <2>2, <3>1
    <3>3. g[1] = BalanceRound(g[0], gap, 0)
      BY <2>2, <3>1
    <3>4. g[2] = BalanceRound(g[1], gap, 1)
      BY <2>2, <3>1
    <3>5. num = 3 => g[3] = BalanceRound(g[2], gap, 2)
      BY <2>2, <3>1
    <3> QED BY <3>2, <3>3, <3>4, <3>5
  <2>4. last = g[num]
    BY DEF BalanceScan
  <2>5. num = 2 \/ num = 3
    BY TwoOrThree
  <2> HIDE DEF g, s2, s3, num, last
  <2> QED BY <2>3, <2>4, <2>5
<1>3. last.starting \in Reps /\ \A r \in Reps : gap[r] <= gap[last.starting]
  <2> HIDE DEF gap, last
  <2>1. CASE num = 2
    <3>1. Reps = {0, 1} /\ gap[0] \in Int /\ gap[1] \in Int
      BY <1>1, <2>1, TwoOrThree
    <3>2. last = s2
      BY <1>2, <2>1
    <3> QED BY <3>1, <3>2 DEF BalanceRound
  <2>2. CASE num = 3
    <3>1. Reps = {0, 1, 2} /\ gap[0] \in Int /\ gap[1] \in Int /\ gap[2] \in Int
      BY <1>1, <2>2, TwoOrThree
    <3>2. last = s3
      BY <1>2, <2>2
    <3> QED BY <3>1, <3>2 DEF BalanceRound
  <2> QED BY <2>1, <2>2, TwoOrThree
<1>4. ASSUME NEW r \in Reps PROVE balanceReps(cnt, num)[r] = 2 <=> r = last.starting
  <2> HIDE DEF last
  <2> QED BY DEF balanceReps, last, Reps
<1>5. last.starting \in Furthest(cnt)
  BY <1>1, <1>3 DEF Furthest
<1> QED BY <1>3, <1>4, <1>5

(* The loop of balanceReps over given gaps. *)
ScanOf(gap, num) ==
  LET scan[i \in 0 .. num] == IF i = 0 THEN [starting |-> 0, second |-> 1]
                              ELSE BalanceRound(scan[i - 1], gap, i - 1)
  IN  scan[num]

(* Nor does what is sent change whom balanceReps prefers. *)
LEMMA BalanceSent ==
  ASSUME conf \in Configs, NEW c \in [Outs -> [Reps -> Nat]], NEW d \in [Outs -> [Reps -> Nat]],
         NEW k \in [Outs -> Nat], \A p \in Outs, r \in Reps : d[p][r] = c[p][r] - k[p]
  PROVE  balanceReps(d, rep_count) = balanceReps(c, rep_count)
<1> DEFINE G(cnt) == [r \in 0 .. rep_count - 1 |-> rep_gap(cnt, r)]
<1>1. G(c) = G(d)
  <2>1. \A r \in 0 .. rep_count - 1 : rep_gap(d, r) = rep_gap(c, r)
    BY GapSent DEF Reps
  <2> QED BY <2>1
<1>2. \A cnt : BalanceScan(cnt, rep_count) = ScanOf(G(cnt), rep_count)
  BY DEF BalanceScan, ScanOf
<1>3. BalanceScan(c, rep_count) = BalanceScan(d, rep_count)
  <2> HIDE DEF G
  <2> QED BY <1>1, <1>2
<1> QED BY <1>3 DEF balanceReps

(* The order of the loops of doOneUpdate has a first one among the descriptors left. *)
LEMMA FirstReadyTyped ==
  ASSUME ready.rep \in SUBSET (Outs \X Reps), ready.rep # {}, conf \in Configs
  PROVE  /\ FirstReady \in ready.rep /\ FirstReady[1] \in Outs /\ FirstReady[2] \in Reps
         /\ \A y \in ready.rep : FirstReady[1] <= y[1]
<1> DEFINE left == ready.rep
           pipes == {x[1] : x \in left}
<1>1. Outs \subseteq Nat /\ Reps \subseteq Nat
  BY ConfigAssumption, TwoOrThree DEF Outs
<1>2. \A x \in left : x = <<x[1], x[2]>> /\ x[1] \in Outs /\ x[2] \in Reps
  OBVIOUS
<1>3. PICK p \in pipes : \A q \in pipes : p <= q
  <2>1. pipes \in SUBSET Nat /\ pipes # {}
    BY <1>1, <1>2
  <2> QED BY <2>1, LeastNat
<1> DEFINE reps == {x[2] : x \in {y \in left : y[1] = p}}
<1>4. PICK r \in reps : \A q \in reps : r <= q
  <2>1. reps \in SUBSET Nat /\ reps # {}
    BY <1>1, <1>2, <1>3
  <2> QED BY <2>1, LeastNat
<1>5. PICK x \in left : x[1] = p /\ x[2] = r
  BY <1>4
<1>6. \A y \in left : x[1] < y[1] \/ (x[1] = y[1] /\ x[2] <= y[2])
  <2> SUFFICES ASSUME NEW y \in left
               PROVE  x[1] < y[1] \/ (x[1] = y[1] /\ x[2] <= y[2])
    OBVIOUS
  <2>1. p <= y[1] /\ p \in Nat /\ y[1] \in Nat
    BY <1>1, <1>2, <1>3
  <2>2. y[1] = p => r <= y[2]
    BY <1>4
  <2> QED BY <1>5, <2>1, <2>2
<1>7. /\ FirstReady \in left
      /\ \A y \in left : \/ FirstReady[1] < y[1]
                         \/ FirstReady[1] = y[1] /\ FirstReady[2] <= y[2]
  BY <1>6, Zenon DEF FirstReady
<1>8. \A y \in left : FirstReady[1] <= y[1]
  BY <1>1, <1>2, <1>7
<1> QED BY <1>2, <1>7, <1>8

(* What parseArgs sets has its type. *)
LEMMA ConfTyped ==
  ASSUME conf \in Configs
  PROVE  /\ conf.NOut \in Nat \ {0} /\ conf.TimerStop \in Outs
         /\ conf.Ring \in Nat \ {0} /\ conf.Block \in Nat \ {0}
         /\ conf.MaxFaults \in Nat /\ conf.MaxLate \in Nat
         /\ conf.RepType \in {"DMR", "TMR"}
BY ConfigAssumption DEF Outs

(* Everything a table of votes is made of. *)
Votes == [Outs -> [Reps -> Buff]]

(* The counts of a pipe are natural numbers. *)
LEMMA CountsTyped ==
  ASSUME NEW v \in Votes, NEW p \in Outs
  PROVE  Counts(v)[p] \in [Reps -> Nat] /\ \A r \in Reps : Counts(v)[p][r] = Len(v[p][r].q)
BY DEF Counts, Votes, Buff

(* Dropping no more votes than there are leaves votes. *)
LEMMA DropTyped ==
  ASSUME NEW q \in Seq(Value), NEW n \in Nat
  PROVE  DropN(q, n) \in Seq(Value)
<1>1. \A i \in n + 1 .. Len(q) : q[i] \in Value
  BY ElementOfSeq
<1> QED BY <1>1, SubSeqProperties DEF DropN

(* What a read takes and what it leaves are messages of the pipe. *)
LEMMA ReadTyped ==
  ASSUME NEW T, NEW q \in Seq(T), NEW n \in Nat
  PROVE  TakeN(q, n) \in Seq(T) /\ DropN(q, n) \in Seq(T)
<1>1. \A i \in 1 .. Len(q) : q[i] \in T
  BY ElementOfSeq
<1> DEFINE m == IF Len(q) <= n THEN Len(q) ELSE n
<1>2. Len(q) \in Nat /\ m \in Nat /\ m <= Len(q)
  BY LenProperties
<1>3. SubSeq(q, 1, m) \in Seq(T)
  <2> HIDE DEF m
  <2> QED BY <1>1, <1>2, SubSeqProperties
<1>4. SubSeq(q, n + 1, Len(q)) \in Seq(T)
  BY <1>1, <1>2, SubSeqProperties
<1> QED BY <1>3, <1>4 DEF TakeN, DropN

(* A read that has room takes all that is there. *)
LEMMA ReadAll ==
  ASSUME NEW T, NEW q \in Seq(T), NEW n \in Nat, Len(q) <= n
  PROVE  TakeN(q, n) = q /\ DropN(q, n) = <<>>
<1>1. SubSeq(q, 1, Len(q)) = q
  BY LenProperties, SubSeqFull
<1>2. SubSeq(q, n + 1, Len(q)) = <<>>
  BY LenProperties, SubSeqEmpty
<1> QED BY <1>1, <1>2 DEF TakeN, DropN

(* Sending moves all buffers of the pipe alike, round the ring. *)
LEMMA AdvanceTyped ==
  ASSUME conf \in Configs, NEW v \in Votes, NEW p \in Outs, NEW n \in Nat
  PROVE  /\ Advance(v, p, n) \in Votes
         /\ \A r \in Reps : Advance(v, p, n)[p][r].index = (v[p][r].index + n) % conf.Ring
         /\ \A q \in Outs \ {p} : Advance(v, p, n)[q] = v[q]
<1> DEFINE moved == [r \in Reps |-> [index |-> (v[p][r].index + n) % conf.Ring,
                                    q |-> DropN(v[p][r].q, n)]]
<1>1. ASSUME NEW r \in Reps
      PROVE  [index |-> (v[p][r].index + n) % conf.Ring, q |-> DropN(v[p][r].q, n)] \in Buff
  <2>1. v[p][r] \in Buff
    BY DEF Votes
  <2>2. v[p][r].index \in 0 .. conf.Ring - 1 /\ v[p][r].q \in Seq(Value)
    BY <2>1 DEF Buff
  <2>3. (v[p][r].index + n) % conf.Ring \in 0 .. conf.Ring - 1
    <3>1. \A a, m \in Nat : m # 0 => a % m \in 0 .. m - 1
      OBVIOUS
    <3>2. v[p][r].index + n \in Nat /\ conf.Ring \in Nat /\ conf.Ring # 0
      BY <2>2, ConfTyped
    <3> QED BY <3>1, <3>2
  <2>4. DropN(v[p][r].q, n) \in Seq(Value)
    BY <2>2, DropTyped
  <2> QED BY <2>3, <2>4 DEF Buff
<1>2. moved \in [Reps -> Buff]
  BY <1>1
<1>3. Advance(v, p, n) = [v EXCEPT ![p] = moved]
  BY DEF Advance
<1> HIDE DEF moved
<1>4. Advance(v, p, n) \in Votes /\ Advance(v, p, n)[p] = moved
      /\ \A q \in Outs \ {p} : Advance(v, p, n)[q] = v[q]
  BY <1>2, <1>3 DEF Votes
<1> QED BY <1>4 DEF moved

(* What is sent are votes, and the rest are votes. *)
LEMMA SendPipeTyped ==
  ASSUME conf \in Configs, NEW v \in Votes, NEW p \in Outs, NEW r \in Reps
  PROVE  /\ SendPipe(v, p, r).out \in Seq(Value)
         /\ \E n \in Nat : SendPipe(v, p, r).vot = Advance(v, p, n)
<1> DEFINE n == bytesReady(Counts(v)[p])
<1>1. n \in Nat /\ n <= Len(v[p][r].q)
  BY CountsTyped, BytesReadyTyped
<1>2. v[p][r].q \in Seq(Value)
  BY DEF Votes, Buff
<1>3. \A i \in 1 .. n : v[p][r].q[i] \in Value
  BY <1>1, <1>2, ElementOfSeq
<1>4. SubSeq(v[p][r].q, 1, n) \in Seq(Value)
  BY <1>1, <1>3, SubSeqProperties
<1> QED BY <1>1, <1>4 DEF SendPipe

(* A block read joins the votes if it fits; the ring index stays. *)
LEMMA PipeToBuffTyped ==
  ASSUME NEW b \in Buff, NEW block \in Seq(Value)
  PROVE  PipeToBuff(b, block) \in Buff /\ PipeToBuff(b, block).index = b.index
<1>1. b.q \o block \in Seq(Value)
  BY ConcatProperties DEF Buff
<1> QED BY <1>1 DEF PipeToBuff, Buff

(* The verdict of checkSDC names replicas; who is restarted is not the restarter. *)
LEMMA VerdictTyped ==
  ASSUME conf \in Configs, NEW v \in Votes, NEW p \in Outs
  PROVE  \/ checkSDC(v, p) = Wait
         \/ \E r \in Reps : checkSDC(v, p) = SendOf(r)
         \/ \E ee, er \in Reps : checkSDC(v, p) = RestartOf(ee, er) /\ ee # er
<1> DEFINE n == bytesReady(Counts(v)[p])
           b == v[p]
           Next3(r, d) == (r + d) % rep_count
           pairs == {r \in Reps : Agree(b[r], b[Next3(r, 1)], n)}
           first == CHOOSE r \in pairs : \A s \in pairs : r <= s
<1>1. CASE n = 0
  BY <1>1 DEF checkSDC
<1>2. CASE n # 0 /\ conf.RepType = "DMR"
  BY <1>2, TwoOrThree DEF checkSDC, Reps
<1>3. CASE n # 0 /\ conf.RepType # "DMR" /\ pairs = {}
  BY <1>3 DEF checkSDC
<1>4. CASE n # 0 /\ conf.RepType # "DMR" /\ pairs # {}
  <2>1. rep_count = 3 /\ Reps = {0, 1, 2}
    BY <1>4, ConfTyped, TwoOrThree DEF rep_count
  <2>2. first \in Reps
    <3>1. pairs \in SUBSET Nat
      BY TwoOrThree DEF Reps
    <3>2. \E r \in pairs : \A s \in pairs : r <= s
      BY <1>4, <3>1, LeastNat
    <3> HIDE DEF pairs
    <3>3. first \in pairs
      BY <3>2
    <3> QED BY <3>3 DEF pairs
  <2>3. Next3(first, 2) \in Reps /\ Next3(first, 2) # first
    <3> HIDE DEF first
    <3> QED BY <2>1, <2>2
  <2>4. \/ checkSDC(v, p) = SendOf(first)
        \/ checkSDC(v, p) = RestartOf(Next3(first, 2), first)
    BY <1>4 DEF checkSDC
  <2> HIDE DEF first
  <2> QED BY <2>2, <2>3, <2>4
<1> QED BY <1>1, <1>2, <1>3, <1>4

-----------------------------------------------------------------------------
(***************************************************************************)
(* Types, with what they rest on.  The read of processFromRep is of a      *)
(* descriptor that is left in select_set; a restart has a restarter other  *)
(* than the replica it replaces; and the ring indices are level, but for   *)
(* the empty buffers of the replica being replaced.                        *)
(***************************************************************************)
Jobs ==
  /\ pc \in {"steal", "accept"} => job.ee # job.er
  /\ pc = "rep" => ready.rep # {}
  /\ pc \in {"steal", "accept"} /\ job.ret = "rep" => ready.rep # {}

Level ==
  \A p \in Outs : \A r, s \in Reps :
    (pc = "accept" => r # job.ee /\ s # job.ee) => vot[p][r].index = vot[p][s].index

Inv == TypeOK /\ Jobs /\ Level

Output == [pipe : Outs, val : Value]

(* The parts of the type invariant, by owner. *)
VoterTyped ==
  /\ pc \in {"top", "select", "wait", "ext", "rep", "steal", "accept"}
  /\ timer \in BOOLEAN
  /\ ready \in [ext : BOOLEAN, rep : SUBSET (Outs \X Reps)]
  /\ vot \in Votes
  /\ prio \in [Reps -> 0 .. 2]
  /\ job \in [ee : Reps, er : Reps, stolen : Seq(Msg), ret : {"select", "top", "rep"}]
PipesTyped ==
  /\ extin \in Seq(Msg)
  /\ inq \in [Reps -> Seq(Msg)]
  /\ outq \in [Outs -> [Reps -> Seq(Value)]]
  /\ sent \in [Outs -> Seq(Value)]
RepsTyped ==
  /\ status \in [Reps -> {"ok", "hung", "dead"}]
  /\ work \in [Reps -> Seq(Output)]
  /\ sdc \in [Reps -> BOOLEAN]
  /\ child \in Process \cup {NoChild}
  /\ sched \in [Reps -> 0 .. 2]
  /\ handler \in SUBSET Reps
BoundsTyped ==
  given \in 0 .. MaxIn /\ faults \in 0 .. conf.MaxFaults /\ lates \in 0 .. conf.MaxLate

(* Together they are the type invariant. *)
LEMMA TypeParts ==
  TypeOK <=> conf \in Configs /\ VoterTyped /\ PipesTyped /\ RepsTyped /\ BoundsTyped
BY DEF TypeOK, VoterTyped, PipesTyped, RepsTyped, BoundsTyped, Votes, Output

(* With the configuration, what depends on it stays. *)
LEMMA ConfKept ==
  ASSUME conf' = conf
  PROVE  /\ rep_count' = rep_count /\ Reps' = Reps /\ Outs' = Outs /\ Buff' = Buff
         /\ Votes' = Votes /\ Output' = Output /\ Process' = Process
BY DEF rep_count, Reps, Outs, Buff, Votes, Output, Process

(* State that is not touched keeps its type. *)
LEMMA PartsKept ==
  ASSUME TypeOK, conf' = conf
  PROVE  /\ conf' \in Configs
         /\ UNCHANGED voterVars => VoterTyped'
         /\ UNCHANGED pipeVars => PipesTyped'
         /\ UNCHANGED repVars => RepsTyped'
         /\ UNCHANGED bounds => BoundsTyped'
<1>1. conf' \in Configs
  BY DEF TypeOK
<1>2. UNCHANGED voterVars => VoterTyped'
  BY TypeParts, ConfKept DEF VoterTyped, voterVars
<1>3. UNCHANGED pipeVars => PipesTyped'
  BY TypeParts, ConfKept DEF PipesTyped, pipeVars
<1>4. UNCHANGED repVars => RepsTyped'
  BY TypeParts, ConfKept DEF RepsTyped, repVars
<1>5. UNCHANGED bounds => BoundsTyped'
  BY TypeParts DEF BoundsTyped, bounds
<1> QED BY <1>1, <1>2, <1>3, <1>4, <1>5

(* The parts after a step make the type invariant after it. *)
LEMMA TypeNext ==
  ASSUME conf' \in Configs, VoterTyped', PipesTyped', RepsTyped', BoundsTyped'
  PROVE  TypeOK'
BY DEF TypeOK, VoterTyped, PipesTyped, RepsTyped, BoundsTyped, Votes, Output

(* A function on 1 .. n is a sequence. *)
LEMMA FcnIsSeq ==
  ASSUME NEW S, NEW n \in Nat, NEW f \in [1 .. n -> S]
  PROVE  f \in Seq(S)
BY SeqDef

(* Steps of the surroundings: the voter's state, and so its invariant, stays. *)
LEMMA VoterKept ==
  ASSUME Jobs, Level, conf' = conf, UNCHANGED voterVars
  PROVE  Jobs' /\ Level'
BY ConfKept DEF Jobs, Level, voterVars

(* The steps of the environment, the replicas and the upsets. *)
LEMMA AroundTyped ==
  ASSUME TypeOK, conf' = conf,
         \/ EnvSend \/ Fork
         \/ \E r \in Reps : \/ RepRead(r) \/ RepWrite(r) \/ Resume(r)
                            \/ Crash(r) \/ Hang(r) \/ Corrupt(r)
  PROVE  TypeOK' /\ UNCHANGED voterVars
<1> USE ConfKept, PartsKept
<1>0. conf \in Configs /\ VoterTyped /\ PipesTyped /\ RepsTyped /\ BoundsTyped
  BY TypeParts
<1>1. CASE EnvSend
  <2>1. UNCHANGED voterVars /\ UNCHANGED repVars
    BY <1>1 DEF EnvSend
  <2>2. given + 1 \in Msg /\ extin' = Append(extin, given + 1)
    BY <1>0, <1>1, BoundAssumption DEF EnvSend, BoundsTyped, Msg
  <2>3. PipesTyped'
    BY <1>0, <1>1, <2>2 DEF EnvSend, PipesTyped
  <2>4. BoundsTyped'
    BY <1>0, <1>1, BoundAssumption DEF EnvSend, BoundsTyped
  <2> QED BY <2>1, <2>3, <2>4, TypeNext
<1>2. ASSUME NEW r \in Reps, RepRead(r) PROVE TypeOK' /\ UNCHANGED voterVars
  <2> DEFINE val == IF sdc[r] THEN -Head(inq[r]) ELSE Head(inq[r])
             outputs == [p \in Outs |-> [pipe |-> p, val |-> val]]
  <2>1. UNCHANGED voterVars /\ UNCHANGED bounds
    BY <1>2 DEF RepRead
  <2>2. inq[r] # <<>> /\ inq[r] \in Seq(Msg)
    BY <1>0, <1>2 DEF RepRead, PipesTyped
  <2>3. Head(inq[r]) \in Msg /\ Tail(inq[r]) \in Seq(Msg)
    BY <2>2
  <2>4. val \in Value
    <3>1. Head(inq[r]) \in Value /\ -Head(inq[r]) \in Value
      BY <2>3, BoundAssumption DEF Msg, Value
    <3> QED BY <3>1
  <2>5. outputs \in Seq(Output)
    <3> HIDE DEF val
    <3>1. outputs \in [1 .. conf.NOut -> Output]
      BY <2>4 DEF Outs, Output
    <3> QED BY <1>0, <3>1, ConfTyped, FcnIsSeq
  <2>6. /\ work' = [work EXCEPT ![r] = outputs] /\ inq' = [inq EXCEPT ![r] = Tail(inq[r])]
        /\ sdc' = [sdc EXCEPT ![r] = FALSE]
        /\ UNCHANGED <<extin, outq, sent, status, child, sched, handler>>
    BY <1>2 DEF RepRead
  <2>7. PipesTyped'
    BY <1>0, <2>3, <2>6 DEF PipesTyped
  <2>8. RepsTyped'
    <3> HIDE DEF outputs
    <3>1. work' \in [Reps -> Seq(Output)]
      BY <1>0, <2>5, <2>6 DEF RepsTyped
    <3>2. sdc' \in [Reps -> BOOLEAN]
      BY <1>0, <2>6 DEF RepsTyped
    <3> QED BY <1>0, <2>6, <3>1, <3>2 DEF RepsTyped
  <2> QED BY <2>1, <2>7, <2>8, TypeNext
<1>3. ASSUME NEW r \in Reps, RepWrite(r) PROVE TypeOK' /\ UNCHANGED voterVars
  <2> DEFINE w == Head(work[r])
  <2>1. UNCHANGED voterVars /\ UNCHANGED bounds
    BY <1>3 DEF RepWrite
  <2>2. work[r] # <<>> /\ work[r] \in Seq(Output)
    BY <1>0, <1>3 DEF RepWrite, RepsTyped
  <2>3. w \in Output /\ Tail(work[r]) \in Seq(Output)
    BY <2>2
  <2>4. w.pipe \in Outs /\ w.val \in Value
    BY <2>3 DEF Output
  <2>5. outq' \in [Outs -> [Reps -> Seq(Value)]]
    <3>1. outq[w.pipe] \in [Reps -> Seq(Value)] /\ outq[w.pipe][r] \in Seq(Value)
      BY <1>0, <2>4 DEF PipesTyped
    <3>2. Append(outq[w.pipe][r], w.val) \in Seq(Value)
      BY <2>4, <3>1
    <3>3. outq' = [outq EXCEPT ![w.pipe] = [outq[w.pipe] EXCEPT ![r] = Append(outq[w.pipe][r], w.val)]]
      BY <1>3 DEF RepWrite
    <3>4. [outq[w.pipe] EXCEPT ![r] = Append(outq[w.pipe][r], w.val)] \in [Reps -> Seq(Value)]
      BY <3>1, <3>2
    <3> QED BY <1>0, <2>4, <3>3, <3>4 DEF PipesTyped
  <2>6. PipesTyped'
    BY <1>0, <1>3, <2>5 DEF RepWrite, PipesTyped
  <2>7. work' \in [Reps -> Seq(Output)]
    BY <1>0, <1>3, <2>3 DEF RepWrite, RepsTyped
  <2>8. RepsTyped'
    BY <1>0, <1>3, <2>7 DEF RepWrite, RepsTyped
  <2> QED BY <2>1, <2>6, <2>8, TypeNext
<1>4. CASE Fork
  <2>1. UNCHANGED voterVars /\ UNCHANGED pipeVars /\ UNCHANGED bounds
    BY <1>4 DEF Fork
  <2>2. job.er \in Reps
    BY <1>0 DEF VoterTyped
  <2>3. child' \in Process
    <3>1. status[job.er] \in {"ok", "hung"} /\ work[job.er] \in Seq([pipe : Outs, val : Value])
      BY <1>0, <1>4, <2>2 DEF Fork, RepsTyped, Output
    <3>2. sdc[job.er] \in BOOLEAN
      BY <1>0, <2>2 DEF RepsTyped
    <3> QED BY <1>4, <3>1, <3>2 DEF Fork, Process
  <2>4. RepsTyped'
    BY <1>0, <1>4, <2>2, <2>3 DEF Fork, RepsTyped
  <2> QED BY <2>1, <2>4, TypeNext
<1>5. ASSUME NEW r \in Reps, Resume(r) PROVE TypeOK' /\ UNCHANGED voterVars
  <2>1. UNCHANGED voterVars /\ UNCHANGED pipeVars /\ UNCHANGED bounds
    BY <1>5 DEF Resume
  <2>2. RepsTyped'
    BY <1>0, <1>5 DEF Resume, RepsTyped
  <2> QED BY <2>1, <2>2, TypeNext
<1>6. ASSUME NEW r \in Reps, Crash(r) \/ Hang(r) \/ Corrupt(r)
      PROVE  TypeOK' /\ UNCHANGED voterVars
  <2>1. UNCHANGED voterVars /\ UNCHANGED pipeVars
    BY <1>6 DEF Crash, Hang, Corrupt
  <2>2. BoundsTyped'
    <3>1. faults' \in 0 .. conf.MaxFaults /\ UNCHANGED <<given, lates>>
      BY <1>0, <1>6, ConfTyped DEF Crash, Hang, Corrupt, Upset, BoundsTyped
    <3> QED BY <1>0, <3>1 DEF BoundsTyped
  <2>3. RepsTyped'
    <3>1. status' \in [Reps -> {"ok", "hung", "dead"}]
      BY <1>0, <1>6 DEF Crash, Hang, Corrupt, RepsTyped
    <3>2. sdc' \in [Reps -> BOOLEAN]
      BY <1>0, <1>6 DEF Crash, Hang, Corrupt, RepsTyped
    <3> QED BY <1>0, <1>6, <3>1, <3>2 DEF Crash, Hang, Corrupt, RepsTyped
  <2> QED BY <2>1, <2>2, <2>3, TypeNext
<1> QED BY <1>1, <1>2, <1>3, <1>4, <1>5, <1>6

(* The watchdog: the one behind is a replica, its neighbour another. *)
LEMMA InvExpire ==
  ASSUME Inv, conf' = conf, Expire
  PROVE  Inv'
<1> USE ConfKept, PartsKept
<1> DEFINE ee == behindRep(Counts(vot)[conf.TimerStop], prio)
<1>0. conf \in Configs /\ VoterTyped /\ PipesTyped /\ RepsTyped /\ BoundsTyped /\ TypeOK
  BY TypeParts DEF Inv
<1>1. /\ pc' = "steal" /\ job' = [ee |-> ee, er |-> Neighbour(ee), stolen |-> <<>>, ret |-> "select"]
      /\ UNCHANGED <<timer, ready, vot, prio, pipeVars, repVars, given, faults>>
      /\ pc # "accept"
  BY DEF Expire, voterRestartHandler
<1>2. ee \in Reps /\ Neighbour(ee) \in Reps /\ Neighbour(ee) # ee
  <2>1. Counts(vot)[conf.TimerStop] \in [Reps -> Nat]
    BY <1>0, ConfTyped, CountsTyped DEF VoterTyped
  <2>2. ee \in Reps
    BY <1>0, <2>1, BehindRepTyped DEF VoterTyped
  <2> QED BY <2>2, NeighbourOther
<1> HIDE DEF ee
<1>3. job' \in [ee : Reps, er : Reps, stolen : Seq(Msg), ret : {"select", "top", "rep"}]
  BY <1>1, <1>2
<1>4. VoterTyped'
  BY <1>0, <1>1, <1>3 DEF VoterTyped
<1>5. BoundsTyped'
  <2>1. lates' \in 0 .. conf.MaxLate
    BY <1>0, ConfTyped DEF Expire, BoundsTyped
  <2> QED BY <1>0, <1>1, <2>1 DEF BoundsTyped
<1>6. TypeOK'
  BY <1>0, <1>1, <1>4, <1>5, TypeNext
<1>7. Jobs'
  BY <1>1, <1>2 DEF Jobs
<1>8. Level'
  BY <1>1 DEF Inv, Level
<1> QED BY <1>6, <1>7, <1>8 DEF Inv

(* select: it reports only pipes there are. *)
LEMMA InvSelect ==
  ASSUME Inv, conf' = conf, Select
  PROVE  Inv'
<1> USE ConfKept, PartsKept
<1>0. conf \in Configs /\ VoterTyped /\ PipesTyped /\ RepsTyped /\ BoundsTyped /\ TypeOK
  BY TypeParts DEF Inv
<1>1. /\ pc \in {"top", "select", "wait"} /\ ready' = SelectSet
      /\ UNCHANGED <<vot, prio, job, pipeVars, repVars, bounds>>
  BY DEF Select
<1>2. SelectSet \in [ext : BOOLEAN, rep : SUBSET (Outs \X Reps)]
  BY DEF SelectSet
<1>3. pc' \in {"ext", "rep", "wait"} /\ (pc' = "rep" => ready'.rep # {})
  BY <1>1 DEF Select
<1>4. timer' \in BOOLEAN
  BY Zenon DEF Select
<1>5. VoterTyped'
  BY <1>0, <1>1, <1>2, <1>3, <1>4 DEF VoterTyped
<1>6. TypeOK'
  BY <1>0, <1>1, <1>5, TypeNext
<1>7. Jobs'
  BY <1>3 DEF Jobs
<1>8. Level'
  BY <1>1, <1>3 DEF Inv, Level
<1> QED BY <1>6, <1>7, <1>8 DEF Inv

(* The read of the external pipe leaves the rest of select_set. *)
LEMMA InvReadExt ==
  ASSUME Inv, conf' = conf, ReadExt
  PROVE  Inv'
<1> USE ConfKept, PartsKept
<1> DEFINE wanted == balanceReps(Counts(vot), rep_count)
<1>0. conf \in Configs /\ VoterTyped /\ PipesTyped /\ RepsTyped /\ BoundsTyped /\ TypeOK
  BY TypeParts DEF Inv
<1> DEFINE data == TakeN(extin, conf.Block)
<1>1. /\ pc = "ext" /\ ready' = [ready EXCEPT !.ext = FALSE]
      /\ extin' = DropN(extin, conf.Block)
      /\ inq' = [r \in Reps |-> inq[r] \o data]
      /\ pc' = IF ready.rep # {} THEN "rep" ELSE "top"
      /\ UNCHANGED <<vot, job, outq, sent, status, work, sdc, child, handler, bounds>>
  BY DEF ReadExt, processData
<1>2. wanted \in [Reps -> 0 .. 2]
  BY BalanceTyped
<1>3. prio' \in [Reps -> 0 .. 2] /\ sched' \in [Reps -> 0 .. 2]
  <2> HIDE DEF wanted
  <2>1. /\ \E stuck \in SUBSET {r \in Reps : status[r] = "dead"} :
              prio' = [r \in Reps |-> IF r \in stuck THEN prio[r] ELSE wanted[r]]
        /\ sched' = wanted
    BY DEF ReadExt, processData, SetPriorities, wanted
  <2> QED BY <1>0, <1>2, <2>1 DEF VoterTyped
<1>4. ready' \in [ext : BOOLEAN, rep : SUBSET (Outs \X Reps)] /\ ready'.rep = ready.rep
  BY <1>0, <1>1 DEF VoterTyped
<1>5. timer' \in BOOLEAN
  BY Zenon DEF ReadExt, processData
<1>6. VoterTyped'
  BY <1>0, <1>1, <1>3, <1>4, <1>5 DEF VoterTyped
<1>7. inq' \in [Reps -> Seq(Msg)] /\ extin' \in Seq(Msg)
  <2>1. data \in Seq(Msg) /\ extin' \in Seq(Msg)
    BY <1>0, <1>1, ConfTyped, ReadTyped DEF PipesTyped
  <2> HIDE DEF data
  <2>2. \A r \in Reps : inq[r] \o data \in Seq(Msg)
    BY <1>0, <2>1, ConcatProperties DEF PipesTyped
  <2> QED BY <1>1, <2>1, <2>2
<1>8. PipesTyped'
  BY <1>0, <1>1, <1>7 DEF PipesTyped
<1>9. RepsTyped'
  BY <1>0, <1>1, <1>3 DEF RepsTyped
<1>10. TypeOK'
  BY <1>0, <1>1, <1>6, <1>8, <1>9, TypeNext
<1>11. Jobs'
  BY <1>1, <1>4 DEF Jobs
<1>12. Level'
  BY <1>1 DEF Inv, Level
<1> QED BY <1>10, <1>11, <1>12 DEF Inv

(* restart_prep: the restartee's buffers are new, those of the others stay level. *)
LEMMA InvSteal ==
  ASSUME Inv, conf' = conf, Steal
  PROVE  Inv'
<1> USE ConfKept, PartsKept
<1> DEFINE ee == job.ee
           er == job.er
<1>0. conf \in Configs /\ VoterTyped /\ PipesTyped /\ RepsTyped /\ BoundsTyped /\ TypeOK
  BY TypeParts DEF Inv
<1> DEFINE taken == TakeN(inq[er], conf.Block)
           rest == DropN(inq[er], conf.Block)
<1>1. /\ pc = "steal" /\ pc' = "accept" /\ job' = [job EXCEPT !.stolen = taken]
      /\ inq' = [inq EXCEPT ![er] = rest, ![ee] = <<>>]
      /\ outq' = [p \in Outs |-> [outq[p] EXCEPT ![ee] = <<>>]]
      /\ vot' = [p \in Outs |-> [vot[p] EXCEPT ![ee] = EmptyBuff]]
      /\ UNCHANGED <<ready, extin, sent, child, bounds>>
  BY DEF Steal, stealPipes, createPipes
<1>2. ee \in Reps /\ er \in Reps /\ taken \in Seq(Msg) /\ rest \in Seq(Msg)
  <2>1. ee \in Reps /\ er \in Reps /\ inq[er] \in Seq(Msg)
    BY <1>0 DEF VoterTyped, PipesTyped
  <2> QED BY <1>0, <2>1, ConfTyped, ReadTyped
<1> HIDE DEF taken, rest
<1>3. /\ job' \in [ee : Reps, er : Reps, stolen : Seq(Msg), ret : {"select", "top", "rep"}]
      /\ job'.ee = job.ee /\ job'.er = job.er /\ job'.ret = job.ret
  BY <1>0, <1>1, <1>2 DEF VoterTyped
<1>4. vot' \in Votes
  <2>1. EmptyBuff \in Buff
    BY <1>0, ConfTyped DEF EmptyBuff, Buff
  <2> QED BY <1>0, <1>1, <1>2, <2>1 DEF VoterTyped, Votes
<1>5. prio' \in [Reps -> 0 .. 2] /\ sched' \in [Reps -> 0 .. 2]
  BY <1>0 DEF Steal, RestarterFirst, VoterTyped
<1>6. timer' \in BOOLEAN
  BY Zenon DEF Steal
<1>7. VoterTyped'
  BY <1>0, <1>1, <1>3, <1>4, <1>5, <1>6 DEF VoterTyped
<1>8. PipesTyped'
  <2>0. inq \in [Reps -> Seq(Msg)] /\ outq \in [Outs -> [Reps -> Seq(Value)]]
    BY <1>0 DEF PipesTyped
  <2>1. inq' \in [Reps -> Seq(Msg)]
    <3>1. <<>> \in Seq(Msg)
      OBVIOUS
    <3> QED BY <1>1, <1>2, <2>0, <3>1
  <2>2. outq' \in [Outs -> [Reps -> Seq(Value)]]
    <3>1. <<>> \in Seq(Value)
      OBVIOUS
    <3>2. \A p \in Outs : [outq[p] EXCEPT ![ee] = <<>>] \in [Reps -> Seq(Value)]
      BY <2>0, <3>1
    <3> QED BY <1>1, <3>2
  <2> QED BY <1>0, <1>1, <2>1, <2>2 DEF PipesTyped
<1>9. RepsTyped'
  <2>1. status' \in [Reps -> {"ok", "hung", "dead"}] /\ work' \in [Reps -> Seq(Output)]
    <3>1. <<>> \in Seq(Output)
      OBVIOUS
    <3>2. /\ status' = [status EXCEPT ![ee] = "dead"] /\ work' = [work EXCEPT ![ee] = <<>>]
          /\ status \in [Reps -> {"ok", "hung", "dead"}] /\ work \in [Reps -> Seq(Output)]
      BY <1>0 DEF Steal, cleanupReplica, RepsTyped
    <3> QED BY <3>1, <3>2
  <2>2. sdc' \in [Reps -> BOOLEAN] /\ handler' \in SUBSET Reps
    BY <1>0 DEF Steal, cleanupReplica, RepsTyped
  <2> QED BY <1>0, <1>1, <1>5, <2>1, <2>2 DEF RepsTyped
<1>10. TypeOK'
  BY <1>0, <1>1, <1>7, <1>8, <1>9, TypeNext
<1>11. Jobs'
  BY <1>1, <1>3 DEF Inv, Jobs
<1>12. Level'
  <2> SUFFICES ASSUME NEW p \in Outs, NEW r \in Reps, NEW s \in Reps, r # job.ee, s # job.ee
               PROVE  vot'[p][r].index = vot'[p][s].index
    BY <1>1, <1>3 DEF Level
  <2>1. vot'[p][r] = vot[p][r] /\ vot'[p][s] = vot[p][s]
    BY <1>0, <1>1 DEF VoterTyped, Votes
  <2> QED BY <1>1, <2>1 DEF Inv, Level
<1> QED BY <1>10, <1>11, <1>12 DEF Inv

(* The hand-over: the restartee gets the restarter's index with its votes. *)
LEMMA InvHandOver ==
  ASSUME Inv, conf' = conf, HandOver
  PROVE  Inv'
<1> USE ConfKept, PartsKept
<1> DEFINE ee == job.ee
           er == job.er
           v == CopyVotes(vot, ee, er)
           wanted == balanceReps(Counts(vot), rep_count)
<1>0. conf \in Configs /\ VoterTyped /\ PipesTyped /\ RepsTyped /\ BoundsTyped /\ TypeOK
  BY TypeParts DEF Inv
<1>1. /\ pc = "accept" /\ child # NoChild /\ child' = NoChild /\ pc' = job.ret
      /\ job' = [job EXCEPT !.stolen = <<>>]
      /\ status' = [status EXCEPT ![ee] = child.status]
      /\ work' = [work EXCEPT ![ee] = child.work]
      /\ sdc' = [sdc EXCEPT ![ee] = child.sdc]
      /\ vot' = [p \in Outs |-> SendPipe(v, p, er).vot[p]]
      /\ sent' = [p \in Outs |-> sent[p] \o SendPipe(v, p, er).out]
      /\ inq' = [inq EXCEPT ![ee] = inq[ee] \o job.stolen, ![er] = inq[er] \o job.stolen]
      /\ UNCHANGED <<timer, ready, extin, outq, handler, bounds>>
  BY DEF HandOver, returnPipes
<1>2. ee \in Reps /\ er \in Reps /\ ee # er /\ job.stolen \in Seq(Msg)
  BY <1>0, <1>1 DEF VoterTyped, Inv, Jobs
<1>3. v \in Votes /\ \A p \in Outs : \A r, s \in Reps : v[p][r].index = v[p][s].index
  <2>1. \A p \in Outs : v[p] \in [Reps -> Buff] /\ \A r \in Reps : v[p][r] = IF r = ee THEN vot[p][er] ELSE vot[p][r]
    BY <1>0, <1>2 DEF CopyVotes, VoterTyped, Votes
  <2>2. v \in Votes
    BY <2>1 DEF CopyVotes, Votes
  <2>3. \A p \in Outs : \A r \in Reps : v[p][r].index = vot[p][er].index
    BY <1>1, <1>2, <2>1 DEF Inv, Level
  <2> QED BY <2>2, <2>3
<1>4. ASSUME NEW p \in Outs
      PROVE  /\ SendPipe(v, p, er).out \in Seq(Value)
             /\ SendPipe(v, p, er).vot[p] \in [Reps -> Buff]
             /\ \A r, s \in Reps : SendPipe(v, p, er).vot[p][r].index = SendPipe(v, p, er).vot[p][s].index
  <2> HIDE DEF v
  <2>1. PICK n \in Nat : SendPipe(v, p, er).vot = Advance(v, p, n)
    BY <1>0, <1>2, <1>3, SendPipeTyped
  <2>2. SendPipe(v, p, er).out \in Seq(Value)
    BY <1>0, <1>2, <1>3, SendPipeTyped
  <2>3. /\ Advance(v, p, n) \in Votes
        /\ \A r \in Reps : Advance(v, p, n)[p][r].index = (v[p][r].index + n) % conf.Ring
    BY <1>0, <1>3, AdvanceTyped
  <2>4. Advance(v, p, n)[p] \in [Reps -> Buff]
    BY <2>3 DEF Votes
  <2>5. \A r, s \in Reps : Advance(v, p, n)[p][r].index = Advance(v, p, n)[p][s].index
    BY <1>3, <2>3
  <2> QED BY <2>1, <2>2, <2>4, <2>5
<1> HIDE DEF v
<1>5. vot' \in Votes
  BY <1>1, <1>4 DEF Votes
<1>6. /\ job' \in [ee : Reps, er : Reps, stolen : Seq(Msg), ret : {"select", "top", "rep"}]
      /\ pc' \in {"select", "top", "rep"}
      /\ job'.ret = job.ret
  <2>1. <<>> \in Seq(Msg)
    OBVIOUS
  <2>2. job \in [ee : Reps, er : Reps, stolen : Seq(Msg), ret : {"select", "top", "rep"}]
    BY <1>0 DEF VoterTyped
  <2> QED BY <1>1, <2>1, <2>2
<1>7. prio' \in [Reps -> 0 .. 2] /\ sched' \in [Reps -> 0 .. 2]
  <2>1. wanted \in [Reps -> 0 .. 2]
    BY BalanceTyped
  <2>2. /\ \E stuck \in SUBSET {r \in Reps : status'[r] = "dead"} :
              prio' = [r \in Reps |-> IF r \in stuck THEN prio[r] ELSE wanted[r]]
        /\ sched' = wanted
    BY DEF HandOver, SetPriorities
  <2> HIDE DEF wanted
  <2> QED BY <1>0, <2>1, <2>2 DEF VoterTyped
<1>8. VoterTyped'
  BY <1>0, <1>1, <1>5, <1>6, <1>7 DEF VoterTyped
<1>9. PipesTyped'
  <2>1. sent' \in [Outs -> Seq(Value)]
    <3>1. \A p \in Outs : sent[p] \o SendPipe(v, p, er).out \in Seq(Value)
      BY <1>0, <1>4, ConcatProperties DEF PipesTyped
    <3> QED BY <1>1, <3>1
  <2>2. inq' \in [Reps -> Seq(Msg)]
    <3>1. inq[ee] \o job.stolen \in Seq(Msg) /\ inq[er] \o job.stolen \in Seq(Msg)
      BY <1>0, <1>2, ConcatProperties DEF PipesTyped
    <3> QED BY <1>0, <1>1, <3>1 DEF PipesTyped
  <2> QED BY <1>0, <1>1, <2>1, <2>2 DEF PipesTyped
<1>10. RepsTyped'
  <2>1. child \in Process
    BY <1>0, <1>1 DEF RepsTyped
  <2>2. status' \in [Reps -> {"ok", "hung", "dead"}] /\ work' \in [Reps -> Seq(Output)]
    BY <1>0, <1>1, <2>1 DEF Process, RepsTyped, Output
  <2>3. sdc' \in [Reps -> BOOLEAN]
    BY <1>0, <1>1, <2>1 DEF Process, RepsTyped
  <2> QED BY <1>0, <1>1, <1>7, <2>2, <2>3 DEF RepsTyped
<1>11. TypeOK'
  BY <1>0, <1>1, <1>8, <1>9, <1>10, TypeNext
<1>12. Jobs'
  BY <1>1, <1>6 DEF Inv, Jobs
<1>13. Level'
  BY <1>1, <1>4 DEF Level
<1> QED BY <1>11, <1>12, <1>13 DEF Inv

(* The priorities follow the votes: after a read that fits they are those      *)
(* balanceReps finds for the votes that are left.                              *)
ReadFits ==
  pc = "rep" =>
    Len(outq[FirstReady[1]][FirstReady[2]]) < conf.Ring - Len(vot[FirstReady[1]][FirstReady[2]].q)

LEMMA Rebalanced ==
  ASSUME Inv, conf' = conf, FromRep, ReadFits
  PROVE  SetPriorities(status, balanceReps(Counts(vot'), rep_count))
<1> USE ConfKept, PartsKept
<1> DEFINE p == FirstReady[1]
           r == FirstReady[2]
           v == [vot EXCEPT ![p][r] = PipeToBuff(@, outq[p][r])]
           verdict == checkSDC(v, p)
<1>0. conf \in Configs /\ VoterTyped /\ PipesTyped
  BY TypeParts DEF Inv
<1>1. /\ SetPriorities(status, balanceReps(Counts(v), rep_count))
      /\ vot' = v \/ vot' = SendPipe(v, p, verdict.rep).vot
  BY DEF FromRep, ReadFits
<1>2. p \in Outs /\ r \in Reps
  BY <1>0, FirstReadyTyped DEF VoterTyped, Inv, Jobs, FromRep
<1>3. v \in Votes
  <2>1. /\ vot \in Votes /\ vot[p] \in [Reps -> Buff] /\ vot[p][r] \in Buff
        /\ outq[p][r] \in Seq(Value)
    BY <1>0, <1>2 DEF VoterTyped, PipesTyped, Votes
  <2> DEFINE b == PipeToBuff(vot[p][r], outq[p][r])
  <2>2. b \in Buff
    BY <2>1, PipeToBuffTyped
  <2>3. v = [vot EXCEPT ![p] = [vot[p] EXCEPT ![r] = b]]
    BY <1>2, <2>1 DEF Votes
  <2> HIDE DEF b, v
  <2>4. [vot[p] EXCEPT ![r] = b] \in [Reps -> Buff]
    BY <2>1, <2>2
  <2> QED BY <1>2, <2>1, <2>3, <2>4 DEF Votes
<1> HIDE DEF v, p, r, verdict
<1>4. CASE vot' = v
  BY <1>1, <1>4
<1>5. CASE vot' = SendPipe(v, p, verdict.rep).vot
  <2> DEFINE n == bytesReady(Counts(v)[p])
             w == Advance(v, p, n)
             k == [q \in Outs |-> IF q = p THEN n ELSE 0]
  <2>1. vot' = w
    BY <1>5 DEF SendPipe
  <2>2. n \in Nat /\ \A t \in Reps : n <= Len(v[p][t].q)
    BY <1>2, <1>3, CountsTyped, BytesReadyTyped
  <2>3. w \in Votes /\ \A q \in Outs \ {p} : w[q] = v[q]
    BY <1>0, <1>2, <1>3, <2>2, AdvanceTyped
  <2>4. ASSUME NEW t \in Reps PROVE Len(w[p][t].q) = Len(v[p][t].q) - n
    <3>1. w[p][t].q = DropN(v[p][t].q, n)
      <4>1. w[p] = [u \in Reps |-> [index |-> (v[p][u].index + n) % conf.Ring,
                                    q |-> DropN(v[p][u].q, n)]]
        BY <1>2, <1>3 DEF Advance, Votes
      <4> HIDE DEF w
      <4> QED BY <4>1
    <3>2. v[p][t].q \in Seq(Value) /\ n <= Len(v[p][t].q)
      BY <1>2, <1>3, <2>2 DEF Votes, Buff
    <3> DEFINE q == v[p][t].q
    <3>3. Len(DropN(q, n)) = Len(q) - n
      <4> HIDE DEF n, q
      <4>1. q \in Seq(Value) /\ Len(q) \in Nat /\ n \in Nat /\ n <= Len(q)
        BY <2>2, <3>2, LenProperties DEF q
      <4>2. \A i \in n + 1 .. Len(q) : q[i] \in Value
        BY <4>1, ElementOfSeq
      <4>3. Len(SubSeq(q, n + 1, Len(q))) = IF n + 1 <= Len(q) THEN Len(q) - (n + 1) + 1 ELSE 0
        BY <4>1, <4>2, SubSeqProperties
      <4> QED BY <4>1, <4>3 DEF DropN
    <3> QED BY <3>1, <3>3
  <2> HIDE DEF n, w
  <2>5. k \in [Outs -> Nat]
    BY <2>2
  <2>6. Counts(v) \in [Outs -> [Reps -> Nat]] /\ Counts(w) \in [Outs -> [Reps -> Nat]]
    BY <1>3, <2>3 DEF Counts, Votes, Buff
  <2>7. ASSUME NEW q \in Outs, NEW t \in Reps PROVE Counts(w)[q][t] = Counts(v)[q][t] - k[q]
    <3>1. Counts(w)[q][t] = Len(w[q][t].q) /\ Counts(v)[q][t] = Len(v[q][t].q)
      BY <1>3, <2>3, CountsTyped
    <3>2. CASE q = p
      BY <2>4, <3>1, <3>2
    <3>3. CASE q # p
      <4>1. w[q] = v[q] /\ k[q] = 0 /\ Counts(v)[q][t] \in Nat
        BY <2>3, <2>6, <3>3
      <4>2. Counts(w)[q][t] = Counts(v)[q][t]
        BY <3>1, <4>1
      <4> QED BY <4>1, <4>2
    <3> QED BY <3>2, <3>3
  <2> HIDE DEF k
  <2>8. balanceReps(Counts(w), rep_count) = balanceReps(Counts(v), rep_count)
    BY <1>0, <2>5, <2>6, <2>7, BalanceSent
  <2> QED BY <1>1, <2>1, <2>8
<1> QED BY <1>1, <1>4, <1>5

(* With what fits, balanceReps serves the replica first that is furthest behind. *)
LEMMA FurthestFirst ==
  ASSUME Inv, Inv', conf' = conf, FromRep, ReadFits, NEW r \in Reps, status[r] = "ok", prio'[r] = 2
  PROVE  r \in Furthest(Counts(vot'))
<1> USE ConfKept, PartsKept
<1>1. conf \in Configs /\ vot' \in Votes
  <2>1. TypeOK' /\ conf \in Configs
    BY TypeParts DEF Inv
  <2>2. vot' \in Votes'
    BY <2>1 DEF TypeOK, Votes
  <2> QED BY <2>1, <2>2
<1>2. Counts(vot') \in [Outs -> [Reps -> Nat]]
  BY <1>1 DEF Counts, Votes, Buff
<1>3. SetPriorities(status, balanceReps(Counts(vot'), rep_count))
  BY Rebalanced
<1>4. balanceReps(Counts(vot'), rep_count)[r] = 2
  BY <1>3 DEF SetPriorities
<1> QED BY <1>1, <1>2, <1>4, BalanceFirst

(* processFromRep: the votes of one replica grow, or all of the pipe are sent alike. *)
LEMMA InvFromRep ==
  ASSUME Inv, conf' = conf, FromRep
  PROVE  Inv'
<1> USE ConfKept, PartsKept
<1> DEFINE p == FirstReady[1]
           r == FirstReady[2]
           v == [vot EXCEPT ![p][r] = PipeToBuff(@, outq[p][r])]
           fits == Len(outq[p][r]) < conf.Ring - Len(vot[p][r].q)
           verdict == IF fits THEN checkSDC(v, p) ELSE Wait
           left == ready.rep \ {<<p, r>>}
           onward == IF left = {} THEN "top" ELSE "rep"
           wanted == balanceReps(Counts(v), rep_count)
<1>0. conf \in Configs /\ VoterTyped /\ PipesTyped /\ RepsTyped /\ BoundsTyped /\ TypeOK
  BY TypeParts DEF Inv
<1>1. /\ pc = "rep" /\ outq' = [outq EXCEPT ![p][r] = DropN(outq[p][r], conf.Ring)]
      /\ ready' = [ready EXCEPT !.rep = left]
      /\ UNCHANGED <<extin, inq, status, work, sdc, child, handler, bounds>>
  BY DEF FromRep
<1>2. p \in Outs /\ r \in Reps
  BY <1>0, <1>1, FirstReadyTyped DEF VoterTyped, Inv, Jobs
<1>3. /\ v \in Votes
      /\ \A q \in Outs : \A t \in Reps : v[q][t].index = vot[q][t].index
  <2>1. /\ vot \in Votes /\ vot[p] \in [Reps -> Buff] /\ vot[p][r] \in Buff
        /\ outq[p][r] \in Seq(Value)
    BY <1>0, <1>2 DEF VoterTyped, PipesTyped, Votes
  <2> DEFINE b == PipeToBuff(vot[p][r], outq[p][r])
  <2>2. b \in Buff /\ b.index = vot[p][r].index
    BY <2>1, PipeToBuffTyped
  <2>3. v = [vot EXCEPT ![p] = [vot[p] EXCEPT ![r] = b]]
    BY <1>2, <2>1 DEF Votes
  <2> HIDE DEF b, v
  <2>4. [vot[p] EXCEPT ![r] = b] \in [Reps -> Buff]
    BY <2>1, <2>2
  <2>5. v \in Votes
    BY <1>2, <2>1, <2>3, <2>4 DEF Votes
  <2>6. \A q \in Outs : \A t \in Reps : v[q][t] = IF q = p /\ t = r THEN b ELSE vot[q][t]
    BY <1>2, <2>1, <2>3 DEF Votes
  <2>7. \A q \in Outs : \A t \in Reps : v[q][t].index = vot[q][t].index
    BY <2>2, <2>6
  <2> QED BY <2>5, <2>7
<1>4. \/ verdict = Wait
      \/ \E t \in Reps : verdict = SendOf(t)
      \/ \E ee, er \in Reps : verdict = RestartOf(ee, er) /\ ee # er
  BY <1>0, <1>2, <1>3, VerdictTyped
<1>5. prio' \in [Reps -> 0 .. 2] /\ sched' \in [Reps -> 0 .. 2]
  <2>1. wanted \in [Reps -> 0 .. 2]
    BY BalanceTyped
  <2>2. \/ /\ \E stuck \in SUBSET {t \in Reps : status[t] = "dead"} :
                 prio' = [t \in Reps |-> IF t \in stuck THEN prio[t] ELSE wanted[t]]
           /\ sched' = wanted
        \/ UNCHANGED <<prio, sched>>
    BY DEF FromRep, SetPriorities
  <2> HIDE DEF wanted
  <2> QED BY <1>0, <2>1, <2>2 DEF VoterTyped, RepsTyped
<1>6. /\ ready' \in [ext : BOOLEAN, rep : SUBSET (Outs \X Reps)] /\ ready'.rep = left
  <2>1. ready \in [ext : BOOLEAN, rep : SUBSET (Outs \X Reps)] /\ left \in SUBSET (Outs \X Reps)
    BY <1>0 DEF VoterTyped
  <2> HIDE DEF left
  <2> QED BY <1>1, <2>1
<1>7. outq' \in [Outs -> [Reps -> Seq(Value)]]
  <2> DEFINE rest == DropN(outq[p][r], conf.Ring)
  <2>1. rest \in Seq(Value)
    BY <1>0, <1>2, ConfTyped, ReadTyped DEF PipesTyped
  <2>2. outq \in [Outs -> [Reps -> Seq(Value)]]
    BY <1>0 DEF PipesTyped
  <2>3. outq' = [outq EXCEPT ![p] = [outq[p] EXCEPT ![r] = rest]]
    BY <1>1
  <2> HIDE DEF rest
  <2>4. [outq[p] EXCEPT ![r] = rest] \in [Reps -> Seq(Value)]
    BY <1>2, <2>1, <2>2
  <2> QED BY <1>2, <2>2, <2>3, <2>4
<1>8. onward \in {"top", "rep"} /\ (onward = "rep" => left # {})
  OBVIOUS
<1>9. /\ timer' \in BOOLEAN /\ vot' \in Votes /\ sent' \in [Outs -> Seq(Value)]
      /\ pc' \in {"top", "rep", "steal"} /\ (pc' = "rep" => left # {})
      /\ \A q \in Outs : \A t, u \in Reps : vot'[q][t].index = vot'[q][u].index
      /\ job' \in [ee : Reps, er : Reps, stolen : Seq(Msg), ret : {"select", "top", "rep"}]
      /\ pc' = "steal" => job'.ee # job'.er /\ (job'.ret = "rep" => left # {})
  <2>0. /\ timer \in BOOLEAN /\ sent \in [Outs -> Seq(Value)]
        /\ job \in [ee : Reps, er : Reps, stolen : Seq(Msg), ret : {"select", "top", "rep"}]
    BY <1>0 DEF VoterTyped, PipesTyped
  <2>1. \A q \in Outs : \A t, u \in Reps : v[q][t].index = v[q][u].index
    BY <1>1, <1>3 DEF Inv, Level
  <2>2. \/ verdict.do = "wait" /\ vot' = v /\ pc' = onward /\ UNCHANGED <<timer, sent, job>>
        \/ /\ verdict.do = "send"
           /\ vot' = SendPipe(v, p, verdict.rep).vot
           /\ sent' = [sent EXCEPT ![p] = sent[p] \o SendPipe(v, p, verdict.rep).out]
           /\ timer' = (timer /\ p # conf.TimerStop)
           /\ pc' = onward /\ UNCHANGED job
        \/ /\ verdict.do = "restart"
           /\ vot' = v /\ pc' = "steal" /\ UNCHANGED <<timer, sent>>
           /\ job' = [ee |-> verdict.ee, er |-> verdict.er, stolen |-> <<>>, ret |-> onward]
    BY DEF FromRep
  <2> HIDE DEF p, r, v, verdict, left, onward, fits, wanted
  <2>3. CASE verdict.do = "wait" /\ vot' = v /\ pc' = onward /\ UNCHANGED <<timer, sent, job>>
    BY <1>3, <1>8, <2>0, <2>1, <2>3
  <2>4. CASE /\ verdict.do = "send"
             /\ vot' = SendPipe(v, p, verdict.rep).vot
             /\ sent' = [sent EXCEPT ![p] = sent[p] \o SendPipe(v, p, verdict.rep).out]
             /\ timer' = (timer /\ p # conf.TimerStop)
             /\ pc' = onward /\ UNCHANGED job
    <3>1. PICK t \in Reps : verdict = SendOf(t)
      BY <1>4, <2>4 DEF Wait, SendOf, RestartOf
    <3>2. verdict.rep = t
      BY <3>1 DEF SendOf
    <3>3. PICK n \in Nat : SendPipe(v, p, t).vot = Advance(v, p, n)
      BY <1>0, <1>2, <1>3, SendPipeTyped
    <3>4. /\ Advance(v, p, n) \in Votes
          /\ \A u \in Reps : Advance(v, p, n)[p][u].index = (v[p][u].index + n) % conf.Ring
          /\ \A q \in Outs \ {p} : Advance(v, p, n)[q] = v[q]
      BY <1>0, <1>2, <1>3, AdvanceTyped
    <3>5. vot' = Advance(v, p, n)
      BY <2>4, <3>2, <3>3
    <3>6. \A q \in Outs : \A u, w \in Reps : vot'[q][u].index = vot'[q][w].index
      <4>1. ASSUME NEW u \in Reps, NEW w \in Reps
            PROVE  vot'[p][u].index = vot'[p][w].index
        <5>1. v[p][u].index = v[p][w].index
          BY <1>2, <2>1
        <5> QED BY <3>4, <3>5, <5>1
      <4>2. ASSUME NEW q \in Outs \ {p}, NEW u \in Reps, NEW w \in Reps
            PROVE  vot'[q][u].index = vot'[q][w].index
        BY <2>1, <3>4, <3>5
      <4> QED BY <4>1, <4>2
    <3>7. sent' \in [Outs -> Seq(Value)]
      <4>1. SendPipe(v, p, t).out \in Seq(Value)
        BY <1>0, <1>2, <1>3, SendPipeTyped
      <4>2. sent[p] \o SendPipe(v, p, t).out \in Seq(Value)
        BY <1>2, <2>0, <4>1, ConcatProperties
      <4> QED BY <1>2, <2>0, <2>4, <3>2, <4>2
    <3>8. timer' \in BOOLEAN
      BY <2>4, Zenon
    <3> QED BY <1>8, <2>0, <2>4, <3>4, <3>5, <3>6, <3>7, <3>8
  <2>5. CASE /\ verdict.do = "restart"
             /\ vot' = v /\ pc' = "steal" /\ UNCHANGED <<timer, sent>>
             /\ job' = [ee |-> verdict.ee, er |-> verdict.er, stolen |-> <<>>, ret |-> onward]
    <3>1. PICK ee, er \in Reps : verdict = RestartOf(ee, er) /\ ee # er
      BY <1>4, <2>5 DEF Wait, SendOf, RestartOf
    <3>2. verdict.ee = ee /\ verdict.er = er
      BY <3>1 DEF RestartOf
    <3>3. <<>> \in Seq(Msg)
      OBVIOUS
    <3>4. /\ job' \in [ee : Reps, er : Reps, stolen : Seq(Msg), ret : {"select", "top", "rep"}]
          /\ job'.ee # job'.er /\ (job'.ret = "rep" => left # {})
      BY <1>8, <2>5, <3>1, <3>2, <3>3
    <3> QED BY <1>3, <2>0, <2>1, <2>5, <3>4
  <2> QED BY <2>2, <2>3, <2>4, <2>5
<1> HIDE DEF p, r, v, verdict, left, onward, fits, wanted
<1>10. VoterTyped'
  BY <1>5, <1>6, <1>9 DEF VoterTyped
<1>11. PipesTyped'
  BY <1>0, <1>1, <1>7, <1>9 DEF PipesTyped
<1>12. RepsTyped'
  BY <1>0, <1>1, <1>5 DEF RepsTyped
<1>13. TypeOK'
  BY <1>0, <1>1, <1>10, <1>11, <1>12, TypeNext
<1>14. Jobs'
  BY <1>6, <1>9 DEF Jobs
<1>15. Level'
  BY <1>9 DEF Level
<1> QED BY <1>13, <1>14, <1>15 DEF Inv

(* The voter starts with empty, level buffers. *)
LEMMA InvInit == Init => Inv
<1> SUFFICES ASSUME Init PROVE Inv
  OBVIOUS
<1>0. conf \in Configs
  BY DEF Init
<1>1. /\ <<>> \in Seq(Msg) /\ <<>> \in Seq(Value) /\ <<>> \in Seq(Output)
      /\ 0 \in Reps /\ EmptyBuff \in Buff
  <2>1. <<>> \in Seq(Msg) /\ <<>> \in Seq(Value) /\ <<>> \in Seq(Output)
    OBVIOUS
  <2>2. 0 \in Reps
    BY TwoOrThree
  <2>3. EmptyBuff \in Buff
    BY <1>0, <2>1, ConfTyped DEF EmptyBuff, Buff
  <2> QED BY <2>1, <2>2, <2>3
<1>2. VoterTyped
  <2>1. timer \in BOOLEAN
    BY Zenon DEF Init
  <2>2. ready \in [ext : BOOLEAN, rep : SUBSET (Outs \X Reps)]
    BY DEF Init, Nothing
  <2>3. vot \in Votes /\ prio \in [Reps -> 0 .. 2]
    BY <1>1 DEF Init, Votes
  <2>4. job \in [ee : Reps, er : Reps, stolen : Seq(Msg), ret : {"select", "top", "rep"}]
    BY <1>1 DEF Init
  <2> QED BY <2>1, <2>2, <2>3, <2>4 DEF Init, VoterTyped
<1>3. PipesTyped
  BY <1>1 DEF Init, PipesTyped
<1>4. RepsTyped
  <2>1. sdc \in [Reps -> BOOLEAN]
    BY DEF Init
  <2>2. status \in [Reps -> {"ok", "hung", "dead"}] /\ work \in [Reps -> Seq(Output)]
    BY <1>1 DEF Init
  <2> QED BY <2>1, <2>2 DEF Init, RepsTyped
<1>5. BoundsTyped
  BY <1>0, ConfTyped, BoundAssumption DEF Init, BoundsTyped
<1>6. TypeOK
  BY <1>0, <1>2, <1>3, <1>4, <1>5, TypeParts
<1>7. Jobs /\ Level
  BY DEF Init, Jobs, Level
<1> QED BY <1>6, <1>7 DEF Inv

(* Every step keeps the invariant. *)
LEMMA InvStep ==
  ASSUME Inv, [Next]_vars
  PROVE  Inv'
<1>1. CASE UNCHANGED vars
  <2>1. conf' = conf /\ UNCHANGED voterVars /\ UNCHANGED pipeVars /\ UNCHANGED repVars /\ UNCHANGED bounds
    BY <1>1 DEF vars
  <2>2. TypeOK'
    BY <2>1, PartsKept, TypeNext DEF Inv
  <2> QED BY <2>1, <2>2, VoterKept DEF Inv
<1>2. CASE Next
  <2>1. conf' = conf
    BY <1>2 DEF Next
  <2>2. CASE \/ EnvSend \/ Fork
             \/ \E r \in Reps : \/ RepRead(r) \/ RepWrite(r) \/ Resume(r)
                                \/ Crash(r) \/ Hang(r) \/ Corrupt(r)
    <3>1. TypeOK' /\ UNCHANGED voterVars
      BY <2>1, <2>2, AroundTyped DEF Inv
    <3> QED BY <2>1, <3>1, VoterKept DEF Inv
  <2> QED BY <1>2, <2>1, <2>2, InvExpire, InvSelect, InvReadExt, InvFromRep, InvSteal, InvHandOver
          DEF Next, Step
<1> QED BY <1>1, <1>2

(* The invariant holds in every state of every behaviour. *)
LEMMA InvHolds == Spec => []Inv
BY InvInit, InvStep, PTL DEF Spec

-----------------------------------------------------------------------------
(***************************************************************************)
(* For any configuration the state of doOneUpdate and of its restarts has  *)
(* its type: behindRep, the loops over select_set and checkSDC always find *)
(* the replica they look for, and no ring index leaves the ring.           *)
(***************************************************************************)
THEOREM VoterTypes == Spec => []TypeOK
<1>1. Inv => TypeOK
  BY DEF Inv
<1> QED BY <1>1, InvHolds, PTL

(***************************************************************************)
(* For any configuration, number of pipes and size of the ring, whatever   *)
(* is sent, lost or restarted: the buffers of a pipe are at one ring       *)
(* index, which compareBuffs takes for granted, since sendPipe moves all   *)
(* alike and a restart copies the restarter's index with its votes.        *)
(***************************************************************************)
THEOREM RingsLevel == Spec => []IndexesAligned
<1>1. Inv => IndexesAligned
  BY DEF Inv, Level, IndexesAligned
<1> QED BY <1>1, InvHolds, PTL

-----------------------------------------------------------------------------
(***************************************************************************)
(* Redundancy masks upsets, for any number of pipes, upsets, early         *)
(* expiries and inputs.                                                    *)
(***************************************************************************)

-----------------------------------------------------------------------------
(***************************************************************************)
(* Runs.  Up to their signs, the messages of q are a + 1, ..., b.          *)
(***************************************************************************)
Run(q, a, b) ==
  /\ q \in Seq(Int) /\ b = a + Len(q)
  /\ \A i \in 1 .. Len(q) : q[i] = a + i \/ q[i] = -(a + i)

(* What a run says of the place where it ends. *)
LEMMA RunEnd ==
  ASSUME NEW q, NEW a \in Nat, NEW b, Run(q, a, b)
  PROVE  /\ q \in Seq(Int) /\ b \in Nat /\ b = a + Len(q) /\ a <= b
         /\ Len(q) \in Nat /\ (q = <<>> <=> a = b)
<1>1. q \in Seq(Int) /\ b = a + Len(q)
  BY DEF Run
<1>2. Len(q) \in Nat /\ (q = <<>> <=> Len(q) = 0)
  BY <1>1, EmptySeq, LenProperties
<1> QED BY <1>1, <1>2

(* The empty run. *)
LEMMA RunEmpty ==
  ASSUME NEW a \in Nat
  PROVE  Run(<<>>, a, a)
BY EmptySeq DEF Run

(* Runs that follow each other make a run. *)
LEMMA RunConcat ==
  ASSUME NEW q, NEW s, NEW a \in Nat, NEW b, NEW c, Run(q, a, b), Run(s, b, c)
  PROVE  Run(q \o s, a, c)
<1>1. q \in Seq(Int) /\ s \in Seq(Int) /\ b = a + Len(q) /\ c = b + Len(s)
  BY DEF Run
<1>2. /\ q \o s \in Seq(Int) /\ Len(q \o s) = Len(q) + Len(s)
      /\ Len(q) \in Nat /\ Len(s) \in Nat
      /\ \A i \in 1 .. Len(q) + Len(s) : (q \o s)[i] = IF i <= Len(q) THEN q[i] ELSE s[i - Len(q)]
  BY <1>1, ConcatProperties, LenProperties
<1>3. ASSUME NEW i \in 1 .. Len(q \o s)
      PROVE  (q \o s)[i] = a + i \/ (q \o s)[i] = -(a + i)
  <2>1. CASE i <= Len(q)
    <3>1. i \in 1 .. Len(q) /\ (q \o s)[i] = q[i]
      BY <1>2, <2>1
    <3> QED BY <3>1 DEF Run
  <2>2. CASE ~(i <= Len(q))
    <3>1. i - Len(q) \in 1 .. Len(s) /\ (q \o s)[i] = s[i - Len(q)] /\ b + (i - Len(q)) = a + i
      BY <1>1, <1>2, <2>2
    <3> QED BY <3>1 DEF Run
  <2> QED BY <2>1, <2>2
<1> QED BY <1>1, <1>2, <1>3 DEF Run

(* A run of two parts: each is a run. *)
LEMMA RunSplit ==
  ASSUME NEW q \in Seq(Int), NEW s \in Seq(Int), NEW a \in Nat, NEW c, Run(q \o s, a, c)
  PROVE  Run(q, a, a + Len(q)) /\ Run(s, a + Len(q), c)
<1>1. /\ q \o s \in Seq(Int) /\ Len(q \o s) = Len(q) + Len(s) /\ c = a + Len(q \o s)
      /\ Len(q) \in Nat /\ Len(s) \in Nat
      /\ \A i \in 1 .. Len(q) + Len(s) : (q \o s)[i] = IF i <= Len(q) THEN q[i] ELSE s[i - Len(q)]
  BY ConcatProperties, LenProperties DEF Run
<1>2. ASSUME NEW i \in 1 .. Len(q)
      PROVE  q[i] = a + i \/ q[i] = -(a + i)
  <2>1. i \in 1 .. Len(q \o s) /\ (q \o s)[i] = q[i]
    BY <1>1
  <2> QED BY <2>1 DEF Run
<1>3. ASSUME NEW i \in 1 .. Len(s)
      PROVE  s[i] = a + Len(q) + i \/ s[i] = -(a + Len(q) + i)
  <2>1. Len(q) + i \in 1 .. Len(q \o s) /\ (q \o s)[Len(q) + i] = s[i]
    BY <1>1
  <2>2. (q \o s)[Len(q) + i] = a + (Len(q) + i) \/ (q \o s)[Len(q) + i] = -(a + (Len(q) + i))
    BY <2>1 DEF Run
  <2> QED BY <1>1, <2>1, <2>2
<1> QED BY <1>1, <1>2, <1>3 DEF Run

(* Cutting a run in two. *)
LEMMA RunCut ==
  ASSUME NEW q, NEW a \in Nat, NEW b, Run(q, a, b), NEW n \in Nat, n <= Len(q)
  PROVE  /\ Run(SubSeq(q, 1, n), a, a + n) /\ Run(DropN(q, n), a + n, b)
<1>1. q \in Seq(Int) /\ Len(q) \in Nat /\ b = a + Len(q)
  BY LenProperties DEF Run
<1>2. \A i \in 1 .. Len(q) : q[i] \in Int
  BY <1>1, ElementOfSeq
<1>3. /\ SubSeq(q, 1, n) \in Seq(Int) /\ Len(SubSeq(q, 1, n)) = n
      /\ \A i \in 1 .. n : SubSeq(q, 1, n)[i] = q[i]
  <2>1. \A i \in 1 .. n : q[i] \in Int
    BY <1>1, <1>2
  <2>2. /\ SubSeq(q, 1, n) \in Seq(Int)
        /\ Len(SubSeq(q, 1, n)) = IF 1 <= n THEN n - 1 + 1 ELSE 0
        /\ \A i \in 1 .. n - 1 + 1 : SubSeq(q, 1, n)[i] = q[1 + i - 1]
    BY <2>1, SubSeqProperties
  <2> QED BY <2>2
<1>4. /\ DropN(q, n) \in Seq(Int) /\ Len(DropN(q, n)) = Len(q) - n
      /\ \A i \in 1 .. Len(q) - n : DropN(q, n)[i] = q[n + i]
  <2>1. \A i \in n + 1 .. Len(q) : q[i] \in Int
    BY <1>1, <1>2
  <2>2. /\ SubSeq(q, n + 1, Len(q)) \in Seq(Int)
        /\ Len(SubSeq(q, n + 1, Len(q))) = IF n + 1 <= Len(q) THEN Len(q) - (n + 1) + 1 ELSE 0
        /\ \A i \in 1 .. Len(q) - (n + 1) + 1 : SubSeq(q, n + 1, Len(q))[i] = q[n + 1 + i - 1]
    BY <1>1, <2>1, SubSeqProperties
  <2>3. /\ DropN(q, n) \in Seq(Int) /\ Len(DropN(q, n)) = Len(q) - n
    BY <1>1, <2>2 DEF DropN
  <2>4. ASSUME NEW i \in 1 .. Len(q) - n PROVE DropN(q, n)[i] = q[n + i]
    <3>1. i \in 1 .. Len(q) - (n + 1) + 1 /\ n + 1 + i - 1 = n + i
      BY <1>1
    <3> QED BY <2>2, <3>1 DEF DropN
  <2> QED BY <2>3, <2>4
<1>5. Run(SubSeq(q, 1, n), a, a + n)
  <2>1. \A i \in 1 .. n : q[i] = a + i \/ q[i] = -(a + i)
    BY <1>1 DEF Run
  <2> QED BY <1>3, <2>1 DEF Run
<1>6. Run(DropN(q, n), a + n, b)
  <2>1. ASSUME NEW i \in 1 .. Len(q) - n
        PROVE  DropN(q, n)[i] = a + n + i \/ DropN(q, n)[i] = -(a + n + i)
    <3>1. n + i \in 1 .. Len(q)
      BY <1>1
    <3>2. q[n + i] = a + (n + i) \/ q[n + i] = -(a + (n + i))
      BY <3>1 DEF Run
    <3>3. a + (n + i) = a + n + i
      BY <1>1
    <3> QED BY <1>4, <3>2, <3>3
  <2>2. b = a + n + Len(DropN(q, n))
    BY <1>1, <1>4
  <2> QED BY <1>4, <2>1, <2>2 DEF Run
<1> QED BY <1>5, <1>6

(* One message. *)
LEMMA RunOne ==
  ASSUME NEW x \in Int, NEW a \in Nat
  PROVE  Run(<<x>>, a, a + 1) <=> x = a + 1 \/ x = -(a + 1)
<1>1. <<x>> \in Seq(Int) /\ Len(<<x>>) = 1 /\ <<x>>[1] = x
  OBVIOUS
<1> QED BY <1>1 DEF Run

(* The first message of a run and the rest. *)
LEMMA RunHead ==
  ASSUME NEW q, NEW a \in Nat, NEW b, Run(q, a, b), q # <<>>
  PROVE  /\ Head(q) = a + 1 \/ Head(q) = -(a + 1)
         /\ Run(Tail(q), a + 1, b)
<1>1. q \in Seq(Int) /\ Len(q) \in Nat \ {0} /\ b = a + Len(q)
  BY EmptySeq DEF Run
<1>2. /\ Tail(q) \in Seq(Int) /\ Len(Tail(q)) = Len(q) - 1
      /\ \A i \in 1 .. Len(Tail(q)) : Tail(q)[i] = q[i + 1]
  BY <1>1, HeadTailProperties
<1>3. Head(q) = q[1]
  BY <1>1
<1>4. q[1] = a + 1 \/ q[1] = -(a + 1)
  BY <1>1 DEF Run
<1>5. ASSUME NEW i \in 1 .. Len(Tail(q))
      PROVE  Tail(q)[i] = a + 1 + i \/ Tail(q)[i] = -(a + 1 + i)
  <2>1. i + 1 \in 1 .. Len(q)
    BY <1>1, <1>2
  <2>2. q[i + 1] = a + (i + 1) \/ q[i + 1] = -(a + (i + 1))
    BY <2>1 DEF Run
  <2> QED BY <1>2, <2>2
<1>6. b = a + 1 + Len(Tail(q))
  BY <1>1, <1>2
<1> QED BY <1>2, <1>3, <1>4, <1>5, <1>6 DEF Run

-----------------------------------------------------------------------------
(***************************************************************************)
(* Chains.  One replica on one pipe: what is sent, its votes, its output   *)
(* pipe, what it still owes, its input pipe and the input stolen from it   *)
(* make one run from 1 to n.                                               *)
(***************************************************************************)
Chain(s, v, o, w, i, t, n) ==
  \E a, b, c, d, e \in Nat :
    /\ Run(s, 0, a) /\ Run(v, a, b) /\ Run(o, b, c)
    /\ Run(w, c, d) /\ Run(i, d, e) /\ Run(t, e, n)

(* The lengths along a chain add up. *)
LEMMA ChainLen ==
  ASSUME NEW s, NEW v, NEW o, NEW w, NEW i, NEW t, NEW n, Chain(s, v, o, w, i, t, n)
  PROVE  /\ Len(s) \in Nat /\ Len(v) \in Nat /\ Len(o) \in Nat
         /\ Len(w) \in Nat /\ Len(i) \in Nat /\ Len(t) \in Nat
         /\ n = Len(s) + Len(v) + Len(o) + Len(w) + Len(i) + Len(t)
         /\ s \in Seq(Int) /\ v \in Seq(Int) /\ o \in Seq(Int)
         /\ w \in Seq(Int) /\ i \in Seq(Int) /\ t \in Seq(Int)
<1>1. PICK a, b, c, d, e \in Nat :
        /\ Run(s, 0, a) /\ Run(v, a, b) /\ Run(o, b, c)
        /\ Run(w, c, d) /\ Run(i, d, e) /\ Run(t, e, n)
  BY DEF Chain
<1>2. Len(s) \in Nat /\ a = 0 + Len(s) /\ Len(v) \in Nat /\ b = a + Len(v)
  BY <1>1, RunEnd
<1>3. Len(o) \in Nat /\ c = b + Len(o) /\ Len(w) \in Nat /\ d = c + Len(w)
  BY <1>1, RunEnd
<1>4. Len(i) \in Nat /\ e = d + Len(i) /\ Len(t) \in Nat /\ n = e + Len(t)
  BY <1>1, RunEnd
<1>5. /\ s \in Seq(Int) /\ v \in Seq(Int) /\ o \in Seq(Int)
      /\ w \in Seq(Int) /\ i \in Seq(Int) /\ t \in Seq(Int)
  BY <1>1, RunEnd
<1> QED BY <1>2, <1>3, <1>4, <1>5

(* The replica computes: a message moves from its input to what it owes. *)
LEMMA ChainRead ==
  ASSUME NEW s, NEW v, NEW o, NEW i, NEW t, NEW n, Chain(s, v, o, <<>>, i, t, n),
         i # <<>>, NEW x, x = Head(i) \/ x = -Head(i)
  PROVE  Chain(s, v, o, <<x>>, Tail(i), t, n)
<1>1. PICK a, b, c, d, e \in Nat :
        /\ Run(s, 0, a) /\ Run(v, a, b) /\ Run(o, b, c)
        /\ Run(<<>>, c, d) /\ Run(i, d, e) /\ Run(t, e, n)
  BY DEF Chain
<1>2. c = d
  BY <1>1, RunEnd
<1>3. Run(Tail(i), d + 1, e) /\ (Head(i) = d + 1 \/ Head(i) = -(d + 1))
  BY <1>1, RunHead
<1>4. x \in Int /\ (x = d + 1 \/ x = -(d + 1))
  BY <1>3
<1>5. Run(<<x>>, c, d + 1)
  BY <1>2, <1>4, RunOne
<1>6. d + 1 \in Nat
  OBVIOUS
<1> QED BY <1>1, <1>3, <1>5, <1>6 DEF Chain

(* The replica writes: what it owes moves to its output pipe. *)
LEMMA ChainWrite ==
  ASSUME NEW s, NEW v, NEW o, NEW w, NEW i, NEW t, NEW n, Chain(s, v, o, w, i, t, n)
  PROVE  Chain(s, v, o \o w, <<>>, i, t, n)
<1>1. PICK a, b, c, d, e \in Nat :
        /\ Run(s, 0, a) /\ Run(v, a, b) /\ Run(o, b, c)
        /\ Run(w, c, d) /\ Run(i, d, e) /\ Run(t, e, n)
  BY DEF Chain
<1>2. Run(o \o w, b, d) /\ Run(<<>>, d, d)
  BY <1>1, RunConcat, RunEmpty
<1> QED BY <1>1, <1>2 DEF Chain

(* The voter reads: what is in the output pipe joins the votes. *)
LEMMA ChainCollect ==
  ASSUME NEW s, NEW v, NEW o, NEW w, NEW i, NEW t, NEW n, Chain(s, v, o, w, i, t, n)
  PROVE  Chain(s, v \o o, <<>>, w, i, t, n)
<1>1. PICK a, b, c, d, e \in Nat :
        /\ Run(s, 0, a) /\ Run(v, a, b) /\ Run(o, b, c)
        /\ Run(w, c, d) /\ Run(i, d, e) /\ Run(t, e, n)
  BY DEF Chain
<1>2. Run(v \o o, a, c) /\ Run(<<>>, c, c)
  BY <1>1, RunConcat, RunEmpty
<1> QED BY <1>1, <1>2 DEF Chain

(* The voter sends k votes of one replica u and drops as many of this one. *)
LEMMA ChainSend ==
  ASSUME NEW s, NEW v, NEW o, NEW w, NEW i, NEW t, NEW n, Chain(s, v, o, w, i, t, n),
         NEW u, NEW o2, NEW w2, NEW i2, NEW t2, NEW n2, Chain(s, u, o2, w2, i2, t2, n2),
         NEW k \in Nat, k <= Len(v), k <= Len(u)
  PROVE  Chain(s \o SubSeq(u, 1, k), DropN(v, k), o, w, i, t, n)
<1>1. PICK a, b, c, d, e \in Nat :
        /\ Run(s, 0, a) /\ Run(v, a, b) /\ Run(o, b, c)
        /\ Run(w, c, d) /\ Run(i, d, e) /\ Run(t, e, n)
  BY DEF Chain
<1>2. PICK a2, b2, c2, d2, e2 \in Nat :
        /\ Run(s, 0, a2) /\ Run(u, a2, b2) /\ Run(o2, b2, c2)
        /\ Run(w2, c2, d2) /\ Run(i2, d2, e2) /\ Run(t2, e2, n2)
  BY DEF Chain
<1>3. a2 = a
  <2>1. Run(s, 0, a) /\ Run(s, 0, a2)
    BY <1>1, <1>2
  <2> QED BY <2>1 DEF Run
<1>4. Run(SubSeq(u, 1, k), a, a + k)
  BY <1>2, <1>3, RunCut
<1>5. Run(s \o SubSeq(u, 1, k), 0, a + k)
  BY <1>1, <1>4, RunConcat
<1>6. Run(DropN(v, k), a + k, b)
  BY <1>1, RunCut
<1>7. a + k \in Nat
  OBVIOUS
<1> QED BY <1>1, <1>5, <1>6, <1>7 DEF Chain

(* The voter hands out input. *)
LEMMA ChainInput ==
  ASSUME NEW s, NEW v, NEW o, NEW w, NEW i, NEW n, Chain(s, v, o, w, i, <<>>, n),
         NEW x, NEW m, Run(x, n, m)
  PROVE  Chain(s, v, o, w, i \o x, <<>>, m)
<1>1. PICK a, b, c, d, e \in Nat :
        /\ Run(s, 0, a) /\ Run(v, a, b) /\ Run(o, b, c)
        /\ Run(w, c, d) /\ Run(i, d, e) /\ Run(<<>>, e, n)
  BY DEF Chain
<1>2. n = e
  BY <1>1, RunEnd
<1>3. Run(i \o x, d, m)
  BY <1>1, <1>2, RunConcat
<1>4. m \in Nat
  BY <1>2, RunEnd
<1>5. Run(<<>>, m, m)
  BY <1>4, RunEmpty
<1> QED BY <1>1, <1>3, <1>4, <1>5 DEF Chain

(* Input is stolen, and returned. *)
LEMMA ChainSteal ==
  ASSUME NEW s, NEW v, NEW o, NEW w, NEW i, NEW n, Chain(s, v, o, w, i, <<>>, n)
  PROVE  Chain(s, v, o, w, <<>>, i, n)
<1>1. PICK a, b, c, d, e \in Nat :
        /\ Run(s, 0, a) /\ Run(v, a, b) /\ Run(o, b, c)
        /\ Run(w, c, d) /\ Run(i, d, e) /\ Run(<<>>, e, n)
  BY DEF Chain
<1>2. n = e /\ Run(<<>>, d, d)
  BY <1>1, RunEnd, RunEmpty
<1> QED BY <1>1, <1>2 DEF Chain

(* Stolen input is returned to the replica it was stolen from. *)
LEMMA ChainReturn ==
  ASSUME NEW s, NEW v, NEW o, NEW w, NEW t, NEW n, Chain(s, v, o, w, <<>>, t, n)
  PROVE  Chain(s, v, o, w, t, <<>>, n)
<1>1. PICK a, b, c, d, e \in Nat :
        /\ Run(s, 0, a) /\ Run(v, a, b) /\ Run(o, b, c)
        /\ Run(w, c, d) /\ Run(<<>>, d, e) /\ Run(t, e, n)
  BY DEF Chain
<1>2. d = e /\ n \in Nat /\ Run(<<>>, n, n)
  BY <1>1, RunEnd, RunEmpty
<1> QED BY <1>1, <1>2 DEF Chain

(* A child owes what its parent owed at the fork, which the parent may have *)
(* written since.                                                           *)
LEMMA ChainFork ==
  ASSUME NEW s, NEW v, NEW o, NEW w, NEW i, NEW t, NEW n, Chain(s, v, o, w, i, t, n)
  PROVE  Chain(s, v, <<>>, o \o w, i, t, n)
<1>1. PICK a, b, c, d, e \in Nat :
        /\ Run(s, 0, a) /\ Run(v, a, b) /\ Run(o, b, c)
        /\ Run(w, c, d) /\ Run(i, d, e) /\ Run(t, e, n)
  BY DEF Chain
<1>2. Run(o \o w, b, d) /\ Run(<<>>, b, b)
  BY <1>1, RunConcat, RunEmpty
<1> QED BY <1>1, <1>2 DEF Chain

(* The whole of a chain, as SurvivorsInStep puts it. *)
LEMMA ChainIdeal ==
  ASSUME NEW s, NEW v, NEW o, NEW w, NEW i, NEW t, NEW n, Chain(s, v, o, w, i, t, n)
  PROVE  Magnitude((s \o v \o o \o w \o i) \o t) = Ideal(n)
<1> DEFINE q == (s \o v \o o \o w \o i) \o t
<1>1. PICK a, b, c, d, e \in Nat :
        /\ Run(s, 0, a) /\ Run(v, a, b) /\ Run(o, b, c)
        /\ Run(w, c, d) /\ Run(i, d, e) /\ Run(t, e, n)
  BY DEF Chain
<1>2. Run(s \o v, 0, b)
  BY <1>1, RunConcat
<1>3. Run(s \o v \o o, 0, c)
  BY <1>1, <1>2, RunConcat
<1>4. Run(s \o v \o o \o w, 0, d)
  BY <1>1, <1>3, RunConcat
<1>5. Run(s \o v \o o \o w \o i, 0, e)
  BY <1>1, <1>4, RunConcat
<1>6. Run(q, 0, n)
  BY <1>1, <1>5, RunConcat
<1> HIDE DEF q
<1>7. Len(q) \in Nat /\ n = Len(q) /\ \A k \in 1 .. n : q[k] = k \/ q[k] = -k
  BY <1>6, LenProperties DEF Run
<1>8. \A k \in 1 .. n : (IF q[k] < 0 THEN -q[k] ELSE q[k]) = k
  BY <1>7
<1>9. Magnitude(q) = [k \in 1 .. n |-> k]
  BY <1>7, <1>8 DEF Magnitude
<1> QED BY <1>9 DEF q, Ideal

(* A stream that is exact has no wrong message in it. *)
LEMMA ExactClean ==
  ASSUME NEW s \in Seq(Int), NEW v \in Seq(Int), NEW o \in Seq(Int), NEW w \in Seq(Int),
         NEW i \in Seq(Int), NEW n \in Nat, s \o v \o o \o w \o i = Ideal(n)
  PROVE  v \in Seq(Nat) /\ o \in Seq(Nat) /\ w \in Seq(Nat)
<1>1. ASSUME NEW q \in Seq(Int), NEW u \in Seq(Int), q \o u \in Seq(Nat)
      PROVE  q \in Seq(Nat) /\ u \in Seq(Nat)
  <2>1. /\ Len(q \o u) = Len(q) + Len(u) /\ Len(q) \in Nat /\ Len(u) \in Nat
        /\ q \in [1 .. Len(q) -> Int] /\ u \in [1 .. Len(u) -> Int]
        /\ \A k \in 1 .. Len(q) + Len(u) : (q \o u)[k] = IF k <= Len(q) THEN q[k] ELSE u[k - Len(q)]
    BY ConcatProperties, LenProperties
  <2>2. \A k \in 1 .. Len(q) + Len(u) : (q \o u)[k] \in Nat
    BY <2>1, <1>1, ElementOfSeq
  <2>3. ASSUME NEW k \in 1 .. Len(q) PROVE q[k] \in Nat
    <3>1. k \in 1 .. Len(q) + Len(u) /\ (q \o u)[k] = q[k]
      BY <2>1
    <3> QED BY <2>2, <3>1
  <2>4. ASSUME NEW k \in 1 .. Len(u) PROVE u[k] \in Nat
    <3>1. Len(q) + k \in 1 .. Len(q) + Len(u) /\ (q \o u)[Len(q) + k] = u[k]
      BY <2>1
    <3> QED BY <2>2, <3>1
  <2>5. q \in [1 .. Len(q) -> Nat] /\ u \in [1 .. Len(u) -> Nat]
    BY <2>1, <2>3, <2>4
  <2> QED BY <2>1, <2>5, FcnIsSeq
<1>2. Ideal(n) \in Seq(Nat)
  <2>1. Ideal(n) \in [1 .. n -> Nat]
    BY DEF Ideal
  <2> QED BY <2>1, FcnIsSeq
<1>3. s \o v \in Seq(Int) /\ s \o v \o o \in Seq(Int) /\ s \o v \o o \o w \in Seq(Int)
  <2>1. s \o v \in Seq(Int)
    BY ConcatProperties
  <2>2. s \o v \o o \in Seq(Int)
    BY <2>1, ConcatProperties
  <2> QED BY <2>1, <2>2, ConcatProperties
<1>4. s \o v \o o \o w \in Seq(Nat)
  BY <1>1, <1>2, <1>3
<1>5. s \o v \o o \in Seq(Nat) /\ w \in Seq(Nat)
  BY <1>1, <1>3, <1>4
<1>6. s \o v \in Seq(Nat) /\ o \in Seq(Nat)
  BY <1>1, <1>3, <1>5
<1>7. v \in Seq(Nat)
  BY <1>1, <1>6
<1> QED BY <1>5, <1>6, <1>7

-----------------------------------------------------------------------------
(***************************************************************************)
(* What a controller still owes.  It writes its outputs pipe by pipe, so   *)
(* what is left is for the last pipes.                                     *)
(***************************************************************************)
Lined(w) == \A i \in 1 .. Len(w) : w[i].pipe = conf.NOut - Len(w) + i

(* Nothing is owed when nothing is left. *)
LEMMA OwedNone == \A p : Owed(<<>>, p) = <<>>
BY DEF Owed

(* What is owed to pipe p, by its place. *)
LEMMA OwedPlace ==
  ASSUME conf \in Configs, NEW w \in Seq(Output), Lined(w)
  PROVE  /\ Len(w) \in 0 .. conf.NOut
         /\ \A p \in Outs :
              IF p <= conf.NOut - Len(w) THEN Owed(w, p) = <<>>
              ELSE /\ p - (conf.NOut - Len(w)) \in 1 .. Len(w)
                   /\ Owed(w, p) = <<w[p - (conf.NOut - Len(w))].val>>
<1> DEFINE N == conf.NOut
           k == Len(w)
<1>1. N \in Nat \ {0} /\ Outs = 1 .. N
  BY ConfTyped DEF Outs
<1>2. k \in Nat /\ DOMAIN w = 1 .. k
  BY LenProperties
<1>3. \A i \in 1 .. k : w[i].pipe = N - k + i
  BY DEF Lined
<1>4. \A i \in 1 .. k : w[i].pipe \in 1 .. N
  <2> TAKE i \in 1 .. k
  <2>1. w[i] \in Output
    BY ElementOfSeq
  <2> QED BY <1>1, <2>1 DEF Output
<1> HIDE DEF N, k
<1>5. k \in 0 .. N
  <2>1. CASE k = 0
    BY <1>1, <2>1
  <2>2. CASE k # 0
    <3>1. 1 \in 1 .. k
      BY <1>2, <2>2
    <3>2. N - k + 1 \in 1 .. N
      BY <1>3, <1>4, <3>1
    <3> QED BY <1>1, <1>2, <3>2
  <2> QED BY <2>1, <2>2
<1>6. ASSUME NEW p \in Outs
      PROVE  IF p <= N - k THEN Owed(w, p) = <<>>
             ELSE p - (N - k) \in 1 .. k /\ Owed(w, p) = <<w[p - (N - k)].val>>
  <2> DEFINE mine == {i \in DOMAIN w : w[i].pipe = p}
  <2>1. CASE p <= N - k
    <3>1. mine = {}
      BY <1>1, <1>2, <1>3, <2>1
    <3> QED BY <2>1, <3>1 DEF Owed
  <2>2. CASE ~(p <= N - k)
    <3> DEFINE j == p - (N - k)
    <3>1. j \in 1 .. k
      BY <1>1, <1>2, <1>5, <2>2
    <3>2. \A i \in 1 .. k : w[i].pipe = p <=> i = j
      <4>1. \A i \in 1 .. k : N - k + i = p <=> i = j
        BY <1>1, <1>2, <1>5
      <4> HIDE DEF j
      <4> QED BY <1>3, <4>1
    <3>3. mine = {j}
      BY <1>2, <3>1, <3>2
    <3> HIDE DEF j
    <3>4. (CHOOSE i \in mine : TRUE) = j /\ mine # {}
      BY <3>3
    <3>5. Owed(w, p) = <<w[j].val>>
      BY <3>4 DEF Owed
    <3> QED BY <2>2, <3>1, <3>5 DEF j
  <2> QED BY <2>1, <2>2
<1> QED BY <1>5, <1>6 DEF N, k

(* What is owed to a pipe is owed to those behind it. *)
LEMMA OwedOrder ==
  ASSUME conf \in Configs, NEW w \in Seq(Output), Lined(w), NEW p \in Outs, NEW q \in Outs, p <= q
  PROVE  /\ Len(Owed(w, p)) \in Nat /\ Len(Owed(w, q)) \in Nat
         /\ Len(Owed(w, p)) <= Len(Owed(w, q))
<1>1. conf.NOut \in Nat /\ p \in Nat /\ q \in Nat
  BY ConfTyped DEF Outs
<1> DEFINE one(x) == <<w[x - (conf.NOut - Len(w))].val>>
<1>2. \A x : Len(one(x)) = 1 /\ one(x) # <<>>
  OBVIOUS
<1>3. Len(w) \in 0 .. conf.NOut
  BY OwedPlace
<1>4. /\ p <= conf.NOut - Len(w) => Owed(w, p) = <<>>
      /\ ~(p <= conf.NOut - Len(w)) => Owed(w, p) = one(p)
      /\ q <= conf.NOut - Len(w) => Owed(w, q) = <<>>
      /\ ~(q <= conf.NOut - Len(w)) => Owed(w, q) = one(q)
  BY OwedPlace
<1> HIDE DEF one
<1>5. Len(<<>>) = 0
  OBVIOUS
<1> QED BY <1>1, <1>2, <1>3, <1>4, <1>5

(* Writing the first of what is left. *)
LEMMA OwedTail ==
  ASSUME conf \in Configs, NEW w \in Seq(Output), Lined(w), w # <<>>
  PROVE  /\ Tail(w) \in Seq(Output) /\ Lined(Tail(w)) /\ Head(w) \in Output
         /\ Owed(w, Head(w).pipe) = <<Head(w).val>>
         /\ \A p \in Outs : Owed(Tail(w), p) = IF p = Head(w).pipe THEN <<>> ELSE Owed(w, p)
<1> DEFINE N == conf.NOut
           k == Len(w)
           t == Tail(w)
<1>1. N \in Nat \ {0} /\ Outs = 1 .. N
  BY ConfTyped DEF Outs
<1>2. k \in Nat \ {0} /\ k <= N
  BY EmptySeq, OwedPlace
<1>3. /\ t \in Seq(Output) /\ Len(t) = k - 1 /\ Head(w) \in Output /\ Head(w) = w[1]
      /\ \A i \in 1 .. k - 1 : t[i] = w[i + 1]
  BY HeadTailProperties
<1>4. \A i \in 1 .. k : w[i].pipe = N - k + i
  BY DEF Lined
<1> HIDE DEF k, t
<1>5. Lined(t)
  <2>1. \A i \in 1 .. k - 1 : i + 1 \in 1 .. k
    BY <1>2
  <2>2. \A i \in 1 .. k - 1 : t[i].pipe = N - (k - 1) + i
    <3> TAKE i \in 1 .. k - 1
    <3>1. t[i] = w[i + 1] /\ w[i + 1].pipe = N - k + (i + 1)
      BY <1>3, <1>4, <2>1
    <3>2. N - k + (i + 1) = N - (k - 1) + i
      BY <1>1, <1>2
    <3> QED BY <3>1, <3>2
  <2>3. Len(t) = k - 1
    BY <1>3
  <2>4. \A i \in 1 .. Len(t) : t[i].pipe = N - Len(t) + i
    BY <2>2, <2>3
  <2> QED BY <2>4 DEF Lined
<1>6. Head(w).pipe = N - k + 1 /\ Head(w).pipe \in Outs
  BY <1>2, <1>3, <1>4 DEF Output
<1>7. /\ Owed(w, Head(w).pipe) = <<w[Head(w).pipe - (N - k)].val>>
  <2>1. ~(Head(w).pipe <= N - k)
    BY <1>1, <1>2, <1>6
  <2> QED BY <1>6, <2>1, OwedPlace DEF k
<1>8. Owed(w, Head(w).pipe) = <<Head(w).val>>
  <2>1. Head(w).pipe - (N - k) = 1
    BY <1>1, <1>2, <1>6
  <2> QED BY <1>3, <1>7, <2>1
<1>9. ASSUME NEW p \in Outs
      PROVE  Owed(t, p) = IF p = Head(w).pipe THEN <<>> ELSE Owed(w, p)
  <2>1. IF p <= N - (k - 1) THEN Owed(t, p) = <<>>
        ELSE /\ p - (N - (k - 1)) \in 1 .. k - 1
             /\ Owed(t, p) = <<t[p - (N - (k - 1))].val>>
    BY <1>3, <1>5, OwedPlace
  <2>2. IF p <= N - k THEN Owed(w, p) = <<>>
        ELSE Owed(w, p) = <<w[p - (N - k)].val>>
    BY OwedPlace DEF k
  <2>3. CASE p <= N - (k - 1)
    <3>1. Owed(t, p) = <<>>
      BY <2>1, <2>3
    <3>2. p # Head(w).pipe => p <= N - k
      BY <1>1, <1>2, <1>6, <2>3
    <3> QED BY <2>2, <3>1, <3>2
  <2>4. CASE ~(p <= N - (k - 1))
    <3>1. /\ p - (N - (k - 1)) \in 1 .. k - 1
          /\ Owed(t, p) = <<t[p - (N - (k - 1))].val>>
      BY <2>1, <2>4
    <3>2. p # Head(w).pipe /\ ~(p <= N - k) /\ (p - (N - (k - 1))) + 1 = p - (N - k)
      BY <1>1, <1>2, <1>6, <2>4
    <3>3. t[p - (N - (k - 1))] = w[p - (N - k)]
      BY <1>3, <3>1, <3>2
    <3> QED BY <2>2, <3>1, <3>2, <3>3
  <2> QED BY <2>3, <2>4
<1> QED BY <1>3, <1>5, <1>8, <1>9 DEF t

(* The outputs of one input: one for each pipe. *)
LEMMA OwedAll ==
  ASSUME conf \in Configs, NEW x, NEW w, w = [p \in Outs |-> [pipe |-> p, val |-> x]],
         w \in Seq(Output)
  PROVE  /\ Lined(w) /\ \A p \in Outs : Owed(w, p) = <<x>>
         /\ Len(w) = conf.NOut
<1>1. conf.NOut \in Nat \ {0} /\ Outs = 1 .. conf.NOut
  BY ConfTyped DEF Outs
<1>2. Len(w) = conf.NOut
  <2>1. DOMAIN w = 1 .. Len(w) /\ Len(w) \in Nat
    BY LenProperties
  <2>2. 1 .. Len(w) = 1 .. conf.NOut
    BY <1>1, <2>1
  <2>3. conf.NOut \in 1 .. Len(w)
    BY <1>1, <2>2
  <2>4. Len(w) \in 1 .. conf.NOut
    BY <2>1, <2>2, <2>3
  <2> QED BY <1>1, <2>1, <2>3, <2>4
<1>3. \A p \in Outs : w[p].pipe = p /\ w[p].val = x
  OBVIOUS
<1>4. Lined(w)
  BY <1>1, <1>2, <1>3 DEF Lined
<1>5. ASSUME NEW p \in Outs PROVE Owed(w, p) = <<x>>
  <2>1. ~(p <= conf.NOut - Len(w)) /\ p - (conf.NOut - Len(w)) = p
    BY <1>1, <1>2
  <2> HIDE DEF Outs
  <2>2. Owed(w, p) = <<w[p - (conf.NOut - Len(w))].val>>
    BY <1>4, <2>1, OwedPlace
  <2> QED BY <1>3, <2>1, <2>2
<1> QED BY <1>2, <1>4, <1>5

-----------------------------------------------------------------------------
(***************************************************************************)
(* The inductive invariant, for voters that run at a higher priority than  *)
(* their replicas and, where votes may be corrupted, have three of them    *)
(* and time the pipe written last.                                         *)
(***************************************************************************)
Guarded ==
  /\ conf.Preempts
  /\ "sdc" \in conf.FaultKinds => conf.RepType = "TMR" /\ conf.TimerStop = conf.NOut

Total == given - Len(extin)                 \* inputs handed out
Stolen(r) == IF r = job.er THEN job.stolen ELSE <<>>
Full == {x \in Outs \X Reps : outq[x[1]][x[2]] # <<>>}
CleanWork(w) == \A i \in 1 .. Len(w) : w[i].val \in Nat

(* Nothing computed by r and not yet sent is wrong, and nothing will be. *)
Right(r) ==
  /\ CleanWork(work[r])
  /\ \A p \in Outs : vot[p][r].q \in Seq(Nat) /\ outq[p][r] \in Seq(Nat)
Sound(r) == ~sdc[r] /\ Right(r)

(* Outside of a restart there is no child and no stolen input. *)
Idle == pc # "accept" => child = NoChild /\ job.stolen = <<>>

(* In a restart the restartee has nothing.  The restarter has no input; it  *)
(* writes only after the fork, and then what its child owes as well.        *)
Accepting ==
  pc = "accept" =>
    /\ ~timer /\ status[job.ee] = "dead" /\ inq[job.ee] = <<>> /\ work[job.ee] = <<>>
    /\ \A p \in Outs : outq[p][job.ee] = <<>>
    /\ inq[job.er] = <<>>
    /\ child = NoChild => \A p \in Outs : outq[p][job.er] = <<>>
    /\ child # NoChild =>
         \A p \in Outs : outq[p][job.er] \o Owed(work[job.er], p) = Owed(child.work, p)

(* The inputs to come follow those handed out. *)
Coming == Total \in Nat /\ Run(extin, Total, given) /\ (pc = "ext" => extin # <<>>)

(* Controllers write pipe by pipe, forked ones as well. *)
InOrder == (\A r \in Reps : Lined(work[r])) /\ (child # NoChild => Lined(child.work))

(* Every replica but one being replaced has, in one place or another, every *)
(* message from what is sent to what is handed out.                         *)
InChain ==
  \A r \in Reps : ~(pc = "accept" /\ r = job.ee) =>
    \A p \in Outs :
      Chain(sent[p], vot[p][r].q, outq[p][r], Owed(work[r], p), inq[r], Stolen(r), Total)

(* The voter reads every output pipe that holds data, and lets the replicas *)
(* run, and restarts one, only when none does.                              *)
Reading ==
  /\ pc \in {"ext", "rep"} => ready.rep = Full
  /\ pc = "top" /\ timer => Full = {}
  /\ pc = "steal" => Full = {}
  /\ pc \in {"steal", "accept"} => job.ret # "rep"

(* One replica at most is wrong; then the others live.  It is restarted, not *)
(* restarted from; and while it is wrong votes arrive one at a time.         *)
OneWrong ==
  /\ \A r, s \in Reps : Sound(r) \/ Sound(s) \/ r = s
  /\ \A r, s \in Reps : Sound(r) \/ status[s] = "ok"
  /\ \A r \in Reps : Sound(r) \/ "sdc" \in conf.FaultKinds
  /\ \A r \in Reps : Right(r) \/ \A x, y \in Full : x = y
  /\ pc = "steal" => \A r \in Reps : Sound(r) \/ r = job.ee
  /\ pc = "accept" => \A r \in Reps : Sound(r)
  /\ child # NoChild => ~child.sdc /\ CleanWork(child.work)
  /\ \A p \in Outs : sent[p] \in Seq(Nat)

(* What all replicas have voted on is sent. *)
NoneReady == ~Restarting => \A p \in Outs : \E r \in Reps : vot[p][r].q = <<>>

(* A pipe is never ahead of those before it. *)
PipeByPipe ==
  /\ \A r \in Reps : \A p, q \in Outs : p <= q =>
       Len(outq[p][r]) + Len(Owed(work[r], p)) <= Len(outq[q][r]) + Len(Owed(work[r], q))
  /\ \A p, q \in Outs : p <= q => Len(sent[q]) <= Len(sent[p])

(* The timer of the last pipe runs only while that owes a message, and the *)
(* environment counts what it sends.                                       *)
Due ==
  conf.TimerStop = conf.NOut =>
    /\ timer /\ ~Restarting => Len(sent[conf.NOut]) < Total
    /\ given - Len(sent[conf.NOut]) <= conf.Window

Safe ==
  /\ Inv /\ Guarded
  /\ Idle /\ Accepting /\ Coming /\ InOrder /\ InChain
  /\ Reading /\ OneWrong /\ NoneReady /\ PipeByPipe /\ Due

(* A part stays while its variables do. *)
LEMMA Stay ==
  ASSUME conf' = conf
  PROVE  /\ Guarded => Guarded'
         /\ Idle /\ UNCHANGED <<pc, child, job>> => Idle'
         /\ Coming /\ UNCHANGED <<pc, given, extin>> => Coming'
         /\ InOrder /\ UNCHANGED <<work, child>> => InOrder'
         /\ Reading /\ UNCHANGED <<pc, ready, timer, job, outq>> => Reading'
         /\ NoneReady /\ UNCHANGED <<pc, vot>> => NoneReady'
         /\ PipeByPipe /\ UNCHANGED <<outq, work, sent>> => PipeByPipe'
         /\ Due /\ UNCHANGED <<timer, pc, sent, given, extin>> => Due'
<1> USE ConfKept
<1>1. Guarded => Guarded'
  BY DEF Guarded
<1>2. Idle /\ UNCHANGED <<pc, child, job>> => Idle'
  BY DEF Idle
<1>3. Coming /\ UNCHANGED <<pc, given, extin>> => Coming'
  BY DEF Coming, Total
<1>4. InOrder /\ UNCHANGED <<work, child>> => InOrder'
  BY DEF InOrder, Lined
<1>5. Reading /\ UNCHANGED <<pc, ready, timer, job, outq>> => Reading'
  BY DEF Reading, Full
<1>6. NoneReady /\ UNCHANGED <<pc, vot>> => NoneReady'
  BY DEF NoneReady, Restarting
<1>7. PipeByPipe /\ UNCHANGED <<outq, work, sent>> => PipeByPipe'
  BY DEF PipeByPipe
<1>8. Due /\ UNCHANGED <<timer, pc, sent, given, extin>> => Due'
  BY DEF Due, Total, Restarting
<1> QED BY <1>1, <1>2, <1>3, <1>4, <1>5, <1>6, <1>7, <1>8

(* So do the parts that depend on most variables. *)
LEMMA StayAccepting ==
  ASSUME conf' = conf, Accepting,
         UNCHANGED <<pc, timer, status, inq, work, outq, job, child>>
  PROVE  Accepting'
BY ConfKept DEF Accepting

(* The chains stay while their parts and the inputs handed out do. *)
LEMMA StayInChain ==
  ASSUME conf' = conf, InChain, Total' = Total, UNCHANGED <<pc, job, sent, vot, outq, work, inq>>
  PROVE  InChain'
BY ConfKept DEF InChain, Stolen

(* A replica stays right while what it has computed is not touched. *)
LEMMA StayRight ==
  ASSUME conf' = conf, UNCHANGED <<work, vot, outq>>
  PROVE  /\ \A r : Right(r)' <=> Right(r)
         /\ UNCHANGED sdc => \A r : Sound(r)' <=> Sound(r)
BY ConfKept DEF Right, Sound, CleanWork

(* And one at most stays wrong. *)
LEMMA StayOneWrong ==
  ASSUME conf' = conf, OneWrong, UNCHANGED <<work, vot, outq, sdc, status, pc, job, child, sent>>
  PROVE  OneWrong'
<1>1. \A r : (Right(r)' <=> Right(r)) /\ (Sound(r)' <=> Sound(r))
  BY StayRight
<1>2. Full' = Full
  BY ConfKept DEF Full
<1> QED BY <1>1, <1>2, ConfKept DEF OneWrong

(* No pipe is behind the last one. *)
LEMMA LastIsLast ==
  ASSUME Safe, NEW p \in Outs
  PROVE  /\ \A r \in Reps : Len(outq[p][r]) + Len(Owed(work[r], p))
                             <= Len(outq[conf.NOut][r]) + Len(Owed(work[r], conf.NOut))
         /\ Len(sent[conf.NOut]) <= Len(sent[p])
<1>1. conf \in Configs
  BY TypeParts DEF Safe, Inv
<1>2. conf.NOut \in Outs /\ p <= conf.NOut
  BY <1>1, ConfTyped DEF Outs
<1> QED BY <1>2 DEF Safe, PipeByPipe

(* A replica runs only while the voter waits with nothing to read, or waits *)
(* for a child.                                                             *)
LEMMA WhoRuns ==
  ASSUME Safe, NEW r \in Reps, HasCpu(r)
  PROVE  (pc = "wait" /\ Full = {}) \/ pc = "accept"
<1>1. VoterBlocked
  BY DEF Safe, Guarded, HasCpu
<1>2. CASE pc = "wait" /\ SelectSet = Nothing
  <2>1. SelectSet.rep = {}
    BY <1>2 DEF Nothing
  <2> QED BY <1>2, <2>1 DEF SelectSet, Full
<1>3. CASE pc = "rep" /\ outq[FirstReady[1]][FirstReady[2]] = <<>>
  <2>1. conf \in Configs /\ ready.rep \in SUBSET (Outs \X Reps) /\ ready.rep # {}
    BY <1>3, TypeParts DEF Safe, Inv, Jobs, VoterTyped
  <2>2. FirstReady \in ready.rep
    BY <2>1, FirstReadyTyped
  <2>3. FirstReady \in Full
    BY <1>3, <2>2 DEF Safe, Reading
  <2> QED BY <1>3, <2>3 DEF Full
<1> QED BY <1>1, <1>2, <1>3 DEF VoterBlocked

(* Steps that make no replica wrong. *)
LEMMA OneWrongStep ==
  ASSUME conf' = conf, OneWrong, UNCHANGED <<status, pc, job, child, sent>>,
         \A s \in Reps : Sound(s) => Sound(s)',
         \A s \in Reps : Right(s)' \/ \A x, y \in Full' : x = y
  PROVE  OneWrong'
<1> USE ConfKept
<1>1. \A r, s \in Reps : Sound(r)' \/ Sound(s)' \/ r = s
  BY DEF OneWrong
<1>2. \A r, s \in Reps : Sound(r)' \/ status[s] = "ok"
  BY DEF OneWrong
<1>3. \A r \in Reps : Sound(r)' \/ "sdc" \in conf.FaultKinds
  BY DEF OneWrong
<1>4. /\ pc = "steal" => \A r \in Reps : Sound(r)' \/ r = job.ee
      /\ pc = "accept" => \A r \in Reps : Sound(r)'
  BY DEF OneWrong
<1>5. /\ child # NoChild => ~child.sdc /\ CleanWork(child.work)
      /\ \A p \in Outs : sent[p] \in Seq(Nat)
  BY DEF OneWrong
<1> QED BY <1>1, <1>2, <1>3, <1>4, <1>5 DEF OneWrong

(* The environment sends: nothing is handed out. *)
LEMMA SafeEnvSend ==
  ASSUME Safe, Inv', conf' = conf, EnvSend
  PROVE  Safe'
<1>0. /\ given \in Nat /\ extin \in Seq(Msg) /\ Len(extin) \in Nat
  BY TypeParts, BoundAssumption, LenProperties DEF Safe, Inv, PipesTyped, BoundsTyped
<1>1. /\ given' = given + 1 /\ extin' = Append(extin, given + 1)
      /\ given - Len(sent[conf.TimerStop]) < conf.Window
      /\ UNCHANGED <<voterVars, inq, outq, sent, repVars>>
  BY DEF EnvSend
<1>2. /\ UNCHANGED <<pc, timer, ready, vot, prio, job>>
      /\ UNCHANGED <<status, work, sdc, child, sched, handler>>
      /\ UNCHANGED <<inq, outq, sent>>
  BY <1>1 DEF voterVars, repVars
<1>3. extin \in Seq(Int) /\ given + 1 \in Int
  BY <1>0, SeqMonotonic, BoundAssumption DEF Msg
<1>4. Append(extin, given + 1) = extin \o <<given + 1>> /\ Len(Append(extin, given + 1)) = Len(extin) + 1
      /\ Append(extin, given + 1) # <<>>
  BY <1>3, AppendIsConcat, AppendProperties
<1>5. Total' = Total
  BY <1>0, <1>1, <1>4 DEF Total
<1>6. Coming'
  <2>1. Total \in Nat /\ Run(extin, Total, given)
    BY DEF Safe, Coming
  <2>2. Run(<<given + 1>>, given, given + 1)
    BY <1>0, <1>3, RunOne
  <2>3. Run(extin', Total, given')
    BY <1>1, <1>4, <2>1, <2>2, RunConcat
  <2> QED BY <1>1, <1>4, <1>5, <2>1, <2>3 DEF Coming
<1>7. Due'
  <2> DEFINE answered == Len(sent[conf.TimerStop])
             window == conf.Window
  <2>1. conf.TimerStop \in Outs /\ conf \in Configs /\ sent \in [Outs -> Seq(Value)]
    BY TypeParts, ConfTyped DEF Safe, Inv, PipesTyped
  <2>2. answered \in Nat /\ window \in Nat
    BY <2>1, ConfigAssumption, LenProperties
  <2>3. given - answered < window
    BY <1>1
  <2>4. given' - answered <= window
    <3> HIDE DEF answered, window
    <3> QED BY <1>0, <1>1, <2>2, <2>3
  <2>5. conf.TimerStop = conf.NOut => given' - Len(sent[conf.NOut]) <= conf.Window
    BY <2>4
  <2> QED BY <1>2, <1>5, <2>5 DEF Due, Restarting, Safe
<1>8. Accepting' /\ InChain' /\ OneWrong'
  BY <1>2, <1>5, StayAccepting, StayInChain, StayOneWrong DEF Safe
<1>9. Guarded' /\ Idle' /\ InOrder' /\ Reading' /\ NoneReady' /\ PipeByPipe'
  BY <1>2, Stay DEF Safe
<1> QED BY <1>6, <1>7, <1>8, <1>9 DEF Safe

(* The restarter forks: its child owes what it owes. *)
LEMMA SafeFork ==
  ASSUME Safe, Inv', conf' = conf, Fork
  PROVE  Safe'
<1> USE ConfKept
<1> DEFINE er == job.er
<1>0. conf \in Configs /\ er \in Reps /\ status \in [Reps -> {"ok", "hung", "dead"}] /\ work \in [Reps -> Seq(Output)]
      /\ outq \in [Outs -> [Reps -> Seq(Value)]]
  BY TypeParts DEF Safe, Inv, VoterTyped, RepsTyped, PipesTyped
<1>1. /\ pc = "accept" /\ child = NoChild /\ status[er] # "dead"
      /\ child' = [status |-> status[er], work |-> work[er], sdc |-> sdc[er]]
  BY DEF Fork, Signalled
<1>2. /\ UNCHANGED <<pc, timer, ready, vot, prio, job>>
      /\ UNCHANGED <<extin, inq, outq, sent>>
      /\ UNCHANGED <<status, work, sdc, sched>> /\ UNCHANGED given
  BY DEF Fork, voterVars, pipeVars, bounds
<1>3. child' # NoChild /\ child'.work = work[er] /\ child'.sdc = sdc[er]
  BY <1>0, <1>1 DEF NoChild
<1>4. Accepting'
  <2>1. \A p \in Outs : outq[p][er] = <<>>
    BY <1>1 DEF Safe, Accepting
  <2>2. ASSUME NEW p \in Outs PROVE outq[p][er] \o Owed(work[er], p) = Owed(work[er], p)
    <3>1. Owed(work[er], p) \in Seq(Int)
      <4>1. ~(pc = "accept" /\ er = job.ee)
        BY <1>1 DEF Safe, Inv, Jobs
      <4>2. Chain(sent[p], vot[p][er].q, outq[p][er], Owed(work[er], p), inq[er], Stolen(er), Total)
        BY <1>0, <4>1 DEF Safe, InChain
      <4> QED BY <4>2, ChainLen
    <3> QED BY <2>1, <3>1, ConcatEmptySeq
  <2> QED BY <1>1, <1>2, <1>3, <2>2 DEF Safe, Accepting
<1>5. InOrder'
  BY <1>0, <1>2, <1>3 DEF Safe, InOrder, Lined
<1>6. OneWrong'
  <2>1. \A r : (Right(r)' <=> Right(r)) /\ (Sound(r)' <=> Sound(r))
    BY <1>2, StayRight
  <2>2. Full' = Full
    BY <1>2 DEF Full
  <2>3. ~sdc[er] /\ CleanWork(work[er])
    BY <1>0, <1>1 DEF Safe, OneWrong, Sound, Right
  <2> QED BY <1>2, <1>3, <2>1, <2>2, <2>3 DEF Safe, OneWrong
<1>7. Total' = Total
  BY <1>2 DEF Total
<1>8. InChain'
  BY <1>2, <1>7, StayInChain DEF Safe
<1>9. Guarded' /\ Coming' /\ Reading' /\ NoneReady' /\ PipeByPipe' /\ Due'
  BY <1>2, Stay DEF Safe
<1>10. Idle'
  BY <1>1, <1>2 DEF Idle
<1> QED BY <1>4, <1>5, <1>6, <1>8, <1>9, <1>10 DEF Safe

(* The parent's end of the handler, and steps that change nothing of this. *)
LEMMA SafeAside ==
  ASSUME Safe, Inv', conf' = conf,
         UNCHANGED <<pc, timer, ready, vot, job>>, UNCHANGED pipeVars,
         UNCHANGED <<status, work, sdc, child, given>>
  PROVE  Safe'
<1>1. UNCHANGED <<extin, inq, outq, sent>> /\ Total' = Total
  BY DEF pipeVars, Total
<1>2. Accepting' /\ InChain' /\ OneWrong'
  BY <1>1, StayAccepting, StayInChain, StayOneWrong DEF Safe
<1> QED BY <1>1, <1>2, Stay DEF Safe

(* The end of the handler in the restarter changes priorities only. *)
LEMMA SafeResume ==
  ASSUME Safe, Inv', conf' = conf, NEW r \in Reps, Resume(r)
  PROVE  Safe'
BY SafeAside DEF Resume, voterVars, bounds

(* What is in no pipe. *)
LEMMA EmptyFull ==
  Full = {} <=> \A p \in Outs, r \in Reps : outq[p][r] = <<>>
<1>1. \A x \in Outs \X Reps : x = <<x[1], x[2]>> /\ x[1] \in Outs /\ x[2] \in Reps
  OBVIOUS
<1>2. ASSUME Full = {}, NEW p \in Outs, NEW r \in Reps PROVE outq[p][r] = <<>>
  <2>1. <<p, r>> \in Outs \X Reps /\ <<p, r>>[1] = p /\ <<p, r>>[2] = r
    OBVIOUS
  <2>2. <<p, r>> \notin Full
    BY <1>2
  <2> QED BY <2>1, <2>2 DEF Full
<1>3. (\A p \in Outs, r \in Reps : outq[p][r] = <<>>) => Full = {}
  BY <1>1 DEF Full
<1> QED BY <1>2, <1>3

(* The types of what a replica has, and its chains. *)
LEMMA ReplicaTyped ==
  ASSUME Safe, NEW r \in Reps
  PROVE  /\ conf \in Configs /\ work[r] \in Seq(Output) /\ Lined(work[r])
         /\ inq[r] \in Seq(Msg) /\ inq[r] \in Seq(Int)
         /\ \A p \in Outs : outq[p][r] \in Seq(Value) /\ outq[p][r] \in Seq(Int)
         /\ \A p \in Outs : vot[p][r].q \in Seq(Value) /\ vot[p][r].q \in Seq(Int)
         /\ \A p \in Outs : sent[p] \in Seq(Value) /\ sent[p] \in Seq(Int)
<1>1. conf \in Configs /\ VoterTyped /\ PipesTyped /\ RepsTyped
  BY TypeParts DEF Safe, Inv
<1>2. work[r] \in Seq(Output) /\ Lined(work[r]) /\ inq[r] \in Seq(Msg)
  BY <1>1 DEF RepsTyped, PipesTyped, Safe, InOrder
<1>3. \A p \in Outs : outq[p][r] \in Seq(Value) /\ sent[p] \in Seq(Value)
  BY <1>1 DEF PipesTyped
<1>4. \A p \in Outs : vot[p][r].q \in Seq(Value)
  BY <1>1 DEF VoterTyped, Votes, Buff
<1>5. Msg \subseteq Int /\ Value \subseteq Int
  BY BoundAssumption DEF Msg, Value
<1>6. inq[r] \in Seq(Int)
  BY <1>2, <1>5, SeqMonotonic
<1>7. \A p \in Outs : outq[p][r] \in Seq(Int) /\ sent[p] \in Seq(Int) /\ vot[p][r].q \in Seq(Int)
  BY <1>3, <1>4, <1>5, SeqMonotonic
<1> QED BY <1>1, <1>2, <1>3, <1>4, <1>6, <1>7

(* The types after a step. *)
LEMMA TypedNext ==
  ASSUME Inv'
  PROVE  conf' \in Configs /\ VoterTyped' /\ PipesTyped' /\ RepsTyped'
BY DEF Inv, TypeOK, VoterTyped, PipesTyped, RepsTyped, Votes, Output

(* What is owed is wrong if any of it is. *)
LEMMA CleanOwed ==
  ASSUME conf \in Configs, NEW w \in Seq(Output), Lined(w),
         \A p \in Outs : Owed(w, p) \in Seq(Nat)
  PROVE  CleanWork(w)
<1> DEFINE N == conf.NOut
           k == Len(w)
<1>1. N \in Nat /\ k \in Nat /\ k <= N
  BY ConfTyped, OwedPlace
<1> SUFFICES ASSUME NEW i \in 1 .. k PROVE w[i].val \in Nat
  BY DEF CleanWork
<1> DEFINE p == w[i].pipe
<1>2. p \in Outs /\ p = N - k + i
  <2>1. w[i] \in Output
    BY ElementOfSeq
  <2> QED BY <2>1 DEF Output, Lined
<1>3. IF p <= N - k THEN Owed(w, p) = <<>> ELSE Owed(w, p) = <<w[p - (N - k)].val>>
  BY <1>2, OwedPlace
<1> HIDE DEF N, k, p
<1>4. ~(p <= N - k) /\ p - (N - k) = i
  BY <1>1, <1>2
<1>5. Owed(w, p) = <<w[i].val>>
  BY <1>3, <1>4
<1>6. <<w[i].val>> \in Seq(Nat)
  BY <1>2, <1>5
<1> QED BY <1>6

(* When all is well no replica is wrong. *)
LEMMA HealthySound ==
  ASSUME Safe, Healthy, ~Restarting, NEW r \in Reps
  PROVE  Sound(r) /\ status[r] = "ok"
<1>1. ~sdc[r] /\ status[r] = "ok" /\ InStep(r)
  BY DEF Healthy
<1>2. Total \in Nat
  BY DEF Safe, Coming
<1>3. ASSUME NEW p \in Outs
      PROVE  vot[p][r].q \in Seq(Nat) /\ outq[p][r] \in Seq(Nat) /\ Owed(work[r], p) \in Seq(Nat)
  <2>1. Chain(sent[p], vot[p][r].q, outq[p][r], Owed(work[r], p), inq[r], Stolen(r), Total)
    BY DEF Safe, InChain, Restarting
  <2>2. sent[p] \o vot[p][r].q \o outq[p][r] \o Owed(work[r], p) \o inq[r] = Ideal(Total)
    BY <1>1 DEF InStep, Stream, Pending, Total
  <2>3. /\ sent[p] \in Seq(Int) /\ vot[p][r].q \in Seq(Int) /\ outq[p][r] \in Seq(Int)
        /\ Owed(work[r], p) \in Seq(Int) /\ inq[r] \in Seq(Int)
    BY <2>1, ChainLen
  <2> QED BY <1>2, <2>2, <2>3, ExactClean
<1>4. CleanWork(work[r])
  BY <1>3, ReplicaTyped, CleanOwed
<1> QED BY <1>1, <1>3, <1>4 DEF Sound, Right

(* A replica reads an input and computes its outputs. *)
LEMMA SafeRepRead ==
  ASSUME Safe, Inv', conf' = conf, NEW r \in Reps, RepRead(r)
  PROVE  Safe'
<1> USE ConfKept
<1> DEFINE x == IF sdc[r] THEN -Head(inq[r]) ELSE Head(inq[r])
           W == [p \in Outs |-> [pipe |-> p, val |-> x]]
<1>0. /\ conf \in Configs /\ work \in [Reps -> Seq(Output)] /\ inq \in [Reps -> Seq(Msg)]
      /\ sdc \in [Reps -> BOOLEAN]
  BY TypeParts DEF Safe, Inv, PipesTyped, RepsTyped
<1>1. /\ status[r] = "ok" /\ work[r] = <<>> /\ inq[r] # <<>> /\ MayRun(r)
      /\ work' = [work EXCEPT ![r] = W] /\ sdc' = [sdc EXCEPT ![r] = FALSE]
      /\ inq' = [inq EXCEPT ![r] = Tail(inq[r])]
      /\ UNCHANGED <<pc, timer, ready, vot, prio, job>>
      /\ UNCHANGED <<extin, outq, sent, status, child, sched, handler, given>>
  BY DEF RepRead, voterVars, bounds
<1>2. (pc = "wait" /\ Full = {}) \/ (pc = "accept" /\ r # job.ee /\ r # job.er)
  <2>1. (pc = "wait" /\ Full = {}) \/ pc = "accept"
    BY <1>1, WhoRuns DEF MayRun
  <2>2. pc = "accept" => status[job.ee] # "ok" /\ inq[job.er] = <<>>
    BY DEF Safe, Accepting
  <2> QED BY <1>1, <2>1, <2>2
<1>3. W \in Seq(Output) /\ work'[r] = W
  <2>1. work' \in [Reps -> Seq(Output)]
    BY TypedNext DEF RepsTyped
  <2> QED BY <1>0, <1>1, <2>1
<1>4. Lined(W) /\ (\A p \in Outs : Owed(W, p) = <<x>>)
  BY <1>0, <1>3, OwedAll
<1>5. /\ \A p \in Outs : Owed(work'[r], p) = <<x>> /\ Owed(work[r], p) = <<>>
      /\ \A s \in Reps \ {r} : work'[s] = work[s] /\ inq'[s] = inq[s] /\ sdc'[s] = sdc[s]
      /\ inq'[r] = Tail(inq[r]) /\ ~sdc'[r]
  BY <1>0, <1>1, <1>3, <1>4, OwedNone
<1>6. Head(inq[r]) \in Msg /\ (x = Head(inq[r]) \/ x = -Head(inq[r]))
  BY <1>0, <1>1, HeadTailProperties
<1>7. Accepting'
  <2>1. CASE pc # "accept"
    BY <1>1, <2>1 DEF Accepting
  <2>2. CASE pc = "accept"
    <3>1. job.ee \in Reps /\ job.er \in Reps
      BY TypeParts DEF Safe, Inv, VoterTyped
    <3>2. /\ work'[job.ee] = work[job.ee] /\ inq'[job.ee] = inq[job.ee]
          /\ work'[job.er] = work[job.er] /\ inq'[job.er] = inq[job.er]
      BY <1>2, <1>5, <2>2, <3>1
    <3> QED BY <1>1, <3>2 DEF Safe, Accepting
  <2> QED BY <2>1, <2>2
<1> HIDE DEF x, W
<1>8. InOrder'
  <2>1. \A s \in Reps : Lined(work'[s])
    BY <1>3, <1>4, <1>5 DEF Safe, InOrder
  <2> QED BY <1>1, <2>1 DEF Safe, InOrder, Lined
<1>9. Total' = Total
  BY <1>1 DEF Total
<1>10. InChain'
  <2> SUFFICES ASSUME NEW s \in Reps, ~(pc = "accept" /\ s = job.ee), NEW p \in Outs
               PROVE  Chain(sent[p], vot[p][s].q, outq[p][s], Owed(work'[s], p), inq'[s], Stolen(s), Total)
    BY <1>1, <1>9 DEF InChain, Stolen
  <2>1. Chain(sent[p], vot[p][s].q, outq[p][s], Owed(work[s], p), inq[s], Stolen(s), Total)
    BY DEF Safe, InChain
  <2>2. CASE s # r
    BY <1>5, <2>1, <2>2
  <2>3. CASE s = r
    <3>1. Chain(sent[p], vot[p][r].q, outq[p][r], <<>>, inq[r], Stolen(r), Total)
      BY <1>5, <2>1, <2>3
    <3>2. Chain(sent[p], vot[p][r].q, outq[p][r], <<x>>, Tail(inq[r]), Stolen(r), Total)
      BY <1>1, <1>6, <3>1, ChainRead
    <3> QED BY <1>5, <2>3, <3>2
  <2> QED BY <2>2, <2>3
<1>11. OneWrong'
  <2>1. ~sdc[r] => CleanWork(W)
    <3>1. ~sdc[r] => x \in Nat
      BY <1>6 DEF Msg, x
    <3>2. Len(W) = conf.NOut /\ conf.NOut \in Nat
      BY <1>0, <1>3, OwedAll, ConfTyped DEF W
    <3> QED BY <3>1, <3>2 DEF CleanWork, W, Outs
  <2>2. \A s \in Reps : Sound(s) => Sound(s)'
    BY <1>1, <1>3, <1>5, <2>1 DEF Sound, Right
  <2>3. Full' = Full
    BY <1>1 DEF Full
  <2>4. \A s \in Reps : Right(s)' \/ \A y, z \in Full' : y = z
    <3>1. CASE Full = {}
      BY <2>3, <3>1
    <3>2. CASE pc = "accept"
      BY <2>2, <3>2 DEF Safe, OneWrong, Sound
    <3> QED BY <1>2, <3>1, <3>2
  <2> QED BY <1>1, <2>2, <2>4, OneWrongStep DEF Safe
<1>12. PipeByPipe'
  <2>2. ASSUME NEW s \in Reps, NEW p \in Outs, NEW q \in Outs, p <= q
        PROVE  Len(outq[p][s]) + Len(Owed(work'[s], p))
                 <= Len(outq[q][s]) + Len(Owed(work'[s], q))
    <3> DEFINE a == Len(outq[p][s])
               b == Len(outq[q][s])
    <3>1. a + Len(Owed(work[s], p)) <= b + Len(Owed(work[s], q))
      BY <2>2 DEF Safe, PipeByPipe
    <3>2. a \in Nat /\ b \in Nat
      BY ReplicaTyped, LenProperties
    <3> HIDE DEF a, b
    <3>3. CASE s # r
      BY <1>5, <3>1, <3>3 DEF a, b
    <3>4. CASE s = r
      <4>1. a + 0 <= b + 0
        <5>1. Len(Owed(work[s], p)) = 0 /\ Len(Owed(work[s], q)) = 0
          BY <1>5, <3>4
        <5> QED BY <3>1, <5>1
      <4>2. Len(Owed(work'[s], p)) = 1 /\ Len(Owed(work'[s], q)) = 1
        BY <1>5, <3>4
      <4>3. a + 1 <= b + 1
        BY <3>2, <4>1
      <4> QED BY <4>2, <4>3 DEF a, b
    <3> QED BY <3>3, <3>4
  <2> QED BY <1>1, <2>2 DEF Safe, PipeByPipe
<1>13. Guarded' /\ Idle' /\ Coming' /\ Reading' /\ NoneReady' /\ Due'
  BY <1>1, Stay DEF Safe
<1> QED BY <1>7, <1>8, <1>10, <1>11, <1>12, <1>13 DEF Safe

(* A replica writes the next of its outputs. *)
LEMMA SafeRepWrite ==
  ASSUME Safe, Inv', conf' = conf, NEW r \in Reps, RepWrite(r)
  PROVE  Safe'
<1> USE ConfKept
<1> DEFINE w == Head(work[r])
           rest == Tail(work[r])
<1>0. /\ conf \in Configs /\ work \in [Reps -> Seq(Output)] /\ inq \in [Reps -> Seq(Msg)]
      /\ outq \in [Outs -> [Reps -> Seq(Value)]]
  BY TypeParts DEF Safe, Inv, PipesTyped, RepsTyped
<1>1. /\ status[r] = "ok" /\ work[r] # <<>> /\ MayRun(r)
      /\ outq' = [outq EXCEPT ![w.pipe][r] = Append(outq[w.pipe][r], w.val)]
      /\ work' = [work EXCEPT ![r] = rest]
      /\ UNCHANGED <<pc, timer, ready, vot, prio, job>>
      /\ UNCHANGED <<extin, inq, sent, status, sdc, child, sched, handler, given>>
  BY DEF RepWrite, voterVars, bounds
<1>2. /\ (pc = "wait" /\ Full = {}) \/ (pc = "accept" /\ r # job.ee)
      /\ pc = "accept" /\ r = job.er => child # NoChild
  <2>1. (pc = "wait" /\ Full = {}) \/ pc = "accept"
    BY <1>1, WhoRuns DEF MayRun
  <2>2. pc = "accept" => status[job.ee] # "ok"
    BY DEF Safe, Accepting
  <2>3. ~Signalled(r)
    BY <1>1 DEF MayRun, Safe, Guarded
  <2> QED BY <1>1, <2>1, <2>2, <2>3 DEF Signalled
<1>3. work[r] \in Seq(Output) /\ Lined(work[r])
  BY ReplicaTyped
<1>4. /\ rest \in Seq(Output) /\ Lined(rest) /\ w \in Output
      /\ Owed(work[r], w.pipe) = <<w.val>>
      /\ \A p \in Outs : Owed(rest, p) = IF p = w.pipe THEN <<>> ELSE Owed(work[r], p)
  BY <1>0, <1>1, <1>3, OwedTail
<1> HIDE DEF w, rest
<1>5. w.pipe \in Outs /\ w.val \in Value /\ w.val \in Int
  <2>1. w.pipe \in Outs /\ w.val \in Value
    BY <1>4 DEF Output
  <2> QED BY <2>1, BoundAssumption DEF Value
<1>6. /\ \A s \in Reps \ {r} : work'[s] = work[s]
      /\ work'[r] = rest
      /\ \A p \in Outs, s \in Reps : ~(p = w.pipe /\ s = r) => outq'[p][s] = outq[p][s]
      /\ outq'[w.pipe][r] = Append(outq[w.pipe][r], w.val)
  BY <1>0, <1>1, <1>5
<1>7. outq'[w.pipe][r] = outq[w.pipe][r] \o <<w.val>> /\ outq'[w.pipe][r] # <<>>
      /\ Len(outq'[w.pipe][r]) = Len(outq[w.pipe][r]) + 1
  <2> DEFINE x == w.val
             o == outq[w.pipe][r]
  <2>1. o \in Seq(Int) /\ x \in Int /\ outq'[w.pipe][r] = Append(o, x)
    BY <1>5, <1>6, ReplicaTyped
  <2> HIDE DEF x, o
  <2>2. Append(o, x) = o \o <<x>>
    BY <2>1, AppendIsConcat
  <2>3. Append(o, x) # <<>> /\ Len(Append(o, x)) = Len(o) + 1
    BY <2>1, AppendProperties
  <2> QED BY <2>1, <2>2, <2>3 DEF x, o
<1>8. ASSUME NEW p \in Outs
      PROVE  outq'[p][r] \o Owed(work'[r], p) = outq[p][r] \o Owed(work[r], p)
  <2>1. CASE p = w.pipe
    <3>1. outq[p][r] \o <<w.val>> \in Seq(Int)
      <4>1. outq[p][r] \in Seq(Int) /\ <<w.val>> \in Seq(Int)
        BY <1>5, ReplicaTyped
      <4> QED BY <4>1, ConcatProperties
    <3>2. (outq[p][r] \o <<w.val>>) \o <<>> = outq[p][r] \o <<w.val>>
      BY <3>1, ConcatEmptySeq
    <3> QED BY <1>4, <1>6, <1>7, <2>1, <3>2
  <2>2. CASE p # w.pipe
    BY <1>4, <1>6, <2>2
  <2> QED BY <2>1, <2>2
<1>9. Accepting'
  <2>1. CASE pc # "accept"
    BY <1>1, <2>1 DEF Accepting
  <2>2. CASE pc = "accept"
    <3>1. job.ee \in Reps /\ job.er \in Reps
      BY TypeParts DEF Safe, Inv, VoterTyped
    <3>2. work'[job.ee] = work[job.ee] /\ \A p \in Outs : outq'[p][job.ee] = outq[p][job.ee]
      BY <1>2, <1>6, <2>2, <3>1
    <3>3. child = NoChild => \A p \in Outs : outq'[p][job.er] = <<>>
      <4>1. child = NoChild => r # job.er
        BY <1>2, <2>2
      <4> QED BY <1>6, <2>2, <3>1, <4>1 DEF Safe, Accepting
    <3>4. ASSUME child # NoChild, NEW p \in Outs
          PROVE  outq'[p][job.er] \o Owed(work'[job.er], p) = Owed(child.work, p)
      <4>1. outq[p][job.er] \o Owed(work[job.er], p) = Owed(child.work, p)
        BY <2>2, <3>4 DEF Safe, Accepting
      <4>2. CASE r = job.er
        BY <1>8, <4>1, <4>2
      <4>3. CASE r # job.er
        BY <1>6, <3>1, <4>1, <4>3
      <4> QED BY <4>2, <4>3
    <3> QED BY <1>1, <2>2, <3>2, <3>3, <3>4 DEF Safe, Accepting
  <2> QED BY <2>1, <2>2
<1>10. InOrder'
  <2>1. \A s \in Reps : Lined(work'[s])
    BY <1>4, <1>6 DEF Safe, InOrder
  <2> QED BY <1>1, <2>1 DEF Safe, InOrder, Lined
<1>11. Total' = Total
  BY <1>1 DEF Total
<1>12. InChain'
  <2> SUFFICES ASSUME NEW s \in Reps, ~(pc = "accept" /\ s = job.ee), NEW p \in Outs
               PROVE  Chain(sent[p], vot[p][s].q, outq'[p][s], Owed(work'[s], p), inq[s], Stolen(s), Total)
    BY <1>1, <1>11 DEF InChain, Stolen
  <2>1. Chain(sent[p], vot[p][s].q, outq[p][s], Owed(work[s], p), inq[s], Stolen(s), Total)
    BY DEF Safe, InChain
  <2>2. CASE s # r
    BY <1>6, <2>1, <2>2
  <2>3. CASE s = r /\ p # w.pipe
    BY <1>4, <1>6, <2>1, <2>3
  <2>4. CASE s = r /\ p = w.pipe
    <3>1. Chain(sent[p], vot[p][s].q, outq[p][s] \o Owed(work[s], p), <<>>, inq[s], Stolen(s), Total)
      BY <2>1, ChainWrite
    <3> QED BY <1>4, <1>6, <1>7, <2>4, <3>1
  <2> QED BY <2>2, <2>3, <2>4
<1>13. OneWrong'
  <2>1. ASSUME Right(r) PROVE Right(r)'
    <3>1. w.val \in Nat /\ CleanWork(rest)
      <4>1. CleanWork(work[r])
        BY <2>1 DEF Right
      <4>2. /\ Len(work[r]) \in Nat \ {0} /\ Len(rest) = Len(work[r]) - 1
            /\ \A i \in 1 .. Len(rest) : rest[i] = work[r][i + 1]
            /\ w = work[r][1]
        BY <1>1, <1>3, EmptySeq, HeadTailProperties DEF w, rest
      <4>3. w.val \in Nat
        BY <4>1, <4>2 DEF CleanWork
      <4>4. ASSUME NEW i \in 1 .. Len(rest) PROVE rest[i].val \in Nat
        <5>1. i + 1 \in 1 .. Len(work[r])
          BY <4>2
        <5> QED BY <4>1, <4>2, <5>1 DEF CleanWork
      <4> QED BY <4>3, <4>4 DEF CleanWork
    <3>2. ASSUME NEW p \in Outs PROVE vot[p][r].q \in Seq(Nat) /\ outq'[p][r] \in Seq(Nat)
      <4>1. vot[p][r].q \in Seq(Nat) /\ outq[p][r] \in Seq(Nat)
        BY <2>1 DEF Right
      <4>2. outq[p][r] \o <<w.val>> \in Seq(Nat)
        <5>1. <<w.val>> \in Seq(Nat)
          BY <3>1
        <5> QED BY <4>1, <5>1, ConcatProperties
      <4> QED BY <1>6, <1>7, <4>1, <4>2
    <3> QED BY <1>1, <1>6, <3>1, <3>2 DEF Right
  <2>2. \A s \in Reps : Right(s) => Right(s)'
    <3> TAKE s \in Reps
    <3>1. CASE s = r
      BY <2>1, <3>1
    <3>2. CASE s # r
      <4>1. work'[s] = work[s] /\ \A p \in Outs : outq'[p][s] = outq[p][s]
        BY <1>6, <3>2
      <4> QED BY <1>1, <4>1 DEF Right, CleanWork
    <3> QED BY <3>1, <3>2
  <2>3. \A s \in Reps : Sound(s) => Sound(s)'
    BY <1>1, <2>2 DEF Sound
  <2>4. \A s \in Reps : Right(s)' \/ \A y, z \in Full' : y = z
    <3>1. CASE Full = {}
      <4>1. \A y \in Full' : y = <<w.pipe, r>>
        <5> SUFFICES ASSUME NEW p \in Outs, NEW s \in Reps, outq'[p][s] # <<>>
                     PROVE  p = w.pipe /\ s = r
          BY DEF Full
        <5>1. outq[p][s] = <<>>
          BY <3>1, EmptyFull
        <5> QED BY <1>6, <5>1
      <4> QED BY <4>1
    <3>2. CASE pc = "accept"
      BY <2>2, <3>2 DEF Safe, OneWrong, Sound
    <3> QED BY <1>2, <3>1, <3>2
  <2> QED BY <1>1, <2>3, <2>4, OneWrongStep DEF Safe
<1>14. PipeByPipe'
  <2>2. ASSUME NEW p \in Outs
        PROVE  /\ Len(outq'[p][r]) + Len(Owed(work'[r], p)) = Len(outq[p][r]) + Len(Owed(work[r], p))
    <3>1. Len(outq[p][r]) \in Nat
      BY ReplicaTyped, LenProperties
    <3>2. CASE p # w.pipe
      BY <1>4, <1>6, <3>2
    <3>3. CASE p = w.pipe
      <4>1. /\ Len(outq'[p][r]) = Len(outq[p][r]) + 1
            /\ Len(Owed(work'[r], p)) = 0 /\ Len(Owed(work[r], p)) = 1
        BY <1>4, <1>6, <1>7, <3>3
      <4> QED BY <3>1, <4>1
    <3> QED BY <3>2, <3>3
  <2>3. ASSUME NEW s \in Reps, NEW p \in Outs, NEW q \in Outs, p <= q
        PROVE  Len(outq'[p][s]) + Len(Owed(work'[s], p))
                 <= Len(outq'[q][s]) + Len(Owed(work'[s], q))
    <3>1. Len(outq[p][s]) + Len(Owed(work[s], p))
            <= Len(outq[q][s]) + Len(Owed(work[s], q))
      BY <2>3 DEF Safe, PipeByPipe
    <3>2. CASE s = r
      BY <2>2, <3>1, <3>2
    <3>3. CASE s # r
      BY <1>6, <3>1, <3>3
    <3> QED BY <3>2, <3>3
  <2> QED BY <1>1, <2>3 DEF Safe, PipeByPipe
<1>15. Reading'
  BY <1>1, <1>2 DEF Safe, Reading
<1>16. Guarded' /\ Idle' /\ Coming' /\ NoneReady' /\ Due'
  BY <1>1, Stay DEF Safe
<1> QED BY <1>9, <1>10, <1>12, <1>13, <1>14, <1>15, <1>16 DEF Safe

(* An upset strikes when all is well. *)
LEMMA SafeUpset ==
  ASSUME Safe, Inv', conf' = conf, NEW r \in Reps, Crash(r) \/ Hang(r) \/ Corrupt(r)
  PROVE  Safe'
<1> USE ConfKept
<1>0. sdc \in [Reps -> BOOLEAN] /\ status \in [Reps -> {"ok", "hung", "dead"}]
  BY TypeParts DEF Safe, Inv, RepsTyped
<1>1. /\ ~Restarting /\ Healthy
      /\ UNCHANGED <<pc, timer, ready, vot, prio, job>>
      /\ UNCHANGED <<extin, inq, outq, sent>>
      /\ UNCHANGED <<work, child, sched, handler, given>>
  BY DEF Crash, Hang, Corrupt, Upset, Recovered, voterVars, pipeVars
<1>2. \A s \in Reps : Sound(s) /\ status[s] = "ok"
  BY <1>1, HealthySound
<1>3. pc \notin {"steal", "accept"}
  BY <1>1 DEF Restarting
<1>4. Full' = Full /\ Total' = Total /\ \A s \in Reps : Right(s)' <=> Right(s)
  BY <1>1, StayRight DEF Full, Total
<1>5. OneWrong'
  <2>1. CASE UNCHANGED sdc
    <3>1. \A s \in Reps : Sound(s)' /\ Right(s)'
      BY <1>2, <1>4, <2>1 DEF Sound
    <3> QED BY <1>1, <1>3, <3>1 DEF Safe, OneWrong
  <2>2. CASE Corrupt(r)
    <3>1. /\ "sdc" \in conf.FaultKinds /\ UNCHANGED status
          /\ sdc' = [sdc EXCEPT ![r] = TRUE]
      BY <2>2 DEF Corrupt
    <3>2. \A s \in Reps \ {r} : sdc'[s] = sdc[s]
      BY <1>0, <3>1
    <3>3. /\ \A s \in Reps : Right(s)'
          /\ \A s \in Reps \ {r} : Sound(s)'
      BY <1>2, <1>4, <3>2 DEF Sound
    <3> QED BY <1>1, <1>2, <1>3, <3>1, <3>3 DEF Safe, OneWrong
  <2> QED BY <2>1, <2>2 DEF Crash, Hang
<1>6. Accepting'
  BY <1>1, <1>3 DEF Accepting
<1>7. InChain'
  BY <1>1, <1>4, StayInChain DEF Safe
<1>8. Guarded' /\ Idle' /\ Coming' /\ InOrder' /\ Reading' /\ NoneReady' /\ PipeByPipe' /\ Due'
  BY <1>1, Stay DEF Safe
<1> QED BY <1>5, <1>6, <1>7, <1>8 DEF Safe

(* The chains outside of a restart, and what their lengths say. *)
LEMMA ChainOf ==
  ASSUME Safe, ~Restarting, NEW r \in Reps, NEW p \in Outs
  PROVE  /\ Chain(sent[p], vot[p][r].q, outq[p][r], Owed(work[r], p), inq[r], <<>>, Total)
         /\ Len(sent[p]) \in Nat /\ Len(vot[p][r].q) \in Nat /\ Len(outq[p][r]) \in Nat
         /\ Len(Owed(work[r], p)) \in Nat /\ Len(inq[r]) \in Nat
         /\ Total = Len(sent[p]) + Len(vot[p][r].q) + Len(outq[p][r])
                       + Len(Owed(work[r], p)) + Len(inq[r])
<1>1. pc # "accept" /\ job.stolen = <<>>
  BY DEF Safe, Idle, Restarting
<1>2. Chain(sent[p], vot[p][r].q, outq[p][r], Owed(work[r], p), inq[r], <<>>, Total)
  BY <1>1 DEF Safe, InChain, Stolen
<1>3. /\ Len(sent[p]) \in Nat /\ Len(vot[p][r].q) \in Nat /\ Len(outq[p][r]) \in Nat
      /\ Len(Owed(work[r], p)) \in Nat /\ Len(inq[r]) \in Nat
      /\ Total = Len(sent[p]) + Len(vot[p][r].q) + Len(outq[p][r])
                    + Len(Owed(work[r], p)) + Len(inq[r]) + Len(<<>>)
  <2> DEFINE s == sent[p]
             v == vot[p][r].q
             o == outq[p][r]
             w == Owed(work[r], p)
             i == inq[r]
             t == <<>>
  <2>1. Chain(s, v, o, w, i, t, Total)
    BY <1>2
  <2> HIDE DEF s, v, o, w, i, t
  <2>2. /\ Len(s) \in Nat /\ Len(v) \in Nat /\ Len(o) \in Nat /\ Len(w) \in Nat /\ Len(i) \in Nat
        /\ Total = Len(s) + Len(v) + Len(o) + Len(w) + Len(i) + Len(t)
    BY <2>1, ChainLen
  <2> QED BY <2>2 DEF s, v, o, w, i, t
<1> DEFINE s == Len(sent[p])
           v == Len(vot[p][r].q)
           o == Len(outq[p][r])
           w == Len(Owed(work[r], p))
           i == Len(inq[r])
<1>4. /\ s \in Nat /\ v \in Nat /\ o \in Nat /\ w \in Nat /\ i \in Nat
      /\ Total = s + v + o + w + i + Len(<<>>) /\ Len(<<>>) = 0
  BY <1>3
<1>5. Total = s + v + o + w + i
  <2> HIDE DEF s, v, o, w, i
  <2> QED BY <1>4
<1> QED BY <1>2, <1>4, <1>5

(* When the last pipe owes nothing, only votes are left. *)
LEMMA Complete ==
  ASSUME Safe, ~Restarting, Len(sent[conf.NOut]) >= Total, NEW r \in Reps, NEW p \in Outs
  PROVE  /\ Len(sent[p]) \in Nat /\ Len(vot[p][r].q) \in Nat
         /\ Total = Len(sent[p]) + Len(vot[p][r].q)
<1> DEFINE N == conf.NOut
           s == Len(sent[N])
           v == Len(vot[N][r].q)
           o == Len(outq[N][r])
           w == Len(Owed(work[r], N))
           i == Len(inq[r])
           sp == Len(sent[p])
           vp == Len(vot[p][r].q)
           op == Len(outq[p][r])
           wp == Len(Owed(work[r], p))
<1>1. N \in Outs
  BY ReplicaTyped, ConfTyped DEF Outs
<1>2. /\ s \in Nat /\ v \in Nat /\ o \in Nat /\ w \in Nat /\ i \in Nat
      /\ Total = s + v + o + w + i
  BY <1>1, ChainOf
<1>3. /\ sp \in Nat /\ vp \in Nat /\ op \in Nat /\ wp \in Nat
      /\ Total = sp + vp + op + wp + i
  BY ChainOf
<1>4. op + wp <= o + w
  BY LastIsLast
<1>5. s >= Total
  OBVIOUS
<1>6. Total = sp + vp
  <2> HIDE DEF s, v, o, w, i, sp, vp, op, wp
  <2> QED BY <1>2, <1>3, <1>4, <1>5
<1> QED BY <1>3, <1>6

(* Replicas out of step owe something to the last pipe. *)
LEMMA OutOfSync ==
  ASSUME Safe, ~Restarting, ~checkSync
  PROVE  Len(sent[conf.NOut]) < Total
<1> SUFFICES ASSUME ~(Len(sent[conf.NOut]) < Total) PROVE checkSync
  OBVIOUS
<1>1. 0 \in Reps /\ conf.NOut \in Outs
  <2>1. conf \in Configs
    BY TypeParts DEF Safe, Inv
  <2>2. conf.NOut \in Outs
    BY <2>1, ConfTyped DEF Outs
  <2> QED BY <2>1, <2>2, TwoOrThree
<1>2. Len(sent[conf.NOut]) \in Nat /\ Total \in Nat
  BY <1>1, ChainOf DEF Safe, Coming
<1>3. Len(sent[conf.NOut]) >= Total
  BY <1>2
<1>4. ASSUME NEW p \in Outs, NEW r \in Reps, NEW s \in Reps
      PROVE  Len(vot[p][r].q) = Len(vot[p][s].q)
  <2> DEFINE a == Len(sent[p])
             b == Len(vot[p][r].q)
             c == Len(vot[p][s].q)
  <2>1. a \in Nat /\ b \in Nat /\ c \in Nat /\ Total = a + b /\ Total = a + c
    BY <1>3, Complete
  <2>2. b = c
    <3> HIDE DEF a, b, c
    <3> QED BY <2>1
  <2> QED BY <2>2
<1> QED BY <1>4 DEF checkSync

(* select: the voter looks at every pipe that holds data. *)
LEMMA SafeSelect ==
  ASSUME Safe, Inv', conf' = conf, Select
  PROVE  Safe'
<1> USE ConfKept
<1>1. /\ pc \in {"top", "select", "wait"} /\ ready' = SelectSet
      /\ timer' = (timer \/ ~(checkSync \/ conf.RealTime))
      /\ pc' = IF SelectSet.ext THEN "ext" ELSE IF SelectSet.rep # {} THEN "rep" ELSE "wait"
      /\ UNCHANGED <<vot, prio, job>> /\ UNCHANGED <<extin, inq, outq, sent>>
      /\ UNCHANGED <<status, work, sdc, child, sched, handler>> /\ UNCHANGED given
  BY DEF Select, pipeVars, repVars, bounds
<1>2. pc' \in {"ext", "rep", "wait"} /\ ~Restarting /\ ~Restarting'
  BY <1>1 DEF Restarting
<1>3. SelectSet.rep = Full /\ (SelectSet.ext => extin # <<>>)
  BY DEF SelectSet, Full
<1>4. Total' = Total /\ Full' = Full
  BY <1>1 DEF Total, Full
<1>5. Reading'
  BY <1>1, <1>2, <1>3, <1>4 DEF Reading
<1>6. Coming'
  BY <1>1, <1>2, <1>3, <1>4 DEF Safe, Coming
<1>7. Due'
  <2>1. timer' => Len(sent[conf.NOut]) < Total \/ conf.TimerStop # conf.NOut
    <3>1. CASE timer
      BY <1>2, <3>1 DEF Safe, Due
    <3>2. CASE ~checkSync
      BY <1>2, <3>2, OutOfSync
    <3> QED BY <1>1, <3>1, <3>2
  <2> QED BY <1>1, <1>4, <2>1 DEF Safe, Due
<1>8. InChain'
  BY <1>1, <1>2, <1>4 DEF Safe, InChain, Stolen, Restarting
<1>9. OneWrong'
  <2>1. \A r : (Right(r)' <=> Right(r)) /\ (Sound(r)' <=> Sound(r))
    BY <1>1, StayRight
  <2> QED BY <1>1, <1>2, <1>4, <2>1 DEF Safe, OneWrong
<1>10. Idle' /\ Accepting' /\ NoneReady'
  BY <1>1, <1>2 DEF Safe, Idle, Accepting, NoneReady, Restarting
<1>11. Guarded' /\ InOrder' /\ PipeByPipe'
  BY <1>1, Stay DEF Safe
<1> QED BY <1>5, <1>6, <1>7, <1>8, <1>9, <1>10, <1>11 DEF Safe

(* processData: every replica gets the input. *)
LEMMA SafeReadExt ==
  ASSUME Safe, InputFits, Inv', conf' = conf, ReadExt
  PROVE  Safe'
<1> USE ConfKept
<1>0. given \in Nat /\ extin \in Seq(Msg) /\ Len(extin) \in Nat /\ inq \in [Reps -> Seq(Msg)]
      /\ conf \in Configs /\ ready \in [ext : BOOLEAN, rep : SUBSET (Outs \X Reps)]
  BY TypeParts, BoundAssumption, LenProperties DEF Safe, Inv, PipesTyped, BoundsTyped, VoterTyped
<1>1. /\ pc = "ext" /\ timer' = TRUE /\ inq' = [r \in Reps |-> inq[r] \o extin]
      /\ extin' = <<>> /\ ready' = [ready EXCEPT !.ext = FALSE]
      /\ pc' = IF ready.rep # {} THEN "rep" ELSE "top"
      /\ UNCHANGED <<vot, job, outq, sent, status, work, sdc, child, handler>>
      /\ UNCHANGED given
  <2>1. TakeN(extin, conf.Block) = extin /\ DropN(extin, conf.Block) = <<>>
    BY <1>0, ConfTyped, ReadAll DEF InputFits, ReadExt
  <2> QED BY <2>1 DEF ReadExt, processData, bounds
<1>2. pc' \in {"rep", "top"} /\ ~Restarting /\ ~Restarting'
  BY <1>1 DEF Restarting
<1>3. Total' = given /\ Full' = Full /\ ready'.rep = ready.rep
  BY <1>0, <1>1 DEF Total, Full
<1>4. Total \in Nat /\ Run(extin, Total, given) /\ extin # <<>>
  BY <1>1 DEF Safe, Coming
<1>5. Total < given
  BY <1>0, <1>4, RunEnd
<1>6. Coming'
  <2>1. Run(<<>>, given, given)
    BY <1>0, RunEmpty
  <2> QED BY <1>0, <1>1, <1>2, <1>3, <2>1 DEF Coming
<1>7. Reading'
  <2>1. ready.rep = Full
    BY <1>1 DEF Safe, Reading
  <2> QED BY <1>1, <1>2, <1>3, <2>1 DEF Reading
<1>8. InChain'
  <2> SUFFICES ASSUME NEW r \in Reps, NEW p \in Outs
               PROVE  Chain(sent[p], vot[p][r].q, outq[p][r], Owed(work[r], p), inq'[r], Stolen(r)', given)
    BY <1>1, <1>3 DEF InChain
  <2>1. Chain(sent[p], vot[p][r].q, outq[p][r], Owed(work[r], p), inq[r], <<>>, Total)
    BY <1>2, ChainOf
  <2>2. Chain(sent[p], vot[p][r].q, outq[p][r], Owed(work[r], p), inq[r] \o extin, <<>>, given)
    BY <1>4, <2>1, ChainInput
  <2>3. Stolen(r)' = <<>> /\ inq'[r] = inq[r] \o extin
    BY <1>1 DEF Safe, Idle, Stolen
  <2> QED BY <2>2, <2>3
<1>9. Due'
  <2>1. Len(sent[conf.NOut]) < given
    <3>1. 0 \in Reps /\ conf.NOut \in Outs
      BY <1>0, TwoOrThree, ConfTyped DEF Outs
    <3> DEFINE s == Len(sent[conf.NOut])
               v == Len(vot[conf.NOut][0].q)
               o == Len(outq[conf.NOut][0])
               w == Len(Owed(work[0], conf.NOut))
               i == Len(inq[0])
    <3>2. /\ s \in Nat /\ v \in Nat /\ o \in Nat /\ w \in Nat /\ i \in Nat
          /\ Total = s + v + o + w + i
      BY <1>2, <3>1, ChainOf
    <3>3. s < given
      <4> HIDE DEF s, v, o, w, i
      <4> QED BY <1>0, <1>5, <3>2
    <3> QED BY <3>3
  <2> QED BY <1>1, <1>3, <2>1 DEF Safe, Due
<1>10. OneWrong'
  <2>1. \A r : (Right(r)' <=> Right(r)) /\ (Sound(r)' <=> Sound(r))
    BY <1>1, StayRight
  <2> QED BY <1>1, <1>2, <1>3, <2>1 DEF Safe, OneWrong
<1>11. Idle' /\ Accepting' /\ NoneReady'
  BY <1>1, <1>2 DEF Safe, Idle, Accepting, NoneReady, Restarting
<1>12. Guarded' /\ InOrder' /\ PipeByPipe'
  BY <1>1, Stay DEF Safe
<1> QED BY <1>6, <1>7, <1>8, <1>9, <1>10, <1>11, <1>12 DEF Safe

(* While a replica is wrong its watchdog does not expire: with no answer on *)
(* the way everything is sent, and then the timer is stopped.               *)
LEMMA WrongIsTimely ==
  ASSUME Safe, Expire, NEW r \in Reps
  PROVE  Sound(r)
<1>1. timer /\ pc \in {"top", "wait"} /\ (Healthy \/ ~Answering)
  BY DEF Expire
<1>2. ~Restarting
  BY <1>1 DEF Restarting
<1>3. CASE Healthy
  BY <1>2, <1>3, HealthySound
<1>4. CASE ~Answering
  <2> SUFFICES ASSUME ~Sound(r) PROVE FALSE
    OBVIOUS
  <2>1. (\A s \in Reps : status[s] = "ok") /\ "sdc" \in conf.FaultKinds
    BY DEF Safe, OneWrong
  <2>2. conf.TimerStop = conf.NOut /\ conf.NOut \in Outs
    BY <2>1, ReplicaTyped, ConfTyped DEF Safe, Guarded, Outs
  <2>3. Len(sent[conf.NOut]) < Total
    BY <1>1, <1>2, <2>2 DEF Safe, Due
  <2>4. \A s \in Reps : work[s] = <<>> /\ inq[s] = <<>>
    <3>1. \A s \in Reps : ~Starved(s) /\ ~Working(s)
      BY <1>4, <2>1 DEF Answering, Starved
    <3> QED BY <2>1, <3>1 DEF Working
  <2>5. Full = {}
    BY <1>4 DEF Answering, SelectSet, Full
  <2>6. PICK s \in Reps : vot[conf.NOut][s].q = <<>>
    BY <1>2, <2>2 DEF Safe, NoneReady
  <2> DEFINE a == Len(sent[conf.NOut])
             v == Len(vot[conf.NOut][s].q)
             o == Len(outq[conf.NOut][s])
             w == Len(Owed(work[s], conf.NOut))
             i == Len(inq[s])
  <2>7. a \in Nat /\ Total = a + v + o + w + i
    BY <1>2, <2>2, ChainOf
  <2>8. v = 0 /\ o = 0 /\ w = 0 /\ i = 0
    BY <2>2, <2>4, <2>5, <2>6, EmptyFull, OwedNone
  <2>9. a < Total
    BY <2>3
  <2> QED
    <3> HIDE DEF a, v, o, w, i
    <3> QED BY <2>7, <2>8, <2>9
<1> QED BY <1>1, <1>3, <1>4

(* The watchdog expires: a restart begins. *)
LEMMA SafeExpire ==
  ASSUME Safe, Inv', conf' = conf, Expire
  PROVE  Safe'
<1> USE ConfKept
<1>1. /\ timer /\ pc \in {"top", "wait"} /\ pc' = "steal"
      /\ pc = "wait" => SelectSet = Nothing
      /\ job'.stolen = <<>> /\ job'.ret = "select"
      /\ UNCHANGED <<timer, ready, vot, prio>> /\ UNCHANGED <<extin, inq, outq, sent>>
      /\ UNCHANGED <<status, work, sdc, child, sched, handler>> /\ UNCHANGED given
  BY DEF Expire, voterRestartHandler, pipeVars, repVars, Safe, Guarded
<1>2. ~Restarting /\ Restarting'
  BY <1>1 DEF Restarting
<1>3. Total' = Total /\ Full' = Full
  BY <1>1 DEF Total, Full
<1>4. Full = {}
  <2>1. CASE pc = "top"
    BY <1>1, <2>1 DEF Safe, Reading
  <2>2. CASE pc = "wait"
    <3>1. SelectSet.rep = {}
      BY <1>1, <2>2 DEF Nothing
    <3> QED BY <3>1 DEF SelectSet, Full
  <2> QED BY <1>1, <2>1, <2>2
<1>5. Reading'
  BY <1>1, <1>3, <1>4 DEF Reading
<1>6. OneWrong'
  <2>1. \A r : (Right(r)' <=> Right(r)) /\ (Sound(r)' <=> Sound(r))
    BY <1>1, StayRight
  <2>2. \A r \in Reps : Sound(r) /\ Right(r)
    BY WrongIsTimely DEF Sound
  <2> QED BY <1>1, <1>3, <2>1, <2>2 DEF Safe, OneWrong
<1>7. InChain'
  <2>1. \A r : Stolen(r)' = <<>> /\ Stolen(r) = <<>>
    BY <1>1 DEF Safe, Idle, Stolen
  <2> QED BY <1>1, <1>3, <2>1 DEF Safe, InChain
<1>8. Due' /\ NoneReady' /\ Accepting' /\ Idle' /\ Coming'
  BY <1>1, <1>2, <1>3 DEF Safe, Due, NoneReady, Accepting, Idle, Coming
<1>9. Guarded' /\ InOrder' /\ PipeByPipe'
  BY <1>1, Stay DEF Safe
<1> QED BY <1>5, <1>6, <1>7, <1>8, <1>9 DEF Safe

(* The restarter's input is taken, and the restartee killed. *)
LEMMA SafeSteal ==
  ASSUME Safe, InputFits, Inv', conf' = conf, Steal
  PROVE  Safe'
<1> USE ConfKept
<1> DEFINE ee == job.ee
           er == job.er
<1>0. /\ conf \in Configs /\ ee \in Reps /\ er \in Reps
      /\ job \in [ee : Reps, er : Reps, stolen : Seq(Msg), ret : {"select", "top", "rep"}]
      /\ inq \in [Reps -> Seq(Msg)] /\ outq \in [Outs -> [Reps -> Seq(Value)]]
      /\ vot \in [Outs -> [Reps -> Buff]] /\ status \in [Reps -> {"ok", "hung", "dead"}]
      /\ work \in [Reps -> Seq(Output)] /\ sdc \in [Reps -> BOOLEAN]
  BY TypeParts DEF Safe, Inv, PipesTyped, VoterTyped, RepsTyped, Votes
<1>1. /\ pc = "steal" /\ pc' = "accept" /\ timer' = FALSE
      /\ job' = [job EXCEPT !.stolen = inq[er]]
      /\ inq' = [inq EXCEPT ![er] = <<>>, ![ee] = <<>>]
      /\ status' = [status EXCEPT ![ee] = "dead"] /\ work' = [work EXCEPT ![ee] = <<>>]
      /\ sdc' = [sdc EXCEPT ![ee] = FALSE]
      /\ outq' = [p \in Outs |-> [outq[p] EXCEPT ![ee] = <<>>]]
      /\ vot' = [p \in Outs |-> [vot[p] EXCEPT ![ee] = EmptyBuff]]
      /\ UNCHANGED <<extin, sent, child, given>>
  <2>1. TakeN(inq[er], conf.Block) = inq[er] /\ DropN(inq[er], conf.Block) = <<>>
    BY <1>0, ConfTyped, ReadAll DEF InputFits, Steal
  <2> QED BY <2>1 DEF Steal, cleanupReplica, createPipes, stealPipes, bounds
<1>2. ee # er /\ child = NoChild /\ job.stolen = <<>> /\ Full = {}
  BY <1>1 DEF Safe, Inv, Jobs, Idle, Reading
<1>3. /\ job'.ee = ee /\ job'.er = er /\ job'.stolen = inq[er] /\ job'.ret = job.ret
      /\ inq'[er] = <<>> /\ inq'[ee] = <<>> /\ status'[ee] = "dead" /\ work'[ee] = <<>> /\ ~sdc'[ee]
      /\ \A r \in Reps \ {ee} : work'[r] = work[r] /\ sdc'[r] = sdc[r]
      /\ \A r \in Reps \ {ee, er} : inq'[r] = inq[r]
  BY <1>0, <1>1, <1>2
<1>4. \A p \in Outs, r \in Reps : outq'[p][r] = <<>> /\ outq[p][r] = <<>>
  <2>1. \A p \in Outs, r \in Reps : outq[p][r] = <<>>
    BY <1>2, EmptyFull
  <2> QED BY <1>0, <1>1, <2>1
<1>5. \A p \in Outs : vot'[p][ee].q = <<>> /\ \A r \in Reps \ {ee} : vot'[p][r] = vot[p][r]
  BY <1>0, <1>1 DEF EmptyBuff
<1>7. Idle'
  BY <1>1 DEF Idle
<1>8. Accepting'
  BY <1>1, <1>2, <1>3, <1>4, <1>0 DEF Accepting
<1>9. Coming' /\ Total' = Total
  BY <1>1 DEF Safe, Coming, Total
<1>10. InOrder'
  <2>1. Lined(<<>>)
    BY DEF Lined
  <2> QED BY <1>1, <1>2, <1>3, <2>1 DEF Safe, InOrder, Lined
<1>11. InChain'
  <2> SUFFICES ASSUME NEW r \in Reps, r # ee, NEW p \in Outs
               PROVE  Chain(sent[p], vot'[p][r].q, outq'[p][r], Owed(work'[r], p), inq'[r], Stolen(r)', Total)
    BY <1>1, <1>3, <1>9 DEF InChain
  <2>1. Chain(sent[p], vot[p][r].q, outq[p][r], Owed(work[r], p), inq[r], <<>>, Total)
    BY <1>1, <1>2 DEF Safe, InChain, Stolen
  <2>2. Chain(sent[p], vot'[p][r].q, outq'[p][r], Owed(work'[r], p), inq[r], <<>>, Total)
    BY <1>3, <1>4, <1>5, <2>1
  <2>3. CASE r = er
    <3>1. Chain(sent[p], vot'[p][r].q, outq'[p][r], Owed(work'[r], p), <<>>, inq[r], Total)
      BY <2>2, ChainSteal
    <3>2. Stolen(r)' = inq[r] /\ inq'[r] = <<>>
      BY <1>3, <2>3 DEF Stolen
    <3> QED BY <3>1, <3>2
  <2>4. CASE r # er
    <3>1. Stolen(r)' = <<>> /\ inq'[r] = inq[r]
      BY <1>3, <2>4 DEF Stolen
    <3> QED BY <2>2, <3>1
  <2> QED BY <2>3, <2>4
<1>12. Reading'
  BY <1>1, <1>3 DEF Safe, Reading
<1>13. OneWrong'
  <2>1. <<>> \in Seq(Nat) /\ CleanWork(<<>>)
    BY DEF CleanWork
  <2>2. \A r \in Reps : r = ee => Sound(r)'
    BY <1>0, <1>3, <1>4, <1>5, <2>1 DEF Sound, Right
  <2>3. \A r \in Reps \ {ee} : Sound(r)'
    <3> TAKE r \in Reps \ {ee}
    <3>1. Sound(r)
      BY <1>1 DEF Safe, OneWrong
    <3>2. CleanWork(work'[r]) /\ ~sdc'[r]
      BY <1>3, <3>1 DEF Sound, Right
    <3>3. \A p \in Outs : vot'[p][r].q \in Seq(Nat) /\ outq'[p][r] \in Seq(Nat)
      BY <1>4, <1>5, <2>1, <3>1 DEF Sound, Right
    <3> QED BY <3>2, <3>3 DEF Sound, Right, CleanWork
  <2>4. \A r \in Reps : Sound(r)' /\ Right(r)'
    <3> TAKE r \in Reps
    <3>1. Sound(r)'
      BY <2>2, <2>3
    <3> QED BY <3>1 DEF Sound
  <2> QED BY <1>1, <1>2, <2>4 DEF Safe, OneWrong
<1>14. PipeByPipe'
  <2>2. ASSUME NEW r \in Reps, NEW p \in Outs, NEW q \in Outs, p <= q
        PROVE  Len(outq'[p][r]) + Len(Owed(work'[r], p))
                 <= Len(outq'[q][r]) + Len(Owed(work'[r], q))
    <3>1. work'[r] \in Seq(Output) /\ Lined(work'[r])
      <4>1. work[r] \in Seq(Output) /\ Lined(work[r]) /\ <<>> \in Seq(Output) /\ Lined(<<>>)
        BY ReplicaTyped DEF Lined
      <4> QED BY <1>3, <4>1
    <3>2. /\ Len(Owed(work'[r], p)) \in Nat /\ Len(Owed(work'[r], q)) \in Nat
          /\ Len(Owed(work'[r], p)) <= Len(Owed(work'[r], q))
      BY <2>2, <1>0, <3>1, OwedOrder
    <3>3. Len(outq'[p][r]) = 0 /\ Len(outq'[q][r]) = 0
      BY <1>4
    <3> QED BY <3>2, <3>3
  <2> QED BY <1>1, <2>2 DEF Safe, PipeByPipe
<1>15. Due' /\ NoneReady'
  BY <1>1, <1>9 DEF Safe, Due, NoneReady, Restarting
<1>16. Guarded'
  BY Stay DEF Safe
<1> QED BY <1>7, <1>8, <1>9, <1>10, <1>11, <1>12, <1>13, <1>14, <1>15, <1>16 DEF Safe

(* Sending, pipe by pipe: what goes out are the first votes of the sender,  *)
(* as many as all have; one replica has none left.                          *)
LEMMA SendFacts ==
  ASSUME conf \in Configs, NEW v \in Votes, NEW p \in Outs, NEW t \in Reps
  PROVE  \E n \in Nat :
           /\ n = bytesReady(Counts(v)[p])
           /\ SendPipe(v, p, t).out = SubSeq(v[p][t].q, 1, n)
           /\ \A s \in Reps : /\ n <= Len(v[p][s].q)
                             /\ SendPipe(v, p, t).vot[p][s].q = DropN(v[p][s].q, n)
           /\ \A q \in Outs \ {p} : SendPipe(v, p, t).vot[q] = v[q]
           /\ \E s \in Reps : SendPipe(v, p, t).vot[p][s].q = <<>>
<1> DEFINE n == bytesReady(Counts(v)[p])
<1>1. /\ n \in Nat /\ (\A s \in Reps : n <= Len(v[p][s].q)) /\ \E s \in Reps : n = Len(v[p][s].q)
  BY CountsTyped, BytesReadyTyped
<1>2. SendPipe(v, p, t).out = SubSeq(v[p][t].q, 1, n) /\ SendPipe(v, p, t).vot = Advance(v, p, n)
  BY DEF SendPipe
<1>3. ASSUME NEW s \in Reps PROVE Advance(v, p, n)[p][s].q = DropN(v[p][s].q, n)
  BY <1>1 DEF Advance, Votes
<1>4. \A q \in Outs \ {p} : Advance(v, p, n)[q] = v[q]
  BY <1>1, AdvanceTyped
<1>5. \E s \in Reps : Advance(v, p, n)[p][s].q = <<>>
  <2>1. PICK s \in Reps : n = Len(v[p][s].q)
    BY <1>1
  <2>2. DropN(v[p][s].q, n) = <<>>
    <3>1. Len(v[p][s].q) \in Int /\ Len(v[p][s].q) + 1 \in Int /\ Len(v[p][s].q) < Len(v[p][s].q) + 1
      BY <1>1, <2>1
    <3> QED BY <2>1, <3>1, SubSeqEmpty DEF DropN
  <2> QED BY <1>3, <2>2
<1> HIDE DEF n
<1>6. /\ \A s \in Reps : /\ n <= Len(v[p][s].q)
                        /\ SendPipe(v, p, t).vot[p][s].q = DropN(v[p][s].q, n)
      /\ \A q \in Outs \ {p} : SendPipe(v, p, t).vot[q] = v[q]
      /\ \E s \in Reps : SendPipe(v, p, t).vot[p][s].q = <<>>
  BY <1>1, <1>2, <1>3, <1>4, <1>5
<1> QED BY <1>1, <1>2, <1>6 DEF n

(* Parts of right votes are right. *)
LEMMA CutClean ==
  ASSUME NEW q \in Seq(Nat), NEW n \in Nat, n <= Len(q)
  PROVE  SubSeq(q, 1, n) \in Seq(Nat) /\ DropN(q, n) \in Seq(Nat)
<1>1. \A i \in 1 .. Len(q) : q[i] \in Nat
  BY ElementOfSeq
<1>2. Len(q) \in Nat /\ (\A i \in 1 .. n : q[i] \in Nat) /\ \A i \in n + 1 .. Len(q) : q[i] \in Nat
  BY <1>1, LenProperties
<1> QED BY <1>2, SubSeqProperties DEF DropN

(* Of two pipes the one where this replica has no vote left, and not more *)
(* on the way than on the other, has not had less sent.                   *)
LEMMA NotBehind ==
  ASSUME NEW s, NEW v, NEW o, NEW w, NEW i, NEW t, NEW n, Chain(s, v, o, w, i, t, n),
         NEW s2, NEW v2, NEW o2, NEW w2, Chain(s2, v2, o2, w2, i, t, n)
  PROVE  Len(v2) = 0 /\ Len(o2) + Len(w2) <= Len(o) + Len(w) => Len(s) <= Len(s2)
<1>1. /\ Len(s) \in Nat /\ Len(v) \in Nat /\ Len(o) \in Nat
      /\ Len(w) \in Nat /\ Len(i) \in Nat /\ Len(t) \in Nat
      /\ n = Len(s) + Len(v) + Len(o) + Len(w) + Len(i) + Len(t)
  BY ChainLen
<1>2. /\ Len(s2) \in Nat /\ Len(v2) \in Nat /\ Len(o2) \in Nat /\ Len(w2) \in Nat
      /\ n = Len(s2) + Len(v2) + Len(o2) + Len(w2) + Len(i) + Len(t)
  BY ChainLen
<1> QED BY <1>1, <1>2

(* The child takes its place: the votes common to all are sent, and the input *)
(* comes back.                                                                *)
LEMMA SafeHandOver ==
  ASSUME Safe, Inv', conf' = conf, HandOver
  PROVE  Safe'
<1> USE ConfKept
<1> DEFINE v == CopyVotes(vot, job.ee, job.er)
<1>1. PICK ee \in Reps, er \in Reps : ee = job.ee /\ er = job.er /\ ee # er
  BY TypeParts DEF Safe, Inv, VoterTyped, Jobs, HandOver
<1>0. /\ conf \in Configs /\ child \in Process /\ job.ret \in {"select", "top"}
      /\ inq \in [Reps -> Seq(Msg)] /\ vot \in [Outs -> [Reps -> Buff]] /\ vot \in Votes
      /\ work \in [Reps -> Seq(Output)] /\ sdc \in [Reps -> BOOLEAN]
      /\ child.work \in Seq(Output)
  <2>1. /\ conf \in Configs /\ child \in Process /\ job.ret \in {"select", "top", "rep"}
        /\ inq \in [Reps -> Seq(Msg)] /\ vot \in [Outs -> [Reps -> Buff]] /\ vot \in Votes
        /\ work \in [Reps -> Seq(Output)] /\ sdc \in [Reps -> BOOLEAN]
    BY TypeParts DEF Safe, Inv, PipesTyped, VoterTyped, RepsTyped, Votes, HandOver
  <2>2. job.ret # "rep"
    BY DEF Safe, Reading, HandOver
  <2> QED BY <2>1, <2>2 DEF Process, Output
<1>2. /\ pc = "accept" /\ child # NoChild /\ child' = NoChild /\ pc' = job.ret
      /\ job' = [job EXCEPT !.stolen = <<>>]
      /\ work' = [work EXCEPT ![ee] = child.work]
      /\ sdc' = [sdc EXCEPT ![ee] = child.sdc]
      /\ vot' = [p \in Outs |-> SendPipe(v, p, er).vot[p]]
      /\ sent' = [p \in Outs |-> sent[p] \o SendPipe(v, p, er).out]
      /\ inq' = [inq EXCEPT ![ee] = inq[ee] \o job.stolen, ![er] = inq[er] \o job.stolen]
      /\ UNCHANGED <<timer, ready, extin, outq, given>>
  BY <1>1 DEF HandOver, returnPipes, bounds
<1>3. /\ ~timer /\ inq[ee] = <<>> /\ inq[er] = <<>>
      /\ \A p \in Outs : outq[p][ee] = <<>>
      /\ \A p \in Outs : outq[p][er] \o Owed(work[er], p) = Owed(child.work, p)
  BY <1>1, <1>2 DEF Safe, Accepting
<1>4. job.stolen \in Seq(Msg) /\ <<>> \o job.stolen = job.stolen
  <2>1. job.stolen \in Seq(Msg)
    BY TypeParts DEF Safe, Inv, VoterTyped
  <2> QED BY <2>1, ConcatEmptySeq
<1>5. /\ inq'[ee] = job.stolen /\ inq'[er] = job.stolen
      /\ \A r \in Reps \ {ee, er} : inq'[r] = inq[r]
      /\ work'[ee] = child.work /\ sdc'[ee] = child.sdc
      /\ \A r \in Reps \ {ee} : work'[r] = work[r] /\ sdc'[r] = sdc[r]
      /\ job'.stolen = <<>> /\ job'.ret = job.ret
      /\ \A r : Stolen(r)' = <<>>
  <2>1. job \in [ee : Reps, er : Reps, stolen : Seq(Msg), ret : {"select", "top", "rep"}]
    BY TypeParts DEF Safe, Inv, VoterTyped
  <2> QED BY <1>0, <1>1, <1>2, <1>3, <1>4, <2>1 DEF Stolen
<1>6. /\ v \in Votes
      /\ \A p \in Outs : v[p][ee] = vot[p][er] /\ \A r \in Reps \ {ee} : v[p][r] = vot[p][r]
  <2>1. \A p \in Outs : /\ v[p] \in [Reps -> Buff]
                       /\ \A r \in Reps : v[p][r] = IF r = ee THEN vot[p][er] ELSE vot[p][r]
    BY <1>0, <1>1 DEF CopyVotes
  <2>2. v \in Votes
    BY <2>1 DEF CopyVotes, Votes
  <2> QED BY <2>1, <2>2
<1> HIDE DEF v
<1>7. ~Restarting' /\ pc' \in {"select", "top"}
  BY <1>0, <1>2 DEF Restarting
<1>8. Total' = Total
  BY <1>2 DEF Total
<1>9. ASSUME NEW p \in Outs
      PROVE  \E n \in Nat :
               /\ \A s \in Reps : n <= Len(v[p][s].q) /\ vot'[p][s].q = DropN(v[p][s].q, n)
               /\ sent'[p] = sent[p] \o SubSeq(v[p][er].q, 1, n)
               /\ \E s \in Reps : vot'[p][s].q = <<>>
  <2>1. vot'[p] = SendPipe(v, p, er).vot[p] /\ sent'[p] = sent[p] \o SendPipe(v, p, er).out
    BY <1>2
  <2>2. conf \in Configs /\ v \in Votes /\ er \in Reps
    BY <1>0, <1>1, <1>6
  <2>3. PICK n \in Nat :
           /\ SendPipe(v, p, er).out = SubSeq(v[p][er].q, 1, n)
           /\ \A s \in Reps : /\ n <= Len(v[p][s].q)
                             /\ SendPipe(v, p, er).vot[p][s].q = DropN(v[p][s].q, n)
           /\ \E s \in Reps : SendPipe(v, p, er).vot[p][s].q = <<>>
    BY <2>2, SendFacts
  <2>4. sent'[p] = sent[p] \o SubSeq(v[p][er].q, 1, n)
    BY <2>1, <2>3
  <2>5. \A s \in Reps : n <= Len(v[p][s].q) /\ vot'[p][s].q = DropN(v[p][s].q, n)
    BY <2>1, <2>3
  <2>6. \E s \in Reps : vot'[p][s].q = <<>>
    BY <2>1, <2>3
  <2> QED BY <2>4, <2>5, <2>6
<1>10. ASSUME NEW r \in Reps, NEW p \in Outs
       PROVE  Chain(sent[p], v[p][r].q, outq[p][r], Owed(work'[r], p), inq'[r], <<>>, Total)
  <2>1. CASE r # ee /\ r # er
    <3>1. Chain(sent[p], vot[p][r].q, outq[p][r], Owed(work[r], p), inq[r], <<>>, Total)
      BY <1>1, <2>1 DEF Safe, InChain, Stolen
    <3> QED BY <1>5, <1>6, <2>1, <3>1
  <2>2. Chain(sent[p], vot[p][er].q, outq[p][er], Owed(work[er], p), <<>>, job.stolen, Total)
    BY <1>1, <1>3 DEF Safe, InChain, Stolen
  <2>3. Chain(sent[p], vot[p][er].q, outq[p][er], Owed(work[er], p), job.stolen, <<>>, Total)
    BY <2>2, ChainReturn
  <2>4. CASE r = er
    BY <1>1, <1>5, <1>6, <2>3, <2>4
  <2>5. CASE r = ee
    <3>1. Chain(sent[p], vot[p][er].q, <<>>, outq[p][er] \o Owed(work[er], p), job.stolen, <<>>, Total)
      BY <2>3, ChainFork
    <3> QED BY <1>3, <1>5, <1>6, <2>5, <3>1
  <2> QED BY <2>1, <2>4, <2>5
<1>11. ASSUME NEW r \in Reps, NEW p \in Outs
       PROVE  Chain(sent'[p], vot'[p][r].q, outq[p][r], Owed(work'[r], p), inq'[r], <<>>, Total)
  <2>1. PICK n \in Nat :
               /\ \A s \in Reps : n <= Len(v[p][s].q) /\ vot'[p][s].q = DropN(v[p][s].q, n)
               /\ sent'[p] = sent[p] \o SubSeq(v[p][er].q, 1, n)
    BY <1>9
  <2>2. Chain(sent[p], v[p][r].q, outq[p][r], Owed(work'[r], p), inq'[r], <<>>, Total)
    BY <1>10
  <2>3. Chain(sent[p], v[p][er].q, outq[p][er], Owed(work'[er], p), inq'[er], <<>>, Total)
    BY <1>10
  <2>4. n <= Len(v[p][r].q) /\ n <= Len(v[p][er].q)
    BY <2>1
  <2>5. Chain(sent[p] \o SubSeq(v[p][er].q, 1, n), DropN(v[p][r].q, n), outq[p][r],
              Owed(work'[r], p), inq'[r], <<>>, Total)
    BY <2>2, <2>3, <2>4, ChainSend
  <2> QED BY <2>1, <2>5
<1>12. InChain'
  BY <1>2, <1>5, <1>8, <1>11 DEF InChain
<1>13. NoneReady'
  BY <1>9 DEF NoneReady
<1>14. InOrder'
  <2>1. \A r \in Reps : Lined(work'[r])
    BY <1>2, <1>5 DEF Safe, InOrder
  <2> QED BY <1>2, <2>1 DEF InOrder, Lined
<1>15. conf.NOut \in Outs
  BY <1>0, ConfTyped DEF Outs
<1>16. ASSUME NEW r \in Reps, NEW p \in Outs, NEW q \in Outs, p <= q
       PROVE  Len(outq[p][r]) + Len(Owed(work'[r], p))
                <= Len(outq[q][r]) + Len(Owed(work'[r], q))
  <2>1. CASE r # ee
    BY <1>16, <1>5, <2>1 DEF Safe, PipeByPipe
  <2>2. CASE r = ee
    <3>1. /\ Len(Owed(child.work, p)) \in Nat /\ Len(Owed(child.work, q)) \in Nat
          /\ Len(Owed(child.work, p)) <= Len(Owed(child.work, q))
      BY <1>16, <1>0, <1>2, OwedOrder DEF Safe, InOrder
    <3>2. Len(outq[p][r]) = 0 /\ Len(outq[q][r]) = 0 /\ work'[r] = child.work
      BY <1>3, <1>5, <2>2
    <3> QED BY <3>1, <3>2
  <2> QED BY <2>1, <2>2
<1>17. PipeByPipe'
  <2>1. ASSUME NEW p \in Outs, NEW q \in Outs, p <= q PROVE Len(sent'[q]) <= Len(sent'[p])
    <3>1. PICK s \in Reps : vot'[p][s].q = <<>>
      BY <1>9
    <3>2. /\ Chain(sent'[p], vot'[p][s].q, outq[p][s], Owed(work'[s], p), inq'[s], <<>>, Total)
          /\ Chain(sent'[q], vot'[q][s].q, outq[q][s],
                   Owed(work'[s], q), inq'[s], <<>>, Total)
      BY <1>11
    <3>3. Len(outq[p][s]) + Len(Owed(work'[s], p))
            <= Len(outq[q][s]) + Len(Owed(work'[s], q))
      BY <1>16, <2>1
    <3>4. Len(vot'[q][s].q) \in Nat /\ Len(vot'[p][s].q) = 0
      BY <3>1, <3>2, ChainLen, EmptySeq
    <3> QED BY <3>2, <3>3, <3>4, NotBehind
  <2> QED BY <1>2, <1>16, <2>1 DEF PipeByPipe
<1>18. Due'
  <2>1. given - Len(sent[conf.NOut]) <= conf.Window => given - Len(sent'[conf.NOut]) <= conf.Window
    <3>1. PICK n \in Nat : /\ n <= Len(v[conf.NOut][er].q)
                           /\ sent'[conf.NOut] = sent[conf.NOut] \o SubSeq(v[conf.NOut][er].q, 1, n)
      BY <1>9, <1>15
    <3> DEFINE a == sent[conf.NOut]
               b == SubSeq(v[conf.NOut][er].q, 1, n)
               W == conf.Window
    <3>2. a \in Seq(Int) /\ b \in Seq(Int)
      <4>1. Chain(a, v[conf.NOut][er].q, outq[conf.NOut][er], Owed(work'[er], conf.NOut), inq'[er], <<>>, Total)
        BY <1>10, <1>15
      <4>2. a \in Seq(Int) /\ v[conf.NOut][er].q \in Seq(Int)
        BY <4>1, ChainLen
      <4> DEFINE u == v[conf.NOut][er].q
      <4>3. u \in Seq(Int) /\ n <= Len(u) /\ Len(u) \in Nat
        BY <3>1, <4>2, LenProperties
      <4>4. \A i \in 1 .. n : u[i] \in Int
        <5> HIDE DEF u
        <5> QED BY <4>3, ElementOfSeq
      <4> QED BY <4>2, <4>4, SubSeqProperties
    <3>3. given \in Int /\ W \in Int /\ sent'[conf.NOut] = a \o b
      BY <1>0, <3>1, TypeParts, BoundAssumption, ConfigAssumption DEF Safe, Inv, BoundsTyped
    <3> HIDE DEF a, b, W
    <3>4. Len(a \o b) = Len(a) + Len(b) /\ Len(a) \in Nat /\ Len(b) \in Nat
      BY <3>2, ConcatProperties, LenProperties
    <3>5. given - Len(a) <= W => given - Len(a \o b) <= W
      BY <3>3, <3>4
    <3> QED BY <3>3, <3>5 DEF a, W
  <2> QED BY <1>2, <1>3, <2>1 DEF Safe, Due
<1>19. OneWrong'
  <2>1. \A r \in Reps : Sound(r)
    BY <1>2 DEF Safe, OneWrong
  <2>2. \A r \in Reps : ~sdc'[r] /\ CleanWork(work'[r])
    BY <1>2, <1>5, <2>1 DEF Safe, OneWrong, Sound, Right
  <2>3. \A r \in Reps, p \in Outs : v[p][r].q \in Seq(Nat)
    BY <1>6, <2>1 DEF Sound, Right
  <2>4. ASSUME NEW r \in Reps, NEW p \in Outs
        PROVE  vot'[p][r].q \in Seq(Nat) /\ outq[p][r] \in Seq(Nat)
    <3>1. PICK n \in Nat : n <= Len(v[p][r].q) /\ vot'[p][r].q = DropN(v[p][r].q, n)
      BY <1>9
    <3> QED BY <2>1, <2>3, <3>1, CutClean DEF Sound, Right
  <2>5. ASSUME NEW r \in Reps PROVE Sound(r)' /\ Right(r)'
    BY <1>2, <2>2, <2>4 DEF Sound, Right, CleanWork
  <2>6. ASSUME NEW p \in Outs PROVE sent'[p] \in Seq(Nat)
    <3>1. PICK n \in Nat : /\ n <= Len(v[p][er].q)
                           /\ sent'[p] = sent[p] \o SubSeq(v[p][er].q, 1, n)
      BY <1>9
    <3>2. sent[p] \in Seq(Nat) /\ SubSeq(v[p][er].q, 1, n) \in Seq(Nat)
      BY <2>3, <3>1, CutClean DEF Safe, OneWrong
    <3> QED BY <3>1, <3>2, ConcatProperties
  <2> QED BY <1>2, <1>7, <2>5, <2>6 DEF OneWrong
<1>20. Reading'
  BY <1>2, <1>3, <1>7 DEF Reading
<1>21. Idle' /\ Accepting' /\ Coming'
  BY <1>2, <1>5, <1>7, <1>8 DEF Safe, Idle, Accepting, Coming
<1>22. Guarded'
  BY Stay DEF Safe
<1> QED BY <1>12, <1>13, <1>14, <1>17, <1>18, <1>19, <1>20, <1>21, <1>22 DEF Safe

(* Right votes of two replicas agree. *)
LEMMA RightAgree ==
  ASSUME NEW q \in Seq(Nat), NEW r \in Seq(Nat), NEW a \in Nat, NEW b, NEW c,
         Run(q, a, b), Run(r, a, c), NEW n \in Nat, n <= Len(q), n <= Len(r)
  PROVE  SubSeq(q, 1, n) = SubSeq(r, 1, n)
<1>1. Run(SubSeq(q, 1, n), a, a + n) /\ Run(SubSeq(r, 1, n), a, a + n)
  BY RunCut
<1>2. SubSeq(q, 1, n) \in Seq(Nat) /\ SubSeq(r, 1, n) \in Seq(Nat)
  BY CutClean
<1> DEFINE x == SubSeq(q, 1, n)
           y == SubSeq(r, 1, n)
<1> HIDE DEF x, y
<1>3. Len(x) = n /\ Len(y) = n
  <2>1. a + n = a + Len(x) /\ a + n = a + Len(y) /\ Len(x) \in Nat /\ Len(y) \in Nat
    BY <1>1, <1>2, LenProperties DEF x, y, Run
  <2> QED BY <2>1
<1>4. ASSUME NEW i \in 1 .. n PROVE x[i] = a + i /\ y[i] = a + i
  <2>1. /\ x[i] = a + i \/ x[i] = -(a + i)
        /\ y[i] = a + i \/ y[i] = -(a + i)
    BY <1>1, <1>3 DEF x, y, Run
  <2>2. x[i] \in Nat /\ y[i] \in Nat
    BY <1>2, <1>3, ElementOfSeq DEF x, y
  <2> QED BY <2>1, <2>2
<1>5. x = y
  BY <1>2, <1>3, <1>4, SeqEqual DEF x, y
<1> QED BY <1>5 DEF x, y

(* The same for two chains from the same messages sent. *)
LEMMA ChainsAgree ==
  ASSUME NEW s, NEW v, NEW o, NEW w, NEW i, NEW t, NEW n, Chain(s, v, o, w, i, t, n),
         NEW u, NEW o2, NEW w2, NEW i2, NEW t2, NEW n2, Chain(s, u, o2, w2, i2, t2, n2),
         v \in Seq(Nat), u \in Seq(Nat), NEW k \in Nat, k <= Len(v), k <= Len(u)
  PROVE  SubSeq(v, 1, k) = SubSeq(u, 1, k)
<1>1. PICK a, b \in Nat : Run(s, 0, a) /\ Run(v, a, b)
  BY DEF Chain
<1>2. PICK a2, b2 \in Nat : Run(s, 0, a2) /\ Run(u, a2, b2)
  BY DEF Chain
<1>3. a2 = a
  <2>1. Run(s, 0, a) /\ Run(s, 0, a2)
    BY <1>1, <1>2
  <2> QED BY <2>1 DEF Run
<1>4. Run(v, a, b) /\ Run(u, a, b2)
  BY <1>1, <1>2, <1>3
<1> QED BY <1>4, RightAgree

(* The replicas in G agree on n votes: all but one at most, and all of two. *)
Agreeing(b, n, G) ==
  /\ \A r, s \in G : Agree(b[r], b[s], n)
  /\ \A r, s \in Reps : r \in G \/ s \in G \/ r = s
  /\ conf.RepType = "DMR" => G = Reps

(* A verdict that does no harm to those in G. *)
Judged(verdict, b, n, G) ==
  \/ verdict = Wait /\ n = 0
  \/ \E r \in Reps, g \in G : verdict = SendOf(r) /\ SubSeq(b[r].q, 1, n) = SubSeq(b[g].q, 1, n)
  \/ \E ee, er \in Reps : verdict = RestartOf(ee, er) /\ ee # er /\ ee \notin G

(* checkSDC waits only for votes, sends what those send that agree, and *)
(* restarts the one that does not.                                      *)
LEMMA Verdict ==
  ASSUME conf \in Configs, NEW v \in Votes, NEW p \in Outs, NEW G \in SUBSET Reps,
         Agreeing(v[p], bytesReady(Counts(v)[p]), G)
  PROVE  Judged(checkSDC(v, p), v[p], bytesReady(Counts(v)[p]), G)
<1> DEFINE n == bytesReady(Counts(v)[p])
<1> USE DEF Judged, Agreeing
<1> DEFINE b == v[p]
           Next3(r, d) == (r + d) % rep_count
           pairs == {r \in Reps : Agree(b[r], b[Next3(r, 1)], n)}
           first == CHOOSE r \in pairs : \A s \in pairs : r <= s
<1>1. CASE n = 0
  BY <1>1 DEF checkSDC
<1>2. CASE n # 0 /\ conf.RepType = "DMR"
  <2>1. checkSDC(v, p) = SendOf(0)
    BY <1>2 DEF checkSDC
  <2>2. 0 \in Reps /\ 0 \in G
    BY <1>2, TwoOrThree
  <2> QED BY <2>1, <2>2
<1>3. CASE n # 0 /\ conf.RepType # "DMR"
  <2>1. rep_count = 3 /\ Reps = {0, 1, 2}
    BY <1>3, ConfTyped, TwoOrThree DEF rep_count
  <2>2. /\ Next3(0, 1) = 1 /\ Next3(1, 1) = 2 /\ Next3(2, 1) = 0
        /\ Next3(0, 2) = 2 /\ Next3(1, 2) = 0 /\ Next3(2, 2) = 1
    BY <2>1
  <2> HIDE DEF Next3
  <2>3. pairs # {}
    <3>1. (0 \in G /\ 1 \in G) \/ (1 \in G /\ 2 \in G) \/ (2 \in G /\ 0 \in G)
      BY <2>1
    <3>2. \E r \in Reps : Agree(b[r], b[Next3(r, 1)], n)
      BY <2>1, <2>2, <3>1
    <3> QED BY <3>2
  <2>4. first \in pairs
    <3>1. pairs \in SUBSET Nat
      BY TwoOrThree DEF Reps
    <3>2. \E r \in pairs : \A s \in pairs : r <= s
      BY <2>3, <3>1, LeastNat
    <3> HIDE DEF pairs
    <3> QED BY <3>2
  <2>5. checkSDC(v, p) = IF Agree(b[first], b[Next3(first, 2)], n) THEN SendOf(first)
                         ELSE RestartOf(Next3(first, 2), first)
    BY <1>3, <2>3 DEF checkSDC, Next3
  <2>6. PICK f \in Reps : f = first
    BY <2>4
  <2> HIDE DEF first
  <2>7. /\ Agree(b[f], b[Next3(f, 1)], n)
        /\ Next3(f, 1) \in Reps /\ Next3(f, 2) \in Reps
        /\ f # Next3(f, 1) /\ f # Next3(f, 2) /\ Next3(f, 1) # Next3(f, 2)
    <3>1. Agree(b[f], b[Next3(f, 1)], n)
      BY <2>4, <2>6
    <3> QED BY <2>1, <2>2, <3>1
  <2>8. PICK h, k \in Reps : h = Next3(f, 1) /\ k = Next3(f, 2)
    BY <2>7
  <2>9. f \in G \/ h \in G
    BY <2>7, <2>8
  <2>10. CASE Agree(b[f], b[k], n)
    <3>1. checkSDC(v, p) = SendOf(f)
      BY <2>5, <2>6, <2>8, <2>10
    <3>2. SubSeq(b[f].q, 1, n) = SubSeq(b[h].q, 1, n)
      BY <2>7, <2>8 DEF Agree
    <3> QED BY <2>9, <3>1, <3>2
  <2>11. CASE ~Agree(b[f], b[k], n)
    <3>1. checkSDC(v, p) = RestartOf(k, f)
      BY <2>5, <2>6, <2>8, <2>11
    <3>2. k \notin G
      <4> SUFFICES ASSUME k \in G PROVE FALSE
        OBVIOUS
      <4>1. f \notin G
        BY <2>11
      <4>2. Agree(b[h], b[k], n) /\ Agree(b[f], b[h], n)
        BY <2>7, <2>8, <2>9, <4>1
      <4> QED BY <2>11, <4>2 DEF Agree
    <3> QED BY <2>7, <2>8, <3>1, <3>2
  <2> QED BY <2>10, <2>11
<1> QED BY <1>1, <1>2, <1>3

(* What processFromRep has read, and the outcomes of the vote. *)
LEMMA Collected ==
  ASSUME Safe, VotesFit, conf' = conf, FromRep
  PROVE  \E p \in Outs, r \in Reps, v \in Votes :
    /\ pc = "rep" /\ <<p, r>> \in Full /\ \A x \in Full : p <= x[1]
    /\ v[p][r].q = vot[p][r].q \o outq[p][r] /\ v[p][r].index = vot[p][r].index
    /\ \A q \in Outs, s \in Reps : ~(q = p /\ s = r) => v[q][s] = vot[q][s]
    /\ outq'[p][r] = <<>>
    /\ \A q \in Outs, s \in Reps : ~(q = p /\ s = r) => outq'[q][s] = outq[q][s]
    /\ ready'.rep = Full \ {<<p, r>>}
    /\ UNCHANGED <<extin, inq, status, work, sdc, child, given>>
    /\ \/ /\ checkSDC(v, p).do = "wait" /\ vot' = v
          /\ pc' = IF Full \ {<<p, r>>} = {} THEN "top" ELSE "rep"
          /\ UNCHANGED <<timer, sent, job>>
       \/ /\ checkSDC(v, p).do = "send"
          /\ vot' = SendPipe(v, p, checkSDC(v, p).rep).vot
          /\ sent' = [sent EXCEPT ![p] = sent[p] \o SendPipe(v, p, checkSDC(v, p).rep).out]
          /\ timer' = (timer /\ p # conf.TimerStop)
          /\ pc' = IF Full \ {<<p, r>>} = {} THEN "top" ELSE "rep"
          /\ UNCHANGED job
       \/ /\ checkSDC(v, p).do = "restart" /\ vot' = v /\ pc' = "steal"
          /\ job' = [ee |-> checkSDC(v, p).ee, er |-> checkSDC(v, p).er, stolen |-> <<>>,
                     ret |-> IF Full \ {<<p, r>>} = {} THEN "top" ELSE "rep"]
          /\ UNCHANGED <<timer, sent>>
<1> USE ConfKept
<1>0. conf \in Configs /\ VoterTyped /\ PipesTyped
  BY TypeParts DEF Safe, Inv
<1>1. pc = "rep" /\ ready.rep = Full /\ Full # {}
  BY Zenon DEF FromRep, Safe, Reading, Inv, Jobs
<1>2. PICK p \in Outs, r \in Reps :
         /\ p = FirstReady[1] /\ r = FirstReady[2] /\ <<p, r>> \in Full
         /\ \A x \in Full : p <= x[1]
  <2>1. /\ FirstReady \in Full /\ FirstReady[1] \in Outs /\ FirstReady[2] \in Reps
        /\ \A x \in Full : FirstReady[1] <= x[1]
    BY <1>0, <1>1, FirstReadyTyped DEF VoterTyped
  <2>2. Full \subseteq Outs \X Reps
    BY DEF Full
  <2>3. FirstReady = <<FirstReady[1], FirstReady[2]>>
    BY <2>1, <2>2
  <2> QED BY <2>1, <2>3
<1> DEFINE b == PipeToBuff(vot[p][r], outq[p][r])
           v == [vot EXCEPT ![p][r] = PipeToBuff(@, outq[p][r])]
<1>3. /\ vot \in Votes /\ vot[p] \in [Reps -> Buff] /\ vot[p][r] \in Buff
      /\ outq \in [Outs -> [Reps -> Seq(Value)]] /\ outq[p][r] \in Seq(Value)
  BY <1>0 DEF VoterTyped, PipesTyped, Votes
<1>4. Len(outq[p][r]) < conf.Ring - Len(vot[p][r].q)
  BY <1>1 DEF VotesFit, Safe, Guarded
<1>5. b \in Buff /\ b.q = vot[p][r].q \o outq[p][r] /\ b.index = vot[p][r].index
  <2>1. b = [vot[p][r] EXCEPT !.q = vot[p][r].q \o outq[p][r]]
    BY <1>4 DEF PipeToBuff
  <2>2. b \in Buff
    BY <1>3, PipeToBuffTyped
  <2> HIDE DEF b
  <2> QED BY <1>3, <2>1, <2>2 DEF Buff
<1>6. v \in Votes /\ \A q \in Outs, s \in Reps : v[q][s] = IF q = p /\ s = r THEN b ELSE vot[q][s]
  <2>1. v = [vot EXCEPT ![p] = [vot[p] EXCEPT ![r] = b]]
    BY <1>3 DEF Votes
  <2> HIDE DEF b, v
  <2>2. [vot[p] EXCEPT ![r] = b] \in [Reps -> Buff]
    BY <1>3, <1>5
  <2> QED BY <1>3, <2>1, <2>2 DEF Votes
<1>7. v[p][r].q = vot[p][r].q \o outq[p][r] /\ v[p][r].index = vot[p][r].index
  <2>1. v[p][r] = b
    BY <1>6
  <2> QED BY <1>5, <2>1
<1>8. /\ outq'[p][r] = <<>>
      /\ \A q \in Outs, s \in Reps : ~(q = p /\ s = r) => outq'[q][s] = outq[q][s]
  <2>1. outq' = [outq EXCEPT ![p][r] = DropN(outq[p][r], conf.Ring)]
    BY <1>2, Zenon DEF FromRep
  <2>2. Len(outq[p][r]) <= conf.Ring
    BY <1>0, <1>3, <1>4, ConfTyped, LenProperties DEF Buff
  <2>3. DropN(outq[p][r], conf.Ring) = <<>>
    BY <1>0, <1>3, <2>2, ConfTyped, ReadAll
  <2> QED BY <1>3, <2>1, <2>3
<1>9. /\ ready'.rep = Full \ {<<p, r>>}
      /\ UNCHANGED <<extin, inq, status, work, sdc, child, given>>
  <2>1. ready' = [ready EXCEPT !.rep = Full \ {<<p, r>>}]
    BY <1>1, <1>2, Zenon DEF FromRep
  <2>2. ready \in [ext : BOOLEAN, rep : SUBSET (Outs \X Reps)]
    BY <1>0 DEF VoterTyped
  <2>3. UNCHANGED <<extin, inq, status, work, sdc, child, given>>
    BY Zenon DEF FromRep, bounds
  <2> QED BY <2>1, <2>2, <2>3
<1> DEFINE onward == IF Full \ {<<p, r>>} = {} THEN "top" ELSE "rep"
<1>10. \/ /\ checkSDC(v, p).do = "wait" /\ vot' = v /\ pc' = onward
          /\ UNCHANGED <<timer, sent, job>>
       \/ /\ checkSDC(v, p).do = "send"
          /\ vot' = SendPipe(v, p, checkSDC(v, p).rep).vot
          /\ sent' = [sent EXCEPT ![p] = sent[p] \o SendPipe(v, p, checkSDC(v, p).rep).out]
          /\ timer' = (timer /\ p # conf.TimerStop) /\ pc' = onward /\ UNCHANGED job
       \/ /\ checkSDC(v, p).do = "restart" /\ vot' = v /\ pc' = "steal"
          /\ job' = [ee |-> checkSDC(v, p).ee, er |-> checkSDC(v, p).er, stolen |-> <<>>,
                     ret |-> onward]
          /\ UNCHANGED <<timer, sent>>
  BY <1>1, <1>2, <1>4, Zenon DEF FromRep
<1> HIDE DEF v, b
<1>11. /\ pc = "rep" /\ <<p, r>> \in Full /\ \A x \in Full : p <= x[1]
       /\ \A q \in Outs, s \in Reps : ~(q = p /\ s = r) => v[q][s] = vot[q][s]
  BY <1>1, <1>2, <1>6
<1> QED BY <1>6, <1>7, <1>8, <1>9, <1>10, <1>11, Zenon

(* A vote arrives: it waits for the others, all that have come are sent, or *)
(* the one replica that is wrong is restarted.                              *)
LEMMA SafeFromRep ==
  ASSUME Safe, VotesFit, Inv', conf' = conf, FromRep
  PROVE  Safe' /\ (pc' = "steal" => \E t \in Reps : ~Sound(t))
<1> USE ConfKept
<1>1. PICK p \in Outs, r \in Reps, v \in Votes :
    /\ pc = "rep" /\ <<p, r>> \in Full /\ \A x \in Full : p <= x[1]
    /\ v[p][r].q = vot[p][r].q \o outq[p][r] /\ v[p][r].index = vot[p][r].index
    /\ \A q \in Outs, s \in Reps : ~(q = p /\ s = r) => v[q][s] = vot[q][s]
    /\ outq'[p][r] = <<>>
    /\ \A q \in Outs, s \in Reps : ~(q = p /\ s = r) => outq'[q][s] = outq[q][s]
    /\ ready'.rep = Full \ {<<p, r>>}
    /\ UNCHANGED <<extin, inq, status, work, sdc, child, given>>
    /\ \/ /\ checkSDC(v, p).do = "wait" /\ vot' = v
          /\ pc' = IF Full \ {<<p, r>>} = {} THEN "top" ELSE "rep"
          /\ UNCHANGED <<timer, sent, job>>
       \/ /\ checkSDC(v, p).do = "send"
          /\ vot' = SendPipe(v, p, checkSDC(v, p).rep).vot
          /\ sent' = [sent EXCEPT ![p] = sent[p] \o SendPipe(v, p, checkSDC(v, p).rep).out]
          /\ timer' = (timer /\ p # conf.TimerStop)
          /\ pc' = IF Full \ {<<p, r>>} = {} THEN "top" ELSE "rep"
          /\ UNCHANGED job
       \/ /\ checkSDC(v, p).do = "restart" /\ vot' = v /\ pc' = "steal"
          /\ job' = [ee |-> checkSDC(v, p).ee, er |-> checkSDC(v, p).er, stolen |-> <<>>,
                     ret |-> IF Full \ {<<p, r>>} = {} THEN "top" ELSE "rep"]
          /\ UNCHANGED <<timer, sent>>
  BY Collected
<1> DEFINE left == Full \ {<<p, r>>}
           onward == IF left = {} THEN "top" ELSE "rep"
<1>0. /\ conf \in Configs /\ vot \in Votes /\ sent \in [Outs -> Seq(Value)]
      /\ outq \in [Outs -> [Reps -> Seq(Value)]] /\ timer \in BOOLEAN
  BY TypeParts DEF Safe, Inv, VoterTyped, PipesTyped
<1>2. ~Restarting /\ Total \in Nat /\ Total' = Total /\ child = NoChild /\ job.stolen = <<>>
  BY <1>1 DEF Safe, Restarting, Coming, Total, Idle
<1>3. PICK n \in Nat : /\ n = bytesReady(Counts(v)[p])
                       /\ \A t \in Reps : n <= Len(v[p][t].q)
                       /\ \E t \in Reps : n = Len(v[p][t].q)
  BY CountsTyped, BytesReadyTyped
<1>14. PICK G \in SUBSET Reps : G = {t \in Reps : Right(t)}
  OBVIOUS
<1>4. Full' = left
  <2>1. Outs' = Outs /\ Reps' = Reps
    OBVIOUS
  <2>2. \A x \in Outs \X Reps : /\ x = <<x[1], x[2]>> /\ x[1] \in Outs /\ x[2] \in Reps
                               /\ (x = <<p, r>> <=> x[1] = p /\ x[2] = r)
    OBVIOUS
  <2>3. \A x \in Outs \X Reps : outq'[x[1]][x[2]] # <<>> <=> outq[x[1]][x[2]] # <<>> /\ x # <<p, r>>
    BY <1>1, <2>2
  <2> QED BY <2>1, <2>3 DEF Full
<1>5. ASSUME NEW q \in Outs, NEW t \in Reps
      PROVE  Chain(sent[q], v[q][t].q, outq'[q][t], Owed(work[t], q), inq[t], <<>>, Total)
  <2>1. Chain(sent[q], vot[q][t].q, outq[q][t], Owed(work[t], q), inq[t], <<>>, Total)
    BY <1>2, ChainOf
  <2>2. CASE q = p /\ t = r
    <3>1. Chain(sent[q], vot[q][t].q \o outq[q][t], <<>>, Owed(work[t], q), inq[t], <<>>, Total)
      BY <2>1, ChainCollect
    <3>2. v[q][t].q = vot[q][t].q \o outq[q][t] /\ outq'[q][t] = <<>>
      BY <1>1, <2>2, Zenon
    <3> QED BY <3>1, <3>2
  <2>3. CASE ~(q = p /\ t = r)
    <3>1. v[q][t] = vot[q][t] /\ outq'[q][t] = outq[q][t]
      BY <1>1, <2>3
    <3> QED BY <2>1, <3>1
  <2> QED BY <2>2, <2>3
<1>6. ASSUME NEW t \in G, NEW q \in Outs
      PROVE  v[q][t].q \in Seq(Nat) /\ outq'[q][t] \in Seq(Nat)
  <2>1. vot[q][t].q \in Seq(Nat) /\ outq[q][t] \in Seq(Nat) /\ <<>> \in Seq(Nat)
    BY <1>14 DEF Right
  <2>2. vot[q][t].q \o outq[q][t] \in Seq(Nat)
    BY <2>1, ConcatProperties
  <2>3. \/ v[q][t].q = vot[q][t].q \o outq[q][t] /\ outq'[q][t] = <<>>
        \/ v[q][t] = vot[q][t] /\ outq'[q][t] = outq[q][t]
    BY <1>1, Zenon
  <2> QED BY <2>1, <2>2, <2>3
<1>7. \A t, u \in G : Agree(v[p][t], v[p][u], n)
  <2> TAKE t, u \in G
  <2>1. v[p][t].index = v[p][u].index
    <3>1. vot[p][t].index = vot[p][u].index
      BY <1>1 DEF Safe, Inv, Level
    <3>2. \A s \in Reps : v[p][s].index = vot[p][s].index
      BY <1>1
    <3> QED BY <3>1, <3>2
  <2>2. SubSeq(v[p][t].q, 1, n) = SubSeq(v[p][u].q, 1, n)
    <3>1. v[p][t].q \in Seq(Nat) /\ v[p][u].q \in Seq(Nat)
      BY <1>6
    <3>2. /\ Chain(sent[p], v[p][t].q, outq'[p][t], Owed(work[t], p), inq[t], <<>>, Total)
          /\ Chain(sent[p], v[p][u].q, outq'[p][u], Owed(work[u], p), inq[u], <<>>, Total)
      BY <1>5
    <3>3. n <= Len(v[p][t].q) /\ n <= Len(v[p][u].q)
      BY <1>3
    <3> DEFINE x == v[p][t].q
               y == v[p][u].q
    <3>4. /\ \E o, w, i, e : Chain(sent[p], x, o, w, i, e, Total)
          /\ \E o, w, i, e : Chain(sent[p], y, o, w, i, e, Total)
          /\ x \in Seq(Nat) /\ y \in Seq(Nat) /\ n <= Len(x) /\ n <= Len(y)
      BY <3>1, <3>2, <3>3
    <3>5. SubSeq(x, 1, n) = SubSeq(y, 1, n)
      <4> HIDE DEF x, y
      <4> QED BY <3>4, ChainsAgree
    <3> QED BY <3>5
  <2> QED BY <2>1, <2>2 DEF Agree
<1>8. /\ \A t, u \in Reps : t \in G \/ u \in G \/ t = u
      /\ conf.RepType = "DMR" => G = Reps
  <2>1. \A t, u \in Reps : t \in G \/ u \in G \/ t = u
    BY <1>14 DEF Safe, OneWrong, Sound
  <2>2. conf.RepType = "DMR" => \A t \in Reps : Right(t)
    BY DEF Safe, OneWrong, Sound, Guarded
  <2> QED BY <1>14, <2>1, <2>2
<1>9. Judged(checkSDC(v, p), v[p], n, G)
  <2>1. Agreeing(v[p], n, G)
    BY <1>7, <1>8 DEF Agreeing
  <2> QED BY <1>0, <1>3, <2>1, Verdict
<1>10. \/ /\ n = 0 /\ vot' = v /\ pc' = onward /\ UNCHANGED <<timer, sent, job>>
       \/ \E t \in Reps, g \in G :
            /\ SubSeq(v[p][t].q, 1, n) = SubSeq(v[p][g].q, 1, n)
            /\ vot' = SendPipe(v, p, t).vot
            /\ sent' = [sent EXCEPT ![p] = sent[p] \o SendPipe(v, p, t).out]
            /\ timer' = (timer /\ p # conf.TimerStop)
            /\ pc' = onward /\ UNCHANGED job
       \/ \E ee, er \in Reps :
            /\ ee \notin G /\ vot' = v /\ pc' = "steal" /\ UNCHANGED <<timer, sent>>
            /\ job' = [ee |-> ee, er |-> er, stolen |-> <<>>, ret |-> onward]
  <2> DEFINE d == checkSDC(v, p)
  <2>0. \/ d.do = "wait" /\ vot' = v /\ pc' = onward /\ UNCHANGED <<timer, sent, job>>
        \/ /\ d.do = "send"
           /\ vot' = SendPipe(v, p, d.rep).vot
           /\ sent' = [sent EXCEPT ![p] = sent[p] \o SendPipe(v, p, d.rep).out]
           /\ timer' = (timer /\ p # conf.TimerStop) /\ pc' = onward /\ UNCHANGED job
        \/ /\ d.do = "restart" /\ vot' = v /\ pc' = "steal"
           /\ job' = [ee |-> d.ee, er |-> d.er, stolen |-> <<>>, ret |-> onward]
           /\ UNCHANGED <<timer, sent>>
    BY <1>1
  <2>00. Judged(d, v[p], n, G)
    BY <1>9
  <2> HIDE DEF d, left, onward
  <2>1. CASE d = Wait /\ n = 0
    <3>1. d.do = "wait"
      BY <2>1 DEF Wait
    <3> QED BY <2>0, <2>1, <3>1
  <2>2. ASSUME NEW t \in Reps, NEW g \in G, d = SendOf(t),
               SubSeq(v[p][t].q, 1, n) = SubSeq(v[p][g].q, 1, n)
        PROVE  \E u \in Reps, h \in G :
            /\ SubSeq(v[p][u].q, 1, n) = SubSeq(v[p][h].q, 1, n)
            /\ vot' = SendPipe(v, p, u).vot
            /\ sent' = [sent EXCEPT ![p] = sent[p] \o SendPipe(v, p, u).out]
            /\ timer' = (timer /\ p # conf.TimerStop)
            /\ pc' = onward /\ UNCHANGED job
    <3>1. d.do = "send" /\ d.rep = t
      BY <2>2 DEF SendOf
    <3> QED BY <2>0, <2>2, <3>1
  <2>3. ASSUME NEW ee \in Reps, NEW er \in Reps, d = RestartOf(ee, er), ee \notin G
        PROVE  /\ ee \notin G /\ vot' = v /\ pc' = "steal" /\ UNCHANGED <<timer, sent>>
               /\ job' = [ee |-> ee, er |-> er, stolen |-> <<>>, ret |-> onward]
    <3>1. d.do = "restart" /\ d.ee = ee /\ d.er = er
      BY <2>3 DEF RestartOf
    <3> QED BY <2>0, <2>3, <3>1
  <2> QED BY <2>00, <2>1, <2>2, <2>3 DEF Judged
<1> HIDE DEF onward
<1>11. /\ \A q \in Outs, t \in Reps :
            Chain(sent'[q], vot'[q][t].q, outq'[q][t], Owed(work[t], q), inq[t], <<>>, Total)
       /\ \A q \in Outs, t \in G : vot'[q][t].q \in Seq(Nat)
       /\ \A q \in Outs : sent'[q] \in Seq(Nat)
       /\ ~Restarting' => \A q \in Outs : \E t \in Reps : vot'[q][t].q = <<>>
  <2>0. \A q \in Outs : sent[q] \in Seq(Nat)
    BY DEF Safe, OneWrong
  <2>00. \A q \in Outs \ {p} : \E t \in Reps : v[q][t].q = <<>>
    <3> TAKE q \in Outs \ {p}
    <3>1. PICK t \in Reps : vot[q][t].q = <<>>
      BY <1>2 DEF Safe, NoneReady
    <3> QED BY <1>1, <3>1
  <2>1. CASE vot' = v /\ sent' = sent /\ (n = 0 \/ pc' = "steal")
    <3>1. n = 0 => \E t \in Reps : v[p][t].q = <<>>
      <4> SUFFICES ASSUME n = 0 PROVE \E t \in Reps : v[p][t].q = <<>>
        OBVIOUS
      <4>1. PICK t \in Reps : n = Len(v[p][t].q)
        BY <1>3
      <4>2. v[p][t].q \in Seq(Value)
        BY DEF Votes, Buff
      <4> QED BY <4>1, <4>2, EmptySeq
    <3>2. ~Restarting' => \A q \in Outs : \E t \in Reps : v[q][t].q = <<>>
      BY <2>00, <2>1, <3>1 DEF Restarting
    <3> QED BY <1>5, <1>6, <2>0, <2>1, <3>2
  <2>2. ASSUME NEW t \in Reps, NEW g \in G, SubSeq(v[p][t].q, 1, n) = SubSeq(v[p][g].q, 1, n),
               vot' = SendPipe(v, p, t).vot,
               sent' = [sent EXCEPT ![p] = sent[p] \o SendPipe(v, p, t).out]
        PROVE  /\ \A q \in Outs, u \in Reps :
                    Chain(sent'[q], vot'[q][u].q, outq'[q][u], Owed(work[u], q), inq[u], <<>>, Total)
               /\ \A q \in Outs, u \in G : vot'[q][u].q \in Seq(Nat)
               /\ \A q \in Outs : sent'[q] \in Seq(Nat)
               /\ \A q \in Outs : \E u \in Reps : vot'[q][u].q = <<>>
    <3>1. /\ SendPipe(v, p, t).out = SubSeq(v[p][t].q, 1, n)
          /\ \A s \in Reps : SendPipe(v, p, t).vot[p][s].q = DropN(v[p][s].q, n)
          /\ \A q \in Outs \ {p} : SendPipe(v, p, t).vot[q] = v[q]
          /\ \E s \in Reps : SendPipe(v, p, t).vot[p][s].q = <<>>
      <4>1. PICK m \in Nat :
               /\ m = bytesReady(Counts(v)[p])
               /\ SendPipe(v, p, t).out = SubSeq(v[p][t].q, 1, m)
               /\ \A s \in Reps : /\ m <= Len(v[p][s].q)
                                 /\ SendPipe(v, p, t).vot[p][s].q = DropN(v[p][s].q, m)
               /\ \A q \in Outs \ {p} : SendPipe(v, p, t).vot[q] = v[q]
               /\ \E s \in Reps : SendPipe(v, p, t).vot[p][s].q = <<>>
        BY <1>0, SendFacts, ZenonT(40)
      <4>2. m = n
        BY <1>3, <4>1
      <4> QED BY <4>1, <4>2
    <3>2. /\ sent'[p] = sent[p] \o SubSeq(v[p][t].q, 1, n)
          /\ \A q \in Outs \ {p} : sent'[q] = sent[q]
      BY <1>0, <2>2, <3>1
    <3>3. /\ \A s \in Reps : vot'[p][s].q = DropN(v[p][s].q, n)
          /\ \A q \in Outs \ {p} : vot'[q] = v[q]
      BY <2>2, <3>1
    <3>4. ASSUME NEW q \in Outs, NEW u \in Reps
          PROVE  Chain(sent'[q], vot'[q][u].q, outq'[q][u], Owed(work[u], q), inq[u], <<>>, Total)
      <4>1. CASE q # p
        <5>1. Chain(sent[q], v[q][u].q, outq'[q][u], Owed(work[u], q), inq[u], <<>>, Total)
          BY <1>5
        <5> QED BY <3>2, <3>3, <4>1, <5>1
      <4>2. CASE q = p
        <5>1. Chain(sent[p], v[p][u].q, outq'[p][u], Owed(work[u], p), inq[u], <<>>, Total)
          BY <1>5
        <5>2. Chain(sent[p], v[p][t].q, outq'[p][t], Owed(work[t], p), inq[t], <<>>, Total)
          BY <1>5
        <5>3. n <= Len(v[p][u].q) /\ n <= Len(v[p][t].q)
          BY <1>3
        <5>4. Chain(sent[p] \o SubSeq(v[p][t].q, 1, n), DropN(v[p][u].q, n), outq'[p][u],
                    Owed(work[u], p), inq[u], <<>>, Total)
          BY <5>1, <5>2, <5>3, ChainSend
        <5> QED BY <3>2, <3>3, <4>2, <5>4
      <4> QED BY <4>1, <4>2
    <3>5. ASSUME NEW q \in Outs, NEW u \in G PROVE vot'[q][u].q \in Seq(Nat)
      <4>1. v[q][u].q \in Seq(Nat)
        BY <1>6
      <4>2. CASE q # p
        BY <3>3, <4>1, <4>2
      <4>3. CASE q = p
        BY <1>3, <3>3, <4>1, <4>3, CutClean
      <4> QED BY <4>2, <4>3
    <3>6. sent'[p] \in Seq(Nat)
      <4>1. v[p][g].q \in Seq(Nat) /\ n <= Len(v[p][g].q)
        BY <1>3, <1>6
      <4>2. SubSeq(v[p][t].q, 1, n) \in Seq(Nat)
        BY <2>2, <4>1, CutClean
      <4> QED BY <2>0, <3>2, <4>2, ConcatProperties
    <3>7. \A q \in Outs : sent'[q] \in Seq(Nat)
      BY <2>0, <3>2, <3>6
    <3>8. \A q \in Outs : \E u \in Reps : vot'[q][u].q = <<>>
      BY <2>00, <2>2, <3>1, <3>3
    <3> QED BY <3>4, <3>5, <3>7, <3>8
  <2> QED BY <1>10, <2>1, <2>2
<1>12. /\ pc' \in {"top", "rep", "steal"} /\ (pc' \in {"top", "rep"} => pc' = onward)
       /\ job'.stolen = <<>> /\ \A t : Stolen(t)' = <<>>
  <2>1. onward \in {"top", "rep"}
    BY DEF onward
  <2>2. job' = job \/ job'.stolen = <<>>
    <3>1. ASSUME NEW ee, NEW er, job' = [ee |-> ee, er |-> er, stolen |-> <<>>, ret |-> onward]
          PROVE  job'.stolen = <<>>
      BY <3>1
    <3> QED BY <1>10, <3>1
  <2>3. job'.stolen = <<>>
    BY <1>2, <2>2
  <2> QED BY <1>10, <2>1, <2>3 DEF Stolen
<1>13. Idle' /\ Accepting' /\ Coming' /\ InOrder'
  <2>1. Idle' /\ Accepting'
    BY <1>1, <1>2, <1>12 DEF Idle, Accepting
  <2>2. Coming'
    BY <1>1, <1>2, <1>12 DEF Safe, Coming
  <2> QED BY <1>1, <2>1, <2>2, Stay DEF Safe
<1>15. InChain'
  BY <1>1, <1>2, <1>11, <1>12 DEF InChain
<1>16. NoneReady'
  BY <1>11 DEF NoneReady
<1>17. pc' = "steal" => /\ left = {} /\ job'.ret = "top"
                        /\ \A t \in Reps : Sound(t) \/ t = job'.ee
                        /\ \E t \in Reps : ~Sound(t)
  <2> SUFFICES ASSUME pc' = "steal"
               PROVE  /\ left = {} /\ job'.ret = "top"
                      /\ \A t \in Reps : Sound(t) \/ t = job'.ee
                      /\ \E t \in Reps : ~Sound(t)
    OBVIOUS
  <2>1. onward \in {"top", "rep"}
    BY DEF onward
  <2>2. PICK ee, er \in Reps :
            ee \notin G /\ job' = [ee |-> ee, er |-> er, stolen |-> <<>>, ret |-> onward]
    BY <1>10, <2>1
  <2>3. ~Right(ee) /\ ~Sound(ee) /\ job'.ee = ee /\ job'.ret = onward
    BY <1>14, <2>2 DEF Sound
  <2>4. \A x, y \in Full : x = y
    BY <2>3 DEF Safe, OneWrong
  <2>5. left = {}
    BY <1>1, <2>4
  <2>6. \A t \in Reps : Sound(t) \/ t = ee
    BY <2>3 DEF Safe, OneWrong
  <2> QED BY <2>3, <2>5, <2>6 DEF onward
<1>18. Reading'
  <2>1. pc' = "rep" => ready'.rep = Full'
    BY <1>1, <1>4
  <2>2. pc' = "top" => Full' = {}
    BY <1>4, <1>12 DEF onward
  <2>3. pc' = "steal" => Full' = {} /\ job'.ret # "rep"
    BY <1>4, <1>17
  <2> QED BY <1>12, <2>1, <2>2, <2>3 DEF Reading
<1>19. OneWrong'
  <2>1. ASSUME NEW t \in Reps, Right(t) PROVE Right(t)'
    <3>1. t \in G
      BY <1>14, <2>1
    <3>2. \A q \in Outs : vot'[q][t].q \in Seq(Nat) /\ outq'[q][t] \in Seq(Nat)
      BY <1>6, <1>11, <3>1
    <3>3. CleanWork(work'[t])
      BY <1>1, <2>1 DEF Right
    <3> QED BY <3>2, <3>3 DEF Right, CleanWork
  <2>2. \A t \in Reps : Right(t) => Right(t)'
    BY <2>1
  <2>3. \A t \in Reps : Sound(t) => Sound(t)'
    BY <1>1, <2>2 DEF Sound
  <2>4. \A x, y \in Full' : x \in Full /\ y \in Full
    BY <1>4
  <2>5. pc' = "steal" => \A t \in Reps : Sound(t)' \/ t = job'.ee
    BY <1>17, <2>3
  <2>6. /\ \A t, u \in Reps : Sound(t)' \/ Sound(u)' \/ t = u
        /\ \A t, u \in Reps : Sound(t)' \/ status'[u] = "ok"
        /\ \A t \in Reps : Sound(t)' \/ "sdc" \in conf.FaultKinds
        /\ \A t \in Reps : Right(t)' \/ \A x, y \in Full' : x = y
    BY <1>1, <2>2, <2>3, <2>4 DEF Safe, OneWrong
  <2> QED BY <1>1, <1>2, <1>11, <1>12, <2>5, <2>6 DEF OneWrong
<1>20. conf.NOut \in Outs /\ conf.NOut \in Nat /\ Outs = 1 .. conf.NOut
  BY <1>0, ConfTyped DEF Outs
<1>21. ASSUME NEW t \in Reps, NEW q \in Outs, NEW z \in Outs, q <= z
       PROVE  Len(outq'[q][t]) + Len(Owed(work[t], q))
                <= Len(outq'[z][t]) + Len(Owed(work[t], z))
  <2>1. Len(outq[q][t]) + Len(Owed(work[t], q))
          <= Len(outq[z][t]) + Len(Owed(work[t], z))
    BY <1>21 DEF Safe, PipeByPipe
  <2>2. CASE t # r \/ (p # q /\ p # z)
    BY <1>1, <1>20, <2>1, <2>2
  <2>3. CASE t = r /\ p = z /\ q # p
    <3>1. outq[q][r] = <<>>
      <4>1. q < p
        BY <1>21, <1>20, <2>3
      <4>2. <<q, r>> \notin Full
        <5>1. <<q, r>>[1] = q /\ ~(p <= q)
          BY <1>20, <4>1
        <5> QED BY <1>1, <5>1
      <4>3. <<q, r>> \in Outs \X Reps /\ <<q, r>>[1] = q /\ <<q, r>>[2] = r
        OBVIOUS
      <4> QED BY <4>2, <4>3 DEF Full
    <3>2. Len(outq'[q][t]) = 0 /\ Len(outq'[z][t]) = 0
      <4>1. outq'[q][t] = outq[q][t] /\ outq'[z][t] = <<>>
        BY <1>1, <2>3
      <4>2. outq'[q][t] = <<>>
        BY <2>3, <3>1, <4>1
      <4> QED BY <4>1, <4>2, EmptySeq
    <3>3. /\ Len(Owed(work[t], q)) \in Nat /\ Len(Owed(work[t], z)) \in Nat
          /\ Len(Owed(work[t], q)) <= Len(Owed(work[t], z))
      <4>1. work[t] \in Seq(Output) /\ Lined(work[t])
        BY ReplicaTyped
      <4> QED BY <1>21, <1>0, <4>1, OwedOrder
    <3> QED BY <3>2, <3>3
  <2>4. CASE q = z
    <3>1. Len(outq'[q][t]) + Len(Owed(work[t], q)) \in Nat
      <4>1. Chain(sent'[q], vot'[q][t].q, outq'[q][t], Owed(work[t], q), inq[t], <<>>, Total)
        BY <1>11
      <4>2. Len(outq'[q][t]) \in Nat /\ Len(Owed(work[t], q)) \in Nat
        BY <4>1, ChainLen
      <4> DEFINE a == Len(outq'[q][t])
                 b == Len(Owed(work[t], q))
      <4>3. a \in Nat /\ b \in Nat
        BY <4>2
      <4>4. a + b \in Nat
        <5> HIDE DEF a, b
        <5> QED BY <4>3
      <4> QED BY <4>4
    <3> QED BY <2>4, <3>1
  <2>5. CASE t = r /\ p = q /\ q # z
    <3>1. Len(outq'[q][t]) = 0 /\ outq'[z][t] = outq[z][t]
      BY <1>1, <1>20, <2>5
    <3>2. /\ Len(outq[q][t]) \in Nat /\ Len(Owed(work[t], q)) \in Nat
          /\ Len(outq[z][t]) \in Nat /\ Len(Owed(work[t], z)) \in Nat
      BY <1>2, <1>20, ChainOf
    <3> DEFINE a == Len(outq[q][t])
               b == Len(Owed(work[t], q))
               c == Len(outq[z][t])
               d == Len(Owed(work[t], z))
    <3>3. a \in Nat /\ b \in Nat /\ c \in Nat /\ d \in Nat /\ a + b <= c + d
      BY <2>1, <3>2
    <3>4. 0 + b <= c + d
      <4> HIDE DEF a, b, c, d
      <4> QED BY <3>3
    <3> QED BY <3>1, <3>4
  <2> QED BY <2>2, <2>3, <2>4, <2>5
<1>22. PipeByPipe'
  <2>1. ASSUME NEW q \in Outs, NEW z \in Outs, q <= z PROVE Len(sent'[z]) <= Len(sent'[q])
    <3>1. CASE Restarting'
      <4>1. sent' = sent
        <5>1. pc' = "steal" /\ onward \in {"top", "rep"}
          BY <1>12, <3>1 DEF Restarting, onward
        <5> QED BY <1>10, <5>1
      <4> QED BY <2>1, <4>1 DEF Safe, PipeByPipe
    <3>2. CASE ~Restarting'
      <4>1. PICK s \in Reps : vot'[q][s].q = <<>>
        BY <1>11, <3>2
      <4>2. /\ Chain(sent'[q], vot'[q][s].q, outq'[q][s], Owed(work[s], q), inq[s], <<>>, Total)
            /\ Chain(sent'[z], vot'[z][s].q, outq'[z][s],
                     Owed(work[s], z), inq[s], <<>>, Total)
        BY <1>11, <1>20
      <4>3. Len(outq'[q][s]) + Len(Owed(work[s], q))
              <= Len(outq'[z][s]) + Len(Owed(work[s], z))
        BY <1>21, <2>1
      <4>4. Len(vot'[z][s].q) \in Nat /\ Len(vot'[q][s].q) = 0
        BY <4>1, <4>2, ChainLen, EmptySeq
      <4> QED BY <4>2, <4>3, <4>4, NotBehind
    <3> QED BY <3>1, <3>2
  <2> QED BY <1>1, <1>21, <2>1 DEF PipeByPipe
<1>23. Due'
  <2>1. /\ Len(sent[conf.NOut]) \in Nat /\ Len(sent'[conf.NOut]) \in Nat
        /\ Len(sent[conf.NOut]) <= Len(sent'[conf.NOut])
        /\ (timer' => timer)
        /\ timer' /\ pc' # "steal" /\ conf.TimerStop = conf.NOut => sent'[conf.NOut] = sent[conf.NOut]
    <3>0. Len(sent[conf.NOut]) \in Nat /\ sent[conf.NOut] \in Seq(Value)
      BY <1>0, <1>20, LenProperties
    <3>1. CASE UNCHANGED <<timer, sent>>
      BY <3>0, <3>1
    <3>2. ASSUME NEW t \in Reps,
                 sent' = [sent EXCEPT ![p] = sent[p] \o SendPipe(v, p, t).out],
                 timer' = (timer /\ p # conf.TimerStop)
          PROVE  /\ Len(sent'[conf.NOut]) \in Nat
                 /\ Len(sent[conf.NOut]) <= Len(sent'[conf.NOut])
                 /\ (timer' => timer)
                 /\ timer' /\ conf.TimerStop = conf.NOut => sent'[conf.NOut] = sent[conf.NOut]
      <4>1. SendPipe(v, p, t).out \in Seq(Value) /\ sent[p] \in Seq(Value)
        BY <1>0, SendPipeTyped
      <4> DEFINE a == sent[p]
                 b == SendPipe(v, p, t).out
      <4>2. a \in Seq(Value) /\ b \in Seq(Value)
        BY <4>1
      <4>3. Len(a \o b) = Len(a) + Len(b) /\ Len(a) \in Nat /\ Len(b) \in Nat
        <5> HIDE DEF a, b
        <5> QED BY <4>2, ConcatProperties, LenProperties
      <4>4. Len(a \o b) \in Nat /\ Len(a) <= Len(a \o b)
        <5> HIDE DEF a, b
        <5> QED BY <4>3
      <4>5. sent'[p] = a \o b /\ \A q \in Outs \ {p} : sent'[q] = sent[q]
        BY <1>0, <3>2
      <4> HIDE DEF b
      <4>6. Len(sent'[conf.NOut]) \in Nat /\ Len(sent[conf.NOut]) <= Len(sent'[conf.NOut])
        <5>1. CASE conf.NOut = p
          BY <4>4, <4>5, <5>1
        <5>2. CASE conf.NOut # p
          <6>1. sent'[conf.NOut] = sent[conf.NOut]
            BY <1>20, <4>5, <5>2
          <6> QED BY <3>0, <6>1
        <5> QED BY <5>1, <5>2
      <4>7. timer' /\ conf.TimerStop = conf.NOut => sent'[conf.NOut] = sent[conf.NOut]
        <5>1. timer' => timer /\ p # conf.TimerStop
          BY <3>2, Zenon
        <5> QED BY <1>20, <4>5, <5>1
      <4> QED BY <3>2, <4>6, <4>7
    <3> QED BY <1>10, <3>0, <3>1, <3>2
  <2>2. given \in Int /\ conf.Window \in Int
    BY <1>0, TypeParts, BoundAssumption, ConfigAssumption DEF Safe, Inv, BoundsTyped
  <2>3. CASE conf.TimerStop = conf.NOut
    <3>1. given - Len(sent[conf.NOut]) <= conf.Window
      BY <2>3 DEF Safe, Due
    <3> DEFINE a == Len(sent[conf.NOut])
               b == Len(sent'[conf.NOut])
               W == conf.Window
    <3>2. a \in Nat /\ b \in Nat /\ a <= b /\ W \in Int /\ given - a <= W
      BY <2>1, <2>2, <3>1
    <3>3. given - b <= W
      <4> HIDE DEF a, b, W
      <4> QED BY <2>2, <3>2
    <3>4. timer' /\ ~Restarting' => Len(sent'[conf.NOut]) < Total
      BY <1>2, <2>1, <2>3 DEF Safe, Due, Restarting
    <3> QED BY <1>1, <1>2, <3>3, <3>4 DEF Due
  <2> QED BY <2>3 DEF Due
<1>24. Guarded'
  BY Stay DEF Safe
<1> QED BY <1>13, <1>15, <1>16, <1>17, <1>18, <1>19, <1>22, <1>23, <1>24 DEF Safe

-----------------------------------------------------------------------------
(***************************************************************************)
(* The voter starts with nothing in its pipes and buffers.                 *)
(***************************************************************************)
LEMMA SafeInit == Init /\ Guarded => Safe
<1> SUFFICES ASSUME Init, Guarded PROVE Safe
  OBVIOUS
<1>1. conf \in Configs /\ conf.NOut \in Outs /\ MaxIn \in Nat
  BY ConfTyped, BoundAssumption DEF Init, Outs
<1>2. Inv
  BY InvInit
<1>3. /\ pc = "top" /\ ~timer /\ child = NoChild /\ job.stolen = <<>> /\ given = 0 /\ extin = <<>>
      /\ \A r \in Reps : work[r] = <<>> /\ inq[r] = <<>> /\ ~sdc[r]
      /\ \A p \in Outs : sent[p] = <<>> /\ \A r \in Reps : vot[p][r].q = <<>> /\ outq[p][r] = <<>>
  BY DEF Init, EmptyBuff
<1>4. Len(<<>>) = 0 /\ <<>> \in Seq(Nat) /\ Total = 0
  <2>1. Len(<<>>) = 0 /\ <<>> \in Seq(Nat)
    OBVIOUS
  <2> DEFINE z == Len(<<>>)
  <2>2. Total = 0 - z
    BY <1>3 DEF Total
  <2>3. z = 0
    OBVIOUS
  <2> HIDE DEF z
  <2>4. Total = 0
    BY <2>2, <2>3
  <2> QED BY <2>1, <2>4
<1>5. Run(<<>>, 0, 0)
  BY RunEmpty
<1>6. Idle /\ Accepting /\ Coming
  BY <1>3, <1>4, <1>5 DEF Idle, Accepting, Coming
<1>7. InOrder
  BY <1>3, <1>4 DEF InOrder, Lined
<1>8. Chain(<<>>, <<>>, <<>>, <<>>, <<>>, <<>>, 0)
  BY <1>5 DEF Chain
<1>9. InChain
  <2> SUFFICES ASSUME NEW r \in Reps, NEW p \in Outs
               PROVE  Chain(sent[p], vot[p][r].q, outq[p][r], Owed(work[r], p), inq[r], Stolen(r), Total)
    BY DEF InChain
  <2>1. Owed(work[r], p) = <<>> /\ Stolen(r) = <<>>
    BY <1>3, OwedNone DEF Stolen
  <2> QED BY <1>3, <1>4, <1>8, <2>1
<1>10. Full = {}
  BY <1>3, EmptyFull
<1>11. Reading
  BY <1>3, <1>10 DEF Reading
<1>12. OneWrong
  <2>0. CleanWork(<<>>)
    BY <1>4 DEF CleanWork
  <2>1. ASSUME NEW r \in Reps PROVE Right(r)
    <3>1. CleanWork(work[r])
      BY <1>3, <2>0
    <3>2. \A p \in Outs : vot[p][r].q \in Seq(Nat) /\ outq[p][r] \in Seq(Nat)
      BY <1>3, <1>4
    <3> QED BY <3>1, <3>2 DEF Right
  <2>2. \A r \in Reps : Sound(r)
    BY <1>3, <2>1 DEF Sound
  <2> QED BY <1>3, <1>4, <2>1, <2>2 DEF OneWrong
<1>13. NoneReady
  <2>1. 0 \in Reps
    BY TwoOrThree
  <2> QED BY <1>3, <2>1 DEF NoneReady
<1>14. PipeByPipe
  <2>1. ASSUME NEW r \in Reps, NEW p \in Outs
        PROVE  Len(outq[p][r]) = 0 /\ Len(Owed(work[r], p)) = 0
    <3>1. outq[p][r] = <<>> /\ Owed(work[r], p) = <<>>
      BY <1>3, OwedNone
    <3> QED BY <1>4, <3>1
  <2>2. \A p \in Outs : Len(sent[p]) = 0
    BY <1>3, <1>4
  <2>3. ASSUME NEW r \in Reps, NEW p \in Outs, NEW q \in Outs
        PROVE  Len(outq[p][r]) + Len(Owed(work[r], p))
                 <= Len(outq[q][r]) + Len(Owed(work[r], q))
    <3>1. /\ Len(outq[p][r]) = 0 /\ Len(Owed(work[r], p)) = 0
          /\ Len(outq[q][r]) = 0 /\ Len(Owed(work[r], q)) = 0
      BY <2>1
    <3> QED BY <3>1
  <2>4. \A p, q \in Outs : Len(sent[q]) <= Len(sent[p])
    BY <2>2
  <2> QED BY <2>3, <2>4 DEF PipeByPipe
<1>15. Due
  <2>1. Len(sent[conf.NOut]) = 0
    BY <1>1, <1>3, <1>4
  <2>2. conf.Window \in Nat
    BY <1>1, ConfigAssumption
  <2> QED BY <1>3, <2>1, <2>2 DEF Due
<1> QED BY <1>2, <1>6, <1>7, <1>9, <1>11, <1>12, <1>13, <1>14, <1>15 DEF Safe

(* Every step keeps it while the votes and the inputs that are read fit. *)
LEMMA SafeStep ==
  ASSUME Safe, VotesFit, InputFits, [Next]_vars
  PROVE  Safe'
<1>1. Inv'
  BY InvStep DEF Safe
<1>2. conf' = conf
  BY DEF Next, vars
<1>3. CASE UNCHANGED vars
  BY <1>1, <1>2, <1>3, SafeAside DEF vars, voterVars, repVars, bounds
<1>4. CASE EnvSend
  BY <1>1, <1>2, <1>4, SafeEnvSend
<1>5. CASE Fork
  BY <1>1, <1>2, <1>5, SafeFork
<1>6. ASSUME NEW r \in Reps, RepRead(r) PROVE Safe'
  BY <1>1, <1>2, <1>6, SafeRepRead
<1>7. ASSUME NEW r \in Reps, RepWrite(r) PROVE Safe'
  BY <1>1, <1>2, <1>7, SafeRepWrite
<1>8. ASSUME NEW r \in Reps, Resume(r) PROVE Safe'
  BY <1>1, <1>2, <1>8, SafeResume
<1>9. ASSUME NEW r \in Reps, Crash(r) \/ Hang(r) \/ Corrupt(r) PROVE Safe'
  BY <1>1, <1>2, <1>9, SafeUpset
<1>10. CASE Expire
  BY <1>1, <1>2, <1>10, SafeExpire
<1>11. CASE Select
  BY <1>1, <1>2, <1>11, SafeSelect
<1>12. CASE ReadExt
  BY <1>1, <1>2, <1>12, SafeReadExt
<1>13. CASE FromRep
  BY <1>1, <1>2, <1>13, SafeFromRep
<1>14. CASE Steal
  BY <1>1, <1>2, <1>14, SafeSteal
<1>15. CASE HandOver
  BY <1>1, <1>2, <1>15, SafeHandOver
<1> QED BY <1>3, <1>4, <1>5, <1>6, <1>7, <1>8, <1>9, <1>10, <1>11, <1>12, <1>13, <1>14, <1>15
        DEF Next, Step

(* The replicas of a group sized for its traffic time the pipe they write *)
(* last, and buffers hold what the environment has in flight.             *)
Sized ==
  /\ Guarded /\ conf.TimerStop = conf.NOut
  /\ conf.Window < conf.Ring /\ conf.Window <= conf.Block

(* Then the votes fit. *)
LEMMA Fits ==
  ASSUME Safe, Sized
  PROVE  VotesFit
<1> SUFFICES ASSUME pc = "rep", NEW p \in Outs, NEW r \in Reps
             PROVE  Len(outq[p][r]) < conf.Ring - Len(vot[p][r].q)
  BY DEF VotesFit
<1>1. ~Restarting /\ conf \in Configs
  BY ReplicaTyped DEF Restarting
<1> DEFINE s == Len(sent[p])
           v == Len(vot[p][r].q)
           o == Len(outq[p][r])
           w == Len(Owed(work[r], p))
           i == Len(inq[r])
           l == Len(sent[conf.NOut])
           x == Len(extin)
           W == conf.Window
           R == conf.Ring
<1>2. /\ s \in Nat /\ v \in Nat /\ o \in Nat /\ w \in Nat /\ i \in Nat
      /\ Total = s + v + o + w + i
  BY <1>1, ChainOf
<1>3. l <= s /\ given - l <= W
  BY LastIsLast DEF Safe, Due, Sized
<1>4. W < R /\ W \in Nat /\ R \in Nat
  BY <1>1, ConfigAssumption DEF Sized
<1>5. given \in Nat /\ extin \in Seq(Msg)
  BY TypeParts, BoundAssumption DEF Safe, Inv, PipesTyped, BoundsTyped
<1>6. x \in Nat /\ Total = given - x
  BY <1>5, LenProperties DEF Total
<1>7. l \in Nat
  <2>1. conf.NOut \in Outs
    BY <1>1, ConfTyped DEF Outs
  <2> QED BY <1>1, <2>1, ChainOf
<1>8. o < R - v
  <2> HIDE DEF s, v, o, w, i, l, x, W, R
  <2> QED BY <1>2, <1>3, <1>4, <1>5, <1>6, <1>7
<1> QED BY <1>8

(* And so do the inputs: no more of them are unread than are unanswered. *)
LEMMA FitsInput ==
  ASSUME Safe, Sized
  PROVE  InputFits
<1>1. ASSUME pc = "ext" \/ pc = "steal" PROVE ~(pc = "accept")
  BY <1>1
<1>2. conf \in Configs /\ job.er \in Reps
  BY TypeParts DEF Safe, Inv, VoterTyped
<1> DEFINE p == conf.NOut
           r == job.er
           s == Len(sent[p])
           v == Len(vot[p][r].q)
           o == Len(outq[p][r])
           w == Len(Owed(work[r], p))
           i == Len(inq[r])
           t == Len(Stolen(r))
           x == Len(extin)
           W == conf.Window
           B == conf.Block
<1>3. ASSUME pc # "accept"
      PROVE  /\ s \in Nat /\ v \in Nat /\ o \in Nat /\ w \in Nat /\ i \in Nat /\ t \in Nat
             /\ Total = s + v + o + w + i + t
  <2>1. p \in Outs
    BY <1>2, ConfTyped DEF Outs
  <2>2. Chain(sent[p], vot[p][r].q, outq[p][r], Owed(work[r], p), inq[r], Stolen(r), Total)
    BY <1>2, <1>3, <2>1 DEF Safe, InChain
  <2> DEFINE sq == sent[p]
             vq == vot[p][r].q
             oq == outq[p][r]
             wq == Owed(work[r], p)
             iq == inq[r]
             tq == Stolen(r)
  <2>3. Chain(sq, vq, oq, wq, iq, tq, Total)
    BY <2>2
  <2> HIDE DEF sq, vq, oq, wq, iq, tq
  <2>4. /\ Len(sq) \in Nat /\ Len(vq) \in Nat /\ Len(oq) \in Nat
        /\ Len(wq) \in Nat /\ Len(iq) \in Nat /\ Len(tq) \in Nat
        /\ Total = Len(sq) + Len(vq) + Len(oq) + Len(wq) + Len(iq) + Len(tq)
    BY <2>3, ChainLen
  <2> QED BY <2>4 DEF sq, vq, oq, wq, iq, tq
<1>4. given - s <= W
  BY DEF Safe, Due, Sized
<1>5. W <= B /\ W \in Nat /\ B \in Nat
  BY <1>2, ConfigAssumption DEF Sized
<1>6. given \in Nat /\ extin \in Seq(Msg)
  BY TypeParts, BoundAssumption DEF Safe, Inv, PipesTyped, BoundsTyped
<1>7. x \in Nat /\ Total = given - x
  BY <1>6, LenProperties DEF Total
<1>8. ASSUME pc # "accept" PROVE x <= B /\ i <= B
  <2>1. /\ s \in Nat /\ v \in Nat /\ o \in Nat /\ w \in Nat /\ i \in Nat /\ t \in Nat
        /\ Total = s + v + o + w + i + t
    BY <1>3, <1>8
  <2> HIDE DEF s, v, o, w, i, t, x, W, B
  <2> QED BY <1>4, <1>5, <1>6, <1>7, <2>1
<1> QED BY <1>1, <1>8 DEF InputFits

-----------------------------------------------------------------------------
(***************************************************************************)
(* What the invariant says.                                                *)
(***************************************************************************)

(* What is sent is a run without a wrong message. *)
LEMMA SafeMasked == Safe => Masked
<1> SUFFICES ASSUME Safe, NEW p \in Outs PROVE sent[p] = Ideal(Len(sent[p]))
  BY DEF Masked
<1>1. PICK r \in Reps : ~(pc = "accept" /\ r = job.ee)
  <2>1. job.er \in Reps /\ (pc = "accept" => job.ee # job.er)
    BY TypeParts DEF Safe, Inv, VoterTyped, Jobs
  <2> QED BY <2>1
<1>2. Chain(sent[p], vot[p][r].q, outq[p][r], Owed(work[r], p), inq[r], Stolen(r), Total)
  BY <1>1 DEF Safe, InChain
<1> DEFINE s == sent[p]
           n == Len(s)
<1>3. PICK a \in Nat : Run(s, 0, a)
  BY <1>2 DEF Chain
<1>4. s \in Seq(Nat)
  BY DEF Safe, OneWrong
<1> HIDE DEF s
<1>5. n \in Nat /\ DOMAIN s = 1 .. n /\ s \in [1 .. n -> Nat]
  BY <1>4, LenProperties
<1>6. ASSUME NEW k \in 1 .. n PROVE s[k] = k
  <2>1. s[k] = 0 + k \/ s[k] = -(0 + k)
    BY <1>3 DEF Run
  <2>2. s[k] \in Nat
    BY <1>5
  <2> QED BY <1>5, <2>1, <2>2
<1>7. s = [k \in 1 .. n |-> k]
  <2> HIDE DEF n
  <2> QED BY <1>5, <1>6
<1> QED BY <1>7 DEF s, Ideal

(* A replica that lives is in step. *)
LEMMA SafeInStep == Safe => SurvivorsInStep
<1> SUFFICES ASSUME Safe, NEW r \in Reps, status[r] # "dead", NEW p \in Outs
             PROVE  Magnitude(Stream(p, r) \o (IF r = job.er THEN job.stolen ELSE <<>>))
                      = Ideal(given - Len(extin))
  BY DEF SurvivorsInStep
<1>1. ~(pc = "accept" /\ r = job.ee)
  BY DEF Safe, Accepting
<1>2. Chain(sent[p], vot[p][r].q, outq[p][r], Owed(work[r], p), inq[r], Stolen(r), Total)
  BY <1>1 DEF Safe, InChain
<1>3. Magnitude((sent[p] \o vot[p][r].q \o outq[p][r] \o Owed(work[r], p) \o inq[r]) \o Stolen(r))
        = Ideal(Total)
  BY <1>2, ChainIdeal
<1> QED BY <1>3 DEF Stream, Pending, Stolen, Total

(* The first descriptor left in select_set has data behind it. *)
LEMMA SafeReads == Safe => ReadsNeverBlock
<1> SUFFICES ASSUME Safe, pc = "rep" PROVE outq[FirstReady[1]][FirstReady[2]] # <<>>
  BY DEF ReadsNeverBlock
<1>1. conf \in Configs /\ ready.rep \in SUBSET (Outs \X Reps) /\ ready.rep # {} /\ ready.rep = Full
  BY TypeParts DEF Safe, Inv, Jobs, VoterTyped, Reading
<1>2. FirstReady \in Full
  BY <1>1, FirstReadyTyped
<1> QED BY <1>2 DEF Full

(* The invariant of groups sized for their traffic. *)
LEMMA SizedHolds == Spec => [](Sized => Safe)
<1>1. Init => (Sized => Safe)
  BY SafeInit DEF Sized
<1>2. (Sized => Safe) /\ [Next]_vars => (Sized => Safe)'
  <2> SUFFICES ASSUME Sized => Safe, [Next]_vars, Sized' PROVE Safe'
    OBVIOUS
  <2>1. conf' = conf
    BY DEF Next, vars
  <2>2. Sized
    BY <2>1 DEF Sized, Guarded
  <2> QED BY <2>2, Fits, FitsInput, SafeStep
<1> QED BY <1>1, <1>2, PTL DEF Spec

(***************************************************************************)
(* Redundancy masks upsets.  For any number of outgoing pipes, inputs,     *)
(* upsets and early expiries, for two replicas that crash or hang and      *)
(* three whose votes are corrupted as well: what leaves the voter is the   *)
(* fault-free stream, through processFromRep, checkSDC and every restart.  *)
(* It needs a voter that preempts its replicas, the timed pipe to be the   *)
(* one the controller writes last, and buffers larger than the traffic in  *)
(* flight: no assumption of its own is made on the run.                    *)
(***************************************************************************)
THEOREM UpsetsMasked == Spec => [](Sized => Masked)
<1>1. (Sized => Safe) => (Sized => Masked)
  BY SafeMasked
<1> QED BY <1>1, SizedHolds, PTL

(***************************************************************************)
(* No restart skips or repeats a message: for the same groups every        *)
(* replica that lives, restarted or restarted from, has in its buffers,    *)
(* pipes and input exactly what the voter has handed out and not yet sent, *)
(* which stealPipes and returnPipes carry over the fork.                   *)
(***************************************************************************)
THEOREM RestartsInStep == Spec => [](Sized => SurvivorsInStep)
<1>1. (Sized => Safe) => (Sized => SurvivorsInStep)
  BY SafeInStep
<1> QED BY <1>1, SizedHolds, PTL

(***************************************************************************)
(* For the same groups doOneUpdate never blocks in the read of a pipe of a *)
(* replica: no restart leaves a descriptor in select_set whose pipe it has *)
(* replaced.                                                               *)
(***************************************************************************)
THEOREM ReadsFindData == Spec => [](Sized => ReadsNeverBlock)
<1>1. (Sized => Safe) => (Sized => ReadsNeverBlock)
  BY SafeReads
<1> QED BY <1>1, SizedHolds, PTL

(***************************************************************************)
(* For the same groups pipeToBuff never finds a buffer full, which it      *)
(* would answer by losing what it has read, and no read of an input pipe   *)
(* leaves anything in it, which stealPipes would get back out of order.    *)
(***************************************************************************)
THEOREM BuffersSuffice == Spec => [](Sized => VotesFit /\ InputFits)
<1>1. (Sized => Safe) => (Sized => VotesFit /\ InputFits)
  BY Fits, FitsInput
<1> QED BY <1>1, SizedHolds, PTL

(* Of the steps of pc = "rep", only a read of a vote changes what is left to read. *)
LEMMA MostBehindStep ==
  ASSUME Inv, Inv', ReadFits, [Next]_vars,
         pc = "rep", ready' # ready, pc' # "steal", NEW r \in Reps, status[r] = "ok", prio'[r] = 2
  PROVE  r \in Furthest(Counts(vot'))
<1>1. conf' = conf
  BY DEF Next, vars
<1>2. ~UNCHANGED voterVars
  BY DEF voterVars
<1>3. FromRep
  BY <1>2, Zenon DEF Next, Step, vars, voterVars, EnvSend, RepRead, RepWrite, Fork, Resume, Crash, Hang,
        Corrupt, Expire, Select, ReadExt, Steal, HandOver
<1> QED BY <1>1, <1>3, FurthestFirst

(***************************************************************************)
(* replicas.c:113 "most behind rep gets data first": for any voter, as     *)
(* long as what it reads fits, a live replica that it gives the highest    *)
(* priority is one of those furthest behind over all pipes, before and     *)
(* after what all have voted on is sent.                                   *)
(***************************************************************************)
THEOREM FurthestGetsDataFirst == Spec /\ []ReadFits => MostBehindFirst
<1>1. Inv /\ Inv' /\ ReadFits /\ [Next]_vars =>
        [pc = "rep" /\ ready' # ready /\ pc' # "steal" =>
           \A r \in Reps : status[r] = "ok" /\ prio'[r] = 2 => r \in Furthest(Counts(vot'))]_vars
  BY MostBehindStep
<1> QED BY <1>1, InvHolds, PTL DEF Spec, MostBehindFirst

(* When the votes fit, so do those that processFromRep reads. *)
LEMMA FitsReads ==
  ASSUME Inv, Sized, VotesFit
  PROVE  ReadFits
<1> SUFFICES ASSUME pc = "rep"
             PROVE  Len(outq[FirstReady[1]][FirstReady[2]])
                      < conf.Ring - Len(vot[FirstReady[1]][FirstReady[2]].q)
  BY DEF ReadFits
<1>1. FirstReady[1] \in Outs /\ FirstReady[2] \in Reps
  BY FirstReadyTyped, TypeParts DEF VoterTyped, Inv, Jobs
<1> QED BY <1>1 DEF VotesFit, Sized, Guarded

(***************************************************************************)
(* For the groups of BuffersSuffice what it reads always fits.             *)
(***************************************************************************)
THEOREM SizedFurthestFirst == Spec /\ Sized => MostBehindFirst
<1>1. Sized /\ [Next]_vars => Sized'
  BY DEF Next, vars, Sized, Guarded
<1>2. Inv /\ Sized /\ VotesFit => ReadFits
  BY FitsReads
<1> QED BY <1>1, <1>2, InvHolds, BuffersSuffice, FurthestGetsDataFirst, PTL DEF Spec

(***************************************************************************)
(* A buffer too small is the only way to lose or reorder a message.  In    *)
(* any group whose voter preempts its replicas, whichever pipe it times,   *)
(* as long as the votes fit into the vote buffers and what is read of an   *)
(* input pipe into the block of one read, the output is the fault-free     *)
(* stream and the living are in step (with corrupted votes: three          *)
(* replicas, the last pipe timed).  With more input pending than a block   *)
(* it does not hold: voterd.c:226 steals a part, and voterd.c:240 returns  *)
(* it behind the rest.                                                     *)
(***************************************************************************)
THEOREM MaskedWhileBuffersFit ==
  Spec /\ []VotesFit /\ []InputFits
    => [](Guarded => Masked /\ SurvivorsInStep /\ ReadsNeverBlock)
<1>1. Init => (Guarded => Safe)
  BY SafeInit
<1>2. (Guarded => Safe) /\ VotesFit /\ InputFits /\ [Next]_vars => (Guarded => Safe)'
  <2> SUFFICES ASSUME Guarded => Safe, VotesFit, InputFits, [Next]_vars, Guarded' PROVE Safe'
    OBVIOUS
  <2>1. conf' = conf
    BY DEF Next, vars
  <2>2. Guarded
    BY <2>1 DEF Guarded
  <2> QED BY <2>2, SafeStep
<1>3. (Guarded => Safe) => (Guarded => Masked /\ SurvivorsInStep /\ ReadsNeverBlock)
  BY SafeMasked, SafeInStep, SafeReads
<1> QED BY <1>1, <1>2, <1>3, PTL DEF Spec

-----------------------------------------------------------------------------
(***************************************************************************)
(* The refinement of Component.                                            *)
(***************************************************************************)

(* What is sent, on each pipe, answers a number of the inputs given, and no *)
(* more of them than are answered on the pipes before.                      *)
Answers ==
  /\ sent \in [Outs -> Seq(Value)] /\ given \in Nat
  /\ \A p \in Outs : Len(sent[p]) \in 0 .. given /\ sent[p] = Ideal(Len(sent[p]))
  /\ \A p, q \in Outs : p < q => Len(sent[q]) <= Len(sent[p])

LEMMA SafeAnswers == Safe => Answers
<1> SUFFICES ASSUME Safe PROVE Answers
  OBVIOUS
<1>1. /\ conf \in Configs /\ sent \in [Outs -> Seq(Value)]
      /\ given \in Nat /\ Len(extin) \in Nat /\ Outs \subseteq Nat
  <2>1. /\ conf \in Configs /\ sent \in [Outs -> Seq(Value)] /\ given \in Nat /\ extin \in Seq(Msg)
    BY TypeParts, BoundAssumption DEF Safe, Inv, PipesTyped, BoundsTyped
  <2> QED BY <2>1, ConfTyped, LenProperties DEF Outs
<1>2. PICK r \in Reps : ~(pc = "accept" /\ r = job.ee)
  <2>1. job.er \in Reps /\ (pc = "accept" => job.ee # job.er)
    BY TypeParts DEF Safe, Inv, VoterTyped, Jobs
  <2> QED BY <2>1
<1>3. ASSUME NEW p \in Outs PROVE Len(sent[p]) \in 0 .. given
  <2> DEFINE s == sent[p]
             v == vot[p][r].q
             o == outq[p][r]
             w == Owed(work[r], p)
             i == inq[r]
             t == Stolen(r)
  <2>1. Chain(s, v, o, w, i, t, Total)
    BY <1>2 DEF Safe, InChain
  <2> HIDE DEF s, v, o, w, i, t
  <2>2. /\ Len(s) \in Nat /\ Len(v) \in Nat /\ Len(o) \in Nat
        /\ Len(w) \in Nat /\ Len(i) \in Nat /\ Len(t) \in Nat
        /\ Total = Len(s) + Len(v) + Len(o) + Len(w) + Len(i) + Len(t)
    BY <2>1, ChainLen
  <2>3. Len(s) \in 0 .. given
    BY <1>1, <2>2 DEF Total
  <2> QED BY <2>3 DEF s
<1>4. \A p, q \in Outs : p < q => Len(sent[q]) <= Len(sent[p])
  BY <1>1 DEF Safe, PipeByPipe
<1>5. \A p \in Outs : sent[p] = Ideal(Len(sent[p]))
  BY SafeMasked DEF Masked
<1> QED BY <1>1, <1>3, <1>4, <1>5 DEF Answers

(* Two sequences follow each other. *)
LEMMA Longer ==
  ASSUME NEW T, NEW a \in Seq(T), NEW b \in Seq(T)
  PROVE  Len(a) <= Len(a \o b)
BY ConcatProperties, LenProperties

(* What is sent stays sent. *)
LEMMA SentGrows ==
  ASSUME Safe, VotesFit, conf' = conf, FromRep \/ HandOver, NEW q \in Outs
  PROVE  Len(sent[q]) <= Len(sent'[q])
<1>1. /\ conf \in Configs /\ vot \in Votes /\ job.er \in Reps /\ job.ee \in Reps
      /\ sent \in [Outs -> Seq(Value)] /\ outq \in [Outs -> [Reps -> Seq(Value)]]
  BY TypeParts DEF Safe, Inv, VoterTyped, PipesTyped
<1>2. \A v \in Votes, p \in Outs, t \in Reps : SendPipe(v, p, t).out \in Seq(Value)
  BY <1>1, SendPipeTyped
<1>3. sent[q] \in Seq(Value) /\ Len(sent[q]) \in Nat
  BY <1>1, LenProperties
<1>4. CASE HandOver
  <2> DEFINE v == CopyVotes(vot, job.ee, job.er)
  <2>1. sent'[q] = sent[q] \o SendPipe(v, q, job.er).out
    BY <1>4 DEF HandOver
  <2>2. v \in Votes
    BY <1>1 DEF CopyVotes, Votes
  <2> QED BY <1>1, <1>2, <1>3, <2>1, <2>2, Longer
<1>5. CASE FromRep
  <2>1. CASE UNCHANGED sent
    BY <1>3, <2>1
  <2>2. ASSUME NEW v \in Votes, NEW p \in Outs, NEW t \in Reps,
               sent' = [sent EXCEPT ![p] = sent[p] \o SendPipe(v, p, t).out]
        PROVE  Len(sent[q]) <= Len(sent'[q])
    <3>1. CASE q = p
      BY <1>1, <1>2, <1>3, <2>2, <3>1, Longer
    <3>2. CASE q # p
      BY <1>1, <1>3, <2>2, <3>2
    <3> QED BY <3>1, <3>2
  <2>3. PICK p \in Outs, r \in Reps, v \in Votes :
          /\ pc = "rep" /\ <<p, r>> \in Full /\ \A x \in Full : p <= x[1]
          /\ v[p][r].q = vot[p][r].q \o outq[p][r] /\ v[p][r].index = vot[p][r].index
          /\ \A z \in Outs, s \in Reps : ~(z = p /\ s = r) => v[z][s] = vot[z][s]
          /\ outq'[p][r] = <<>>
          /\ \A z \in Outs, s \in Reps : ~(z = p /\ s = r) => outq'[z][s] = outq[z][s]
          /\ ready'.rep = Full \ {<<p, r>>}
          /\ UNCHANGED <<extin, inq, status, work, sdc, child, given>>
          /\ \/ /\ checkSDC(v, p).do = "wait" /\ vot' = v
                /\ pc' = IF Full \ {<<p, r>>} = {} THEN "top" ELSE "rep"
                /\ UNCHANGED <<timer, sent, job>>
             \/ /\ checkSDC(v, p).do = "send"
                /\ vot' = SendPipe(v, p, checkSDC(v, p).rep).vot
                /\ sent' = [sent EXCEPT ![p] = sent[p] \o SendPipe(v, p, checkSDC(v, p).rep).out]
                /\ timer' = (timer /\ p # conf.TimerStop)
                /\ pc' = IF Full \ {<<p, r>>} = {} THEN "top" ELSE "rep"
                /\ UNCHANGED job
             \/ /\ checkSDC(v, p).do = "restart" /\ vot' = v /\ pc' = "steal"
                /\ job' = [ee |-> checkSDC(v, p).ee, er |-> checkSDC(v, p).er, stolen |-> <<>>,
                           ret |-> IF Full \ {<<p, r>>} = {} THEN "top" ELSE "rep"]
                /\ UNCHANGED <<timer, sent>>
    BY <1>5, Collected
  <2>4. UNCHANGED sent \/ \E t \in Reps :
          sent' = [sent EXCEPT ![p] = sent[p] \o SendPipe(v, p, t).out]
    <3>1. checkSDC(v, p).do = "send" => checkSDC(v, p).rep \in Reps
      BY <1>1, VerdictTyped DEF Wait, SendOf, RestartOf
    <3> QED BY <2>3, <3>1
  <2>5. CASE ~UNCHANGED sent
    <3>1. PICK t \in Reps : sent' = [sent EXCEPT ![p] = sent[p] \o SendPipe(v, p, t).out]
      BY <2>4, <2>5
    <3> QED BY <2>2, <3>1
  <2> QED BY <2>1, <2>5
<1> QED BY <1>4, <1>5

(* Every step of the voter, its replicas and the upsets is a step of a *)
(* component that does not fail, or none.                              *)
LEMMA ReliableStep ==
  ASSUME Safe, Sized, Answers, Answers', [Next]_vars
  PROVE  [Reliable!Ask \/ Reliable!Answer]_<<given, sent>>
<1>1. conf' = conf
  BY DEF Next, vars
<1>2. CASE UNCHANGED <<given, sent>>
  BY <1>2
<1>3. CASE EnvSend
  BY <1>3 DEF EnvSend, Reliable!Ask
<1>4. CASE FromRep \/ HandOver
  <2> DEFINE n == [p \in Outs |-> Len(sent'[p])]
  <2>1. /\ DOMAIN sent = Outs /\ Outs' = Outs /\ given' = given
        /\ sent' = [p \in Outs |-> sent'[p]]
    BY <1>1, <1>4, ConfKept, Zenon DEF Answers, FromRep, HandOver, bounds
  <2>2. n \in [Outs -> 0 .. given]
    BY <2>1 DEF Answers
  <2>3. \A p \in Outs : Len(sent[p]) <= n[p]
    BY <1>1, <1>4, Fits, SentGrows
  <2>4. \A p, q \in Outs : p < q => n[q] <= n[p]
    BY <2>1 DEF Answers
  <2>5. \A p \in Outs : sent'[p] = Reliable!Outputs(n[p])
    BY <2>1 DEF Answers, Ideal, Reliable!Outputs
  <2>6. sent' = [p \in Outs |-> Reliable!Outputs(n[p])]
    BY <2>1, <2>5
  <2> HIDE DEF n
  <2>7. Reliable!Answer
    BY <2>1, <2>2, <2>3, <2>4, <2>6 DEF Reliable!Answer
  <2> QED BY <2>7
<1>5. EnvSend \/ FromRep \/ HandOver \/ UNCHANGED <<given, sent>>
  BY Zenon DEF Next, Step, vars, pipeVars, bounds, RepRead, RepWrite, Fork, Resume, Crash, Hang,
         Corrupt, Upset, Expire, Select, ReadExt, Steal, cleanupReplica, createPipes
<1> QED BY <1>2, <1>3, <1>4, <1>5

(***************************************************************************)
(* For the groups of UpsetsMasked voterd.c and its two or three replicas   *)
(* implement one component that does not fail: through any upset, early    *)
(* expiry and restart, the components at the far ends of the pipes see     *)
(* output k for input k, in order, pipe by pipe, and never one taken back. *)
(***************************************************************************)
THEOREM VoterIsReliable == Spec /\ Sized => DoesNotFail
<1>1. Init => Reliable!Init
  BY DEF Init, Reliable!Init
<1>2. Sized /\ [Next]_vars => Sized'
  BY DEF Next, vars, Sized, Guarded
<1>3. Safe /\ Sized /\ Answers /\ Answers' /\ [Next]_vars => [Reliable!Ask \/ Reliable!Answer]_<<given, sent>>
  BY ReliableStep
<1> QED BY <1>1, <1>2, <1>3, SafeAnswers, SizedHolds, PTL DEF Spec, DoesNotFail, Reliable!Spec

-----------------------------------------------------------------------------
(***************************************************************************)
(* Who is restarted.  One replica at most has failed, and a restart that   *)
(* has begun replaces it.                                                  *)
(***************************************************************************)
OneFailed ==
  /\ \A r, s \in Reps : status[r] = "ok" \/ status[s] = "ok" \/ r = s
  /\ Restarting => \A r \in Reps : status[r] = "ok" \/ r = job.ee
  /\ child # NoChild => child.status = "ok"

(* While the watchdog of a voter with real time replicas runs, the priorities *)
(* on record are those that balanceReps finds for the votes now there.        *)
Spread ==
  conf.RealTime /\ timer /\ ~Restarting =>
    \A r \in Reps : status[r] = "dead" \/ prio[r] = balanceReps(Counts(vot), rep_count)[r]

(* And while a replica spins, they are those the scheduler uses. *)
Spinning == (\E r \in Reps : status[r] = "hung") /\ ~Restarting => handler = {} /\ sched = prio

FailedFound == OneFailed /\ Spread /\ Spinning

(* A controller owes a pipe one message at most. *)
LEMMA OwedOne ==
  ASSUME conf \in Configs, NEW w \in Seq(Output), Lined(w), NEW p \in Outs
  PROVE  Len(Owed(w, p)) <= 1
<1> DEFINE x == w[p - (conf.NOut - Len(w))].val
           n == Len(Owed(w, p))
<1>1. Owed(w, p) = <<>> \/ Owed(w, p) = <<x>>
  BY OwedPlace
<1>2. Len(<<>>) = 0 /\ Len(<<x>>) = 1
  OBVIOUS
<1>3. n = 0 \/ n = 1
  <2> HIDE DEF x
  <2> QED BY <1>1, <1>2, Zenon
<1> HIDE DEF n
<1>4. n <= 1
  BY <1>3
<1> QED BY <1>4 DEF n

(* With nothing left to read, a replica has its votes, owes at most one message *)
(* to a pipe, to the last if to any, and has the rest in its input pipe.        *)
LEMMA Backlog ==
  ASSUME Safe, ~Restarting, Full = {}, NEW r \in Reps, NEW p \in Outs
  PROVE  /\ Counts(vot)[p][r] \in Nat /\ Len(inq[r]) \in Nat /\ Len(sent[p]) \in Nat
         /\ Len(Owed(work[r], p)) \in Nat /\ Len(Owed(work[r], conf.NOut)) \in Nat
         /\ Len(Owed(work[r], p)) <= Len(Owed(work[r], conf.NOut))
         /\ Len(Owed(work[r], conf.NOut)) <= 1
         /\ Total = Len(sent[p]) + Counts(vot)[p][r] + Len(Owed(work[r], p)) + Len(inq[r])
<1>1. conf \in Configs /\ conf.NOut \in Outs /\ work[r] \in Seq(Output) /\ Lined(work[r])
  BY ReplicaTyped, ConfTyped DEF Outs
<1>2. /\ Len(Owed(work[r], p)) <= Len(Owed(work[r], conf.NOut))
      /\ Len(Owed(work[r], conf.NOut)) <= 1 /\ Len(Owed(work[r], conf.NOut)) \in Nat
  <2>1. p <= conf.NOut
    BY <1>1, ConfTyped DEF Outs
  <2> QED BY <1>1, <2>1, OwedOrder, OwedOne
<1> DEFINE a == Len(sent[p])
           v == Len(vot[p][r].q)
           o == Len(outq[p][r])
           w == Len(Owed(work[r], p))
           i == Len(inq[r])
<1>3. a \in Nat /\ v \in Nat /\ w \in Nat /\ i \in Nat /\ Total = a + v + o + w + i
  BY ChainOf
<1>4. o = 0
  BY EmptyFull
<1>5. Counts(vot)[p][r] = v
  BY DEF Counts
<1>6. Total = a + v + w + i
  <2> HIDE DEF a, v, o, w, i
  <2> QED BY <1>3, <1>4
<1> QED BY <1>2, <1>3, <1>5, <1>6

(* When no replica answers: a healthy one that is not kept from the CPU has sent *)
(* all its votes, and is behind none.                                            *)
LEMMA NoneBefore ==
  ASSUME Safe, ~Restarting, Full = {}, NEW s \in Reps, work[s] = <<>>, inq[s] = <<>>,
         NEW r \in Reps, NEW p \in Outs
  PROVE  Counts(vot)[p][r] <= Counts(vot)[p][s]
<1> DEFINE a == Len(sent[p])
           v(t) == Counts(vot)[p][t]
           w(t) == Len(Owed(work[t], p))
           i(t) == Len(inq[t])
<1>1. ASSUME NEW t \in Reps
      PROVE  /\ a \in Nat /\ v(t) \in Nat /\ w(t) \in Nat /\ i(t) \in Nat
             /\ Total = a + v(t) + w(t) + i(t)
  BY Backlog
<1>2. w(s) = 0 /\ i(s) = 0
  BY OwedNone
<1> HIDE DEF a, v, w, i
<1>3. v(r) <= v(s)
  BY <1>1, <1>2
<1> QED BY <1>3 DEF v

(* A replica with no votes on the last pipe has fewer on none than one with votes *)
(* there has: outputs are written pipe by pipe.                                   *)
LEMMA NoneAfter ==
  ASSUME Safe, ~Restarting, Full = {}, NEW r \in Reps, NEW s \in Reps,
         Counts(vot)[conf.NOut][r] = 0, Counts(vot)[conf.NOut][s] # 0, NEW p \in Outs
  PROVE  Counts(vot)[p][r] <= Counts(vot)[p][s]
<1> DEFINE N == conf.NOut
           a(q) == Len(sent[q])
           v(q, t) == Counts(vot)[q][t]
           w(q, t) == Len(Owed(work[t], q))
           i(t) == Len(inq[t])
<1>1. N \in Outs
  BY ReplicaTyped, ConfTyped DEF Outs
<1>2. ASSUME NEW t \in Reps, NEW q \in Outs
      PROVE  /\ a(q) \in Nat /\ v(q, t) \in Nat /\ w(q, t) \in Nat /\ i(t) \in Nat
             /\ w(q, t) <= w(N, t) /\ w(N, t) <= 1
             /\ Total = a(q) + v(q, t) + w(q, t) + i(t)
  BY Backlog
<1>3. v(N, r) = 0 /\ v(N, s) # 0
  OBVIOUS
<1> HIDE DEF N, a, v, w, i
<1>4. /\ a(N) \in Nat /\ v(N, r) \in Nat /\ w(N, r) \in Nat /\ i(r) \in Nat /\ w(N, r) <= 1
      /\ v(N, s) \in Nat /\ w(N, s) \in Nat /\ i(s) \in Nat
      /\ Total = a(N) + v(N, r) + w(N, r) + i(r) /\ Total = a(N) + v(N, s) + w(N, s) + i(s)
  BY <1>1, <1>2
<1>5. /\ a(p) \in Nat /\ v(p, r) \in Nat /\ w(p, r) \in Nat
      /\ v(p, s) \in Nat /\ w(p, s) \in Nat /\ w(p, s) <= w(N, s)
      /\ Total = a(p) + v(p, r) + w(p, r) + i(r) /\ Total = a(p) + v(p, s) + w(p, s) + i(s)
  BY <1>2
<1>6. w(N, s) + i(s) <= i(r)
  BY <1>3, <1>4
<1>7. v(p, r) <= v(p, s)
  BY <1>4, <1>5, <1>6
<1> QED BY <1>7 DEF v

(* The one behind on the timed pipe, when all that can have answered, is the  *)
(* one that has failed.  A replica that spins may keep healthy ones of lower  *)
(* priority from the CPU, and they are behind as well.  If it has votes there *)
(* itself, it is not among the furthest behind over all pipes; but the        *)
(* replica with the highest priority is, and has answered.                    *)
LEMMA ExpiryFindsFailed ==
  ASSUME Safe, Sized, FailedFound, Expire, NEW r \in Reps
  PROVE  status[r] = "ok" \/ r = job'.ee
<1>1. timer /\ pc \in {"top", "wait"} /\ (Healthy \/ ~Answering) /\ ~Restarting
  BY DEF Expire, Restarting
<1>2. CASE Healthy
  BY <1>2 DEF Healthy
<1>3. CASE ~Answering
  <2> DEFINE N == conf.NOut
             c == Counts(vot)
             ee == behindRep(c[N], prio)
             beta == balanceReps(c, rep_count)
  <2>1. N \in Outs /\ conf.TimerStop = N /\ conf \in Configs
    BY ReplicaTyped, ConfTyped DEF Sized, Outs
  <2>2. /\ vot \in Votes /\ c \in [Outs -> [Reps -> Nat]] /\ prio \in [Reps -> 0 .. 2]
        /\ status \in [Reps -> {"ok", "hung", "dead"}] /\ beta \in [Reps -> 0 .. 2]
    <3>1. vot \in Votes /\ prio \in [Reps -> 0 .. 2] /\ status \in [Reps -> {"ok", "hung", "dead"}]
      BY TypeParts DEF Safe, Inv, VoterTyped, RepsTyped
    <3>2. c \in [Outs -> [Reps -> Nat]]
      BY <3>1 DEF Counts, Votes, Buff
    <3> QED BY <3>1, <3>2, BalanceTyped
  <2>3. /\ ee \in Reps /\ \A s \in Reps : c[N][ee] <= c[N][s]
        /\ \A s \in Reps : c[N][s] = c[N][ee] => prio[s] <= prio[ee]
    BY <2>1, <2>2, BehindRepTyped
  <2>4. job'.ee = ee
    BY <2>1 DEF Expire, voterRestartHandler
  <2> HIDE DEF ee
  <2>5. \A t \in Reps : status[t] = "ok" /\ ~Starved(t) => work[t] = <<>> /\ inq[t] = <<>>
    BY <1>3 DEF Answering, Working
  <2>6. Full = {}
    BY <1>3 DEF Answering, SelectSet, Full
  <2>7. ASSUME NEW t \in Reps, status[t] = "ok", ~Starved(t) PROVE 0 < c[N][t]
    <3> DEFINE a == Len(sent[N])
               v == c[N][t]
               w == Len(Owed(work[t], N))
               i == Len(inq[t])
    <3>1. a \in Nat /\ v \in Nat /\ Total = a + v + w + i
      BY <1>1, <2>1, <2>6, Backlog
    <3>2. w = 0 /\ i = 0
      BY <2>5, <2>7, OwedNone
    <3>3. a < Total
      BY <1>1, <2>1 DEF Safe, Due
    <3>4. 0 < v
      <4> HIDE DEF a, v, w, i
      <4> QED BY <3>1, <3>2, <3>3
    <3> QED BY <3>4
  <2>8. c[N][ee] = 0
    <3>1. PICK s \in Reps : vot[N][s].q = <<>>
      BY <1>1, <2>1 DEF Safe, NoneReady
    <3>2. c[N][s] = 0
      BY <2>1, <3>1 DEF Counts
    <3>3. c[N][ee] \in Nat /\ c[N][ee] <= c[N][s]
      BY <2>1, <2>2, <2>3
    <3> QED BY <3>2, <3>3
  <2>9. ASSUME status[ee] = "ok" PROVE FALSE
    <3>1. Starved(ee)
      <4>1. ~(0 < c[N][ee])
        BY <2>8
      <4> QED BY <2>3, <2>7, <2>9, <4>1
    <3>2. PICK h \in Reps : status[h] = "hung" /\ sched[h] > sched[ee] /\ conf.RealTime
      BY <3>1 DEF Starved
    <3>3. \A t \in Reps \ {h} : status[t] = "ok"
      BY <3>2 DEF FailedFound, OneFailed
    <3>4. sched = prio /\ \A t \in Reps : prio[t] = beta[t]
      <4>1. sched = prio
        BY <1>1, <3>2 DEF FailedFound, Spinning
      <4>2. \A t \in Reps : status[t] = "dead" \/ prio[t] = beta[t]
        BY <1>1, <3>2 DEF FailedFound, Spread
      <4>3. \A t \in Reps : status[t] # "dead"
        BY <3>2, <3>3
      <4> QED BY <4>1, <4>2, <4>3
    <3> HIDE DEF beta
    <3>5. prio[h] > prio[ee] /\ prio[h] \in 0 .. 2 /\ prio[ee] \in 0 .. 2
      BY <2>2, <2>3, <3>2, <3>4
    <3>6. c[N][h] # 0
      BY <2>3, <2>8, <3>5
    <3> HIDE DEF c, N
    <3>7. rep_gap(c, h) < rep_gap(c, ee)
      <4>1. \A p \in Outs : c[p][ee] <= c[p][h]
        BY <1>1, <2>3, <2>6, <2>8, <3>6, NoneAfter DEF c, N
      <4>2. c[N][ee] < c[N][h]
        BY <2>1, <2>2, <2>3, <2>8, <3>6
      <4> QED BY <2>1, <2>2, <2>3, <4>1, <4>2, GapGrows DEF N
    <3>8. PICK s \in Reps : beta[s] = 2 /\ s \in Furthest(c)
      BY <2>1, <2>2, BalanceFirst DEF beta
    <3>9. rep_gap(c, ee) <= rep_gap(c, s)
      BY <2>3, <3>8 DEF Furthest
    <3>10. \A t \in Reps : rep_gap(c, t) \in Int
      BY <2>1, <2>2, GapTyped
    <3>11. s # h /\ s # ee
      BY <2>3, <3>4, <3>5, <3>7, <3>8, <3>9, <3>10
    <3>12. status[s] = "ok" /\ ~Starved(s)
      <4>1. \A t \in Reps : ~(sched[t] > sched[s])
        BY <2>2, <3>4, <3>8
      <4> QED BY <3>3, <3>8, <3>11, <4>1 DEF Starved
    <3>13. rep_gap(c, s) < rep_gap(c, ee)
      <4>1. \A p \in Outs : c[p][ee] <= c[p][s]
        BY <1>1, <2>3, <2>5, <2>6, <3>12, NoneBefore DEF c
      <4>2. c[N][ee] < c[N][s]
        BY <2>7, <2>8, <3>12
      <4> QED BY <2>1, <2>2, <2>3, <4>1, <4>2, GapGrows DEF N
    <3> QED BY <2>3, <3>9, <3>10, <3>13
  <2> QED BY <2>3, <2>4, <2>9 DEF FailedFound, OneFailed
<1> QED BY <1>1, <1>2, <1>3

(* Setting priorities when no replica is dead sets those of all. *)
LEMMA PrioritiesSet ==
  ASSUME NEW wanted \in [Reps -> 0 .. 2], SetPriorities(status, wanted), conf' = conf
  PROVE  /\ \A r \in Reps : status[r] = "dead" \/ prio'[r] = wanted[r]
         /\ (\A r \in Reps : status[r] # "dead") => sched' = prio'
<1>1. PICK stuck \in SUBSET {r \in Reps : status[r] = "dead"} :
        prio' = [r \in Reps |-> IF r \in stuck THEN prio[r] ELSE wanted[r]]
  BY DEF SetPriorities
<1>2. ASSUME NEW r \in Reps PROVE status[r] = "dead" \/ prio'[r] = wanted[r]
  BY <1>1
<1>3. ASSUME \A r \in Reps : status[r] # "dead" PROVE sched' = prio'
  <2>1. \A r \in Reps : prio'[r] = wanted[r]
    BY <1>2, <1>3
  <2>2. prio' = wanted
    BY <1>1, <2>1
  <2> QED BY <2>2 DEF SetPriorities
<1> QED BY <1>2, <1>3

(* After a step of the voter that balances, both hold. *)
LEMMA BalancedKeeps ==
  ASSUME OneFailed, Spinning, ~Restarting, conf' = conf, UNCHANGED <<status, handler>>,
         SetPriorities(status, balanceReps(Counts(vot'), rep_count))
  PROVE  Spread' /\ Spinning'
<1> USE ConfKept
<1>1. /\ \A r \in Reps : status[r] = "dead" \/ prio'[r] = balanceReps(Counts(vot'), rep_count)[r]
      /\ (\A r \in Reps : status[r] # "dead") => sched' = prio'
  BY BalanceTyped, PrioritiesSet
<1>2. balanceReps(Counts(vot), rep_count)' = balanceReps(Counts(vot'), rep_count)
  <2>1. Counts(vot)' = Counts(vot')
    BY DEF Counts
  <2> QED BY <2>1
<1>3. Spread'
  BY <1>1, <1>2 DEF Spread
<1>4. Spinning'
  <2> SUFFICES ASSUME NEW h \in Reps, status[h] = "hung" PROVE handler' = {} /\ sched' = prio'
    BY DEF Spinning
  <2>1. \A t \in Reps : status[t] # "dead"
    <3>1. \A t \in Reps : status[t] = "ok" \/ t = h
      BY DEF OneFailed
    <3> QED BY <3>1
  <2>2. handler = {}
    BY DEF Spinning
  <2> QED BY <1>1, <2>1, <2>2
<1> QED BY <1>3, <1>4

(* After a restart no watchdog runs, and all live. *)
LEMMA HandOverHeals ==
  ASSUME Safe, OneFailed, HandOver, conf' = conf
  PROVE  /\ ~timer' /\ pc' # "accept" /\ pc' # "steal" /\ child' = NoChild
         /\ \A r \in Reps : status'[r] = "ok"
<1>1. /\ pc = "accept" /\ pc' = job.ret /\ job.ret \in {"select", "top", "rep"} /\ child' = NoChild
      /\ job.ee \in Reps /\ status' = [status EXCEPT ![job.ee] = child.status]
      /\ child # NoChild /\ timer' = timer /\ status \in [Reps -> {"ok", "hung", "dead"}]
  BY TypeParts DEF HandOver, Safe, Inv, VoterTyped, RepsTyped
<1>2. ~timer
  BY <1>1 DEF Safe, Accepting
<1>3. \A r \in Reps : status[r] = "ok" \/ r = job.ee
  BY <1>1 DEF OneFailed, Restarting
<1>4. child.status = "ok"
  BY <1>1 DEF OneFailed
<1>5. \A r \in Reps : status'[r] = "ok"
  BY <1>1, <1>3, <1>4
<1> QED BY <1>1, <1>2, <1>5

(* Every step keeps it that one replica at most has failed, and that a restart *)
(* replaces it.                                                                *)
LEMMA OneFailedStep ==
  ASSUME Safe, Sized, FailedFound, [Next]_vars
  PROVE  OneFailed'
<1> USE ConfKept
<1>0. /\ conf' = conf /\ conf \in Configs /\ status \in [Reps -> {"ok", "hung", "dead"}]
      /\ Inv' /\ pc \in {"top", "select", "wait", "ext", "rep", "steal", "accept"}
  BY InvStep, TypeParts DEF Next, vars, Safe, Inv, VoterTyped, RepsTyped
<1>1. ASSUME UNCHANGED <<status, child, job, pc>> PROVE OneFailed'
  BY <1>0, <1>1 DEF FailedFound, OneFailed, Restarting
<1>2. ASSUME UNCHANGED <<status, child>>, ~Restarting' PROVE OneFailed'
  BY <1>0, <1>2 DEF FailedFound, OneFailed
<1>3. CASE UNCHANGED vars
  BY <1>1, <1>3 DEF vars, voterVars, repVars
<1>4. CASE EnvSend
  BY <1>1, <1>4 DEF EnvSend, voterVars, repVars
<1>5. CASE \E r \in Reps : RepRead(r) \/ RepWrite(r) \/ Resume(r) \/ Corrupt(r)
  BY <1>1, <1>5 DEF RepRead, RepWrite, Resume, Corrupt, voterVars
<1>6. CASE Fork
  <2>1. /\ pc = "accept" /\ job.er # job.ee /\ job.er \in Reps
        /\ child'.status = status[job.er] /\ UNCHANGED <<status, job, pc>>
    BY <1>6, TypeParts DEF Fork, Signalled, voterVars, Safe, Inv, Jobs, VoterTyped
  <2>2. status[job.er] = "ok"
    BY <2>1 DEF FailedFound, OneFailed, Restarting
  <2> QED BY <1>0, <2>1, <2>2 DEF FailedFound, OneFailed, Restarting
<1>7. ASSUME NEW r \in Reps, Crash(r) \/ Hang(r) PROVE OneFailed'
  <2>1. /\ \A s \in Reps : status[s] = "ok"
        /\ ~Restarting /\ UNCHANGED <<job, pc, child>>
        /\ \/ status' = [status EXCEPT ![r] = "dead"]
           \/ status' = [status EXCEPT ![r] = "hung"]
    BY <1>7 DEF Crash, Hang, Upset, Recovered, Healthy, voterVars
  <2>2. \A s \in Reps \ {r} : status'[s] = "ok"
    BY <1>0, <2>1
  <2> QED BY <1>0, <2>1, <2>2 DEF FailedFound, OneFailed, Restarting
<1>8. CASE Expire
  <2>1. \A r \in Reps : status[r] = "ok" \/ r = job'.ee
    BY <1>8, ExpiryFindsFailed
  <2>2. UNCHANGED <<status, child>>
    BY <1>8 DEF Expire, repVars
  <2> QED BY <1>0, <2>1, <2>2 DEF FailedFound, OneFailed
<1>9. CASE Select
  BY <1>2, <1>9 DEF Select, repVars, Restarting
<1>10. CASE ReadExt
  BY <1>2, <1>10 DEF ReadExt, Restarting
<1>11. CASE FromRep
  <2>1. UNCHANGED <<status, child>> /\ pc' # "accept"
    BY <1>11, Zenon DEF FromRep
  <2>2. pc' = "steal" => \A s \in Reps : status[s] = "ok"
    <3> SUFFICES ASSUME pc' = "steal" PROVE \A s \in Reps : status[s] = "ok"
      OBVIOUS
    <3>1. PICK t \in Reps : ~Sound(t)
      BY <1>0, <1>11, Fits, SafeFromRep
    <3> QED BY <3>1 DEF Safe, OneWrong
  <2> QED BY <1>0, <2>1, <2>2 DEF FailedFound, OneFailed, Restarting
<1>12. CASE Steal
  <2>1. /\ pc = "steal" /\ pc' = "accept" /\ job'.ee = job.ee /\ job.ee \in Reps /\ child' = child
        /\ status' = [status EXCEPT ![job.ee] = "dead"]
    BY <1>12, TypeParts DEF Steal, cleanupReplica, Safe, Inv, VoterTyped
  <2>2. \A r \in Reps : status[r] = "ok" \/ r = job.ee
    BY <2>1 DEF FailedFound, OneFailed, Restarting
  <2>3. status'[job.ee] = "dead" /\ \A r \in Reps \ {job.ee} : status'[r] = "ok"
    BY <1>0, <2>1, <2>2
  <2> QED BY <1>0, <2>1, <2>3 DEF FailedFound, OneFailed
<1>13. CASE HandOver
  <2>1. /\ pc' # "accept" /\ pc' # "steal" /\ child' = NoChild /\ \A r \in Reps : status'[r] = "ok"
    BY <1>0, <1>13, HandOverHeals DEF FailedFound
  <2> QED BY <1>0, <2>1 DEF OneFailed, Restarting
<1> QED BY <1>3, <1>4, <1>5, <1>6, <1>7, <1>8, <1>9, <1>10, <1>11, <1>12, <1>13 DEF Next, Step

(* And that the priorities are as balanceReps has spread them. *)
LEMMA SpreadStep ==
  ASSUME Safe, Sized, FailedFound, [Next]_vars
  PROVE  Spread' /\ Spinning'
<1> USE ConfKept
<1>0. /\ conf' = conf /\ conf \in Configs /\ status \in [Reps -> {"ok", "hung", "dead"}]
  BY TypeParts DEF Next, vars, Safe, Inv, RepsTyped
<1>1. ASSUME UNCHANGED <<timer, pc, vot, prio, status>> PROVE Spread'
  BY <1>0, <1>1 DEF FailedFound, Spread, Restarting, Counts
<1>2. ASSUME UNCHANGED <<pc, prio, status, sched, handler>> PROVE Spinning'
  BY <1>0, <1>2 DEF FailedFound, Spinning, Restarting
<1>3. CASE UNCHANGED vars
  BY <1>1, <1>2, <1>3 DEF vars, voterVars, repVars
<1>4. CASE EnvSend \/ Fork \/ \E r \in Reps : RepRead(r) \/ RepWrite(r) \/ Corrupt(r)
  <2>1. CASE EnvSend \/ \E r \in Reps : RepRead(r) \/ RepWrite(r) \/ Corrupt(r)
    BY <1>1, <1>2, <2>1, Zenon DEF EnvSend, RepRead, RepWrite, Corrupt, voterVars, repVars
  <2>2. CASE Fork
    <3>1. pc = "accept" /\ UNCHANGED <<pc, timer, vot, prio, status>>
      BY <2>2 DEF Fork, Signalled, voterVars
    <3> QED BY <3>1 DEF Spread, Spinning, Restarting
  <2> QED BY <1>4, <2>1, <2>2
<1>5. ASSUME NEW r \in Reps, Resume(r) PROVE Spread' /\ Spinning'
  <2>1. r \in handler /\ UNCHANGED <<pc, timer, vot, prio, status>>
    BY <1>5 DEF Resume, voterVars
  <2>2. Spinning'
    BY <1>0, <2>1 DEF FailedFound, Spinning, Restarting
  <2> QED BY <1>1, <2>1, <2>2
<1>6. ASSUME NEW r \in Reps, Crash(r) \/ Hang(r) PROVE Spread' /\ Spinning'
  <2>1. /\ handler = {} /\ sched = prio /\ \A s \in Reps : status[s] = "ok"
        /\ UNCHANGED <<pc, timer, vot, prio, sched, handler>>
    BY <1>6 DEF Crash, Hang, Upset, Recovered, Healthy, voterVars
  <2> QED BY <1>0, <2>1 DEF FailedFound, Spread, Spinning, Restarting, Counts
<1>7. CASE Expire \/ Steal
  BY <1>7 DEF Expire, Steal, Spread, Spinning, Restarting
<1>8. CASE Select
  <2>1. /\ UNCHANGED <<vot, prio, status, sched, handler>> /\ pc \in {"top", "select", "wait"}
        /\ timer' = (timer \/ ~(checkSync \/ conf.RealTime))
    BY <1>8 DEF Select, repVars
  <2>2. conf.RealTime /\ timer' => timer
    BY <2>1
  <2> QED BY <1>0, <2>1, <2>2 DEF FailedFound, Spread, Spinning, Restarting, Counts
<1>9. CASE ReadExt
  <2>1. /\ pc = "ext" /\ UNCHANGED <<vot, status, handler>>
        /\ SetPriorities(status, balanceReps(Counts(vot), rep_count))
    BY <1>9 DEF ReadExt, processData
  <2> QED BY <1>0, <2>1, BalancedKeeps DEF FailedFound, Restarting
<1>10. CASE FromRep
  <2>1. pc = "rep" /\ UNCHANGED <<status, handler>>
    BY <1>10, Zenon DEF FromRep
  <2>2. SetPriorities(status, balanceReps(Counts(vot'), rep_count))
    BY <1>0, <1>10, Fits, FitsReads, Rebalanced DEF Safe
  <2> QED BY <1>0, <2>1, <2>2, BalancedKeeps DEF FailedFound, Restarting
<1>11. CASE HandOver
  <2>1. ~timer' /\ \A r \in Reps : status'[r] = "ok"
    BY <1>0, <1>11, HandOverHeals DEF FailedFound
  <2> QED BY <1>0, <2>1 DEF Spread, Spinning
<1> QED BY <1>3, <1>4, <1>5, <1>6, <1>7, <1>8, <1>9, <1>10, <1>11 DEF Next, Step

(***************************************************************************)
(* voterRestartHandler and checkSDC restart the replica that has failed,   *)
(* and so never fork from it: for the groups of UpsetsMasked, whichever    *)
(* way it fails, also when it spins at real time priority and keeps        *)
(* healthy ones from answering.                                            *)
(***************************************************************************)
THEOREM FailedIsRestarted == Spec => [](Sized => RestartsTheFailed)
<1> DEFINE J == Sized => FailedFound
<1>1. Init => J
  BY DEF Init, FailedFound, OneFailed, Spread, Spinning, Restarting
<1>2. (Sized => Safe) /\ J /\ [Next]_vars => J'
  <2> SUFFICES ASSUME Sized => Safe, J, [Next]_vars, Sized' PROVE FailedFound'
    OBVIOUS
  <2>1. conf' = conf
    BY DEF Next, vars
  <2>2. Sized
    BY <2>1 DEF Sized, Guarded
  <2> QED BY <2>2, OneFailedStep, SpreadStep DEF FailedFound
<1>3. J => (Sized => RestartsTheFailed)
  BY DEF FailedFound, OneFailed, Restarting, RestartsTheFailed
<1> HIDE DEF J
<1> QED BY <1>1, <1>2, <1>3, SizedHolds, PTL DEF Spec
=============================================================================
