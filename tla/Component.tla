----------------------------- MODULE Component -----------------------------
(***************************************************************************)
(* What a voter and its replicas promise together, to the components at    *)
(* the far ends of their pipes: a controller that does not fail.  It       *)
(* answers input k with output k on every pipe, in order, and writes its   *)
(* outputs pipe by pipe.  No replicas, no votes, no restarts.  Voter       *)
(* (voter/voterd.c) is shown to implement this specification.              *)
(***************************************************************************)
EXTENDS Integers, Sequences

VARIABLES given,   \* the number of inputs it was given
          sent     \* sent[p]: all it has written to outgoing pipe p

Outputs(n) == [k \in 1 .. n |-> k]

Init == given = 0 /\ sent = [p \in DOMAIN sent |-> <<>>]

Ask == given' = given + 1 /\ UNCHANGED sent

\* It answers: any number of messages at once, on one pipe or several, but none
\* on a pipe before the one for the same input on the pipes before.
Answer ==
  /\ \E n \in [DOMAIN sent -> 0 .. given] :
       /\ \A p \in DOMAIN sent : Len(sent[p]) <= n[p]
       /\ \A p, q \in DOMAIN sent : p < q => n[q] <= n[p]
       /\ sent' = [p \in DOMAIN sent |-> Outputs(n[p])]
  /\ UNCHANGED given

Spec == Init /\ [][Ask \/ Answer]_<<given, sent>>
=============================================================================
