-------------------------- MODULE Heartbeat_proofs --------------------------
(***************************************************************************)
(* The exchange of urgent bytes and the single takeover of Heartbeat, for  *)
(* behaviours of any length.  No constant is involved; what the proof adds *)
(* to the model checker is the invariant that says why they hold.          *)
(***************************************************************************)
EXTENDS Heartbeat, SequenceTheorems, TLAPS

(* The stacks there can be. *)
None == <<>>
Alrm == <<"ALRM">>
Urg == <<"URG">>
AlrmUrg == <<"ALRM", "URG">>
UrgAlrm == <<"URG", "ALRM">>

(* Where a handler stands and that it is on the stack say the same. *)
Stacked ==
    /\ alrm = "off" <=> stack \in {None, Urg}
    /\ urg = "off" <=> stack \in {None, Alrm}

(* A request, or the reply to it, is on its way or in a socket. *)
Tokens == request + reply + Holds(oobS) + Holds(oobC)

(***************************************************************************)
(* got_reply is set only when nothing is under way, except between the     *)
(* send and got_reply = 0 of the same handler; a SIGURG has its byte.      *)
(***************************************************************************)
Exchange ==
    /\ Tokens <= 1
    /\ got_reply /\ alrm \notin {"arm", "clear"} => Tokens = 0 /\ urg = "off"
    /\ alrm = "send" => got_reply
    /\ "URG" \in pending => oobC /\ urg = "off"
    /\ urg = "recv" => oobC
    /\ urg = "set" => Tokens = 0 /\ c = "Y"

(* One alarm at a time is counting, pending or handled, and none after the takeover. *)
OneAlarm ==
    /\ "ALRM" \in pending => ~armed
    /\ alrm \in {"test", "send", "arm", "system", "basic"} => ~armed /\ "ALRM" \notin pending
    /\ takeovers # 0 =>
          takeovers = 1 /\ ~armed /\ "ALRM" \notin pending /\ alrm \in {"off", "basic"}

IInv == TypeOK /\ Stacked /\ Exchange /\ OneAlarm

(* Stacks of at most two handlers, and what Append and SubSeq make of them. *)
LEMMA Stacks ==
    ASSUME NEW a, NEW b
    PROVE  /\ Len(<<>>) = 0 /\ Len(<<a>>) = 1 /\ Len(<<a, b>>) = 2
           /\ <<a>>[1] = a /\ <<a, b>>[1] = a /\ <<a, b>>[2] = b
           /\ Append(<<>>, a) = <<a>> /\ Append(<<a>>, b) = <<a, b>>
           /\ SubSeq(<<a>>, 1, 0) = <<>> /\ SubSeq(<<a, b>>, 1, 1) = <<a>>
  <1>1. Len(<<>>) = 0 /\ Len(<<a>>) = 1 /\ Len(<<a, b>>) = 2
    OBVIOUS
  <1>2. <<a>>[1] = a /\ <<a, b>>[1] = a /\ <<a, b>>[2] = b
    OBVIOUS
  <1> DEFINE S == {a, b}
  <1>0. <<>> \in Seq(S) /\ <<a>> \in Seq(S) /\ <<a, b>> \in Seq(S) /\ a \in S /\ b \in S
    OBVIOUS
  <1> HIDE DEF S
  <1>3. Append(<<>>, a) = <<a>> /\ Append(<<a>>, b) = <<a, b>>
    <2>1. Append(<<>>, a) = <<a>>
      <3>1. Append(<<>>, a) \in Seq(S) /\ Len(Append(<<>>, a)) = 1 /\ Append(<<>>, a)[1] = a
        BY <1>0, <1>1, AppendProperties
      <3> QED BY <1>0, <1>1, <1>2, <3>1, SeqEqual
    <2>2. Append(<<a>>, b) = <<a, b>>
      <3>1. /\ Append(<<a>>, b) \in Seq(S) /\ Len(Append(<<a>>, b)) = 2
            /\ Append(<<a>>, b)[1] = a /\ Append(<<a>>, b)[2] = b
        BY <1>0, <1>1, <1>2, AppendProperties
      <3>2. \A i \in 1..2 : Append(<<a>>, b)[i] = <<a, b>>[i]
        BY <1>2, <3>1
      <3> QED BY <1>0, <1>1, <3>1, <3>2, SeqEqual
    <2> QED BY <2>1, <2>2
  <1>4. SubSeq(<<a>>, 1, 0) = <<>>
    OBVIOUS
  <1>5. SubSeq(<<a, b>>, 1, 1) = <<a>>
    <2>1. \A i \in 1..1 : <<a, b>>[i] \in S
      BY <1>0, <1>2
    <2>2. /\ SubSeq(<<a, b>>, 1, 1) \in Seq(S) /\ Len(SubSeq(<<a, b>>, 1, 1)) = 1
          /\ SubSeq(<<a, b>>, 1, 1)[1] = a
      <3>1. \A i \in 1..1 : SubSeq(<<a, b>>, 1, 1)[i] = <<a, b>>[1 + i - 1]
        BY <2>1, SubSeqProperties
      <3>2. SubSeq(<<a, b>>, 1, 1) \in Seq(S) /\ Len(SubSeq(<<a, b>>, 1, 1)) = 1
        BY <2>1, SubSeqProperties
      <3> QED BY <1>2, <3>1, <3>2
    <2>3. \A i \in 1..1 : SubSeq(<<a, b>>, 1, 1)[i] = <<a>>[i]
      BY <1>2, <2>2
    <2> HIDE DEF S
    <2> QED BY <1>0, <1>1, <2>2, <2>3, SeqEqual
  <1> QED BY <1>1, <1>2, <1>3, <1>4, <1>5

(* The five stacks are five different sequences. *)
LEMMA Distinct ==
    /\ None # Alrm /\ None # Urg /\ None # AlrmUrg /\ None # UrgAlrm
    /\ Alrm # Urg /\ Alrm # AlrmUrg /\ Alrm # UrgAlrm
    /\ Urg # AlrmUrg /\ Urg # UrgAlrm /\ AlrmUrg # UrgAlrm
  BY Stacks DEF None, Alrm, Urg, AlrmUrg, UrgAlrm

(* What is on top of a stack, and what is left when it returns. *)
StackView ==
    /\ stack \in {None, Alrm, Urg, AlrmUrg, UrgAlrm}
    /\ Top = "ALRM" <=> stack \in {Alrm, UrgAlrm}
    /\ Top = "URG" <=> stack \in {Urg, AlrmUrg}
    /\ Return => /\ stack \in {Alrm, Urg} => stack' = None
                 /\ stack = AlrmUrg => stack' = Alrm
                 /\ stack = UrgAlrm => stack' = Urg

(* The stacks TypeOK allows have the view that the steps below use. *)
LEMMA StackFacts ==
    ASSUME TypeOK
    PROVE  StackView
  <1> USE DEF StackView
  <1>0. stack \in {None, Alrm, Urg, AlrmUrg, UrgAlrm}
    BY DEF TypeOK, None, Alrm, Urg, AlrmUrg, UrgAlrm
  <1>1. CASE stack = None
    BY <1>1, Distinct DEF Top, None
  <1>2. CASE stack = Alrm
    <2>1. stack # <<>> /\ Len(stack) = 1 /\ stack[1] = "ALRM"
      BY <1>2, Stacks, Distinct DEF Alrm, None
    <2>2. Top = "ALRM"
      BY <2>1 DEF Top
    <2>3. Return => stack' = None
      BY <1>2, <2>1, Stacks DEF Return, Alrm, None
    <2> QED BY <1>2, <2>2, <2>3, Distinct
  <1>3. CASE stack = Urg
    <2>1. stack # <<>> /\ Len(stack) = 1 /\ stack[1] = "URG"
      BY <1>3, Stacks, Distinct DEF Urg, None
    <2>2. Top = "URG"
      BY <2>1 DEF Top
    <2>3. Return => stack' = None
      BY <1>3, <2>1, Stacks DEF Return, Urg, None
    <2> QED BY <1>3, <2>2, <2>3, Distinct
  <1>4. CASE stack = AlrmUrg
    <2>1. stack # <<>> /\ Len(stack) = 2 /\ stack[2] = "URG"
      BY <1>4, Stacks, Distinct DEF AlrmUrg, None
    <2>2. Top = "URG"
      BY <2>1 DEF Top
    <2>3. Return => stack' = Alrm
      BY <1>4, <2>1, Stacks DEF Return, AlrmUrg, Alrm
    <2> QED BY <1>4, <2>2, <2>3, Distinct
  <1>5. CASE stack = UrgAlrm
    <2>1. stack # <<>> /\ Len(stack) = 2 /\ stack[2] = "ALRM"
      BY <1>5, Stacks, Distinct DEF UrgAlrm, None
    <2>2. Top = "ALRM"
      BY <2>1 DEF Top
    <2>3. Return => stack' = Urg
      BY <1>5, <2>1, Stacks DEF Return, UrgAlrm, Urg
    <2> QED BY <1>5, <2>2, <2>3, Distinct
  <1> QED BY <1>0, <1>1, <1>2, <1>3, <1>4, <1>5

(* A delivered signal is put on top of the handler of the other one, or of main. *)
LEMMA DeliverFacts ==
    ASSUME TypeOK, NEW sig \in {"ALRM", "URG"}, Unmasked(sig),
           stack' = Append(stack, sig)
    PROVE  /\ sig = "ALRM" => \/ stack = None /\ stack' = Alrm
                              \/ stack = Urg /\ stack' = UrgAlrm
           /\ sig = "URG" => \/ stack = None /\ stack' = Urg
                             \/ stack = Alrm /\ stack' = AlrmUrg
  <1>0. stack \in {None, Alrm, Urg, AlrmUrg, UrgAlrm}
    BY StackFacts DEF StackView
  <1>1. CASE stack = None
    BY <1>1, Stacks DEF None, Alrm, Urg
  <1>2. CASE stack = Alrm
    <2>1. stack[1] = "ALRM" /\ 1 \in DOMAIN stack
      BY <1>2 DEF Alrm
    <2>2. sig = "URG"
      BY <2>1 DEF Unmasked
    <2> QED BY <1>2, <2>2, Stacks DEF Alrm, AlrmUrg
  <1>3. CASE stack = Urg
    <2>1. stack[1] = "URG" /\ 1 \in DOMAIN stack
      BY <1>3 DEF Urg
    <2>2. sig = "ALRM"
      BY <2>1 DEF Unmasked
    <2> QED BY <1>3, <2>2, Stacks DEF Urg, UrgAlrm
  <1>4. CASE stack = AlrmUrg
    <2>1. stack[1] = "ALRM" /\ stack[2] = "URG" /\ 1 \in DOMAIN stack /\ 2 \in DOMAIN stack
      BY <1>4 DEF AlrmUrg
    <2> QED BY <2>1 DEF Unmasked
  <1>5. CASE stack = UrgAlrm
    <2>1. stack[1] = "URG" /\ stack[2] = "ALRM" /\ 1 \in DOMAIN stack /\ 2 \in DOMAIN stack
      BY <1>5 DEF UrgAlrm
    <2> QED BY <2>1 DEF Unmasked
  <1> QED BY <1>0, <1>1, <1>2, <1>3, <1>4, <1>5

(* Holds counts a truth value. *)
LEMMA HoldsTyped ==
    ASSUME NEW b \in BOOLEAN
    PROVE  Holds(b) \in {0, 1} /\ (b <=> Holds(b) = 1) /\ (~b <=> Holds(b) = 0)
  BY DEF Holds

(* A client that has just connected, with its alarm set, is in the invariant. *)
LEMMA InitEstablishes == Init => IInv
  <1> SUFFICES ASSUME Init PROVE IInv
    OBVIOUS
  <1>1. TypeOK
    BY DEF Init, TypeOK, GotReplyInit
  <1>2. Stacked
    BY DEF Init, Stacked, None, Alrm
  <1>3. Exchange
    BY DEF Init, Exchange, Tokens, Holds, GotReplyInit
  <1>4. OneAlarm
    BY DEF Init, OneAlarm
  <1> QED BY <1>1, <1>2, <1>3, <1>4 DEF IInv

(* The main loop typing a line leaves the exchange alone. *)
LEMMA TypeLineStep ==
    ASSUME IInv, TypeLine
    PROVE  IInv'
  <1> USE DEF TypeLine, mainVars, handlerVars, netVars, auxVars
  <1>1. TypeOK'
    BY Distinct DEF IInv, TypeOK, None, Alrm, Urg, AlrmUrg, UrgAlrm, Running
  <1>2. Stacked'
    BY Distinct DEF IInv, Stacked, TypeOK, Running
  <1>3. Exchange'
    BY HoldsTyped, Distinct DEF IInv, Exchange, Tokens, TypeOK, Stacked, Running
  <1>4. OneAlarm'
    BY Distinct DEF IInv, OneAlarm, TypeOK, Stacked, Running
  <1> QED BY <1>1, <1>2, <1>3, <1>4 DEF IInv

(* The main loop taking an echo, or leaving, leaves the exchange alone. *)
LEMMA RecvStep ==
    ASSUME IInv, Recv
    PROVE  IInv'
  <1> USE DEF Recv, mainVars, handlerVars, netVars, auxVars
  <1>1. TypeOK'
    BY Distinct DEF IInv, TypeOK, None, Alrm, Urg, AlrmUrg, UrgAlrm, Running
  <1>2. Stacked'
    BY Distinct DEF IInv, Stacked, TypeOK, Running
  <1>3. Exchange'
    BY HoldsTyped, Distinct DEF IInv, Exchange, Tokens, TypeOK, Stacked, Running
  <1>4. OneAlarm'
    BY Distinct DEF IInv, OneAlarm, TypeOK, Stacked, Running
  <1> QED BY <1>1, <1>2, <1>3, <1>4 DEF IInv

(* An alarm that goes off was the only one. *)
LEMMA ExpireStep ==
    ASSUME IInv, Expire
    PROVE  IInv'
  <1> USE DEF Expire, mainVars, handlerVars, netVars, auxVars
  <1>1. TypeOK'
    <2>1. UnderWay \in BOOLEAN
      BY DEF UnderWay
    <2>2. late' \in BOOLEAN
      BY <2>1
    <2>3. armed' \in BOOLEAN
      OBVIOUS
    <2> QED BY <2>2, <2>3, Distinct DEF IInv, TypeOK, None, Alrm, Urg, AlrmUrg, UrgAlrm, Running
  <1>2. Stacked'
    BY Distinct DEF IInv, Stacked, TypeOK, Running
  <1>3. Exchange'
    BY HoldsTyped, Distinct DEF IInv, Exchange, Tokens, TypeOK, Stacked, Running
  <1>4. OneAlarm'
    BY Distinct DEF IInv, OneAlarm, TypeOK, Stacked, Running
  <1> QED BY <1>1, <1>2, <1>3, <1>4 DEF IInv

(* SIGALRM comes on top of main or of the SIGURG part. *)
LEMMA DeliverAlrmStep ==
    ASSUME IInv, Deliver("ALRM")
    PROVE  IInv'
  <1> USE DEF Deliver, mainVars, handlerVars, netVars, auxVars
  <1>0. \/ stack = None /\ stack' = Alrm
        \/ stack = Urg /\ stack' = UrgAlrm
    BY DeliverFacts DEF IInv
  <1>1. TypeOK'
    BY <1>0, Distinct DEF IInv, TypeOK, None, Alrm, Urg, AlrmUrg, UrgAlrm, Running
  <1>2. Stacked'
    BY <1>0, Distinct DEF IInv, Stacked, TypeOK, Running
  <1>3. Exchange'
    BY <1>0, HoldsTyped, Distinct DEF IInv, Exchange, Tokens, TypeOK, Stacked, Running
  <1>4. OneAlarm'
    BY <1>0, Distinct DEF IInv, OneAlarm, TypeOK, Stacked, Running
  <1> QED BY <1>1, <1>2, <1>3, <1>4 DEF IInv

(* SIGURG comes on top of main or of the SIGALRM part, and its byte is there. *)
LEMMA DeliverUrgStep ==
    ASSUME IInv, Deliver("URG")
    PROVE  IInv'
  <1> USE DEF Deliver, mainVars, handlerVars, netVars, auxVars
  <1>0. \/ stack = None /\ stack' = Urg
        \/ stack = Alrm /\ stack' = AlrmUrg
    BY DeliverFacts DEF IInv
  <1>1. TypeOK'
    BY <1>0, Distinct DEF IInv, TypeOK, None, Alrm, Urg, AlrmUrg, UrgAlrm, Running
  <1>2. Stacked'
    BY <1>0, Distinct DEF IInv, Stacked, TypeOK, Running
  <1>3. Exchange'
    <2>1. oobC /\ urg = "off"
      BY DEF IInv, Exchange
    <2>2. Tokens' = Tokens /\ Tokens # 0 /\ oobC'
      <3>1. Holds(oobC) = 1 /\ Holds(oobS) \in {0, 1}
        BY <2>1, HoldsTyped DEF Holds, IInv, TypeOK
      <3>2. Tokens' = Tokens
        BY DEF Tokens
      <3>3. request \in Nat /\ reply \in Nat
        BY DEF IInv, TypeOK
      <3>4. Tokens # 0
        BY <3>1, <3>3 DEF Tokens
      <3>5. oobC'
        BY <2>1
      <3> QED BY <3>2, <3>4, <3>5
    <2>3. urg' = "recv" /\ "URG" \notin pending'
      OBVIOUS
    <2> QED BY <2>1, <2>2, <2>3 DEF IInv, Exchange
  <1>4. OneAlarm'
    BY <1>0, Distinct DEF IInv, OneAlarm, TypeOK, Stacked, Running
  <1> QED BY <1>1, <1>2, <1>3, <1>4 DEF IInv

(* The SIGURG part takes the only byte there is. *)
LEMMA RecvOobStep ==
    ASSUME IInv, RecvOob
    PROVE  IInv'
  <1> USE DEF RecvOob, StackView, mainVars, handlerVars, netVars, auxVars
  <1>0. StackView
    BY StackFacts DEF IInv
  <1>1. TypeOK'
    <2>1. oobC' \in BOOLEAN
      BY Zenon DEF IInv, TypeOK
    <2> QED BY <1>0, <2>1, Distinct DEF IInv, TypeOK, None, Alrm, Urg, AlrmUrg, UrgAlrm, Running
  <1>2. Stacked'
    BY <1>0, Distinct DEF IInv, Stacked, TypeOK, Running
  <1>3. Exchange'
    <2>1. oobC /\ c' = "Y" /\ ~oobC'
      BY DEF IInv, Exchange
    <2>2. Holds(oobC) = 1 /\ Holds(oobC)' = 0 /\ Holds(oobS)' = Holds(oobS)
      BY <2>1 DEF Holds
    <2>3. Holds(oobS) \in {0, 1}
      BY HoldsTyped DEF IInv, TypeOK
    <2>4. Tokens <= 1 /\ request \in Nat /\ reply \in Nat
      BY DEF IInv, Exchange, TypeOK
    <2>5. Tokens' = 0
      BY <2>2, <2>3, <2>4 DEF Tokens
    <2>6. "URG" \notin pending' /\ urg' = "set"
      BY DEF IInv, Exchange
    <2>7. got_reply' /\ alrm' \notin {"arm", "clear"} => FALSE
      BY DEF IInv, Exchange
    <2>8. alrm' = "send" => got_reply'
      BY DEF IInv, Exchange
    <2> QED BY <2>1, <2>5, <2>6, <2>7, <2>8 DEF Exchange
  <1>4. OneAlarm'
    BY <1>0, Distinct DEF IInv, OneAlarm, TypeOK, Stacked, Running
  <1> QED BY <1>1, <1>2, <1>3, <1>4 DEF IInv

(* got_reply is set when nothing is under way any more. *)
LEMMA SetReplyStep ==
    ASSUME IInv, SetReply
    PROVE  IInv'
  <1> USE DEF SetReply, IsReply, Return, StackView, mainVars, handlerVars, netVars, auxVars
  <1>0. StackView
    BY StackFacts DEF IInv
  <1>1. TypeOK'
    <2>1. got_reply' \in BOOLEAN /\ answered' \in BOOLEAN
      BY Zenon DEF IInv, TypeOK
    <2> QED BY <1>0, <2>1, Distinct DEF IInv, TypeOK, None, Alrm, Urg, AlrmUrg, UrgAlrm, Running
  <1>2. Stacked'
    BY <1>0, Distinct DEF IInv, Stacked, TypeOK, Running
  <1>3. Exchange'
    BY <1>0, HoldsTyped, Distinct DEF IInv, Exchange, Tokens, TypeOK, Stacked, Running
  <1>4. OneAlarm'
    BY <1>0, Distinct DEF IInv, OneAlarm, TypeOK, Stacked, Running
  <1> QED BY <1>1, <1>2, <1>3, <1>4 DEF IInv

(* A request is sent only if the last one has been answered. *)
LEMMA TestStep ==
    ASSUME IInv, Test
    PROVE  IInv'
  <1> USE DEF Test, AfterTest, StackView, mainVars, handlerVars, netVars, auxVars
  <1>0. StackView
    BY StackFacts DEF IInv
  <1>1. TypeOK'
    BY <1>0, Distinct DEF IInv, TypeOK, None, Alrm, Urg, AlrmUrg, UrgAlrm, Running
  <1>2. Stacked'
    BY <1>0, Distinct DEF IInv, Stacked, TypeOK, Running
  <1>3. Exchange'
    BY <1>0, HoldsTyped, Distinct DEF IInv, Exchange, Tokens, TypeOK, Stacked, Running
  <1>4. OneAlarm'
    BY <1>0, Distinct DEF IInv, OneAlarm, TypeOK, Stacked, Running
  <1> QED BY <1>1, <1>2, <1>3, <1>4 DEF IInv

(* The request sent is the only one under way. *)
LEMMA SendRequestStep ==
    ASSUME IInv, SendRequest
    PROVE  IInv'
  <1> USE DEF SendRequest, StackView, mainVars, handlerVars, netVars, auxVars
  <1>0. StackView
    BY StackFacts DEF IInv
  <1>1. TypeOK'
    <2>1. answered' \in BOOLEAN /\ late' \in BOOLEAN
      BY Zenon DEF IInv, TypeOK
    <2> QED BY <1>0, <2>1, Distinct DEF IInv, TypeOK, None, Alrm, Urg, AlrmUrg, UrgAlrm, Running
  <1>2. Stacked'
    BY <1>0, Distinct DEF IInv, Stacked, TypeOK, Running
  <1>3. Exchange'
    BY <1>0, HoldsTyped, Distinct DEF IInv, Exchange, Tokens, TypeOK, Stacked, Running
  <1>4. OneAlarm'
    BY <1>0, Distinct DEF IInv, OneAlarm, TypeOK, Stacked, Running
  <1> QED BY <1>1, <1>2, <1>3, <1>4 DEF IInv

(* The alarm is set again while none is counting or pending. *)
LEMMA ArmStep ==
    ASSUME IInv, Arm
    PROVE  IInv'
  <1> USE DEF Arm, StackView, mainVars, handlerVars, netVars, auxVars
  <1>0. StackView
    BY StackFacts DEF IInv
  <1>1. TypeOK'
    BY <1>0, Distinct DEF IInv, TypeOK, None, Alrm, Urg, AlrmUrg, UrgAlrm, Running
  <1>2. Stacked'
    BY <1>0, Distinct DEF IInv, Stacked, TypeOK, Running
  <1>3. Exchange'
    BY <1>0, HoldsTyped, Distinct DEF IInv, Exchange, Tokens, TypeOK, Stacked, Running
  <1>4. OneAlarm'
    BY <1>0, Distinct DEF IInv, OneAlarm, TypeOK, Stacked, Running
  <1> QED BY <1>1, <1>2, <1>3, <1>4 DEF IInv

(* got_reply is cleared before the next alarm can test it. *)
LEMMA ClearStep ==
    ASSUME IInv, Clear
    PROVE  IInv'
  <1> USE DEF Clear, Return, StackView, mainVars, handlerVars, netVars, auxVars
  <1>0. StackView
    BY StackFacts DEF IInv
  <1>1. TypeOK'
    <2>1. got_reply' \in BOOLEAN
      BY Zenon DEF IInv, TypeOK
    <2> QED BY <1>0, <2>1, Distinct DEF IInv, TypeOK, None, Alrm, Urg, AlrmUrg, UrgAlrm, Running
  <1>2. Stacked'
    BY <1>0, Distinct DEF IInv, Stacked, TypeOK, Running
  <1>3. Exchange'
    BY <1>0, HoldsTyped, Distinct DEF IInv, Exchange, Tokens, TypeOK, Stacked, Running
  <1>4. OneAlarm'
    BY <1>0, Distinct DEF IInv, OneAlarm, TypeOK, Stacked, Running
  <1> QED BY <1>1, <1>2, <1>3, <1>4 DEF IInv

(* The takeover is started while no alarm is left to start another. *)
LEMMA SystemStep ==
    ASSUME IInv, System
    PROVE  IInv'
  <1> USE DEF System, ArmedAfterTakeover, StackView, mainVars, handlerVars, netVars, auxVars
  <1>0. StackView
    BY StackFacts DEF IInv
  <1>1. TypeOK'
    BY <1>0, Distinct DEF IInv, TypeOK, None, Alrm, Urg, AlrmUrg, UrgAlrm, Running
  <1>2. Stacked'
    BY <1>0, Distinct DEF IInv, Stacked, TypeOK, Running
  <1>3. Exchange'
    BY <1>0, HoldsTyped, Distinct DEF IInv, Exchange, Tokens, TypeOK, Stacked, Running
  <1>4. OneAlarm'
    BY <1>0, Distinct DEF IInv, OneAlarm, TypeOK, Stacked, Running
  <1> QED BY <1>1, <1>2, <1>3, <1>4 DEF IInv

(* The handler returns from system() with the alarm still off. *)
LEMMA BasicFailsStep ==
    ASSUME IInv, BasicFails
    PROVE  IInv'
  <1> USE DEF BasicFails, Return, StackView, mainVars, handlerVars, netVars, auxVars
  <1>0. StackView
    BY StackFacts DEF IInv
  <1>1. TypeOK'
    BY <1>0, Distinct DEF IInv, TypeOK, None, Alrm, Urg, AlrmUrg, UrgAlrm, Running
  <1>2. Stacked'
    BY <1>0, Distinct DEF IInv, Stacked, TypeOK, Running
  <1>3. Exchange'
    BY <1>0, HoldsTyped, Distinct DEF IInv, Exchange, Tokens, TypeOK, Stacked, Running
  <1>4. OneAlarm'
    BY <1>0, Distinct DEF IInv, OneAlarm, TypeOK, Stacked, Running
  <1> QED BY <1>1, <1>2, <1>3, <1>4 DEF IInv

(* The servlet taking over the connection leaves the client alone. *)
LEMMA AcceptStep ==
    ASSUME IInv, Accept
    PROVE  IInv'
  <1> USE DEF Accept, mainVars, handlerVars, netVars, auxVars
  <1>1. TypeOK'
    BY Distinct DEF IInv, TypeOK, None, Alrm, Urg, AlrmUrg, UrgAlrm, Running
  <1>2. Stacked'
    BY Distinct DEF IInv, Stacked, TypeOK, Running
  <1>3. Exchange'
    BY HoldsTyped, Distinct DEF IInv, Exchange, Tokens, TypeOK, Stacked, Running
  <1>4. OneAlarm'
    BY Distinct DEF IInv, OneAlarm, TypeOK, Stacked, Running
  <1> QED BY <1>1, <1>2, <1>3, <1>4 DEF IInv

(* The one request becomes the one byte in the socket of the server. *)
LEMMA RequestArrivesStep ==
    ASSUME IInv, RequestArrives
    PROVE  IInv'
  <1> USE DEF RequestArrives, mainVars, handlerVars, netVars, auxVars
  <1>1. TypeOK'
    BY Distinct DEF IInv, TypeOK, None, Alrm, Urg, AlrmUrg, UrgAlrm, Running
  <1>2. Stacked'
    BY Distinct DEF IInv, Stacked, TypeOK, Running
  <1>3. Exchange'
    <2>1. Tokens <= 1 /\ request \in Nat \ {0} /\ reply \in Nat
      BY DEF IInv, Exchange, TypeOK
    <2>2. Holds(oobS) \in {0, 1} /\ Holds(oobC) \in {0, 1} /\ Holds(oobC)' = Holds(oobC)
      BY HoldsTyped DEF IInv, TypeOK, Holds
    <2>3. Holds(oobS)' \in {0, 1}
      BY DEF Holds
    <2>4. Tokens = 1 /\ Tokens' <= 1
      BY <2>1, <2>2, <2>3 DEF Tokens
    <2>5. ~(got_reply /\ alrm \notin {"arm", "clear"}) /\ urg # "set"
      BY <2>4 DEF IInv, Exchange
    <2> QED BY <2>4, <2>5 DEF IInv, Exchange
  <1>4. OneAlarm'
    BY Distinct DEF IInv, OneAlarm, TypeOK, Stacked, Running
  <1> QED BY <1>1, <1>2, <1>3, <1>4 DEF IInv

(* The one byte in the socket of the server becomes the one reply. *)
LEMMA AnswerStep ==
    ASSUME IInv, Answer
    PROVE  IInv'
  <1> USE DEF Answer, mainVars, handlerVars, netVars, auxVars
  <1>1. TypeOK'
    <2>1. oobS' \in BOOLEAN
      BY Zenon DEF IInv, TypeOK
    <2> QED BY <2>1, Distinct DEF IInv, TypeOK, None, Alrm, Urg, AlrmUrg, UrgAlrm, Running
  <1>2. Stacked'
    BY Distinct DEF IInv, Stacked, TypeOK, Running
  <1>3. Exchange'
    <2>1. Tokens <= 1 /\ request \in Nat /\ reply \in Nat
      BY DEF IInv, Exchange, TypeOK
    <2>2. /\ Holds(oobS) = 1 /\ Holds(oobS)' = 0
          /\ Holds(oobC) \in {0, 1} /\ Holds(oobC)' = Holds(oobC)
      BY HoldsTyped DEF IInv, TypeOK, Holds
    <2>3. Tokens = 1 /\ Tokens' = 1
      <3>1. request' = request /\ reply' = reply + 1
        OBVIOUS
      <3> HIDE DEF Answer
      <3>2. request = 0 /\ reply = 0 /\ Holds(oobC) = 0
        BY <2>1, <2>2 DEF Tokens
      <3> QED BY <2>2, <3>1, <3>2 DEF Tokens
    <2>4. ~(got_reply /\ alrm \notin {"arm", "clear"}) /\ urg # "set"
      BY <2>3 DEF IInv, Exchange
    <2> QED BY <2>3, <2>4 DEF IInv, Exchange
  <1>4. OneAlarm'
    BY Distinct DEF IInv, OneAlarm, TypeOK, Stacked, Running
  <1> QED BY <1>1, <1>2, <1>3, <1>4 DEF IInv

(* The one reply becomes the one byte in the socket of the client, and signals it. *)
LEMMA ReplyArrivesStep ==
    ASSUME IInv, ReplyArrives
    PROVE  IInv'
  <1> USE DEF ReplyArrives, mainVars, handlerVars, netVars, auxVars
  <1>1. TypeOK'
    BY Distinct DEF IInv, TypeOK, None, Alrm, Urg, AlrmUrg, UrgAlrm, Running
  <1>2. Stacked'
    BY Distinct DEF IInv, Stacked, TypeOK, Running
  <1>3. Exchange'
    <2>1. Tokens <= 1 /\ request \in Nat /\ reply \in Nat \ {0}
      BY DEF IInv, Exchange, TypeOK
    <2>2. /\ Holds(oobS) \in {0, 1} /\ Holds(oobS)' = Holds(oobS)
          /\ Holds(oobC) \in {0, 1} /\ Holds(oobC)' = 1
      BY HoldsTyped DEF IInv, TypeOK, Holds
    <2>3. Tokens = 1 /\ Tokens' = 1 /\ Holds(oobC) = 0
      BY <2>1, <2>2 DEF Tokens
    <2>4. ~oobC
      BY <2>3 DEF Holds
    <2>5. ~(got_reply /\ alrm \notin {"arm", "clear"}) /\ urg = "off"
      BY <2>3, <2>4 DEF IInv, Exchange, TypeOK
    <2> QED BY <2>3, <2>5 DEF IInv, Exchange
  <1>4. OneAlarm'
    BY Distinct DEF IInv, OneAlarm, TypeOK, Stacked, Running
  <1> QED BY <1>1, <1>2, <1>3, <1>4 DEF IInv

(* The echo of a typed line leaves the exchange alone. *)
LEMMA EchoStep ==
    ASSUME IInv, Echo
    PROVE  IInv'
  <1> USE DEF Echo, mainVars, handlerVars, netVars, auxVars
  <1>1. TypeOK'
    BY Distinct DEF IInv, TypeOK, None, Alrm, Urg, AlrmUrg, UrgAlrm, Running
  <1>2. Stacked'
    BY Distinct DEF IInv, Stacked, TypeOK, Running
  <1>3. Exchange'
    BY HoldsTyped, Distinct DEF IInv, Exchange, Tokens, TypeOK, Stacked, Running
  <1>4. OneAlarm'
    BY Distinct DEF IInv, OneAlarm, TypeOK, Stacked, Running
  <1> QED BY <1>1, <1>2, <1>3, <1>4 DEF IInv

(* A server that fails can only lose what is under way. *)
LEMMA FailStep ==
    ASSUME IInv, Fail
    PROVE  IInv'
  <1> USE DEF Fail, Up, mainVars, handlerVars, netVars, auxVars
  <1>1. TypeOK'
    <2>1. oobS' \in BOOLEAN
      BY Zenon DEF IInv, TypeOK
    <2> QED BY <2>1, Distinct DEF IInv, TypeOK, None, Alrm, Urg, AlrmUrg, UrgAlrm, Running
  <1>2. Stacked'
    BY Distinct DEF IInv, Stacked, TypeOK, Running
  <1>3. Exchange'
    <2>1. Tokens <= 1 /\ request \in Nat /\ reply \in Nat
      BY DEF IInv, Exchange, TypeOK
    <2>2. /\ Holds(oobS) \in {0, 1} /\ Holds(oobS)' = 0
          /\ Holds(oobC) \in {0, 1} /\ Holds(oobC)' = Holds(oobC)
      BY HoldsTyped DEF IInv, TypeOK, Holds
    <2>3. Tokens' <= Tokens /\ Tokens' \in Nat
      BY <2>1, <2>2 DEF Tokens
    <2>4. Tokens' <= 1 /\ (Tokens = 0 => Tokens' = 0)
      <3>1. Tokens \in Nat
        BY <2>1, <2>2 DEF Tokens
      <3> QED BY <2>1, <2>3, <3>1
    <2> QED BY <2>4 DEF IInv, Exchange
  <1>4. OneAlarm'
    BY Distinct DEF IInv, OneAlarm, TypeOK, Stacked, Running
  <1> QED BY <1>1, <1>2, <1>3, <1>4 DEF IInv

(* The invariant survives every step, and the steps that change nothing. *)
LEMMA NextPreserves == IInv /\ [Next]_vars => IInv'
  <1> SUFFICES ASSUME IInv, [Next]_vars PROVE IInv'
    OBVIOUS
  <1>1. CASE TypeLine
    BY <1>1, TypeLineStep
  <1>2. CASE Recv
    BY <1>2, RecvStep
  <1>3. CASE Expire
    BY <1>3, ExpireStep
  <1>4. CASE Deliver("ALRM")
    BY <1>4, DeliverAlrmStep
  <1>5. CASE Deliver("URG")
    BY <1>5, DeliverUrgStep
  <1>6. CASE RecvOob
    BY <1>6, RecvOobStep
  <1>7. CASE SetReply
    BY <1>7, SetReplyStep
  <1>8. CASE Test
    BY <1>8, TestStep
  <1>9. CASE SendRequest
    BY <1>9, SendRequestStep
  <1>10. CASE Arm
    BY <1>10, ArmStep
  <1>11. CASE Clear
    BY <1>11, ClearStep
  <1>12. CASE System
    BY <1>12, SystemStep
  <1>13. CASE BasicFails
    BY <1>13, BasicFailsStep
  <1>14. CASE Accept
    BY <1>14, AcceptStep
  <1>15. CASE RequestArrives
    BY <1>15, RequestArrivesStep
  <1>16. CASE Answer
    BY <1>16, AnswerStep
  <1>17. CASE ReplyArrives
    BY <1>17, ReplyArrivesStep
  <1>18. CASE Echo
    BY <1>18, EchoStep
  <1>19. CASE Fail
    BY <1>19, FailStep
  <1>20. CASE UNCHANGED vars
    <2> USE <1>20 DEF vars, mainVars, handlerVars, netVars, auxVars
    <2>1. TypeOK'
      BY DEF IInv, TypeOK
    <2>2. Stacked'
      BY DEF IInv, Stacked
    <2>3. Exchange'
      BY DEF IInv, Exchange, Tokens
    <2>4. OneAlarm'
      BY DEF IInv, OneAlarm
    <2> QED BY <2>1, <2>2, <2>3, <2>4 DEF IInv
  <1> QED BY <1>1, <1>2, <1>3, <1>4, <1>5, <1>6, <1>7, <1>8, <1>9, <1>10,
            <1>11, <1>12, <1>13, <1>14, <1>15, <1>16, <1>17, <1>18, <1>19, <1>20 DEF Next

(* The state keeps its types, and neither part of sig_handler nests in itself. *)
THEOREM HeartbeatTyped == Spec => []TypeOK
  <1>1. IInv => TypeOK
    BY DEF IInv
  <1> QED BY <1>1, InitEstablishes, NextPreserves, PTL DEF Spec

(***************************************************************************)
(* At most one request or reply exists between the send of client.c:24 and *)
(* the recv of client.c:17, in behaviours of any length, and a SIGURG      *)
(* handler that has received holds the reply.                              *)
(***************************************************************************)
THEOREM UrgentBytes == Spec => []UrgentByteKept
  <1>1. IInv => UrgentByteKept
    BY DEF IInv, Exchange, Tokens, UrgentByteKept
  <1> QED BY <1>1, InitEstablishes, NextPreserves, PTL DEF Spec

(* client.c:30 starts the takeover at most once in the life of the client. *)
THEOREM SingleTakeover == Spec => []TakesOverOnce
  <1>1. IInv => TakesOverOnce
    BY DEF IInv, TypeOK, OneAlarm, TakesOverOnce
  <1> QED BY <1>1, InitEstablishes, NextPreserves, PTL DEF Spec

-----------------------------------------------------------------------------
(* The server is down, or was not ready when it was asked. *)
Excused == unclaimed \/ ~Up

(***************************************************************************)
(* Why an alarm finds a request unanswered: while the alarm counts, the    *)
(* answer is under way, has been taken, or there is none; when it has gone *)
(* off, it was under way then, or was taken and erased.                    *)
(***************************************************************************)
Watched ==
    /\ (armed /\ ~got_reply) \/ alrm \in {"arm", "clear"} => UnderWay \/ answered \/ Excused
    /\ ("ALRM" \in pending \/ alrm = "test") /\ (~got_reply \/ alrm = "clear") =>
          late \/ Excused \/ (answered /\ ~UnderWay)
    /\ alrm = "system" => late \/ Excused \/ (answered /\ ~UnderWay /\ ~got_reply)

(* Watched survives every step. *)
LEMMA WatchedStep == IInv /\ Watched /\ [Next]_vars => Watched'
  <1> SUFFICES ASSUME IInv, Watched, [Next]_vars PROVE Watched'
    OBVIOUS
  <1> USE DEF Watched, Excused, UnderWay, Up, mainVars, handlerVars, netVars, auxVars
  <1>1. CASE TypeLine
    BY <1>1 DEF TypeLine, IInv, TypeOK, Exchange, OneAlarm, Stacked
  <1>2. CASE Recv
    BY <1>2 DEF Recv, IInv, TypeOK, Exchange, OneAlarm, Stacked
  <1>3. CASE Expire
    BY <1>3 DEF Expire, IInv, TypeOK, Exchange, OneAlarm, Stacked
  <1>4. CASE Deliver("ALRM")
    BY <1>4 DEF Deliver, IInv, TypeOK, Exchange, OneAlarm, Stacked
  <1>5. CASE Deliver("URG")
    BY <1>5 DEF Deliver, IInv, TypeOK, Exchange, OneAlarm, Stacked
  <1>6. CASE RecvOob
    BY <1>6 DEF RecvOob, IInv, TypeOK, Exchange, OneAlarm, Stacked
  <1>7. CASE SetReply
    BY <1>7 DEF SetReply, IsReply, IInv, TypeOK, Exchange, OneAlarm, Stacked
  <1>8. CASE Test
    BY <1>8 DEF Test, AfterTest, IInv, TypeOK, Exchange, OneAlarm, Stacked
  <1>9. CASE SendRequest
    BY <1>9 DEF SendRequest, IInv, TypeOK, Exchange, OneAlarm, Stacked
  <1>10. CASE Arm
    BY <1>10 DEF Arm, IInv, TypeOK, Exchange, OneAlarm, Stacked
  <1>11. CASE Clear
    BY <1>11 DEF Clear, IInv, TypeOK, Exchange, OneAlarm, Stacked
  <1>12. CASE System
    BY <1>12 DEF System, ArmedAfterTakeover, IInv, TypeOK, Exchange, OneAlarm, Stacked
  <1>13. CASE BasicFails
    BY <1>13 DEF BasicFails, IInv, TypeOK, Exchange, OneAlarm, Stacked
  <1>14. CASE Accept
    BY <1>14 DEF Accept, IInv, TypeOK, Exchange, OneAlarm, Stacked
  <1>15. CASE RequestArrives
    BY <1>15 DEF RequestArrives, IInv, TypeOK, Exchange, OneAlarm, Stacked
  <1>16. CASE Answer
    BY <1>16 DEF Answer, IInv, TypeOK, Exchange, OneAlarm, Stacked
  <1>17. CASE ReplyArrives
    BY <1>17 DEF ReplyArrives, IInv, TypeOK, Exchange, OneAlarm, Stacked
  <1>18. CASE Echo
    BY <1>18 DEF Echo, IInv, TypeOK, Exchange, OneAlarm, Stacked
  <1>19. CASE Fail
    BY <1>19 DEF Fail, IInv, TypeOK, Exchange, OneAlarm, Stacked
  <1>20. CASE UNCHANGED vars
    BY <1>20 DEF vars
  <1> QED BY <1>1, <1>2, <1>3, <1>4, <1>5, <1>6, <1>7, <1>8, <1>9, <1>10,
            <1>11, <1>12, <1>13, <1>14, <1>15, <1>16, <1>17, <1>18, <1>19, <1>20 DEF Next

(***************************************************************************)
(* A server that is up is taken for lost only if its reply was late, the   *)
(* request came before its servlet, or the reply was erased by got_reply = *)
(* 0 (client.c:26), in behaviours of any length.                           *)
(***************************************************************************)
THEOREM FalseAlarmsOnly == Spec => FalseAlarms
  <1> DEFINE A == takeovers' # takeovers /\ Up => late \/ unclaimed \/ (answered /\ ~got_reply)
  <1>1. Init => Watched
    BY DEF Init, Watched, GotReplyInit
  <1>2. IInv /\ Watched /\ [Next]_vars => [A]_vars
    <2> SUFFICES ASSUME IInv, Watched, Next, takeovers' # takeovers, Up
                 PROVE  late \/ unclaimed \/ (answered /\ ~got_reply)
      BY DEF vars
    <2>1. System
      BY DEF Next, TypeLine, Recv, Expire, Deliver, RecvOob, SetReply, Test, SendRequest, Arm,
             Clear, BasicFails, Accept, RequestArrives, Answer, ReplyArrives, Echo, Fail
    <2> QED BY <2>1 DEF System, Watched, Excused
  <1>3. [][A]_vars => FalseAlarms
    BY PTL DEF FalseAlarms
  <1> HIDE DEF A
  <1> QED BY <1>1, <1>2, <1>3, InitEstablishes, NextPreserves, WatchedStep, PTL DEF Spec
=============================================================================
