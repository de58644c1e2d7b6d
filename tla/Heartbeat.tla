----------------------------- MODULE Heartbeat -----------------------------
(***************************************************************************)
(* The heartbeat between two machines (controllers/client.c, server.c).    *)
(* The client asks the server's servlet once per DELAY, with an urgent     *)
(* byte, whether it is up, and starts the robot's takeover when an alarm   *)
(* finds the last request unanswered.                                      *)
(*                                                                         *)
(* The client is one thread.  Its two signal handlers interrupt main and   *)
(* each other, since sa_mask is empty: stack holds the handlers that are   *)
(* running, the innermost last, and only that one, or main when there is   *)
(* none, takes steps.                                                      *)
(***************************************************************************)
EXTENDS Integers, Sequences

VARIABLES
    main,       \* the client's loop: in gets, in recv, or the process has left
    line,       \* the line typed last: not there, on its way out, echoed
    stack,      \* the signal handlers running
    alrm,       \* where the SIGALRM part of sig_handler stands
    urg,        \* where the SIGURG part of sig_handler stands
    c,          \* the byte it has received
    got_reply,
    armed,      \* alarm(DELAY) is counting
    pending,    \* signals not yet delivered
    takeovers,  \* number of calls of system()
    request,    \* number of '?' on their way
    reply,      \* number of 'Y' on their way
    oobS, oobC, \* an urgent byte is in the server's, the client's socket
    server,     \* in the listen queue, a servlet, crashed in silence, or exited
    late,       \* the alarm went off while the answer was under way
    answered,   \* the reply to the last request has been taken
    unclaimed   \* a request came before the servlet had claimed SIGURG

mainVars == <<main, line>>
handlerVars == <<stack, alrm, urg, c, pending>>
netVars == <<request, reply, oobS, oobC>>
auxVars == <<late, answered, unclaimed>>
vars == <<mainVars, handlerVars, got_reply, armed, takeovers, netVars, server, auxVars>>

Top == IF stack = <<>> THEN "main" ELSE stack[Len(stack)]
Running(who) == main # "left" /\ Top = who
Return == stack' = SubSeq(stack, 1, Len(stack) - 1)

(* A servlet serves the client, or will as soon as it is accepted. *)
Up == server \in {"queue", "servlet"}

GotReplyUnset == FALSE

GotReplyInit == TRUE

(* connect has succeeded, and main has called alarm(DELAY). *)
Init ==
    /\ main = "gets" /\ line = "none"
    /\ stack = <<>> /\ alrm = "off" /\ urg = "off" /\ c = "junk" /\ pending = {}
    /\ got_reply = GotReplyInit
    /\ armed = TRUE
    /\ takeovers = 0
    /\ request = 0 /\ reply = 0 /\ oobS = FALSE /\ oobC = FALSE
    /\ server = "queue"
    /\ late = FALSE /\ answered = FALSE /\ unclaimed = FALSE

-----------------------------------------------------------------------------
(***************************************************************************)
(* The client's main loop.  An empty line sends nothing, and recv waits    *)
(* for an echo that does not come.                                         *)
(***************************************************************************)
TypeLine ==
    /\ Running("main") /\ main = "gets"
    /\ main' = "recv"
    /\ line' \in {"none", "out"}
    /\ UNCHANGED <<handlerVars, got_reply, armed, takeovers, netVars, server, auxVars>>

(* recv returns the echo, or ends the loop once the server has closed. *)
Recv ==
    /\ Running("main") /\ main = "recv"
    /\ \/ line = "echo" /\ main' = "gets" /\ line' = "none"
       \/ line # "echo" /\ server = "exited" /\ main' = "left" /\ UNCHANGED line
    /\ UNCHANGED <<handlerVars, got_reply, armed, takeovers, netVars, server, auxVars>>

-----------------------------------------------------------------------------
(***************************************************************************)
(* The client's signals.                                                   *)
(***************************************************************************)

(* The answer to the last request exists, and sig_handler has not taken it. *)
UnderWay == request > 0 \/ reply > 0 \/ oobS \/ oobC \/ urg # "off"

Expire ==
    /\ main # "left" /\ armed
    /\ armed' = FALSE
    /\ pending' = pending \cup {"ALRM"}
    /\ late' = UnderWay
    /\ UNCHANGED <<mainVars, stack, alrm, urg, c, got_reply, takeovers, netVars, server,
                   answered, unclaimed>>

(* A signal is delivered unless its own handler is still running (no SA_NODEFER). *)
UnmaskedAlways(sig) == TRUE

Unmasked(sig) == \A i \in DOMAIN stack : stack[i] # sig

Deliver(sig) ==
    /\ main # "left" /\ sig \in pending
    /\ Unmasked(sig)
    /\ pending' = pending \ {sig}
    /\ stack' = Append(stack, sig)
    /\ alrm' = IF sig = "ALRM" THEN "test" ELSE alrm
    /\ urg' = IF sig = "URG" THEN "recv" ELSE urg
    /\ UNCHANGED <<mainVars, c, got_reply, armed, takeovers, netVars, server, auxVars>>

(* SIGURG: recv of the urgent byte, which leaves c as it is if there is none. *)
RecvOob ==
    /\ Running("URG") /\ urg = "recv"
    /\ urg' = "set"
    /\ c' = IF oobC THEN "Y" ELSE "junk"
    /\ oobC' = FALSE
    /\ UNCHANGED <<mainVars, stack, alrm, pending, got_reply, armed, takeovers, request,
                   reply, oobS, server, auxVars>>

IsReply == IF c = "Y" THEN {TRUE} ELSE BOOLEAN

SetReply ==
    /\ Running("URG") /\ urg = "set"
    /\ got_reply' \in IsReply
    /\ answered' = TRUE
    /\ urg' = "off"
    /\ Return
    /\ UNCHANGED <<mainVars, alrm, c, pending, armed, takeovers, netVars, server, late,
                   unclaimed>>

(* SIGALRM: the four steps between which a SIGURG can come. *)
AfterTestSending == IF takeovers = 0 THEN "send" ELSE "system"

AfterTest == IF got_reply THEN "send" ELSE "system"

Test ==
    /\ Running("ALRM") /\ alrm = "test"
    /\ alrm' = AfterTest
    /\ UNCHANGED <<mainVars, stack, urg, c, pending, got_reply, armed, takeovers, netVars,
                   server, auxVars>>

SendRequest ==
    /\ Running("ALRM") /\ alrm = "send"
    /\ request' = request + 1
    /\ alrm' = "arm"
    /\ answered' = FALSE /\ late' = FALSE
    /\ UNCHANGED <<mainVars, stack, urg, c, pending, got_reply, armed, takeovers, reply,
                   oobS, oobC, server, unclaimed>>

ArmDropped ==
    /\ Running("ALRM") /\ alrm = "arm"
    /\ alrm' = "clear"
    /\ UNCHANGED <<mainVars, stack, urg, c, pending, got_reply, armed, takeovers, netVars,
                   server, auxVars>>

Arm ==
    /\ Running("ALRM") /\ alrm = "arm"
    /\ armed' = TRUE
    /\ alrm' = "clear"
    /\ UNCHANGED <<mainVars, stack, urg, c, pending, got_reply, takeovers, netVars, server,
                   auxVars>>

Clear ==
    /\ Running("ALRM") /\ alrm = "clear"
    /\ got_reply' = FALSE
    /\ alrm' = "off"
    /\ Return
    /\ UNCHANGED <<mainVars, urg, c, pending, armed, takeovers, netVars, server, auxVars>>

(* system() returns only if basic cannot connect; the alarm stays off. *)
ArmedAfterTakeoverAgain == TRUE

ArmedAfterTakeover == armed

System ==
    /\ Running("ALRM") /\ alrm = "system"
    /\ takeovers' = takeovers + 1
    /\ alrm' = "basic"
    /\ armed' = ArmedAfterTakeover
    /\ UNCHANGED <<mainVars, stack, urg, c, pending, got_reply, netVars, server, auxVars>>

BasicFails ==
    /\ Running("ALRM") /\ alrm = "basic"
    /\ alrm' = "off"
    /\ Return
    /\ UNCHANGED <<mainVars, urg, c, pending, got_reply, armed, takeovers, netVars, server,
                   auxVars>>

-----------------------------------------------------------------------------
(***************************************************************************)
(* The server and the network.                                             *)
(***************************************************************************)

(* accept and fork; the child installs its handler and claims SIGURG. *)
Accept ==
    /\ server = "queue"
    /\ server' = "servlet"
    /\ UNCHANGED <<mainVars, handlerVars, got_reply, armed, takeovers, netVars, auxVars>>

(* Nobody is signalled of a request that comes before, or too late. *)
RequestArrives ==
    /\ request > 0
    /\ request' = request - 1
    /\ oobS' = (oobS \/ server = "servlet")
    /\ unclaimed' = (unclaimed \/ server = "queue")
    /\ UNCHANGED <<mainVars, handlerVars, got_reply, armed, takeovers, reply, oobC, server,
                   late, answered>>

(* The servlet's SIGURG handler: recv, and 'Y' to a '?'. *)
Answer ==
    /\ server = "servlet" /\ oobS
    /\ oobS' = FALSE
    /\ reply' = reply + 1
    /\ UNCHANGED <<mainVars, handlerVars, got_reply, armed, takeovers, request, oobC, server,
                   auxVars>>

ReplyArrives ==
    /\ reply > 0
    /\ reply' = reply - 1
    /\ oobC' = TRUE
    /\ pending' = pending \cup {"URG"}
    /\ UNCHANGED <<mainVars, stack, alrm, urg, c, got_reply, armed, takeovers, request,
                   oobS, server, auxVars>>

(* The servlet's loop sends back what it receives. *)
Echo ==
    /\ server = "servlet" /\ line = "out"
    /\ line' = "echo"
    /\ UNCHANGED <<main, handlerVars, got_reply, armed, takeovers, netVars, server, auxVars>>

(***************************************************************************)
(* The server's machine falls silent, or its process ends and the kernel   *)
(* closes the connection.                                                  *)
(***************************************************************************)
Fail ==
    /\ Up
    /\ server' \in {"crashed", "exited"}
    /\ oobS' = FALSE
    /\ UNCHANGED <<mainVars, handlerVars, got_reply, armed, takeovers, request, reply, oobC,
                   auxVars>>

Handler == RecvOob \/ SetReply \/ Test \/ SendRequest \/ Arm \/ Clear \/ System

Next ==
    \/ TypeLine \/ Recv
    \/ Expire \/ Deliver("ALRM") \/ Deliver("URG")
    \/ RecvOob \/ SetReply
    \/ Test \/ SendRequest \/ Arm \/ Clear \/ System \/ BasicFails
    \/ Accept \/ RequestArrives \/ Answer \/ ReplyArrives \/ Echo \/ Fail

(***************************************************************************)
(* Time passes, pending signals are delivered, and the client runs.        *)
(* Nothing is assumed of the network, the server or the user.              *)
(***************************************************************************)
Fairness ==
    /\ WF_vars(Expire)
    /\ WF_vars(Deliver("ALRM")) /\ WF_vars(Deliver("URG"))
    /\ WF_vars(Handler)

Spec == Init /\ [][Next]_vars

FairSpec == Spec /\ Fairness

-----------------------------------------------------------------------------
(***************************************************************************)
(* Properties.                                                             *)
(***************************************************************************)

(* The types of the state; no two handlers of one signal are on the stack. *)
TypeOK ==
    /\ main \in {"gets", "recv", "left"}
    /\ line \in {"none", "out", "echo"}
    /\ stack \in {<<>>, <<"ALRM">>, <<"URG">>, <<"ALRM", "URG">>, <<"URG", "ALRM">>}
    /\ alrm \in {"off", "test", "send", "arm", "clear", "system", "basic"}
    /\ urg \in {"off", "recv", "set"}
    /\ c \in {"Y", "junk"}
    /\ got_reply \in BOOLEAN /\ armed \in BOOLEAN
    /\ pending \in SUBSET {"ALRM", "URG"}
    /\ takeovers \in Nat /\ request \in Nat /\ reply \in Nat
    /\ oobS \in BOOLEAN /\ oobC \in BOOLEAN
    /\ server \in {"queue", "servlet", "crashed", "exited"}
    /\ late \in BOOLEAN /\ answered \in BOOLEAN /\ unclaimed \in BOOLEAN

(***************************************************************************)
(* A socket holds one urgent byte, and a second SIGURG merges with a       *)
(* pending one: the exchange works only because at most one request or     *)
(* reply exists anywhere between send and sig_handler, whatever is late,   *)
(* lost or interrupted (client.c:22-26).                                   *)
(***************************************************************************)
Holds(b) == IF b THEN 1 ELSE 0
UrgentByteKept ==
    /\ request + reply + Holds(oobS) + Holds(oobC) <= 1
    /\ urg = "set" => c = "Y"

(***************************************************************************)
(* The takeover is started once: client.c:28 leaves the alarm off, and no  *)
(* alarm of an earlier request is left over.                               *)
(***************************************************************************)
TakesOverOnce == takeovers <= 1

(***************************************************************************)
(* The ways a server that is up is taken for lost: its reply takes longer  *)
(* than DELAY, the request came before its servlet, or the reply came      *)
(* between the send and got_reply = 0 of the same sig_handler (client.c:24 *)
(* to 26), which throws it away.                                           *)
(***************************************************************************)
FalseAlarms ==
    [][takeovers' # takeovers /\ Up => late \/ unclaimed \/ (answered /\ ~got_reply)]_vars

(***************************************************************************)
(* A server that is lost is noticed: the takeover is started, unless main  *)
(* sees the closed connection first and leaves without it (client.c:71).   *)
(***************************************************************************)
LossNoticed ==
    ~Up ~> (takeovers > 0 \/ (main = "left" /\ server = "exited"))
=============================================================================
