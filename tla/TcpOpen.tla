------------------------------ MODULE TcpOpen ------------------------------
(***************************************************************************)
(* How a channel gets its connection: CONNECT with TCP.OPEN, LISTEN with   *)
(* TCP.LISTEN_POLL (src/lib/tcp_lib.asm, src/dll/unetrtl.asm), one channel *)
(* against a server and some clients over a network that loses, repeats,   *)
(* delays and reorders.                                                    *)
(*                                                                         *)
(* An end <<p, n>> is the connection of peer p with local port n.  The k-th*)
(* initial number of either side is 10 * k: GEN_ISN's are taken to be      *)
(* fresh, its ports, 14 bits of the same salt, are not.                    *)
(***************************************************************************)
EXTENDS Integers, FiniteSets

CONSTANTS
    Server,        \* the peer CONNECT calls
    Ports,         \* what the salt may give for a local port
    Clients,       \* the peers that call the listener
    Silent,        \* clients that wait for the first byte to come from us
    ListenPort,
    SynAttempts,   \* SYN_ATTEMPTS
    SynWait,       \* SYN_TIMEOUT_MS, in passes
    Budgets,       \* what RECV is called with in IY
    MaxDraws,      \* bound: our initial numbers
    MaxTheirs,     \* bound: the peers' initial numbers
    WireMax        \* bound: segments in flight

ASSUME OpenAssumption ==
    /\ Silent \subseteq Clients /\ Server \notin Clients /\ ListenPort \notin Ports
    /\ {SynAttempts, SynWait} \subseteq Nat \ {0}
    /\ Budgets \subseteq Nat /\ {MaxDraws, MaxTheirs, WireMax} \subseteq Nat

Ends == ({Server} \X Ports) \cup (Clients \X {ListenPort})
Word == 65536

VARIABLES
    tcb,      \* the working context: TCP_STATE, the tuple, SND_NXT, SND_UNA, RCV_NXT
    call,     \* the wait the caller is in, .TRIES, TCP_TIMEOUT_LEFT
    chan,     \* CH_STATE: closed, listen, tcp
    armed,    \* LISTEN_CH is this channel
    drawn,    \* initial numbers drawn so far
    net,      \* segments in flight
    peer,     \* end -> what the peer knows of it
    theirs,   \* initial numbers the peers have drawn
    agreed    \* pairs of initial numbers a peer has taken part in

vars == <<tcb, call, chan, armed, drawn, net, peer, theirs, agreed>>
link == <<chan, armed>>
others == <<peer, theirs, agreed>>

None == [st |-> "none", iss |-> 0, irs |-> 0]
Idle == [pc |-> "idle", tries |-> 0, left |-> 0]

Init ==
    /\ tcb = [state |-> "CLOSED", at |-> <<Server, ListenPort>>, nxt |-> 0, una |-> 0, rcv |-> 0]
    /\ call = Idle /\ chan = "closed" /\ armed = FALSE /\ drawn = 0
    /\ net = {} /\ peer = [e \in Ends |-> None] /\ theirs = 0 /\ agreed = {}

\* A segment to us, and one from us.
From(e, kind, seq, ack) == [us |-> TRUE, end |-> e, kind |-> kind, seq |-> seq, ack |-> ack]
Ours(t, kind, seq, ack) == [us |-> FALSE, end |-> t.at, kind |-> kind, seq |-> seq, ack |-> ack]
Ack(t) == Ours(t, "ack", t.nxt, t.rcv)

\* s goes out and is lost, or is in flight; when too many are, one of them is
\* lost.
Sent(s) ==
    \/ UNCHANGED net
    \/ s \notin net /\ net' = net \cup {s} /\ Cardinality(net') <= WireMax
    \/ s \notin net /\ Cardinality(net) = WireMax /\ \E o \in net : net' = (net \ {o}) \cup {s}
Xmit(ok, s) == IF ok THEN Sent(s) ELSE UNCHANGED net

-----------------------------------------------------------------------------
(* CONNECT and TCP.OPEN. *)

Connect ==
    /\ call.pc = "idle" /\ chan = "closed"
    /\ drawn + SynAttempts <= MaxDraws
    /\ tcb' = [tcb EXCEPT !.state = "CLOSED"]
    /\ call' = [pc |-> "attempt", tries |-> SynAttempts, left |-> 0]
    /\ UNCHANGED <<link, drawn, net, others>>

\* A fresh number and another port for every SYN.
Attempt(port, ok) ==
    /\ call.pc = "attempt"
    /\ drawn' = drawn + 1
    /\ tcb' = [state |-> "SYN_SENT", at |-> <<Server, port>>,
               nxt |-> 10 * drawn', una |-> 10 * drawn', rcv |-> 0]
    /\ Xmit(ok, Ours(tcb', "syn", tcb'.nxt, 0))
    /\ call' = IF ok THEN [call EXCEPT !.pc = "synack", !.left = SynWait] ELSE Idle
    /\ UNCHANGED <<link, others>>

\* What the attempt ends with burns it: a timeout, a reset, a frame that
\* blocks the ring.
Burn == call' = IF call.tries = 1 THEN Idle
                ELSE [pc |-> "attempt", tries |-> call.tries - 1, left |-> 0]
SynTick == IF call.left = 1 THEN Burn ELSE call' = [call EXCEPT !.left = @ - 1]

FromPeer(s) == s.us /\ s.end = tcb.at

\* The SYN+ACK of the tuple.  The number it acknowledges is looked at once
\* and ends the call when it is wrong.
\* Mutant: it is not looked at.
AnyAnswer(s) == TRUE
Answers(s) == s.ack = tcb.nxt + 1

SynAck(s, ok) ==
    /\ call.pc = "synack" /\ FromPeer(s) /\ s.kind = "synack"
    /\ LET t == [tcb EXCEPT !.nxt = @ + 1, !.una = @ + 1]
           u == [t EXCEPT !.rcv = s.seq + 1, !.state = IF ok THEN "ESTAB" ELSE @]
       IN  IF Answers(s)
           THEN /\ tcb' = u
                /\ Xmit(ok, Ack(u))
                /\ chan' = IF ok THEN "tcp" ELSE chan
           ELSE tcb' = t /\ UNCHANGED <<net, chan>>
    /\ call' = Idle
    /\ UNCHANGED <<armed, drawn, others>>

SynRefused(s) ==
    /\ call.pc = "synack" /\ FromPeer(s) /\ s.kind = "rst"
    /\ Burn
    /\ UNCHANGED <<tcb, link, drawn, net, others>>

\* Any other segment, or none: a pass that is charged to the wait.
SynOther(s) ==
    /\ call.pc = "synack" /\ s.us /\ ~(FromPeer(s) /\ s.kind \in {"synack", "rst"})
    /\ SynTick
    /\ UNCHANGED <<tcb, link, drawn, net, others>>
SynSilence ==
    /\ call.pc = "synack"
    /\ SynTick
    /\ UNCHANGED <<tcb, link, drawn, net, others>>

\* A datagram of the other channel is at the head of the ring.
Blocked ==
    /\ call.pc \in {"synack", "poll"}
    /\ IF call.pc = "synack" THEN Burn ELSE call' = Idle
    /\ UNCHANGED <<tcb, link, drawn, net, others>>

Cancel ==
    /\ call.pc \in {"synack", "poll"}
    /\ call' = Idle
    /\ UNCHANGED <<tcb, link, drawn, net, others>>

-----------------------------------------------------------------------------
(* LISTEN, UNLISTEN and the polls of a listening channel. *)

ListenInit(t) == [t EXCEPT !.state = "LISTEN", !.at = <<@[1], ListenPort>>]

Listen ==
    /\ call.pc = "idle" /\ chan = "closed" /\ ~armed
    /\ tcb' = ListenInit(tcb)
    /\ chan' = "listen" /\ armed' = TRUE
    /\ UNCHANGED <<call, drawn, net, others>>

\* An accepted connection stays open.
Unlisten ==
    /\ call.pc = "idle" /\ armed
    /\ armed' = FALSE
    /\ chan' = IF chan = "listen" THEN "closed" ELSE chan
    /\ UNCHANGED <<tcb, call, drawn, net, others>>

\* Mutant: zero is taken as it is.
BudgetAsGiven(iy) == iy
Budget(iy) == IF iy = 0 THEN 1 ELSE iy

Poll(iy) ==
    /\ call.pc = "idle" /\ chan = "listen"
    /\ call' = [pc |-> "poll", tries |-> 0, left |-> Budget(iy)]
    /\ UNCHANGED <<tcb, link, drawn, net, others>>

Less(n) == (n - 1) % Word
PollTick == call' = IF Less(call.left) = 0 THEN Idle ELSE [call EXCEPT !.left = Less(@)]

PollSilence ==
    /\ call.pc = "poll"
    /\ PollTick
    /\ UNCHANGED <<tcb, link, drawn, net, others>>

\* BUILD_SYN.SYNACK_ENTRY: sent for the first SYN and for its copies.
SendSynAck(t, ok) ==
    /\ Xmit(ok, Ours(t, "synack", t.nxt, t.rcv))
    /\ tcb' = IF ok THEN [t EXCEPT !.state = "SYN_RCVD"] ELSE t
    /\ IF ok THEN PollTick ELSE call' = Idle

\* SND_UNA is one ahead of SND_NXT while the handshake is under way.
FirstSyn(s, ok) ==
    /\ call.pc = "poll" /\ tcb.state = "LISTEN"
    /\ s.us /\ s.kind = "syn" /\ s.end[2] = tcb.at[2]
    /\ drawn < MaxDraws
    /\ drawn' = drawn + 1
    /\ SendSynAck([tcb EXCEPT !.at = s.end, !.nxt = 10 * drawn', !.una = 10 * drawn' + 1,
                              !.rcv = s.seq + 1], ok)
    /\ UNCHANGED <<link, others>>

HalfOpen == call.pc = "poll" /\ tcb.state = "SYN_RCVD"

\* Mutant: the SYN+ACK is sent once.
RepeatsNever(s) == FALSE
Repeats(s) == s.kind = "syn"

SynAgain(s, ok) ==
    /\ HalfOpen /\ FromPeer(s) /\ Repeats(s)
    /\ SendSynAck(tcb, ok)
    /\ UNCHANGED <<link, drawn, others>>

ResetHalfOpen(s) ==
    /\ HalfOpen /\ FromPeer(s) /\ s.kind = "rst"
    /\ tcb' = [tcb EXCEPT !.state = "LISTEN"]
    /\ PollTick
    /\ UNCHANGED <<link, drawn, net, others>>

\* The final ACK.
\* Mutant: whatever it acknowledges.
AnyAck(s) == s.kind \in {"ack", "data"}
FinalAck(s) == s.kind \in {"ack", "data"} /\ s.ack = tcb.una

\* RECV of the open connection begins with a window update.
EnterRecv(t, ok) ==
    /\ Xmit(ok, Ack(t))
    /\ call' = IF ok THEN [Idle EXCEPT !.pc = "recv"] ELSE Idle

\* A final ACK that carries data stays at the head of the ring, and the same
\* call goes on with RECV.
Accept(s, ok) ==
    /\ HalfOpen /\ FromPeer(s) /\ FinalAck(s)
    /\ tcb' = [tcb EXCEPT !.nxt = @ + 1, !.state = "ESTAB"]
    /\ chan' = "tcp"
    /\ EnterRecv(tcb', ok)
    /\ UNCHANGED <<armed, drawn, others>>

PollOther(s) ==
    /\ call.pc = "poll" /\ s.us
    /\ CASE tcb.state = "SYN_RCVD" ->
              ~(FromPeer(s) /\ (s.kind = "rst" \/ Repeats(s) \/ FinalAck(s)))
         [] tcb.state # "SYN_RCVD" -> ~(s.kind = "syn" /\ s.end[2] = tcb.at[2])
    /\ PollTick
    /\ UNCHANGED <<tcb, link, drawn, net, others>>

-----------------------------------------------------------------------------
(* The open connection, as far as segments of handshakes reach it. *)

\* RELEASE_OR_REARM.
Release(t) ==
    /\ chan' = IF armed THEN "listen" ELSE "closed"
    /\ tcb' = IF armed THEN ListenInit(t) ELSE t

Recv(ok) ==
    /\ call.pc = "idle" /\ chan = "tcp"
    /\ EnterRecv(tcb, ok)
    /\ UNCHANGED <<tcb, link, drawn, others>>

\* Data that follows RCV_NXT is taken; it, and whatever does not follow, is
\* answered, in the same call at the latest.
Received(t, s) == IF s.kind = "data" /\ s.seq = t.rcv THEN t.rcv + 1 ELSE t.rcv
Answered(t, s) == s.kind = "data" \/ s.seq # t.rcv

RecvHears(s, ok) ==
    /\ call.pc = "recv" /\ FromPeer(s) /\ s.kind # "rst"
    /\ tcb' = [tcb EXCEPT !.rcv = Received(tcb, s)]
    /\ Xmit(ok /\ Answered(tcb, s), Ack(tcb'))
    /\ UNCHANGED <<call, link, drawn, others>>

RecvReset(s) ==
    /\ call.pc = "recv" /\ FromPeer(s) /\ s.kind = "rst"
    /\ Release(tcb)
    /\ call' = Idle
    /\ UNCHANGED <<armed, drawn, net, others>>

RecvReturns ==
    /\ call.pc = "recv"
    /\ call' = Idle
    /\ UNCHANGED <<tcb, link, drawn, net, others>>

\* CLOSE tells the peer, or does not; an unaccepted listener is disarmed.
Close(ok) ==
    /\ call.pc = "idle" /\ chan \in {"tcp", "listen"}
    /\ IF chan = "tcp"
       THEN /\ Xmit(ok, Ours(tcb, "fin", tcb.nxt, tcb.rcv))
            /\ Release([tcb EXCEPT !.nxt = IF ok THEN @ + 1 ELSE @, !.state = "CLOSED"])
            /\ UNCHANGED armed
       ELSE chan' = "closed" /\ armed' = FALSE /\ UNCHANGED <<tcb, net>>
    /\ UNCHANGED <<call, drawn, others>>

-----------------------------------------------------------------------------
(* The peers: TCP as RFC 793 has it, as far as a handshake goes.  A client *)
(* is sent, estab, then served; the server rcvd, then estab.               *)

Becomes(e, rec) == peer' = [peer EXCEPT ![e] = rec]
Agree(e, ours, its) == agreed' = agreed \cup {[end |-> e, ours |-> ours, its |-> its]}
Fresh == theirs < MaxTheirs /\ theirs' = theirs + 1

ClientCalls(e) ==
    /\ e[1] \in Clients /\ peer[e].st = "none" /\ Fresh
    /\ Becomes(e, [None EXCEPT !.st = "sent", !.iss = 10 * theirs'])
    /\ Sent(From(e, "syn", 10 * theirs', 0))
    /\ UNCHANGED <<tcb, call, link, drawn, agreed>>

\* What the peer sends again until it is answered.
Pending(e) ==
    LET p == peer[e]
    IN  CASE p.st = "sent" -> {From(e, "syn", p.iss, 0)}
          [] p.st = "rcvd" -> {From(e, "synack", p.iss, p.irs + 1)}
          [] p.st = "estab" /\ e[1] \in Clients \ Silent -> {From(e, "data", p.iss + 1, p.irs + 1)}
          [] OTHER -> {}

SendsAgain(e) ==
    /\ \E s \in Pending(e) : Sent(s)
    /\ UNCHANGED <<tcb, call, link, drawn, others>>

GivesUp(e, tells) ==
    /\ peer[e].st # "none"
    /\ Becomes(e, None)
    /\ IF tells THEN Sent(From(e, "rst", peer[e].iss + 1, 0)) ELSE UNCHANGED net
    /\ UNCHANGED <<tcb, call, link, drawn, theirs, agreed>>

AckOf(e) == From(e, "ack", peer[e].iss + 1, peer[e].irs + 1)
Rst(s) == From(s.end, "rst", s.ack, 0)

ServerHears(s, refuses) ==
    LET e == s.end
        p == peer[e]
    IN  /\ e[1] = Server
        /\ \/ /\ s.kind = "syn" /\ p.st = "none" /\ ~refuses
              /\ Fresh /\ Agree(e, s.seq, 10 * theirs')
              /\ Becomes(e, [st |-> "rcvd", iss |-> 10 * theirs', irs |-> s.seq])
              /\ Sent(From(e, "synack", 10 * theirs', s.seq + 1))
           \/ /\ s.kind = "syn" /\ p.st = "none" /\ refuses
              /\ Sent(Rst(s)) /\ UNCHANGED others
           \/ /\ s.kind = "syn" /\ p.st # "none"
              /\ Sent(IF p.st = "rcvd" /\ p.irs = s.seq
                      THEN From(e, "synack", p.iss, p.irs + 1) ELSE AckOf(e))
              /\ UNCHANGED others
           \/ /\ s.kind = "ack" /\ p.st = "rcvd" /\ s.ack = p.iss + 1 /\ s.seq = p.irs + 1
              /\ Becomes(e, [p EXCEPT !.st = "estab"])
              /\ UNCHANGED <<net, theirs, agreed>>
           \/ /\ s.kind = "fin" /\ p.st # "none"
              /\ Becomes(e, None) /\ UNCHANGED <<net, theirs, agreed>>

ClientHears(s) ==
    LET e == s.end
        p == peer[e]
    IN  /\ e[1] \in Clients
        /\ \/ /\ s.kind = "synack" /\ p.st = "sent" /\ s.ack = p.iss + 1
              /\ Becomes(e, [p EXCEPT !.st = "estab", !.irs = s.seq])
              /\ Agree(e, s.seq, p.iss)
              /\ Sent(From(e, "ack", p.iss + 1, s.seq + 1))
              /\ UNCHANGED theirs
           \/ /\ s.kind = "synack"
              /\ p.st = "none" \/ (p.st = "sent" /\ s.ack # p.iss + 1)
              /\ Sent(Rst(s)) /\ UNCHANGED others
           \/ /\ s.kind = "synack" /\ p.st \in {"estab", "served"}
              /\ Sent(AckOf(e)) /\ UNCHANGED others
           \/ /\ s.kind = "ack" /\ p.st = "estab" /\ s.ack = p.iss + 2 /\ s.seq = p.irs + 1
              /\ Becomes(e, [p EXCEPT !.st = "served"])
              /\ UNCHANGED <<net, theirs, agreed>>
           \/ /\ s.kind = "fin" /\ p.st \in {"estab", "served"} /\ s.seq = p.irs + 1
              /\ Becomes(e, None)
              /\ UNCHANGED <<net, theirs, agreed>>

PeerHears(s, refuses) ==
    /\ ~s.us
    /\ ServerHears(s, refuses) \/ (~refuses /\ ClientHears(s))
    /\ UNCHANGED <<tcb, call, link, drawn>>

-----------------------------------------------------------------------------
Opening ==
    \/ \E port \in Ports, ok \in BOOLEAN : Attempt(port, ok)
    \/ \E s \in net, ok \in BOOLEAN : SynAck(s, ok)
    \/ \E s \in net : SynRefused(s) \/ SynOther(s)
    \/ SynSilence

Polling(s, ok) == FirstSyn(s, ok) \/ SynAgain(s, ok) \/ ResetHalfOpen(s) \/ Accept(s, ok) \/ PollOther(s)

Application ==
    \/ Connect \/ Listen \/ Unlisten \/ \E iy \in Budgets : Poll(iy)
    \/ \E ok \in BOOLEAN : Close(ok) \/ Recv(ok) \/ \E s \in net : RecvHears(s, ok)
    \/ \E s \in net : RecvReset(s)

Peers ==
    \/ \E e \in Ends : ClientCalls(e) \/ SendsAgain(e) \/ \E tells \in BOOLEAN : GivesUp(e, tells)
    \/ \E s \in net, refuses \in BOOLEAN : PeerHears(s, refuses)

Next ==
    \/ Opening \/ Application \/ Peers
    \/ \E s \in net, ok \in BOOLEAN : Polling(s, ok)
    \/ PollSilence \/ RecvReturns \/ Blocked \/ Cancel

Spec == Init /\ [][Next]_vars

\* The CPU goes on with a wait; the application polls its listener; what the
\* client of a half-open connection sends again and again is in the ring in
\* some poll and is taken there, and what we answer arrives at the client.
Waits == SynSilence \/ PollSilence \/ RecvReturns \/ \E port \in Ports, ok \in BOOLEAN : Attempt(port, ok)
Half == chan = "listen" /\ tcb.state = "SYN_RCVD"
Arrives ==
    /\ Half /\ call.pc = "poll"
    /\ SendsAgain(tcb.at) /\ Pending(tcb.at) \subseteq net'
Heard ==
    /\ Half
    /\ \E s \in Pending(tcb.at) \cap net : Polling(s, TRUE)
    /\ tcb'.state = "SYN_RCVD" => Ours(tcb', "synack", tcb'.nxt, tcb'.rcv) \in net'
Reaches ==
    /\ Half /\ peer[tcb.at].st = "sent"
    /\ \E s \in net : s = Ours(tcb, "synack", tcb.nxt, tcb.rcv) /\ PeerHears(s, FALSE)
Fairness ==
    /\ WF_vars(Waits) /\ WF_vars(\E iy \in Budgets : Poll(iy))
    /\ SF_vars(Arrives) /\ SF_vars(Heard) /\ SF_vars(Reaches)
FairSpec == Spec /\ Fairness

-----------------------------------------------------------------------------
(* Properties. *)

TypeOK ==
    /\ tcb.state \in {"CLOSED", "SYN_SENT", "ESTAB", "LISTEN", "SYN_RCVD"}
    /\ {tcb.nxt, tcb.una, tcb.rcv} \subseteq Nat
    /\ call.pc \in {"idle", "attempt", "synack", "poll", "recv"}
    /\ call.tries \in 0 .. SynAttempts
    /\ \E longest \in Budgets \cup {SynWait} : call.left \in 0 .. longest
    /\ chan \in {"closed", "listen", "tcp"} /\ armed \in BOOLEAN
    /\ Cardinality(net) <= WireMax

\* A channel is open only with a peer that has answered this very attempt:
\* the numbers both ends start from are those of one handshake, whatever
\* SYNs, SYN+ACKs and ACKs of earlier ones arrive ("A late SYN+ACK for a
\* PREVIOUS attempt is filtered by the port match", tcp_lib.asm:402).
Start(n) == 10 * (n \div 10)
Synchronised ==
    chan = "tcp" =>
        /\ tcb.state = "ESTAB" /\ tcb.nxt = tcb.una
        /\ [end |-> tcb.at, ours |-> Start(tcb.nxt), its |-> Start(tcb.rcv)] \in agreed

\* No handshake hangs: OPEN and LISTEN_POLL return, and a half-open connection
\* ends as long as its client goes on with it: one whose SYN+ACK was lost
\* sends its SYN again, one whose ACK was lost sends data.  A client that
\* says nothing of its own holds the listener for good.
GoesOn(e) ==
    /\ e \in Ends /\ peer[e].iss + 1 = tcb.rcv
    /\ peer[e].st = "sent" \/ (peer[e].st = "estab" /\ peer[e].irs = tcb.nxt)
HandshakesEnd ==
    /\ []<>(call.pc = "idle")
    /\ []<>~(Half /\ GoesOn(tcb.at))
=============================================================================
