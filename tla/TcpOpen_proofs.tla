--------------------------- MODULE TcpOpen_proofs ---------------------------
(***************************************************************************)
(* Proofs about TcpOpen for every set of clients and ports, every number   *)
(* of attempts and tries, and any bound on what is in flight: type         *)
(* correctness, and that a channel is open only on numbers of one and the  *)
(* same handshake.                                                         *)
(***************************************************************************)
EXTENDS TcpOpen, FiniteSetTheorems, TLAPS

-----------------------------------------------------------------------------
(* The inductive invariant.                                                *)

\* An initial number.
Initial(n) == n \in Nat /\ n % 10 = 0

Segment == [us : BOOLEAN, end : Ends, kind : {"syn", "synack", "ack", "data", "rst", "fin"},
            seq : Nat, ack : Nat]
Peer    == [st : {"none", "sent", "rcvd", "estab", "served"}, iss : Nat, irs : Nat]
Pair    == [end : Ends, ours : Nat, its : Nat]
States  == {"CLOSED", "SYN_SENT", "ESTAB", "LISTEN", "SYN_RCVD"}
Tcb     == [state : States, at : (Clients \cup {Server}) \X (Ports \cup {ListenPort}),
            nxt : Nat, una : Nat, rcv : Nat]
Call    == [pc : {"idle", "attempt", "synack", "poll", "recv"},
            tries : 0 .. SynAttempts, left : Nat]

TypeInv ==
    /\ TypeOK /\ IsFiniteSet(net)
    /\ tcb \in Tcb /\ call \in Call
    /\ net \subseteq Segment /\ agreed \subseteq Pair /\ peer \in [Ends -> Peer]
    /\ drawn \in Nat /\ theirs \in Nat

\* A segment carries numbers its sender has: ours were drawn, a peer's belong
\* to a handshake the peer has taken part in.
Sound(s, pairs, last) ==
    /\ s.us /\ s.kind = "syn" => Initial(s.seq)
    /\ s.us /\ s.kind = "synack" =>
          \E r \in pairs : r.end = s.end /\ s.ack = r.ours + 1 /\ s.seq = r.its
    /\ s.us /\ s.kind \in {"ack", "data"} =>
          \E r \in pairs : r.end = s.end /\ s.ack = r.ours + 1 /\ s.seq = r.its + 1
    /\ ~s.us /\ s.kind \in {"syn", "synack"} => Initial(s.seq) /\ s.seq <= 10 * last

NetInv == \A s \in net : Sound(s, agreed, drawn)

\* What a peer believes beyond its own first number has been agreed.
PeerInv ==
    /\ \A r \in agreed : Initial(r.ours) /\ Initial(r.its) /\ r.ours <= 10 * drawn
    /\ \A e \in Ends :
          /\ Initial(peer[e].iss) /\ (peer[e].st = "sent" => e[1] \in Clients)
          /\ peer[e].st \in {"rcvd", "estab", "served"} =>
                \E r \in agreed : r.end = e /\ r.ours = peer[e].irs /\ r.its = peer[e].iss

\* Nobody but the client that rcv acknowledges was, or can be, given n.
Given(n, rcv, segs, pairs) ==
    /\ \A r \in pairs : r.ours = n => rcv = r.its + 1
    /\ \A s \in segs : ~s.us /\ s.seq = n =>
          s.kind # "syn" /\ (s.kind = "synack" => s.ack = rcv)

\* The context in a wait, half-open and open.
TcbInv ==
    /\ call.pc = "synack" =>
          /\ tcb.state = "SYN_SENT" /\ tcb.nxt = tcb.una
          /\ Initial(tcb.nxt) /\ tcb.at \in Ends
    /\ tcb.state = "SYN_RCVD" =>
          /\ tcb.una = tcb.nxt + 1 /\ tcb.at \in Ends
          /\ Initial(tcb.nxt) /\ tcb.nxt <= 10 * drawn
          /\ Given(tcb.nxt, tcb.rcv, net, agreed)
    /\ chan = "tcp" =>
          /\ tcb.state = "ESTAB" /\ tcb.nxt = tcb.una
          /\ \E r \in agreed : /\ r.end = tcb.at /\ tcb.nxt = r.ours + 1
                               /\ tcb.rcv \in {r.its + 1, r.its + 2}

\* Which call may be under way on which channel, with what is left of it.
CallInv ==
    /\ call.pc \in {"attempt", "synack"} => chan = "closed" /\ call.tries >= 1
    /\ call.pc = "poll" => chan = "listen"
    /\ call.pc = "recv" => chan = "tcp"
    /\ call.pc \in {"synack", "poll"} => call.left >= 1

IInv == TypeInv /\ NetInv /\ PeerInv /\ TcbInv /\ CallInv

-----------------------------------------------------------------------------
(* Numbers and segments.                                                   *)

\* The numbers of a handshake lie in the decade its initial number opens.
LEMMA InitialNumbers ==
    ASSUME NEW n \in Nat, Initial(n)
    PROVE  Start(n + 1) = n /\ Start(n + 2) = n /\ ~Initial(n + 1)
BY DEF Initial, Start

\* What is drawn is an initial number.
LEMMA DrawnIsInitial ==
    ASSUME NEW k \in Nat
    PROVE  Initial(10 * k)
BY DEF Initial

\* A context is the record of its fields.
LEMMA TcbRecord ==
    ASSUME NEW t \in Tcb
    PROVE  /\ t = [state |-> t.state, at |-> t.at, nxt |-> t.nxt, una |-> t.una, rcv |-> t.rcv]
           /\ t.state \in States /\ t.at \in (Clients \cup {Server}) \X (Ports \cup {ListenPort})
           /\ t.nxt \in Nat /\ t.una \in Nat /\ t.rcv \in Nat
BY DEF Tcb

\* A sound segment stays sound while numbers are drawn and pairs agreed.
LEMMA SoundStays ==
    ASSUME NEW s, NEW a, NEW b, a \subseteq b, NEW m \in Nat, NEW n \in Nat, m <= n,
           Sound(s, a, m), s.seq \in Nat
    PROVE  Sound(s, b, n)
BY DEF Sound

\* A transmission adds at most its segment, within the bound.
LEMMA Transmit ==
    ASSUME TypeInv, NEW s, Sent(s) \/ UNCHANGED net
    PROVE  /\ IsFiniteSet(net') /\ Cardinality(net') <= WireMax
           /\ \A x \in net' : x \in net \/ x = s
<1>1. IsFiniteSet(net) /\ Cardinality(net) <= WireMax /\ Cardinality(net) \in Nat /\ WireMax \in Nat
  BY FS_CardinalityType, OpenAssumption DEF TypeInv, TypeOK
<1>2. CASE UNCHANGED net
  BY <1>1, <1>2
<1>3. CASE s \notin net /\ net' = net \cup {s} /\ Cardinality(net') <= WireMax
  BY <1>1, <1>3, FS_AddElement
<1>4. CASE s \notin net /\ Cardinality(net) = WireMax /\ \E o \in net : net' = (net \ {o}) \cup {s}
  <2>1. PICK o \in net : net' = (net \ {o}) \cup {s}
    BY <1>4
  <2>2. IsFiniteSet(net \ {o}) /\ Cardinality(net \ {o}) = Cardinality(net) - 1
    BY <1>1, FS_RemoveElement
  <2>3. IsFiniteSet(net') /\ Cardinality(net') = Cardinality(net \ {o}) + 1
    BY <1>4, <2>1, <2>2, FS_AddElement
  <2>4. QED BY <1>1, <1>4, <2>1, <2>2, <2>3
<1>5. QED BY <1>2, <1>3, <1>4 DEF Sent

\* A sound segment joins the network, while numbers may be drawn and pairs
\* agreed.
LEMMA SoundSent ==
    ASSUME TypeInv, NetInv, NEW s \in Segment, Sent(s) \/ UNCHANGED net,
           drawn' \in Nat, drawn <= drawn', agreed \subseteq agreed',
           Sound(s, agreed', drawn')
    PROVE  /\ NetInv' /\ net' \subseteq Segment
           /\ IsFiniteSet(net') /\ Cardinality(net') <= WireMax
           /\ \A x \in net' : x \in net \/ x = s
<1>1. /\ IsFiniteSet(net') /\ Cardinality(net') <= WireMax
      /\ \A x \in net' : x \in net \/ x = s
  BY Transmit
<1>2. net \subseteq Segment /\ drawn \in Nat /\ \A x \in Segment : x.seq \in Nat
  BY DEF TypeInv, Segment
<1>3. \A x \in net : Sound(x, agreed', drawn')
  BY <1>2, SoundStays DEF NetInv
<1>4. QED BY <1>1, <1>2, <1>3 DEF NetInv

\* The types of the next state, put together.
Bounded(c) == \E longest \in Budgets \cup {SynWait} : c.left \in 0 .. longest

LEMMA TypeStep ==
    ASSUME tcb' \in Tcb, call' \in Call, Bounded(call'),
           chan' \in {"closed", "listen", "tcp"}, armed' \in BOOLEAN,
           IsFiniteSet(net'), Cardinality(net') <= WireMax, net' \subseteq Segment,
           agreed' \subseteq Pair, peer' \in [Ends -> Peer], drawn' \in Nat, theirs' \in Nat
    PROVE  TypeInv'
<1>1. /\ tcb'.state \in States /\ {tcb'.nxt, tcb'.una, tcb'.rcv} \subseteq Nat
  BY DEF Tcb
<1>2. call'.pc \in {"idle", "attempt", "synack", "poll", "recv"} /\ call'.tries \in 0 .. SynAttempts
  BY DEF Call
<1>3. TypeOK'
  BY <1>1, <1>2 DEF TypeOK, States, Bounded
<1>4. QED BY <1>3 DEF TypeInv

-----------------------------------------------------------------------------
(* Steps of a wait that change nothing but the wait.                       *)

\* An idle caller waits for nothing.
LEMMA IdleCall == Idle \in Call /\ Bounded(Idle) /\ Idle.pc = "idle"
BY OpenAssumption DEF Idle, Call, Bounded

LEMMA CallOnly ==
    ASSUME IInv, UNCHANGED <<tcb, link, drawn, net, others>>,
           call' \in Call, Bounded(call'), CallInv',
           call'.pc = "synack" => call.pc = "synack"
    PROVE  IInv'
<1>1. TypeInv'
  BY TypeStep DEF IInv, TypeInv, TypeOK, link, others
<1>2. NetInv' /\ PeerInv'
  BY DEF IInv, NetInv, PeerInv, others
<1>3. TcbInv'
  BY DEF IInv, TcbInv, link, others
<1>4. QED BY <1>1, <1>2, <1>3 DEF IInv

\* An attempt that is burnt leaves the rest of them.
LEMMA BurnCall ==
    ASSUME IInv, call.pc = "synack", Burn
    PROVE  /\ call' \in Call /\ Bounded(call')
           /\ call'.pc \in {"idle", "attempt"}
           /\ call'.pc = "attempt" => call'.tries >= 1
<1>1. call.tries \in 1 .. SynAttempts /\ SynAttempts \in Nat /\ SynWait \in Nat
  BY OpenAssumption DEF IInv, TypeInv, Call, CallInv
<1>2. CASE call.tries = 1
  BY <1>2, IdleCall DEF Burn
<1>3. CASE call.tries # 1
  <2>1. call' = [pc |-> "attempt", tries |-> call.tries - 1, left |-> 0]
    BY <1>3 DEF Burn
  <2>2. call.tries - 1 \in 0 .. SynAttempts /\ call.tries - 1 >= 1
    BY <1>1, <1>3
  <2>3. call' \in Call /\ call'.pc = "attempt" /\ call'.tries >= 1 /\ call'.left = 0
    BY <2>1, <2>2 DEF Call
  <2>4. Bounded(call')
    BY <1>1, <2>3 DEF Bounded
  <2>5. QED BY <2>3, <2>4
<1>4. QED BY <1>2, <1>3

\* A pass of WAIT_SYN_ACK.
LEMMA SynTickStep ==
    ASSUME IInv, call.pc = "synack", Burn \/ SynTick,
           UNCHANGED <<tcb, link, drawn, net, others>>
    PROVE  IInv'
<1>1. chan = "closed" /\ chan' = chan
  BY DEF IInv, CallInv, link
<1>2. CASE Burn
  <2>1. /\ call' \in Call /\ Bounded(call')
        /\ call'.pc \in {"idle", "attempt"}
        /\ call'.pc = "attempt" => call'.tries >= 1
    BY <1>2, BurnCall
  <2>2. CallInv'
    BY <1>1, <2>1 DEF CallInv
  <2>3. QED BY <2>1, <2>2, CallOnly
<1>3. CASE call' = [call EXCEPT !.left = call.left - 1] /\ call.left # 1
  <2>1. call.left \in Nat /\ call.left >= 1 /\ call.tries >= 1 /\ call \in Call
    BY DEF IInv, TypeInv, Call, CallInv
  <2>2. call.left - 1 \in Nat /\ call.left - 1 >= 1
    BY <1>3, <2>1
  <2>3. /\ call' \in Call /\ call'.pc = "synack" /\ call'.tries >= 1
        /\ call'.left = call.left - 1
    BY <1>3, <2>1, <2>2 DEF Call
  <2>4. Bounded(call')
    BY <2>1, <2>2, <2>3, OpenAssumption DEF IInv, TypeInv, TypeOK, Bounded
  <2>5. CallInv'
    BY <1>1, <2>2, <2>3 DEF CallInv
  <2>6. QED BY <2>3, <2>4, <2>5, CallOnly
<1>4. QED BY <1>2, <1>3 DEF SynTick

\* What is left of a poll after a pass of it.
LEMMA PollTickCall ==
    ASSUME IInv, call.pc = "poll", PollTick
    PROVE  /\ call' \in Call /\ Bounded(call') /\ call'.pc \in {"idle", "poll"}
           /\ call'.pc = "poll" => call'.left >= 1
<1>1. call.left \in Nat /\ call.left >= 1 /\ call \in Call
  BY DEF IInv, TypeInv, Call, CallInv
<1>2. Less(call.left) \in Nat /\ Less(call.left) <= call.left
  <2>1. \A a \in Nat : a % 65536 \in Nat /\ a % 65536 <= a
    OBVIOUS
  <2>2. QED BY <1>1, <2>1 DEF Less, Word
<1>3. CASE Less(call.left) = 0
  BY <1>3, IdleCall DEF PollTick
<1>4. CASE Less(call.left) # 0
  <2>1. call' = [call EXCEPT !.left = Less(call.left)]
    BY <1>4 DEF PollTick
  <2>2. call' \in Call /\ call'.pc = "poll" /\ call'.left = Less(call.left)
    BY <1>1, <1>2, <2>1 DEF Call
  <2>3. Bounded(call')
    <3>1. PICK longest \in Budgets \cup {SynWait} : call.left \in 0 .. longest
      BY DEF IInv, TypeInv, TypeOK
    <3>2. longest \in Nat
      BY OpenAssumption
    <3>3. call'.left \in 0 .. longest
      BY <1>1, <1>2, <2>2, <3>1, <3>2
    <3>4. QED BY <3>3 DEF Bounded
  <2>4. QED BY <1>2, <1>4, <2>2, <2>3
<1>5. QED BY <1>3, <1>4

\* A pass of LISTEN_POLL that takes nothing.
LEMMA PollTickStep ==
    ASSUME IInv, call.pc = "poll", PollTick, UNCHANGED <<tcb, link, drawn, net, others>>
    PROVE  IInv'
<1>1. /\ call' \in Call /\ Bounded(call') /\ call'.pc \in {"idle", "poll"}
      /\ call'.pc = "poll" => call'.left >= 1
  BY PollTickCall
<1>2. CallInv'
  BY <1>1 DEF IInv, CallInv, link
<1>3. QED BY <1>1, <1>2, CallOnly

\* A call that ends at once.
LEMMA EndsStep ==
    ASSUME IInv, call' = Idle, UNCHANGED <<tcb, link, drawn, net, others>>
    PROVE  IInv'
<1>1. CallInv'
  BY IdleCall DEF CallInv
<1>2. QED BY <1>1, IdleCall, CallOnly

LEMMA PollStep ==
    ASSUME IInv, NEW iy \in Budgets, Poll(iy)
    PROVE  IInv'
<1>1. /\ chan = "listen" /\ UNCHANGED <<tcb, link, drawn, net, others>>
      /\ call' = [pc |-> "poll", tries |-> 0, left |-> Budget(iy)]
  BY DEF Poll
<1>2. iy \in Nat /\ SynWait \in Nat /\ SynWait >= 1 /\ SynAttempts \in Nat
  BY OpenAssumption
<1>3. Budget(iy) \in Nat /\ Budget(iy) >= 1 /\ (Budget(iy) = 1 \/ Budget(iy) = iy)
  BY <1>2 DEF Budget
<1>4. call' \in Call /\ call'.pc = "poll" /\ call'.left = Budget(iy)
  BY <1>1, <1>2, <1>3 DEF Call
<1>5. Bounded(call')
  BY <1>2, <1>3, <1>4 DEF Bounded
<1>6. CallInv'
  BY <1>1, <1>3, <1>4 DEF CallInv, link
<1>7. QED BY <1>1, <1>4, <1>5, <1>6, CallOnly

-----------------------------------------------------------------------------
(* CONNECT and TCP.OPEN.                                                   *)

LEMMA ConnectStep ==
    ASSUME IInv, Connect
    PROVE  IInv'
<1>1. /\ chan = "closed" /\ tcb' = [tcb EXCEPT !.state = "CLOSED"]
      /\ call' = [pc |-> "attempt", tries |-> SynAttempts, left |-> 0]
      /\ UNCHANGED <<link, drawn, net, others>>
  BY DEF Connect
<1>2. tcb' \in Tcb /\ tcb'.state = "CLOSED"
  BY <1>1 DEF IInv, TypeInv, Tcb, States
<1>3. /\ call' \in Call /\ call'.pc = "attempt" /\ call'.tries >= 1 /\ call'.left = 0
      /\ Bounded(call')
  BY <1>1, OpenAssumption DEF Call, Bounded
<1>4. TypeInv'
  BY <1>1, <1>2, <1>3, TypeStep DEF IInv, TypeInv, TypeOK, link, others
<1>5. NetInv' /\ PeerInv'
  BY <1>1 DEF IInv, NetInv, PeerInv, others
<1>6. TcbInv' /\ CallInv'
  BY <1>1, <1>2, <1>3 DEF TcbInv, CallInv, link
<1>7. QED BY <1>4, <1>5, <1>6 DEF IInv

\* Numbers that grow keep what peers have agreed to.
LEMMA PeersKeep ==
    ASSUME IInv, UNCHANGED others, drawn' \in Nat, drawn <= drawn'
    PROVE  PeerInv'
<1>1. agreed \subseteq Pair /\ drawn \in Nat
  BY DEF IInv, TypeInv
<1>2. \A r \in agreed : r.ours \in Nat /\ r.ours <= 10 * drawn
  BY <1>1 DEF Pair, IInv, PeerInv
<1>3. \A r \in agreed : r.ours <= 10 * drawn'
  BY <1>1, <1>2
<1>4. QED BY <1>3 DEF IInv, PeerInv, others

LEMMA AttemptStep ==
    ASSUME IInv, NEW port \in Ports, NEW ok \in BOOLEAN, Attempt(port, ok)
    PROVE  IInv'
<1> DEFINE n == 10 * (drawn + 1)
           syn == Ours(tcb', "syn", n, 0)
<1>1. /\ call.pc = "attempt" /\ drawn' = drawn + 1
      /\ tcb' = [state |-> "SYN_SENT", at |-> <<Server, port>>, nxt |-> n, una |-> n, rcv |-> 0]
      /\ call' = IF ok THEN [call EXCEPT !.pc = "synack", !.left = SynWait] ELSE Idle
      /\ Xmit(ok, Ours(tcb', "syn", tcb'.nxt, 0))
      /\ UNCHANGED <<link, others>>
  BY DEF Attempt
<1>2. /\ drawn \in Nat /\ n \in Nat /\ Initial(n) /\ n <= 10 * drawn' /\ drawn' \in Nat
      /\ drawn <= drawn'
  <2>1. drawn \in Nat
    BY DEF IInv, TypeInv
  <2>2. QED BY <1>1, <2>1, DrawnIsInitial
<1>3. <<Server, port>> \in Ends /\ <<Server, port>> \in (Clients \cup {Server}) \X (Ports \cup {ListenPort})
  BY DEF Ends
<1>4. /\ tcb' \in Tcb /\ tcb'.state = "SYN_SENT" /\ tcb'.nxt = n /\ tcb'.una = n
      /\ tcb'.at = <<Server, port>>
  BY <1>1, <1>2, <1>3 DEF Tcb, States
<1>5. /\ syn \in Segment /\ syn.us = FALSE /\ syn.kind = "syn" /\ syn.seq = n
  BY <1>2, <1>3, <1>4 DEF Ours, Segment
<1>6. Sound(syn, agreed', drawn')
  BY <1>2, <1>5 DEF Sound
<1>7. Sent(syn) \/ UNCHANGED net
  BY <1>1, <1>4 DEF Xmit
<1>8. /\ NetInv' /\ net' \subseteq Segment
      /\ IsFiniteSet(net') /\ Cardinality(net') <= WireMax
  BY <1>1, <1>2, <1>5, <1>6, <1>7, SoundSent DEF IInv, others
<1>9. chan = "closed" /\ call \in Call /\ call.tries >= 1
  BY <1>1 DEF IInv, TypeInv, CallInv
<1>10. /\ call' \in Call /\ Bounded(call') /\ call'.pc \in {"idle", "synack"}
       /\ call'.pc = "synack" => call'.tries >= 1 /\ call'.left >= 1
  <2>1. CASE ok
    <3>1. SynWait \in Nat /\ SynWait >= 1
      BY OpenAssumption
    <3>2. /\ call' \in Call /\ call'.pc = "synack" /\ call'.tries = call.tries
          /\ call'.left = SynWait
      BY <1>1, <1>9, <2>1, <3>1 DEF Call
    <3>3. QED BY <1>9, <3>1, <3>2 DEF Bounded
  <2>2. CASE ~ok
    BY <1>1, <2>2, IdleCall
  <2>3. QED BY <2>1, <2>2
<1>11. TypeInv'
  BY <1>1, <1>2, <1>4, <1>8, <1>10, TypeStep DEF IInv, TypeInv, TypeOK, link, others
<1>12. PeerInv'
  BY <1>1, <1>2, PeersKeep
<1>13. TcbInv' /\ CallInv'
  BY <1>1, <1>2, <1>3, <1>4, <1>9, <1>10 DEF TcbInv, CallInv, link
<1>14. QED BY <1>8, <1>11, <1>12, <1>13 DEF IInv

\* The answer that opens a channel brings the pair its peer has agreed to.
LEMMA SynAckStep ==
    ASSUME IInv, NEW s \in net, NEW ok \in BOOLEAN, SynAck(s, ok)
    PROVE  IInv'
<1> DEFINE t == [tcb EXCEPT !.nxt = @ + 1, !.una = @ + 1]
           u == [t EXCEPT !.rcv = s.seq + 1, !.state = IF ok THEN "ESTAB" ELSE @]
<1>1. /\ call.pc = "synack" /\ s.us /\ s.end = tcb.at /\ s.kind = "synack"
      /\ call' = Idle /\ UNCHANGED <<armed, drawn, others>>
  BY DEF SynAck, FromPeer
<1>2. /\ tcb.state = "SYN_SENT" /\ tcb.nxt = tcb.una /\ tcb.nxt \in Nat
      /\ tcb.at \in Ends /\ tcb \in Tcb /\ chan = "closed"
      /\ s \in Segment /\ s.seq \in Nat /\ drawn \in Nat
  BY <1>1 DEF IInv, TypeInv, Tcb, TcbInv, CallInv, Segment
<1>3. PICK r \in agreed : r.end = s.end /\ s.ack = r.ours + 1 /\ s.seq = r.its
  BY <1>1 DEF IInv, NetInv, Sound
<1>4. r.ours \in Nat /\ r.its \in Nat
  BY DEF IInv, TypeInv, Pair
<1>5. /\ t \in Tcb /\ t.state = "SYN_SENT" /\ t.nxt = tcb.nxt + 1 /\ t.una = tcb.nxt + 1
      /\ t.at = tcb.at
  <2>1. t = [tcb EXCEPT !.nxt = tcb.nxt + 1, !.una = tcb.una + 1]
    OBVIOUS
  <2>2. tcb.nxt + 1 \in Nat /\ tcb.una + 1 \in Nat
    BY <1>2
  <2> HIDE DEF t
  <2>3. QED BY <1>2, <2>1, <2>2 DEF Tcb
<1>6. /\ u \in Tcb /\ u.state = (IF ok THEN "ESTAB" ELSE "SYN_SENT") /\ u.nxt = tcb.nxt + 1
      /\ u.una = tcb.nxt + 1 /\ u.at = tcb.at /\ u.rcv = s.seq + 1
  <2> HIDE DEF t
  <2>1. u = [t EXCEPT !.rcv = s.seq + 1, !.state = IF ok THEN "ESTAB" ELSE "SYN_SENT"]
    BY <1>5
  <2>2. (IF ok THEN "ESTAB" ELSE "SYN_SENT") \in States /\ s.seq + 1 \in Nat
    BY <1>2 DEF States
  <2> HIDE DEF u
  <2>3. QED BY <1>5, <2>1, <2>2 DEF Tcb
<1>7. CASE ~Answers(s)
  <2>1. tcb' = t /\ UNCHANGED <<net, chan>>
    BY <1>7 DEF SynAck
  <2>2. TypeInv'
    BY <1>1, <1>5, <2>1, IdleCall, TypeStep DEF IInv, TypeInv, TypeOK, others
  <2>3. NetInv' /\ PeerInv'
    BY <1>1, <2>1 DEF IInv, NetInv, PeerInv, others
  <2>4. TcbInv' /\ CallInv'
    BY <1>1, <1>2, <1>5, <2>1, IdleCall DEF TcbInv, CallInv
  <2>5. QED BY <2>2, <2>3, <2>4 DEF IInv
<1>8. CASE Answers(s)
  <2>1. tcb' = u /\ Xmit(ok, Ack(u)) /\ chan' = IF ok THEN "tcp" ELSE chan
    BY <1>8 DEF SynAck
  <2>2. Ack(u) \in Segment /\ Ack(u).us = FALSE /\ Ack(u).kind = "ack"
    BY <1>2, <1>6 DEF Ack, Ours, Segment, Tcb
  <2>3. Sound(Ack(u), agreed', drawn')
    BY <2>2 DEF Sound
  <2>4. Sent(Ack(u)) \/ UNCHANGED net
    BY <2>1 DEF Xmit
  <2>5. drawn' \in Nat /\ drawn <= drawn' /\ agreed \subseteq agreed' /\ TypeInv /\ NetInv
    BY <1>1, <1>2 DEF IInv, others
  <2>6. /\ NetInv' /\ net' \subseteq Segment
        /\ IsFiniteSet(net') /\ Cardinality(net') <= WireMax
    BY <2>2, <2>3, <2>4, <2>5, SoundSent
  <2>7. TypeInv'
    BY <1>1, <1>2, <1>6, <2>1, <2>6, IdleCall, TypeStep DEF IInv, TypeInv, TypeOK, others
  <2>8. PeerInv'
    BY <1>1, <2>5, PeersKeep
  <2>9. r.end = tcb'.at /\ tcb'.nxt = r.ours + 1 /\ tcb'.rcv = r.its + 1
    BY <1>1, <1>2, <1>3, <1>4, <1>6, <1>8, <2>1 DEF Answers
  <2>10. TcbInv'
    BY <1>1, <1>2, <1>6, <2>1, <2>9, IdleCall DEF TcbInv, others
  <2>11. CallInv'
    BY <1>1, IdleCall DEF CallInv
  <2>12. QED BY <2>6, <2>7, <2>8, <2>10, <2>11 DEF IInv
<1>9. QED BY <1>7, <1>8

-----------------------------------------------------------------------------
(* LISTEN, UNLISTEN and LISTEN_POLL.                                       *)

\* A context back in LISTEN keeps its types.
LEMMA ListenTcb ==
    ASSUME NEW t \in Tcb
    PROVE  ListenInit(t) \in Tcb /\ ListenInit(t).state = "LISTEN"
<1>1. t.at[1] \in Clients \cup {Server}
  BY DEF Tcb
<1>2. QED BY <1>1 DEF ListenInit, Tcb, States

LEMMA ListenStep ==
    ASSUME IInv, Listen
    PROVE  IInv'
<1>1. /\ call.pc = "idle" /\ tcb' = ListenInit(tcb) /\ chan' = "listen" /\ armed' = TRUE
      /\ UNCHANGED <<call, drawn, net, others>>
  BY DEF Listen
<1>2. tcb' \in Tcb /\ tcb'.state = "LISTEN"
  BY <1>1, ListenTcb DEF IInv, TypeInv
<1>3. TypeInv'
  BY <1>1, <1>2, TypeStep DEF IInv, TypeInv, TypeOK, Bounded, others
<1>4. NetInv' /\ PeerInv'
  BY <1>1 DEF IInv, NetInv, PeerInv, others
<1>5. TcbInv' /\ CallInv'
  BY <1>1, <1>2 DEF TcbInv, CallInv
<1>6. QED BY <1>3, <1>4, <1>5 DEF IInv

LEMMA UnlistenStep ==
    ASSUME IInv, Unlisten
    PROVE  IInv'
<1>1. /\ call.pc = "idle" /\ armed' = FALSE
      /\ chan' = IF chan = "listen" THEN "closed" ELSE chan
      /\ UNCHANGED <<tcb, call, drawn, net, others>>
  BY DEF Unlisten
<1>2. TypeInv'
  BY <1>1, TypeStep DEF IInv, TypeInv, TypeOK, Bounded, others
<1>3. NetInv' /\ PeerInv'
  BY <1>1 DEF IInv, NetInv, PeerInv, others
<1>4. TcbInv' /\ CallInv'
  BY <1>1 DEF IInv, TcbInv, CallInv, others
<1>5. QED BY <1>2, <1>3, <1>4 DEF IInv

\* A fresh number is nobody's yet, so that only what answers it can be given
\* for it.
LEMMA FreshIsGiven ==
    ASSUME TypeInv, NetInv, PeerInv, NEW n \in Nat, 10 * drawn < n, NEW rcv
    PROVE  Given(n, rcv, net, agreed)
<1>1. \A r \in agreed : r.ours \in Nat /\ r.ours <= 10 * drawn
  BY DEF TypeInv, Pair, PeerInv
<1>2. \A s \in net : ~s.us /\ s.kind \in {"syn", "synack"} => s.seq \in Nat /\ s.seq <= 10 * drawn
  BY DEF TypeInv, Segment, NetInv, Sound
<1>3. drawn \in Nat
  BY DEF TypeInv
<1>4. QED BY <1>1, <1>2, <1>3 DEF Given

\* What joins the network keeps the number given, unless it is a SYN or a
\* SYN+ACK with that number for somebody else.
LEMMA GivenStays ==
    ASSUME NEW n, NEW rcv, Given(n, rcv, net, agreed), NEW s,
           \A x \in net' : x \in net \/ x = s,
           s.us \/ s.kind \notin {"syn", "synack"} \/ (s.kind = "synack" /\ s.ack = rcv)
    PROVE  Given(n, rcv, net', agreed)
BY DEF Given

\* The first SYN draws a number; its SYN+ACK is the only one with it.
LEMMA FirstSynStep ==
    ASSUME IInv, NEW s \in net, NEW ok \in BOOLEAN, FirstSyn(s, ok)
    PROVE  IInv'
<1> DEFINE n == 10 * (drawn + 1)
           t == [tcb EXCEPT !.at = s.end, !.nxt = n, !.una = n + 1, !.rcv = s.seq + 1]
           a == Ours(t, "synack", n, s.seq + 1)
<1>1. /\ call.pc = "poll" /\ tcb.state = "LISTEN" /\ s.us /\ s.kind = "syn" /\ drawn' = drawn + 1
      /\ SendSynAck(t, ok) /\ UNCHANGED <<link, others>>
  BY DEF FirstSyn
<1>2. /\ drawn \in Nat /\ n \in Nat /\ Initial(n) /\ n <= 10 * drawn' /\ drawn' \in Nat
      /\ drawn <= drawn' /\ 10 * drawn < n
  <2>1. drawn \in Nat
    BY DEF IInv, TypeInv
  <2>2. QED BY <1>1, <2>1, DrawnIsInitial
<1>3. s \in Segment /\ s.end \in Ends /\ s.seq \in Nat /\ tcb \in Tcb /\ chan = "listen"
  BY <1>1 DEF IInv, TypeInv, Segment, CallInv
<1>4. s.end \in (Clients \cup {Server}) \X (Ports \cup {ListenPort})
  BY <1>3 DEF Ends
<1>5. /\ t \in Tcb /\ t.state = "LISTEN" /\ t.at = s.end /\ t.nxt = n /\ t.una = n + 1
      /\ t.rcv = s.seq + 1
  <2>1. t = [tcb EXCEPT !.at = s.end, !.nxt = n, !.una = n + 1, !.rcv = s.seq + 1]
    OBVIOUS
  <2>2. n + 1 \in Nat /\ s.seq + 1 \in Nat
    BY <1>2, <1>3
  <2> HIDE DEF t, n
  <2>3. QED BY <1>1, <1>2, <1>3, <1>4, <2>1, <2>2 DEF Tcb
<1>6. /\ a \in Segment /\ a.us = FALSE /\ a.kind = "synack" /\ a.seq = n /\ a.ack = s.seq + 1
  BY <1>2, <1>3, <1>5 DEF Ours, Segment
<1>7. Sound(a, agreed', drawn')
  BY <1>2, <1>6 DEF Sound
<1>8. Sent(a) \/ UNCHANGED net
  BY <1>1, <1>5 DEF SendSynAck, Xmit
<1>9. /\ NetInv' /\ net' \subseteq Segment
      /\ IsFiniteSet(net') /\ Cardinality(net') <= WireMax
      /\ \A x \in net' : x \in net \/ x = a
  BY <1>1, <1>2, <1>6, <1>7, <1>8, SoundSent DEF IInv, others
<1>10. tcb' = IF ok THEN [t EXCEPT !.state = "SYN_RCVD"] ELSE t
  BY <1>1 DEF SendSynAck
<1>11. /\ tcb' \in Tcb /\ tcb'.state \in {"LISTEN", "SYN_RCVD"} /\ tcb'.at = s.end
       /\ tcb'.nxt = n /\ tcb'.una = n + 1 /\ tcb'.rcv = s.seq + 1
  BY <1>5, <1>10 DEF Tcb, States
<1>12. /\ call' \in Call /\ Bounded(call') /\ call'.pc \in {"idle", "poll"}
       /\ call'.pc = "poll" => call'.left >= 1
  BY <1>1, PollTickCall, IdleCall DEF SendSynAck
<1>13. TypeInv'
  BY <1>1, <1>2, <1>9, <1>11, <1>12, TypeStep DEF IInv, TypeInv, TypeOK, link, others
<1>14. PeerInv'
  BY <1>1, <1>2, PeersKeep
<1>15. Given(n, s.seq + 1, net', agreed')
  <2>1. Given(n, s.seq + 1, net, agreed)
    BY <1>2, FreshIsGiven DEF IInv
  <2>2. QED BY <1>1, <1>6, <1>9, <2>1, GivenStays DEF others
<1>16. TcbInv' /\ CallInv'
  BY <1>1, <1>2, <1>3, <1>11, <1>12, <1>15 DEF TcbInv, CallInv, link
<1>17. QED BY <1>9, <1>13, <1>14, <1>16 DEF IInv

\* A copy of the SYN is answered as the first one was.
LEMMA SynAgainStep ==
    ASSUME IInv, NEW s \in net, NEW ok \in BOOLEAN, SynAgain(s, ok)
    PROVE  IInv'
<1> DEFINE a == Ours(tcb, "synack", tcb.nxt, tcb.rcv)
<1>1. /\ call.pc = "poll" /\ tcb.state = "SYN_RCVD" /\ SendSynAck(tcb, ok)
      /\ UNCHANGED <<link, drawn, others>>
  BY DEF SynAgain, HalfOpen
<1>2. /\ tcb \in Tcb /\ tcb.at \in Ends /\ Initial(tcb.nxt) /\ tcb.nxt <= 10 * drawn
      /\ tcb.una = tcb.nxt + 1 /\ drawn \in Nat /\ chan = "listen"
      /\ Given(tcb.nxt, tcb.rcv, net, agreed)
  BY <1>1 DEF IInv, TypeInv, TcbInv, CallInv
<1>3. a \in Segment /\ a.us = FALSE /\ a.kind = "synack" /\ a.seq = tcb.nxt /\ a.ack = tcb.rcv
  BY <1>2 DEF Ours, Segment, Tcb
<1>4. Sound(a, agreed', drawn')
  BY <1>1, <1>2, <1>3 DEF Sound
<1>5. Sent(a) \/ UNCHANGED net
  BY <1>1 DEF SendSynAck, Xmit
<1>6. drawn' \in Nat /\ drawn <= drawn' /\ agreed' = agreed
  BY <1>1, <1>2 DEF others
<1>7. /\ NetInv' /\ net' \subseteq Segment
      /\ IsFiniteSet(net') /\ Cardinality(net') <= WireMax
      /\ \A x \in net' : x \in net \/ x = a
  BY <1>3, <1>4, <1>5, <1>6, SoundSent DEF IInv
<1>8. tcb' = tcb
  BY <1>1, <1>2, TcbRecord DEF SendSynAck, Tcb
<1>9. /\ call' \in Call /\ Bounded(call') /\ call'.pc \in {"idle", "poll"}
      /\ call'.pc = "poll" => call'.left >= 1
  BY <1>1, PollTickCall, IdleCall DEF SendSynAck
<1>10. TypeInv'
  BY <1>1, <1>2, <1>7, <1>8, <1>9, TypeStep DEF IInv, TypeInv, TypeOK, link, others
<1>11. PeerInv'
  BY <1>1, <1>6, PeersKeep
<1>12. Given(tcb.nxt, tcb.rcv, net', agreed')
  BY <1>2, <1>3, <1>6, <1>7, GivenStays
<1>13. TcbInv' /\ CallInv'
  BY <1>1, <1>2, <1>8, <1>9, <1>12 DEF TcbInv, CallInv, link
<1>14. QED BY <1>7, <1>10, <1>11, <1>13 DEF IInv

\* A reset takes a half-open connection back to LISTEN.
LEMMA ResetHalfOpenStep ==
    ASSUME IInv, NEW s \in net, ResetHalfOpen(s)
    PROVE  IInv'
<1>1. /\ call.pc = "poll" /\ tcb' = [tcb EXCEPT !.state = "LISTEN"] /\ PollTick
      /\ UNCHANGED <<link, drawn, net, others>>
  BY DEF ResetHalfOpen, HalfOpen
<1>2. tcb' \in Tcb /\ tcb'.state = "LISTEN" /\ chan = "listen"
  BY <1>1 DEF IInv, TypeInv, CallInv, Tcb, States
<1>3. /\ call' \in Call /\ Bounded(call') /\ call'.pc \in {"idle", "poll"}
      /\ call'.pc = "poll" => call'.left >= 1
  BY <1>1, PollTickCall
<1>4. TypeInv'
  BY <1>1, <1>2, <1>3, TypeStep DEF IInv, TypeInv, TypeOK, link, others
<1>5. NetInv' /\ PeerInv'
  BY <1>1 DEF IInv, NetInv, PeerInv, others
<1>6. TcbInv' /\ CallInv'
  BY <1>1, <1>2, <1>3 DEF TcbInv, CallInv, link
<1>7. QED BY <1>4, <1>5, <1>6 DEF IInv

\* What we send on a connection that is open, or is being closed.
LEMMA OwnSent ==
    ASSUME IInv, NEW t \in Tcb, t.at \in Ends, NEW kind \in {"ack", "fin"}, NEW ok \in BOOLEAN,
           Xmit(ok, Ours(t, kind, t.nxt, t.rcv)), UNCHANGED <<drawn, others>>
    PROVE  /\ NetInv' /\ net' \subseteq Segment
           /\ IsFiniteSet(net') /\ Cardinality(net') <= WireMax
<1> DEFINE a == Ours(t, kind, t.nxt, t.rcv)
<1>1. a \in Segment /\ a.us = FALSE /\ a.kind = kind
  BY DEF Ours, Segment, Tcb
<1>2. Sound(a, agreed', drawn')
  BY <1>1 DEF Sound
<1>3. Sent(a) \/ UNCHANGED net
  BY DEF Xmit
<1>4. drawn' \in Nat /\ drawn <= drawn' /\ agreed \subseteq agreed'
  BY DEF IInv, TypeInv, others
<1>5. QED BY <1>1, <1>2, <1>3, <1>4, SoundSent DEF IInv

LEMMA EnterRecvCall ==
    ASSUME NEW t, NEW ok \in BOOLEAN, EnterRecv(t, ok)
    PROVE  call' \in Call /\ Bounded(call') /\ call'.pc \in {"idle", "recv"}
<1>1. CASE ok
  <2>1. call' = [Idle EXCEPT !.pc = "recv"]
    BY <1>1 DEF EnterRecv
  <2>2. call' = [pc |-> "recv", tries |-> 0, left |-> 0]
    BY <2>1 DEF Idle
  <2>3. SynAttempts \in Nat /\ SynWait \in Nat
    BY OpenAssumption
  <2>4. QED BY <2>2, <2>3 DEF Call, Bounded
<1>2. CASE ~ok
  BY <1>2, IdleCall DEF EnterRecv
<1>3. QED BY <1>1, <1>2

\* The final ACK comes from the client whose SYN the context answers: what it
\* acknowledges was given to nobody else.
LEMMA AcceptStep ==
    ASSUME IInv, NEW s \in net, NEW ok \in BOOLEAN, Accept(s, ok)
    PROVE  IInv'
<1>1. /\ call.pc = "poll" /\ tcb.state = "SYN_RCVD" /\ s.us /\ s.end = tcb.at
      /\ s.kind \in {"ack", "data"} /\ s.ack = tcb.una /\ chan' = "tcp"
      /\ tcb' = [tcb EXCEPT !.nxt = tcb.nxt + 1, !.state = "ESTAB"]
      /\ EnterRecv(tcb', ok) /\ UNCHANGED <<armed, drawn, others>>
  BY DEF Accept, HalfOpen, FromPeer, FinalAck
<1>2. /\ tcb \in Tcb /\ tcb.at \in Ends /\ tcb.nxt \in Nat /\ tcb.una = tcb.nxt + 1
      /\ Given(tcb.nxt, tcb.rcv, net, agreed)
  BY <1>1 DEF IInv, TypeInv, TcbInv, Tcb
<1>3. PICK r \in agreed : r.end = s.end /\ s.ack = r.ours + 1
  BY <1>1 DEF IInv, NetInv, Sound
<1>4. r.ours = tcb.nxt
  <2>1. r.ours \in Nat
    BY DEF IInv, TypeInv, Pair
  <2>2. QED BY <1>1, <1>2, <1>3, <2>1
<1>5. tcb.rcv = r.its + 1
  BY <1>2, <1>4 DEF Given
<1>6. tcb.nxt + 1 \in Nat /\ "ESTAB" \in States
  BY <1>2 DEF States
<1>7. /\ tcb' \in Tcb /\ tcb'.state = "ESTAB" /\ tcb'.nxt = tcb.nxt + 1 /\ tcb'.una = tcb.una
      /\ tcb'.at = tcb.at /\ tcb'.rcv = tcb.rcv
  BY <1>1, <1>2, <1>6 DEF Tcb
<1>8. /\ NetInv' /\ net' \subseteq Segment
      /\ IsFiniteSet(net') /\ Cardinality(net') <= WireMax
  <2>1. Xmit(ok, Ours(tcb', "ack", tcb'.nxt, tcb'.rcv))
    BY <1>1 DEF EnterRecv, Ack
  <2>2. QED BY <1>1, <1>2, <1>7, <2>1, OwnSent
<1>9. call' \in Call /\ Bounded(call') /\ call'.pc \in {"idle", "recv"}
  BY <1>1, EnterRecvCall
<1>10. TypeInv'
  BY <1>1, <1>7, <1>8, <1>9, TypeStep DEF IInv, TypeInv, TypeOK, others
<1>11. PeerInv'
  BY <1>1, PeersKeep DEF IInv, TypeInv
<1>12. TcbInv' /\ CallInv'
  BY <1>1, <1>2, <1>3, <1>4, <1>5, <1>7, <1>9 DEF TcbInv, CallInv, others
<1>13. QED BY <1>8, <1>10, <1>11, <1>12 DEF IInv

-----------------------------------------------------------------------------
(* The open connection.                                                    *)

\* The tuple of an open connection is the end of an agreed pair.
LEMMA OpenEnd ==
    ASSUME IInv, chan = "tcp"
    PROVE  /\ tcb \in Tcb /\ tcb.at \in Ends /\ tcb.state = "ESTAB" /\ tcb.nxt = tcb.una
           /\ \E r \in agreed : /\ r.end = tcb.at /\ tcb.nxt = r.ours + 1
                                /\ tcb.rcv \in {r.its + 1, r.its + 2}
BY DEF IInv, TypeInv, TcbInv, Pair

LEMMA RecvStep ==
    ASSUME IInv, NEW ok \in BOOLEAN, Recv(ok)
    PROVE  IInv'
<1>1. chan = "tcp" /\ EnterRecv(tcb, ok) /\ UNCHANGED <<tcb, link, drawn, others>>
  BY DEF Recv
<1>2. tcb \in Tcb /\ tcb.at \in Ends /\ tcb.state = "ESTAB"
  BY <1>1, OpenEnd
<1>3. /\ NetInv' /\ net' \subseteq Segment
      /\ IsFiniteSet(net') /\ Cardinality(net') <= WireMax
  <2>1. Xmit(ok, Ours(tcb, "ack", tcb.nxt, tcb.rcv))
    BY <1>1 DEF EnterRecv, Ack
  <2>2. QED BY <1>1, <1>2, <2>1, OwnSent
<1>4. call' \in Call /\ Bounded(call') /\ call'.pc \in {"idle", "recv"}
  BY <1>1, EnterRecvCall
<1>5. TypeInv'
  BY <1>1, <1>3, <1>4, TypeStep DEF IInv, TypeInv, TypeOK, link, others
<1>6. PeerInv'
  BY <1>1, PeersKeep DEF IInv, TypeInv
<1>7. TcbInv' /\ CallInv'
  BY <1>1, <1>2, <1>4 DEF IInv, TcbInv, CallInv, link, others
<1>8. QED BY <1>3, <1>5, <1>6, <1>7 DEF IInv

\* The client of the open connection has one byte for us, and the initial
\* numbers of its other connections are none of the numbers of this one.
LEMMA RecvHearsStep ==
    ASSUME IInv, NEW s \in net, NEW ok \in BOOLEAN, RecvHears(s, ok)
    PROVE  IInv'
<1> DEFINE n == Received(tcb, s)
<1>1. /\ call.pc = "recv" /\ s.us /\ s.end = tcb.at
      /\ tcb' = [tcb EXCEPT !.rcv = n]
      /\ Xmit(ok /\ Answered(tcb, s), Ack(tcb'))
      /\ UNCHANGED <<call, link, drawn, others>>
  BY DEF RecvHears, FromPeer
<1>2. chan = "tcp"
  BY <1>1 DEF IInv, CallInv
<1>3. tcb \in Tcb /\ tcb.at \in Ends /\ tcb.state = "ESTAB" /\ tcb.nxt = tcb.una /\ tcb.rcv \in Nat
  BY <1>2, OpenEnd DEF Tcb
<1>4. PICK r \in agreed : /\ r.end = tcb.at /\ tcb.nxt = r.ours + 1
                          /\ tcb.rcv \in {r.its + 1, r.its + 2}
  BY <1>2, OpenEnd
<1>5. r.its \in Nat /\ Initial(r.its)
  BY DEF IInv, TypeInv, Pair, PeerInv
<1>6. n \in {r.its + 1, r.its + 2}
  <2>1. CASE s.kind = "data" /\ s.seq = tcb.rcv
    <3>1. PICK q \in agreed : s.seq = q.its + 1
      BY <1>1, <2>1 DEF IInv, NetInv, Sound
    <3>2. q.its \in Nat /\ Initial(q.its)
      BY DEF IInv, TypeInv, Pair, PeerInv
    <3>3. tcb.rcv # r.its + 2
      <4>1. ~Initial(r.its + 1)
        BY <1>5, InitialNumbers
      <4>2. tcb.rcv = q.its + 1
        BY <2>1, <3>1
      <4>3. tcb.rcv = r.its + 2 => q.its = r.its + 1
        BY <1>5, <3>2, <4>2
      <4>4. QED BY <3>2, <4>1, <4>3
    <3>4. n = tcb.rcv + 1 /\ tcb.rcv = r.its + 1
      BY <1>4, <2>1, <3>3 DEF Received
    <3>5. QED BY <1>5, <3>4
  <2>2. CASE ~(s.kind = "data" /\ s.seq = tcb.rcv)
    BY <1>4, <2>2 DEF Received
  <2>3. QED BY <2>1, <2>2
<1>7. /\ tcb' \in Tcb /\ tcb'.state = "ESTAB" /\ tcb'.nxt = tcb.nxt /\ tcb'.una = tcb.una
      /\ tcb'.at = tcb.at /\ tcb'.rcv = n
  <2>1. n \in Nat
    BY <1>5, <1>6
  <2> HIDE DEF n
  <2>2. QED BY <1>1, <1>3, <2>1 DEF Tcb
<1> HIDE DEF n
<1>8. /\ NetInv' /\ net' \subseteq Segment
      /\ IsFiniteSet(net') /\ Cardinality(net') <= WireMax
  <2>1. \E sends \in BOOLEAN : Xmit(sends, Ours(tcb', "ack", tcb'.nxt, tcb'.rcv))
    <3>1. Xmit(TRUE, Ack(tcb')) \/ Xmit(FALSE, Ack(tcb'))
      BY <1>1 DEF Xmit
    <3>2. QED BY <3>1 DEF Ack
  <2>2. QED BY <1>1, <1>3, <1>7, <2>1, OwnSent
<1>9. TypeInv'
  BY <1>1, <1>7, <1>8, TypeStep DEF IInv, TypeInv, TypeOK, Bounded, link, others
<1>10. PeerInv'
  BY <1>1, PeersKeep DEF IInv, TypeInv
<1>11. TcbInv' /\ CallInv'
  BY <1>1, <1>3, <1>4, <1>6, <1>7 DEF IInv, TcbInv, CallInv, link, others
<1>12. QED BY <1>8, <1>9, <1>10, <1>11 DEF IInv

\* A channel that is released is closed, or listens again.
LEMMA Released ==
    ASSUME NEW t \in Tcb, Release(t), armed \in BOOLEAN, t.state # "SYN_RCVD"
    PROVE  tcb' \in Tcb /\ tcb'.state # "SYN_RCVD" /\ chan' \in {"closed", "listen"}
<1>1. CASE armed
  BY <1>1, ListenTcb DEF Release
<1>2. CASE ~armed
  BY <1>2 DEF Release
<1>3. QED BY <1>1, <1>2

LEMMA RecvResetStep ==
    ASSUME IInv, NEW s \in net, RecvReset(s)
    PROVE  IInv'
<1>1. call.pc = "recv" /\ Release(tcb) /\ call' = Idle /\ UNCHANGED <<armed, drawn, net, others>>
  BY DEF RecvReset
<1>2. tcb \in Tcb /\ tcb.state = "ESTAB" /\ armed \in BOOLEAN
  BY <1>1, OpenEnd DEF IInv, CallInv, TypeInv, TypeOK
<1>3. tcb' \in Tcb /\ tcb'.state # "SYN_RCVD" /\ chan' \in {"closed", "listen"}
  BY <1>1, <1>2, Released
<1>4. TypeInv'
  BY <1>1, <1>3, IdleCall, TypeStep DEF IInv, TypeInv, TypeOK, others
<1>5. NetInv' /\ PeerInv'
  BY <1>1 DEF IInv, NetInv, PeerInv, others
<1>6. TcbInv' /\ CallInv'
  BY <1>1, <1>3, IdleCall DEF TcbInv, CallInv
<1>7. QED BY <1>4, <1>5, <1>6 DEF IInv

LEMMA CloseStep ==
    ASSUME IInv, NEW ok \in BOOLEAN, Close(ok)
    PROVE  IInv'
<1>1. call.pc = "idle" /\ UNCHANGED <<call, drawn, others>>
  BY DEF Close
<1>2. CASE chan = "tcp"
  <2> DEFINE n == IF ok THEN tcb.nxt + 1 ELSE tcb.nxt
             t == [tcb EXCEPT !.nxt = n, !.state = "CLOSED"]
  <2>1. tcb \in Tcb /\ tcb.at \in Ends /\ tcb.nxt \in Nat /\ armed \in BOOLEAN
    BY <1>2, OpenEnd DEF IInv, TypeInv, TypeOK, Tcb
  <2>2. /\ Xmit(ok, Ours(tcb, "fin", tcb.nxt, tcb.rcv)) /\ Release(t)
        /\ UNCHANGED armed
    BY <1>2 DEF Close
  <2>3. t \in Tcb /\ t.state = "CLOSED"
    <3>1. n \in Nat /\ "CLOSED" \in States
      BY <2>1 DEF States
    <3>2. t = [tcb EXCEPT !.nxt = n, !.state = "CLOSED"]
      OBVIOUS
    <3> HIDE DEF t, n
    <3>3. QED BY <2>1, <3>1, <3>2 DEF Tcb
  <2> HIDE DEF t
  <2>4. tcb' \in Tcb /\ tcb'.state # "SYN_RCVD" /\ chan' \in {"closed", "listen"}
    BY <2>1, <2>2, <2>3, Released
  <2>5. /\ NetInv' /\ net' \subseteq Segment
        /\ IsFiniteSet(net') /\ Cardinality(net') <= WireMax
    BY <1>1, <2>1, <2>2, OwnSent
  <2>6. TypeInv'
    BY <1>1, <2>2, <2>4, <2>5, TypeStep DEF IInv, TypeInv, TypeOK, Bounded, others
  <2>7. PeerInv'
    BY <1>1, PeersKeep DEF IInv, TypeInv
  <2>8. TcbInv' /\ CallInv'
    BY <1>1, <2>4 DEF TcbInv, CallInv
  <2>9. QED BY <2>5, <2>6, <2>7, <2>8 DEF IInv
<1>3. CASE chan # "tcp"
  <2>1. chan' = "closed" /\ armed' = FALSE /\ UNCHANGED <<tcb, net>>
    BY <1>3 DEF Close
  <2>2. TypeInv'
    BY <1>1, <2>1, TypeStep DEF IInv, TypeInv, TypeOK, Bounded, others
  <2>3. NetInv' /\ PeerInv'
    BY <1>1, <2>1 DEF IInv, NetInv, PeerInv, others
  <2>4. TcbInv' /\ CallInv'
    BY <1>1, <2>1 DEF IInv, TcbInv, CallInv, others
  <2>5. QED BY <2>2, <2>3, <2>4 DEF IInv
<1>4. QED BY <1>2, <1>3

-----------------------------------------------------------------------------
(* The peers.                                                              *)

\* A peer's step: its segment is sound, and it agrees to no pair with our
\* number of a half-open connection, but for the connection's own.
LEMMA PeerStep ==
    ASSUME IInv, UNCHANGED <<tcb, call, link, drawn>>, PeerInv',
           agreed \subseteq agreed', agreed' \subseteq Pair, theirs' \in Nat,
           peer' \in [Ends -> Peer],
           tcb.state = "SYN_RCVD" =>
                \A r \in agreed' \ agreed : r.ours = tcb.nxt => tcb.rcv = r.its + 1,
           NEW s, UNCHANGED net \/ (Sent(s) /\ s \in Segment /\ s.us /\ Sound(s, agreed', drawn))
    PROVE  IInv'
<1>1. drawn \in Nat /\ drawn' = drawn /\ tcb' = tcb /\ call' = call /\ chan' = chan /\ armed' = armed
  BY DEF IInv, TypeInv, link
<1>2. /\ NetInv' /\ net' \subseteq Segment
      /\ IsFiniteSet(net') /\ Cardinality(net') <= WireMax
      /\ \A x \in net' : x \in net \/ x.us
  <2>1. CASE UNCHANGED net
    <3>1. net \subseteq Segment
      BY DEF IInv, TypeInv
    <3>2. \A x \in net : x \in Segment /\ x.seq \in Nat /\ Sound(x, agreed, drawn)
      BY <3>1 DEF IInv, NetInv, Segment
    <3>3. \A x \in net : Sound(x, agreed', drawn')
      BY <1>1, <3>2, SoundStays
    <3>4. NetInv'
      BY <2>1, <3>3 DEF NetInv
    <3>5. QED BY <2>1, <3>4 DEF IInv, TypeInv, TypeOK
  <2>2. CASE Sent(s) /\ s \in Segment /\ s.us /\ Sound(s, agreed', drawn)
    <3>1. drawn' \in Nat /\ drawn <= drawn' /\ Sound(s, agreed', drawn')
      BY <1>1, <2>2
    <3>2. TypeInv /\ NetInv
      BY DEF IInv
    <3>3. /\ NetInv' /\ net' \subseteq Segment
          /\ IsFiniteSet(net') /\ Cardinality(net') <= WireMax
          /\ \A x \in net' : x \in net \/ x = s
      BY <2>2, <3>1, <3>2, SoundSent
    <3>4. QED BY <2>2, <3>3
  <2>3. QED BY <2>1, <2>2
<1>3. TypeInv'
  BY <1>1, <1>2, TypeStep DEF IInv, TypeInv, TypeOK, Bounded
<1>4. tcb.state = "SYN_RCVD" => Given(tcb.nxt, tcb.rcv, net', agreed')
  BY <1>2 DEF IInv, TcbInv, Given
<1>5. TcbInv' /\ CallInv'
  BY <1>1, <1>4 DEF IInv, TcbInv, CallInv
<1>6. QED BY <1>2, <1>3, <1>5 DEF IInv

\* What a peer knows changes to what it has agreed to.
LEMMA PeerBecomes ==
    ASSUME IInv, UNCHANGED drawn, NEW e \in Ends, NEW rec \in Peer, Becomes(e, rec),
           agreed \subseteq agreed',
           \A r \in agreed' \ agreed :
                Initial(r.ours) /\ Initial(r.its) /\ r.ours <= 10 * drawn,
           Initial(rec.iss), rec.st = "sent" => e[1] \in Clients,
           rec.st \in {"rcvd", "estab", "served"} =>
                \E r \in agreed' : r.end = e /\ r.ours = rec.irs /\ r.its = rec.iss
    PROVE  PeerInv' /\ peer' \in [Ends -> Peer]
<1>1. /\ peer' \in [Ends -> Peer] /\ peer'[e] = rec
      /\ \A f \in Ends \ {e} : peer'[f] = peer[f]
  BY DEF IInv, TypeInv, Becomes
<1>2. \A r \in agreed' : Initial(r.ours) /\ Initial(r.its) /\ r.ours <= 10 * drawn'
  BY DEF IInv, PeerInv
<1>3. \A f \in Ends \ {e} :
          /\ Initial(peer[f].iss) /\ (peer[f].st = "sent" => f[1] \in Clients)
          /\ peer[f].st \in {"rcvd", "estab", "served"} =>
                \E r \in agreed' : r.end = f /\ r.ours = peer[f].irs /\ r.its = peer[f].iss
  BY DEF IInv, PeerInv
<1>4. QED BY <1>1, <1>2, <1>3 DEF PeerInv

\* Segments of a peer.
LEMMA FromSegment ==
    ASSUME NEW e \in Ends, NEW kind \in {"syn", "synack", "ack", "data", "rst"},
           NEW seq \in Nat, NEW ack \in Nat
    PROVE  /\ From(e, kind, seq, ack) \in Segment /\ From(e, kind, seq, ack).us
           /\ From(e, kind, seq, ack).end = e /\ From(e, kind, seq, ack).kind = kind
           /\ From(e, kind, seq, ack).seq = seq /\ From(e, kind, seq, ack).ack = ack
BY DEF From, Segment

\* A peer's answers out of a pair it has agreed to.
LEMMA FromPair ==
    ASSUME NEW e \in Ends, NEW pairs, NEW r \in pairs, r \in Pair, r.end = e, NEW m
    PROVE  /\ Sound(From(e, "synack", r.its, r.ours + 1), pairs, m)
           /\ \A kind \in {"ack", "data"} : Sound(From(e, kind, r.its + 1, r.ours + 1), pairs, m)
BY DEF From, Sound, Pair

LEMMA NoneIsPeer == None \in Peer /\ None.st = "none" /\ Initial(None.iss)
BY DEF None, Peer, Initial

\* What is known of a peer.
LEMMA PeerFields ==
    ASSUME IInv, NEW e \in Ends
    PROVE  /\ peer[e] \in Peer /\ peer[e].iss \in Nat /\ peer[e].irs \in Nat
           /\ Initial(peer[e].iss) /\ (peer[e].st = "sent" => e[1] \in Clients)
           /\ peer[e].st \in {"rcvd", "estab", "served"} =>
                \E r \in agreed : /\ r \in Pair /\ r.end = e
                                  /\ r.ours = peer[e].irs /\ r.its = peer[e].iss
<1>1. peer[e] \in Peer /\ agreed \subseteq Pair
  BY DEF IInv, TypeInv
<1>2. QED BY <1>1 DEF IInv, PeerInv, Peer

\* The ACK and the data of an established peer are sound.
LEMMA EstablishedSends ==
    ASSUME IInv, NEW e \in Ends, peer[e].st \in {"rcvd", "estab", "served"}
    PROVE  /\ \A kind \in {"ack", "data"} :
                 LET s == From(e, kind, peer[e].iss + 1, peer[e].irs + 1)
                 IN  s \in Segment /\ s.us /\ Sound(s, agreed, drawn)
           /\ LET s == From(e, "synack", peer[e].iss, peer[e].irs + 1)
              IN  s \in Segment /\ s.us /\ Sound(s, agreed, drawn)
<1>1. PICK r \in agreed : r \in Pair /\ r.end = e /\ r.ours = peer[e].irs /\ r.its = peer[e].iss
  BY PeerFields
<1>2. peer[e].iss \in Nat /\ peer[e].irs \in Nat /\ peer[e].iss + 1 \in Nat /\ peer[e].irs + 1 \in Nat
  BY PeerFields
<1>3. /\ Sound(From(e, "synack", peer[e].iss, peer[e].irs + 1), agreed, drawn)
      /\ \A kind \in {"ack", "data"} :
            Sound(From(e, kind, peer[e].iss + 1, peer[e].irs + 1), agreed, drawn)
  BY <1>1, FromPair
<1>4. /\ From(e, "synack", peer[e].iss, peer[e].irs + 1) \in Segment
      /\ From(e, "synack", peer[e].iss, peer[e].irs + 1).us
  BY <1>2 DEF From, Segment
<1>5. \A kind \in {"ack", "data"} :
          /\ From(e, kind, peer[e].iss + 1, peer[e].irs + 1) \in Segment
          /\ From(e, kind, peer[e].iss + 1, peer[e].irs + 1).us
  BY <1>2 DEF From, Segment
<1>6. QED BY <1>3, <1>4, <1>5

LEMMA ClientCallsStep ==
    ASSUME IInv, NEW e \in Ends, ClientCalls(e)
    PROVE  IInv'
<1> DEFINE n == 10 * theirs'
           s == From(e, "syn", n, 0)
           rec == [None EXCEPT !.st = "sent", !.iss = n]
<1>1. /\ e[1] \in Clients /\ theirs' = theirs + 1 /\ Becomes(e, rec) /\ Sent(s)
      /\ UNCHANGED <<tcb, call, link, drawn, agreed>>
  BY DEF ClientCalls, Fresh
<1>2. theirs' \in Nat /\ n \in Nat /\ Initial(n)
  <2>1. theirs' \in Nat
    BY <1>1 DEF IInv, TypeInv
  <2>2. \A k \in Nat : Initial(10 * k) /\ 10 * k \in Nat
    BY DrawnIsInitial
  <2>3. QED BY <2>1, <2>2, Zenon
<1> HIDE DEF n
<1>3. rec \in Peer /\ rec.st = "sent" /\ rec.iss = n
  BY <1>2 DEF Peer, None
<1>4. s \in Segment /\ s.us /\ s.kind = "syn" /\ s.seq = n
  BY <1>2, FromSegment
<1>5. Sound(s, agreed', drawn)
  BY <1>2, <1>4 DEF Sound
<1> HIDE DEF rec, s
<1>6. PeerInv' /\ peer' \in [Ends -> Peer]
  BY <1>1, <1>2, <1>3, PeerBecomes
<1>7. agreed' \subseteq Pair
  BY <1>1 DEF IInv, TypeInv
<1>8. QED BY <1>1, <1>2, <1>4, <1>5, <1>6, <1>7, PeerStep

LEMMA SendsAgainStep ==
    ASSUME IInv, NEW e \in Ends, SendsAgain(e)
    PROVE  IInv'
<1>1. PICK s \in Pending(e) : Sent(s)
  BY DEF SendsAgain
<1>2. UNCHANGED <<tcb, call, link, drawn, peer, theirs, agreed>>
  BY DEF SendsAgain, others
<1>3. s \in Segment /\ s.us /\ Sound(s, agreed, drawn)
  <2>1. CASE peer[e].st = "sent"
    <3>1. s = From(e, "syn", peer[e].iss, 0) /\ peer[e].iss \in Nat /\ Initial(peer[e].iss)
      BY <1>1, <2>1, PeerFields DEF Pending
    <3>2. s \in Segment /\ s.us /\ s.kind = "syn" /\ s.seq = peer[e].iss
      BY <3>1, FromSegment
    <3>3. QED BY <3>1, <3>2 DEF Sound
  <2>2. CASE peer[e].st = "rcvd"
    BY <1>1, <2>2, EstablishedSends DEF Pending
  <2>3. CASE peer[e].st = "estab" /\ e[1] \in Clients \ Silent
    BY <1>1, <2>3, EstablishedSends DEF Pending
  <2>4. QED BY <1>1, <2>1, <2>2, <2>3 DEF Pending
<1>4. PeerInv' /\ peer' \in [Ends -> Peer] /\ agreed' \subseteq Pair /\ theirs' \in Nat
  BY <1>2 DEF IInv, TypeInv, PeerInv
<1>5. QED BY <1>1, <1>2, <1>3, <1>4, PeerStep

\* A reset says nothing of any number.
LEMMA ResetSound ==
    ASSUME NEW e \in Ends, NEW n \in Nat
    PROVE  LET s == From(e, "rst", n, 0)
           IN  s \in Segment /\ s.us /\ Sound(s, agreed, drawn)
<1> DEFINE s == From(e, "rst", n, 0)
<1>1. s \in Segment /\ s.us /\ s.kind = "rst"
  BY FromSegment
<1>2. QED BY <1>1 DEF Sound

\* A peer that forgets its connection.
LEMMA ForgetsStep ==
    ASSUME IInv, NEW e \in Ends, Becomes(e, None), UNCHANGED <<tcb, call, link, drawn, theirs, agreed>>,
           NEW s, UNCHANGED net \/ (Sent(s) /\ s \in Segment /\ s.us /\ Sound(s, agreed, drawn))
    PROVE  IInv'
<1>1. PeerInv' /\ peer' \in [Ends -> Peer]
  BY NoneIsPeer, PeerBecomes
<1>2. agreed' \subseteq Pair /\ theirs' \in Nat /\ agreed' = agreed
  BY DEF IInv, TypeInv
<1>3. QED BY <1>1, <1>2, PeerStep

LEMMA GivesUpStep ==
    ASSUME IInv, NEW e \in Ends, NEW tells \in BOOLEAN, GivesUp(e, tells)
    PROVE  IInv'
<1> DEFINE s == From(e, "rst", peer[e].iss + 1, 0)
<1>1. /\ Becomes(e, None) /\ UNCHANGED <<tcb, call, link, drawn, theirs, agreed>>
      /\ Sent(s) \/ UNCHANGED net
  BY DEF GivesUp
<1>2. peer[e].iss + 1 \in Nat
  BY PeerFields
<1>3. s \in Segment /\ s.us /\ Sound(s, agreed, drawn)
  BY <1>2, ResetSound
<1> HIDE DEF s
<1>4. QED BY <1>1, <1>3, ForgetsStep

\* A peer that answers, and changes nothing else.
LEMMA AnswersStep ==
    ASSUME IInv, UNCHANGED <<tcb, call, link, drawn, others>>,
           NEW s, UNCHANGED net \/ (Sent(s) /\ s \in Segment /\ s.us /\ Sound(s, agreed, drawn))
    PROVE  IInv'
<1>1. UNCHANGED <<tcb, call, link, drawn, peer, theirs, agreed>>
  BY DEF others
<1>2. PeerInv' /\ peer' \in [Ends -> Peer] /\ agreed' \subseteq Pair /\ theirs' \in Nat
  BY <1>1 DEF IInv, TypeInv, PeerInv
<1>3. QED BY <1>1, <1>2, PeerStep

\* A peer that moves on within the pair it has agreed to.
LEMMA MovesOnStep ==
    ASSUME IInv, UNCHANGED <<tcb, call, link, drawn, net, theirs, agreed>>,
           NEW e \in Ends, peer[e].st \in {"rcvd", "estab", "served"},
           NEW st \in {"estab", "served"}, Becomes(e, [peer[e] EXCEPT !.st = st])
    PROVE  IInv'
<1> DEFINE rec == [peer[e] EXCEPT !.st = st]
<1>1. rec \in Peer /\ rec.st = st /\ rec.iss = peer[e].iss /\ rec.irs = peer[e].irs
  BY PeerFields DEF Peer
<1>2. PICK r \in agreed : r.end = e /\ r.ours = peer[e].irs /\ r.its = peer[e].iss
  BY PeerFields
<1>3. Initial(rec.iss)
  BY <1>1, PeerFields
<1> HIDE DEF rec
<1>4. Becomes(e, rec)
  BY DEF rec
<1>5. PeerInv' /\ peer' \in [Ends -> Peer]
  BY <1>1, <1>2, <1>3, <1>4, PeerBecomes
<1>6. agreed' \subseteq Pair /\ theirs' \in Nat
  BY DEF IInv, TypeInv
<1>7. QED BY <1>5, <1>6, PeerStep

\* A peer that agrees to a pair: with its first number, and the one it has
\* heard from us.
LEMMA AgreesStep ==
    ASSUME IInv, UNCHANGED <<tcb, call, link, drawn>>, theirs' \in Nat,
           NEW e \in Ends, NEW rec \in Peer, Becomes(e, rec), Agree(e, rec.irs, rec.iss),
           rec.st \in {"rcvd", "estab"}, Initial(rec.iss),
           Initial(rec.irs), rec.irs <= 10 * drawn,
           tcb.state = "SYN_RCVD" /\ rec.irs = tcb.nxt => tcb.rcv = rec.iss + 1,
           NEW s, s \in Segment, s.us, Sent(s), Sound(s, agreed', drawn)
    PROVE  IInv'
<1> DEFINE q == [end |-> e, ours |-> rec.irs, its |-> rec.iss]
<1>1. agreed' = agreed \cup {q}
  BY DEF Agree
<1>2. q \in Pair /\ q.end = e /\ q.ours = rec.irs /\ q.its = rec.iss
  BY DEF Pair, Peer
<1> HIDE DEF q
<1>3. agreed \subseteq agreed' /\ agreed' \subseteq Pair /\ q \in agreed'
      /\ \A r \in agreed' \ agreed : r = q
  BY <1>1, <1>2 DEF IInv, TypeInv
<1>4. \A r \in agreed' \ agreed : Initial(r.ours) /\ Initial(r.its) /\ r.ours <= 10 * drawn
  BY <1>2, <1>3
<1>5. \E r \in agreed' : r.end = e /\ r.ours = rec.irs /\ r.its = rec.iss
  BY <1>2, <1>3
<1>6. PeerInv' /\ peer' \in [Ends -> Peer]
  BY <1>3, <1>4, <1>5, PeerBecomes
<1>7. tcb.state = "SYN_RCVD" =>
           \A r \in agreed' \ agreed : r.ours = tcb.nxt => tcb.rcv = r.its + 1
  BY <1>2, <1>3
<1>8. QED BY <1>3, <1>6, <1>7, PeerStep

\* What of ours a peer can hear, and how it bears on a half-open connection.
LEMMA HeardByPeer ==
    ASSUME IInv, NEW s \in net, ~s.us
    PROVE  /\ s \in Segment /\ s.end \in Ends /\ s.seq \in Nat /\ s.ack \in Nat
           /\ s.kind \in {"syn", "synack"} => Initial(s.seq) /\ s.seq <= 10 * drawn
           /\ tcb.state = "SYN_RCVD" /\ s.seq = tcb.nxt =>
                 s.kind # "syn" /\ (s.kind = "synack" => s.ack = tcb.rcv)
<1>1. s \in Segment
  BY DEF IInv, TypeInv
<1>2. Sound(s, agreed, drawn)
  BY DEF IInv, NetInv
<1>3. tcb.state = "SYN_RCVD" => Given(tcb.nxt, tcb.rcv, net, agreed)
  BY DEF IInv, TcbInv
<1>4. QED BY <1>1, <1>2, <1>3 DEF Segment, Sound, Given

\* The server: only its first SYN makes it agree.
LEMMA ServerHearsStep ==
    ASSUME IInv, NEW s \in net, ~s.us, NEW refuses \in BOOLEAN, ServerHears(s, refuses),
           UNCHANGED <<tcb, call, link, drawn>>
    PROVE  IInv'
<1> DEFINE e == s.end
           p == peer[e]
<1>1. /\ s \in Segment /\ e \in Ends /\ s.seq \in Nat /\ s.ack \in Nat
      /\ s.kind \in {"syn", "synack"} => Initial(s.seq) /\ s.seq <= 10 * drawn
      /\ tcb.state = "SYN_RCVD" /\ s.seq = tcb.nxt => s.kind # "syn"
  BY HeardByPeer
<1>2. e[1] = Server /\ e[1] \notin Clients
  BY OpenAssumption DEF ServerHears
<1>3. p.st \in {"none", "sent", "rcvd", "estab", "served"} /\ p.st # "sent"
  BY <1>1, <1>2, PeerFields DEF Peer
<1>4. CASE /\ s.kind = "syn" /\ Fresh /\ Agree(e, s.seq, 10 * theirs')
           /\ Becomes(e, [st |-> "rcvd", iss |-> 10 * theirs', irs |-> s.seq])
           /\ Sent(From(e, "synack", 10 * theirs', s.seq + 1))
  <2> DEFINE n == 10 * theirs'
             rec == [st |-> "rcvd", iss |-> n, irs |-> s.seq]
             a == From(e, "synack", n, s.seq + 1)
             q == [end |-> e, ours |-> s.seq, its |-> n]
  <2>1. theirs' \in Nat /\ n \in Nat /\ Initial(n) /\ s.seq + 1 \in Nat
    <3>1. theirs' \in Nat
      BY <1>4 DEF IInv, TypeInv, Fresh
    <3>2. \A k \in Nat : Initial(10 * k) /\ 10 * k \in Nat
      BY DrawnIsInitial
    <3>3. n \in Nat /\ Initial(n)
      BY <3>1, <3>2, Zenon
    <3>4. s.seq + 1 \in Nat
      BY <1>1
    <3> HIDE DEF n
    <3>5. QED BY <3>1, <3>3, <3>4
  <2> HIDE DEF n
  <2>2. rec \in Peer /\ rec.st = "rcvd" /\ rec.iss = n /\ rec.irs = s.seq
    BY <1>1, <2>1 DEF Peer
  <2>3. Becomes(e, rec) /\ Agree(e, rec.irs, rec.iss) /\ Sent(a)
    BY <1>4 DEF n
  <2>4. a \in Segment /\ a.us
    BY SMTT(30), <1>1, <2>1, FromSegment
  <2>5. q \in Pair /\ q \in agreed' /\ q.end = e /\ q.ours = s.seq /\ q.its = n
    BY <1>1, <2>1, <2>2, <2>3 DEF Pair, Agree
  <2> HIDE DEF rec, q
  <2>6. Sound(a, agreed', drawn)
    <3>1. Sound(From(e, "synack", q.its, q.ours + 1), agreed', drawn)
      BY <1>1, <2>5, FromPair
    <3>2. QED BY <2>5, <3>1
  <2> HIDE DEF a
  <2>7. Initial(rec.iss) /\ Initial(rec.irs) /\ rec.irs <= 10 * drawn
    BY <1>1, <1>4, <2>1, <2>2
  <2>8. tcb.state = "SYN_RCVD" /\ rec.irs = tcb.nxt => tcb.rcv = rec.iss + 1
    BY <1>1, <1>4, <2>2
  <2>9. QED BY <1>1, <2>1, <2>2, <2>3, <2>4, <2>6, <2>7, <2>8, AgreesStep
<1>5. CASE Sent(Rst(s)) /\ UNCHANGED others
  <2>1. Rst(s) \in Segment /\ Rst(s).us /\ Sound(Rst(s), agreed, drawn)
    BY <1>1, ResetSound DEF Rst
  <2>2. QED BY <1>5, <2>1, AnswersStep
<1>6. CASE /\ s.kind = "syn" /\ p.st # "none" /\ UNCHANGED others
           /\ Sent(IF p.st = "rcvd" /\ p.irs = s.seq
                   THEN From(e, "synack", p.iss, p.irs + 1) ELSE AckOf(e))
  <2>1. p.st \in {"rcvd", "estab", "served"}
    BY <1>3, <1>6
  <2>2. PICK a \in {From(e, "synack", p.iss, p.irs + 1), AckOf(e)} : Sent(a)
    BY <1>6
  <2>3. a \in Segment /\ a.us /\ Sound(a, agreed, drawn)
    BY <1>1, <2>1, <2>2, EstablishedSends DEF AckOf
  <2>4. QED BY <1>6, <2>2, <2>3, AnswersStep
<1>7. CASE p.st = "rcvd" /\ Becomes(e, [p EXCEPT !.st = "estab"]) /\ UNCHANGED <<net, theirs, agreed>>
  BY <1>1, <1>7, MovesOnStep
<1>8. CASE Becomes(e, None) /\ UNCHANGED <<net, theirs, agreed>>
  BY <1>1, <1>8, ForgetsStep
<1>9. QED BY <1>4, <1>5, <1>6, <1>7, <1>8 DEF ServerHears

\* A client: it agrees to the first SYN+ACK that acknowledges its SYN.
LEMMA ClientHearsStep ==
    ASSUME IInv, NEW s \in net, ~s.us, ClientHears(s), UNCHANGED <<tcb, call, link, drawn>>
    PROVE  IInv'
<1> DEFINE e == s.end
           p == peer[e]
<1>1. /\ s \in Segment /\ e \in Ends /\ s.seq \in Nat /\ s.ack \in Nat
      /\ s.kind \in {"syn", "synack"} => Initial(s.seq) /\ s.seq <= 10 * drawn
      /\ tcb.state = "SYN_RCVD" /\ s.seq = tcb.nxt =>
            (s.kind = "synack" => s.ack = tcb.rcv)
  BY HeardByPeer
<1>2. p \in Peer /\ p.iss \in Nat /\ Initial(p.iss)
  BY <1>1, PeerFields
<1>3. CASE /\ s.kind = "synack" /\ s.ack = p.iss + 1 /\ UNCHANGED theirs
           /\ Becomes(e, [p EXCEPT !.st = "estab", !.irs = s.seq])
           /\ Agree(e, s.seq, p.iss) /\ Sent(From(e, "ack", p.iss + 1, s.seq + 1))
  <2> DEFINE rec == [p EXCEPT !.st = "estab", !.irs = s.seq]
             a == From(e, "ack", p.iss + 1, s.seq + 1)
             q == [end |-> e, ours |-> s.seq, its |-> p.iss]
  <2>1. theirs' \in Nat /\ s.seq + 1 \in Nat /\ p.iss + 1 \in Nat
    BY <1>1, <1>2, <1>3 DEF IInv, TypeInv
  <2>2. rec \in Peer /\ rec.st = "estab" /\ rec.iss = p.iss /\ rec.irs = s.seq
    <3>1. rec = [p EXCEPT !.st = "estab", !.irs = s.seq]
      OBVIOUS
    <3> HIDE DEF rec, p
    <3>2. QED BY <1>1, <1>2, <3>1 DEF Peer
  <2>3. Becomes(e, rec) /\ Agree(e, rec.irs, rec.iss) /\ Sent(a)
    BY <1>3, <2>2
  <2>4. a \in Segment /\ a.us
    BY <1>1, <2>1 DEF From, Segment
  <2>5. q \in Pair /\ q \in agreed' /\ q.end = e /\ q.ours = s.seq /\ q.its = p.iss
    BY <1>1, <1>2, <1>3 DEF Pair, Agree
  <2> HIDE DEF rec, q
  <2>6. Sound(a, agreed', drawn)
    <3>1. Sound(From(e, "ack", q.its + 1, q.ours + 1), agreed', drawn)
      BY <1>1, <2>5, FromPair
    <3>2. QED BY <2>5, <3>1
  <2> HIDE DEF a
  <2>7. Initial(rec.iss) /\ Initial(rec.irs) /\ rec.irs <= 10 * drawn
    BY <1>1, <1>2, <1>3, <2>2
  <2>8. tcb.state = "SYN_RCVD" /\ rec.irs = tcb.nxt => tcb.rcv = rec.iss + 1
    BY <1>1, <1>3, <2>2
  <2>9. QED BY <1>1, <2>1, <2>2, <2>3, <2>4, <2>6, <2>7, <2>8, AgreesStep
<1>4. CASE Sent(Rst(s)) /\ UNCHANGED others
  <2>1. Rst(s) \in Segment /\ Rst(s).us /\ Sound(Rst(s), agreed, drawn)
    BY <1>1, ResetSound DEF Rst
  <2>2. QED BY <1>4, <2>1, AnswersStep
<1>5. CASE p.st \in {"estab", "served"} /\ Sent(AckOf(e)) /\ UNCHANGED others
  <2>1. AckOf(e) \in Segment /\ AckOf(e).us /\ Sound(AckOf(e), agreed, drawn)
    BY <1>1, <1>5, EstablishedSends DEF AckOf
  <2>2. QED BY <1>5, <2>1, AnswersStep
<1>6. CASE p.st = "estab" /\ Becomes(e, [p EXCEPT !.st = "served"]) /\ UNCHANGED <<net, theirs, agreed>>
  BY <1>1, <1>6, MovesOnStep
<1>7. CASE Becomes(e, None) /\ UNCHANGED <<net, theirs, agreed>>
  BY <1>1, <1>7, ForgetsStep
<1>8. QED BY <1>3, <1>4, <1>5, <1>6, <1>7 DEF ClientHears

-----------------------------------------------------------------------------
(* The theorems.                                                           *)

LEMMA InitIInv ==
    ASSUME Init
    PROVE  IInv
<1>1. /\ tcb = [state |-> "CLOSED", at |-> <<Server, ListenPort>>, nxt |-> 0, una |-> 0, rcv |-> 0]
      /\ call = Idle /\ chan = "closed" /\ armed = FALSE /\ drawn = 0
      /\ net = {} /\ peer = [e \in Ends |-> None] /\ theirs = 0 /\ agreed = {}
  BY DEF Init
<1>2. tcb \in Tcb /\ tcb.state = "CLOSED" /\ tcb.nxt = 0 /\ tcb.una = 0 /\ tcb.rcv = 0
  BY <1>1 DEF Tcb, States
<1>3. call \in Call /\ Bounded(call) /\ call.pc = "idle"
  BY <1>1, IdleCall
<1>4. IsFiniteSet(net) /\ Cardinality(net) <= WireMax
  BY <1>1, FS_EmptySet, OpenAssumption
<1>5. TypeOK
  <2>1. {tcb.nxt, tcb.una, tcb.rcv} \subseteq Nat
    BY <1>2
  <2>2. call.pc \in {"idle", "attempt", "synack", "poll", "recv"} /\ call.tries \in 0 .. SynAttempts
    BY <1>3 DEF Call
  <2>3. \E longest \in Budgets \cup {SynWait} : call.left \in 0 .. longest
    BY <1>3 DEF Bounded
  <2>4. QED BY <1>1, <1>2, <1>4, <2>1, <2>2, <2>3 DEF TypeOK
<1>6. TypeInv
  BY <1>1, <1>2, <1>3, <1>4, <1>5, NoneIsPeer DEF TypeInv
<1>7. NetInv /\ PeerInv
  BY <1>1, NoneIsPeer DEF NetInv, PeerInv
<1>8. TcbInv /\ CallInv
  BY <1>1, <1>2, <1>3 DEF TcbInv, CallInv
<1>9. QED BY <1>6, <1>7, <1>8 DEF IInv

LEMMA NextIInv ==
    ASSUME IInv, Next
    PROVE  IInv'
<1>1. CASE Opening
  <2>1. CASE \E port \in Ports, ok \in BOOLEAN : Attempt(port, ok)
    BY <2>1, AttemptStep
  <2>2. CASE \E s \in net, ok \in BOOLEAN : SynAck(s, ok)
    BY <2>2, SynAckStep
  <2>3. CASE (\E s \in net : SynRefused(s) \/ SynOther(s)) \/ SynSilence
    BY <2>3, SynTickStep DEF SynRefused, SynOther, SynSilence
  <2>4. QED BY <1>1, <2>1, <2>2, <2>3 DEF Opening
<1>2. CASE Application
  <2>1. CASE Connect \/ Listen \/ Unlisten \/ \E iy \in Budgets : Poll(iy)
    BY <2>1, ConnectStep, ListenStep, UnlistenStep, PollStep
  <2>2. CASE \E ok \in BOOLEAN : Close(ok) \/ Recv(ok) \/ \E s \in net : RecvHears(s, ok)
    BY <2>2, CloseStep, RecvStep, RecvHearsStep
  <2>3. CASE \E s \in net : RecvReset(s)
    BY <2>3, RecvResetStep
  <2>4. QED BY <1>2, <2>1, <2>2, <2>3 DEF Application
<1>3. CASE Peers
  <2>1. CASE \E e \in Ends : ClientCalls(e) \/ SendsAgain(e) \/ \E tells \in BOOLEAN : GivesUp(e, tells)
    BY <2>1, ClientCallsStep, SendsAgainStep, GivesUpStep
  <2>2. CASE \E s \in net, refuses \in BOOLEAN : PeerHears(s, refuses)
    BY <2>2, ServerHearsStep, ClientHearsStep DEF PeerHears
  <2>3. QED BY <1>3, <2>1, <2>2 DEF Peers
<1>4. CASE \E s \in net, ok \in BOOLEAN : Polling(s, ok)
  <2>1. PICK s \in net, ok \in BOOLEAN : Polling(s, ok)
    BY <1>4
  <2>2. CASE FirstSyn(s, ok) \/ SynAgain(s, ok) \/ ResetHalfOpen(s) \/ Accept(s, ok)
    BY <2>2, FirstSynStep, SynAgainStep, ResetHalfOpenStep, AcceptStep
  <2>3. CASE PollOther(s)
    BY <2>3, PollTickStep DEF PollOther
  <2>4. QED BY <2>1, <2>2, <2>3 DEF Polling
<1>5. CASE PollSilence
  BY <1>5, PollTickStep DEF PollSilence
<1>6. CASE RecvReturns \/ Cancel
  BY <1>6, EndsStep DEF RecvReturns, Cancel
<1>7. CASE Blocked
  BY <1>7, SynTickStep, EndsStep DEF Blocked
<1>8. QED BY <1>1, <1>2, <1>3, <1>4, <1>5, <1>6, <1>7 DEF Next

LEMMA StutterStep ==
    ASSUME IInv, UNCHANGED vars
    PROVE  IInv'
<1>1. UNCHANGED <<tcb, call, chan, armed, drawn, net, peer, theirs, agreed>>
  BY DEF vars
<1>2. TypeInv' /\ NetInv' /\ PeerInv'
  BY <1>1 DEF IInv, TypeInv, TypeOK, NetInv, PeerInv
<1>3. TcbInv' /\ CallInv'
  BY <1>1 DEF IInv, TcbInv, CallInv
<1>4. QED BY <1>2, <1>3 DEF IInv

\* The invariant holds in every reachable state.
THEOREM Inductive == Spec => []IInv
<1>1. Init => IInv
  BY InitIInv
<1>2. IInv /\ [Next]_vars => IInv'
  BY NextIInv, StutterStep
<1>3. QED BY <1>1, <1>2, PTL DEF Spec

\* Type correctness, with the budget of a poll never below zero and the wire
\* within its bound.
THEOREM TypeCorrect == Spec => []TypeOK
<1>1. IInv => TypeOK
  BY DEF IInv, TypeInv
<1>2. QED BY <1>1, Inductive, PTL

\* A channel is open only on the numbers of one handshake, which its peer has
\* taken part in: the SYN+ACK of an earlier attempt on the same port, or the
\* ACK of an earlier client, opens nothing (WAIT_SYN_ACK and LISTEN_POLL).
THEOREM OpensOneHandshake == Spec => []Synchronised
<1>1. IInv => Synchronised
  <2> SUFFICES ASSUME IInv, chan = "tcp"
               PROVE  /\ tcb.state = "ESTAB" /\ tcb.nxt = tcb.una
                      /\ [end |-> tcb.at, ours |-> Start(tcb.nxt), its |-> Start(tcb.rcv)] \in agreed
    BY DEF Synchronised
  <2>1. tcb.state = "ESTAB" /\ tcb.nxt = tcb.una
    BY OpenEnd
  <2>2. PICK r \in agreed : /\ r.end = tcb.at /\ tcb.nxt = r.ours + 1
                            /\ tcb.rcv \in {r.its + 1, r.its + 2}
    BY OpenEnd
  <2>3. r \in Pair /\ r.ours \in Nat /\ r.its \in Nat /\ Initial(r.ours) /\ Initial(r.its)
    BY DEF IInv, TypeInv, Pair, PeerInv
  <2>4. Start(tcb.nxt) = r.ours /\ Start(tcb.rcv) = r.its
    BY <2>2, <2>3, InitialNumbers
  <2>5. r = [end |-> r.end, ours |-> r.ours, its |-> r.its]
    BY <2>3 DEF Pair
  <2>6. QED BY <2>1, <2>2, <2>4, <2>5
<1>2. QED BY <1>1, Inductive, PTL

=============================================================================
