------------------------- MODULE UnetChannels_proofs -------------------------
(***************************************************************************)
(* Proofs about UnetChannels for any number of connections, any ring, any  *)
(* length of a wait and any buffer: contexts follow their channels, the    *)
(* listener's record is sound, what is queued and what is reported closed  *)
(* is the channel's own, a suspended SEND can be resumed, and a datagram   *)
(* waits for its channel.                                                  *)
(*                                                                         *)
(* Base is what holds whatever the peers do.  The rest needs that a peer   *)
(* that was accepted does not reset its connection: HANDLE_FOREIGN_FRAME   *)
(* then closes the channel and leaves the listener's record (the run       *)
(* channels_rst).                                                          *)
(***************************************************************************)
EXTENDS UnetChannels, SequenceTheorems, TLAPS

-----------------------------------------------------------------------------
(* The inductive invariant.                                                *)

\* The call under way has the working context, on a channel of its kind, and
\* nothing is suspended meanwhile.
CallInv ==
    /\ call.op # "idle" => apend = NoChannel
    /\ call.op = "idle" => call.next = "none"
    /\ call.op \in Waits \cup {"enter"} => active = call.ch
    /\ call.op \in {"send", "recv", "enter", "close"} => chState[call.ch] = "tcp"
    /\ call.op = "poll" => chState[call.ch] = "listen"
    /\ call.op = "udprecv" => chState[call.ch] = "udp"
    /\ call.op = "open" => chState[call.ch] = "closed"
    /\ call.op = "resolve" /\ call.next \in {"connect", "udpopen"} =>
          chState[call.ch] = "closed"
    /\ call.op \in {"recv", "enter", "poll"} => call.room >= 1

\* While the network is taken down nobody is listened for, and channel 0 is
\* closed before channel 1; no context is selected only while nothing is open.
DownInv ==
    /\ call.next \in {"netdone", "netinit"} =>
          /\ call.op \in {"closing", "close", "reset"}
          /\ listenCh = NoChannel
          /\ call.ch = 1 => chState[0] = "closed"
    /\ call.op = "reset" => call.next = "netinit" /\ \A c \in Channels : chState[c] = "closed"
    /\ active = NoChannel => listenCh = NoChannel /\ \A c \in Channels : chState[c] = "closed"

\* What a frame in the ring says of its sender.
Honest(f) ==
    /\ kind[f.conn] # "none"
    /\ f.seg = "dgram" <=> kind[f.conn] = "udp"
    /\ f.seg = "syn" => kind[f.conn] = "in"
    /\ f.seg = "synack" => kind[f.conn] = "out"
    /\ f.seg \in {"ack", "data", "fin"} => peer[f.conn] \in {"est", "fin", "dead"}
    /\ f.seg = "fin" => peer[f.conn] \in {"fin", "dead"}
    /\ f.seg = "rst" => peer[f.conn] = "dead"
RingInv == \A i \in DOMAIN ring : Honest(ring[i])

\* Only a connection that exists has a peer that has moved.
PeerInv == \A k \in Conns : kind[k] \in {"none", "udp"} => peer[k] = "new"

\* The channel of a datagram pair has the pair in its context, alone.
UdpInv ==
    /\ \A c \in Channels : chState[c] = "udp" =>
          /\ chConn[c] \in Conns
          /\ Ctx(c).udp = chConn[c]
          /\ kind[chConn[c]] = "udp"
    /\ chState[0] = "udp" /\ chState[1] = "udp" => chConn[0] # chConn[1]

Base == TypeOK /\ CallInv /\ DownInv /\ RingInv /\ PeerInv /\ UdpInv

\* A peer that was accepted has not been reset, nor has one that sends to it.
Alive(k) == kind[k] = "in" => peer[k] \in {"est", "fin"}
AcceptedInv ==
    \A i \in DOMAIN ring : ring[i].seg \in {"ack", "data", "fin"} => Alive(ring[i].conn)

\* An open TCP channel has its connection in its context; only CLOSE leaves
\* ESTAB and CLOSE_WAIT, and only until it is over.
TcpCtx(c) ==
    /\ chConn[c] \in Conns
    /\ Ctx(c).conn = chConn[c]
    /\ kind[chConn[c]] \in {"out", "in"}
    /\ Alive(chConn[c])
    /\ \/ Ctx(c).st \in {"ESTAB", "CLOSE_WAIT"}
       \/ Ctx(c).st = "LAST_ACK" /\ call.op = "close" /\ call.ch = c

\* A listening channel's context listens, or answers a client.
ListenCtx(c) ==
    \/ Ctx(c).st = "LISTEN"
    \/ Ctx(c).st = "SYN_RCVD" /\ Ctx(c).conn \in Conns /\ kind[Ctx(c).conn] = "in"

ContextInv ==
    \A c \in Channels : /\ chState[c] = "tcp" => TcpCtx(c)
                        /\ chState[c] = "listen" => ListenCtx(c)

\* Nothing is queued, and no close waits, on a channel that is being opened;
\* nothing is queued while RECV waits.
FreshInv ==
    /\ call.op = "open" => pend[call.ch] = 0 /\ ~closed[call.ch]
    /\ call.op = "recv" => pend[call.ch] = 0

Rest == /\ AcceptedInv /\ ContextInv /\ ListenerRecordSound
        /\ QueuedIsOwn /\ CloseIsTheirs /\ FreshInv /\ SuspendedCanResume

-----------------------------------------------------------------------------
(* Channels and contexts.                                                  *)

\* There are two channels.
LEMMA TwoChannels ==
    /\ \A c \in Channels : /\ Other(c) \in Channels /\ Other(c) # c
                           /\ Other(Other(c)) = c /\ c # NoChannel
    /\ \A c, d \in Channels : d = c \/ d = Other(c)
    /\ 0 \in Channels /\ 1 \in Channels
BY DEF Channels, Other, NoChannel

\* SELECT_CHANNEL gives every channel the context it had.
LEMMA Selected ==
    ASSUME TypeOK, NEW c \in Channels, active' = c, spare' = SelSpare(c)
    PROVE  /\ Ctx(c)' = work'
           /\ Ctx(Other(c))' = spare'
           /\ SelWork(c) \in Context /\ spare' \in Context
           /\ active \in Channels =>
                 Ctx(c) = SelWork(c) /\ Ctx(Other(c)) = spare'
<1>1. c # NoChannel /\ Other(c) # c /\ Other(c) \in Channels /\ Other(c) # NoChannel
  BY TwoChannels
<1>2. Ctx(c)' = work'
  BY <1>1 DEF Ctx
<1>3. Ctx(Other(c))' = spare'
  BY <1>1 DEF Ctx
<1>4. SelWork(c) \in Context /\ spare' \in Context
  BY DEF SelWork, SelSpare, TypeOK
<1>5. ASSUME active \in Channels PROVE Ctx(c) = SelWork(c) /\ Ctx(Other(c)) = spare'
  <2>1. active = c \/ active = Other(c)
    BY <1>5, TwoChannels
  <2>2. QED BY <1>1, <2>1 DEF Ctx, SelWork, SelSpare, Swaps
<1>6. QED BY <1>2, <1>3, <1>4, <1>5

\* The working context is that of the selected channel.
LEMMA Working ==
    ASSUME active \in Channels, active' = active
    PROVE  /\ Ctx(active) = work /\ Ctx(Other(active)) = spare
           /\ Ctx(active)' = work' /\ Ctx(Other(active))' = spare'
<1>1. Other(active) # active /\ active # NoChannel
  BY TwoChannels
<1>2. QED BY <1>1 DEF Ctx

\* No call between two waits.
LEMMA IdleTyped == Idle \in Call /\ Idle.op = "idle" /\ Idle.next = "none"
<1>1. Budget \in Nat /\ Room \in Nat
  BY ChannelsAssumption
<1>2. 0 \in Channels /\ 0 \in 0 .. Budget + 2 /\ 0 \in 0 .. Room
  BY <1>1, TwoChannels
<1>3. QED BY <1>2 DEF Idle, Call

\* Every state of a call keeps its operation and its channel until it returns.
Going ==
    \/ call' = Idle
    \/ /\ call' \in Call
       /\ call'.op = call.op /\ call'.ch = call.ch
       /\ call'.next = call.next
       /\ call'.room = call.room \/ call'.room >= 1

LEMMA PassGoes ==
    ASSUME call \in Call, NEW l \in 0 .. Budget + 2, Pass(l)
    PROVE  Going
<1>1. call' = [call EXCEPT !.left = l]
  BY DEF Pass
<1>2. call' \in Call
  BY <1>1 DEF Call
<1>3. /\ call'.op = call.op /\ call'.ch = call.ch
      /\ call'.next = call.next /\ call'.room = call.room
  BY <1>1 DEF Call
<1>4. QED BY <1>2, <1>3 DEF Going

\* A pass spent or a wait that ends.
LEMMA WaitGoes ==
    ASSUME call \in Call, Spend \/ EndWait \/ Return \/ Pass(call.left - 1),
           (Spend \/ Pass(call.left - 1)) => call.left > 0
    PROVE  Going
<1>1. Budget \in Nat /\ call.left \in 0 .. Budget + 2
  BY ChannelsAssumption DEF Call
<1>2. ASSUME Pass(call.left - 1), call.left > 0 PROVE Going
  <2>1. call.left - 1 \in 0 .. Budget + 2
    BY <1>1, <1>2
  <2>2. QED BY <1>2, <2>1, PassGoes
<1>3. ASSUME Return PROVE Going
  BY <1>3 DEF Return, Going
<1>4. ASSUME EndWait PROVE Going
  <2>1. 0 \in 0 .. Budget + 2
    BY <1>1
  <2>2. Pass(0) \/ Return
    BY <1>4 DEF EndWait
  <2>3. QED BY <1>3, <2>1, <2>2, PassGoes
<1>5. QED BY <1>2, <1>3, <1>4 DEF Spend

\* A frame that is taken leaves the others in their order.
LEMMA TailTyped ==
    ASSUME NEW s \in Seq(Frame), s # <<>>
    PROVE  /\ Tail(s) \in Seq(Frame) /\ Len(Tail(s)) = Len(s) - 1
           /\ \A i \in DOMAIN Tail(s) : i + 1 \in DOMAIN s /\ Tail(s)[i] = s[i + 1]
           /\ Head(s) = s[1] /\ 1 \in DOMAIN s /\ Head(s) \in Frame
OBVIOUS

-----------------------------------------------------------------------------
(* The ring and the peers.                                                 *)

RingTyped == ring \in Seq(Frame) /\ Len(ring) <= RingMax
PeersTyped == /\ kind \in [Conns -> {"none", "out", "in", "udp"}]
              /\ peer \in [Conns -> {"new", "syn", "est", "fin", "dead"}]
Honesty == RingInv /\ PeerInv

Shrinks ==
    \/ ring' = ring
    \/ ring # <<>> /\ ring' = Tail(ring)
    \/ ring' = <<>>

\* The program moves a peer only by a SYN+ACK that is heard.
PeersMove ==
    /\ kind' = kind
    /\ peer' \in [Conns -> {"new", "syn", "est", "fin", "dead"}]
    /\ \A k \in Conns : peer'[k] = peer[k] \/ (peer[k] = "syn" /\ peer'[k] = "est")

\* Frames are of connections.
LEMMA RingFrames ==
    ASSUME RingTyped
    PROVE  \A i \in DOMAIN ring : ring[i] \in Frame /\ ring[i].conn \in Conns
<1>1. \A i \in DOMAIN ring : ring[i] \in Frame
  BY DEF RingTyped
<1>2. QED BY <1>1 DEF Frame

\* What is left in the ring was there.
LEMMA RingLeft ==
    ASSUME RingTyped, Shrinks
    PROVE  /\ RingTyped'
           /\ \A i \in DOMAIN ring' : \E j \in DOMAIN ring : ring'[i] = ring[j]
<1>1. CASE ring' = ring
  BY <1>1 DEF RingTyped
<1>2. CASE ring # <<>> /\ ring' = Tail(ring)
  <2>1. /\ ring' \in Seq(Frame) /\ Len(ring') = Len(ring) - 1
        /\ \A i \in DOMAIN ring' : i + 1 \in DOMAIN ring /\ ring'[i] = ring[i + 1]
    BY <1>2, TailTyped DEF RingTyped
  <2>2. RingMax \in Nat /\ Len(ring) \in Nat
    BY ChannelsAssumption DEF RingTyped
  <2>3. QED BY <2>1, <2>2 DEF RingTyped
<1>3. CASE ring' = <<>>
  <2>1. RingMax \in Nat
    BY ChannelsAssumption
  <2>2. DOMAIN ring' = {} /\ Len(ring') = 0 /\ ring' \in Seq(Frame)
    BY <1>3
  <2>3. QED BY <2>1, <2>2 DEF RingTyped
<1>4. QED BY <1>1, <1>2, <1>3 DEF Shrinks

\* A step of the program leaves every frame as honest as it was.
LEMMA StaysHonest ==
    ASSUME RingTyped, PeersTyped, Honesty, Shrinks, PeersMove
    PROVE  RingTyped' /\ PeersTyped' /\ Honesty' /\ (AcceptedInv => AcceptedInv')
<1>1. RingTyped' /\ \A i \in DOMAIN ring' : \E j \in DOMAIN ring : ring'[i] = ring[j]
  BY RingLeft
<1>2. PeersTyped'
  BY DEF PeersTyped, PeersMove
<1>3. ASSUME NEW i \in DOMAIN ring' PROVE Honest(ring[i])'
  <2>1. PICK j \in DOMAIN ring : ring'[i] = ring[j]
    BY <1>1
  <2>2. Honest(ring[j]) /\ ring[j].conn \in Conns
    BY RingFrames DEF Honesty, RingInv
  <2>3. kind' = kind /\ \/ peer'[ring[j].conn] = peer[ring[j].conn]
                        \/ peer[ring[j].conn] = "syn" /\ peer'[ring[j].conn] = "est"
    BY <2>2 DEF PeersMove
  <2>4. QED BY <2>1, <2>2, <2>3 DEF Honest
<1>4. RingInv'
  BY <1>3 DEF RingInv
<1>5. PeerInv'
  BY DEF Honesty, PeerInv, PeersMove
<1>6. ASSUME AcceptedInv PROVE AcceptedInv'
  <2> SUFFICES ASSUME NEW i \in DOMAIN ring', ring'[i].seg \in {"ack", "data", "fin"}
               PROVE  Alive(ring[i].conn)'
    BY DEF AcceptedInv
  <2>1. PICK j \in DOMAIN ring : ring'[i] = ring[j]
    BY <1>1
  <2>2. Alive(ring[j].conn) /\ ring[j].conn \in Conns
    BY <2>1, <1>6, RingFrames DEF AcceptedInv
  <2>3. kind' = kind /\ \/ peer'[ring[j].conn] = peer[ring[j].conn]
                        \/ peer[ring[j].conn] = "syn" /\ peer'[ring[j].conn] = "est"
    BY <2>2 DEF PeersMove
  <2>4. QED BY <2>1, <2>2, <2>3 DEF Alive
<1>7. QED BY <1>1, <1>2, <1>4, <1>5, <1>6 DEF Honesty

\* The first unused number: nothing in the ring carries it.
LEMMA FreshUnused ==
    ASSUME RingTyped, Honesty, NEW k \in Fresh
    PROVE  /\ k \in Conns /\ kind[k] = "none" /\ peer[k] = "new"
           /\ \A i \in DOMAIN ring : ring[i].conn # k
<1>1. k \in Conns /\ kind[k] = "none"
  BY DEF Fresh
<1>2. peer[k] = "new"
  BY <1>1 DEF Honesty, PeerInv
<1>3. ASSUME NEW i \in DOMAIN ring PROVE ring[i].conn # k
  BY <1>1 DEF Honesty, RingInv, Honest
<1>4. QED BY <1>1, <1>2, <1>3

\* A connection begins: the frames of the others are untouched.
LEMMA BeginsHonest ==
    ASSUME RingTyped, PeersTyped, Honesty, NEW k \in Fresh,
           NEW what \in {"out", "in", "udp"}, NEW at \in {"new", "syn"},
           kind' = [kind EXCEPT ![k] = what], peer' = [peer EXCEPT ![k] = at],
           what = "udp" => at = "new", ring' = ring
    PROVE  RingTyped' /\ PeersTyped' /\ Honesty' /\ (AcceptedInv => AcceptedInv')
<1>1. /\ k \in Conns /\ kind[k] = "none" /\ peer[k] = "new"
      /\ \A i \in DOMAIN ring : ring[i].conn # k
  BY FreshUnused
<1>2. PeersTyped'
  BY <1>1 DEF PeersTyped
<1>3. \A j \in Conns : j # k => kind'[j] = kind[j] /\ peer'[j] = peer[j]
  BY DEF PeersTyped
<1>4. ASSUME NEW i \in DOMAIN ring
      PROVE  Honest(ring[i])' /\ (Alive(ring[i].conn) => Alive(ring[i].conn)')
  <2>1. ring[i].conn \in Conns /\ Honest(ring[i])
    BY RingFrames DEF Honesty, RingInv
  <2>2. kind'[ring[i].conn] = kind[ring[i].conn] /\ peer'[ring[i].conn] = peer[ring[i].conn]
    BY <1>1, <1>3, <2>1
  <2>3. QED BY <2>1, <2>2 DEF Honest, Alive
<1>5. RingTyped' /\ RingInv'
  BY <1>4 DEF RingTyped, RingInv
<1>6. PeerInv'
  <2> SUFFICES ASSUME NEW j \in Conns, kind'[j] \in {"none", "udp"} PROVE peer'[j] = "new"
    BY DEF PeerInv
  <2>1. CASE j = k
    BY <1>1, <2>1 DEF PeersTyped
  <2>2. CASE j # k
    BY <1>3, <2>2 DEF Honesty, PeerInv
  <2>3. QED BY <2>1, <2>2
<1>7. AcceptedInv => AcceptedInv'
  BY <1>4 DEF AcceptedInv
<1>8. QED BY <1>2, <1>5, <1>6, <1>7 DEF Honesty

\* What a peer sends, by what it is and how far it is.
LEMMA Sends ==
    ASSUME PeersTyped, Honesty, NEW k \in Conns, NEW seg \in Sendable(k)
    PROVE  \/ kind[k] = "udp" /\ peer[k] = "new" /\ seg = "dgram"
           \/ kind[k] = "out" /\ peer[k] = "new" /\ seg \in {"synack", "rst"}
           \/ kind[k] = "in" /\ peer[k] = "syn" /\ seg \in {"syn", "rst"}
           \/ /\ kind[k] \in {"out", "in"} /\ peer[k] = "est"
              /\ seg \in {"ack", "data", "fin"} \/ (seg = "rst" /\ kind[k] \in RstFrom)
           \/ /\ kind[k] \in {"out", "in"} /\ peer[k] = "fin"
              /\ seg \in {"ack", "fin"} \/ (seg = "rst" /\ kind[k] \in RstFrom)
<1>1. /\ kind[k] \in {"none", "out", "in", "udp"}
      /\ peer[k] \in {"new", "syn", "est", "fin", "dead"}
      /\ kind[k] \in {"none", "udp"} => peer[k] = "new"
  BY DEF PeersTyped, Honesty, PeerInv
<1>2. CASE kind[k] \in {"none", "udp"}
  BY <1>1, <1>2 DEF Sendable
<1>3. CASE kind[k] \in {"out", "in"} /\ peer[k] \in {"new", "syn"}
  BY <1>1, <1>3 DEF Sendable
<1>4. CASE kind[k] \in {"out", "in"} /\ peer[k] = "est"
  <2>1. Sendable(k) = {"ack", "fin"} \cup {"data"}
                         \cup (IF kind[k] \in RstFrom THEN {"rst"} ELSE {})
    BY <1>4 DEF Sendable
  <2>2. QED BY <1>4, <2>1
<1>5. CASE kind[k] \in {"out", "in"} /\ peer[k] = "fin"
  <2>1. Sendable(k) = {"ack", "fin"} \cup {}
                         \cup (IF kind[k] \in RstFrom THEN {"rst"} ELSE {})
    BY <1>5 DEF Sendable
  <2>2. QED BY <1>5, <2>1
<1>6. CASE kind[k] \in {"out", "in"} /\ peer[k] = "dead"
  BY <1>6 DEF Sendable
<1>7. QED BY <1>1, <1>2, <1>3, <1>4, <1>5, <1>6

\* A frame that a peer sends is honest, and makes no other a lie.
LEMMA SendsHonest ==
    ASSUME RingTyped, PeersTyped, Honesty, NEW k \in Conns, NEW seg \in Segs,
           PeerSends(k, seg)
    PROVE  /\ RingTyped' /\ PeersTyped' /\ Honesty'
           /\ "in" \notin RstFrom =>
                 /\ \A j \in Conns : Alive(j) => Alive(j)'
                 /\ AcceptedInv => AcceptedInv'
           /\ \A j \in Conns : peer[j] \in {"fin", "dead"} => peer'[j] \in {"fin", "dead"}
<1> DEFINE f == [conn |-> k, seg |-> seg]
<1>1. /\ seg \in Sendable(k) /\ Len(ring) < RingMax /\ ring' = Append(ring, f)
      /\ kind' = kind
      /\ peer' = [peer EXCEPT ![k] = CASE seg = "synack" -> "est"
                                       [] seg = "fin" -> "fin"
                                       [] seg = "rst" -> "dead"
                                       [] OTHER -> peer[k]]
  BY DEF PeerSends
<1>2. f \in Frame /\ f.conn = k /\ f.seg = seg
  BY DEF Frame
<1> HIDE DEF f
<1>3. /\ ring' \in Seq(Frame) /\ Len(ring') = Len(ring) + 1
      /\ \A i \in DOMAIN ring' : (i \in DOMAIN ring /\ ring'[i] = ring[i]) \/ ring'[i] = f
  BY <1>1, <1>2 DEF RingTyped
<1>4. RingTyped'
  <2>1. RingMax \in Nat /\ Len(ring) \in Nat
    BY ChannelsAssumption DEF RingTyped
  <2>2. QED BY <1>1, <1>3, <2>1 DEF RingTyped
<1>5. /\ peer'[k] = CASE seg = "synack" -> "est"
                      [] seg = "fin" -> "fin"
                      [] seg = "rst" -> "dead"
                      [] OTHER -> peer[k]
      /\ \A j \in Conns : j # k => peer'[j] = peer[j]
  BY <1>1 DEF PeersTyped
<1>6. /\ seg = "synack" => peer'[k] = "est"
      /\ seg = "fin" => peer'[k] = "fin"
      /\ seg = "rst" => peer'[k] = "dead"
      /\ seg \notin {"synack", "fin", "rst"} => peer'[k] = peer[k]
  BY <1>5
<1>7. /\ kind[k] \in {"none", "out", "in", "udp"}
      /\ peer[k] \in {"new", "syn", "est", "fin", "dead"}
  BY DEF PeersTyped
<1>8. PeersTyped'
  <2>1. peer'[k] \in {"new", "syn", "est", "fin", "dead"}
    BY <1>6, <1>7
  <2>2. DOMAIN peer' = Conns /\ peer' = [j \in Conns |-> peer'[j]]
    BY <1>1 DEF PeersTyped
  <2>3. QED BY <1>1, <1>5, <2>1, <2>2 DEF PeersTyped
<1>9. Honest(f)'
  BY <1>1, <1>2, <1>6, Sends DEF Honest
<1>10. ASSUME NEW g \in Frame, Honest(g) PROVE Honest(g)'
  <2>1. g.conn \in Conns
    BY DEF Frame
  <2>2. CASE g.conn # k
    BY <1>1, <1>5, <1>10, <2>1, <2>2 DEF Honest
  <2>3. CASE g.conn = k
    BY <1>1, <1>6, <1>10, <2>3, Sends DEF Honest
  <2>4. QED BY <2>2, <2>3
<1>11. RingInv'
  BY <1>3, <1>9, <1>10, RingFrames DEF RingInv, Honesty
<1>12. PeerInv'
  <2> SUFFICES ASSUME NEW j \in Conns, kind[j] \in {"none", "udp"} PROVE peer'[j] = "new"
    BY <1>1 DEF PeerInv
  <2>1. peer[j] = "new"
    BY DEF Honesty, PeerInv
  <2>2. CASE j = k
    BY <1>1, <1>6, <2>1, <2>2, Sends
  <2>3. QED BY <1>5, <2>1, <2>2
<1>13. ASSUME "in" \notin RstFrom, NEW j \in Conns, Alive(j) PROVE Alive(j)'
  <2>1. CASE j # k
    BY <1>1, <1>5, <1>13, <2>1 DEF Alive
  <2>2. CASE j = k
    BY <1>1, <1>6, <1>13, <2>2, Sends DEF Alive
  <2>3. QED BY <2>1, <2>2
<1>14. ASSUME "in" \notin RstFrom, AcceptedInv PROVE AcceptedInv'
  <2> SUFFICES ASSUME NEW i \in DOMAIN ring', ring'[i].seg \in {"ack", "data", "fin"}
               PROVE  Alive(ring[i].conn)'
    BY DEF AcceptedInv
  <2>1. CASE i \in DOMAIN ring /\ ring'[i] = ring[i]
    BY <1>13, <1>14, <2>1, RingFrames DEF AcceptedInv
  <2>2. CASE ring'[i] = f
    <3>1. Alive(k)'
      BY <1>1, <1>2, <1>6, <1>14, <2>2, Sends DEF Alive
    <3>2. QED BY <1>2, <2>2, <3>1
  <2>3. QED BY <1>3, <2>1, <2>2
<1>15. ASSUME NEW j \in Conns, peer[j] \in {"fin", "dead"} PROVE peer'[j] \in {"fin", "dead"}
  BY <1>1, <1>5, <1>6, <1>15, Sends
<1>16. QED BY <1>4, <1>8, <1>11, <1>12, <1>13, <1>14, <1>15 DEF Honesty

-----------------------------------------------------------------------------
(* Steps that open and close nothing.                                      *)

\* The rest of the type invariant.
ChanTyped ==
    /\ inited \in BOOLEAN
    /\ chState \in [Channels -> ChStates]
    /\ active \in Channels \cup {NoChannel}
    /\ work \in Context /\ spare \in Context
    /\ listenCh \in Channels \cup {NoChannel}
    /\ accepted \in BOOLEAN
    /\ apend \in Channels \cup {NoChannel}
    /\ chConn \in [Channels -> 0 .. MaxConns]
PendTyped ==
    /\ pend \in [Channels -> 0 .. MaxConns]
    /\ closed \in [Channels -> BOOLEAN]
    /\ hint \in Channels \cup {NoChannel}

LEMMA TypeParts ==
    /\ TypeOK <=> RingTyped /\ PeersTyped /\ ChanTyped /\ PendTyped /\ call \in Call
    /\ TypeOK' <=> RingTyped' /\ PeersTyped' /\ ChanTyped' /\ PendTyped' /\ call' \in Call
BY DEF TypeOK, RingTyped, PeersTyped, ChanTyped, PendTyped

\* Nobody is opened or closed, selected or suspended.
Quiet ==
    /\ Going /\ Shrinks /\ PeersMove /\ PendTyped'
    /\ UNCHANGED <<inited, apend, chanVars, active>>
    /\ work' \in Context /\ work'.udp = work.udp
    /\ spare' \in Context /\ spare'.udp = spare.udp

\* An open channel has been selected, so one of the contexts is its own.
LEMMA OpenSelected ==
    ASSUME TypeOK, DownInv, NEW c \in Channels, chState[c] # "closed"
    PROVE  active \in Channels
BY DEF TypeOK, DownInv

LEMMA QuietBase ==
    ASSUME Base, Quiet
    PROVE  Base' /\ (AcceptedInv => AcceptedInv')
<1>1. /\ RingTyped /\ PeersTyped /\ Honesty /\ ChanTyped /\ call \in Call
      /\ CallInv /\ DownInv /\ UdpInv
  BY TypeParts DEF Base, Honesty
<1>2. RingTyped' /\ PeersTyped' /\ Honesty' /\ (AcceptedInv => AcceptedInv')
  BY <1>1, StaysHonest DEF Quiet
<1>3. call' \in Call
  BY IdleTyped DEF Quiet, Going
<1>4. /\ apend' = apend /\ active' = active /\ listenCh' = listenCh
      /\ chState' = chState /\ chConn' = chConn /\ kind' = kind
  BY DEF Quiet, chanVars, PeersMove
<1>5. ChanTyped'
  BY <1>1 DEF ChanTyped, Quiet, chanVars
<1>6. CallInv' /\ DownInv'
  <2>1. CASE call' = Idle
    <3>1. call'.op = "idle" /\ call'.next = "none"
      BY <2>1, IdleTyped
    <3>2. CallInv'
      BY <3>1 DEF CallInv, Waits
    <3>3. DownInv'
      BY <1>1, <1>4, <3>1 DEF DownInv
    <3>4. QED BY <3>2, <3>3
  <2>2. CASE /\ call'.op = call.op /\ call'.ch = call.ch
             /\ call'.next = call.next
             /\ call'.room = call.room \/ call'.room >= 1
    BY <1>1, <1>4, <2>2 DEF CallInv, DownInv
  <2>3. QED BY <2>1, <2>2 DEF Quiet, Going
<1>7. UdpInv'
  <2>1. ASSUME NEW c \in Channels PROVE Ctx(c)'.udp = Ctx(c).udp
    BY <1>4 DEF Quiet, Ctx
  <2>2. QED BY <1>1, <1>4, <2>1 DEF UdpInv
<1>8. TypeOK'
  BY <1>2, <1>3, <1>5, TypeParts DEF Quiet
<1>9. QED BY <1>2, <1>6, <1>7, <1>8 DEF Base, Honesty

\* In such a step a context keeps its connection, and changes its state only
\* as that of an open channel may; what is queued, and the close that waits,
\* is of the connection of the channel.
QuietMove ==
    /\ call.op \notin {"idle", "closing", "reset"}
    /\ call.op = "close" => call' # Idle
    /\ \/ work'.conn = work.conn /\ work'.st = work.st
       \/ /\ chState[active] = "tcp" /\ call.op # "close"
          /\ work'.conn = work.conn /\ work'.st = "CLOSE_WAIT"
       \/ call.op = "poll" /\ ListenCtx(active)'
    /\ spare'.conn = spare.conn
    /\ \/ spare'.st = spare.st
       \/ chState[Other(active)] = "tcp" /\ active = call.ch /\ spare'.st = "CLOSE_WAIT"
    /\ \A c \in Channels :
          /\ \/ pend'[c] = pend[c] \/ pend'[c] = 0
             \/ chState[c] = "tcp" /\ pend'[c] = chConn[c] /\ (c = call.ch => call'.op # "recv")
          /\ \/ closed'[c] => closed[c]
             \/ chState[c] = "tcp" /\ peer[chConn[c]] \in {"fin", "dead"}

LEMMA QuietRest ==
    ASSUME Base, Rest, Quiet, QuietMove
    PROVE  Rest'
<1>1. /\ ChanTyped /\ PeersTyped /\ CallInv /\ DownInv /\ call \in Call
      /\ AcceptedInv /\ ContextInv /\ ListenerRecordSound
      /\ QueuedIsOwn /\ CloseIsTheirs /\ FreshInv
  BY TypeParts DEF Base, Rest
<1>2. /\ apend' = apend /\ active' = active /\ listenCh' = listenCh /\ accepted' = accepted
      /\ chState' = chState /\ chConn' = chConn /\ kind' = kind
  BY DEF Quiet, chanVars, PeersMove
<1>3. /\ call'.op \in {"idle", call.op}
      /\ call'.op # "idle" => call'.ch = call.ch
      /\ call'.op # "idle" => call'.next = call.next
      /\ call'.op = "idle" => call'.next = "none"
  BY <1>1, IdleTyped DEF Quiet, Going, CallInv
<1>4. AcceptedInv'
  BY <1>1, QuietBase
<1>5. \A k \in Conns : /\ Alive(k) => Alive(k)'
                       /\ peer[k] \in {"fin", "dead"} => peer'[k] \in {"fin", "dead"}
  BY DEF Quiet, PeersMove, Alive
<1>6. ASSUME NEW c \in Channels, chState[c] = "tcp" PROVE TcpCtx(c)'
  <2>1. TcpCtx(c) /\ active \in Channels
    BY <1>1, <1>6, OpenSelected, TypeParts DEF ContextInv, Base
  <2>2. call.op = "close" => call'.op = "close" /\ call'.ch = call.ch
    BY <1>3 DEF QuietMove, Quiet, Going
  <2>3. call.op = "poll" => chState[active] = "listen"
    BY <1>1 DEF CallInv, Waits
  <2>4. /\ Ctx(c)'.conn = Ctx(c).conn
        /\ \/ Ctx(c)'.st \in {"ESTAB", "CLOSE_WAIT"}
           \/ Ctx(c)'.st = "LAST_ACK" /\ call'.op = "close" /\ call'.ch = c
    <3>1. CASE c = active
      <4>1. Ctx(c)' = work' /\ Ctx(c) = work
        BY <1>2, <2>1, <3>1, Working
      <4>2. QED BY <1>6, <2>1, <2>2, <2>3, <3>1, <4>1 DEF QuietMove, TcpCtx
    <3>2. CASE c = Other(active)
      <4>1. Ctx(c)' = spare' /\ Ctx(c) = spare
        BY <1>2, <2>1, <3>2, Working
      <4>2. QED BY <2>1, <2>2, <4>1 DEF QuietMove, TcpCtx
    <3>3. QED BY <2>1, <3>1, <3>2, TwoChannels
  <2>5. Alive(chConn[c])'
    BY <1>2, <1>5, <2>1 DEF TcpCtx, Alive
  <2>6. QED BY <1>2, <2>1, <2>4, <2>5 DEF TcpCtx
<1>7. ASSUME NEW c \in Channels, chState[c] = "listen" PROVE ListenCtx(c)'
  <2>1. ListenCtx(c) /\ active \in Channels
    BY <1>1, <1>7, OpenSelected, TypeParts DEF ContextInv, Base
  <2>2. CASE c = active
    <3>1. Ctx(c)' = work' /\ Ctx(c) = work
      BY <1>2, <2>1, <2>2, Working
    <3>2. CASE work'.conn = work.conn /\ work'.st = work.st
      BY <1>2, <2>1, <3>1, <3>2 DEF ListenCtx
    <3>3. CASE work'.conn # work.conn \/ work'.st # work.st
      BY <1>2, <1>7, <2>2, <3>3 DEF QuietMove, ListenCtx, Ctx
    <3>4. QED BY <3>2, <3>3
  <2>3. CASE c = Other(active)
    <3>1. Ctx(c)' = spare' /\ Ctx(c) = spare
      BY <1>2, <2>1, <2>3, Working
    <3>2. spare'.conn = spare.conn /\ spare'.st = spare.st
      BY <1>7, <2>3 DEF QuietMove
    <3>3. QED BY <1>2, <2>1, <3>1, <3>2 DEF ListenCtx
  <2>4. QED BY <2>1, <2>2, <2>3, TwoChannels
<1>8. ContextInv'
  BY <1>2, <1>6, <1>7 DEF ContextInv
<1>9. ListenerRecordSound'
  <2>1. call.next \in {"netdone", "netinit"} => call'.next = call.next
    BY <1>1, <1>3 DEF DownInv, QuietMove, Quiet, Going
  <2>2. QED BY <1>1, <1>2, <2>1 DEF ListenerRecordSound
<1>10. QueuedIsOwn'
  BY <1>1, <1>2 DEF QueuedIsOwn, QuietMove
<1>11. CloseIsTheirs'
  <2> SUFFICES ASSUME NEW c \in Channels, closed'[c]
               PROVE  CASE chState[c] = "tcp" -> peer'[chConn[c]] \in {"fin", "dead"}
                        [] chState[c] = "closed" -> TRUE
                        [] OTHER -> FALSE
    BY <1>2 DEF CloseIsTheirs
  <2>1. CASE chState[c] = "tcp"
    <3>1. chConn[c] \in Conns
      BY <1>1, <2>1 DEF ContextInv, TcpCtx
    <3>2. peer[chConn[c]] \in {"fin", "dead"}
      BY <1>1, <2>1 DEF CloseIsTheirs, QuietMove
    <3>3. QED BY <1>5, <2>1, <3>1, <3>2
  <2>2. CASE chState[c] # "tcp"
    BY <1>1, <2>2 DEF CloseIsTheirs, QuietMove
  <2>3. QED BY <2>1, <2>2
<1>12. FreshInv'
  <2>1. ASSUME call'.op = "open" PROVE pend'[call'.ch] = 0 /\ ~closed'[call'.ch]
    <3>1. /\ call'.ch = call.ch /\ call.op = "open" /\ call.ch \in Channels
          /\ chState[call.ch] = "closed"
      BY <1>1, <1>3, <2>1 DEF CallInv, Call
    <3>2. QED BY <1>1, <3>1 DEF FreshInv, QuietMove
  <2>2. ASSUME call'.op = "recv" PROVE pend'[call'.ch] = 0
    <3>1. call'.ch = call.ch /\ call.op = "recv" /\ call.ch \in Channels
      BY <1>1, <1>3, <2>2 DEF Call
    <3>2. QED BY <1>1, <2>2, <3>1 DEF FreshInv, QuietMove
  <2>3. QED BY <2>1, <2>2 DEF FreshInv
<1>13. SuspendedCanResume'
  BY <1>1, <1>2 DEF SuspendedCanResume, CallInv, QuietMove
<1>14. QED BY <1>4, <1>8, <1>9, <1>10, <1>11, <1>12, <1>13 DEF Rest

\* A frame at the head of the ring while a call waits.
LEMMA AtHead ==
    ASSUME Base, NEW f, Scans, Head(ring) = f
    PROVE  /\ f \in Frame /\ f.conn \in Conns /\ Honest(f)
           /\ AcceptedInv /\ f.seg \in {"ack", "data", "fin"} => Alive(f.conn)
           /\ ring # <<>> /\ call \in Call /\ call.op \in Waits /\ call.left > 0
           /\ call.ch \in Channels /\ active = call.ch /\ active \in Channels
           /\ Other(active) \in Channels /\ Other(active) # call.ch
<1>1. ring # <<>> /\ call.op \in Waits /\ call.left > 0
  BY DEF Scans, Waiting
<1>2. RingTyped /\ call \in Call /\ RingInv
  BY TypeParts DEF Base
<1>3. Head(ring) = ring[1] /\ 1 \in DOMAIN ring /\ f \in Frame
  BY <1>1, <1>2, TailTyped DEF RingTyped
<1>4. Honest(f) /\ f.conn \in Conns
  BY <1>2, <1>3, RingFrames DEF RingInv
<1>5. AcceptedInv /\ f.seg \in {"ack", "data", "fin"} => Alive(f.conn)
  BY <1>3 DEF AcceptedInv
<1>6. call.ch \in Channels /\ active = call.ch
  BY <1>1, <1>2 DEF Call, Base, CallInv
<1>7. QED BY <1>1, <1>2, <1>3, <1>4, <1>5, <1>6, TwoChannels

\* A frame of the other channel's connection, and of the caller's.
LEMMA ForeignOf ==
    ASSUME Base, NEW f, Foreign(f), ForeignTcp(f)
    PROVE  /\ chState[Other(active)] = "tcp"
           /\ Rest => f.conn = chConn[Other(active)]
<1>1. active \in Channels /\ Other(active) \in Channels
  BY AtHead DEF Foreign
<1>2. chState[Other(active)] = "tcp" /\ spare.conn = f.conn
  BY DEF ForeignTcp
<1>3. ASSUME Rest PROVE f.conn = chConn[Other(active)]
  <2>1. TcpCtx(Other(active))
    BY <1>1, <1>2, <1>3 DEF Rest, ContextInv
  <2>2. Ctx(Other(active)) = spare
    <3>1. Other(active) # active /\ active # NoChannel
      BY <1>1, TwoChannels
    <3>2. QED BY <3>1 DEF Ctx
  <2>3. QED BY <1>2, <2>1, <2>2 DEF TcpCtx
<1>4. QED BY <1>2, <1>3

LEMMA OwnOf ==
    ASSUME Base, NEW f, Takes(f), call.op \in {"recv", "send", "close"}
    PROVE  /\ chState[call.ch] = "tcp" /\ f.seg # "dgram" /\ f.conn = work.conn
           /\ Rest => f.conn = chConn[call.ch]
<1>1. active \in Channels /\ active = call.ch /\ call.ch \in Channels
  BY AtHead DEF Takes
<1>2. f.seg # "dgram" /\ f.conn = work.conn
  BY DEF Takes, Own
<1>3. chState[call.ch] = "tcp"
  BY DEF Base, CallInv
<1>4. ASSUME Rest PROVE f.conn = chConn[call.ch]
  <2>1. TcpCtx(call.ch)
    BY <1>1, <1>3, <1>4 DEF Rest, ContextInv
  <2>2. Ctx(call.ch) = work
    BY <1>1 DEF Ctx
  <2>3. QED BY <1>2, <2>1, <2>2 DEF TcpCtx
<1>5. QED BY <1>2, <1>3, <1>4

\* A frame that is stored without a buffer goes to an empty queue.
LEMMA StoredPend ==
    ASSUME PendTyped, NEW c \in Channels, NEW f, f.conn \in Conns, NEW took,
           pend' = Stored(c, f, took)
    PROVE  /\ pend' \in [Channels -> 0 .. MaxConns]
           /\ \A d \in Channels : pend'[d] = pend[d] \/ (d = c /\ pend'[d] = f.conn)
<1>1. f.conn \in 0 .. MaxConns
  BY ChannelsAssumption DEF Conns
<1>2. pend' = [pend EXCEPT ![c] = f.conn] \/ pend' = pend
  BY DEF Stored
<1>3. QED BY <1>1, <1>2 DEF PendTyped

\* A step that leaves channels, contexts and peers alone.
LEMMA StillQuiet ==
    ASSUME Base, Going, Shrinks, PendTyped',
           UNCHANGED <<inited, apend, chanVars, active, netVars>>,
           work' \in Context, work'.udp = work.udp,
           spare' \in Context, spare'.udp = spare.udp
    PROVE  Quiet
<1>1. PeersTyped
  BY TypeParts DEF Base
<1>2. PeersMove
  BY <1>1 DEF PeersMove, PeersTyped, netVars
<1>3. QED BY <1>2 DEF Quiet

\* A context whose state alone changes.
LEMMA StateSet ==
    ASSUME NEW w \in Context, NEW st \in TcpStates, NEW v, v = [w EXCEPT !.st = st]
    PROVE  v \in Context /\ v.st = st /\ v.conn = w.conn /\ v.udp = w.udp
BY DEF Context

\* The steps of a wait that a frame of the other channel, of nobody, or no
\* frame at all makes.
LEMMA ForeignKeeps ==
    ASSUME Base, NEW f,
           \/ ForeignSegment(f) \/ ForeignFin(f) \/ ForeignBlocked(f) \/ Dropped(f)
           \/ ForeignRst(f) /\ spare.st = "CLOSE_WAIT"
    PROVE  Base' /\ (Rest => Rest')
<1>1. /\ ChanTyped /\ PendTyped /\ PeersTyped /\ call \in Call
  BY TypeParts DEF Base
<1>2. /\ Foreign(f) /\ Scans /\ Head(ring) = f
  BY DEF ForeignSegment, ForeignFin, ForeignRst, ForeignBlocked, Dropped, Foreign
<1>3. /\ f \in Frame /\ f.conn \in Conns /\ Honest(f)
      /\ ring # <<>> /\ call.op \in Waits /\ call.left > 0
      /\ call.ch \in Channels /\ active = call.ch /\ active \in Channels
      /\ Other(active) \in Channels /\ Other(active) # call.ch
  BY <1>2, AtHead
<1>4. Spend \/ EndWait
  BY DEF ForeignSegment, ForeignFin, ForeignRst, ForeignBlocked, Dropped
<1>5. Going
  BY <1>1, <1>3, <1>4, WaitGoes
<1>6. Shrinks
  BY <1>3 DEF ForeignSegment, ForeignFin, ForeignRst, ForeignBlocked, Dropped, Commit, Shrinks
<1>7. /\ UNCHANGED <<inited, apend, chanVars, active, netVars>> /\ work' = work
  BY DEF ForeignSegment, ForeignFin, ForeignRst, ForeignBlocked, Dropped, ctxVars, chanVars
<1>8. /\ call.op \notin {"idle", "closing", "reset"}
      /\ call.op = "close" => call' # Idle
  <2>1. call.op \notin {"idle", "closing", "reset"}
    BY <1>3 DEF Waits
  <2>2. ASSUME call.op = "close" PROVE call'.op = "close"
    BY <1>1, <1>4, <2>2 DEF Spend, EndWait, Pass, Call
  <2>3. QED BY <2>1, <2>2, IdleTyped
<1>9. NoChannel \in Channels \cup {NoChannel} /\ Other(active) \in Channels \cup {NoChannel}
  BY <1>3
<1>10. CASE ForeignSegment(f)
  <2>1. PICK took \in BOOLEAN : pend' = Stored(Other(active), f, took)
    BY <1>10 DEF ForeignSegment
  <2>2. /\ pend' \in [Channels -> 0 .. MaxConns]
        /\ \A d \in Channels : pend'[d] = pend[d] \/ (d = Other(active) /\ pend'[d] = f.conn)
    BY <1>1, <1>3, <2>1, StoredPend
  <2>3. closed' = closed /\ hint' = NoChannel /\ spare' = spare
    BY <1>10 DEF ForeignSegment, ctxVars
  <2>4. PendTyped'
    BY <1>1, <1>9, <2>2, <2>3 DEF PendTyped
  <2>5. Quiet
    BY <1>1, <1>5, <1>6, <1>7, <2>3, <2>4, StillQuiet DEF ChanTyped
  <2>6. chState[Other(active)] = "tcp" /\ (Rest => f.conn = chConn[Other(active)])
    BY <1>2, <1>10, ForeignOf DEF ForeignSegment
  <2>7. Rest => QuietMove
    BY <1>3, <1>7, <1>8, <2>2, <2>3, <2>6 DEF QuietMove
  <2>8. QED BY <2>5, <2>7, QuietBase, QuietRest
<1>11. CASE ForeignFin(f)
  <2>1. /\ \/ UNCHANGED <<closed, spare>>
           \/ /\ closed' = [closed EXCEPT ![Other(active)] = TRUE]
              /\ spare' = [spare EXCEPT !.st = "CLOSE_WAIT"]
        /\ hint' = NoChannel /\ pend' = pend /\ f.seg = "fin"
    BY <1>11 DEF ForeignFin
  <2>2. /\ spare' \in Context /\ spare'.udp = spare.udp /\ spare'.conn = spare.conn
        /\ spare'.st \in {spare.st, "CLOSE_WAIT"}
    <3>1. "CLOSE_WAIT" \in TcpStates /\ spare \in Context
      BY <1>1 DEF TcpStates, ChanTyped
    <3>2. CASE spare' = [spare EXCEPT !.st = "CLOSE_WAIT"]
      BY <3>1, <3>2, StateSet
    <3>3. CASE spare' = spare
      BY <3>1, <3>3
    <3>4. QED BY <2>1, <3>2, <3>3
  <2>3. /\ closed' \in [Channels -> BOOLEAN]
        /\ \A d \in Channels : d # Other(active) => (closed'[d] <=> closed[d])
    BY <1>1, <2>1 DEF PendTyped
  <2>4. PendTyped'
    BY <1>1, <1>9, <2>1, <2>3 DEF PendTyped
  <2>5. Quiet
    BY <1>1, <1>5, <1>6, <1>7, <2>2, <2>4, StillQuiet DEF ChanTyped
  <2>6. chState[Other(active)] = "tcp" /\ (Rest => f.conn = chConn[Other(active)])
    BY <1>2, <1>11, ForeignOf DEF ForeignFin
  <2>7. peer[f.conn] \in {"fin", "dead"}
    BY <1>3, <2>1 DEF Honest
  <2>8. Rest => QuietMove
    BY <1>3, <1>7, <1>8, <2>1, <2>2, <2>3, <2>6, <2>7 DEF QuietMove
  <2>9. QED BY <2>5, <2>8, QuietBase, QuietRest
<1>12. CASE ForeignBlocked(f) \/ Dropped(f)
  <2>1. /\ pend' = pend /\ closed' = closed /\ spare' = spare
        /\ hint' \in Channels \cup {NoChannel}
    BY <1>1, <1>9, <1>12 DEF ForeignBlocked, Dropped, ctxVars, pendVars, PendTyped
  <2>2. PendTyped'
    BY <1>1, <2>1 DEF PendTyped
  <2>3. Quiet
    BY <1>1, <1>5, <1>6, <1>7, <2>1, <2>2, StillQuiet DEF ChanTyped
  <2>4. QuietMove
    BY <1>7, <1>8, <2>1 DEF QuietMove
  <2>5. QED BY <2>3, <2>4, QuietBase, QuietRest
<1>13. CASE ForeignRst(f) /\ spare.st = "CLOSE_WAIT"
  <2>1. /\ closed' = [closed EXCEPT ![Other(active)] = TRUE]
        /\ hint' = NoChannel /\ pend' = pend /\ spare' = spare /\ f.seg = "rst"
    BY <1>13 DEF ForeignRst, ctxVars
  <2>2. /\ closed' \in [Channels -> BOOLEAN]
        /\ \A d \in Channels : d # Other(active) => (closed'[d] <=> closed[d])
    BY <1>1, <2>1 DEF PendTyped
  <2>3. PendTyped'
    BY <1>1, <1>9, <2>1, <2>2 DEF PendTyped
  <2>4. Quiet
    BY <1>1, <1>5, <1>6, <1>7, <2>1, <2>3, StillQuiet DEF ChanTyped
  <2>5. chState[Other(active)] = "tcp" /\ (Rest => f.conn = chConn[Other(active)])
    BY <1>2, <1>13, ForeignOf DEF ForeignRst
  <2>6. peer[f.conn] \in {"fin", "dead"}
    BY <1>3, <2>1 DEF Honest
  <2>7. Rest => QuietMove
    BY <1>3, <1>7, <1>8, <2>1, <2>2, <2>5, <2>6 DEF QuietMove
  <2>8. QED BY <2>4, <2>7, QuietBase, QuietRest
<1>14. QED BY <1>10, <1>11, <1>12, <1>13

\* A frame of the waiting channel that a wait goes on or ends with.
LEMMA OwnKeeps ==
    ASSUME Base, NEW f,
           \/ RecvIgnored(f) \/ RecvDatagram(f) \/ OpenOther(f)
           \/ SendSegment(f) \/ CloseAnswered(f)
    PROVE  Base' /\ (Rest => Rest')
<1>1. /\ ChanTyped /\ PendTyped /\ PeersTyped /\ call \in Call
  BY TypeParts DEF Base
<1>2. /\ Takes(f) /\ Scans /\ Head(ring) = f
  BY DEF RecvIgnored, RecvDatagram, OpenOther, SendSegment, CloseAnswered, TakesFrom, Takes
<1>3. /\ f \in Frame /\ f.conn \in Conns /\ Honest(f)
      /\ ring # <<>> /\ call.op \in Waits /\ call.left > 0
      /\ call.ch \in Channels /\ active = call.ch /\ active \in Channels
  BY <1>2, AtHead
<1>4. Spend \/ EndWait \/ Return \/ Pass(call.left - 1)
  BY DEF RecvIgnored, RecvDatagram, OpenOther, SendSegment, CloseAnswered
<1>5. Going
  BY <1>1, <1>3, <1>4, WaitGoes
<1>6. Shrinks
  BY <1>3 DEF RecvIgnored, RecvDatagram, OpenOther, SendSegment, CloseAnswered, Commit, Shrinks
<1>7. /\ UNCHANGED <<inited, apend, chanVars, active, netVars>>
      /\ work' = work /\ spare' = spare /\ hint' = hint
  BY DEF RecvIgnored, RecvDatagram, OpenOther, SendSegment, CloseAnswered, ctxVars, pendVars
<1>8. /\ call.op \notin {"idle", "closing", "reset"}
      /\ call.op = "close" => call' # Idle
  <2>1. call.op \notin {"idle", "closing", "reset"}
    BY <1>3 DEF Waits
  <2>2. ASSUME call.op = "close" PROVE call'.op = "close"
    <3>1. Spend \/ EndWait \/ Pass(call.left - 1)
      BY <2>2 DEF RecvIgnored, RecvDatagram, OpenOther, SendSegment, CloseAnswered, TakesFrom
    <3>2. QED BY <1>1, <2>2, <3>1 DEF Spend, EndWait, Pass, Call
  <2>3. QED BY <2>1, <2>2, IdleTyped
<1>9. CASE RecvIgnored(f) \/ RecvDatagram(f) \/ OpenOther(f)
  <2>1. pend' = pend /\ closed' = closed
    BY <1>9 DEF RecvIgnored, RecvDatagram, OpenOther, pendVars
  <2>2. PendTyped'
    BY <1>1, <1>7, <2>1 DEF PendTyped
  <2>3. Quiet
    BY <1>1, <1>5, <1>6, <1>7, <2>2, StillQuiet DEF ChanTyped
  <2>4. QuietMove
    BY <1>7, <1>8, <2>1 DEF QuietMove
  <2>5. QED BY <2>3, <2>4, QuietBase, QuietRest
<1>10. CASE SendSegment(f) \/ CloseAnswered(f)
  <2>1. call.op \in {"send", "close"}
    BY <1>10 DEF SendSegment, CloseAnswered, TakesFrom
  <2>2. PICK took \in BOOLEAN : pend' = Stored(call.ch, f, took)
    BY <1>10 DEF SendSegment, CloseAnswered
  <2>3. /\ pend' \in [Channels -> 0 .. MaxConns]
        /\ \A d \in Channels : pend'[d] = pend[d] \/ (d = call.ch /\ pend'[d] = f.conn)
    BY <1>1, <1>3, <2>2, StoredPend
  <2>4. /\ closed' \in [Channels -> BOOLEAN]
        /\ \A d \in Channels : (closed'[d] => closed[d]) \/ (d = call.ch /\ f.seg = "fin")
    BY <1>1, <1>10 DEF PendTyped, SendSegment, CloseAnswered
  <2>5. PendTyped'
    BY <1>1, <1>7, <2>3, <2>4 DEF PendTyped
  <2>6. Quiet
    BY <1>1, <1>5, <1>6, <1>7, <2>5, StillQuiet DEF ChanTyped
  <2>7. chState[call.ch] = "tcp" /\ (Rest => f.conn = chConn[call.ch])
    BY <1>2, <2>1, OwnOf
  <2>8. f.seg = "fin" => peer[f.conn] \in {"fin", "dead"}
    BY <1>3 DEF Honest
  <2>9. call'.op # "recv"
    BY <1>1, <1>5, <2>1, IdleTyped DEF Going
  <2>10. Rest => QuietMove
    BY <1>7, <1>8, <2>3, <2>4, <2>7, <2>8, <2>9 DEF QuietMove
  <2>11. QED BY <2>6, <2>10, QuietBase, QuietRest
<1>11. QED BY <1>9, <1>10

\* SEND hears the peer's FIN.
LEMMA SendFinKeeps ==
    ASSUME Base, NEW f, SendFin(f)
    PROVE  Base' /\ (Rest => Rest')
<1>1. /\ ChanTyped /\ PendTyped /\ PeersTyped /\ call \in Call
  BY TypeParts DEF Base
<1>2. /\ Takes(f) /\ Scans /\ Head(ring) = f /\ call.op = "send" /\ f.seg = "fin"
      /\ closed' = [closed EXCEPT ![call.ch] = TRUE]
      /\ work' = [work EXCEPT !.st = "CLOSE_WAIT"]
      /\ Commit
      /\ Return \/ Pass(call.left - 1)
      /\ UNCHANGED <<inited, apend, chanVars, active, netVars>>
      /\ spare' = spare /\ pend' = pend /\ hint' = hint
  BY DEF SendFin, TakesFrom, Takes
<1>3. /\ f.conn \in Conns /\ Honest(f) /\ ring # <<>> /\ call.left > 0
      /\ call.ch \in Channels /\ active = call.ch
  BY <1>2, AtHead
<1>4. Going /\ Shrinks
  BY <1>1, <1>2, <1>3, WaitGoes DEF Commit, Shrinks
<1>5. /\ work' \in Context /\ work'.udp = work.udp
      /\ work'.conn = work.conn /\ work'.st = "CLOSE_WAIT"
  <2>1. "CLOSE_WAIT" \in TcpStates /\ work \in Context
    BY <1>1 DEF TcpStates, ChanTyped
  <2>2. QED BY <1>2, <2>1, StateSet
<1>6. /\ closed' \in [Channels -> BOOLEAN]
      /\ \A d \in Channels : (closed'[d] => closed[d]) \/ d = call.ch
  BY <1>1, <1>2 DEF PendTyped
<1>7. PendTyped'
  BY <1>1, <1>2, <1>6 DEF PendTyped
<1>8. Quiet
  BY <1>1, <1>2, <1>4, <1>5, <1>7, StillQuiet DEF ChanTyped
<1>9. chState[call.ch] = "tcp" /\ (Rest => f.conn = chConn[call.ch])
  BY <1>2, OwnOf
<1>10. peer[f.conn] \in {"fin", "dead"}
  BY <1>2, <1>3 DEF Honest
<1>11. Rest => QuietMove
  BY <1>2, <1>3, <1>5, <1>6, <1>9, <1>10 DEF QuietMove
<1>12. QED BY <1>8, <1>11, QuietBase, QuietRest

\* RECV takes data into its buffer, and the queue what does not fit.
LEMMA RecvDataKeeps ==
    ASSUME Base, NEW f, RecvData(f)
    PROVE  Base' /\ (Rest => Rest')
<1>1. /\ ChanTyped /\ PendTyped /\ PeersTyped /\ call \in Call
  BY TypeParts DEF Base
<1>2. /\ Takes(f) /\ Scans /\ Head(ring) = f /\ call.op = "recv" /\ f.seg = "data"
      /\ Commit
      /\ IF call.room = 1
         THEN Return /\ \E spill \in BOOLEAN : pend' = Stored(call.ch, f, spill)
         ELSE /\ call' = [call EXCEPT !.room = @ - 1, !.got = TRUE, !.left = 2]
              /\ pend' = pend
      /\ UNCHANGED <<inited, apend, chanVars, active, netVars>>
      /\ work' = work /\ spare' = spare /\ closed' = closed /\ hint' = hint
  BY DEF RecvData, TakesFrom, Takes, ctxVars
<1>3. f.conn \in Conns /\ ring # <<>> /\ call.ch \in Channels /\ active = call.ch
  BY <1>2, AtHead
<1>4. chState[call.ch] = "tcp" /\ (Rest => f.conn = chConn[call.ch])
  BY <1>2, OwnOf
<1>5. Shrinks
  BY <1>2, <1>3 DEF Commit, Shrinks
<1>6. /\ Going /\ pend' \in [Channels -> 0 .. MaxConns]
      /\ \A d \in Channels :
            \/ pend'[d] = pend[d]
            \/ d = call.ch /\ pend'[d] = f.conn /\ call'.op # "recv"
  <2>1. CASE call.room = 1
    <3>1. PICK spill \in BOOLEAN : pend' = Stored(call.ch, f, spill)
      BY <1>2, <2>1
    <3>2. /\ pend' \in [Channels -> 0 .. MaxConns]
          /\ \A d \in Channels : pend'[d] = pend[d] \/ (d = call.ch /\ pend'[d] = f.conn)
      BY <1>1, <1>3, <3>1, StoredPend
    <3>3. Going /\ call'.op # "recv"
      BY <1>2, <2>1, IdleTyped DEF Return, Going
    <3>4. QED BY <3>2, <3>3
  <2>2. CASE call.room # 1
    <3>1. call.room \in 0 .. Room /\ Room \in Nat /\ Budget \in Nat /\ call.room >= 1
      BY <1>1, <1>2, ChannelsAssumption DEF Base, CallInv, Call
    <3>2. call.room - 1 \in 0 .. Room /\ call.room - 1 >= 1 /\ 2 \in 0 .. Budget + 2
      BY <2>2, <3>1
    <3>3. call' = [call EXCEPT !.room = @ - 1, !.got = TRUE, !.left = 2]
      BY <1>2, <2>2
    <3>4. call' \in Call
      BY <1>1, <3>2, <3>3 DEF Call
    <3>5. /\ call'.op = call.op /\ call'.ch = call.ch /\ call'.next = call.next
          /\ call'.room = call.room - 1
      BY <1>1, <3>3 DEF Call
    <3>6. Going
      BY <3>2, <3>4, <3>5 DEF Going
    <3>7. QED BY <1>1, <1>2, <2>2, <3>6 DEF PendTyped
  <2>3. QED BY <2>1, <2>2
<1>7. PendTyped'
  BY <1>1, <1>2, <1>6 DEF PendTyped
<1>8. Quiet
  BY <1>1, <1>2, <1>5, <1>6, <1>7, StillQuiet DEF ChanTyped
<1>9. Rest => QuietMove
  BY <1>2, <1>4, <1>6 DEF QuietMove
<1>10. QED BY <1>8, <1>9, QuietBase, QuietRest

\* LISTEN_POLL answers a client, or is reset by the one it answered.
LEMMA PollKeeps ==
    ASSUME Base, NEW f, PollSyn(f) \/ PollRst(f)
    PROVE  Base' /\ (Rest => Rest')
<1>1. /\ ChanTyped /\ PendTyped /\ PeersTyped /\ call \in Call
  BY TypeParts DEF Base
<1>2. /\ Takes(f) /\ Scans /\ Head(ring) = f /\ call.op = "poll"
      /\ Commit
      /\ UNCHANGED <<inited, apend, chanVars, active, kind>>
      /\ spare' = spare /\ pend' = pend /\ closed' = closed /\ hint' = hint
  BY DEF PollSyn, PollRst, TakesFrom, Takes, netVars, chanVars, pendVars
<1>3. /\ f.conn \in Conns /\ Honest(f) /\ ring # <<>> /\ call.left > 0
      /\ call.ch \in Channels /\ active = call.ch /\ active \in Channels
  BY <1>2, AtHead
<1>4. Shrinks
  BY <1>2, <1>3 DEF Commit, Shrinks
<1>5. PendTyped'
  BY <1>1, <1>2 DEF PendTyped
<1>6. Ctx(active)' = work' /\ Ctx(active) = work
  BY <1>2, <1>3, Working
<1>7. Rest => work.st \in {"LISTEN", "SYN_RCVD"} /\ ListenCtx(active)
  <2>1. chState[active] = "listen"
    BY <1>2, <1>3 DEF Base, CallInv
  <2>2. QED BY <1>3, <1>6, <2>1 DEF Rest, ContextInv, ListenCtx
<1>8. CASE PollRst(f)
  <2>1. work' = [work EXCEPT !.st = "LISTEN"] /\ Spend /\ UNCHANGED netVars
    BY <1>8 DEF PollRst
  <2>2. work' \in Context /\ work'.udp = work.udp /\ work'.st = "LISTEN"
    <3>1. "LISTEN" \in TcpStates /\ work \in Context
      BY <1>1 DEF TcpStates, ChanTyped
    <3>2. QED BY <2>1, <3>1, StateSet
  <2>3. Going
    BY <1>1, <1>3, <2>1, WaitGoes
  <2>4. Quiet
    BY <1>1, <1>2, <1>4, <1>5, <2>1, <2>2, <2>3, StillQuiet DEF ChanTyped
  <2>5. ListenCtx(active)'
    BY <1>6, <2>2 DEF ListenCtx
  <2>6. QuietMove
    BY <1>2, <2>5 DEF QuietMove
  <2>7. QED BY <2>4, <2>6, QuietBase, QuietRest
<1>9. CASE PollSyn(f)
  <2>1. f.seg = "syn" /\ Answers(f.conn)
    BY <1>9 DEF PollSyn
  <2>2. kind[f.conn] = "in"
    BY <1>3, <2>1 DEF Honest
  <2>3. PeersMove
    <3>1. \/ peer' = [peer EXCEPT ![f.conn] = IF @ = "syn" THEN "est" ELSE @]
          \/ peer' = peer
      BY <2>1 DEF Answers
    <3>2. QED BY <1>1, <1>2, <1>3, <3>1 DEF PeersTyped, PeersMove
  <2>4. Going
    <3>1. Spend \/ Return
      BY <2>1 DEF Answers
    <3>2. QED BY <1>1, <1>3, <3>1, WaitGoes
  <2>5. /\ work' \in Context /\ work'.udp = work.udp /\ work'.conn = f.conn
        /\ work'.st \in {work.st, "SYN_RCVD"}
    <3>1. f.conn \in 0 .. MaxConns /\ "SYN_RCVD" \in TcpStates /\ work \in Context
      BY <1>1, <1>3, ChannelsAssumption DEF TcpStates, ChanTyped, Conns
    <3>2. \/ work' = [work EXCEPT !.st = "SYN_RCVD", !.conn = f.conn]
          \/ work' = [work EXCEPT !.conn = f.conn]
      BY <2>1 DEF Answers
    <3>3. CASE work' = [work EXCEPT !.st = "SYN_RCVD", !.conn = f.conn]
      BY <3>1, <3>3 DEF Context
    <3>4. CASE work' = [work EXCEPT !.conn = f.conn]
      BY <3>1, <3>4 DEF Context
    <3>5. QED BY <3>2, <3>3, <3>4
  <2>6. Quiet
    BY <1>1, <1>2, <1>4, <1>5, <2>3, <2>4, <2>5 DEF ChanTyped, Quiet
  <2>7. Rest => ListenCtx(active)'
    BY <1>2, <1>3, <1>6, <1>7, <2>2, <2>5 DEF ListenCtx
  <2>8. Rest => QuietMove
    BY <1>2, <2>7 DEF QuietMove
  <2>9. QED BY <2>6, <2>8, QuietBase, QuietRest
<1>10. QED BY <1>8, <1>9

\* A step without a frame: a pass over an empty ring, silence, the resolver,
\* and the ends of a RECV that closes nothing.
LEMMA SilenceKeeps ==
    ASSUME Base,
           \/ Tick \/ Expire \/ ResolverReads \/ ResolverReturns
           \/ RecvRefused \/ RecvPending
    PROVE  Base' /\ (Rest => Rest')
<1>1. /\ ChanTyped /\ PendTyped /\ PeersTyped /\ call \in Call
  BY TypeParts DEF Base
<1>2. /\ UNCHANGED <<inited, apend, chanVars, active, netVars>>
      /\ work' = work /\ spare' = spare /\ closed' = closed /\ hint' = hint
  BY DEF Tick, Expire, ResolverReads, ResolverReturns, RecvRefused, RecvPending,
         ctxVars, pendVars
<1>3. Shrinks
  BY DEF Tick, Expire, ResolverReads, ResolverReturns, RecvRefused, RecvPending,
         Commit, Shrinks
<1>4. Spend \/ Return
  BY DEF Tick, Expire, ResolverReads, ResolverReturns, RecvRefused, RecvPending
<1>5. Going
  <2>1. Spend => call.left > 0 \/ Return
    BY <1>4 DEF Tick, Expire, ResolverReads, ResolverReturns, RecvRefused, RecvPending, Waiting
  <2>2. QED BY <1>1, <1>4, <2>1, WaitGoes DEF Return, Going
<1>6. /\ call.op \notin {"idle", "closing", "reset"}
      /\ call.op = "close" => call'.op = "close"
  <2>1. call.op \notin {"idle", "closing", "reset"}
    BY DEF Tick, Expire, ResolverReads, ResolverReturns, RecvRefused, RecvPending,
           Waiting, Waits, Expired
  <2>2. ASSUME call.op = "close" PROVE call'.op = "close"
    <3>1. Tick
      BY <2>2 DEF Expire, ResolverReads, ResolverReturns, RecvRefused, RecvPending, Expired
    <3>2. QED BY <1>1, <2>2, <3>1 DEF Tick, Spend, EndWait, Pass, Call
  <2>3. QED BY <2>1, <2>2
<1>7. /\ pend' \in [Channels -> 0 .. MaxConns]
      /\ \A d \in Channels : pend'[d] = pend[d] \/ pend'[d] = 0
  <2>1. CASE pend' = pend
    BY <1>1, <2>1 DEF PendTyped
  <2>2. CASE RecvRefused \/ RecvPending
    <3>1. PICK left \in {0, pend[call.ch]} : pend' = [pend EXCEPT ![call.ch] = left]
      BY <2>2 DEF RecvRefused, RecvPending
    <3>2. call.ch \in Channels /\ MaxConns \in Nat
      BY <1>1, ChannelsAssumption DEF Call
    <3>3. QED BY <1>1, <3>1, <3>2 DEF PendTyped
  <2>3. QED BY <2>1, <2>2 DEF Tick, Expire, ResolverReads, ResolverReturns, pendVars
<1>8. PendTyped'
  BY <1>1, <1>2, <1>7 DEF PendTyped
<1>9. Quiet
  BY <1>1, <1>2, <1>3, <1>5, <1>8, StillQuiet DEF ChanTyped
<1>10. QuietMove
  BY <1>2, <1>6, <1>7, IdleTyped DEF QuietMove
<1>11. QED BY <1>9, <1>10, QuietBase, QuietRest

-----------------------------------------------------------------------------
(* Calls and suspensions: what is open stays open with its context.        *)

ContextsKept ==
    /\ UNCHANGED <<ring, netVars, chState, chConn>>
    /\ \A c \in Channels : chState[c] # "closed" => Ctx(c)' = Ctx(c)

LEMMA KeptContexts ==
    ASSUME Base, ContextsKept
    PROVE  /\ RingTyped' /\ PeersTyped' /\ Honesty' /\ UdpInv'
           /\ Rest => AcceptedInv'
           /\ Rest /\ call.op # "close" => ContextInv'
<1>1. RingTyped /\ PeersTyped /\ Honesty /\ UdpInv
  BY TypeParts DEF Base, Honesty
<1>2. PeersMove /\ Shrinks
  BY <1>1 DEF ContextsKept, PeersMove, PeersTyped, Shrinks, netVars
<1>3. RingTyped' /\ PeersTyped' /\ Honesty' /\ (Rest => AcceptedInv')
  BY <1>1, <1>2, StaysHonest DEF Rest
<1>4. /\ chState' = chState /\ chConn' = chConn /\ kind' = kind /\ peer' = peer
  BY DEF ContextsKept, netVars
<1>5. UdpInv'
  BY <1>1, <1>4 DEF ContextsKept, UdpInv
<1>6. ASSUME Rest, call.op # "close" PROVE ContextInv'
  <2>1. ASSUME NEW c \in Channels, chState[c] = "tcp" PROVE TcpCtx(c)'
    <3>1. TcpCtx(c) /\ Ctx(c)' = Ctx(c)
      BY <1>6, <2>1 DEF Rest, ContextInv, ContextsKept
    <3>2. QED BY <1>4, <1>6, <3>1 DEF TcpCtx, Alive
  <2>2. ASSUME NEW c \in Channels, chState[c] = "listen" PROVE ListenCtx(c)'
    <3>1. ListenCtx(c) /\ Ctx(c)' = Ctx(c)
      BY <1>6, <2>2 DEF Rest, ContextInv, ContextsKept
    <3>2. QED BY <1>4, <3>1 DEF ListenCtx
  <2>3. QED BY <1>4, <2>1, <2>2 DEF ContextInv
<1>7. QED BY <1>3, <1>5, <1>6

\* SELECT_CHANNEL keeps the context of whatever is open.
LEMMA SelectKeeps ==
    ASSUME Base, NEW c \in Channels, Select(c), UNCHANGED <<ring, netVars, chState, chConn>>
    PROVE  ContextsKept /\ work' \in Context /\ spare' \in Context
<1>1. active' = c /\ work' = SelWork(c) /\ spare' = SelSpare(c) /\ TypeOK /\ DownInv
  BY DEF Select, Base
<1>2. /\ Ctx(c)' = work' /\ Ctx(Other(c))' = spare'
      /\ SelWork(c) \in Context /\ spare' \in Context
      /\ active \in Channels => Ctx(c) = SelWork(c) /\ Ctx(Other(c)) = spare'
  BY <1>1, Selected
<1>3. ASSUME NEW d \in Channels, chState[d] # "closed" PROVE Ctx(d)' = Ctx(d)
  <2>1. active \in Channels
    BY <1>1, <1>3, OpenSelected
  <2>2. d = c \/ d = Other(c)
    BY TwoChannels
  <2>3. QED BY <1>1, <1>2, <2>1, <2>2
<1>4. QED BY <1>1, <1>2, <1>3 DEF ContextsKept

\* A call begins.
LEMMA BeginTyped ==
    ASSUME NEW op \in Waits \cup {"idle", "resolve", "enter", "closing", "reset"},
           NEW c \in Channels, NEW b, b = Begin(op, c)
    PROVE  b \in Call /\ b.op = op /\ b.ch = c /\ b.next = "none"
<1>1. Budget \in 0 .. Budget + 2
  BY ChannelsAssumption
<1>2. Idle \in Call /\ Idle.next = "none"
  BY IdleTyped
<1>3. b = [Idle EXCEPT !.op = op, !.ch = c, !.left = Budget]
  BY DEF Begin
<1> HIDE DEF Idle
<1>4. QED BY <1>1, <1>2, <1>3 DEF Call

\* What a call that begins goes on with.
LEMMA NextTyped ==
    ASSUME NEW b \in Call, NEW a,
           NEW next \in {"none", "connect", "udpopen", "ping", "netdone", "netinit"},
           a = [b EXCEPT !.next = next]
    PROVE  a \in Call /\ a.op = b.op /\ a.ch = b.ch /\ a.next = next
BY DEF Call

\* A step of this kind: the listener is left alone, or the network is taken
\* down; a SEND is suspended, resumed, or neither.
CallMove ==
    /\ accepted' = accepted
    /\ \/ listenCh' = listenCh /\ call.next \notin {"netdone", "netinit"}
       \/ listenCh' = NoChannel /\ call'.next \in {"netdone", "netinit"}
    /\ \/ apend' \in {apend, NoChannel}
       \/ call.op = "send" /\ apend' = call.ch
    /\ \A c \in Channels : pend'[c] = pend[c] \/ pend'[c] = 0
    /\ closed' = closed
    /\ call'.op # "open"
    /\ call'.op = "recv" => pend'[call'.ch] = 0

LEMMA CallBase ==
    ASSUME Base, ContextsKept, ChanTyped', PendTyped', call' \in Call, CallInv', DownInv'
    PROVE  Base'
BY KeptContexts, TypeParts DEF Base, Honesty

LEMMA CallRest ==
    ASSUME Base, Rest, ContextsKept, CallMove, call.op # "close"
    PROVE  Rest'
<1>1. /\ ChanTyped /\ call \in Call /\ CallInv /\ ContextInv /\ ListenerRecordSound
      /\ QueuedIsOwn /\ CloseIsTheirs /\ SuspendedCanResume
  BY TypeParts DEF Base, Rest
<1>2. AcceptedInv' /\ ContextInv'
  BY KeptContexts
<1>3. chState' = chState /\ chConn' = chConn /\ kind' = kind /\ peer' = peer
  BY DEF ContextsKept, netVars
<1>4. ListenerRecordSound'
  BY <1>1, <1>3 DEF ListenerRecordSound, CallMove
<1>5. QueuedIsOwn'
  BY <1>1, <1>3 DEF QueuedIsOwn, CallMove
<1>6. CloseIsTheirs'
  BY <1>1, <1>3 DEF CloseIsTheirs, CallMove
<1>7. FreshInv'
  BY DEF FreshInv, CallMove
<1>8. SuspendedCanResume'
  <2> SUFFICES ASSUME apend' # NoChannel
               PROVE  /\ chState[apend'] = "tcp"
                      /\ Ctx(apend)'.conn = chConn[apend']
                      /\ Ctx(apend)'.st \in {"ESTAB", "CLOSE_WAIT"}
    BY <1>3 DEF SuspendedCanResume
  <2>1. /\ apend' \in Channels /\ chState[apend'] = "tcp"
    BY <1>1 DEF SuspendedCanResume, CallMove, CallInv, ChanTyped, Call
  <2>2. PICK c \in Channels : c = apend'
    BY <2>1
  <2>3. TcpCtx(c) /\ Ctx(c)' = Ctx(c)
    BY <1>1, <2>1, <2>2 DEF ContextInv, ContextsKept
  <2>4. Ctx(c)' = Ctx(apend)'
    BY <2>2 DEF Ctx
  <2>5. QED BY <2>1, <2>2, <2>3, <2>4 DEF TcpCtx
<1>9. QED BY <1>2, <1>4, <1>5, <1>6, <1>7, <1>8 DEF Rest

\* Calls that select nothing yet.
LEMMA BeginKeeps ==
    ASSUME Base, NEW c \in Channels, NEW next,
           \/ CallResolving(c, next) /\ next \in {"connect", "udpopen", "ping"}
           \/ CallClose(c)
           \/ CallNet(next) /\ next \in {"netdone", "netinit"}
    PROVE  Base' /\ (Rest => Rest')
<1>1. /\ ChanTyped /\ PendTyped /\ call \in Call /\ CallInv /\ DownInv
  BY TypeParts DEF Base
<1>2. /\ call.op = "idle" /\ call.next = "none" /\ apend = NoChannel
      /\ 0 \in Channels
  BY <1>1, TwoChannels DEF CallResolving, CallClose, CallNet, NotBusy, CallInv
<1>3. /\ UNCHANGED <<inited, apend, ring, chState, accepted, chConn, ctxVars, pendVars, netVars>>
      /\ listenCh' = listenCh \/ listenCh' = NoChannel
  BY DEF CallResolving, CallClose, CallNet, chanVars
<1>4. ContextsKept
  BY <1>3 DEF ContextsKept, Ctx, ctxVars
<1>5. ChanTyped' /\ PendTyped'
  BY <1>1, <1>3 DEF ChanTyped, PendTyped, ctxVars, pendVars
<1>6. /\ call' \in Call /\ call'.ch \in Channels
      /\ \/ /\ call'.op = "resolve" /\ listenCh' = listenCh
            /\ call'.next \in {"connect", "udpopen", "ping"}
            /\ call'.next \in {"connect", "udpopen"} => chState[call'.ch] = "closed"
         \/ call'.op = "closing" /\ call'.next = "none" /\ listenCh' = listenCh
         \/ /\ call'.op = "closing" /\ call'.next \in {"netdone", "netinit"} /\ call'.ch = 0
            /\ listenCh' = NoChannel
  <2>1. CASE CallResolving(c, next) /\ next \in {"connect", "udpopen", "ping"}
    <3>1. PICK b : b = Begin("resolve", c)
      OBVIOUS
    <3>2. b \in Call /\ b.op = "resolve" /\ b.ch = c
      BY <3>1, BeginTyped
    <3>3. call' = [b EXCEPT !.next = next] /\ listenCh' = listenCh
      BY <2>1, <3>1 DEF CallResolving, chanVars
    <3>4. call' \in Call /\ call'.op = b.op /\ call'.ch = b.ch /\ call'.next = next
      BY <2>1, <3>2, <3>3, NextTyped
    <3>5. next \in {"connect", "udpopen"} => chState[c] = "closed"
      BY <2>1 DEF CallResolving
    <3>6. QED BY <2>1, <3>2, <3>3, <3>4, <3>5
  <2>2. CASE CallClose(c)
    <3>1. call' = Begin("closing", c) /\ listenCh' = listenCh
      BY <2>2 DEF CallClose, chanVars
    <3>2. QED BY <3>1, BeginTyped
  <2>3. CASE CallNet(next) /\ next \in {"netdone", "netinit"}
    <3>1. PICK b : b = Begin("closing", 0)
      OBVIOUS
    <3>2. b \in Call /\ b.op = "closing" /\ b.ch = 0
      BY <1>2, <3>1, BeginTyped
    <3>3. call' = [b EXCEPT !.next = next] /\ listenCh' = NoChannel
      BY <2>3, <3>1 DEF CallNet
    <3>4. call' \in Call /\ call'.op = b.op /\ call'.ch = b.ch /\ call'.next = next
      BY <2>3, <3>2, <3>3, NextTyped
    <3>5. QED BY <1>2, <2>3, <3>2, <3>3, <3>4
  <2>4. QED BY <2>1, <2>2, <2>3
<1>7. CallInv'
  BY <1>2, <1>3, <1>6 DEF CallInv, Waits
<1>8. DownInv'
  <2>1. active' = active
    BY <1>3 DEF ctxVars
  <2>2. QED BY <1>1, <1>3, <1>6, <2>1 DEF DownInv
<1>9. CallMove
  BY <1>2, <1>3, <1>6 DEF CallMove, pendVars
<1>10. QED BY <1>2, <1>4, <1>5, <1>6, <1>7, <1>8, <1>9, CallBase, CallRest

\* SEND and RECV select their channel.
LEMMA SelectingKeeps ==
    ASSUME Base, NEW c \in Channels, CallSend(c) \/ ResumeSend(c) \/ CallRecv(c)
    PROVE  Base' /\ (Rest => Rest')
<1>1. /\ ChanTyped /\ PendTyped /\ call \in Call /\ CallInv /\ DownInv
  BY TypeParts DEF Base
<1>2. /\ call.op = "idle" /\ call.next = "none" /\ chState[c] # "closed"
      /\ Select(c)
      /\ UNCHANGED <<inited, ring, chanVars, netVars>>
      /\ pend' = pend /\ closed' = closed /\ hint' \in {hint, NoChannel}
      /\ apend' \in {apend, NoChannel}
  BY <1>1 DEF CallSend, ResumeSend, CallRecv, CallInv, pendVars
<1>3. UNCHANGED <<chState, listenCh, accepted, chConn>> /\ active' = c
  BY <1>2 DEF chanVars, Select
<1>4. ContextsKept /\ work' \in Context /\ spare' \in Context
  BY <1>2, <1>3, SelectKeeps
<1>5. ChanTyped' /\ PendTyped'
  BY <1>1, <1>2, <1>3, <1>4 DEF ChanTyped, PendTyped
<1>6. /\ call' \in Call /\ call'.next = "none"
      /\ \/ call'.op = "idle"
         \/ /\ call'.ch = c /\ apend' = NoChannel
            /\ call'.op \in {"send", "enter", "poll", "udprecv"}
            /\ call'.op \in {"send", "enter"} => chState[c] = "tcp"
            /\ call'.op = "poll" => chState[c] = "listen"
            /\ call'.op = "udprecv" => chState[c] = "udp"
            /\ call'.op \in {"enter", "poll"} => call'.room >= 1
  <2>1. CASE CallSend(c)
    <3>1. CASE chState[c] = "tcp" /\ apend = NoChannel
      <4>1. call' = Begin("send", c) /\ apend' = NoChannel
        BY <2>1, <3>1 DEF CallSend
      <4>2. call' \in Call /\ call'.op = "send" /\ call'.ch = c /\ call'.next = "none"
        BY <4>1, BeginTyped DEF Waits
      <4>3. QED BY <3>1, <4>1, <4>2
    <3>2. CASE ~(chState[c] = "tcp" /\ apend = NoChannel)
      BY <1>1, <1>2, <2>1, <3>2 DEF CallSend
    <3>3. QED BY <3>1, <3>2
  <2>2. CASE ResumeSend(c)
    <3>1. call' = Begin("send", c) /\ apend' = NoChannel /\ chState[c] = "tcp"
      BY <2>2 DEF ResumeSend
    <3>2. call' \in Call /\ call'.op = "send" /\ call'.ch = c /\ call'.next = "none"
      BY <3>1, BeginTyped DEF Waits
    <3>3. QED BY <3>1, <3>2
  <2>3. CASE CallRecv(c)
    <3>1. PICK op \in {"poll", "udprecv", "enter"}, left \in 1 .. Budget, room \in 1 .. Room :
             /\ op = CASE chState[c] = "listen" -> "poll"
                       [] chState[c] = "udp" -> "udprecv"
                       [] OTHER -> "enter"
             /\ call' = [Idle EXCEPT !.op = op, !.ch = c, !.left = left, !.room = room]
      BY <2>3 DEF CallRecv
    <3>2. /\ op = "enter" => chState[c] = "tcp"
          /\ op = "poll" => chState[c] = "listen"
          /\ op = "udprecv" => chState[c] = "udp"
      BY <1>1, <1>2, <3>1 DEF ChanTyped, ChStates
    <3>3. left \in 0 .. Budget + 2 /\ room \in 0 .. Room /\ room >= 1
      BY ChannelsAssumption
    <3>4. op \in Waits \cup {"idle", "resolve", "enter", "closing", "reset"}
      BY DEF Waits
    <3>5. Idle \in Call /\ Idle.next = "none"
      BY IdleTyped
    <3>6. /\ call' \in Call /\ call'.op = op /\ call'.ch = c /\ call'.room = room
          /\ call'.next = "none"
      <4> HIDE DEF Idle
      <4>1. QED BY <3>1, <3>3, <3>4, <3>5 DEF Call
    <3>7. apend' = NoChannel
      BY <2>3 DEF CallRecv
    <3>8. QED BY <3>2, <3>3, <3>6, <3>7
  <2>4. QED BY <2>1, <2>2, <2>3
<1>7. CallInv'
  BY <1>2, <1>3, <1>6 DEF CallInv, Waits
<1>8. DownInv'
  <2>1. c # NoChannel
    BY TwoChannels
  <2>2. QED BY <1>3, <1>6, <2>1 DEF DownInv
<1>9. CallMove
  BY <1>2, <1>3, <1>6 DEF CallMove
<1>10. QED BY <1>2, <1>4, <1>5, <1>6, <1>7, <1>8, <1>9, CallBase, CallRest

\* RECV while a SEND is suspended, RECV that begins to wait, and a SEND that
\* is suspended.
LEMMA SuspendKeeps ==
    ASSUME Base, (\E c \in Channels : RecvSuspended(c)) \/ RecvWaits \/ Suspend
    PROVE  Base' /\ (Rest => Rest')
<1>1. /\ ChanTyped /\ PendTyped /\ call \in Call /\ CallInv /\ DownInv
      /\ call.ch \in Channels
  BY TypeParts DEF Base, Call
<1>2. /\ UNCHANGED <<inited, ring, chanVars, ctxVars, netVars>>
      /\ closed' = closed /\ hint' \in {hint, NoChannel}
  BY DEF RecvSuspended, RecvWaits, Suspend, pendVars
<1>3. /\ UNCHANGED <<chState, listenCh, accepted, chConn, active, work, spare>>
  BY <1>2 DEF chanVars, ctxVars
<1>4. ContextsKept
  BY <1>2, <1>3 DEF ContextsKept, Ctx
<1>5. CASE \E c \in Channels : RecvSuspended(c)
  <2>1. PICK c \in Channels : RecvSuspended(c)
    BY <1>5
  <2>2. PICK left \in {0, pend[c]} : pend' = [pend EXCEPT ![c] = left]
    BY <2>1 DEF RecvSuspended
  <2>3. /\ call.op = "idle" /\ call' = call /\ apend' = apend
        /\ call.next = "none" /\ MaxConns \in Nat
    BY <1>1, <2>1, ChannelsAssumption DEF RecvSuspended, CallInv
  <2>4. /\ pend' \in [Channels -> 0 .. MaxConns]
        /\ \A d \in Channels : pend'[d] = pend[d] \/ pend'[d] = 0
    BY <1>1, <2>2, <2>3 DEF PendTyped
  <2>5. ChanTyped' /\ PendTyped'
    BY <1>1, <1>2, <1>3, <2>3, <2>4 DEF ChanTyped, PendTyped
  <2>6. CallInv' /\ DownInv'
    BY <1>1, <1>3, <2>3 DEF CallInv, DownInv
  <2>7. CallMove
    BY <1>2, <1>3, <2>3, <2>4 DEF CallMove
  <2>8. QED BY <1>1, <1>4, <2>3, <2>5, <2>6, <2>7, CallBase, CallRest
<1>6. CASE RecvWaits
  <2>1. /\ call.op = "enter" /\ apend' = apend
        /\ pend[call.ch] # 0 => call.room > 1
        /\ pend' = [pend EXCEPT ![call.ch] = 0]
        /\ call' = [call EXCEPT !.op = "recv", !.got = pend[call.ch] # 0,
                                !.left = IF pend[call.ch] # 0 THEN 2 ELSE @,
                                !.room = IF pend[call.ch] # 0 THEN @ - 1 ELSE @]
    BY <1>6 DEF RecvWaits
  <2>2. MaxConns \in Nat /\ Room \in Nat /\ Budget \in Nat
    BY ChannelsAssumption
  <2>3. call.room \in 0 .. Room /\ call.left \in 0 .. Budget + 2 /\ call.room >= 1
    BY <1>1, <2>1 DEF Call, CallInv
  <2>4. PICK left \in 0 .. Budget + 2, room \in 1 .. Room :
          /\ left = IF pend[call.ch] # 0 THEN 2 ELSE call.left
          /\ room = IF pend[call.ch] # 0 THEN call.room - 1 ELSE call.room
    BY <2>1, <2>2, <2>3
  <2>5. call' = [call EXCEPT !.op = "recv", !.got = pend[call.ch] # 0,
                             !.left = left, !.room = room]
    BY <2>1, <2>4
  <2>6. "recv" \in Waits /\ room \in 0 .. Room /\ (pend[call.ch] # 0) \in BOOLEAN
    BY <2>2 DEF Waits
  <2>7. /\ call' \in Call
        /\ call'.op = "recv" /\ call'.ch = call.ch /\ call'.next = call.next
        /\ call'.room = room
    BY <1>1, <2>5, <2>6 DEF Call
  <2>8. /\ pend' \in [Channels -> 0 .. MaxConns] /\ pend'[call.ch] = 0
        /\ \A d \in Channels : pend'[d] = pend[d] \/ pend'[d] = 0
    BY <1>1, <2>1, <2>2 DEF PendTyped
  <2>9. ChanTyped' /\ PendTyped'
    BY <1>1, <1>2, <1>3, <2>1, <2>8 DEF ChanTyped, PendTyped
  <2>10. call.next \notin {"netdone", "netinit"}
    BY <1>1, <2>1 DEF DownInv
  <2>11. CallInv'
    BY <1>1, <1>3, <2>1, <2>4, <2>7 DEF CallInv, Waits
  <2>12. DownInv'
    BY <1>1, <1>3, <2>7, <2>10 DEF DownInv
  <2>13. CallMove
    BY <1>2, <1>3, <2>1, <2>7, <2>8, <2>10 DEF CallMove
  <2>14. QED BY <1>4, <2>1, <2>7, <2>9, <2>11, <2>12, <2>13, CallBase, CallRest
<1>7. CASE Suspend
  <2>1. /\ call.op = "send" /\ apend' = call.ch /\ call' = Idle
        /\ pend' = pend /\ hint' = hint
    BY <1>7 DEF Suspend, Expired, Return, pendVars
  <2>2. call' \in Call /\ call'.op = "idle" /\ call'.next = "none"
    BY <2>1, IdleTyped
  <2>3. ChanTyped' /\ PendTyped'
    BY <1>1, <1>2, <1>3, <2>1 DEF ChanTyped, PendTyped
  <2>4. call.next \notin {"netdone", "netinit"}
    BY <1>1, <2>1 DEF DownInv
  <2>5. CallInv' /\ DownInv'
    BY <1>1, <1>3, <2>2 DEF CallInv, DownInv, Waits
  <2>6. CallMove
    BY <1>2, <1>3, <2>1, <2>2, <2>4 DEF CallMove
  <2>7. QED BY <1>4, <2>1, <2>2, <2>3, <2>5, <2>6, CallBase, CallRest
<1>8. QED BY <1>5, <1>6, <1>7

-----------------------------------------------------------------------------
(* Steps that open or close one channel.                                   *)

\* Connections that exist stay what they are.
PeersStay ==
    \A k \in Conns : kind[k] # "none" =>
       /\ kind'[k] = kind[k]
       /\ Alive(k) => Alive(k)'
       /\ peer[k] \in {"fin", "dead"} => peer'[k] \in {"fin", "dead"}

\* Channel c changes, the other keeps all it has.
OtherKept(c) ==
    \A d \in Channels : d # c =>
       /\ chState'[d] = chState[d] /\ chConn'[d] = chConn[d]
       /\ chState[d] # "closed" => Ctx(d)' = Ctx(d)
       /\ pend'[d] = pend[d] /\ closed'[d] = closed[d]

Honestly == RingTyped' /\ PeersTyped' /\ Honesty' /\ (AcceptedInv => AcceptedInv') /\ PeersStay

\* A datagram channel that has just been opened.
UdpOpened(c) ==
    chState'[c] = "udp" =>
       /\ chConn'[c] \in Conns /\ Ctx(c)'.udp = chConn'[c] /\ kind'[chConn'[c]] = "udp"
       /\ chState[Other(c)] = "udp" => chConn'[c] # chConn[Other(c)]

\* What a datagram channel needs of that.
OtherUdp(c) ==
    \A d \in Channels : d # c =>
       /\ chState'[d] = chState[d] /\ chConn'[d] = chConn[d]
       /\ chState[d] # "closed" => Ctx(d)'.udp = Ctx(d).udp

LEMMA OneBaseUdp ==
    ASSUME Base, NEW c \in Channels, OtherUdp(c), Honestly, UdpOpened(c),
           ChanTyped', PendTyped', call' \in Call, CallInv', DownInv'
    PROVE  Base'
<1>1. UdpInv
  BY DEF Base
<1>2. Other(c) \in Channels /\ Other(c) # c /\ \A d \in Channels : d = c \/ d = Other(c)
  BY TwoChannels
<1>3. ASSUME NEW d \in Channels, chState'[d] = "udp"
      PROVE  chConn'[d] \in Conns /\ Ctx(d)'.udp = chConn'[d] /\ kind'[chConn'[d]] = "udp"
  <2>1. CASE d = c
    BY <1>3, <2>1 DEF UdpOpened
  <2>2. CASE d # c
    <3>1. /\ chState[d] = "udp" /\ chConn'[d] = chConn[d] /\ Ctx(d)'.udp = Ctx(d).udp
      BY <1>3, <2>2 DEF OtherUdp
    <3>2. chConn[d] \in Conns /\ Ctx(d).udp = chConn[d] /\ kind[chConn[d]] = "udp"
      BY <1>1, <3>1 DEF UdpInv
    <3>3. kind'[chConn[d]] = "udp"
      BY <3>2 DEF Honestly, PeersStay
    <3>4. QED BY <3>1, <3>2, <3>3
  <2>3. QED BY <2>1, <2>2
<1>4. chState'[0] = "udp" /\ chState'[1] = "udp" => chConn'[0] # chConn'[1]
  <2>1. chState'[c] = "udp" /\ chState'[Other(c)] = "udp" => chConn'[c] # chConn'[Other(c)]
    BY <1>2 DEF OtherUdp, UdpOpened
  <2>2. (c = 0 /\ Other(c) = 1) \/ (c = 1 /\ Other(c) = 0)
    BY DEF Channels, Other
  <2>3. QED BY <2>1, <2>2
<1>5. UdpInv'
  BY <1>3, <1>4 DEF UdpInv
<1>6. QED BY <1>5, TypeParts DEF Base, Honestly, Honesty

LEMMA OneBase ==
    ASSUME Base, NEW c \in Channels, OtherKept(c), Honestly, UdpOpened(c),
           ChanTyped', PendTyped', call' \in Call, CallInv', DownInv'
    PROVE  Base'
<1>1. OtherUdp(c)
  BY DEF OtherKept, OtherUdp
<1>2. QED BY <1>1, OneBaseUdp

\* The channel that changed, and the call that changed it.
OneMove(c) ==
    /\ chState'[c] = "tcp" => TcpCtx(c)'
    /\ chState'[c] = "listen" => ListenCtx(c)'
    /\ call.op = "close" => call.ch = c \/ (call'.op = "close" /\ call'.ch = call.ch)
    /\ ListenerRecordSound'
    /\ chState'[c] = "tcp" => pend'[c] \in {0, chConn'[c]}
    /\ chState'[c] \in {"udp", "listen"} => pend'[c] = 0
    /\ closed'[c] => \/ chState'[c] = "closed"
                     \/ chState'[c] = "tcp" /\ peer'[chConn'[c]] \in {"fin", "dead"}
    /\ FreshInv'
    /\ apend' = NoChannel

LEMMA OneRest ==
    ASSUME Base, Rest, NEW c \in Channels, OtherKept(c), Honestly, OneMove(c),
           ChanTyped'
    PROVE  Rest'
<1>1. /\ ContextInv /\ QueuedIsOwn /\ CloseIsTheirs
  BY DEF Rest
<1>2. AcceptedInv'
  BY DEF Rest, Honestly
<1>3. ASSUME NEW d \in Channels, d # c, chState'[d] = "tcp"
      PROVE  TcpCtx(d)' /\ chConn[d] \in Conns /\ kind[chConn[d]] # "none"
  <2>1. /\ chState[d] = "tcp" /\ chConn'[d] = chConn[d] /\ Ctx(d)' = Ctx(d)
    BY <1>3 DEF OtherKept
  <2>2. TcpCtx(d)
    BY <1>1, <2>1 DEF ContextInv
  <2>3. /\ kind'[chConn[d]] = kind[chConn[d]] /\ Alive(chConn[d])'
        /\ chConn[d] \in Conns /\ kind[chConn[d]] # "none"
    BY <2>1, <2>2 DEF TcpCtx, Honestly, PeersStay, Alive
  <2>4. QED BY <1>3, <2>1, <2>2, <2>3 DEF TcpCtx, OneMove
<1>4. ASSUME NEW d \in Channels, d # c, chState'[d] = "listen" PROVE ListenCtx(d)'
  <2>1. /\ chState[d] = "listen" /\ Ctx(d)' = Ctx(d)
    BY <1>4 DEF OtherKept
  <2>2. ListenCtx(d)
    BY <1>1, <2>1 DEF ContextInv
  <2>3. QED BY <2>1, <2>2 DEF ListenCtx, Honestly, PeersStay
<1>5. ContextInv'
  BY <1>3, <1>4 DEF ContextInv, OneMove
<1>6. QueuedIsOwn'
  BY <1>1 DEF QueuedIsOwn, OtherKept, OneMove
<1>7. CloseIsTheirs'
  <2> SUFFICES ASSUME NEW d \in Channels, closed'[d]
               PROVE  \/ chState'[d] = "tcp" /\ peer'[chConn'[d]] \in {"fin", "dead"}
                      \/ chState'[d] = "closed"
    BY DEF CloseIsTheirs
  <2>1. CASE d = c
    BY <2>1 DEF OneMove
  <2>2. CASE d # c
    <3>1. /\ chState'[d] = chState[d] /\ chConn'[d] = chConn[d] /\ closed[d]
      BY <2>2 DEF OtherKept
    <3>2. CASE chState[d] = "tcp"
      <4>1. peer[chConn[d]] \in {"fin", "dead"}
        BY <1>1, <3>1, <3>2 DEF CloseIsTheirs
      <4>2. peer'[chConn[d]] \in {"fin", "dead"}
        BY <1>3, <2>2, <3>1, <3>2, <4>1 DEF Honestly, PeersStay
      <4>3. QED BY <3>1, <3>2, <4>2
    <3>3. CASE chState[d] # "tcp"
      BY <1>1, <3>1, <3>3 DEF CloseIsTheirs
    <3>4. QED BY <3>2, <3>3
  <2>3. QED BY <2>1, <2>2
<1>8. SuspendedCanResume'
  BY DEF SuspendedCanResume, OneMove
<1>9. QED BY <1>2, <1>5, <1>6, <1>7, <1>8 DEF Rest, OneMove

LEMMA NetKept ==
    ASSUME Base, Shrinks, UNCHANGED netVars
    PROVE  Honestly
<1>1. RingTyped /\ PeersTyped /\ Honesty
  BY TypeParts DEF Base, Honesty
<1>2. kind' = kind /\ peer' = peer
  BY DEF netVars
<1>3. PeersMove
  BY <1>1, <1>2 DEF PeersMove, PeersTyped
<1>4. PeersStay
  BY <1>2 DEF PeersStay, Alive
<1>5. QED BY <1>1, <1>3, <1>4, StaysHonest DEF Honestly

\* A channel's context after it was selected, or while it is.
LEMMA SelectsOne ==
    ASSUME Base, NEW c \in Channels, active' = c, spare' = SelSpare(c)
    PROVE  /\ Ctx(c)' = work' /\ SelWork(c) \in Context /\ spare' \in Context
           /\ chState[c] # "closed" => Ctx(c) = SelWork(c)
           /\ \A d \in Channels : d # c /\ chState[d] # "closed" => Ctx(d)' = Ctx(d)
<1>1. TypeOK /\ DownInv
  BY DEF Base
<1>2. /\ Ctx(c)' = work' /\ Ctx(Other(c))' = spare'
      /\ SelWork(c) \in Context /\ spare' \in Context
      /\ active \in Channels => Ctx(c) = SelWork(c) /\ Ctx(Other(c)) = spare'
  BY <1>1, Selected
<1>3. ASSUME NEW d \in Channels, d # c, chState[d] # "closed" PROVE Ctx(d)' = Ctx(d)
  <2>1. active \in Channels /\ d = Other(c)
    BY <1>1, <1>3, OpenSelected, TwoChannels
  <2>2. QED BY <1>2, <2>1
<1>4. chState[c] # "closed" => active \in Channels
  BY <1>1, OpenSelected
<1>5. QED BY <1>2, <1>3, <1>4

LEMMA HasSelected ==
    ASSUME NEW c \in Channels, active = c, active' = active, spare' = spare
    PROVE  /\ Ctx(c)' = work' /\ Ctx(c) = work
           /\ \A d \in Channels : d # c => Ctx(d)' = Ctx(d)
<1>1. Ctx(c)' = work' /\ Ctx(c) = work
  BY DEF Ctx
<1>2. c # NoChannel
  BY TwoChannels
<1>3. ASSUME NEW d \in Channels, d # c PROVE Ctx(d)' = Ctx(d)
  BY <1>2, <1>3 DEF Ctx
<1>4. QED BY <1>1, <1>3

\* PEND_CLEAR_A leaves nothing of a channel.
LEMMA Cleared ==
    ASSUME PendTyped, NEW c \in Channels, PendClear(c)
    PROVE  /\ PendTyped' /\ pend'[c] = 0 /\ ~closed'[c]
           /\ \A d \in Channels : d # c => pend'[d] = pend[d] /\ closed'[d] = closed[d]
<1>1. MaxConns \in Nat
  BY ChannelsAssumption
<1>2. QED BY <1>1 DEF PendTyped, PendClear

\* LISTEN.
LEMMA ListenKeeps ==
    ASSUME Base, NEW c \in Channels, CallListen(c)
    PROVE  Base' /\ (Rest => Rest')
<1>1. /\ ChanTyped /\ PendTyped /\ call \in Call /\ CallInv /\ DownInv
  BY TypeParts DEF Base
<1>2. /\ call.op = "idle" /\ call.next = "none" /\ apend = NoChannel
      /\ chState[c] = "closed" /\ listenCh = NoChannel
      /\ active' = c /\ work' = Listening(SelWork(c)) /\ spare' = SelSpare(c)
      /\ PendClear(c)
      /\ listenCh' = c /\ accepted' = FALSE
      /\ chState' = [chState EXCEPT ![c] = "listen"]
      /\ UNCHANGED <<inited, apend, call, ring, chConn, netVars>>
  BY <1>1 DEF CallListen, NotBusy, CallInv
<1>3. /\ Ctx(c)' = work' /\ SelWork(c) \in Context /\ spare' \in Context
      /\ \A d \in Channels : d # c /\ chState[d] # "closed" => Ctx(d)' = Ctx(d)
  BY <1>2, SelectsOne
<1>4. work' \in Context /\ work'.st = "LISTEN"
  <2>1. PICK w \in Context : w = SelWork(c)
    BY <1>3
  <2>2. work' = [w EXCEPT !.st = "LISTEN", !.conn = 0]
    BY <1>2, <2>1 DEF Listening
  <2>3. 0 \in 0 .. MaxConns /\ "LISTEN" \in TcpStates
    BY ChannelsAssumption DEF TcpStates
  <2>4. QED BY <2>2, <2>3 DEF Context
<1>5. /\ PendTyped' /\ pend'[c] = 0 /\ ~closed'[c]
      /\ \A d \in Channels : d # c => pend'[d] = pend[d] /\ closed'[d] = closed[d]
  BY <1>1, <1>2, Cleared
<1>6. /\ chState' \in [Channels -> ChStates] /\ chState'[c] = "listen"
      /\ \A d \in Channels : d # c => chState'[d] = chState[d]
  BY <1>1, <1>2 DEF ChanTyped, ChStates
<1>7. ChanTyped'
  BY <1>1, <1>2, <1>3, <1>4, <1>6 DEF ChanTyped
<1>8. OtherKept(c)
  BY <1>2, <1>3, <1>5, <1>6 DEF OtherKept
<1>9. Honestly
  BY <1>2, NetKept DEF Shrinks
<1>10. CallInv' /\ DownInv'
  <2>1. c # NoChannel
    BY TwoChannels
  <2>2. QED BY <1>1, <1>2, <2>1 DEF CallInv, DownInv, Waits
<1>11. Base'
  BY <1>1, <1>2, <1>5, <1>6, <1>7, <1>8, <1>9, <1>10, OneBase DEF UdpOpened
<1>12. ASSUME Rest PROVE Rest'
  <2>1. ListenCtx(c)'
    BY <1>3, <1>4 DEF ListenCtx
  <2>2. ListenerRecordSound'
    <3>1. \A d \in Channels : chState[d] # "listen"
      BY <1>2, <1>12, TwoChannels DEF Rest, ListenerRecordSound
    <3>2. QED BY <1>2, <1>6, <3>1 DEF ListenerRecordSound
  <2>3. FreshInv'
    BY <1>2 DEF FreshInv
  <2>4. OneMove(c)
    BY <1>2, <1>5, <1>6, <2>1, <2>2, <2>3 DEF OneMove
  <2>5. QED BY <1>7, <1>8, <1>9, <1>12, <2>4, OneRest
<1>13. QED BY <1>11, <1>12

\* The resolver has the address: CONNECT and UDPOPEN.
LEMMA OpenKeeps ==
    ASSUME Base, NEW k \in Conns, ConnectOpens(k) \/ UdpOpens(k)
    PROVE  Base' /\ (Rest => Rest')
<1>1. /\ ChanTyped /\ PendTyped /\ call \in Call /\ CallInv /\ DownInv /\ UdpInv
      /\ RingTyped /\ PeersTyped /\ Honesty
  BY TypeParts DEF Base, Honesty
<1> PICK c \in Channels : c = call.ch
  BY <1>1 DEF Call
<1>2. /\ call.op = "resolve" /\ call.next \in {"connect", "udpopen"} /\ k \in Fresh
      /\ active' = c /\ spare' = SelSpare(c)
      /\ PendClear(c)
      /\ UNCHANGED <<inited, apend, ring, listenCh, accepted, peer>>
  BY DEF ConnectOpens, UdpOpens, chanVars
<1>3. c \in Channels /\ apend = NoChannel /\ chState[c] = "closed" /\ c # NoChannel
  BY <1>1, <1>2, TwoChannels DEF CallInv
<1>4. /\ Ctx(c)' = work' /\ SelWork(c) \in Context /\ spare' \in Context
      /\ \A d \in Channels : d # c /\ chState[d] # "closed" => Ctx(d)' = Ctx(d)
  BY <1>2, <1>3, SelectsOne
<1>5. /\ PendTyped' /\ pend'[c] = 0 /\ ~closed'[c]
      /\ \A d \in Channels : d # c => pend'[d] = pend[d] /\ closed'[d] = closed[d]
  BY <1>1, <1>2, <1>3, Cleared
<1>6. /\ k \in Conns /\ kind[k] = "none" /\ peer[k] = "new"
      /\ \A i \in DOMAIN ring : ring[i].conn # k
  BY <1>1, <1>2, FreshUnused
<1>7. PICK w \in Context : w = SelWork(c)
  BY <1>4
<1>8. k \in 0 .. MaxConns
  BY ChannelsAssumption DEF Conns
<1>9. ASSUME NEW what \in {"out", "udp"}, kind' = [kind EXCEPT ![k] = what]
      PROVE  Honestly
  <2>1. peer' = [peer EXCEPT ![k] = "new"]
    BY <1>1, <1>2, <1>6 DEF PeersTyped
  <2>2. RingTyped' /\ PeersTyped' /\ Honesty' /\ (AcceptedInv => AcceptedInv')
    BY <1>1, <1>2, <1>9, <2>1, BeginsHonest
  <2>3. PeersStay
    BY <1>1, <1>2, <1>6, <1>9 DEF PeersTyped, PeersStay, Alive
  <2>4. QED BY <2>2, <2>3 DEF Honestly
<1>10. CASE ConnectOpens(k)
  <2>1. /\ work' = [w EXCEPT !.st = "SYN_SENT", !.conn = k]
        /\ kind' = [kind EXCEPT ![k] = "out"]
        /\ Return \/ call' = Begin("open", c)
        /\ chState' = chState /\ chConn' = chConn
    BY <1>7, <1>10 DEF ConnectOpens, chanVars
  <2>2. work' \in Context
    <3>1. "SYN_SENT" \in TcpStates
      BY DEF TcpStates
    <3>2. QED BY <1>8, <2>1, <3>1 DEF Context
  <2>3. /\ call' \in Call /\ call'.next = "none"
        /\ call'.op = "idle" \/ (call'.op = "open" /\ call'.ch = c)
    <3>1. call' = Begin("open", c) => /\ call' \in Call /\ call'.next = "none"
                                      /\ call'.op = "open" /\ call'.ch = c
      BY <1>3, BeginTyped DEF Waits
    <3>2. QED BY <2>1, <3>1, IdleTyped DEF Return
  <2>4. ChanTyped'
    BY <1>1, <1>2, <1>3, <1>4, <2>1, <2>2 DEF ChanTyped
  <2>5. OtherKept(c)
    BY <1>4, <1>5, <2>1 DEF OtherKept
  <2>6. Honestly
    BY <1>9, <2>1
  <2>7. CallInv' /\ DownInv'
    BY <1>2, <1>3, <2>1, <2>3 DEF CallInv, DownInv, Waits
  <2>8. UdpOpened(c)
    BY <1>3, <2>1 DEF UdpOpened
  <2>9. Base'
    BY <1>3, <1>5, <2>3, <2>4, <2>5, <2>6, <2>7, <2>8, OneBase
  <2>10. ASSUME Rest PROVE Rest'
    <3>1. ListenerRecordSound /\ ContextInv
      BY <2>10 DEF Rest
    <3>2. ListenerRecordSound'
      <4>1. call.next \notin {"netdone", "netinit"}
        BY <1>2
      <4>2. ASSUME listenCh \in Channels, chState[listenCh] = "tcp", kind[chConn[listenCh]] = "in"
            PROVE  kind'[chConn[listenCh]] = "in"
        <5>1. PICK d \in Channels : d = listenCh
          BY <4>2
        <5>2. chConn[d] \in Conns
          BY <3>1, <4>2, <5>1 DEF ContextInv, TcpCtx
        <5>3. QED BY <1>1, <1>6, <2>1, <4>2, <5>1, <5>2 DEF PeersTyped
      <4>3. listenCh # NoChannel => listenCh \in Channels
        BY <1>1 DEF ChanTyped
      <4>4. QED BY <1>2, <2>1, <3>1, <4>1, <4>2, <4>3 DEF ListenerRecordSound
    <3>3. FreshInv'
      BY <1>5, <2>3 DEF FreshInv
    <3>4. OneMove(c)
      BY <1>2, <1>3, <1>5, <2>1, <3>2, <3>3 DEF OneMove
    <3>5. QED BY <1>3, <2>4, <2>5, <2>6, <2>10, <3>4, OneRest
  <2>11. QED BY <2>9, <2>10
<1>11. CASE UdpOpens(k)
  <2>1. /\ work' = [w EXCEPT !.udp = k]
        /\ kind' = [kind EXCEPT ![k] = "udp"]
        /\ call' = Idle
        /\ chState' = [chState EXCEPT ![c] = "udp"] /\ chConn' = [chConn EXCEPT ![c] = k]
    BY <1>7, <1>11 DEF UdpOpens, Return
  <2>2. work' \in Context /\ work'.udp = k
    BY <1>8, <2>1 DEF Context
  <2>3. call' \in Call /\ call'.next = "none" /\ call'.op = "idle"
    BY <2>1, IdleTyped
  <2>4. /\ chState' \in [Channels -> ChStates] /\ chState'[c] = "udp"
        /\ chConn' \in [Channels -> 0 .. MaxConns] /\ chConn'[c] = k
        /\ \A d \in Channels : d # c => chState'[d] = chState[d] /\ chConn'[d] = chConn[d]
    BY <1>1, <1>3, <1>8, <2>1 DEF ChanTyped, ChStates
  <2>5. ChanTyped'
    BY <1>1, <1>2, <1>3, <1>4, <2>2, <2>4 DEF ChanTyped
  <2>6. OtherKept(c)
    BY <1>4, <1>5, <2>4 DEF OtherKept
  <2>7. Honestly /\ kind'[k] = "udp"
    BY <1>1, <1>9, <2>1 DEF PeersTyped
  <2>8. CallInv' /\ DownInv'
    BY <1>2, <1>3, <2>3 DEF CallInv, DownInv, Waits
  <2>9. UdpOpened(c)
    <3>1. Other(c) \in Channels
      BY <1>3, TwoChannels
    <3>2. chState[Other(c)] = "udp" => kind[chConn[Other(c)]] = "udp"
      BY <1>1, <3>1 DEF UdpInv
    <3>3. QED BY <1>4, <1>6, <2>2, <2>4, <2>7, <3>2 DEF UdpOpened
  <2>10. Base'
    BY <1>3, <1>5, <2>3, <2>5, <2>6, <2>7, <2>8, <2>9, OneBase
  <2>11. ASSUME Rest PROVE Rest'
    <3>1. ListenerRecordSound /\ ContextInv
      BY <2>11 DEF Rest
    <3>2. ListenerRecordSound'
      <4>1. call.next \notin {"netdone", "netinit"}
        BY <1>2
      <4>2. listenCh # c
        BY <1>3, <3>1 DEF ListenerRecordSound
      <4>3. \A d \in Channels : chState'[d] = "listen" => listenCh = d /\ ~accepted
        BY <2>4, <3>1, <4>1 DEF ListenerRecordSound
      <4>4. ASSUME listenCh # NoChannel
            PROVE  \/ chState'[listenCh] = "listen" /\ ~accepted
                   \/ /\ chState'[listenCh] = "tcp" /\ accepted
                      /\ kind'[chConn'[listenCh]] = "in"
        <5>1. PICK d \in Channels : d = listenCh
          BY <1>1, <4>4 DEF ChanTyped
        <5>2. chState'[d] = chState[d] /\ chConn'[d] = chConn[d]
          BY <2>4, <4>2, <5>1
        <5>3. chState[d] = "tcp" => chConn[d] \in Conns
          BY <3>1, <5>1 DEF ContextInv, TcpCtx
        <5>4. \A j \in Conns : kind[j] = "in" => kind'[j] = "in"
          BY <1>1, <1>6, <2>1 DEF PeersTyped
        <5>5. QED BY <3>1, <4>4, <5>1, <5>2, <5>3, <5>4 DEF ListenerRecordSound
      <4>5. QED BY <1>2, <4>3, <4>4 DEF ListenerRecordSound
    <3>3. FreshInv'
      BY <2>3 DEF FreshInv
    <3>4. OneMove(c)
      BY <1>2, <1>3, <1>5, <2>4, <3>2, <3>3 DEF OneMove
    <3>5. QED BY <1>3, <2>5, <2>6, <2>7, <2>11, <3>4, OneRest
  <2>12. QED BY <2>10, <2>11
<1>12. QED BY <1>10, <1>11

\* UNLISTEN: a channel that only listens is closed, an accepted one stays.
LEMMA UnlistenKeeps ==
    ASSUME Base, NEW c \in Channels, CallUnlisten(c)
    PROVE  Base' /\ (Rest => Rest')
<1>1. /\ ChanTyped /\ PendTyped /\ call \in Call /\ CallInv /\ DownInv /\ UdpInv
  BY TypeParts DEF Base
<1>2. /\ call.op = "idle" /\ call.next = "none" /\ apend = NoChannel
      /\ listenCh = c /\ listenCh' = NoChannel
      /\ UNCHANGED <<inited, apend, call, ring, accepted, chConn, ctxVars, netVars>>
  BY <1>1 DEF CallUnlisten, NotBusy, CallInv
<1>3. active' = active /\ \A d \in Channels : Ctx(d)' = Ctx(d)
  BY <1>2 DEF ctxVars, Ctx
<1>4. /\ PendTyped' /\ chState' \in [Channels -> ChStates]
      /\ \A d \in Channels : d # c =>
            pend'[d] = pend[d] /\ closed'[d] = closed[d] /\ chState'[d] = chState[d]
      /\ accepted => /\ chState' = chState /\ pend' = pend /\ closed' = closed
      /\ ~accepted => /\ chState'[c] = "closed"
  <2>1. CASE accepted
    <3>1. chState' = chState /\ pend' = pend /\ closed' = closed /\ hint' = hint
      BY <2>1 DEF CallUnlisten, pendVars
    <3>2. QED BY <1>1, <2>1, <3>1 DEF ChanTyped, PendTyped
  <2>2. CASE ~accepted
    <3>1. chState' = [chState EXCEPT ![c] = "closed"] /\ PendClear(c)
      BY <2>2 DEF CallUnlisten
    <3>2. QED BY <1>1, <2>2, <3>1, Cleared DEF ChanTyped, ChStates
  <2>3. QED BY <2>1, <2>2
<1>5. ChanTyped'
  BY <1>1, <1>2, <1>4 DEF ChanTyped, ctxVars
<1>6. OtherKept(c)
  BY <1>2, <1>3, <1>4 DEF OtherKept
<1>7. Honestly
  BY <1>2, NetKept DEF Shrinks
<1>8. CallInv' /\ DownInv'
  <2>1. call' = call /\ apend' = apend
    BY <1>2
  <2>2. CallInv'
    BY <1>2, <2>1 DEF CallInv, Waits
  <2>3. \A d \in Channels : chState[d] = "closed" => chState'[d] = "closed"
    BY <1>4
  <2>4. DownInv'
    BY <1>1, <1>2, <1>3, <2>1, <2>3 DEF DownInv
  <2>5. QED BY <2>2, <2>4
<1>9. UdpOpened(c)
  <2>1. Other(c) \in Channels /\ Other(c) # c /\ \/ c = 0 /\ Other(c) = 1
                                                 \/ c = 1 /\ Other(c) = 0
    BY DEF Channels, Other
  <2>2. kind' = kind /\ chConn' = chConn
    BY <1>2 DEF netVars
  <2>3. chState'[c] = "udp" => chState[c] = "udp"
    BY <1>4
  <2>4. QED BY <1>1, <1>3, <2>1, <2>2, <2>3 DEF UdpInv, UdpOpened
<1>10. Base'
  BY <1>1, <1>2, <1>4, <1>5, <1>6, <1>7, <1>8, <1>9, OneBase
<1>11. ASSUME Rest PROVE Rest'
  <2>1. /\ ContextInv /\ ListenerRecordSound /\ QueuedIsOwn /\ CloseIsTheirs
    BY <1>11 DEF Rest
  <2>2. chState'[c] # "listen"
    BY <1>2, <1>4, <2>1 DEF ListenerRecordSound
  <2>3. ListenerRecordSound'
    BY <1>2, <1>4, <2>1, <2>2 DEF ListenerRecordSound
  <2>4. FreshInv'
    BY <1>2 DEF FreshInv
  <2>5. chState'[c] = "tcp" => TcpCtx(c)'
    <3>1. chState'[c] = "tcp" => chState[c] = "tcp" /\ TcpCtx(c)
      BY <1>4, <2>1 DEF ContextInv
    <3>2. QED BY <1>2, <1>3, <3>1 DEF TcpCtx, Alive, netVars
  <2>6. chState'[c] # "closed" => chState'[c] = chState[c] /\ pend' = pend /\ closed' = closed
    BY <1>4
  <2>7. chState'[c] = "tcp" => pend'[c] \in {0, chConn'[c]}
    BY <1>2, <2>1, <2>6 DEF QueuedIsOwn
  <2>8. chState'[c] \in {"udp", "listen"} => pend'[c] = 0
    BY <2>1, <2>6 DEF QueuedIsOwn
  <2>9. closed'[c] => \/ chState'[c] = "closed"
                      \/ chState'[c] = "tcp" /\ peer'[chConn'[c]] \in {"fin", "dead"}
    BY <1>2, <2>1, <2>6 DEF CloseIsTheirs, netVars
  <2>10. OneMove(c)
    BY <1>2, <2>2, <2>3, <2>4, <2>5, <2>7, <2>8, <2>9 DEF OneMove
  <2>11. QED BY <1>5, <1>6, <1>7, <1>11, <2>10, OneRest
<1>12. QED BY <1>10, <1>11

\* CONNECT gets its SYN+ACK.
LEMMA AnswerKeeps ==
    ASSUME Base, NEW f, OpenAnswered(f)
    PROVE  Base' /\ (Rest => Rest')
<1>1. /\ ChanTyped /\ PendTyped /\ call \in Call /\ CallInv /\ DownInv
  BY TypeParts DEF Base
<1>2. /\ Takes(f) /\ Scans /\ Head(ring) = f /\ call.op = "open" /\ f.seg = "synack"
      /\ Commit /\ call' = Idle
      /\ UNCHANGED <<inited, apend, listenCh, accepted, active, spare, pendVars, netVars>>
  BY DEF OpenAnswered, TakesFrom, Takes, Return
<1>3. /\ f.conn \in Conns /\ Honest(f) /\ ring # <<>>
      /\ call.ch \in Channels /\ active = call.ch
  BY <1>2, AtHead
<1> PICK c \in Channels : c = call.ch
  BY <1>3
<1>4. /\ chState[c] = "closed" /\ apend = NoChannel /\ call.next \notin {"netdone", "netinit"}
      /\ work.conn = f.conn
  BY <1>1, <1>2 DEF CallInv, DownInv, Takes, Own
<1>5. /\ Going /\ Shrinks /\ call' \in Call /\ call'.op = "idle" /\ call'.next = "none"
  BY <1>2, <1>3, IdleTyped DEF Commit, Shrinks, Going
<1>6. PendTyped' /\ pend' = pend /\ closed' = closed
  BY <1>1, <1>2 DEF PendTyped, pendVars
<1>7. CASE UNCHANGED <<work, chState, chConn>>
  <2>1. Quiet
    BY <1>1, <1>2, <1>5, <1>6, <1>7, StillQuiet DEF ChanTyped, chanVars
  <2>2. QuietMove
    BY <1>2, <1>6, <1>7 DEF QuietMove
  <2>3. QED BY <2>1, <2>2, QuietBase, QuietRest
<1>8. CASE /\ work' = [work EXCEPT !.st = "ESTAB"]
           /\ chState' = [chState EXCEPT ![c] = "tcp"]
           /\ chConn' = [chConn EXCEPT ![c] = f.conn]
  <2>1. work' \in Context /\ work'.st = "ESTAB" /\ work'.conn = f.conn
    <3>1. "ESTAB" \in TcpStates /\ work \in Context
      BY <1>1 DEF TcpStates, ChanTyped
    <3>2. QED BY <1>4, <1>8, <3>1, StateSet
  <2>2. f.conn \in 0 .. MaxConns
    BY <1>3, ChannelsAssumption DEF Conns
  <2>3. /\ chState' \in [Channels -> ChStates] /\ chState'[c] = "tcp"
        /\ chConn' \in [Channels -> 0 .. MaxConns] /\ chConn'[c] = f.conn
        /\ \A d \in Channels : d # c => chState'[d] = chState[d] /\ chConn'[d] = chConn[d]
    BY <1>1, <1>8, <2>2 DEF ChanTyped, ChStates
  <2>4. ChanTyped'
    BY <1>1, <1>2, <2>1, <2>3 DEF ChanTyped
  <2>5. Ctx(c)' = work' /\ \A d \in Channels : d # c => Ctx(d)' = Ctx(d)
    BY <1>2, <1>3, HasSelected
  <2>6. OtherKept(c)
    BY <1>6, <2>3, <2>5 DEF OtherKept
  <2>7. Honestly
    BY <1>2, <1>5, NetKept
  <2>8. CallInv'
    BY <1>5 DEF CallInv, Waits
  <2>9. DownInv'
    BY <1>2, <1>3, <1>5, TwoChannels DEF DownInv
  <2>10. Base'
    BY <1>5, <1>6, <2>3, <2>4, <2>6, <2>7, <2>8, <2>9, OneBase DEF UdpOpened
  <2>11. ASSUME Rest PROVE Rest'
    <3>1. ListenerRecordSound /\ pend[c] = 0 /\ ~closed[c]
      BY <1>2, <2>11 DEF Rest, FreshInv
    <3>2. kind' = kind /\ peer' = peer /\ kind[f.conn] = "out"
      BY <1>2, <1>3 DEF Honest, netVars
    <3>3. TcpCtx(c)'
      BY <1>3, <2>1, <2>3, <2>5, <3>2 DEF TcpCtx, Alive
    <3>4. ListenerRecordSound'
      <4>1. listenCh # c
        BY <1>3, <1>4, <3>1, TwoChannels DEF ListenerRecordSound
      <4>2. listenCh # NoChannel => listenCh \in Channels
        BY <1>1 DEF ChanTyped
      <4>3. QED BY <1>2, <1>4, <2>3, <3>1, <3>2, <4>1, <4>2 DEF ListenerRecordSound
    <3>5. FreshInv'
      BY <1>5 DEF FreshInv
    <3>6. OneMove(c)
      BY <1>2, <1>4, <1>6, <2>3, <3>1, <3>3, <3>4, <3>5 DEF OneMove
    <3>7. QED BY <2>4, <2>6, <2>7, <2>11, <3>6, OneRest
  <2>12. QED BY <2>10, <2>11
<1>9. QED BY <1>7, <1>8 DEF OpenAnswered

\* LISTEN_POLL gets the last ACK of a handshake: the channel is accepted.
LEMMA AcceptKeeps ==
    ASSUME Base, NEW f, PollAccept(f)
    PROVE  Base' /\ (Rest => Rest')
<1>1. /\ ChanTyped /\ PendTyped /\ call \in Call /\ CallInv /\ DownInv
  BY TypeParts DEF Base
<1>2. /\ Takes(f) /\ Scans /\ Head(ring) = f /\ call.op = "poll"
      /\ f.seg \in {"ack", "data", "fin"}
      /\ accepted' = TRUE
      /\ work' = [work EXCEPT !.st = "ESTAB"]
      /\ chState' = [chState EXCEPT ![call.ch] = "tcp"]
      /\ chConn' = [chConn EXCEPT ![call.ch] = f.conn]
      /\ Commit \/ UNCHANGED ring
      /\ call' = [call EXCEPT !.op = "enter", !.left = 1]
      /\ UNCHANGED <<inited, apend, listenCh, active, spare, pendVars, netVars>>
  BY DEF PollAccept, TakesFrom, Takes
<1>3. /\ f.conn \in Conns /\ Honest(f) /\ ring # <<>>
      /\ call.ch \in Channels /\ active = call.ch
      /\ AcceptedInv => Alive(f.conn)
  BY <1>2, AtHead
<1> PICK c \in Channels : c = call.ch
  BY <1>3
<1>4. /\ chState[c] = "listen" /\ apend = NoChannel
      /\ call.next \notin {"netdone", "netinit"} /\ call.room >= 1
      /\ work.st # "LISTEN" => work.conn = f.conn
      /\ work.st # "LISTEN"
  BY <1>1, <1>2 DEF CallInv, DownInv, Takes, Own
<1>5. /\ Shrinks /\ call' \in Call /\ call'.op = "enter" /\ call'.ch = c
      /\ call'.next = call.next /\ call'.room = call.room
  <2>1. Shrinks
    BY <1>2, <1>3 DEF Commit, Shrinks
  <2>2. 1 \in 0 .. Budget + 2
    BY ChannelsAssumption
  <2>3. QED BY <1>1, <1>2, <2>1, <2>2 DEF Call
<1>6. PendTyped' /\ pend' = pend /\ closed' = closed
  BY <1>1, <1>2 DEF PendTyped, pendVars
<1>7. work' \in Context /\ work'.st = "ESTAB" /\ work'.conn = f.conn
  <2>1. "ESTAB" \in TcpStates /\ work \in Context
    BY <1>1 DEF TcpStates, ChanTyped
  <2>2. QED BY <1>2, <1>4, <2>1, StateSet
<1>8. f.conn \in 0 .. MaxConns
  BY <1>3, ChannelsAssumption DEF Conns
<1>9. /\ chState' \in [Channels -> ChStates] /\ chState'[c] = "tcp"
      /\ chConn' \in [Channels -> 0 .. MaxConns] /\ chConn'[c] = f.conn
      /\ \A d \in Channels : d # c => chState'[d] = chState[d] /\ chConn'[d] = chConn[d]
  BY <1>1, <1>2, <1>8 DEF ChanTyped, ChStates
<1>10. ChanTyped'
  BY <1>1, <1>2, <1>7, <1>9 DEF ChanTyped
<1>11. /\ Ctx(c)' = work' /\ Ctx(c) = work
       /\ \A d \in Channels : d # c => Ctx(d)' = Ctx(d)
  BY <1>2, <1>3, HasSelected
<1>12. OtherKept(c)
  BY <1>6, <1>9, <1>11 DEF OtherKept
<1>13. Honestly
  BY <1>2, <1>5, NetKept
<1>14. CallInv' /\ DownInv'
  <2>1. CallInv'
    BY <1>2, <1>3, <1>4, <1>5, <1>9 DEF CallInv, Waits
  <2>2. DownInv'
    BY <1>2, <1>3, <1>4, <1>5, TwoChannels DEF DownInv
  <2>3. QED BY <2>1, <2>2
<1>15. Base'
  BY <1>5, <1>6, <1>9, <1>10, <1>12, <1>13, <1>14, OneBase DEF UdpOpened
<1>16. ASSUME Rest PROVE Rest'
  <2>1. ContextInv /\ ListenerRecordSound /\ QueuedIsOwn /\ CloseIsTheirs /\ AcceptedInv
    BY <1>16 DEF Rest
  <2>2. kind' = kind /\ peer' = peer
    BY <1>2 DEF netVars
  <2>3. kind[f.conn] = "in"
    BY <1>4, <1>11, <2>1 DEF ContextInv, ListenCtx
  <2>4. TcpCtx(c)'
    BY <1>3, <1>7, <1>9, <1>11, <2>1, <2>2, <2>3 DEF TcpCtx, Alive
  <2>5. listenCh = c /\ ~accepted
    BY <1>4, <2>1 DEF ListenerRecordSound
  <2>6. ListenerRecordSound'
    <3>1. \A d \in Channels : d # c => chState[d] # "listen"
      BY <1>4, <2>1, <2>5 DEF ListenerRecordSound
    <3>2. \A d \in Channels : chState'[d] # "listen"
      BY <1>9, <3>1
    <3>3. QED BY <1>2, <1>9, <2>2, <2>3, <2>5, <3>2 DEF ListenerRecordSound
  <2>7. FreshInv'
    BY <1>5 DEF FreshInv
  <2>8. pend[c] = 0 /\ ~closed[c]
    BY <1>4, <2>1 DEF QueuedIsOwn, CloseIsTheirs
  <2>9. OneMove(c)
    BY <1>2, <1>4, <1>6, <1>9, <2>4, <2>6, <2>7, <2>8 DEF OneMove
  <2>10. QED BY <1>10, <1>12, <1>13, <1>16, <2>9, OneRest
<1>17. QED BY <1>15, <1>16

\* CLOSE sends its FIN and waits.
LEMMA FinKeeps ==
    ASSUME Base, CloseFin
    PROVE  Base' /\ (Rest => Rest')
<1>1. /\ ChanTyped /\ PendTyped /\ call \in Call /\ CallInv /\ DownInv
  BY TypeParts DEF Base
<1> PICK c \in Channels : c = call.ch
  BY <1>1 DEF Call
<1>2. /\ call.op = "closing" /\ chState[c] = "tcp"
      /\ active' = c /\ spare' = SelSpare(c)
      /\ work' = [SelWork(c) EXCEPT !.st = "LAST_ACK"]
      /\ call' = [call EXCEPT !.op = "close", !.left = Budget]
      /\ UNCHANGED <<inited, apend, ring, chanVars, pendVars, netVars>>
  BY DEF CloseFin
<1>3. /\ Ctx(c)' = work' /\ SelWork(c) \in Context /\ spare' \in Context
      /\ Ctx(c) = SelWork(c)
      /\ \A d \in Channels : d # c /\ chState[d] # "closed" => Ctx(d)' = Ctx(d)
  BY <1>2, SelectsOne
<1>4. PICK w \in Context : w = SelWork(c)
  BY <1>3
<1>5. work' \in Context /\ work'.st = "LAST_ACK" /\ work'.conn = w.conn
  <2>1. "LAST_ACK" \in TcpStates
    BY DEF TcpStates
  <2>2. QED BY <1>2, <1>4, <2>1, StateSet
<1>6. /\ call' \in Call /\ call'.op = "close" /\ call'.ch = c /\ call'.next = call.next
  <2>1. Budget \in 0 .. Budget + 2 /\ "close" \in Waits
    BY ChannelsAssumption DEF Waits
  <2>2. QED BY <1>1, <1>2, <2>1 DEF Call
<1>7. /\ UNCHANGED <<chState, listenCh, accepted, chConn>>
      /\ pend' = pend /\ closed' = closed /\ PendTyped' /\ kind' = kind /\ peer' = peer
  BY <1>1, <1>2 DEF chanVars, pendVars, PendTyped, netVars
<1>8. ChanTyped'
  BY <1>1, <1>2, <1>3, <1>5, <1>7 DEF ChanTyped
<1>9. OtherKept(c)
  BY <1>3, <1>7 DEF OtherKept
<1>10. Honestly
  BY <1>2, NetKept DEF Shrinks
<1>11. CallInv' /\ DownInv'
  <2>1. CallInv'
    BY <1>1, <1>2, <1>6, <1>7 DEF CallInv, Waits
  <2>2. c # NoChannel
    BY TwoChannels
  <2>3. DownInv'
    BY <1>1, <1>2, <1>6, <1>7, <2>2 DEF DownInv
  <2>4. QED BY <2>1, <2>3
<1>12. Base'
  BY <1>2, <1>6, <1>7, <1>8, <1>9, <1>10, <1>11, OneBase DEF UdpOpened
<1>13. ASSUME Rest PROVE Rest'
  <2>1. ContextInv /\ ListenerRecordSound /\ QueuedIsOwn /\ CloseIsTheirs
    BY <1>13 DEF Rest
  <2>2. TcpCtx(c)
    BY <1>2, <2>1 DEF ContextInv
  <2>3. TcpCtx(c)'
    BY <1>3, <1>4, <1>5, <1>6, <1>7, <2>2 DEF TcpCtx, Alive
  <2>4. ListenerRecordSound'
    BY <1>6, <1>7, <2>1 DEF ListenerRecordSound
  <2>5. FreshInv'
    BY <1>6 DEF FreshInv
  <2>6. apend' = NoChannel
    BY <1>1, <1>2 DEF CallInv
  <2>7. OneMove(c)
    BY <1>2, <1>7, <2>1, <2>3, <2>4, <2>5, <2>6 DEF OneMove, QueuedIsOwn, CloseIsTheirs
  <2>8. QED BY <1>8, <1>9, <1>10, <1>13, <2>7, OneRest
<1>14. QED BY <1>12, <1>13

-----------------------------------------------------------------------------
(* RELEASE_OR_REARM and what ends with it.                                 *)

\* What it makes of the channel.
LEMMA Releases ==
    ASSUME ChanTyped, NEW c \in Channels, NEW w \in Context, Release(c, w)
    PROVE  /\ chState' \in [Channels -> ChStates]
           /\ chState'[c] = IF Rearms(c) THEN "listen" ELSE "closed"
           /\ chConn' \in [Channels -> 0 .. MaxConns]
           /\ \A d \in Channels : d # c => chState'[d] = chState[d] /\ chConn'[d] = chConn[d]
           /\ listenCh' = IF Unarms(c) THEN NoChannel ELSE listenCh
           /\ accepted' \in BOOLEAN /\ accepted' = (accepted /\ ~Rearms(c))
           /\ work' \in Context /\ work'.udp = w.udp
           /\ Rearms(c) => work'.st = "LISTEN"
<1>1. /\ chState' = [chState EXCEPT ![c] = IF Rearms(c) THEN "listen" ELSE "closed"]
      /\ chConn' = [chConn EXCEPT ![c] = 0]
      /\ listenCh' = IF Unarms(c) THEN NoChannel ELSE listenCh
      /\ accepted' = (accepted /\ ~Rearms(c))
      /\ work' = IF Rearms(c) THEN Listening(w) ELSE w
  BY DEF Release
<1>2. 0 \in 0 .. MaxConns /\ "LISTEN" \in TcpStates
  BY ChannelsAssumption DEF TcpStates
<1>3. /\ chState' \in [Channels -> ChStates]
      /\ chState'[c] = IF Rearms(c) THEN "listen" ELSE "closed"
      /\ \A d \in Channels : d # c => chState'[d] = chState[d]
  BY <1>1 DEF ChanTyped, ChStates
<1>4. /\ chConn' \in [Channels -> 0 .. MaxConns]
      /\ \A d \in Channels : d # c => chConn'[d] = chConn[d]
  BY <1>1, <1>2 DEF ChanTyped
<1>5. accepted' \in BOOLEAN
  BY <1>1
<1>6. CASE Rearms(c)
  <2>1. work' = [w EXCEPT !.st = "LISTEN", !.conn = 0]
    BY <1>1, <1>6 DEF Listening
  <2>2. work' \in Context /\ work'.udp = w.udp /\ work'.st = "LISTEN"
    BY <1>2, <2>1 DEF Context
  <2>3. QED BY <1>1, <1>3, <1>4, <1>5, <2>2
<1>7. CASE ~Rearms(c)
  BY <1>1, <1>3, <1>4, <1>5, <1>7
<1>8. QED BY <1>6, <1>7

\* The call that has released its channel returns, or goes on with the other
\* one, or with the reset of the card.
NetCalls == {"netdone", "netinit"}
CallOver ==
    \/ call'.op = "idle" /\ call'.next = "none" /\ (call.next \in NetCalls => call.ch = 1)
    \/ /\ call'.op = "closing" /\ call'.next = call.next
       /\ call.next \in NetCalls /\ call.ch = 0 /\ call'.ch = 1
    \/ call'.op = "reset" /\ call'.next = call.next /\ call.next = "netinit" /\ call.ch = 1

LEMMA AfterCloseOver ==
    ASSUME call \in Call, AfterClose
    PROVE  call' \in Call /\ CallOver
<1>1. call.ch \in {0, 1} /\ 1 \in Channels
  BY DEF Call, Channels
<1>2. CASE call' = Idle /\ (call.next \in NetCalls => call.ch = 1)
  BY <1>2, IdleTyped DEF CallOver
<1>3. CASE /\ call.next \in NetCalls /\ call.ch = 0
           /\ call' = [call EXCEPT !.op = "closing", !.ch = 1]
  <2>1. call' \in Call /\ call'.op = "closing" /\ call'.ch = 1 /\ call'.next = call.next
    BY <1>1, <1>3 DEF Call
  <2>2. QED BY <1>3, <2>1 DEF CallOver
<1>4. CASE call.next = "netinit" /\ call.ch = 1 /\ call' = [call EXCEPT !.op = "reset"]
  <2>1. call' \in Call /\ call'.op = "reset" /\ call'.next = call.next
    BY <1>4 DEF Call
  <2>2. QED BY <1>4, <2>1 DEF CallOver
<1>5. QED BY <1>1, <1>2, <1>3, <1>4 DEF AfterClose, Return, NetCalls

\* The release of the channel of the call.
LEMMA ReleaseKeeps ==
    ASSUME Base, NEW c \in Channels, c = call.ch, NEW w \in Context, Release(c, w),
           call.op # "idle", call' \in Call, CallOver,
           UNCHANGED <<inited, apend, netVars>>, Shrinks,
           active' \in {active, c}, spare' \in Context,
           PendTyped',
           \A d \in Channels : d # c => pend'[d] = pend[d] /\ closed'[d] = closed[d],
           Rest => pend'[c] = 0 /\ ~closed'[c],
           \A d \in Channels : d # c /\ chState[d] # "closed" =>
              Ctx(d)'.udp = Ctx(d).udp /\ (Rest => Ctx(d)' = Ctx(d)),
           Rest => ~Rearms(c) \/ Ctx(c)' = work'
    PROVE  Base' /\ (Rest => Rest')
<1>1. /\ ChanTyped /\ CallInv /\ DownInv /\ call \in Call
  BY TypeParts DEF Base
<1>2. /\ chState' \in [Channels -> ChStates]
      /\ chState'[c] = IF Rearms(c) THEN "listen" ELSE "closed"
      /\ chConn' \in [Channels -> 0 .. MaxConns]
      /\ \A d \in Channels : d # c => chState'[d] = chState[d] /\ chConn'[d] = chConn[d]
      /\ listenCh' = IF Unarms(c) THEN NoChannel ELSE listenCh
      /\ accepted' \in BOOLEAN /\ accepted' = (accepted /\ ~Rearms(c))
      /\ work' \in Context
      /\ Rearms(c) => work'.st = "LISTEN"
  BY <1>1, Releases
<1>3. ChanTyped'
  BY <1>1, <1>2 DEF ChanTyped
<1>4. OtherUdp(c)
  BY <1>2 DEF OtherUdp
<1>5. Honestly
  BY NetKept
<1>6. apend' = NoChannel
  BY <1>1 DEF CallInv
<1>7. CallInv'
  BY <1>6 DEF CallInv, CallOver, Waits
<1>8. c # NoChannel /\ 0 \in Channels /\ 1 \in Channels /\ \A d \in Channels : d = 0 \/ d = 1
  BY TwoChannels DEF Channels
<1>9. DownInv'
  <2>1. listenCh = NoChannel => /\ ~Rearms(c) /\ ~Unarms(c) /\ listenCh' = NoChannel
                                /\ chState'[c] = "closed"
    BY <1>2, <1>8 DEF Rearms, Unarms
  <2>2. call.next \in NetCalls => listenCh = NoChannel /\ (c = 1 => chState[0] = "closed")
    BY <1>1 DEF DownInv, NetCalls
  <2>3. call'.next \in NetCalls =>
           /\ call'.op \in {"closing", "close", "reset"} /\ listenCh' = NoChannel
           /\ call'.ch = 1 => chState'[0] = "closed"
    <3>1. CASE call'.op = "idle"
      BY <3>1 DEF CallOver, NetCalls
    <3>2. CASE call'.op = "closing"
      BY <2>1, <2>2, <3>2 DEF CallOver
    <3>3. CASE call'.op = "reset"
      BY <1>2, <1>8, <2>1, <2>2, <3>3 DEF CallOver, NetCalls
    <3>4. QED BY <3>1, <3>2, <3>3 DEF CallOver
  <2>4. call'.op = "reset" =>
           call'.next = "netinit" /\ \A d \in Channels : chState'[d] = "closed"
    <3>1. SUFFICES ASSUME call'.op = "reset"
                   PROVE  call'.next = "netinit" /\ \A d \in Channels : chState'[d] = "closed"
      OBVIOUS
    <3>2. call'.next = "netinit" /\ call.next \in NetCalls /\ c = 1
      BY <3>1 DEF CallOver, NetCalls
    <3>3. QED BY <1>2, <1>8, <2>1, <2>2, <3>2
  <2>5. active' = NoChannel =>
           listenCh' = NoChannel /\ \A d \in Channels : chState'[d] = "closed"
    <3>1. active' = NoChannel =>
             listenCh = NoChannel /\ \A d \in Channels : chState[d] = "closed"
      BY <1>1, <1>8 DEF DownInv
    <3>2. QED BY <1>2, <2>1, <3>1
  <2>6. QED BY <2>3, <2>4, <2>5 DEF DownInv, NetCalls
<1>10. Base'
  BY <1>2, <1>3, <1>4, <1>5, <1>7, <1>9, OneBaseUdp DEF UdpOpened
<1>11. ASSUME Rest PROVE Rest'
  <2>1. ListenerRecordSound /\ kind' = kind
    BY <1>11 DEF Rest, netVars
  <2>2. OtherKept(c)
    BY <1>2, <1>11 DEF OtherKept
  <2>3. ListenerRecordSound'
    <3>1. ASSUME call'.next \notin NetCalls, NEW d \in Channels, chState'[d] = "listen"
          PROVE  listenCh' = d /\ ~accepted'
      <4>1. CASE call.next \in NetCalls
        <5>1. c = 1 /\ chState[0] = "closed" /\ listenCh = NoChannel
          BY <1>1, <3>1, <4>1 DEF CallOver, DownInv, NetCalls
        <5>2. QED BY <1>2, <1>8, <3>1, <5>1 DEF Rearms
      <4>2. CASE call.next \notin NetCalls /\ d = c
        BY <1>2, <3>1, <4>2 DEF Rearms, Unarms
      <4>3. CASE call.next \notin NetCalls /\ d # c
        <5>1. listenCh = d /\ ~accepted
          BY <1>2, <2>1, <3>1, <4>3 DEF ListenerRecordSound, NetCalls
        <5>2. QED BY <1>2, <4>3, <5>1 DEF Unarms
      <4>4. QED BY <4>1, <4>2, <4>3
    <3>2. ASSUME listenCh' # NoChannel
          PROVE  \/ chState'[listenCh'] = "listen" /\ ~accepted'
                 \/ /\ chState'[listenCh'] = "tcp" /\ accepted'
                    /\ kind'[chConn'[listenCh']] = "in"
      <4>1. listenCh' = listenCh /\ listenCh \in Channels /\ ~Unarms(c)
        BY <1>1, <1>2, <3>2 DEF ChanTyped
      <4>2. CASE listenCh = c
        BY <1>2, <4>1, <4>2 DEF Rearms, Unarms
      <4>3. CASE listenCh # c
        <5>1. \/ chState[listenCh] = "listen" /\ ~accepted
              \/ /\ chState[listenCh] = "tcp" /\ accepted
                 /\ kind[chConn[listenCh]] = "in"
          BY <2>1, <3>2, <4>1 DEF ListenerRecordSound
        <5>2. chState'[listenCh] = chState[listenCh] /\ chConn'[listenCh] = chConn[listenCh]
          BY <2>2, <4>1, <4>3 DEF OtherKept
        <5>3. accepted' <=> accepted
          <6>1. ~Rearms(c)
            BY <4>1, <4>3 DEF Rearms
          <6>2. QED BY <1>2, <6>1, Zenon
        <5>4. \/ chState'[listenCh] = "listen" /\ ~accepted'
              \/ /\ chState'[listenCh] = "tcp" /\ accepted'
                 /\ kind'[chConn'[listenCh]] = "in"
          BY <2>1, <5>1, <5>2, <5>3
        <5>5. QED BY <4>1, <5>4
      <4>4. QED BY <4>2, <4>3
    <3>3. QED BY <3>1, <3>2 DEF ListenerRecordSound, NetCalls
  <2>4. FreshInv'
    BY DEF FreshInv, CallOver
  <2>5. chState'[c] = "listen" => ListenCtx(c)'
    BY <1>2, <1>11 DEF ListenCtx
  <2>6. OneMove(c)
    BY <1>2, <1>6, <1>11, <2>3, <2>4, <2>5 DEF OneMove
  <2>7. QED BY <1>3, <1>5, <1>11, <2>2, <2>6, OneRest
<1>12. QED BY <1>10, <1>11

\* A peer that has closed ends a wait, and the channel with it.
LEMMA PeerCloses ==
    ASSUME Base, NEW w \in Context, Release(call.ch, w),
           call.op \in {"enter", "recv", "send"}, call' = Idle,
           UNCHANGED <<inited, apend, active, spare, netVars>>, Shrinks, PendTyped',
           \A d \in Channels : d # call.ch => pend'[d] = pend[d] /\ closed'[d] = closed[d],
           Rest => pend'[call.ch] = 0 /\ ~closed'[call.ch]
    PROVE  Base' /\ (Rest => Rest')
<1>1. /\ ChanTyped /\ call \in Call /\ CallInv /\ DownInv
  BY TypeParts DEF Base
<1> PICK c \in Channels : c = call.ch
  BY <1>1 DEF Call
<1>2. active = c /\ call.next \notin NetCalls
  <2>1. active = c
    BY <1>1 DEF CallInv, Waits
  <2>2. QED BY <1>1, <2>1 DEF DownInv, NetCalls
<1>3. Ctx(c)' = work' /\ \A d \in Channels : d # c => Ctx(d)' = Ctx(d)
  BY <1>2, HasSelected
<1>4. call' \in Call /\ CallOver
  BY <1>2, IdleTyped DEF CallOver
<1>5. spare' \in Context /\ active' \in {active, c}
  BY <1>1 DEF ChanTyped
<1>6. Release(c, w)
  OBVIOUS
<1>7. \A d \in Channels : d # c => pend'[d] = pend[d] /\ closed'[d] = closed[d]
  OBVIOUS
<1>8. Rest => pend'[c] = 0 /\ ~closed'[c]
  OBVIOUS
<1>9. UNCHANGED <<inited, apend, netVars>>
  OBVIOUS
<1>10. QED BY <1>3, <1>4, <1>5, <1>6, <1>7, <1>8, <1>9, ReleaseKeeps

\* Or it is noted, and a later RECV reports it.
LEMMA PeerNoted ==
    ASSUME Base, call.op \in {"enter", "recv"}, call' = Idle,
           UNCHANGED <<inited, apend, chanVars, active, spare, pend, hint, netVars>>, Shrinks,
           work' \in Context, work'.udp = work.udp, work'.conn = work.conn,
           work'.st \in {work.st, "CLOSE_WAIT"},
           closed' = [closed EXCEPT ![call.ch] = TRUE],
           Rest => closed[call.ch] \/ peer[chConn[call.ch]] \in {"fin", "dead"}
    PROVE  Base' /\ (Rest => Rest')
<1>1. /\ ChanTyped /\ PendTyped /\ PeersTyped /\ call \in Call /\ CallInv
  BY TypeParts DEF Base
<1>2. call.ch \in Channels /\ active = call.ch /\ chState[call.ch] = "tcp"
  BY <1>1 DEF Call, CallInv
<1>3. Going
  BY DEF Going
<1>4. /\ closed' \in [Channels -> BOOLEAN]
      /\ \A d \in Channels : (closed'[d] => closed[d]) \/ d = call.ch
  BY <1>1 DEF PendTyped
<1>5. PendTyped'
  BY <1>1, <1>4 DEF PendTyped
<1>6. spare' \in Context /\ spare'.udp = spare.udp
  BY <1>1 DEF ChanTyped
<1>7. Quiet
  BY <1>3, <1>5, <1>6, StillQuiet
<1>8. Rest => QuietMove
  BY <1>2, <1>4 DEF QuietMove
<1>9. QED BY <1>7, <1>8, QuietBase, QuietRest

\* RECV reports what was noted, hears a FIN or an RST; SEND hears an RST.
LEMMA CloserKeeps ==
    ASSUME Base, RecvClosed \/ \E f : RecvFin(f) \/ RecvRst(f) \/ SendRst(f)
    PROVE  Base' /\ (Rest => Rest')
<1>1. /\ ChanTyped /\ PendTyped /\ call \in Call /\ call.ch \in Channels /\ CallInv
      /\ work \in Context
  BY TypeParts DEF Base, ChanTyped, Call
<1>2. \A b \in BOOLEAN : closed' = [closed EXCEPT ![call.ch] = b] =>
         /\ closed' \in [Channels -> BOOLEAN] /\ closed'[call.ch] = b
         /\ \A d \in Channels : d # call.ch => closed'[d] = closed[d]
  BY <1>1 DEF PendTyped
<1>3. PICK v : v = [work EXCEPT !.st = "CLOSE_WAIT"]
  OBVIOUS
<1>4. v \in Context /\ v.st = "CLOSE_WAIT" /\ v.conn = work.conn /\ v.udp = work.udp
  <2>1. "CLOSE_WAIT" \in TcpStates
    BY DEF TcpStates
  <2>2. QED BY <1>1, <1>3, <2>1, StateSet
<1>5. CASE RecvClosed
  <2>1. /\ call.op = "enter" /\ pend[call.ch] = 0 /\ closed[call.ch] /\ call' = Idle
        /\ UNCHANGED <<inited, apend, active, spare, pend, hint, netVars>> /\ ring' = ring
        /\ ReportClosed
    BY <1>5 DEF RecvClosed, Return
  <2>2. CASE closed' = [closed EXCEPT ![call.ch] = FALSE] /\ Release(call.ch, work)
    <3>1. PendTyped'
      BY <1>1, <1>2, <2>1, <2>2 DEF PendTyped
    <3>2. QED BY <1>1, <1>2, <2>1, <2>2, <3>1, PeerCloses DEF Shrinks
  <2>3. CASE closed' = [closed EXCEPT ![call.ch] = TRUE] /\ UNCHANGED <<chanVars, work>>
    BY <1>1, <2>1, <2>3, PeerNoted DEF Shrinks
  <2>4. QED BY <2>1, <2>2, <2>3 DEF ReportClosed
<1>6. CASE \E f : RecvFin(f) \/ RecvRst(f)
  <2>1. PICK f : RecvFin(f) \/ RecvRst(f)
    BY <1>6
  <2>2. /\ Takes(f) /\ Scans /\ Head(ring) = f /\ call.op = "recv" /\ call' = Idle
        /\ UNCHANGED <<inited, apend, active, spare, pend, hint, netVars>>
        /\ f.seg \in {"fin", "rst"} /\ ring' = Tail(ring)
    BY <2>1 DEF RecvFin, RecvRst, TakesFrom, Takes, Return, Commit
  <2>3. f.conn \in Conns /\ Honest(f) /\ ring # <<>>
    BY <2>2, AtHead
  <2>4. Rest => f.conn = chConn[call.ch]
    BY <2>2, OwnOf
  <2>5. peer[f.conn] \in {"fin", "dead"}
    BY <2>2, <2>3 DEF Honest
  <2>6. Rest => pend[call.ch] = 0
    BY <2>2 DEF Rest, FreshInv
  <2>7. Shrinks
    BY <2>2, <2>3 DEF Shrinks
  <2>8. ASSUME NEW w \in Context, closed' = [closed EXCEPT ![call.ch] = FALSE],
               Release(call.ch, w)
        PROVE  Base' /\ (Rest => Rest')
    <3>1. PendTyped'
      BY <1>1, <1>2, <2>2, <2>8 DEF PendTyped
    <3>2. QED BY <1>1, <1>2, <2>2, <2>6, <2>7, <2>8, <3>1, PeerCloses
  <2>9. ASSUME work' \in {work, v}, closed' = [closed EXCEPT ![call.ch] = TRUE],
               UNCHANGED chanVars
        PROVE  Base' /\ (Rest => Rest')
    <3>1. /\ work' \in Context /\ work'.udp = work.udp /\ work'.conn = work.conn
          /\ work'.st \in {work.st, "CLOSE_WAIT"}
      BY <1>1, <1>4, <2>9
    <3>2. QED BY <2>2, <2>4, <2>5, <2>7, <2>9, <3>1, PeerNoted
  <2>10. CASE RecvFin(f)
    <3>1. \/ closed' = [closed EXCEPT ![call.ch] = TRUE] /\ work' = v /\ UNCHANGED chanVars
          \/ closed' = [closed EXCEPT ![call.ch] = FALSE] /\ Release(call.ch, v)
      BY <1>3, <2>10 DEF RecvFin
    <3>2. QED BY <1>4, <2>8, <2>9, <3>1
  <2>11. CASE RecvRst(f)
    <3>1. \/ closed' = [closed EXCEPT ![call.ch] = TRUE] /\ UNCHANGED <<chanVars, work>>
          \/ closed' = [closed EXCEPT ![call.ch] = FALSE] /\ Release(call.ch, work)
      BY <2>11 DEF RecvRst, ReportClosed
    <3>2. QED BY <1>1, <2>8, <2>9, <3>1
  <2>12. QED BY <2>1, <2>10, <2>11
<1>7. CASE \E f : SendRst(f)
  <2>1. PICK f : SendRst(f)
    BY <1>7
  <2>2. /\ Takes(f) /\ Scans /\ Head(ring) = f /\ call.op = "send" /\ call' = Idle
        /\ Release(call.ch, work) /\ PendClear(call.ch) /\ ring' = Tail(ring)
        /\ UNCHANGED <<inited, apend, active, spare, netVars>>
    BY <2>1 DEF SendRst, TakesFrom, Takes, Return, Commit
  <2>3. Shrinks
    BY <2>2, AtHead DEF Shrinks
  <2>4. /\ PendTyped' /\ pend'[call.ch] = 0 /\ ~closed'[call.ch]
        /\ \A d \in Channels : d # call.ch => pend'[d] = pend[d] /\ closed'[d] = closed[d]
    BY <1>1, <2>2, Cleared
  <2>5. QED BY <1>1, <2>2, <2>3, <2>4, PeerCloses
<1>8. QED BY <1>5, <1>6, <1>7

\* CLOSE of a channel that was not open, or that needs no wait, and the end
\* of its wait for the ACK of the FIN.
LEMMA CloseKeeps ==
    ASSUME Base, CloseNothing \/ CloseLocal \/ CloseAtOnce \/ CloseEnds
    PROVE  Base' /\ (Rest => Rest')
<1>1. /\ ChanTyped /\ PendTyped /\ call \in Call /\ CallInv /\ work \in Context
  BY TypeParts DEF Base, ChanTyped
<1> PICK c \in Channels : c = call.ch
  BY <1>1 DEF Call
<1>2. /\ call.op \in {"closing", "close"} /\ PendClear(c) /\ AfterClose
      /\ UNCHANGED <<inited, apend, netVars>> /\ ring' = ring
  BY DEF CloseNothing, CloseLocal, CloseAtOnce, CloseEnds, Expired
<1>3. call' \in Call /\ CallOver
  BY <1>1, <1>2, AfterCloseOver
<1>4. /\ PendTyped' /\ pend'[c] = 0 /\ ~closed'[c]
      /\ \A d \in Channels : d # c => pend'[d] = pend[d] /\ closed'[d] = closed[d]
  BY <1>1, <1>2, Cleared
<1>5. Shrinks
  BY <1>2 DEF Shrinks
<1>6. ASSUME NEW w \in Context, Release(c, w), active' \in {active, c}, spare' \in Context,
             \A d \in Channels : d # c /\ chState[d] # "closed" =>
                Ctx(d)'.udp = Ctx(d).udp /\ (Rest => Ctx(d)' = Ctx(d)),
             Rest => ~Rearms(c) \/ Ctx(c)' = work'
      PROVE  Base' /\ (Rest => Rest')
  BY <1>2, <1>3, <1>4, <1>5, <1>6, ReleaseKeeps
<1>7. CASE CloseNothing
  <2>1. /\ chState[c] = "closed" /\ Release(c, work) /\ active' = active /\ spare' = spare
    BY <1>7 DEF CloseNothing
  <2>2. work' \in Context /\ work'.udp = work.udp /\ (~Rearms(c) => work' = work)
    BY <1>1, <2>1, Releases DEF Release
  <2>3. Rest => ~Rearms(c)
    BY <2>1, TwoChannels DEF Rest, ListenerRecordSound, Rearms
  <2>4. ASSUME NEW d \in Channels
        PROVE  Ctx(d)'.udp = Ctx(d).udp /\ (Rest => Ctx(d)' = Ctx(d))
    BY <2>1, <2>2, <2>3 DEF Ctx
  <2>5. spare' \in Context
    BY <1>1, <2>1 DEF ChanTyped
  <2>6. QED BY <1>1, <1>6, <2>1, <2>3, <2>4, <2>5
<1>8. ASSUME NEW w \in Context, Release(c, w), active' = c, spare' = SelSpare(c)
      PROVE  Base' /\ (Rest => Rest')
  <2>1. /\ Ctx(c)' = work' /\ spare' \in Context
        /\ \A d \in Channels : d # c /\ chState[d] # "closed" => Ctx(d)' = Ctx(d)
    BY <1>8, SelectsOne
  <2>2. QED BY <1>6, <1>8, <2>1
<1>9. CASE CloseLocal
  <2>1. active' = c /\ spare' = SelSpare(c)
    BY <1>9 DEF CloseLocal
  <2>2. PICK u \in Context : u = SelWork(c)
    BY <2>1, SelectsOne
  <2>3. PICK w : w = IF chState[c] = "udp" THEN [u EXCEPT !.udp = 0] ELSE u
    OBVIOUS
  <2>4. w \in Context
    <3>1. 0 \in 0 .. MaxConns
      BY ChannelsAssumption
    <3>2. QED BY <2>3, <3>1 DEF Context
  <2>5. Release(c, w)
    BY <1>9, <2>2, <2>3 DEF CloseLocal, UdpForgotten
  <2>6. QED BY <1>8, <2>1, <2>4, <2>5
<1>10. CASE CloseAtOnce
  <2>1. active' = c /\ spare' = SelSpare(c)
    BY <1>10 DEF CloseAtOnce
  <2>2. PICK u \in Context : u = SelWork(c)
    BY <2>1, SelectsOne
  <2>3. PICK st \in {"CLOSED", u.st} : Release(c, [u EXCEPT !.st = st])
    BY <1>10, <2>2 DEF CloseAtOnce
  <2>4. PICK w : w = [u EXCEPT !.st = st]
    OBVIOUS
  <2>5. w \in Context
    BY <2>4 DEF Context, TcpStates
  <2>6. QED BY <1>8, <2>1, <2>3, <2>4, <2>5
<1>11. CASE CloseEnds
  <2>1. /\ call.op = "close" /\ Release(c, [work EXCEPT !.st = "CLOSED"])
        /\ active' = active /\ spare' = spare
    BY <1>11 DEF CloseEnds, Expired
  <2>2. active = c
    BY <1>1, <2>1 DEF CallInv, Waits
  <2>3. PICK w : w = [work EXCEPT !.st = "CLOSED"]
    OBVIOUS
  <2>4. w \in Context
    BY <1>1, <2>3 DEF Context, TcpStates
  <2>5. Ctx(c)' = work' /\ \A d \in Channels : d # c => Ctx(d)' = Ctx(d)
    BY <2>1, <2>2, HasSelected
  <2>6. spare' \in Context /\ active' = c
    BY <1>1, <2>1, <2>2 DEF ChanTyped
  <2>7. QED BY <1>6, <2>1, <2>3, <2>4, <2>5, <2>6
<1>12. QED BY <1>7, <1>9, <1>10, <1>11

\* NETINIT resets everything.
LEMMA NetResetKeeps ==
    ASSUME Base, NetReset
    PROVE  Base' /\ (Rest => Rest')
<1>1. /\ ChanTyped /\ PeersTyped /\ RingTyped /\ Honesty /\ call \in Call /\ CallInv /\ DownInv
  BY TypeParts DEF Base, Honesty
<1>2. /\ call.op = "reset" /\ call' = Idle
      /\ chState' = [c \in Channels |-> "closed"] /\ chConn' = [c \in Channels |-> 0]
      /\ active' = NoChannel /\ work' = ZeroContext /\ spare' = ZeroContext
      /\ pend' = [c \in Channels |-> 0] /\ closed' = [c \in Channels |-> FALSE]
      /\ hint' = NoChannel
      /\ inited' \in {TRUE, inited} /\ ring' \in {<<>>, ring}
      /\ UNCHANGED <<apend, listenCh, accepted, netVars>>
  BY DEF NetReset, Return
<1>3. listenCh' = NoChannel /\ apend' = NoChannel
  BY <1>1, <1>2 DEF DownInv, CallInv
<1>4. 0 \in 0 .. MaxConns /\ ZeroContext \in Context /\ "closed" \in ChStates
  BY ChannelsAssumption DEF ZeroContext, Context, TcpStates, ChStates
<1>5. ChanTyped' /\ PendTyped'
  BY <1>1, <1>2, <1>4 DEF ChanTyped, PendTyped
<1>6. call' \in Call /\ call'.op = "idle" /\ call'.next = "none"
  BY <1>2, IdleTyped
<1>7. Honestly
  BY <1>2, NetKept DEF Shrinks
<1>8. CallInv' /\ DownInv'
  BY <1>2, <1>3, <1>6 DEF CallInv, DownInv, Waits
<1>9. UdpInv'
  BY <1>2, TwoChannels DEF UdpInv
<1>10. Base'
  BY <1>5, <1>6, <1>7, <1>8, <1>9, TypeParts DEF Base, Honestly, Honesty
<1>11. ASSUME Rest PROVE Rest'
  <2>1. AcceptedInv'
    BY <1>7, <1>11 DEF Rest, Honestly
  <2>2. ContextInv' /\ ListenerRecordSound'
    BY <1>2, <1>3 DEF ContextInv, ListenerRecordSound
  <2>3. QueuedIsOwn' /\ CloseIsTheirs'
    BY <1>2 DEF QueuedIsOwn, CloseIsTheirs
  <2>4. FreshInv' /\ SuspendedCanResume'
    BY <1>3, <1>6 DEF FreshInv, SuspendedCanResume
  <2>5. QED BY <2>1, <2>2, <2>3, <2>4 DEF Rest
<1>12. QED BY <1>10, <1>11

\* The other channel is reset while a call waits on this one.
LEMMA ForeignRstKeeps ==
    ASSUME Base, NEW f, ForeignRst(f), spare.st # "CLOSE_WAIT"
    PROVE  Base' /\ (Rest => Rest')
<1>1. /\ ChanTyped /\ PendTyped /\ call \in Call /\ CallInv /\ DownInv
  BY TypeParts DEF Base
<1>2. /\ Foreign(f) /\ ForeignTcp(f) /\ Scans /\ Head(ring) = f /\ f.seg = "rst"
      /\ chState' = [chState EXCEPT ![Other(active)] = "closed"]
      /\ chConn' = [chConn EXCEPT ![Other(active)] = 0]
      /\ hint' = NoChannel /\ ring' = Tail(ring) /\ Spend
      /\ UNCHANGED <<inited, apend, listenCh, accepted, ctxVars, pend, closed, netVars>>
  BY DEF ForeignRst, Foreign, Commit
<1>3. /\ f.conn \in Conns /\ Honest(f) /\ ring # <<>> /\ call.left > 0
      /\ call.ch \in Channels /\ active = call.ch
      /\ Other(active) \in Channels /\ Other(active) # call.ch /\ call.op \in Waits
  BY <1>2, AtHead
<1> PICK c \in Channels : c = Other(active)
  BY <1>3
<1>4. chState[c] = "tcp" /\ (Rest => f.conn = chConn[c])
  BY <1>2, ForeignOf
<1>5. /\ active' = active /\ work' = work /\ spare' = spare /\ pend' = pend /\ closed' = closed
      /\ \A d \in Channels : Ctx(d)' = Ctx(d)
  BY <1>2 DEF ctxVars, Ctx
<1>6. Going /\ Shrinks
  BY <1>1, <1>2, <1>3, WaitGoes DEF Shrinks
<1>7. call' \in Call /\ (call'.op = "idle" => call'.next = "none")
  BY <1>1, <1>3, <1>6, IdleTyped DEF Going, Waits
<1>8. /\ chState' \in [Channels -> ChStates] /\ chState'[c] = "closed"
      /\ chConn' \in [Channels -> 0 .. MaxConns]
      /\ \A d \in Channels : d # c => chState'[d] = chState[d] /\ chConn'[d] = chConn[d]
  <2>1. 0 \in 0 .. MaxConns
    BY ChannelsAssumption
  <2>2. QED BY <1>1, <1>2, <2>1 DEF ChanTyped, ChStates
<1>9. ChanTyped' /\ PendTyped'
  BY <1>1, <1>2, <1>5, <1>8 DEF ChanTyped, PendTyped
<1>10. OtherKept(c)
  BY <1>5, <1>8 DEF OtherKept
<1>11. Honestly
  BY <1>2, <1>6, NetKept
<1>12. apend' = NoChannel
  BY <1>1, <1>2, <1>3 DEF CallInv, Waits
<1>13. CallInv'
  <2>1. CASE call' = Idle
    BY <1>12, <2>1, IdleTyped DEF CallInv, Waits
  <2>2. CASE /\ call'.op = call.op /\ call'.ch = call.ch /\ call'.next = call.next
             /\ call'.room = call.room \/ call'.room >= 1
    <3>1. chState'[call.ch] = chState[call.ch]
      BY <1>3, <1>8
    <3>2. QED BY <1>1, <1>5, <1>7, <1>12, <2>2, <3>1 DEF CallInv
  <2>3. QED BY <1>6, <2>1, <2>2 DEF Going
<1>14. DownInv'
  <2>1. \A d \in Channels : chState[d] = "closed" => chState'[d] = "closed"
    BY <1>8
  <2>2. listenCh' = listenCh /\ 0 \in Channels
    BY <1>2, TwoChannels
  <2>3. CASE call' = Idle
    BY <1>1, <1>5, <2>1, <2>2, <2>3, IdleTyped DEF DownInv
  <2>4. CASE call'.op = call.op /\ call'.ch = call.ch /\ call'.next = call.next
    BY <1>1, <1>5, <2>1, <2>2, <2>4 DEF DownInv
  <2>5. QED BY <1>6, <2>3, <2>4 DEF Going
<1>15. Base'
  BY <1>7, <1>8, <1>9, <1>10, <1>11, <1>13, <1>14, OneBase DEF UdpOpened
<1>16. ASSUME Rest PROVE Rest'
  <2>1. /\ ContextInv /\ ListenerRecordSound /\ FreshInv
    BY <1>16 DEF Rest
  <2>2. TcpCtx(c) /\ peer[chConn[c]] = "dead"
    BY <1>2, <1>3, <1>4, <1>16, <2>1 DEF ContextInv, Honest
  <2>3. kind[chConn[c]] # "in"
    BY <2>2 DEF TcpCtx, Alive
  <2>4. listenCh # c
    BY <1>4, <2>1, <2>3, TwoChannels DEF ListenerRecordSound
  <2>5. ListenerRecordSound'
    <3>1. call.next \in {"netdone", "netinit"} => call'.next = call.next /\ listenCh = NoChannel
      <4>1. call.next \in {"netdone", "netinit"} => call.op = "close"
        BY <1>1, <1>3 DEF DownInv, Waits
      <4>2. call.op = "close" => call'.op = "close"
        BY <1>1, <1>2 DEF Spend, EndWait, Pass, Call
      <4>3. call' # Idle => call'.next = call.next
        BY <1>6 DEF Going
      <4>4. QED BY <1>1, <4>1, <4>2, <4>3, IdleTyped DEF DownInv
    <3>2. \A d \in Channels : chState'[d] = "listen" => chState[d] = "listen"
      BY <1>8
    <3>3. kind' = kind /\ listenCh' = listenCh /\ accepted' = accepted
      BY <1>2 DEF netVars
    <3>4. ASSUME listenCh # NoChannel
          PROVE  \/ chState'[listenCh] = "listen" /\ ~accepted
                 \/ /\ chState'[listenCh] = "tcp" /\ accepted
                    /\ kind[chConn'[listenCh]] = "in"
      <4>1. listenCh \in Channels /\ listenCh # c
        BY <1>1, <2>4, <3>4 DEF ChanTyped
      <4>2. chState'[listenCh] = chState[listenCh] /\ chConn'[listenCh] = chConn[listenCh]
        BY <1>8, <4>1
      <4>3. QED BY <2>1, <3>4, <4>2 DEF ListenerRecordSound
    <3>5. QED BY <2>1, <3>1, <3>2, <3>3, <3>4 DEF ListenerRecordSound
  <2>6. FreshInv'
    <3>1. CASE call' = Idle
      BY <3>1, IdleTyped DEF FreshInv
    <3>2. CASE call'.op = call.op /\ call'.ch = call.ch
      BY <1>5, <2>1, <3>2 DEF FreshInv
    <3>3. QED BY <1>6, <3>1, <3>2 DEF Going
  <2>7. call.op = "close" => call'.op = "close" /\ call'.ch = call.ch
    BY <1>1, <1>2 DEF Spend, EndWait, Pass, Call
  <2>8. OneMove(c)
    BY <1>8, <1>12, <2>5, <2>6, <2>7 DEF OneMove
  <2>9. QED BY <1>9, <1>10, <1>11, <1>16, <2>8, OneRest
<1>17. QED BY <1>15, <1>16

\* The network: a peer sends, a client appears.
LEMMA NetworkKeeps ==
    ASSUME Base, Network
    PROVE  Base' /\ (Rest /\ "in" \notin RstFrom => Rest')
<1>1. /\ ChanTyped /\ PeersTyped /\ RingTyped /\ PendTyped /\ Honesty
      /\ call \in Call /\ CallInv /\ DownInv /\ UdpInv
  BY TypeParts DEF Base, Honesty
<1>2. /\ UNCHANGED <<inited, apend, call, chanVars, ctxVars, pendVars>>
  BY DEF Network, PeerSends, ClientComes
<1>3. /\ UNCHANGED <<inited, chState, listenCh, accepted, chConn, active, work, spare>>
      /\ pend' = pend /\ closed' = closed /\ hint' = hint
      /\ call' = call /\ apend' = apend /\ \A c \in Channels : Ctx(c)' = Ctx(c)
  BY <1>2 DEF chanVars, ctxVars, pendVars, Ctx
<1>4. /\ RingTyped' /\ PeersTyped' /\ Honesty'
      /\ "in" \notin RstFrom /\ AcceptedInv => AcceptedInv'
      /\ \A k \in Conns : kind[k] # "none" =>
            /\ kind'[k] = kind[k]
            /\ "in" \notin RstFrom /\ Alive(k) => Alive(k)'
            /\ peer[k] \in {"fin", "dead"} => peer'[k] \in {"fin", "dead"}
  <2>1. CASE \E k \in Conns, seg \in Segs : PeerSends(k, seg)
    <3>1. PICK k \in Conns, seg \in Segs : PeerSends(k, seg)
      BY <2>1
    <3>2. kind' = kind
      BY <3>1 DEF PeerSends
    <3>3. QED BY <1>1, <3>1, <3>2, SendsHonest
  <2>2. CASE \E k \in Conns : ClientComes(k)
    <3>1. PICK k \in Conns : ClientComes(k)
      BY <2>2
    <3>2. /\ k \in Fresh /\ kind' = [kind EXCEPT ![k] = "in"]
          /\ peer' = [peer EXCEPT ![k] = "syn"] /\ ring' = ring
      BY <3>1 DEF ClientComes
    <3>3. RingTyped' /\ PeersTyped' /\ Honesty' /\ (AcceptedInv => AcceptedInv')
      BY <1>1, <3>2, BeginsHonest
    <3>4. kind[k] = "none"
      BY <3>2 DEF Fresh
    <3>5. QED BY <1>1, <3>2, <3>3, <3>4 DEF PeersTyped, Alive
  <2>3. QED BY <2>1, <2>2 DEF Network
<1>5. ChanTyped' /\ PendTyped'
  BY <1>1, <1>3 DEF ChanTyped, PendTyped
<1>6. CallInv' /\ DownInv'
  BY <1>1, <1>3 DEF CallInv, DownInv
<1>7. UdpInv'
  BY <1>1, <1>3, <1>4 DEF UdpInv
<1>8. Base'
  BY <1>1, <1>3, <1>4, <1>5, <1>6, <1>7, TypeParts DEF Base, Honesty
<1>9. ASSUME Rest, "in" \notin RstFrom PROVE Rest'
  <2>1. /\ AcceptedInv /\ ContextInv /\ ListenerRecordSound
        /\ QueuedIsOwn /\ CloseIsTheirs /\ FreshInv /\ SuspendedCanResume
    BY <1>9 DEF Rest
  <2>2. ASSUME NEW c \in Channels, chState[c] = "tcp"
        PROVE  /\ TcpCtx(c)' /\ chConn[c] \in Conns /\ kind[chConn[c]] # "none"
               /\ kind'[chConn[c]] = kind[chConn[c]]
    <3>1. TcpCtx(c)
      BY <2>1, <2>2 DEF ContextInv
    <3>2. chConn[c] \in Conns /\ kind[chConn[c]] # "none"
      BY <3>1 DEF TcpCtx
    <3>3. kind'[chConn[c]] = kind[chConn[c]] /\ (Alive(chConn[c]) => Alive(chConn[c])')
      BY <1>3, <1>4, <1>9, <3>2 DEF Alive
    <3>4. QED BY <1>3, <3>1, <3>2, <3>3 DEF TcpCtx, Alive
  <2>3. ASSUME NEW c \in Channels, chState[c] = "listen" PROVE ListenCtx(c)'
    <3>1. ListenCtx(c)
      BY <2>1, <2>3 DEF ContextInv
    <3>2. QED BY <1>3, <1>4, <3>1 DEF ListenCtx
  <2>4. ContextInv'
    BY <1>3, <2>2, <2>3 DEF ContextInv
  <2>5. AcceptedInv'
    BY <1>4, <1>9, <2>1
  <2>6. ListenerRecordSound'
    <3>1. listenCh # NoChannel => listenCh \in Channels
      BY <1>1 DEF ChanTyped
    <3>2. QED BY <1>3, <2>1, <2>2, <3>1 DEF ListenerRecordSound
  <2>7. QueuedIsOwn'
    BY <1>3, <2>1 DEF QueuedIsOwn
  <2>8. CloseIsTheirs'
    BY <1>3, <1>4, <2>1, <2>2 DEF CloseIsTheirs
  <2>9. FreshInv'
    BY <1>3, <2>1 DEF FreshInv
  <2>10. SuspendedCanResume'
    <3>1. Ctx(apend)' = Ctx(apend)
      BY <1>3, <1>2 DEF Ctx, ctxVars
    <3>2. QED BY <1>3, <2>1, <3>1 DEF SuspendedCanResume
  <2>11. QED BY <2>4, <2>5, <2>6, <2>7, <2>8, <2>9, <2>10 DEF Rest
<1>10. QED BY <1>8, <1>9

-----------------------------------------------------------------------------
(* The steps together.                                                     *)

LEMMA Starts ==
    ASSUME Init
    PROVE  Base /\ Rest
<1>1. 0 \in 0 .. MaxConns /\ RingMax \in Nat
  BY ChannelsAssumption
<1>2. ZeroContext \in Context
  BY <1>1 DEF ZeroContext, Context, TcpStates
<1>3. call \in Call /\ call.op = "idle" /\ call.next = "none"
  BY IdleTyped DEF Init
<1>4. TypeOK
  <2>1. ring \in Seq(Frame) /\ Len(ring) <= RingMax
    BY <1>1 DEF Init
  <2>2. /\ kind \in [Conns -> {"none", "out", "in", "udp"}]
        /\ peer \in [Conns -> {"new", "syn", "est", "fin", "dead"}]
    BY DEF Init
  <2>3. QED BY <1>1, <1>2, <1>3, <2>1, <2>2 DEF Init, TypeOK, ChStates
<1>5. CallInv /\ DownInv
  BY <1>3 DEF Init, CallInv, DownInv, Waits
<1>6. RingInv /\ PeerInv /\ UdpInv
  BY TwoChannels DEF Init, RingInv, PeerInv, UdpInv
<1>7. AcceptedInv /\ ContextInv /\ ListenerRecordSound /\ QueuedIsOwn
  BY DEF Init, AcceptedInv, ContextInv, ListenerRecordSound, QueuedIsOwn
<1>8. CloseIsTheirs /\ FreshInv /\ SuspendedCanResume
  BY <1>3 DEF Init, CloseIsTheirs, FreshInv, SuspendedCanResume
<1>9. QED BY <1>4, <1>5, <1>6, <1>7, <1>8 DEF Base, Rest

LEMMA FrameKeeps ==
    ASSUME Base, NEW f, TakesFrame(f)
    PROVE  Base' /\ (Rest => Rest')
<1>1. CASE ForeignSegment(f) \/ ForeignFin(f) \/ ForeignBlocked(f) \/ Dropped(f)
  BY <1>1, ForeignKeeps
<1>2. CASE ForeignRst(f)
  BY <1>2, ForeignKeeps, ForeignRstKeeps
<1>3. CASE \/ RecvIgnored(f) \/ RecvDatagram(f) \/ OpenOther(f)
           \/ SendSegment(f) \/ CloseAnswered(f)
  BY <1>3, OwnKeeps
<1>4. CASE RecvData(f)
  BY <1>4, RecvDataKeeps
<1>5. CASE RecvFin(f) \/ RecvRst(f) \/ SendRst(f)
  BY <1>5, CloserKeeps
<1>6. CASE SendFin(f)
  BY <1>6, SendFinKeeps
<1>7. CASE OpenAnswered(f)
  BY <1>7, AnswerKeeps
<1>8. CASE PollSyn(f) \/ PollRst(f)
  BY <1>8, PollKeeps
<1>9. CASE PollAccept(f)
  BY <1>9, AcceptKeeps
<1>10. QED BY <1>1, <1>2, <1>3, <1>4, <1>5, <1>6, <1>7, <1>8, <1>9 DEF TakesFrame

LEMMA ApplicationKeeps ==
    ASSUME Base, Application
    PROVE  Base' /\ (Rest => Rest')
<1>1. CASE \E c \in Channels, next \in Calls \ {"listen", "netdone"} : CallResolving(c, next)
  <2>1. Calls \ {"listen", "netdone"} \subseteq {"connect", "udpopen", "ping"}
    BY ChannelsAssumption
  <2>2. QED BY <1>1, <2>1, BeginKeeps
<1>2. CASE \E c \in Channels : CallListen(c)
  BY <1>2, ListenKeeps
<1>3. CASE \E c \in Channels : CallUnlisten(c)
  BY <1>3, UnlistenKeeps
<1>4. CASE \E c \in Channels : CallClose(c)
  BY <1>4, BeginKeeps
<1>5. CASE \E c \in Channels : CallSend(c) \/ ResumeSend(c) \/ CallRecv(c)
  BY <1>5, SelectingKeeps
<1>6. CASE \E c \in Channels : RecvSuspended(c)
  BY <1>6, SuspendKeeps
<1>7. CASE \E next \in {"netinit"} \cup (Calls \cap {"netdone"}) : CallNet(next)
  <2>1. 0 \in Channels
    BY TwoChannels
  <2>2. PICK next \in {"netinit", "netdone"} : CallNet(next)
    BY <1>7
  <2>3. QED BY <2>1, <2>2, BeginKeeps
<1>8. QED BY <1>1, <1>2, <1>3, <1>4, <1>5, <1>6, <1>7 DEF Application

LEMMA CodeKeeps ==
    ASSUME Base, Code
    PROVE  Base' /\ (Rest => Rest')
<1>1. CASE \E i \in DOMAIN ring : TakesFrame(ring[i])
  BY <1>1, FrameKeeps
<1>2. CASE \/ Tick \/ Expire \/ ResolverReads \/ ResolverReturns
           \/ RecvRefused \/ RecvPending
  BY <1>2, SilenceKeeps
<1>3. CASE Suspend \/ RecvWaits
  BY <1>3, SuspendKeeps
<1>4. CASE RecvClosed
  BY <1>4, CloserKeeps
<1>5. CASE CloseNothing \/ CloseLocal \/ CloseAtOnce \/ CloseEnds
  BY <1>5, CloseKeeps
<1>6. CASE CloseFin
  BY <1>6, FinKeeps
<1>7. CASE NetReset
  BY <1>7, NetResetKeeps
<1>8. CASE \E k \in Conns : ConnectOpens(k) \/ UdpOpens(k)
  BY <1>8, OpenKeeps
<1>9. QED BY <1>1, <1>2, <1>3, <1>4, <1>5, <1>6, <1>7, <1>8 DEF Code

LEMMA Stutters ==
    ASSUME Base, UNCHANGED vars
    PROVE  Base' /\ (Rest => Rest')
<1>1. /\ UNCHANGED <<inited, apend, call, ring, kind, peer>>
      /\ UNCHANGED <<chState, listenCh, accepted, chConn>>
      /\ UNCHANGED <<active, work, spare>> /\ UNCHANGED <<pend, closed, hint>>
  BY DEF vars, chanVars, ctxVars, pendVars, netVars
<1>2. \A c \in Channels : Ctx(c)' = Ctx(c)
  BY <1>1 DEF Ctx
<1>3. Ctx(apend)' = Ctx(apend)
  BY <1>1 DEF Ctx
<1>4. TypeOK' /\ CallInv' /\ DownInv'
  BY <1>1 DEF Base, TypeOK, CallInv, DownInv
<1>5. RingInv' /\ PeerInv' /\ UdpInv'
  BY <1>1, <1>2 DEF Base, RingInv, Honest, PeerInv, UdpInv
<1>6. ASSUME Rest PROVE Rest'
  <2>1. AcceptedInv' /\ ContextInv'
    BY <1>1, <1>2, <1>6 DEF Rest, AcceptedInv, Alive, ContextInv, TcpCtx, ListenCtx
  <2>2. ListenerRecordSound' /\ QueuedIsOwn' /\ CloseIsTheirs'
    BY <1>1, <1>6 DEF Rest, ListenerRecordSound, QueuedIsOwn, CloseIsTheirs
  <2>3. FreshInv' /\ SuspendedCanResume'
    BY <1>1, <1>3, <1>6 DEF Rest, FreshInv, SuspendedCanResume
  <2>4. QED BY <2>1, <2>2, <2>3 DEF Rest
<1>7. QED BY <1>4, <1>5, <1>6 DEF Base

LEMMA StepKeeps ==
    ASSUME Base, [Next]_vars
    PROVE  Base' /\ (Rest /\ "in" \notin RstFrom => Rest')
<1>1. CASE Application
  BY <1>1, ApplicationKeeps
<1>2. CASE Code
  BY <1>2, CodeKeeps
<1>3. CASE Network
  BY <1>3, NetworkKeeps
<1>4. CASE UNCHANGED vars
  BY <1>4, Stutters
<1>5. QED BY <1>1, <1>2, <1>3, <1>4 DEF Next

-----------------------------------------------------------------------------
(* The datagram that waits.                                                *)

\* A datagram of an open channel at the head of the ring, while a call waits:
\* the frame is the caller's, or HANDLE_FOREIGN_FRAME finds whose it is.
LEMMA DatagramHead ==
    ASSUME Base, Scans, NEW c \in Channels, chState[c] = "udp",
           Head(ring).seg = "dgram", Head(ring).conn = chConn[c]
    PROVE  \/ call.op = "udprecv" /\ call.ch = c
           \/ ~Own(Head(ring)) /\ ForeignUdp(Head(ring)) /\ ~ForeignTcp(Head(ring))
<1> PICK f : f = Head(ring)
  OBVIOUS
<1>1. /\ active \in Channels /\ active = call.ch /\ call.op \in Waits
      /\ Other(active) \in Channels /\ Other(active) # active
  BY AtHead
<1>2. CallInv /\ UdpInv
  BY DEF Base
<1>3. Ctx(active) = work /\ Ctx(Other(active)) = spare
  BY <1>1, TwoChannels DEF Ctx
<1>4. Ctx(c).udp = chConn[c] /\ f.conn = chConn[c] /\ f.seg = "dgram"
  BY <1>2 DEF UdpInv
<1>5. CASE c = active
  BY <1>1, <1>2, <1>5 DEF CallInv, Waits
<1>6. CASE c = Other(active)
  <2>1. ForeignUdp(f) /\ ~ForeignTcp(f)
    BY <1>3, <1>4, <1>6 DEF ForeignUdp, ForeignTcp
  <2>2. ASSUME Own(f) PROVE FALSE
    <3>1. call.op = "udprecv" /\ work.udp = f.conn
      BY <1>4, <2>2 DEF Own
    <3>2. chState[active] = "udp" /\ chConn[active] = f.conn
      BY <1>1, <1>2, <1>3, <3>1 DEF CallInv, UdpInv
    <3>3. \/ c = 0 /\ active = 1
          \/ c = 1 /\ active = 0
      BY <1>1, <1>6 DEF Channels, Other
    <3>4. QED BY <1>2, <1>4, <3>2, <3>3 DEF UdpInv
  <2>3. QED BY <2>1, <2>2
<1>7. QED BY <1>1, <1>5, <1>6, TwoChannels

\* So no step but RECV on that channel takes it.
LEMMA NobodyElseTakes ==
    ASSUME ~BusyResolver, Base, [Next]_vars, Taken, Head(ring).seg = "dgram",
           NEW c \in Channels, chState[c] = "udp", Head(ring).conn = chConn[c]
    PROVE  call.op = "udprecv" /\ call.ch = c
<1>1. RingTyped /\ call \in Call /\ DownInv
  BY TypeParts DEF Base
<1>2. PICK n \in Nat : n = Len(ring) /\ Len(ring') = n - 1
  BY <1>1, TailTyped DEF Taken, RingTyped
<1>3. ring' # ring
  <2>1. ASSUME ring' = ring PROVE FALSE
    <3>1. Len(ring') = Len(ring)
      BY <2>1
    <3>2. n = n - 1
      BY <1>2, <3>1
    <3>3. QED BY <3>2
  <2>2. QED BY <2>1
<1>4. ~Application
  BY <1>3 DEF Application, CallResolving, CallListen, CallUnlisten, CallClose, CallSend,
              ResumeSend, RecvSuspended, CallRecv, CallNet
<1>5. ~Network
  <2>1. ASSUME NEW k \in Conns, NEW seg \in Segs, PeerSends(k, seg) PROVE FALSE
    <3>1. ring' = Append(ring, [conn |-> k, seg |-> seg])
      BY <2>1 DEF PeerSends
    <3>2. [conn |-> k, seg |-> seg] \in Frame
      BY DEF Frame
    <3>3. Len(ring') = Len(ring) + 1
      BY <1>1, <3>1, <3>2 DEF RingTyped
    <3>4. QED BY <1>2, <3>3
  <2>2. ASSUME NEW k \in Conns, ClientComes(k) PROVE FALSE
    BY <1>3, <2>2 DEF ClientComes
  <2>3. QED BY <2>1, <2>2 DEF Network
<1>6. ~(UNCHANGED vars)
  BY <1>3 DEF vars
<1>7. Code
  BY <1>4, <1>5, <1>6 DEF Next
<1>8. ~NetReset
  BY <1>1 DEF DownInv, NetReset
<1>9. ~(\/ Tick \/ Expire \/ Suspend \/ RecvRefused \/ RecvPending \/ RecvClosed \/ RecvWaits)
  BY <1>3 DEF Tick, Expire, Suspend, RecvRefused, RecvPending, RecvClosed, RecvWaits
<1>10. ~(\/ CloseNothing \/ CloseLocal \/ CloseFin \/ CloseAtOnce \/ CloseEnds
         \/ ResolverReads \/ ResolverReturns)
  BY <1>3 DEF CloseNothing, CloseLocal, CloseFin, CloseAtOnce, CloseEnds, ResolverReads,
              ResolverReturns
<1>11. ~\E k \in Conns : ConnectOpens(k) \/ UdpOpens(k)
  BY <1>3 DEF ConnectOpens, UdpOpens
<1>12. PICK i \in DOMAIN ring : TakesFrame(ring[i])
  BY <1>7, <1>8, <1>9, <1>10, <1>11 DEF Code
<1> PICK f : f = ring[i]
  OBVIOUS
<1>13. Scans /\ Head(ring) = f
  BY <1>12 DEF TakesFrame, ForeignSegment, ForeignFin, ForeignRst, ForeignBlocked, Dropped,
         Foreign, RecvData, RecvIgnored, RecvFin, RecvRst, RecvDatagram, SendSegment, SendFin,
         SendRst, OpenAnswered, OpenOther, CloseAnswered, PollSyn, PollRst, PollAccept,
         TakesFrom, Takes
<1>14. Own(f) \/ ForeignTcp(f) \/ Dropped(f)
  BY <1>3, <1>12 DEF TakesFrame, ForeignSegment, ForeignFin, ForeignRst, ForeignBlocked,
         RecvData, RecvIgnored, RecvFin, RecvRst, RecvDatagram, SendSegment, SendFin,
         SendRst, OpenAnswered, OpenOther, CloseAnswered, PollSyn, PollRst, PollAccept,
         TakesFrom, Takes
<1>15. Dropped(f) => ~ForeignUdp(f)
  BY DEF Dropped
<1>16. QED BY <1>13, <1>14, <1>15, DatagramHead

-----------------------------------------------------------------------------
(* Theorems.                                                               *)

\* Whatever the peers do, Base holds of every state.
THEOREM Inductive == Spec => []Base
<1>1. Init => Base
  BY Starts
<1>2. Base /\ [Next]_vars => Base'
  BY StepKeeps
<1>3. QED BY <1>1, <1>2, PTL DEF Spec

\* Every state is of its type, whatever the peers do.
THEOREM TypeCorrect == Spec => []TypeOK
<1>1. Base => TypeOK
  BY DEF Base
<1>2. QED BY <1>1, Inductive, PTL

\* Unless a peer resets what LISTEN accepted, the rest holds too.
LEMMA InductiveToo ==
    ASSUME "in" \notin RstFrom
    PROVE  Spec => []Rest
<1>1. Init => Base /\ Rest
  BY Starts
<1>2. Base /\ Rest /\ [Next]_vars => Base' /\ Rest'
  BY StepKeeps
<1>3. QED BY <1>1, <1>2, PTL DEF Spec

\* The context of an open channel is that of its own connection, in a state the
\* connection can be in, whatever SELECT_CHANNEL swapped and whatever
\* HANDLE_FOREIGN_FRAME did for the other channel meanwhile.
THEOREM ContextFollows ==
    ASSUME "in" \notin RstFrom
    PROVE  Spec => []ContextFollowsChannel
<1>1. Base /\ Rest => ContextFollowsChannel
  BY DEF Base, Rest, UdpInv, ContextInv, TcpCtx, ListenCtx, ContextFollowsChannel
<1>2. QED BY <1>1, Inductive, InductiveToo, PTL

\* LISTEN_CH, LISTEN_ACCEPTED and CH_STATE agree after every call and frame.
THEOREM ListenerSound ==
    ASSUME "in" \notin RstFrom
    PROVE  Spec => []ListenerRecordSound
<1>1. Rest => ListenerRecordSound
  BY DEF Rest
<1>2. QED BY <1>1, InductiveToo, PTL

\* A SEND that said AGAIN can be repeated, whatever came between: APEND_CH is
\* open and its context still has the connection of the segment.
THEOREM SuspendedResumes ==
    ASSUME "in" \notin RstFrom
    PROVE  Spec => []SuspendedCanResume
<1>1. Rest => SuspendedCanResume
  BY DEF Rest
<1>2. QED BY <1>1, InductiveToo, PTL

\* The bytes in CH_PEND_BUF of a channel are of the connection it now has.
THEOREM QueueIsOwn ==
    ASSUME "in" \notin RstFrom
    PROVE  Spec => []QueuedIsOwn
<1>1. Rest => QueuedIsOwn
  BY DEF Rest
<1>2. QED BY <1>1, InductiveToo, PTL

\* A close that CH_CLOSED notes is that of the channel's own peer.
THEOREM CloseTheirs ==
    ASSUME "in" \notin RstFrom
    PROVE  Spec => []CloseIsTheirs
<1>1. Rest => CloseIsTheirs
  BY DEF Rest
<1>2. QED BY <1>1, InductiveToo, PTL

\* A datagram of an open channel leaves the ring only by RECV on that channel,
\* unless the resolver reads the ring: no wait of another call takes or drops
\* it.
THEOREM DatagramWaits ==
    ASSUME ~BusyResolver
    PROVE  Spec => DatagramProtected
<1>1. Base /\ [Next]_vars =>
         [Taken /\ Head(ring).seg = "dgram" =>
             \A c \in Channels :
                chState[c] = "udp" /\ Head(ring).conn = chConn[c] =>
                   call.op = "udprecv" /\ call.ch = c]_vars
  BY NobodyElseTakes
<1>2. QED BY <1>1, Inductive, PTL DEF Spec, DatagramProtected

=============================================================================
