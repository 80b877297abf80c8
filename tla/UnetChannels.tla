---------------------------- MODULE UnetChannels ----------------------------
(***************************************************************************)
(* The two channels of UNETRTL.DLL: CH_STATE, the TCP/UDP context that     *)
(* SELECT_CHANNEL swaps in and out, the one listener, the suspended SEND,  *)
(* and the frame of the other channel that turns up at the head of the NIC *)
(* ring in the middle of a wait (HANDLE_FOREIGN_FRAME).                    *)
(*                                                                         *)
(* The code is sequential.  What interleaves is the network: frames reach  *)
(* the ring between any two passes of a wait loop.  A call is therefore a  *)
(* sequence of steps, one for each frame taken from the ring or tick spent.*)
(* A connection, or the pair of addresses of a UDP channel, is a number;   *)
(* frames carry it.  Payload is reduced to whose it is: UnetRecv and       *)
(* UnetSend model the bytes.                                               *)
(***************************************************************************)
EXTENDS Integers, Sequences, FiniteSets

CONSTANTS
    MaxConns,      \* bound: connections and UDP tuples of a behaviour
    RingMax,       \* bound: frames waiting in the NIC ring
    Budget,        \* bound: passes of one wait without data
    Room,          \* bound: segments that fit the buffer of one RECV
    Calls,         \* the calls the application makes of those that open
    RstFrom,       \* the peers that may reset: "out" (CONNECT), "in" (LISTEN)
    BusyResolver   \* frames may be in the ring while the resolver waits

ASSUME ChannelsAssumption ==
    /\ MaxConns \in Nat
    /\ RingMax \in Nat
    /\ Budget \in Nat \ {0}
    /\ Room \in Nat \ {0}
    /\ Calls \subseteq {"connect", "udpopen", "ping", "listen", "netdone"}
    /\ RstFrom \subseteq {"out", "in"}
    /\ BusyResolver \in BOOLEAN

VARIABLES
    inited,    \* INITED
    chState,   \* CH_STATE: 0 closed, 1 tcp, 2 udp, 3 listen
    active,    \* ACTIVE_CH: whose context is the working one
    work,      \* the working TCP and UDP context of the libraries
    spare,     \* CH_TCP_CTX and CH_UDP_CTX, the swap slot
    listenCh,  \* LISTEN_CH
    accepted,  \* LISTEN_ACCEPTED
    apend,     \* APEND_CH
    pend,      \* CH_PEND_BUF: whose bytes are queued, 0 for none
    closed,    \* CH_CLOSED
    hint,      \* FOREIGN_HINT
    call,      \* the call under way
    ring,      \* frames in the NIC ring
    kind,      \* network: what each connection is
    peer,      \* network: how far its peer is
    chConn     \* history: the connection the application was given

chanVars == <<chState, listenCh, accepted, chConn>>
ctxVars  == <<active, work, spare>>
pendVars == <<pend, closed, hint>>
netVars  == <<kind, peer>>
vars == <<inited, apend, call, ring, chanVars, ctxVars, pendVars, netVars>>

-----------------------------------------------------------------------------
(* Data.                                                                   *)

Channels == {0, 1}
NoChannel == 255                      \* 0xFF
Conns == 1 .. MaxConns
Other(c) == 1 - c

ChStates == {"closed", "tcp", "udp", "listen"}
TcpStates == {"CLOSED", "SYN_SENT", "LISTEN", "SYN_RCVD", "ESTAB",
              "CLOSE_WAIT", "LAST_ACK"}

\* The part of a context that matters here: TCP_STATE, the TCP tuple and the
\* UDP tuple (UDPLIB_REMOTE_IP is zero when there is none).
Context == [st : TcpStates, conn : 0 .. MaxConns, udp : 0 .. MaxConns]
ZeroContext == [st |-> "CLOSED", conn |-> 0, udp |-> 0]

Waits == {"open", "send", "recv", "poll", "close", "udprecv"}
Call == [op   : Waits \cup {"idle", "resolve", "enter", "closing", "reset"},
         ch   : Channels,
         left : 0 .. Budget + 2,      \* passes left of the wait
         got  : BOOLEAN,              \* COPY_LEN # 0
         room : 0 .. Room,            \* ARG_IX
         next : {"none", "connect", "udpopen", "ping", "netdone", "netinit"}]
Idle == [op |-> "idle", ch |-> 0, left |-> 0, got |-> FALSE, room |-> 0,
         next |-> "none"]
Begin(op, c) == [Idle EXCEPT !.op = op, !.ch = c, !.left = Budget]

Segs == {"syn", "synack", "ack", "data", "fin", "rst", "dgram"}
Frame == [conn : Conns, seg : Segs]

Pass(left) == call' = [call EXCEPT !.left = left]
Return == call' = Idle

\* Mutant: a SEND that is blocked by a datagram is suspended like a silent one.
EndWaitAsSilence == Pass(0)
\* What ends a wait before its time ends the call; CLOSE still has to release
\* its channel.
EndWait == IF call.op = "close" THEN Pass(0) ELSE Return

\* Mutant: a frame that is not for the caller costs no time.
SpendNothing == Pass(call.left)
\* A pass is charged, or a cancel key was hit.
Spend == Pass(call.left - 1) \/ EndWait

\* The first connection number that was never used.
Fresh == {k \in Conns : kind[k] = "none"
                        /\ \A j \in Conns : kind[j] = "none" => k <= j}

Ctx(c) == IF active \in {c, NoChannel} THEN work ELSE spare

-----------------------------------------------------------------------------
(* SELECT_CHANNEL, PEND_CLEAR_A, LISTEN_INIT, RELEASE_OR_REARM.            *)

Swaps(c) == active = Other(c)
SelWork(c) == IF Swaps(c) THEN spare ELSE work

\* Mutant: the context that is swapped out is not kept.
SelSpareForgotten(c) == spare
SelSpare(c) == IF Swaps(c) THEN work ELSE spare

Select(c) ==
    /\ active' = c
    /\ work' = SelWork(c)
    /\ spare' = SelSpare(c)

\* Mutant: the deferred close of the last connection survives.
PendClearKeepsClose(c) ==
    /\ pend' = [pend EXCEPT ![c] = 0]
    /\ UNCHANGED closed
    /\ hint' = IF hint = c THEN NoChannel ELSE hint
\* Mutant: the queue of the last connection survives.
PendClearKeepsQueue(c) ==
    /\ closed' = [closed EXCEPT ![c] = FALSE]
    /\ hint' = IF hint = c THEN NoChannel ELSE hint
    /\ UNCHANGED pend
PendClear(c) ==
    /\ pend' = [pend EXCEPT ![c] = 0]
    /\ closed' = [closed EXCEPT ![c] = FALSE]
    /\ hint' = IF hint = c THEN NoChannel ELSE hint

\* LISTEN_INIT overwrites the local port and the state of the WORKING context.
Listening(w) == [w EXCEPT !.st = "LISTEN", !.conn = 0]

\* RELEASE_OR_REARM: an accepted connection's channel listens again, a channel
\* that still listens is taken off the record.
Rearms(c) == listenCh = c /\ accepted
\* Mutant: LISTEN_CH is left pointing at a closed channel.
UnarmsNever(c) == FALSE
Unarms(c) == listenCh = c /\ ~accepted

Release(c, w) ==
    /\ chState' = [chState EXCEPT ![c] =
                       IF Rearms(c) THEN "listen" ELSE "closed"]
    /\ listenCh' = IF Unarms(c) THEN NoChannel ELSE listenCh
    /\ accepted' = (accepted /\ ~Rearms(c))
    /\ work' = IF Rearms(c) THEN Listening(w) ELSE w
    /\ chConn' = [chConn EXCEPT ![c] = 0]

-----------------------------------------------------------------------------
(* The calls.  Everything but SEND and RECV is refused while a SEND is     *)
(* suspended (CHECK_ASYNC_PEND); an action is a call that is not refused.  *)

\* Mutant: only the calls on the suspended channel are refused.
NotBusyElsewhere(c) == call.op = "idle" /\ apend # c
NotBusy(c) == call.op = "idle" /\ apend = NoChannel

\* CONNECT, UDPOPEN, PING and RESOLVE up to the resolver.
CallResolving(c, next) ==
    /\ NotBusy(c)
    /\ inited
    /\ next \in {"connect", "udpopen"} => chState[c] = "closed" /\ Fresh # {}
    /\ call' = [Begin("resolve", c) EXCEPT !.next = next]
    /\ UNCHANGED <<inited, apend, ring, chanVars, ctxVars, pendVars, netVars>>

CallListen(c) ==
    /\ NotBusy(c)
    /\ inited
    /\ chState[c] = "closed"
    /\ listenCh = NoChannel
    /\ active' = c
    /\ work' = Listening(SelWork(c))
    /\ spare' = SelSpare(c)
    /\ PendClear(c)
    /\ listenCh' = c
    /\ accepted' = FALSE
    /\ chState' = [chState EXCEPT ![c] = "listen"]
    /\ UNCHANGED <<inited, apend, call, ring, chConn, netVars>>

\* An accepted connection stays open.
CallUnlisten(c) ==
    /\ NotBusy(c)
    /\ listenCh = c
    /\ listenCh' = NoChannel
    /\ IF accepted
       THEN UNCHANGED <<chState, pendVars>>
       ELSE /\ chState' = [chState EXCEPT ![c] = "closed"]
            /\ PendClear(c)
    /\ UNCHANGED <<inited, apend, call, ring, accepted, chConn, ctxVars, netVars>>

CallClose(c) ==
    /\ NotBusy(c)
    /\ call' = Begin("closing", c)
    /\ UNCHANGED <<inited, apend, ring, chanVars, ctxVars, pendVars, netVars>>

\* NETDONE and NETINIT disarm the listener, then close both channels.
CallNet(next) ==
    /\ \A c \in Channels : NotBusy(c)
    /\ listenCh' = NoChannel
    /\ call' = [Begin("closing", 0) EXCEPT !.next = next]
    /\ UNCHANGED <<inited, apend, ring, chState, accepted, chConn, ctxVars,
                   pendVars, netVars>>

\* SEND on a TCP channel; on another kind of channel it selects the context
\* and waits for nothing.
CallSend(c) ==
    /\ call.op = "idle"
    /\ chState[c] # "closed"
    /\ Select(c)
    /\ call' = IF chState[c] = "tcp" /\ apend = NoChannel
               THEN Begin("send", c) ELSE call
    /\ UNCHANGED <<inited, apend, ring, chanVars, pendVars, netVars>>

\* The same call repeated: the wait of the suspended segment goes on.
ResumeSend(c) ==
    /\ call.op = "idle"
    /\ apend = c
    /\ chState[c] = "tcp"
    /\ Select(c)
    /\ apend' = NoChannel
    /\ call' = Begin("send", c)
    /\ UNCHANGED <<inited, ring, chanVars, pendVars, netVars>>

\* RECV while a SEND is suspended: memory only.
RecvSuspended(c) ==
    /\ call.op = "idle"
    /\ chState[c] # "closed"
    /\ apend # NoChannel
    /\ \E left \in {0, pend[c]} : pend' = [pend EXCEPT ![c] = left]
    /\ UNCHANGED <<inited, apend, call, ring, chanVars, ctxVars, closed, hint,
                   netVars>>

CallRecv(c) ==
    /\ call.op = "idle"
    /\ chState[c] # "closed"
    /\ apend = NoChannel
    /\ Select(c)
    /\ \E left \in 1 .. Budget, room \in 1 .. Room :
         call' = [Idle EXCEPT
                    !.op = CASE chState[c] = "listen" -> "poll"
                             [] chState[c] = "udp" -> "udprecv"
                             [] OTHER -> "enter",
                    !.ch = c, !.left = left, !.room = room]
    /\ hint' = IF chState[c] = "udp" THEN NoChannel ELSE hint
    /\ UNCHANGED <<inited, apend, ring, chanVars, pend, closed, netVars>>

-----------------------------------------------------------------------------
(* RECV on a TCP channel up to its wait.                                   *)

\* .report_closed: the debt is flushed, then the channel is released.
ReportClosed ==
    \/ /\ closed' = [closed EXCEPT ![call.ch] = FALSE]
       /\ Release(call.ch, work)
    \/ /\ closed' = [closed EXCEPT ![call.ch] = TRUE]
       /\ UNCHANGED <<chanVars, work>>

\* FLUSH_RECV_ACK or the window update fails in the NIC.
RecvRefused ==
    /\ call.op = "enter"
    /\ \E left \in {0, pend[call.ch]} : pend' = [pend EXCEPT ![call.ch] = left]
    /\ Return
    /\ UNCHANGED <<inited, apend, ring, chanVars, ctxVars, closed, hint, netVars>>

\* The buffer is full, or the bytes came with a close that waits.
RecvPending ==
    /\ call.op = "enter"
    /\ pend[call.ch] # 0
    /\ \E left \in {0, pend[call.ch]} :
          /\ pend' = [pend EXCEPT ![call.ch] = left]
          /\ left # 0 \/ call.room = 1 \/ closed[call.ch]
    /\ Return
    /\ UNCHANGED <<inited, apend, ring, chanVars, ctxVars, closed, hint, netVars>>

RecvClosed ==
    /\ call.op = "enter"
    /\ pend[call.ch] = 0
    /\ closed[call.ch]
    /\ ReportClosed
    /\ Return
    /\ UNCHANGED <<inited, apend, ring, active, spare, pend, hint, netVars>>

\* What was queued took one unit of the buffer; the wait is two ticks then.
RecvWaits ==
    /\ call.op = "enter"
    /\ ~closed[call.ch]
    /\ LET had == pend[call.ch] # 0 IN
          /\ had => call.room > 1
          /\ pend' = [pend EXCEPT ![call.ch] = 0]
          /\ call' = [call EXCEPT !.op = "recv", !.got = had,
                                  !.left = IF had THEN 2 ELSE @,
                                  !.room = IF had THEN @ - 1 ELSE @]
    /\ hint' = NoChannel
    /\ UNCHANGED <<inited, apend, ring, chanVars, ctxVars, closed, netVars>>

-----------------------------------------------------------------------------
(* A pass of a wait loop: the head of the ring is ours, the other          *)
(* channel's, or nobody's; or the ring is empty.                           *)

\* Mutant: one pass too many.
WaitingOnceMore == call.op \in Waits /\ call.left >= 0
Waiting == call.op \in Waits /\ call.left > 0
Scans == Waiting /\ ring # <<>>

\* IS_TCP_FROM_PEER, UDP.MATCH, IS_TCP_SYN_TO_LPORT against the working context.
Own(f) ==
    CASE call.op = "udprecv" -> f.seg = "dgram" /\ work.udp = f.conn
      [] call.op = "poll" /\ work.st = "LISTEN" -> f.seg = "syn"
      [] OTHER -> f.seg # "dgram" /\ work.conn = f.conn

Takes(f) == Scans /\ Head(ring) = f /\ Own(f)
TakesFrom(op, f) == call.op = op /\ Takes(f)
Commit == ring' = Tail(ring)

\* STORE_TCP_PAYLOAD with no caller's buffer: the queue has room for it or not.
Stored(c, f, took) ==
    IF took /\ f.seg = "data" /\ pend[c] = 0 THEN [pend EXCEPT ![c] = f.conn]
                                             ELSE pend

(* The frame of the other channel.                                         *)

\* HANDLE_FOREIGN_FRAME: TCP of the other channel.
ForeignTcp(f) ==
    /\ chState[Other(active)] = "tcp"
    /\ f.seg # "dgram"
    /\ spare.conn = f.conn

\* Mutant: the match is made before the owner's context is selected.
ForeignUdpUnselected(f) ==
    /\ chState[Other(active)] \in {"udp", "listen"}
    /\ f.seg = "dgram"
    /\ work.udp = f.conn
\* HANDLE_FOREIGN_FRAME: a datagram of the other channel stays in the ring.
ForeignUdp(f) ==
    /\ chState[Other(active)] \in {"udp", "listen"}
    /\ f.seg = "dgram"
    /\ spare.udp = f.conn

Foreign(f) == Scans /\ Head(ring) = f /\ ~Own(f)

ForeignSegment(f) ==
    /\ Foreign(f)
    /\ ForeignTcp(f)
    /\ f.seg \notin {"fin", "rst"}
    /\ \E took \in BOOLEAN : pend' = Stored(Other(active), f, took)
    /\ hint' = NoChannel
    /\ Commit
    /\ Spend
    /\ UNCHANGED <<inited, apend, chanVars, ctxVars, closed, netVars>>

\* The FIN counts when every byte before it has been taken.
ForeignFin(f) ==
    /\ Foreign(f)
    /\ ForeignTcp(f)
    /\ f.seg = "fin"
    /\ \/ UNCHANGED <<closed, spare>>
       \/ /\ closed' = [closed EXCEPT ![Other(active)] = TRUE]
          /\ spare' = [spare EXCEPT !.st = "CLOSE_WAIT"]
    /\ hint' = NoChannel
    /\ Commit
    /\ Spend
    /\ UNCHANGED <<inited, apend, chanVars, active, work, pend, netVars>>

\* CH_STATE of the owner, and nothing else of the listener's record.  Behind a
\* FIN the reset counts as one.
ForeignRst(f) ==
    /\ Foreign(f)
    /\ ForeignTcp(f)
    /\ f.seg = "rst"
    /\ \/ /\ spare.st = "CLOSE_WAIT"
          /\ closed' = [closed EXCEPT ![Other(active)] = TRUE]
          /\ UNCHANGED <<chState, chConn>>
       \/ /\ spare.st # "CLOSE_WAIT"
          /\ chState' = [chState EXCEPT ![Other(active)] = "closed"]
          /\ chConn' = [chConn EXCEPT ![Other(active)] = 0]
          /\ UNCHANGED closed
    /\ hint' = NoChannel
    /\ Commit
    /\ Spend
    /\ UNCHANGED <<inited, apend, listenCh, accepted, ctxVars, pend, netVars>>

ForeignBlocked(f) ==
    /\ Foreign(f)
    /\ ForeignUdp(f)
    /\ hint' = Other(active)
    /\ EndWait
    /\ UNCHANGED <<inited, apend, ring, chanVars, ctxVars, pend, closed, netVars>>

\* COMMIT_OTHER: nobody's frame, or that of a channel which does not read TCP.
Dropped(f) ==
    /\ Foreign(f)
    /\ ~ForeignTcp(f)
    /\ ~ForeignUdp(f)
    /\ Commit
    /\ Spend
    /\ UNCHANGED <<inited, apend, chanVars, ctxVars, pendVars, netVars>>

Tick ==
    /\ Waiting
    /\ ring = <<>>
    /\ Spend
    /\ UNCHANGED <<inited, apend, ring, chanVars, ctxVars, pendVars, netVars>>

-----------------------------------------------------------------------------
(* A frame of the waiting channel itself.                                  *)

\* RECV: a segment that is taken fills one unit of the buffer.  When that was
\* the last one, what does not fit goes to the queue and the call returns.
RecvData(f) ==
    /\ TakesFrom("recv", f)
    /\ f.seg = "data"
    /\ work.st = "ESTAB"
    /\ Commit
    /\ IF call.room = 1
       THEN Return /\ \E spill \in BOOLEAN : pend' = Stored(call.ch, f, spill)
       ELSE /\ call' = [call EXCEPT !.room = @ - 1, !.got = TRUE, !.left = 2]
            /\ UNCHANGED pend
    /\ UNCHANGED <<inited, apend, chanVars, ctxVars, closed, hint, netVars>>

\* A repeated or early segment, a pure ACK.
RecvIgnored(f) ==
    /\ TakesFrom("recv", f)
    /\ f.seg # "rst"
    /\ Commit
    /\ Spend
    /\ UNCHANGED <<inited, apend, chanVars, ctxVars, pendVars, netVars>>

RecvFin(f) ==
    /\ TakesFrom("recv", f)
    /\ f.seg = "fin"
    /\ Commit
    /\ IF call.got
       THEN /\ closed' = [closed EXCEPT ![call.ch] = TRUE]
            /\ work' = [work EXCEPT !.st = "CLOSE_WAIT"]
            /\ UNCHANGED chanVars
       ELSE \/ /\ closed' = [closed EXCEPT ![call.ch] = FALSE]
               /\ Release(call.ch, [work EXCEPT !.st = "CLOSE_WAIT"])
            \/ /\ closed' = [closed EXCEPT ![call.ch] = TRUE]
               /\ work' = [work EXCEPT !.st = "CLOSE_WAIT"]
               /\ UNCHANGED chanVars
    /\ Return
    /\ UNCHANGED <<inited, apend, active, spare, pend, hint, netVars>>

RecvRst(f) ==
    /\ TakesFrom("recv", f)
    /\ f.seg = "rst"
    /\ Commit
    /\ IF call.got
       THEN /\ closed' = [closed EXCEPT ![call.ch] = TRUE]
            /\ UNCHANGED <<chanVars, work>>
       ELSE ReportClosed
    /\ Return
    /\ UNCHANGED <<inited, apend, active, spare, pend, hint, netVars>>

RecvDatagram(f) ==
    /\ TakesFrom("udprecv", f)
    /\ Commit
    /\ Return
    /\ UNCHANGED <<inited, apend, chanVars, ctxVars, pendVars, netVars>>

\* SEND: peer data is saved, an acknowledgement may end the call.
SendSegment(f) ==
    /\ TakesFrom("send", f)
    /\ f.seg # "rst"
    /\ \E took \in BOOLEAN : pend' = Stored(call.ch, f, took)
    /\ Commit
    /\ Return \/ Pass(call.left - 1)
    /\ UNCHANGED <<inited, apend, chanVars, ctxVars, closed, hint, netVars>>

\* PEER_CLOSED marks the channel; RECV reports it.
SendFin(f) ==
    /\ TakesFrom("send", f)
    /\ f.seg = "fin"
    /\ closed' = [closed EXCEPT ![call.ch] = TRUE]
    /\ work' = [work EXCEPT !.st = "CLOSE_WAIT"]
    /\ Commit
    /\ Return \/ Pass(call.left - 1)
    /\ UNCHANGED <<inited, apend, chanVars, active, spare, pend, hint, netVars>>

\* MAP_TCP_SEND_FAIL .closed.
SendRst(f) ==
    /\ TakesFrom("send", f)
    /\ f.seg = "rst"
    /\ Release(call.ch, work)
    /\ PendClear(call.ch)
    /\ Commit
    /\ Return
    /\ UNCHANGED <<inited, apend, active, spare, netVars>>

\* The SYN-ACK: CONNECT succeeds when its ACK leaves the NIC.
OpenAnswered(f) ==
    /\ TakesFrom("open", f)
    /\ f.seg = "synack"
    /\ Commit
    /\ \/ /\ work' = [work EXCEPT !.st = "ESTAB"]
          /\ chState' = [chState EXCEPT ![call.ch] = "tcp"]
          /\ chConn' = [chConn EXCEPT ![call.ch] = f.conn]
       \/ UNCHANGED <<work, chState, chConn>>
    /\ Return
    /\ UNCHANGED <<inited, apend, listenCh, accepted, active, spare, pendVars,
                   netVars>>

OpenOther(f) ==
    /\ TakesFrom("open", f)
    /\ f.seg # "synack"
    /\ Commit
    /\ IF f.seg = "rst" THEN EndWait ELSE Spend
    /\ UNCHANGED <<inited, apend, chanVars, ctxVars, pendVars, netVars>>

\* CLOSE waits for the ACK of its FIN through RECV; any answer may be it.
CloseAnswered(f) ==
    /\ TakesFrom("close", f)
    /\ \E took \in BOOLEAN : pend' = Stored(call.ch, f, took)
    /\ closed' = [closed EXCEPT ![call.ch] = @ \/ f.seg = "fin"]
    /\ Commit
    /\ EndWait \/ Pass(call.left - 1)
    /\ UNCHANGED <<inited, apend, chanVars, ctxVars, hint, netVars>>

-----------------------------------------------------------------------------
(* LISTEN_POLL.                                                            *)

\* The SYN+ACK leaves, or the NIC refuses it and the call fails; the peer
\* hears it or not.
Answers(k) ==
    \/ /\ work' = [work EXCEPT !.st = "SYN_RCVD", !.conn = k]
       /\ Spend
       /\ \/ peer' = [peer EXCEPT ![k] = IF @ = "syn" THEN "est" ELSE @]
          \/ UNCHANGED peer
    \/ /\ work' = [work EXCEPT !.conn = k]
       /\ Return
       /\ UNCHANGED peer

PollSyn(f) ==
    /\ TakesFrom("poll", f)
    /\ f.seg = "syn"
    /\ Answers(f.conn)
    /\ Commit
    /\ UNCHANGED <<inited, apend, chanVars, active, spare, pendVars, kind>>

PollRst(f) ==
    /\ TakesFrom("poll", f)
    /\ f.seg = "rst"
    /\ work' = [work EXCEPT !.st = "LISTEN"]
    /\ Commit
    /\ Spend
    /\ UNCHANGED <<inited, apend, chanVars, active, spare, pendVars, netVars>>

\* The final ACK; one that carries data or FIN stays in the ring for RECV.
PollAccept(f) ==
    /\ TakesFrom("poll", f)
    /\ f.seg \in {"ack", "data", "fin"}
    /\ work' = [work EXCEPT !.st = "ESTAB"]
    /\ chState' = [chState EXCEPT ![call.ch] = "tcp"]
    /\ accepted' = TRUE
    /\ chConn' = [chConn EXCEPT ![call.ch] = f.conn]
    /\ IF f.seg = "ack" THEN Commit ELSE UNCHANGED ring
    /\ call' = [call EXCEPT !.op = "enter", !.left = 1]
    /\ UNCHANGED <<inited, apend, listenCh, active, spare, pendVars, netVars>>

-----------------------------------------------------------------------------
(* The wait is over: silence.                                              *)

Expired(op) == call.op = op /\ call.left = 0

\* RECV, LISTEN_POLL and UDP.RECV report nothing; OPEN fails; a SEND fails.
Expire ==
    /\ \E op \in {"recv", "poll", "udprecv", "open", "send"} : Expired(op)
    /\ Return
    /\ UNCHANGED <<inited, apend, ring, chanVars, ctxVars, pendVars, netVars>>

\* F_AGAIN: the slice is over and the segment stays on the wire.
Suspend ==
    /\ Expired("send")
    /\ apend' = call.ch
    /\ Return
    /\ UNCHANGED <<inited, ring, chanVars, ctxVars, pendVars, netVars>>

-----------------------------------------------------------------------------
(* CLOSE_CHANNEL and CLOSE_LINK.                                           *)

\* Behind .clear: CLOSE returns, CLOSE_LINK goes on with channel 1.
AfterClose ==
    \/ call.next \notin {"netdone", "netinit"} /\ Return
    \/ /\ call.next \in {"netdone", "netinit"}
       /\ call.ch = 0
       /\ call' = [call EXCEPT !.op = "closing", !.ch = 1]
    \/ call.next = "netinit" /\ call.ch = 1 /\ call' = [call EXCEPT !.op = "reset"]
    \/ call.next = "netdone" /\ call.ch = 1 /\ Return

\* A channel that is closed already is released without selecting it.
CloseNothing ==
    /\ call.op = "closing"
    /\ chState[call.ch] = "closed"
    /\ Release(call.ch, work)
    /\ PendClear(call.ch)
    /\ AfterClose
    /\ UNCHANGED <<inited, apend, ring, active, spare, netVars>>

\* UDP.CLOSE forgets the peer's address.
UdpForgotten(w) == [w EXCEPT !.udp = 0]

CloseLocal ==
    /\ call.op = "closing"
    /\ chState[call.ch] \in {"udp", "listen"}
    /\ active' = call.ch
    /\ spare' = SelSpare(call.ch)
    /\ Release(call.ch, IF chState[call.ch] = "udp"
                        THEN UdpForgotten(SelWork(call.ch))
                        ELSE SelWork(call.ch))
    /\ PendClear(call.ch)
    /\ AfterClose
    /\ UNCHANGED <<inited, apend, ring, netVars>>

\* TCP.CLOSE: the FIN is out and its ACK is awaited.
CloseFin ==
    /\ call.op = "closing"
    /\ chState[call.ch] = "tcp"
    /\ active' = call.ch
    /\ spare' = SelSpare(call.ch)
    /\ work' = [SelWork(call.ch) EXCEPT !.st = "LAST_ACK"]
    /\ call' = [call EXCEPT !.op = "close", !.left = Budget]
    /\ UNCHANGED <<inited, apend, ring, chanVars, pendVars, netVars>>

\* TCP.CLOSE aborts with RST, the NIC refuses the FIN, or nothing was open.
CloseAtOnce ==
    /\ call.op = "closing"
    /\ chState[call.ch] = "tcp"
    /\ active' = call.ch
    /\ spare' = SelSpare(call.ch)
    /\ \E st \in {"CLOSED", SelWork(call.ch).st} :
          Release(call.ch, [SelWork(call.ch) EXCEPT !.st = st])
    /\ PendClear(call.ch)
    /\ AfterClose
    /\ UNCHANGED <<inited, apend, ring, netVars>>

CloseEnds ==
    /\ Expired("close")
    /\ Release(call.ch, [work EXCEPT !.st = "CLOSED"])
    /\ PendClear(call.ch)
    /\ AfterClose
    /\ UNCHANGED <<inited, apend, ring, active, spare, netVars>>

\* NETINIT behind CLOSE_LINK: RESET_CHANNEL_STATE, then the card.
NetReset ==
    /\ call.op = "reset"
    /\ chState' = [c \in Channels |-> "closed"]
    /\ chConn' = [c \in Channels |-> 0]
    /\ active' = NoChannel
    /\ work' = ZeroContext
    /\ spare' = ZeroContext
    /\ pend' = [c \in Channels |-> 0]
    /\ closed' = [c \in Channels |-> FALSE]
    /\ hint' = NoChannel
    /\ \/ inited' = TRUE /\ ring' = <<>>      \* the card is up
       \/ UNCHANGED inited /\ ring' = <<>>    \* it failed after its reset
       \/ UNCHANGED <<inited, ring>>          \* no environment, no card
    /\ Return
    /\ UNCHANGED <<apend, listenCh, accepted, netVars>>

-----------------------------------------------------------------------------
(* The resolver reads frames without asking whose they are; each frame is  *)
(* charged to its timeout.                                                 *)

ResolverReads ==
    /\ call.op = "resolve"
    /\ BusyResolver
    /\ ring # <<>>
    /\ call.left > 0
    /\ Commit
    /\ Spend
    /\ UNCHANGED <<inited, apend, chanVars, ctxVars, pendVars, netVars>>

\* No answer, or PING and RESOLVE are done.
ResolverReturns ==
    /\ call.op = "resolve"
    /\ Return
    /\ UNCHANGED <<inited, apend, ring, chanVars, ctxVars, pendVars, netVars>>

\* CONNECT: the tuple is filled in and the SYN sent, or the NIC refuses it.
ConnectOpens(k) ==
    /\ call.op = "resolve"
    /\ call.next = "connect"
    /\ k \in Fresh
    /\ active' = call.ch
    /\ spare' = SelSpare(call.ch)
    /\ work' = [SelWork(call.ch) EXCEPT !.st = "SYN_SENT", !.conn = k]
    /\ PendClear(call.ch)
    /\ kind' = [kind EXCEPT ![k] = "out"]
    /\ Return \/ call' = Begin("open", call.ch)
    /\ UNCHANGED <<inited, apend, ring, chanVars, peer>>

UdpOpens(k) ==
    /\ call.op = "resolve"
    /\ call.next = "udpopen"
    /\ k \in Fresh
    /\ active' = call.ch
    /\ spare' = SelSpare(call.ch)
    /\ work' = [SelWork(call.ch) EXCEPT !.udp = k]
    /\ PendClear(call.ch)
    /\ kind' = [kind EXCEPT ![k] = "udp"]
    /\ chState' = [chState EXCEPT ![call.ch] = "udp"]
    /\ chConn' = [chConn EXCEPT ![call.ch] = k]
    /\ Return
    /\ UNCHANGED <<inited, apend, ring, listenCh, accepted, peer>>

-----------------------------------------------------------------------------
(* The network and the peers (external).  A frame that is not put into the *)
(* ring was lost.                                                          *)

Sendable(k) ==
    CASE kind[k] = "udp" -> {"dgram"}
      [] kind[k] = "out" /\ peer[k] = "new" -> {"synack", "rst"}
      [] kind[k] = "in" /\ peer[k] = "syn" -> {"syn", "rst"}
      [] peer[k] \in {"est", "fin"} ->
            {"ack", "fin"} \cup (IF peer[k] = "est" THEN {"data"} ELSE {})
                          \cup (IF kind[k] \in RstFrom THEN {"rst"} ELSE {})
      [] OTHER -> {}

PeerSends(k, seg) ==
    /\ seg \in Sendable(k)
    /\ Len(ring) < RingMax
    /\ ring' = Append(ring, [conn |-> k, seg |-> seg])
    /\ peer' = [peer EXCEPT ![k] = CASE seg = "synack" -> "est"
                                     [] seg = "fin" -> "fin"
                                     [] seg = "rst" -> "dead"
                                     [] OTHER -> @]
    /\ UNCHANGED <<inited, apend, call, chanVars, ctxVars, pendVars, kind>>

\* Somebody wants to connect to the port that is listened on.
ClientComes(k) ==
    /\ k \in Fresh
    /\ listenCh # NoChannel
    /\ kind' = [kind EXCEPT ![k] = "in"]
    /\ peer' = [peer EXCEPT ![k] = "syn"]
    /\ UNCHANGED <<inited, apend, call, ring, chanVars, ctxVars, pendVars>>

-----------------------------------------------------------------------------
Init ==
    /\ inited = FALSE
    /\ chState = [c \in Channels |-> "closed"]
    /\ active = NoChannel
    /\ work = ZeroContext
    /\ spare = ZeroContext
    /\ listenCh = NoChannel
    /\ accepted = FALSE
    /\ apend = NoChannel
    /\ pend = [c \in Channels |-> 0]
    /\ closed = [c \in Channels |-> FALSE]
    /\ hint = NoChannel
    /\ call = Idle
    /\ ring = <<>>
    /\ kind = [k \in Conns |-> "none"]
    /\ peer = [k \in Conns |-> "new"]
    /\ chConn = [c \in Channels |-> 0]

Application ==
    \/ \E c \in Channels, next \in Calls \ {"listen", "netdone"} :
          CallResolving(c, next)
    \/ \E c \in Channels :
          \/ "listen" \in Calls /\ CallListen(c)
          \/ CallUnlisten(c)
          \/ CallClose(c)
          \/ CallSend(c)
          \/ ResumeSend(c)
          \/ RecvSuspended(c)
          \/ CallRecv(c)
    \/ \E next \in {"netinit"} \cup (Calls \cap {"netdone"}) : CallNet(next)

TakesFrame(f) ==
    \/ ForeignSegment(f) \/ ForeignFin(f) \/ ForeignRst(f)
    \/ ForeignBlocked(f) \/ Dropped(f)
    \/ RecvData(f) \/ RecvIgnored(f) \/ RecvFin(f) \/ RecvRst(f)
    \/ RecvDatagram(f)
    \/ SendSegment(f) \/ SendFin(f) \/ SendRst(f)
    \/ OpenAnswered(f) \/ OpenOther(f)
    \/ CloseAnswered(f)
    \/ PollSyn(f) \/ PollRst(f) \/ PollAccept(f)

Code ==
    \/ \E i \in DOMAIN ring : TakesFrame(ring[i])
    \/ Tick \/ Expire \/ Suspend
    \/ RecvRefused \/ RecvPending \/ RecvClosed \/ RecvWaits
    \/ CloseNothing \/ CloseLocal \/ CloseFin \/ CloseAtOnce \/ CloseEnds
    \/ NetReset
    \/ ResolverReads \/ ResolverReturns
    \/ \E k \in Conns : ConnectOpens(k) \/ UdpOpens(k)

Network ==
    \/ \E k \in Conns, seg \in Segs : PeerSends(k, seg)
    \/ \E k \in Conns : ClientComes(k)

Next == Application \/ Code \/ Network
Spec == Init /\ [][Next]_vars

\* The CPU goes on with a call it has begun; the application polls both
\* channels and repeats a SEND that said AGAIN (UNETRTL.md: service
\* RXPEND/XCHAN promptly).
Fairness ==
    /\ WF_vars(Code)
    /\ \A c \in Channels : SF_vars(CallRecv(c)) /\ SF_vars(ResumeSend(c))
FairSpec == Spec /\ Fairness

-----------------------------------------------------------------------------
(* Properties.                                                             *)

TypeOK ==
    /\ inited \in BOOLEAN
    /\ chState \in [Channels -> ChStates]
    /\ active \in Channels \cup {NoChannel}
    /\ work \in Context
    /\ spare \in Context
    /\ listenCh \in Channels \cup {NoChannel}
    /\ accepted \in BOOLEAN
    /\ apend \in Channels \cup {NoChannel}
    /\ pend \in [Channels -> 0 .. MaxConns]
    /\ closed \in [Channels -> BOOLEAN]
    /\ hint \in Channels \cup {NoChannel}
    /\ call \in Call
    /\ ring \in Seq(Frame) /\ Len(ring) <= RingMax
    /\ kind \in [Conns -> {"none", "out", "in", "udp"}]
    /\ peer \in [Conns -> {"new", "syn", "est", "fin", "dead"}]
    /\ chConn \in [Channels -> 0 .. MaxConns]

\* Whatever the other channel did meanwhile, a channel that the application
\* has open still has the context of its own connection, in a state that
\* connection can be in: no call and no foreign frame leaves one channel's
\* context in the place of the other's, or overwrites it.
ContextFollowsChannel ==
    \A c \in Channels :
       /\ chState[c] = "tcp" =>
             Ctx(c).conn = chConn[c]
             /\ Ctx(c).st \in {"ESTAB", "CLOSE_WAIT", "LAST_ACK"}
       /\ chState[c] = "udp" => Ctx(c).udp = chConn[c]
       /\ chState[c] = "listen" => Ctx(c).st \in {"LISTEN", "SYN_RCVD"}

\* A suspended SEND can be resumed whatever calls and frames came since: its
\* channel is open and its context still holds the segment's connection.
\* (Otherwise every other call is refused with BUSY for ever.)
SuspendedCanResume ==
    apend # NoChannel => /\ chState[apend] = "tcp"
                         /\ Ctx(apend).conn = chConn[apend]
                         /\ Ctx(apend).st \in {"ESTAB", "CLOSE_WAIT"}

\* The one listener's record and the states of the channels agree whenever the
\* network is not being taken down: a listening channel is the recorded one,
\* which either listens or holds a connection that was accepted from it.
ListenerRecordSound ==
    /\ call.next \notin {"netdone", "netinit"} =>
          \A c \in Channels :
             chState[c] = "listen" => listenCh = c /\ ~accepted
    /\ listenCh # NoChannel =>
          \/ chState[listenCh] = "listen" /\ ~accepted
          \/ /\ chState[listenCh] = "tcp" /\ accepted
             /\ kind[chConn[listenCh]] = "in"

\* What RECV will find queued on a channel was sent by the peer of the
\* connection the channel now has, never by an earlier one's.
QueuedIsOwn ==
    \A c \in Channels :
       /\ chState[c] = "tcp" => pend[c] \in {0, chConn[c]}
       /\ chState[c] \in {"udp", "listen"} => pend[c] = 0

\* The close that RECV will report of a channel has happened: its own peer has
\* finished or reset.
CloseIsTheirs ==
    \A c \in Channels : closed[c] =>
       CASE chState[c] = "tcp" -> peer[chConn[c]] \in {"fin", "dead"}
         [] chState[c] = "closed" -> TRUE
         [] OTHER -> FALSE

Taken == ring # <<>> /\ ring' = Tail(ring)

\* A datagram of an open UDP channel stays in the ring until a RECV on that
\* channel takes it.  With BusyResolver it does not hold: the resolver reads
\* whatever is in the ring.
DatagramProtected ==
    [][Taken /\ Head(ring).seg = "dgram" =>
          \A c \in Channels :
             chState[c] = "udp" /\ Head(ring).conn = chConn[c] =>
                call.op = "udprecv" /\ call.ch = c]_vars

\* Every call returns, however many frames of the other channel, of nobody or
\* of the peer arrive while it waits.
CallsReturn == call.op # "idle" ~> call.op = "idle"

HeadOf(c) == /\ chState[c] = "udp"
             /\ ring # <<>>
             /\ Head(ring) = [conn |-> chConn[c], seg |-> "dgram"]

\* Two channels that wait behind each other's frames do not wait for ever: an
\* application that polls both gets the datagram at the head of the ring.
DatagramServed == \A c \in Channels : HeadOf(c) ~> ~HeadOf(c)
=============================================================================
