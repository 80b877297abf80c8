------------------------------ MODULE UnetRecv ------------------------------
(***************************************************************************)
(* The receive path of one TCP channel of UNETRTL.DLL: the public RECV     *)
(* call (src/dll/unetrtl.asm), the TCP receiver it drives (TCP.RECV in     *)
(* src/lib/tcp_lib.asm, UNET_DLL build) and the pre-ACK sink that saves    *)
(* payload into the caller's buffer and the channel's pending queue.       *)
(*                                                                         *)
(* A byte of the peer's stream is its position, 0 .. StreamLen - 1, and    *)
(* the FIN has position StreamLen, so RCV_NXT and the sequence numbers of  *)
(* segments are plain naturals; their 32-bit form is the subject of        *)
(* TcpSeq.  The network between the peer and the NIC ring may lose,        *)
(* duplicate and reorder; RTL.SEND_FRAME may fail at every transmission.   *)
(***************************************************************************)
EXTENDS Integers, Sequences, FiniteSets

CONSTANTS
    StreamLen,   \* bytes the peer sends before its FIN
    MaxSeg,      \* largest payload of one segment (TCP_MSS)
    PendSize,    \* size of a channel's pending queue (CH_PEND_SIZE, 536)
    WinCap,      \* largest window ever advertised (2680)
    CallSizes,   \* buffer sizes (IX) the application passes to RECV
    DeferBit,    \* weight of bit 7 of RECV_UNACKED (128)
    Sends,       \* whether the application also calls SEND
    PeerResets,  \* whether the peer may send a RST
    DebtMayWrap, \* bound: FALSE keeps the ACK debt below DeferBit
    WireMax,     \* bound: segments arrived or about to, not yet read
    AckMax       \* bound: acknowledgements in flight towards the peer

ASSUME ConstantsAssumption ==
    /\ StreamLen \in Nat
    /\ MaxSeg \in Nat \ {0}
    /\ PendSize \in Nat \ {0}
    /\ WinCap \in Nat \ {0}
    /\ CallSizes \subseteq Nat \ {0}
    /\ DeferBit \in Nat \ {0} /\ DeferBit % 2 = 0
    /\ Sends \in BOOLEAN
    /\ PeerResets \in BOOLEAN
    /\ DebtMayWrap \in BOOLEAN
    /\ WireMax \in Nat
    /\ AckMax \in Nat

VARIABLES
    rcvNxt,     \* TCP_RCV_NXT
    tcpState,   \* TCP_STATE: "ESTAB" or "CLOSE_WAIT"
    chOpen,     \* CH_STATE = 1; FALSE once the channel is released
    closed,     \* CH_CLOSED: the deferred-close marker
    pend,       \* the unread bytes of CH_PEND_BUF
    pendOff,    \* CH_PEND_OFF
    unacked,    \* RECV_UNACKED: defer flag (DeferBit) + ACK debt below it
    dirty,      \* WINDOW_DIRTY: queue space was freed and not announced
    pc,         \* where the channel's caller is inside the DLL
    exit,       \* which of RECV's exits is being taken (pc = "flush")
    space,      \* ARG_IX: what is left of the caller's buffer
    copyLen,    \* COPY_LEN: bytes this call has written
    ret,        \* what the last call returned (NERR_*); "none" during a call
    buf,        \* history: every byte written to a caller's buffer
    reported,   \* history: the sum of DE over all returns
    last,       \* history: the last ACK and window that left the NIC
    una,        \* peer: highest cumulative ACK received (SND.UNA)
    edge,       \* peer: right edge of the window it was given
    sndMax,     \* peer: SND.NXT
    wire,       \* segments on the network or in the NIC ring, not yet read
    ackWire     \* acknowledgements in flight towards the peer

tcpVars  == <<rcvNxt, tcpState, unacked>>
chanVars == <<chOpen, closed, pend, pendOff, dirty>>
callVars == <<pc, exit, space, copyLen, ret>>
histVars == <<buf, reported>>
txVars   == <<last, ackWire>>
peerVars == <<una, edge, sndMax>>
vars == <<tcpVars, chanVars, callVars, histVars, txVars, peerVars, wire>>

-----------------------------------------------------------------------------
(* Data.                                                                   *)

MinOf(a, b) == IF a <= b THEN a ELSE b
MaxOf(a, b) == IF a <= b THEN b ELSE a

\* n bytes of the peer's stream from position s on.
Bytes(s, n) == [i \in 1 .. n |-> s + i - 1]

\* A data segment, a FIN or a pure ACK of the peer: payload seq .. seq+len-1.
Segment == [kind : {"seg"}, seq : Nat, len : Nat, fin : BOOLEAN]
Rst     == [kind |-> "rst"]
Ack     == [ack : Nat, wnd : Nat]

\* Mutant: the consumed prefix of the queue counts as free.
CapacityWithoutOffset(off, len, lent) == PendSize - len + lent

\* RX_CAPACITY: the unused tail of the queue plus what the caller lends.
Capacity(off, len, lent) == PendSize - (off + len) + lent

\* RX_WINDOW.
Window(off, len, lent) == MinOf(Capacity(off, len, lent), WinCap)

\* The caller's buffer is lent to the receiver only during the drain of RECV
\* (RX_DIRECT_CH names this channel).
Lent == IF pc = "drain" THEN space ELSE 0

\* INC (RECV_UNACKED): an 8-bit counter whose top bit is the defer flag.
IncDebt(u) == (u + 1) % (2 * DeferBit)

\* RECV_UNACKED AND 0x80: an ACK has left, the scope stays.
Scope(u) == IF u >= DeferBit THEN DeferBit ELSE 0

\* Mutant: an ACK the NIC refused is not counted as debt.
AfterAckForgotten(u, ok) == Scope(u)

\* RECV_UNACKED after the immediate ACK of an accepted segment.
AfterAck(u, ok) == IF ok THEN Scope(u) ELSE IncDebt(u)

-----------------------------------------------------------------------------
Init ==
    /\ rcvNxt = 0
    /\ tcpState = "ESTAB"
    /\ chOpen = TRUE
    /\ closed = FALSE
    /\ pend = <<>>
    /\ pendOff = 0
    /\ unacked = 0
    /\ dirty = FALSE
    /\ pc = "idle"
    /\ exit = "none"
    /\ space = 0
    /\ copyLen = 0
    /\ ret = "OK"
    /\ buf = <<>>
    /\ reported = 0
    \* TCP.OPEN's final ACK announced the empty queue.
    /\ last = [ack |-> 0, wnd |-> Window(0, 0, 0)]
    /\ una = 0
    /\ edge = MinOf(Window(0, 0, 0), StreamLen)
    /\ sndMax = 0
    /\ wire = {}
    /\ ackWire = {}

-----------------------------------------------------------------------------
(* The peer and the network (external).                                    *)

\* The peer sends or resends a stretch of its stream, at most MaxSeg bytes and
\* not past the window except for what it has sent before and a one-byte probe
\* of a closed window.  One that starts below SND.UNA is a delayed copy of an
\* earlier segment.  The segment that ends the stream may carry the FIN; an
\* empty one is a pure ACK.  It reaches the NIC ring (arrives), or is lost on
\* the network or by a full ring.
PeerSend(s, n, fin, arrives) ==
    /\ s + n <= StreamLen \/ (n = 0 /\ s = StreamLen + 1)
    /\ s + n <= MaxOf(MaxOf(edge, sndMax), una + 1)
    /\ s < una => s + n + (IF fin THEN 1 ELSE 0) <= sndMax
    /\ fin => s + n = StreamLen
    /\ n = 0 /\ ~fin => s = sndMax
    /\ sndMax' = MaxOf(sndMax, s + n + (IF fin THEN 1 ELSE 0))
    /\ LET m == [kind |-> "seg", seq |-> s, len |-> n, fin |-> fin]
       IN  /\ arrives => Cardinality(wire \cup {m}) <= WireMax
           /\ wire' = IF arrives THEN wire \cup {m} ELSE wire
    /\ UNCHANGED <<tcpVars, chanVars, callVars, histVars, txVars, una, edge>>

PeerSendAny ==
    \E s \in 0 .. sndMax, n \in 0 .. MaxSeg, fin, arrives \in BOOLEAN :
        PeerSend(s, n, fin, arrives)

\* The peer gives the connection up.
PeerReset ==
    /\ PeerResets
    /\ Cardinality(wire \cup {Rst}) <= WireMax
    /\ wire' = wire \cup {Rst}
    /\ UNCHANGED <<tcpVars, chanVars, callVars, histVars, txVars, peerVars>>

\* An acknowledgement reaches the peer; a copy of it may still be under way.
\* A window beyond the end of the stream is as good as one that reaches it.
PeerAck(a) ==
    /\ a \in ackWire
    /\ ackWire' \in {ackWire, ackWire \ {a}}
    /\ una' = MaxOf(una, a.ack)
    /\ edge' = IF a.ack >= una THEN MinOf(a.ack + a.wnd, StreamLen) ELSE edge
    /\ UNCHANGED <<tcpVars, chanVars, callVars, histVars, last, sndMax, wire>>

LoseAck ==
    /\ \E a \in ackWire : ackWire' = ackWire \ {a}
    /\ UNCHANGED <<tcpVars, chanVars, callVars, histVars, last, peerVars, wire>>

-----------------------------------------------------------------------------
(* Transmitting.  Every segment this side sends carries RCV_NXT and the    *)
(* window; ok tells whether RTL.SEND_FRAME succeeded.  More than AckMax in *)
(* flight are lost.                                                        *)

Emit(ok, n, wnd) ==
    LET a == [ack |-> n, wnd |-> wnd]
    IN  IF ok
        THEN /\ last' = a
             /\ ackWire' = IF Cardinality(ackWire \cup {a}) <= AckMax
                           THEN ackWire \cup {a} ELSE ackWire
        ELSE UNCHANGED txVars

\* Mutant: freed queue space owes no ACK.
FlushDebtOfSegments == unacked % DeferBit

\* The debt FLUSH_RECV_ACK finds: a dirty window sets its lowest bit, and the
\* defer flag is dropped.
FlushDebt ==
    LET d == unacked % DeferBit
    IN  IF dirty /\ d % 2 = 0 THEN d + 1 ELSE d

\* FLUSH_RECV_ACK with the caller's buffer withdrawn: one cumulative ACK when
\* anything is owed; a failed one leaves the debt.
Flush(ok) ==
    /\ dirty' = FALSE
    /\ IF FlushDebt = 0
       THEN unacked' = 0 /\ UNCHANGED txVars
       ELSE /\ Emit(ok, rcvNxt, Window(pendOff, Len(pend), 0))
            /\ unacked' = IF ok THEN 0 ELSE FlushDebt

FlushFails(ok) == FlushDebt # 0 /\ ~ok

\* Give the application code with n bytes in its buffer.
Return(code, n) ==
    /\ ret' = code
    /\ reported' = reported + n
    /\ copyLen' = 0
    /\ space' = 0
    /\ pc' = "idle"
    /\ exit' = "none"

GoFlush(why) ==
    /\ pc' = "flush"
    /\ exit' = why

-----------------------------------------------------------------------------
(* RECV_IMPL, entry to drain.                                              *)

\* A call on an open channel first retries the ACK debt of the call before.
RecvEnter(size, ok) ==
    /\ pc = "idle"
    /\ chOpen
    /\ Flush(ok)
    /\ IF FlushFails(ok)
       THEN Return("HW", 0)
       ELSE /\ pc' = "serve"
            /\ space' = size
            /\ ret' = "none"
            /\ UNCHANGED <<exit, copyLen, reported>>
    /\ UNCHANGED <<rcvNxt, tcpState, chOpen, closed, pend, pendOff, buf,
                   peerVars, wire>>

\* COPY_PENDING_ARG: up to n queued bytes to the caller; the offset is reset
\* only when the queue is drained completely.
CopyPending(n) ==
    LET k == MinOf(Len(pend), n)
    IN  /\ buf' = buf \o SubSeq(pend, 1, k)
        /\ pend' = SubSeq(pend, k + 1, Len(pend))
        /\ pendOff' = IF k = Len(pend) THEN 0 ELSE pendOff + k
        /\ dirty' = (dirty \/ k > 0)

\* Mutant: a close that waits is reported over the bytes just copied.
ServeExitAtOnce(k) == IF closed THEN "closed" ELSE "drain"

\* What was copied is returned first; the close is left to the next call.
ServeExit(k) == IF space = k \/ k > 0 THEN "drain" ELSE "closed"

\* Serve the queue; then return, report the close, or lend the rest of the
\* buffer and announce it (SEND_DUP_ACK) before draining the ring.
RecvServe(ok) ==
    LET k == MinOf(Len(pend), space)
    IN  /\ pc = "serve"
        /\ CopyPending(space)
        /\ IF space = k \/ closed
           THEN /\ GoFlush(ServeExit(k))
                /\ space' = space - k
                /\ copyLen' = k
                /\ UNCHANGED <<unacked, ret, reported, txVars>>
           ELSE /\ Emit(ok, rcvNxt, Window(pendOff', Len(pend'), space - k))
                /\ IF ok
                   THEN /\ pc' = "drain"
                        /\ space' = space - k
                        /\ copyLen' = k
                        /\ unacked' = (unacked % DeferBit) + DeferBit
                        /\ UNCHANGED <<exit, ret, reported>>
                   ELSE Return("HW", 0) /\ UNCHANGED unacked
    /\ UNCHANGED <<rcvNxt, tcpState, chOpen, closed, peerVars, wire>>

\* While a SEND is suspended RECV only copies what is queued.
RecvSuspended(size) ==
    LET k == MinOf(Len(pend), size)
    IN  /\ pc = "susp"
        /\ CopyPending(size)
        /\ ret' = "OK"
        /\ reported' = reported + k
    /\ UNCHANGED <<tcpVars, chOpen, closed, pc, exit, space, copyLen,
                   txVars, peerVars, wire>>

-----------------------------------------------------------------------------
(* TCP.RECV, one frame of the peer: from the drain of RECV, from the ACK   *)
(* wait of SEND, or (pc = "idle") on behalf of the other channel's call    *)
(* through HANDLE_FOREIGN_FRAME.                                           *)

InRecv == pc \in {"drain", "send", "idle"} /\ chOpen

\* RCV_NXT - seq; the code drops a copy 65536 or more bytes old unseen.
Delta(m) == rcvNxt - m.seq

\* The segment starts at RCV_NXT, or overlaps it and carries something new.
InOrder(m) ==
    /\ m.seq <= rcvNxt
    /\ Delta(m) < 65536
    /\ \/ m.seq = rcvNxt
       \/ Delta(m) < m.len
       \/ Delta(m) = m.len /\ m.fin /\ tcpState # "CLOSE_WAIT"

\* STORE_TCP_PAYLOAD saves the prefix of the new bytes that fits, the caller's
\* buffer first; the FIN counts only behind a payload saved in full.
NewBytes(m) == m.len - Delta(m)
Stored(m)   == MinOf(NewBytes(m), Capacity(pendOff, Len(pend), Lent))
ToCaller(m) == MinOf(Stored(m), Lent)

\* Mutants: the FIN counts whatever was saved; a FIN without data is ignored.
TakesFinAnyway(m)   == m.fin
TakesFinWithData(m) == m.fin /\ NewBytes(m) > 0 /\ Stored(m) = NewBytes(m)

TakesFin(m) == m.fin /\ Stored(m) = NewBytes(m)

\* Mutant: the overlap is not trimmed.
FirstNewUntrimmed(m) == m.seq

\* The first byte that is new: SEG_PTR moves with SEG_LEN on an overlap.
FirstNew(m) == m.seq + Delta(m)

\* Mutant: RCV_NXT covers the whole segment, saved or not.
AdvanceUnsaved(m) == NewBytes(m) + (IF m.fin THEN 1 ELSE 0)

\* By how much RCV_NXT moves.
Advance(m) == Stored(m) + (IF TakesFin(m) THEN 1 ELSE 0)

\* Where TCP.RECV returns to after a segment that stored n bytes; failed: its
\* own ACK could not be transmitted.
AfterSegment(n, failed) ==
    CASE pc = "drain" /\ tcpState' = "CLOSE_WAIT" ->
            GoFlush(IF n # 0 \/ copyLen' # 0 THEN "drain" ELSE "closed")
      [] pc = "drain" /\ tcpState' # "CLOSE_WAIT" /\ (failed \/ (n > 0 /\ space' = 0)) ->
            GoFlush("drain")
      [] pc = "send" /\ (failed \/ tcpState' = "CLOSE_WAIT") ->
            pc' = "idle" /\ UNCHANGED exit
      \* the wait of SEND also ends when this segment acknowledged its target
      [] pc = "send" /\ ~failed /\ tcpState' # "CLOSE_WAIT" ->
            pc' \in {"send", "idle"} /\ UNCHANGED exit
      [] OTHER -> UNCHANGED <<pc, exit>>

\* A segment with something new, or an empty one at RCV_NXT.
RecvInOrder(m, ok) ==
    /\ InRecv
    /\ m \in wire \ {Rst}
    /\ InOrder(m)
    /\ DebtMayWrap \/ unacked % DeferBit < DeferBit - 1
    /\ LET n    == Stored(m)
           d    == ToCaller(m)
           from == FirstNew(m)
       IN  /\ buf' = buf \o Bytes(from, d)
           /\ pend' = pend \o Bytes(from + d, n - d)
           /\ space' = IF pc = "drain" THEN space - d ELSE space
           /\ copyLen' = copyLen + d
           /\ rcvNxt' = rcvNxt + Advance(m)
           /\ tcpState' = IF TakesFin(m) THEN "CLOSE_WAIT" ELSE tcpState
           /\ closed' = (closed \/ TakesFin(m))
           /\ IF tcpState' = "CLOSE_WAIT" \/ unacked < DeferBit
              THEN /\ Emit(ok, rcvNxt', Window(pendOff, Len(pend'), Lent - d))
                   /\ unacked' = AfterAck(unacked, ok)
                   /\ AfterSegment(n, ~ok)
              ELSE /\ unacked' = IncDebt(unacked)
                   /\ UNCHANGED txVars
                   /\ AfterSegment(n, FALSE)
    /\ wire' = wire \ {m}
    /\ UNCHANGED <<chOpen, pendOff, dirty, ret, reported, peerVars>>

\* A hole or a duplicate is answered at once, whatever the scope; a failed
\* answer is left to the next copy.
RecvOutOfOrder(m, ok) ==
    /\ InRecv
    /\ m \in wire \ {Rst}
    /\ ~InOrder(m)
    /\ Emit(ok, rcvNxt, Window(pendOff, Len(pend), Lent))
    /\ unacked' = IF ok THEN Scope(unacked) ELSE unacked
    /\ IF ok THEN UNCHANGED <<tcpState, copyLen, space>> /\ AfterSegment(0, FALSE)
       ELSE UNCHANGED <<tcpState, copyLen, space, pc, exit>>
    /\ wire' = wire \ {m}
    /\ UNCHANGED <<rcvNxt, chOpen, closed, pend, pendOff, dirty, ret, histVars,
                   peerVars>>

-----------------------------------------------------------------------------
(* A RST of the peer: three callers, three outcomes.                       *)

\* .reset_by_peer: bytes already copied are returned first.
RstExit == IF copyLen # 0 THEN "drain" ELSE "closed"

RstInDrain ==
    /\ pc = "drain"
    /\ Rst \in wire
    /\ closed' = TRUE
    /\ GoFlush(RstExit)
    /\ wire' = wire \ {Rst}
    /\ UNCHANGED <<tcpVars, chOpen, pend, pendOff, dirty, space, copyLen, ret,
                   histVars, txVars, peerVars>>

\* SEND: the channel is released and its queue cleared (MAP_TCP_SEND_FAIL),
\* unless the RST itself acknowledged the whole chunk: then SEND succeeds and
\* the RST is forgotten.
RstInSend ==
    /\ pc = "send"
    /\ Rst \in wire
    /\ pc' = "idle"
    /\ \/ UNCHANGED <<chOpen, closed, pend, pendOff, ret>>
       \/ /\ chOpen' = FALSE
          /\ closed' = FALSE
          /\ pend' = <<>>
          /\ pendOff' = 0
          /\ ret' = "SENDCLOSED"
    /\ wire' = wire \ {Rst}
    /\ UNCHANGED <<tcpVars, dirty, exit, space, copyLen, histVars, txVars, peerVars>>

\* Another channel's call: only CH_STATE is reset, or, behind a FIN, only
\* CH_CLOSED set.
RstForeign ==
    /\ pc = "idle"
    /\ chOpen
    /\ Rst \in wire
    /\ \/ tcpState = "CLOSE_WAIT" /\ closed' = TRUE /\ UNCHANGED chOpen
       \/ tcpState # "CLOSE_WAIT" /\ chOpen' = FALSE /\ UNCHANGED closed
    /\ wire' = wire \ {Rst}
    /\ UNCHANGED <<tcpVars, pend, pendOff, dirty, callVars, histVars, txVars, peerVars>>

-----------------------------------------------------------------------------
(* The end of a drain.                                                     *)

\* No frame within the time left, or the ring is blocked by another channel.
RecvTimeout ==
    /\ pc = "drain"
    /\ GoFlush("drain")
    /\ UNCHANGED <<tcpVars, chanVars, space, copyLen, ret, histVars, txVars,
                   peerVars, wire>>

\* Esc or Ctrl+C.
RecvCancel ==
    /\ pc = "drain"
    /\ GoFlush("cancel")
    /\ UNCHANGED <<tcpVars, chanVars, space, copyLen, ret, histVars, txVars,
                   peerVars, wire>>

\* Every exit withdraws the caller's buffer and flushes the cumulative ACK.
RecvExit(ok) ==
    /\ pc = "flush"
    /\ Flush(ok)
    /\ CASE exit = "drain" ->
              /\ IF FlushFails(ok) /\ copyLen = 0 THEN Return("HW", 0)
                 ELSE Return("OK", copyLen)
              /\ UNCHANGED <<chOpen, closed>>
         [] exit = "closed" ->
              IF FlushFails(ok)
              THEN Return("HW", 0) /\ UNCHANGED <<chOpen, closed>>
              ELSE Return("CLOSED", 0) /\ chOpen' = FALSE /\ closed' = FALSE
         [] exit = "cancel" ->
              /\ IF FlushFails(ok) THEN Return("HW", 0) ELSE Return("CANCEL", 0)
              /\ UNCHANGED <<chOpen, closed>>
    /\ UNCHANGED <<rcvNxt, tcpState, pend, pendOff, buf, peerVars, wire>>

-----------------------------------------------------------------------------
(* SEND, as far as the receiver sees it (its own side is UnetSend): every  *)
(* data segment carries an ACK, and the ACK wait reads frames.             *)

SendStart(ok) ==
    /\ Sends
    /\ pc \in {"idle", "send"}
    /\ chOpen
    /\ Emit(ok, rcvNxt, Window(pendOff, Len(pend), 0))
    /\ pc' = IF ok THEN "send" ELSE "idle"
    /\ ret' = IF ok THEN "none" ELSE "HW"
    /\ UNCHANGED <<tcpVars, chanVars, exit, space, copyLen, histVars, peerVars,
                   wire>>

\* The wait ends (timeout, cancel), is suspended for a slice, or is resumed.
SendWait(from, to) ==
    /\ pc = from
    /\ pc' = to
    /\ UNCHANGED <<tcpVars, chanVars, exit, space, copyLen, ret, histVars, txVars,
                   peerVars, wire>>

-----------------------------------------------------------------------------
RecvCall ==
    \/ \E size \in CallSizes, ok \in BOOLEAN : RecvEnter(size, ok)
    \/ \E ok \in BOOLEAN : RecvServe(ok)
    \/ \E size \in CallSizes : RecvSuspended(size)
    \/ RecvTimeout
    \/ RecvCancel
    \/ \E ok \in BOOLEAN : RecvExit(ok)

RecvFrame ==
    \/ \E m \in wire, ok \in BOOLEAN : RecvInOrder(m, ok)
    \/ \E m \in wire, ok \in BOOLEAN : RecvOutOfOrder(m, ok)
    \/ RstInDrain
    \/ RstInSend
    \/ RstForeign

SendCall ==
    \/ \E ok \in BOOLEAN : SendStart(ok)
    \/ SendWait("send", "idle")
    \/ SendWait("send", "susp")
    \/ SendWait("susp", "send")

Peer ==
    \/ PeerSendAny
    \/ PeerReset
    \/ \E a \in ackWire : PeerAck(a)

Next == RecvCall \/ RecvFrame \/ SendCall \/ Peer \/ LoseAck

Spec == Init /\ [][Next]_vars

(* Fairness.  The application keeps calling RECV; a transmission does not  *)
(* fail for ever; every wait of the DLL is bounded; a segment or an ACK    *)
(* sent again and again arrives in the end; the peer retransmits from its  *)
(* SND.UNA, and probes a closed window, as TCP requires of it.             *)

Retransmit ==
    LET n == MinOf(MaxSeg, MinOf(StreamLen, MaxOf(MaxOf(edge, sndMax), una + 1)) - una)
    IN  una <= StreamLen /\ PeerSend(una, n, una + n = StreamLen, TRUE)

Fairness ==
    /\ SF_vars(\E size \in CallSizes : RecvEnter(size, TRUE))
    /\ SF_vars(RecvServe(TRUE))
    /\ SF_vars(RecvExit(TRUE))
    /\ WF_vars(RecvTimeout)
    /\ SF_vars(SendWait("send", "idle"))
    /\ WF_vars(SendWait("susp", "send"))
    /\ SF_vars(\E m \in wire : RecvInOrder(m, TRUE) \/ RecvOutOfOrder(m, TRUE))
    /\ SF_vars(\E a \in ackWire : PeerAck(a))
    /\ SF_vars(Retransmit)

FairSpec == Spec /\ Fairness

-----------------------------------------------------------------------------
(* Properties.                                                             *)

FinSaved == IF tcpState = "CLOSE_WAIT" THEN 1 ELSE 0

\* The type of every variable; in particular the pending queue never runs
\* past the end of CH_PEND_BUF, whatever sequence of partial reads and
\* arrivals moved its offset.
TypeOK ==
    /\ rcvNxt \in Nat
    /\ tcpState \in {"ESTAB", "CLOSE_WAIT"}
    /\ chOpen \in BOOLEAN
    /\ closed \in BOOLEAN
    /\ pend \in Seq(Nat)
    /\ pendOff \in Nat
    /\ pendOff + Len(pend) <= PendSize
    /\ unacked \in 0 .. 2 * DeferBit - 1
    /\ dirty \in BOOLEAN
    /\ pc \in {"idle", "serve", "drain", "flush", "send", "susp"}
    /\ exit \in {"none", "drain", "closed", "cancel"}
    /\ (pc = "flush") = (exit # "none")
    /\ space \in Nat
    /\ copyLen \in Nat
    /\ ret \in {"none", "OK", "HW", "CANCEL", "CLOSED", "SENDCLOSED"}
    /\ buf \in Seq(Nat)
    /\ reported \in Nat
    /\ last \in Ack
    /\ una \in Nat
    /\ edge \in Nat
    /\ sndMax \in Nat
    /\ wire \subseteq Segment \cup {Rst}
    /\ ackWire \subseteq Ack

\* What has been written to callers' buffers, followed by what is queued, is
\* the peer's stream up to RCV_NXT: every byte once, in order, none skipped,
\* across overlapping retransmits, partial stores and partial reads.
SavedInOrder ==
    /\ \A i \in 1 .. Len(buf) : buf[i] = i - 1
    /\ chOpen => /\ \A i \in 1 .. Len(pend) : pend[i] = Len(buf) + i - 1
                 /\ rcvNxt = Len(buf) + Len(pend) + FinSaved

\* No acknowledgement, on its way or at the peer, covers a byte that is not
\* in a caller's buffer or in the queue, or a FIN ahead of its payload.
AckedIsSaved ==
    chOpen => /\ una <= Len(buf) + Len(pend) + FinSaved
              /\ \A a \in ackWire : a.ack <= Len(buf) + Len(pend) + FinSaved

\* RECV reports NERR_CLOSED only when nothing saved is left, and after a FIN
\* only when the whole stream has been written to callers' buffers.
ClosedAfterData ==
    ret = "CLOSED" => /\ pend = <<>>
                           /\ tcpState = "CLOSE_WAIT" => Len(buf) = StreamLen

\* Between calls, a channel without ACK debt has told the peer everything:
\* the last ACK that left the NIC is RCV_NXT (no accepted segment is forgotten
\* by the deferred ACK, its failures and its retries).
NoDebtMeansAcked ==
    pc = "idle" /\ chOpen /\ unacked = 0 => last.ack = rcvNxt

\* Between calls, queue space the peer has not been told of is marked: with
\* neither debt nor dirty flag, the window last sent is at least the space.
FreedSpaceAnnounced ==
    pc = "idle" /\ chOpen /\ unacked = 0 /\ ~dirty =>
        last.wnd >= Window(pendOff, Len(pend), 0)

\* Bytes written to the caller's buffer and not yet accounted for by a DE.
Unreported == Len(buf) - reported - copyLen

\* Only a return of NERR_HW or NERR_CANCEL may leave bytes it wrote out of DE:
\* a successful or closing RECV reports every byte.
LossOnlyOnFailure ==
    [][Unreported' # Unreported => ret' \in {"HW", "CANCEL"}]_vars

\* A failed call leaves what it saved to the next one: it never keeps bytes it
\* took out of the queue (docs/UNETRTL.md: "A failed ACK leaves the saved bytes
\* available").  The code does not do this: RECV moves the queue into the
\* caller's buffer, and returns DE = 0 when the opening ACK then fails.
FailedCallKeepsBytes == ret = "HW" => Unreported = 0

\* While the application keeps reading, a peer that is not reset gets its
\* whole stream delivered, and the application its NERR_CLOSED: no window
\* stays closed and no side waits for an ACK that is never sent.
StreamDelivered == <>(ret = "CLOSED" /\ Len(buf) = StreamLen)
=============================================================================
