--------------------------- MODULE UnetRecv_proofs ---------------------------
(***************************************************************************)
(* Proofs about UnetRecv for every stream length, buffer size and bound:   *)
(* type correctness, the order of the delivered bytes and the honesty of   *)
(* every acknowledgement.                                                  *)
(***************************************************************************)
EXTENDS UnetRecv, SequenceTheorems, TLAPS

-----------------------------------------------------------------------------
(* Arithmetic and stretches of the peer's stream.                          *)

\* MinOf returns the smaller of two naturals.
LEMMA MinOfNat ==
    ASSUME NEW a \in Nat, NEW b \in Nat
    PROVE  /\ MinOf(a, b) \in Nat
           /\ MinOf(a, b) <= a
           /\ MinOf(a, b) <= b
           /\ MinOf(a, b) = a \/ MinOf(a, b) = b
BY DEF MinOf

\* MaxOf returns the larger of two naturals.
LEMMA MaxOfNat ==
    ASSUME NEW a \in Nat, NEW b \in Nat
    PROVE  /\ MaxOf(a, b) \in Nat
           /\ MaxOf(a, b) >= a
           /\ MaxOf(a, b) >= b
           /\ MaxOf(a, b) = a \/ MaxOf(a, b) = b
BY DEF MaxOf

\* Bytes(s, n) is a sequence of n positions.
LEMMA BytesSeq ==
    ASSUME NEW s \in Nat, NEW n \in Nat
    PROVE  /\ Bytes(s, n) \in Seq(Nat)
           /\ Len(Bytes(s, n)) = n
           /\ \A i \in 1 .. n : Bytes(s, n)[i] = s + i - 1
<1>1. Bytes(s, n) \in [1 .. n -> Nat]
  BY DEF Bytes
<1>2. Bytes(s, n) \in Seq(Nat)
  BY <1>1, SeqDef
<1>3. Len(Bytes(s, n)) = n
  BY <1>1, <1>2, LenProperties
<1>4. QED BY <1>2, <1>3 DEF Bytes

\* q is the stretch of the stream that starts at position s.
Stretch(q, s) == q \in Seq(Nat) /\ \A i \in 1 .. Len(q) : q[i] = s + i - 1

\* Bytes appended where a stretch ends extend it.
LEMMA StretchAppend ==
    ASSUME NEW s \in Nat, NEW n \in Nat, NEW q, Stretch(q, s)
    PROVE  /\ Stretch(q \o Bytes(s + Len(q), n), s)
           /\ Len(q \o Bytes(s + Len(q), n)) = Len(q) + n
<1>1. q \in Seq(Nat) /\ Len(q) \in Nat /\ s + Len(q) \in Nat
  BY LenProperties DEF Stretch
<1>2. PICK b : b = Bytes(s + Len(q), n)
  OBVIOUS
<1>3. /\ b \in Seq(Nat)
      /\ Len(b) = n
      /\ \A i \in 1 .. n : b[i] = s + Len(q) + i - 1
  BY <1>1, <1>2, BytesSeq
<1>4. /\ q \o b \in Seq(Nat)
      /\ Len(q \o b) = Len(q) + n
      /\ \A i \in 1 .. Len(q) + n : (q \o b)[i] = IF i <= Len(q) THEN q[i] ELSE b[i - Len(q)]
  BY <1>1, <1>3, ConcatProperties
<1>5. ASSUME NEW i \in 1 .. Len(q) + n
      PROVE  (q \o b)[i] = s + i - 1
  <2>1. CASE i <= Len(q)
    BY <1>1, <1>4, <2>1 DEF Stretch
  <2>2. CASE ~(i <= Len(q))
    <3>1. i - Len(q) \in 1 .. n
      BY <1>1, <2>2
    <3>2. b[i - Len(q)] = s + Len(q) + (i - Len(q)) - 1
      BY <1>3, <3>1
    <3>3. (q \o b)[i] = b[i - Len(q)]
      BY <1>1, <1>4, <2>2
    <3>4. QED BY <1>1, <3>2, <3>3
  <2>3. QED BY <2>1, <2>2
<1>6. QED BY <1>2, <1>4, <1>5 DEF Stretch

\* Moving the first k bytes from the stretch p to the end of the stretch q
\* that p continues leaves two stretches of the same total length.
LEMMA StretchMove ==
    ASSUME NEW s \in Nat, NEW q, NEW p, Stretch(q, s), Stretch(p, s + Len(q)),
           NEW k \in 0 .. Len(p)
    PROVE  /\ Stretch(q \o SubSeq(p, 1, k), s)
           /\ Len(q \o SubSeq(p, 1, k)) = Len(q) + k
           /\ Stretch(SubSeq(p, k + 1, Len(p)), s + Len(q) + k)
           /\ Len(SubSeq(p, k + 1, Len(p))) = Len(p) - k
<1>1. /\ q \in Seq(Nat) /\ Len(q) \in Nat
      /\ p \in Seq(Nat) /\ Len(p) \in Nat
      /\ \A i \in 1 .. Len(p) : p[i] \in Nat
  BY LenProperties, ElementOfSeq DEF Stretch
<1>2. /\ SubSeq(p, 1, k) \in Seq(Nat)
      /\ Len(SubSeq(p, 1, k)) = k
      /\ \A i \in 1 .. k : SubSeq(p, 1, k)[i] = p[i]
  BY <1>1, SubSeqProperties
<1>3. /\ SubSeq(p, k + 1, Len(p)) \in Seq(Nat)
      /\ Len(SubSeq(p, k + 1, Len(p))) = Len(p) - k
      /\ \A i \in 1 .. Len(p) - k : SubSeq(p, k + 1, Len(p))[i] = p[k + i]
  BY <1>1, SubSeqProperties
<1>4. Stretch(SubSeq(p, k + 1, Len(p)), s + Len(q) + k)
  BY <1>1, <1>3 DEF Stretch
<1>5. SubSeq(p, 1, k) = Bytes(s + Len(q), k)
  <2>1. \A i \in 1 .. k : SubSeq(p, 1, k)[i] = s + Len(q) + i - 1
    BY <1>1, <1>2 DEF Stretch
  <2>2. \A i \in 1 .. k : SubSeq(p, 1, k)[i] = Bytes(s + Len(q), k)[i]
    BY <1>1, <2>1, BytesSeq
  <2>3. /\ Bytes(s + Len(q), k) \in Seq(Nat)
        /\ Len(Bytes(s + Len(q), k)) = k
    BY <1>1, BytesSeq
  <2>4. QED BY <1>2, <2>2, <2>3, SeqEqual
<1>6. /\ Stretch(q \o Bytes(s + Len(q), k), s)
      /\ Len(q \o Bytes(s + Len(q), k)) = Len(q) + k
  BY <1>1, StretchAppend
<1>7. QED BY <1>3, <1>4, <1>5, <1>6

\* The defer flag and the debt stay a byte.
\* The debt stays below the defer flag, the lowest bit set or not.
LEMMA FlushBelow ==
    ASSUME unacked % DeferBit \in 0 .. DeferBit - 1
    PROVE  /\ FlushDebt \in 0 .. DeferBit - 1
           /\ FlushDebt = 0 => unacked % DeferBit = 0 /\ ~dirty
<1> DEFINE d == unacked % DeferBit
<1>1. d \in 0 .. DeferBit - 1 /\ DeferBit \in Nat /\ DeferBit % 2 = 0
  BY ConstantsAssumption
<1>2. FlushDebt = IF dirty /\ d % 2 = 0 THEN d + 1 ELSE d
  BY DEF FlushDebt
<1> HIDE DEF d
<1>3. d % 2 = 0 => d # DeferBit - 1 /\ d + 1 \in 0 .. DeferBit - 1
  BY <1>1
<1>4. CASE dirty /\ d % 2 = 0
  BY <1>1, <1>2, <1>3, <1>4
<1>5. CASE ~(dirty /\ d % 2 = 0)
  <2>1. FlushDebt = d /\ (d = 0 => ~dirty)
    BY <1>2, <1>5
  <2>2. QED BY <1>1, <2>1 DEF d
<1>6. QED BY <1>4, <1>5

LEMMA DebtRange ==
    ASSUME NEW u \in 0 .. 2 * DeferBit - 1, unacked \in 0 .. 2 * DeferBit - 1
    PROVE  /\ u % DeferBit \in 0 .. DeferBit - 1
           /\ IncDebt(u) \in 0 .. 2 * DeferBit - 1
           /\ Scope(u) \in 0 .. 2 * DeferBit - 1
           /\ FlushDebt \in 0 .. 2 * DeferBit - 1
<1>1. DeferBit \in Nat /\ DeferBit > 0 /\ 2 * DeferBit > 0
  BY ConstantsAssumption
<1>2. \A a \in Int, d \in Int : d > 0 => a % d \in 0 .. d - 1
  OBVIOUS
<1>3. u % DeferBit \in 0 .. DeferBit - 1 /\ unacked % DeferBit \in 0 .. DeferBit - 1
  BY <1>1, <1>2
<1>4. IncDebt(u) \in 0 .. 2 * DeferBit - 1
  BY <1>1, <1>2 DEF IncDebt
<1>5. Scope(u) \in 0 .. 2 * DeferBit - 1
  BY <1>1 DEF Scope
<1>6. FlushDebt \in 0 .. 2 * DeferBit - 1
  BY <1>1, <1>3, FlushBelow
<1>7. QED BY <1>3, <1>4, <1>5, <1>6

-----------------------------------------------------------------------------
(* The inductive invariant.                                                *)

\* Between a caller's entry and its return the channel is open, and the drain
\* starts only with an empty queue.
PhaseInv ==
    /\ pc # "idle" => chOpen
    /\ pc = "drain" => pend = <<>>

\* The FIN is the position after the last byte, in the receiver and in every
\* segment: only a segment that ends the stream carries it, and nothing but an
\* empty acknowledgement follows it.
FinInv ==
    /\ tcpState = "CLOSE_WAIT" => rcvNxt = StreamLen + 1
    /\ \A m \in wire \ {Rst} :
          /\ m.fin => m.seq + m.len = StreamLen
          /\ m.seq + m.len <= StreamLen \/ (m.len = 0 /\ m.seq = StreamLen + 1)

\* What SavedInOrder says, with the queue continuing the buffer as a stretch.
StreamInv ==
    /\ Stretch(buf, 0)
    /\ chOpen => /\ Stretch(pend, Len(buf))
                 /\ rcvNxt = Len(buf) + Len(pend) + FinSaved

\* No acknowledgement is ahead of RCV_NXT.
AckInv ==
    /\ una <= rcvNxt
    /\ \A a \in ackWire : a.ack <= rcvNxt

IInv == TypeOK /\ PhaseInv /\ FinInv /\ StreamInv /\ AckInv

\* The lengths the invariant speaks of are naturals.
LEMMA Lengths ==
    ASSUME IInv
    PROVE  /\ Len(buf) \in Nat
           /\ Len(pend) \in Nat
           /\ FinSaved \in {0, 1}
BY LenProperties DEF IInv, TypeOK, FinSaved

\* A queue that fits leaves a natural capacity and window.
LEMMA WindowNat ==
    ASSUME NEW off \in Nat, NEW len \in Nat, NEW lent \in Nat,
           off + len <= PendSize
    PROVE  /\ Capacity(off, len, lent) \in Nat
           /\ Window(off, len, lent) \in Nat
<1>1. PendSize \in Nat /\ WinCap \in Nat
  BY ConstantsAssumption
<1>2. Capacity(off, len, lent) \in Nat
  BY <1>1 DEF Capacity
<1>3. QED BY <1>1, <1>2, MinOfNat DEF Window

\* A transmission adds at most the acknowledgement it carries.
LEMMA EmitAck ==
    ASSUME TypeOK, NEW ok, NEW n \in Nat, NEW wnd \in Nat, Emit(ok, n, wnd)
    PROVE  /\ last' \in Ack
           /\ ackWire' \subseteq Ack
           /\ \A a \in ackWire' : a \in ackWire \/ a.ack = n
<1> DEFINE new == [ack |-> n, wnd |-> wnd]
<1>1. new \in Ack /\ new.ack = n
  BY DEF Ack
<1>2. last \in Ack /\ ackWire \subseteq Ack
  BY DEF TypeOK
<1>3. CASE ok
  BY <1>1, <1>2, <1>3 DEF Emit
<1>4. CASE ~ok
  BY <1>2, <1>4 DEF Emit, txVars
<1>5. QED BY <1>3, <1>4

\* FLUSH_RECV_ACK acknowledges RCV_NXT or nothing.
LEMMA FlushAck ==
    ASSUME IInv, NEW ok, Flush(ok)
    PROVE  /\ dirty' \in BOOLEAN
           /\ unacked' \in 0 .. 2 * DeferBit - 1
           /\ last' \in Ack
           /\ ackWire' \subseteq Ack
           /\ \A a \in ackWire' : a.ack <= rcvNxt
<1>1. /\ TypeOK /\ rcvNxt \in Nat /\ unacked \in 0 .. 2 * DeferBit - 1
      /\ last \in Ack /\ ackWire \subseteq Ack
      /\ \A a \in ackWire : a.ack <= rcvNxt
  BY DEF IInv, TypeOK, AckInv
<1>2. Window(pendOff, Len(pend), 0) \in Nat
  BY Lengths, WindowNat DEF IInv, TypeOK
<1>3. /\ FlushDebt \in 0 .. 2 * DeferBit - 1
      /\ 0 \in 0 .. 2 * DeferBit - 1
  BY <1>1, DebtRange, ConstantsAssumption
<1>4. CASE FlushDebt = 0
  BY <1>1, <1>3, <1>4 DEF Flush, txVars
<1>5. CASE FlushDebt # 0
  <2>1. Emit(ok, rcvNxt, Window(pendOff, Len(pend), 0))
    BY <1>5 DEF Flush
  <2>2. /\ last' \in Ack /\ ackWire' \subseteq Ack
        /\ \A a \in ackWire' : a \in ackWire \/ a.ack = rcvNxt
    BY <1>1, <1>2, <2>1, EmitAck
  <2>3. \A a \in ackWire' : a.ack <= rcvNxt
    BY <1>1, <2>2
  <2>4. dirty' = FALSE /\ (unacked' = 0 \/ unacked' = FlushDebt)
    BY <1>5 DEF Flush
  <2>5. QED BY <1>3, <2>2, <2>3, <2>4
<1>6. QED BY <1>4, <1>5

-----------------------------------------------------------------------------
(* The initial state, the peer and the network.                            *)

LEMMA InitIInv == Init => IInv
<1> SUFFICES ASSUME Init PROVE IInv
  OBVIOUS
<1>1. Window(0, 0, 0) \in Nat
  BY WindowNat, ConstantsAssumption, 0 + 0 <= PendSize
<1>2. MinOf(Window(0, 0, 0), StreamLen) \in Nat
  BY <1>1, MinOfNat, ConstantsAssumption
<1>3. <<>> \in Seq(Nat) /\ Len(<<>>) = 0
  BY EmptySeq
<1>4. TypeOK
  <2>1. last \in Ack
    BY <1>1 DEF Init, Ack
  <2>2. 0 \in 0 .. 2 * DeferBit - 1 /\ PendSize \in Nat
    BY ConstantsAssumption
  <2>3. pendOff + Len(pend) <= PendSize
    BY <1>3, <2>2 DEF Init
  <2>4. QED BY <1>2, <1>3, <2>1, <2>2, <2>3 DEF Init, TypeOK
<1>5. StreamInv
  BY <1>3 DEF Init, StreamInv, Stretch, FinSaved
<1>6. PhaseInv /\ FinInv /\ AckInv
  BY DEF Init, PhaseInv, FinInv, AckInv
<1>7. QED BY <1>4, <1>5, <1>6 DEF IInv

\* What a step that leaves the receiver's state alone must still show.
LEMMA QuietStep ==
    ASSUME IInv,
           UNCHANGED <<tcpVars, chanVars, callVars, histVars>>,
           last' \in Ack, una' \in Nat, edge' \in Nat, sndMax' \in Nat,
           wire' \subseteq Segment \cup {Rst}, ackWire' \subseteq Ack,
           AckInv', FinInv'
    PROVE  IInv'
<1>1. TypeOK'
  BY DEF IInv, TypeOK, tcpVars, chanVars, callVars, histVars
<1>2. PhaseInv' /\ StreamInv'
  BY DEF IInv, PhaseInv, StreamInv, FinSaved, tcpVars, chanVars, callVars, histVars
<1>3. QED BY <1>1, <1>2 DEF IInv

LEMMA PeerSendStep == IInv /\ PeerSendAny => IInv'
<1> SUFFICES ASSUME IInv, NEW s \in 0 .. sndMax, NEW n \in 0 .. MaxSeg,
                    NEW fin \in BOOLEAN, NEW arrives \in BOOLEAN,
                    PeerSend(s, n, fin, arrives)
             PROVE  IInv'
  BY DEF PeerSendAny
<1> DEFINE m == [kind |-> "seg", seq |-> s, len |-> n, fin |-> fin]
<1>1. s \in Nat /\ n \in Nat /\ sndMax \in Nat
  BY ConstantsAssumption DEF IInv, TypeOK
<1>2. m \in Segment /\ m.seq = s /\ m.len = n /\ m.fin = fin
  BY <1>1 DEF Segment
<1>3. wire' \subseteq wire \cup {m}
  BY DEF PeerSend
<1>4. wire' \subseteq Segment \cup {Rst}
  BY <1>2, <1>3 DEF IInv, TypeOK
<1>5. s + n + (IF fin THEN 1 ELSE 0) \in Nat
  BY <1>1
<1>6. sndMax' \in Nat
  BY <1>1, <1>5, MaxOfNat DEF PeerSend
<1>7. /\ m.fin => m.seq + m.len = StreamLen
      /\ m.seq + m.len <= StreamLen \/ (m.len = 0 /\ m.seq = StreamLen + 1)
  BY <1>2 DEF PeerSend
<1>8. FinInv'
  BY <1>3, <1>7 DEF IInv, FinInv, PeerSend, tcpVars
<1>9. AckInv'
  BY DEF IInv, AckInv, PeerSend, tcpVars, txVars
<1>10. /\ UNCHANGED <<tcpVars, chanVars, callVars, histVars>>
       /\ last' \in Ack /\ una' \in Nat /\ edge' \in Nat /\ ackWire' \subseteq Ack
  BY DEF IInv, TypeOK, PeerSend, txVars
<1>11. QED BY <1>4, <1>6, <1>8, <1>9, <1>10, QuietStep

LEMMA PeerResetStep == IInv /\ PeerReset => IInv'
<1> SUFFICES ASSUME IInv, PeerReset PROVE IInv'
  OBVIOUS
<1>1. wire' = wire \cup {Rst} /\ wire' \ {Rst} \subseteq wire \ {Rst}
  BY DEF PeerReset
<1>2. wire' \subseteq Segment \cup {Rst}
  BY <1>1 DEF IInv, TypeOK
<1>3. FinInv'
  BY <1>1 DEF IInv, FinInv, PeerReset, tcpVars
<1>4. AckInv'
  BY DEF IInv, AckInv, PeerReset, tcpVars, txVars, peerVars
<1>5. /\ UNCHANGED <<tcpVars, chanVars, callVars, histVars>>
      /\ last' \in Ack /\ una' \in Nat /\ edge' \in Nat /\ sndMax' \in Nat
      /\ ackWire' \subseteq Ack
  BY DEF IInv, TypeOK, PeerReset, txVars, peerVars
<1>6. QED BY <1>2, <1>3, <1>4, <1>5, QuietStep

LEMMA PeerAckStep == \A a \in ackWire : IInv /\ PeerAck(a) => IInv'
<1> SUFFICES ASSUME IInv, NEW a \in ackWire, PeerAck(a) PROVE IInv'
  OBVIOUS
<1>1. /\ a.ack \in Nat /\ a.wnd \in Nat
      /\ una \in Nat /\ edge \in Nat /\ rcvNxt \in Nat
      /\ una <= rcvNxt /\ a.ack <= rcvNxt
  BY DEF IInv, TypeOK, AckInv, Ack
<1>2. una' \in Nat /\ una' <= rcvNxt
  BY <1>1, MaxOfNat DEF PeerAck
<1>3. a.ack + a.wnd \in Nat /\ StreamLen \in Nat
  BY <1>1, ConstantsAssumption
<1>4. edge' \in Nat
  BY <1>1, <1>3, MinOfNat DEF PeerAck
<1>5. ackWire' \subseteq ackWire
  BY DEF PeerAck
<1>6. AckInv'
  BY <1>2, <1>5 DEF IInv, AckInv, PeerAck, tcpVars
<1>7. FinInv'
  BY DEF IInv, FinInv, PeerAck, tcpVars
<1>8. /\ UNCHANGED <<tcpVars, chanVars, callVars, histVars>>
      /\ last' \in Ack /\ sndMax' \in Nat
      /\ wire' \subseteq Segment \cup {Rst} /\ ackWire' \subseteq Ack
  BY <1>5 DEF IInv, TypeOK, PeerAck
<1>9. QED BY <1>2, <1>4, <1>6, <1>7, <1>8, QuietStep

LEMMA LoseAckStep == IInv /\ LoseAck => IInv'
<1> SUFFICES ASSUME IInv, LoseAck PROVE IInv'
  OBVIOUS
<1>1. ackWire' \subseteq ackWire
  BY DEF LoseAck
<1>2. AckInv'
  BY <1>1 DEF IInv, AckInv, LoseAck, tcpVars, peerVars
<1>3. FinInv'
  BY DEF IInv, FinInv, LoseAck, tcpVars
<1>4. /\ UNCHANGED <<tcpVars, chanVars, callVars, histVars>>
      /\ last' \in Ack /\ una' \in Nat /\ edge' \in Nat /\ sndMax' \in Nat
      /\ wire' \subseteq Segment \cup {Rst} /\ ackWire' \subseteq Ack
  BY <1>1 DEF IInv, TypeOK, LoseAck, peerVars
<1>5. QED BY <1>2, <1>3, <1>4, QuietStep

-----------------------------------------------------------------------------
(* RECV from its entry to its return.                                      *)

LEMMA RecvEnterStep ==
    ASSUME IInv, NEW size \in CallSizes, NEW ok \in BOOLEAN, RecvEnter(size, ok)
    PROVE  IInv'
<1>1. /\ dirty' \in BOOLEAN /\ unacked' \in 0 .. 2 * DeferBit - 1
      /\ last' \in Ack /\ ackWire' \subseteq Ack
      /\ \A a \in ackWire' : a.ack <= rcvNxt
  BY FlushAck DEF RecvEnter
<1>2. size \in Nat /\ exit = "none" /\ chOpen
  BY ConstantsAssumption DEF IInv, TypeOK, RecvEnter
<1>3. TypeOK'
  BY <1>1, <1>2 DEF IInv, TypeOK, RecvEnter, Return, peerVars
<1>4. AckInv'
  BY <1>1 DEF IInv, AckInv, RecvEnter, peerVars
<1>5. StreamInv' /\ FinInv'
  BY DEF IInv, StreamInv, FinInv, FinSaved, RecvEnter
<1>6. PhaseInv'
  BY <1>2 DEF IInv, PhaseInv, RecvEnter, Return
<1>7. QED BY <1>3, <1>4, <1>5, <1>6 DEF IInv

\* COPY_PENDING moves bytes from the queue to the caller: nothing is lost,
\* doubled or reordered, and the queue still fits behind its offset.
LEMMA CopyPendingKeeps ==
    ASSUME IInv, chOpen, NEW n \in Nat, CopyPending(n)
    PROVE  LET k == MinOf(Len(pend), n)
           IN  /\ k \in Nat /\ k <= n
               /\ Stretch(buf', 0)
               /\ Stretch(pend', Len(buf'))
               /\ Len(buf') + Len(pend') = Len(buf) + Len(pend)
               /\ Len(pend') = Len(pend) - k
               /\ Len(pend') \in Nat
               /\ buf' \in Seq(Nat) /\ pend' \in Seq(Nat)
               /\ pendOff' \in Nat
               /\ pendOff' + Len(pend') <= PendSize
               /\ dirty' \in BOOLEAN
<1> DEFINE k == MinOf(Len(pend), n)
<1>1. /\ Len(buf) \in Nat /\ Len(pend) \in Nat
      /\ pendOff \in Nat /\ pendOff + Len(pend) <= PendSize
      /\ PendSize \in Nat /\ dirty \in BOOLEAN
  BY Lengths, ConstantsAssumption DEF IInv, TypeOK
<1>2. k \in Nat /\ k <= n /\ k <= Len(pend)
  BY <1>1, MinOfNat
<1>3. Stretch(buf, 0) /\ Stretch(pend, 0 + Len(buf)) /\ k \in 0 .. Len(pend)
  BY <1>1, <1>2 DEF IInv, StreamInv
<1>4. /\ buf' = buf \o SubSeq(pend, 1, k)
      /\ pend' = SubSeq(pend, k + 1, Len(pend))
      /\ pendOff' = IF k = Len(pend) THEN 0 ELSE pendOff + k
      /\ dirty' = (dirty \/ k > 0)
  BY DEF CopyPending
<1> HIDE DEF k
<1>5. /\ Stretch(buf \o SubSeq(pend, 1, k), 0)
      /\ Len(buf \o SubSeq(pend, 1, k)) = Len(buf) + k
      /\ Stretch(SubSeq(pend, k + 1, Len(pend)), 0 + Len(buf) + k)
      /\ Len(SubSeq(pend, k + 1, Len(pend))) = Len(pend) - k
  BY <1>3, StretchMove
<1>6. /\ Stretch(buf', 0) /\ Len(buf') = Len(buf) + k
      /\ Stretch(pend', 0 + Len(buf) + k) /\ Len(pend') = Len(pend) - k
  BY <1>4, <1>5
<1>7. 0 + Len(buf) + k = Len(buf')
  BY <1>1, <1>2, <1>6
<1>8. Stretch(pend', Len(buf'))
  BY <1>6, <1>7
<1>9. buf' \in Seq(Nat) /\ pend' \in Seq(Nat)
  BY <1>6 DEF Stretch
<1>10. Len(buf') + Len(pend') = Len(buf) + Len(pend)
  BY <1>1, <1>2, <1>6
<1>11. pendOff' \in Nat /\ pendOff' + Len(pend') <= PendSize
  <2>1. CASE k = Len(pend)
    BY <1>1, <1>4, <1>6, <2>1
  <2>2. CASE k # Len(pend)
    <3>1. pendOff' = pendOff + k /\ Len(pend') = Len(pend) - k
      BY <1>4, <1>6, <2>2
    <3>2. QED BY <1>1, <1>2, <3>1
  <2>3. QED BY <2>1, <2>2
<1>12. dirty' \in BOOLEAN
  BY <1>1, <1>4
<1>13. Len(pend') \in Nat
  BY <1>1, <1>2, <1>6
<1>14. QED BY <1>2, <1>6, <1>13, <1>8, <1>9, <1>10, <1>11, <1>12 DEF k

LEMMA RecvServeStep ==
    ASSUME IInv, NEW ok \in BOOLEAN, RecvServe(ok)
    PROVE  IInv'
<1>1. /\ chOpen /\ chOpen' /\ pc = "serve" /\ exit = "none" /\ space \in Nat
      /\ CopyPending(space)
      /\ rcvNxt \in Nat /\ rcvNxt' = rcvNxt /\ tcpState' = tcpState
  BY DEF IInv, TypeOK, PhaseInv, RecvServe
<1>2. PICK k \in Nat : /\ k = MinOf(Len(pend), space) /\ k <= space
                       /\ Stretch(buf', 0) /\ Stretch(pend', Len(buf'))
                       /\ Len(buf') + Len(pend') = Len(buf) + Len(pend)
                       /\ Len(pend') = Len(pend) - k /\ Len(pend') \in Nat
                       /\ buf' \in Seq(Nat) /\ pend' \in Seq(Nat)
                       /\ pendOff' \in Nat /\ pendOff' + Len(pend') <= PendSize
                       /\ dirty' \in BOOLEAN
  BY <1>1, CopyPendingKeeps
<1>3. Len(pend') \in Nat /\ space - k \in Nat
  <2>1. space \in Nat /\ k \in Nat /\ k <= space
    BY <1>1, <1>2
  <2>2. space - k \in Nat
    BY <2>1
  <2>3. QED BY <1>2, <2>2
<1>4. Window(pendOff', Len(pend'), space - k) \in Nat
  BY <1>2, <1>3, WindowNat
<1>5. StreamInv'
  BY <1>1, <1>2 DEF IInv, StreamInv, FinSaved
<1>6. FinInv'
  BY DEF IInv, FinInv, RecvServe
<1>7. CASE space = k \/ closed
  <2>1. /\ pc' = "flush" /\ exit' \in {"drain", "closed"}
        /\ space' = space - k /\ copyLen' = k
        /\ UNCHANGED <<unacked, ret, reported, txVars>>
    BY <1>2, <1>7 DEF RecvServe, ServeExit, GoFlush
  <2>2. TypeOK'
    BY <1>1, <1>2, <1>3, <2>1 DEF IInv, TypeOK, RecvServe, txVars, peerVars
  <2>3. PhaseInv' /\ AckInv'
    BY <1>1, <2>1 DEF IInv, PhaseInv, AckInv, RecvServe, txVars, peerVars
  <2>4. QED BY <1>5, <1>6, <2>2, <2>3 DEF IInv
<1>8. CASE ~(space = k \/ closed)
  <2>1. Emit(ok, rcvNxt, Window(pendOff', Len(pend'), space - k))
    BY <1>2, <1>8 DEF RecvServe
  <2>2. /\ last' \in Ack /\ ackWire' \subseteq Ack
        /\ \A a \in ackWire' : a \in ackWire \/ a.ack = rcvNxt
    BY <1>1, <1>4, <2>1, EmitAck DEF IInv
  <2>3. AckInv'
    BY <1>1, <2>2 DEF IInv, AckInv, RecvServe, peerVars
  <2>4. CASE ok
    <3>1. /\ pc' = "drain" /\ space' = space - k /\ copyLen' = k
          /\ unacked' = (unacked % DeferBit) + DeferBit
          /\ UNCHANGED <<exit, ret, reported>>
      BY <1>2, <1>8, <2>4 DEF RecvServe
    <3>2. unacked' \in 0 .. 2 * DeferBit - 1
      BY <3>1, DebtRange, ConstantsAssumption DEF IInv, TypeOK
    <3>3. TypeOK'
      BY <1>1, <1>2, <1>3, <2>2, <3>1, <3>2 DEF IInv, TypeOK, RecvServe, peerVars
    <3>4. Len(pend') = 0
      BY <1>1, <1>2, <1>3, <1>8, Lengths DEF MinOf
    <3>5. PhaseInv'
      BY <1>1, <1>2, <3>4, EmptySeq DEF PhaseInv
    <3>6. QED BY <1>5, <1>6, <2>3, <3>3, <3>5 DEF IInv
  <2>5. CASE ~ok
    <3>1. Return("HW", 0) /\ UNCHANGED unacked
      BY <1>2, <1>8, <2>5 DEF RecvServe
    <3>2. /\ ret' = "HW" /\ reported' = reported + 0 /\ copyLen' = 0
          /\ space' = 0 /\ pc' = "idle" /\ exit' = "none" /\ unacked' = unacked
          /\ UNCHANGED <<rcvNxt, tcpState, chOpen, closed, una, edge, sndMax, wire>>
      BY <3>1 DEF Return, RecvServe, peerVars
    <3>3. TypeOK'
      <4>1. reported' \in Nat
        BY <3>2 DEF IInv, TypeOK
      <4>2. (pc' = "flush") = (exit' # "none")
        BY <3>2
      <4>3. QED BY <1>2, <2>2, <3>2, <4>1, <4>2 DEF IInv, TypeOK
    <3>4. PhaseInv'
      BY <3>2 DEF PhaseInv
    <3>5. QED BY <1>5, <1>6, <2>3, <3>3, <3>4 DEF IInv
  <2>6. QED BY <2>4, <2>5
<1>9. QED BY <1>7, <1>8

LEMMA RecvSuspendedStep ==
    ASSUME IInv, NEW size \in CallSizes, RecvSuspended(size)
    PROVE  IInv'
<1>1. /\ size \in Nat /\ chOpen /\ chOpen' /\ CopyPending(size)
      /\ pc = "susp" /\ pc' = "susp"
      /\ rcvNxt' = rcvNxt /\ tcpState' = tcpState
  BY ConstantsAssumption DEF IInv, PhaseInv, RecvSuspended, tcpVars
<1>2. PICK k \in Nat : /\ k = MinOf(Len(pend), size)
                       /\ Stretch(buf', 0) /\ Stretch(pend', Len(buf'))
                       /\ Len(buf') + Len(pend') = Len(buf) + Len(pend)
                       /\ buf' \in Seq(Nat) /\ pend' \in Seq(Nat)
                       /\ pendOff' \in Nat /\ pendOff' + Len(pend') <= PendSize
                       /\ dirty' \in BOOLEAN
  BY <1>1, CopyPendingKeeps
<1>3. reported' = reported + k /\ ret' = "OK"
  BY <1>2 DEF RecvSuspended
<1>4. TypeOK'
  <2>1. UNCHANGED <<tcpVars, chOpen, closed, pc, exit, space, copyLen, txVars,
                    peerVars, wire>>
    BY DEF RecvSuspended
  <2>2. UNCHANGED <<rcvNxt, tcpState, unacked, chOpen, closed, pc, exit, space,
                    copyLen, last, ackWire, una, edge, sndMax, wire>>
    BY <2>1 DEF tcpVars, txVars, peerVars
  <2>3. pendOff' + Len(pend') <= PendSize
    BY <1>2
  <2>7. reported' \in Nat
    <3>1. reported \in Nat
      BY DEF IInv, TypeOK
    <3>2. QED BY <1>2, <1>3, <3>1
  <2>4. /\ buf' \in Seq(Nat) /\ pend' \in Seq(Nat) /\ pendOff' \in Nat
        /\ dirty' \in BOOLEAN /\ ret' = "OK"
    BY <1>2, <1>3
  <2>5. TypeOK
    BY DEF IInv
  <2>6. QED BY <2>2, <2>3, <2>4, <2>5, <2>7 DEF TypeOK
<1>5. StreamInv'
  BY <1>1, <1>2 DEF IInv, StreamInv, FinSaved
<1>6. PhaseInv'
  BY <1>1 DEF PhaseInv
<1>7. FinInv' /\ AckInv'
  BY DEF IInv, FinInv, AckInv, RecvSuspended, tcpVars, txVars, peerVars
<1>8. QED BY <1>4, <1>5, <1>6, <1>7 DEF IInv

LEMMA RecvWaitEnds ==
    ASSUME IInv, RecvTimeout \/ RecvCancel
    PROVE  IInv'
<1>1. /\ pc = "drain" /\ pc' = "flush" /\ exit' \in {"drain", "cancel"}
      /\ UNCHANGED <<tcpVars, chanVars, space, copyLen, ret, histVars, txVars,
                     peerVars, wire>>
  BY DEF RecvTimeout, RecvCancel, GoFlush
<1>2. TypeOK'
  BY <1>1 DEF IInv, TypeOK, tcpVars, chanVars, histVars, txVars, peerVars
<1>3. PhaseInv' /\ FinInv' /\ StreamInv' /\ AckInv'
  BY <1>1 DEF IInv, PhaseInv, FinInv, StreamInv, FinSaved, AckInv,
              tcpVars, chanVars, histVars, txVars, peerVars
<1>4. QED BY <1>2, <1>3 DEF IInv

LEMMA RecvExitStep ==
    ASSUME IInv, NEW ok \in BOOLEAN, RecvExit(ok)
    PROVE  IInv'
<1>1. /\ dirty' \in BOOLEAN /\ unacked' \in 0 .. 2 * DeferBit - 1
      /\ last' \in Ack /\ ackWire' \subseteq Ack
      /\ \A a \in ackWire' : a.ack <= rcvNxt
  BY FlushAck DEF RecvExit
<1>2. /\ exit \in {"drain", "closed", "cancel"}
      /\ UNCHANGED <<rcvNxt, tcpState, pend, pendOff, buf, peerVars, wire>>
  BY DEF IInv, TypeOK, RecvExit
<1>3. /\ chOpen' \in BOOLEAN /\ closed' \in BOOLEAN
      /\ chOpen' => chOpen
      /\ \E code \in {"OK", "HW", "CANCEL", "CLOSED"}, n \in {0, copyLen} : Return(code, n)
  <2>1. CASE exit = "drain"
    BY <2>1 DEF IInv, TypeOK, RecvExit
  <2>2. CASE exit = "closed"
    BY <2>2 DEF IInv, TypeOK, RecvExit
  <2>3. CASE exit = "cancel"
    BY <2>3 DEF IInv, TypeOK, RecvExit
  <2>4. QED BY <1>2, <2>1, <2>2, <2>3
<1>4. /\ pc' = "idle" /\ exit' = "none" /\ copyLen' = 0 /\ space' = 0
      /\ ret' \in {"OK", "HW", "CANCEL", "CLOSED"}
      /\ reported' \in Nat
  BY <1>3 DEF IInv, TypeOK, Return
<1>5. TypeOK'
  BY <1>1, <1>2, <1>3, <1>4 DEF IInv, TypeOK, peerVars
<1>6. AckInv'
  BY <1>1, <1>2 DEF IInv, AckInv, peerVars
<1>7. PhaseInv' /\ FinInv' /\ StreamInv'
  BY <1>2, <1>3, <1>4 DEF IInv, PhaseInv, FinInv, StreamInv, FinSaved
<1>8. QED BY <1>5, <1>6, <1>7 DEF IInv

-----------------------------------------------------------------------------
(* One frame of the peer.                                                  *)

\* Where a segment leaves the caller: a drain goes on only if its buffer still
\* has room or nothing was stored.
LEMMA AfterSegmentPhase ==
    ASSUME IInv, InRecv, NEW n, NEW failed \in BOOLEAN, AfterSegment(n, failed)
    PROVE  /\ pc' \in {"idle", "drain", "flush", "send"}
           /\ exit' \in {"none", "drain", "closed", "cancel"}
           /\ (pc' = "flush") = (exit' # "none")
           /\ pc' = "drain" => pc = "drain" /\ ~(n > 0 /\ space' = 0)
<1>1. pc \in {"drain", "send", "idle"} /\ exit = "none"
  BY DEF IInv, TypeOK, InRecv
<1>2. CASE pc = "drain"
  <2>1. CASE tcpState' = "CLOSE_WAIT"
    BY <1>2, <2>1 DEF AfterSegment, GoFlush
  <2>2. CASE tcpState' # "CLOSE_WAIT" /\ (failed \/ (n > 0 /\ space' = 0))
    BY <1>2, <2>2 DEF AfterSegment, GoFlush
  <2>3. CASE tcpState' # "CLOSE_WAIT" /\ ~(failed \/ (n > 0 /\ space' = 0))
    BY <1>1, <1>2, <2>3 DEF AfterSegment
  <2>4. QED BY <2>1, <2>2, <2>3
<1>3. CASE pc = "send"
  <2>1. CASE failed \/ tcpState' = "CLOSE_WAIT"
    BY <1>1, <1>3, <2>1 DEF AfterSegment
  <2>2. CASE ~failed /\ tcpState' # "CLOSE_WAIT"
    BY <1>1, <1>3, <2>2 DEF AfterSegment
  <2>3. QED BY <2>1, <2>2
<1>4. CASE pc = "idle"
  BY <1>1, <1>4 DEF AfterSegment
<1>5. QED BY <1>1, <1>2, <1>3, <1>4

\* An empty stretch of bytes is the same wherever it starts.
LEMMA BytesNone ==
    ASSUME NEW s \in Nat, NEW t \in Nat
    PROVE  Bytes(s, 0) = Bytes(t, 0)
<1>1. /\ Bytes(s, 0) \in Seq(Nat) /\ Len(Bytes(s, 0)) = 0
      /\ Bytes(t, 0) \in Seq(Nat) /\ Len(Bytes(t, 0)) = 0
  BY BytesSeq
<1>2. QED BY <1>1, SeqEqual

\* What an acceptable segment brings: the new bytes follow RCV_NXT, and once
\* the FIN is in, there are none.
LEMMA SegmentGeometry ==
    ASSUME IInv, NEW m \in wire \ {Rst}, InOrder(m)
    PROVE  /\ NewBytes(m) \in Nat
           /\ rcvNxt + NewBytes(m) = m.seq + m.len
           /\ FirstNew(m) = rcvNxt
           /\ tcpState = "CLOSE_WAIT" => NewBytes(m) = 0 /\ ~m.fin
           /\ m.fin => m.seq + m.len = StreamLen
<1>1. m \in Segment
  BY DEF IInv, TypeOK
<1>2. m.seq \in Nat /\ m.len \in Nat /\ m.fin \in BOOLEAN /\ rcvNxt \in Nat /\ StreamLen \in Nat
  BY <1>1, ConstantsAssumption DEF Segment, IInv, TypeOK
<1>3. /\ m.fin => m.seq + m.len = StreamLen
      /\ m.seq + m.len <= StreamLen \/ (m.len = 0 /\ m.seq = StreamLen + 1)
      /\ tcpState = "CLOSE_WAIT" => rcvNxt = StreamLen + 1
  BY DEF IInv, FinInv
<1>4. /\ m.seq <= rcvNxt
      /\ \/ m.seq = rcvNxt
         \/ rcvNxt - m.seq < m.len
         \/ rcvNxt - m.seq = m.len /\ tcpState # "CLOSE_WAIT"
  BY DEF InOrder, Delta
<1>5. NewBytes(m) = m.len - (rcvNxt - m.seq) /\ FirstNew(m) = m.seq + (rcvNxt - m.seq)
  BY DEF NewBytes, FirstNew, Delta
<1>6. NewBytes(m) \in Nat /\ rcvNxt + NewBytes(m) = m.seq + m.len /\ FirstNew(m) = rcvNxt
  BY <1>2, <1>4, <1>5
<1>7. tcpState = "CLOSE_WAIT" => NewBytes(m) = 0 /\ ~m.fin
  BY <1>2, <1>3, <1>4, <1>5
<1>8. QED BY <1>3, <1>6, <1>7

\* How much of it is saved, and where.
LEMMA StoredAmounts ==
    ASSUME IInv, NEW m \in wire \ {Rst}, InOrder(m)
    PROVE  /\ Lent \in Nat /\ Stored(m) \in Nat /\ ToCaller(m) \in Nat
           /\ Stored(m) <= NewBytes(m)
           /\ ToCaller(m) <= Stored(m) /\ ToCaller(m) <= Lent
           /\ ToCaller(m) = Stored(m) \/ ToCaller(m) = Lent
           /\ pendOff + Len(pend) + (Stored(m) - ToCaller(m)) <= PendSize
           /\ ToCaller(m) > 0 => pc = "drain" /\ pend = <<>>
           /\ Advance(m) \in Nat
<1>1. /\ pendOff \in Nat /\ Len(pend) \in Nat /\ PendSize \in Nat
      /\ pendOff + Len(pend) <= PendSize
  BY Lengths, ConstantsAssumption DEF IInv, TypeOK
<1>2. Lent \in Nat /\ (Lent > 0 => pc = "drain" /\ pend = <<>>)
  BY DEF IInv, TypeOK, PhaseInv, Lent
<1>3. NewBytes(m) \in Nat
  BY SegmentGeometry
<1>4. Capacity(pendOff, Len(pend), Lent) = PendSize - (pendOff + Len(pend)) + Lent
  BY DEF Capacity
<1>5. Capacity(pendOff, Len(pend), Lent) \in Nat
  BY <1>1, <1>2, WindowNat
<1>6. /\ Stored(m) \in Nat /\ Stored(m) <= NewBytes(m)
      /\ Stored(m) <= Capacity(pendOff, Len(pend), Lent)
  BY <1>3, <1>5, MinOfNat DEF Stored
<1>7. /\ ToCaller(m) \in Nat /\ ToCaller(m) <= Stored(m) /\ ToCaller(m) <= Lent
      /\ ToCaller(m) = Stored(m) \/ ToCaller(m) = Lent
  BY <1>2, <1>6, MinOfNat DEF ToCaller
<1>8. pendOff + Len(pend) + (Stored(m) - ToCaller(m)) <= PendSize
  BY <1>1, <1>2, <1>4, <1>6, <1>7
<1>9. Advance(m) \in Nat
  BY <1>6 DEF Advance
<1>10. QED BY <1>2, <1>6, <1>7, <1>8, <1>9

\* STORE_TCP_PAYLOAD and the advance of RCV_NXT keep the stream whole.
LEMMA StoreKeeps ==
    ASSUME IInv, NEW m \in wire \ {Rst}, NEW ok \in BOOLEAN, RecvInOrder(m, ok)
    PROVE  /\ StreamInv' /\ FinInv'
           /\ buf' \in Seq(Nat) /\ pend' \in Seq(Nat)
           /\ Len(buf') = Len(buf) + ToCaller(m)
           /\ Len(pend') = Len(pend) + (Stored(m) - ToCaller(m))
           /\ rcvNxt' \in Nat /\ rcvNxt <= rcvNxt'
<1> DEFINE n == Stored(m)
           d == ToCaller(m)
<1>1. /\ chOpen /\ InOrder(m)
      /\ buf' = buf \o Bytes(FirstNew(m), d)
      /\ pend' = pend \o Bytes(FirstNew(m) + d, n - d)
      /\ rcvNxt' = rcvNxt + Advance(m)
      /\ tcpState' = IF TakesFin(m) THEN "CLOSE_WAIT" ELSE tcpState
      /\ wire' = wire \ {m} /\ chOpen' = chOpen
  BY DEF RecvInOrder, InRecv
<1>2. /\ NewBytes(m) \in Nat /\ FirstNew(m) = rcvNxt
      /\ rcvNxt + NewBytes(m) = m.seq + m.len
      /\ tcpState = "CLOSE_WAIT" => NewBytes(m) = 0 /\ ~m.fin
      /\ m.fin => m.seq + m.len = StreamLen
  BY <1>1, SegmentGeometry
<1>3. /\ n \in Nat /\ d \in Nat /\ n <= NewBytes(m) /\ d <= n
      /\ d > 0 => pend = <<>>
      /\ Advance(m) \in Nat
  BY <1>1, StoredAmounts
<1>4. /\ rcvNxt \in Nat /\ Len(buf) \in Nat /\ Len(pend) \in Nat
      /\ Stretch(buf, 0) /\ Stretch(pend, Len(buf))
      /\ rcvNxt = Len(buf) + Len(pend) + FinSaved
      /\ tcpState \in {"ESTAB", "CLOSE_WAIT"}
      /\ StreamLen \in Nat
  BY <1>1, Lengths, ConstantsAssumption DEF IInv, TypeOK, StreamInv
<1>5. TakesFin(m) => /\ tcpState = "ESTAB" /\ n = NewBytes(m) /\ m.fin
  BY <1>2, <1>4 DEF TakesFin
<1>6. tcpState = "CLOSE_WAIT" => n = 0 /\ d = 0
  BY <1>2, <1>3
<1>7. Advance(m) = n + (IF TakesFin(m) THEN 1 ELSE 0)
  BY DEF Advance
<1> HIDE DEF n, d
<1>8. Bytes(FirstNew(m), d) = Bytes(0 + Len(buf), d)
  <2>1. CASE d = 0
    BY <1>2, <1>4, <2>1, BytesNone
  <2>2. CASE d # 0
    <3>1. Len(pend) = 0 /\ tcpState = "ESTAB"
      BY <1>3, <1>4, <1>6, <2>2, EmptySeq
    <3>2. rcvNxt = 0 + Len(buf)
      BY <1>4, <3>1 DEF FinSaved
    <3>3. QED BY <1>2, <3>2
  <2>3. QED BY <2>1, <2>2
<1>9. Stretch(buf', 0) /\ Len(buf') = Len(buf) + d
  <2>1. /\ Stretch(buf \o Bytes(0 + Len(buf), d), 0)
        /\ Len(buf \o Bytes(0 + Len(buf), d)) = Len(buf) + d
    BY <1>3, <1>4, StretchAppend
  <2>2. buf' = buf \o Bytes(0 + Len(buf), d)
    BY <1>1, <1>8
  <2>3. QED BY <2>1, <2>2
<1>10. Stretch(pend, Len(buf) + d)
  <2>1. CASE d = 0
    BY <1>4, <2>1
  <2>2. CASE d # 0
    BY <1>3, <1>4, <2>2, EmptySeq DEF Stretch
  <2>3. QED BY <2>1, <2>2
<1>11. n - d \in Nat /\ Len(buf) + d \in Nat /\ FirstNew(m) + d \in Nat
       /\ Len(buf) + d + Len(pend) \in Nat
  BY <1>2, <1>3, <1>4
<1>12. Bytes(FirstNew(m) + d, n - d) = Bytes((Len(buf) + d) + Len(pend), n - d)
  <2>1. CASE tcpState = "CLOSE_WAIT"
    <3>1. n - d = 0
      BY <1>6, <2>1
    <3>2. QED BY <1>11, <3>1, BytesNone
  <2>2. CASE tcpState = "ESTAB"
    <3>1. FirstNew(m) + d = (Len(buf) + d) + Len(pend)
      BY <1>2, <1>3, <1>4, <2>2 DEF FinSaved
    <3>2. QED BY <3>1
  <2>3. QED BY <1>4, <2>1, <2>2
<1>13. Stretch(pend', Len(buf) + d) /\ Len(pend') = Len(pend) + (n - d)
  <2>1. /\ Stretch(pend \o Bytes((Len(buf) + d) + Len(pend), n - d), Len(buf) + d)
        /\ Len(pend \o Bytes((Len(buf) + d) + Len(pend), n - d)) = Len(pend) + (n - d)
    BY <1>10, <1>11, StretchAppend
  <2>2. pend' = pend \o Bytes((Len(buf) + d) + Len(pend), n - d)
    BY <1>1, <1>12
  <2>3. QED BY <2>1, <2>2
<1>14. buf' \in Seq(Nat) /\ pend' \in Seq(Nat)
  BY <1>9, <1>13 DEF Stretch
<1>15. rcvNxt' = Len(buf') + Len(pend') + FinSaved'
  <2>1. Len(buf') + Len(pend') = Len(buf) + Len(pend) + n
    BY <1>3, <1>4, <1>9, <1>13
  <2>2. CASE TakesFin(m)
    <3>1. FinSaved = 0 /\ FinSaved' = 1 /\ Advance(m) = n + 1
      BY <1>1, <1>5, <1>7, <2>2 DEF FinSaved
    <3>2. rcvNxt' = Len(buf) + Len(pend) + FinSaved + Advance(m)
      BY <1>1, <1>4
    <3>3. QED BY <1>3, <1>4, <2>1, <3>1, <3>2
  <2>3. CASE ~TakesFin(m)
    <3>1. FinSaved' = FinSaved /\ Advance(m) = n /\ FinSaved \in Nat
      BY <1>1, <1>3, <1>7, <2>3 DEF FinSaved
    <3>2. rcvNxt' = Len(buf) + Len(pend) + FinSaved + Advance(m)
      BY <1>1, <1>4
    <3>3. QED BY <1>3, <1>4, <2>1, <3>1, <3>2
  <2>4. QED BY <2>2, <2>3
<1>16. StreamInv'
  BY <1>9, <1>13, <1>15 DEF StreamInv
<1>17. tcpState' = "CLOSE_WAIT" => rcvNxt' = StreamLen + 1
  <2>1. CASE TakesFin(m)
    BY <1>1, <1>2, <1>4, <1>5, <1>7, <2>1
  <2>2. CASE ~TakesFin(m)
    <3>1. tcpState = "CLOSE_WAIT" => rcvNxt = StreamLen + 1
      BY DEF IInv, FinInv
    <3>2. QED BY <1>1, <1>4, <1>6, <1>7, <2>2, <3>1
  <2>3. QED BY <2>1, <2>2
<1>18. FinInv'
  BY <1>1, <1>17 DEF IInv, FinInv
<1>19. rcvNxt' \in Nat /\ rcvNxt <= rcvNxt'
  BY <1>1, <1>3, <1>4
<1>20. QED BY <1>9, <1>13, <1>14, <1>16, <1>18, <1>19 DEF n, d

LEMMA RecvInOrderStep ==
    ASSUME IInv, NEW m \in wire, NEW ok \in BOOLEAN, RecvInOrder(m, ok)
    PROVE  IInv'
<1> DEFINE n == Stored(m)
           d == ToCaller(m)
<1>1. /\ m \in wire \ {Rst} /\ InRecv /\ InOrder(m)
      /\ space' = IF pc = "drain" THEN space - d ELSE space
      /\ copyLen' = copyLen + d
      /\ tcpState' = IF TakesFin(m) THEN "CLOSE_WAIT" ELSE tcpState
      /\ closed' = (closed \/ TakesFin(m))
      /\ wire' = wire \ {m}
      /\ UNCHANGED <<chOpen, pendOff, dirty, ret, reported, peerVars>>
  BY DEF RecvInOrder
<1>2. /\ Lent \in Nat /\ n \in Nat /\ d \in Nat /\ d <= n /\ d <= Lent
      /\ d = n \/ d = Lent
      /\ pendOff + Len(pend) + (n - d) <= PendSize
      /\ d > 0 => pc = "drain" /\ pend = <<>>
  BY <1>1, StoredAmounts
<1>3. /\ StreamInv' /\ FinInv'
      /\ buf' \in Seq(Nat) /\ pend' \in Seq(Nat)
      /\ Len(pend') = Len(pend) + (n - d)
      /\ rcvNxt' \in Nat /\ rcvNxt <= rcvNxt'
  BY <1>1, StoreKeeps
<1>4. /\ Len(pend) \in Nat /\ Len(pend') \in Nat /\ pendOff \in Nat
      /\ rcvNxt \in Nat /\ PendSize \in Nat
      /\ space \in Nat /\ copyLen \in Nat
      /\ unacked \in 0 .. 2 * DeferBit - 1
  BY <1>2, <1>3, Lengths, ConstantsAssumption DEF IInv, TypeOK
<1>5. pc = "drain" => Lent = space
  BY DEF Lent
<1> HIDE DEF n, d
<1>6. space' \in Nat /\ copyLen' \in Nat
  BY <1>1, <1>2, <1>4, <1>5
<1>7. \E failed \in BOOLEAN : AfterSegment(n, failed)
  BY DEF RecvInOrder, n
<1>8. /\ pc' \in {"idle", "drain", "flush", "send"}
      /\ exit' \in {"none", "drain", "closed", "cancel"}
      /\ (pc' = "flush") = (exit' # "none")
      /\ pc' = "drain" => pc = "drain" /\ ~(n > 0 /\ space' = 0)
  BY <1>1, <1>7, AfterSegmentPhase
<1>9. PhaseInv'
  <2>1. chOpen'
    BY <1>1 DEF InRecv
  <2>2. ASSUME pc' = "drain" PROVE pend' = <<>>
    <3>1. pc = "drain" /\ ~(n > 0 /\ space' = 0) /\ pend = <<>>
      BY <1>8, <2>2 DEF IInv, PhaseInv
    <3>2. Len(pend) = 0
      BY <3>1, EmptySeq
    <3>3. Lent = space /\ space' = space - d
      BY <1>1, <1>5, <3>1
    <3>4. n - d = 0
      BY <1>2, <1>4, <3>1, <3>3
    <3>5. QED BY <1>3, <3>2, <3>4, EmptySeq
  <2>3. QED BY <2>1, <2>2 DEF PhaseInv
<1>10. /\ AfterAck(unacked, ok) \in 0 .. 2 * DeferBit - 1
       /\ IncDebt(unacked) \in 0 .. 2 * DeferBit - 1
  BY <1>4, DebtRange DEF AfterAck
<1>11. /\ unacked' \in 0 .. 2 * DeferBit - 1
       /\ last' \in Ack /\ ackWire' \subseteq Ack
       /\ \A a \in ackWire' : a \in ackWire \/ a.ack = rcvNxt'
  <2>1. CASE tcpState' = "CLOSE_WAIT" \/ unacked < DeferBit
    <3>1. /\ Emit(ok, rcvNxt', Window(pendOff, Len(pend'), Lent - d))
          /\ unacked' = AfterAck(unacked, ok)
      BY <2>1 DEF RecvInOrder, n, d
    <3>2. Window(pendOff, Len(pend'), Lent - d) \in Nat
      <4>1. Lent - d \in Nat
        BY <1>2
      <4>2. pendOff + Len(pend') <= PendSize
        BY <1>2, <1>3, <1>4
      <4>3. QED BY <1>4, <4>1, <4>2, WindowNat
    <3>3. /\ last' \in Ack /\ ackWire' \subseteq Ack
          /\ \A a \in ackWire' : a \in ackWire \/ a.ack = rcvNxt'
      BY <1>3, <3>1, <3>2, EmitAck DEF IInv
    <3>4. QED BY <1>10, <3>1, <3>3
  <2>2. CASE ~(tcpState' = "CLOSE_WAIT" \/ unacked < DeferBit)
    <3>1. unacked' = IncDebt(unacked) /\ UNCHANGED txVars
      BY <2>2 DEF RecvInOrder
    <3>2. QED BY <1>10, <3>1 DEF IInv, TypeOK, txVars
  <2>3. QED BY <2>1, <2>2
<1>12. AckInv'
  <2>1. /\ una \in Nat /\ una <= rcvNxt /\ una' = una
        /\ \A a \in ackWire : a.ack \in Nat /\ a.ack <= rcvNxt
    BY <1>1 DEF IInv, TypeOK, AckInv, Ack, peerVars
  <2>2. una' <= rcvNxt'
    BY <1>3, <1>4, <2>1
  <2>3. \A a \in ackWire' : a.ack <= rcvNxt'
    BY <1>3, <1>4, <1>11, <2>1
  <2>4. QED BY <2>2, <2>3 DEF AckInv
<1>13. TypeOK'
  <2>1. pendOff' + Len(pend') <= PendSize
    BY <1>1, <1>2, <1>3, <1>4
  <2>2. /\ tcpState' \in {"ESTAB", "CLOSE_WAIT"}
        /\ closed' \in BOOLEAN /\ chOpen' \in BOOLEAN
        /\ wire' \subseteq Segment \cup {Rst}
        /\ UNCHANGED <<pendOff, dirty, ret, reported, una, edge, sndMax>>
    BY <1>1 DEF IInv, TypeOK, TakesFin, peerVars
  <2>3. QED BY <1>3, <1>6, <1>8, <1>11, <2>1, <2>2 DEF IInv, TypeOK
<1>14. QED BY <1>3, <1>9, <1>12, <1>13 DEF IInv

LEMMA RecvOutOfOrderStep ==
    ASSUME IInv, NEW m \in wire, NEW ok \in BOOLEAN, RecvOutOfOrder(m, ok)
    PROVE  IInv'
<1>1. /\ InRecv /\ chOpen /\ wire' = wire \ {m}
      /\ Emit(ok, rcvNxt, Window(pendOff, Len(pend), Lent))
      /\ UNCHANGED <<rcvNxt, chOpen, closed, pend, pendOff, dirty, ret, buf,
                     reported, una, edge, sndMax, tcpState, copyLen, space>>
  BY DEF RecvOutOfOrder, InRecv, histVars, peerVars
<1>2. /\ Lent \in Nat /\ rcvNxt \in Nat /\ unacked \in 0 .. 2 * DeferBit - 1
      /\ pendOff \in Nat /\ Len(pend) \in Nat /\ pendOff + Len(pend) <= PendSize
  BY Lengths DEF IInv, TypeOK, Lent
<1>3. /\ last' \in Ack /\ ackWire' \subseteq Ack
      /\ \A a \in ackWire' : a \in ackWire \/ a.ack = rcvNxt
  BY <1>1, <1>2, WindowNat, EmitAck DEF IInv
<1>4. unacked' \in 0 .. 2 * DeferBit - 1
  BY <1>2, DebtRange DEF RecvOutOfOrder
<1>5. /\ pc' \in {"idle", "drain", "flush", "send"}
      /\ exit' \in {"none", "drain", "closed", "cancel"}
      /\ (pc' = "flush") = (exit' # "none")
      /\ pc' = "drain" => pc = "drain"
  <2>1. CASE ok
    BY <1>1, <2>1, AfterSegmentPhase DEF RecvOutOfOrder
  <2>2. CASE ~ok
    <3>1. UNCHANGED <<pc, exit>>
      BY <2>2 DEF RecvOutOfOrder
    <3>2. QED BY <1>1, <3>1 DEF IInv, TypeOK, InRecv
  <2>3. QED BY <2>1, <2>2
<1>6. TypeOK'
  BY <1>1, <1>3, <1>4, <1>5 DEF IInv, TypeOK
<1>7. PhaseInv' /\ StreamInv' /\ FinInv'
  BY <1>1, <1>5 DEF IInv, PhaseInv, StreamInv, FinInv, FinSaved
<1>8. AckInv'
  <2>1. \A a \in ackWire' : a.ack <= rcvNxt
    BY <1>2, <1>3 DEF IInv, AckInv
  <2>2. QED BY <1>1, <2>1 DEF IInv, AckInv
<1>9. QED BY <1>6, <1>7, <1>8 DEF IInv

LEMMA RstStep ==
    ASSUME IInv, RstInDrain \/ RstInSend \/ RstForeign
    PROVE  IInv'
<1>1. /\ UNCHANGED <<rcvNxt, tcpState, unacked, dirty, buf, reported, space, copyLen,
                     last, ackWire, una, edge, sndMax>>
      /\ wire' = wire \ {Rst}
  BY DEF RstInDrain, RstInSend, RstForeign, tcpVars, histVars, txVars, peerVars, callVars
<1>2. <<>> \in Seq(Nat) /\ Len(<<>>) = 0 /\ PendSize \in Nat
  BY EmptySeq, ConstantsAssumption
<1>3. /\ chOpen' \in BOOLEAN /\ closed' \in BOOLEAN
      /\ chOpen' => chOpen /\ pend' = pend
      /\ \/ pend' = pend /\ pendOff' = pendOff
         \/ pend' = <<>> /\ pendOff' = 0
      /\ ret' = ret \/ ret' = "SENDCLOSED"
      /\ \/ pc = "drain" /\ pc' = "flush" /\ exit' \in {"drain", "closed"} /\ chOpen'
         \/ pc' = "idle" /\ exit' = "none"
  <2>1. CASE RstInDrain
    BY <2>1 DEF IInv, TypeOK, PhaseInv, RstInDrain, RstExit, GoFlush
  <2>2. CASE RstInSend
    BY <2>2 DEF IInv, TypeOK, RstInSend
  <2>3. CASE RstForeign
    BY <2>3 DEF IInv, TypeOK, RstForeign, callVars
  <2>4. QED BY <2>1, <2>2, <2>3
<1>4. pend' \in Seq(Nat) /\ pendOff' \in Nat /\ pendOff' + Len(pend') <= PendSize
  <2>1. CASE pend' = pend /\ pendOff' = pendOff
    BY <2>1 DEF IInv, TypeOK
  <2>2. CASE pend' = <<>> /\ pendOff' = 0
    BY <1>2, <2>2
  <2>3. QED BY <1>3, <2>1, <2>2
<1>5. (pc' = "flush") = (exit' # "none")
  BY <1>3
<1>6. TypeOK'
  BY <1>1, <1>3, <1>4, <1>5 DEF IInv, TypeOK
<1>7. PhaseInv' /\ StreamInv' /\ FinInv' /\ AckInv'
  BY <1>1, <1>3 DEF IInv, PhaseInv, StreamInv, FinInv, FinSaved, AckInv
<1>8. QED BY <1>6, <1>7 DEF IInv

-----------------------------------------------------------------------------
(* SEND as the receiver sees it.                                           *)

LEMMA SendStartStep ==
    ASSUME IInv, NEW ok \in BOOLEAN, SendStart(ok)
    PROVE  IInv'
<1>1. /\ chOpen /\ pc \in {"idle", "send"} /\ exit = "none"
      /\ Emit(ok, rcvNxt, Window(pendOff, Len(pend), 0))
      /\ pc' \in {"send", "idle"} /\ ret' \in {"none", "HW"}
      /\ UNCHANGED <<tcpVars, chanVars, exit, space, copyLen, histVars, peerVars, wire>>
  BY DEF IInv, TypeOK, SendStart
<1>2. rcvNxt \in Nat /\ Window(pendOff, Len(pend), 0) \in Nat
  BY Lengths, WindowNat DEF IInv, TypeOK
<1>3. /\ last' \in Ack /\ ackWire' \subseteq Ack
      /\ \A a \in ackWire' : a \in ackWire \/ a.ack = rcvNxt
  BY <1>1, <1>2, EmitAck DEF IInv
<1>4. TypeOK'
  BY <1>1, <1>3 DEF IInv, TypeOK, tcpVars, chanVars, histVars, peerVars
<1>5. PhaseInv' /\ StreamInv' /\ FinInv'
  BY <1>1 DEF IInv, PhaseInv, StreamInv, FinInv, FinSaved, tcpVars, chanVars, histVars
<1>6. AckInv'
  <2>1. \A a \in ackWire' : a.ack <= rcvNxt
    BY <1>2, <1>3 DEF IInv, AckInv
  <2>2. QED BY <1>1, <2>1 DEF IInv, AckInv, tcpVars, peerVars
<1>7. QED BY <1>4, <1>5, <1>6 DEF IInv

LEMMA SendWaitStep ==
    ASSUME IInv, NEW from \in {"send", "susp"}, NEW to \in {"idle", "send", "susp"},
           SendWait(from, to)
    PROVE  IInv'
<1>1. /\ pc = from /\ pc' = to
      /\ UNCHANGED <<tcpVars, chanVars, exit, space, copyLen, ret, histVars, txVars,
                     peerVars, wire>>
  BY DEF SendWait
<1>2. TypeOK'
  BY <1>1 DEF IInv, TypeOK, tcpVars, chanVars, histVars, txVars, peerVars
<1>3. PhaseInv' /\ StreamInv' /\ FinInv' /\ AckInv'
  BY <1>1 DEF IInv, PhaseInv, StreamInv, FinInv, FinSaved, AckInv,
              tcpVars, chanVars, histVars, txVars, peerVars
<1>4. QED BY <1>2, <1>3 DEF IInv

LEMMA StutterStep == IInv /\ UNCHANGED vars => IInv'
BY DEF IInv, TypeOK, PhaseInv, StreamInv, FinInv, FinSaved, AckInv,
       vars, tcpVars, chanVars, callVars, histVars, txVars, peerVars

-----------------------------------------------------------------------------
(* The theorems.                                                           *)

LEMMA NextIInv == IInv /\ [Next]_vars => IInv'
<1> SUFFICES ASSUME IInv, [Next]_vars PROVE IInv'
  OBVIOUS
<1>1. CASE RecvCall
  BY <1>1, RecvEnterStep, RecvServeStep, RecvSuspendedStep, RecvWaitEnds, RecvExitStep
     DEF RecvCall
<1>2. CASE RecvFrame
  BY <1>2, RecvInOrderStep, RecvOutOfOrderStep, RstStep DEF RecvFrame
<1>3. CASE SendCall
  BY <1>3, SendStartStep, SendWaitStep DEF SendCall
<1>4. CASE Peer
  BY <1>4, PeerSendStep, PeerResetStep, PeerAckStep DEF Peer
<1>5. CASE LoseAck
  BY <1>5, LoseAckStep
<1>6. CASE UNCHANGED vars
  BY <1>6, StutterStep
<1>7. QED BY <1>1, <1>2, <1>3, <1>4, <1>5, <1>6 DEF Next

\* The inductive invariant holds in every reachable state.
THEOREM Inductive == Spec => []IInv
BY InitIInv, NextIInv, PTL DEF Spec

\* Every variable keeps its type; in particular no sequence of arrivals and
\* partial reads runs the pending queue past the end of its buffer.
THEOREM TypeCorrect == Spec => []TypeOK
<1>1. IInv => TypeOK
  BY DEF IInv
<1>2. QED BY <1>1, Inductive, PTL

\* RECV delivers the peer's stream: callers' buffers and queue together hold
\* every byte up to RCV_NXT, once and in order.
THEOREM DeliversInOrder == Spec => []SavedInOrder
<1>1. IInv => SavedInOrder
  BY DEF IInv, StreamInv, Stretch, SavedInOrder
<1>2. QED BY <1>1, Inductive, PTL

\* Nothing unsaved is ever acknowledged (the promise of docs/UNETRTL.md that
\* payload is saved before RCV_NXT advances and the ACK leaves).
THEOREM AcksOnlySaved == Spec => []AckedIsSaved
<1>1. IInv => AckedIsSaved
  BY DEF IInv, StreamInv, AckInv, AckedIsSaved
<1>2. QED BY <1>1, Inductive, PTL

-----------------------------------------------------------------------------
(* What a call reports, and what the peer has been told: a second          *)
(* invariant, inductive along the first.                                   *)

\* Only a drained queue starts over.
QueueInv == Len(pend) = 0 => pendOff = 0

\* Bytes are counted from the drain of a call to its return, an exit that
\* reports the close has none, and the queue is empty then and ever after.
CountInv ==
    /\ pc \notin {"drain", "flush"} => copyLen = 0
    /\ exit = "closed" => copyLen = 0 /\ Len(pend) = 0
    /\ ret = "CLOSED" => /\ ~chOpen /\ Len(pend) = 0
                         /\ tcpState = "CLOSE_WAIT" => Len(buf) = StreamLen

\* Without debt the last ACK was RCV_NXT, and the window with it covers what
\* is free, but for the space that is marked.
DebtInv ==
    chOpen /\ unacked % DeferBit = 0 =>
        /\ last.ack = rcvNxt
        /\ ~dirty => last.wnd >= Window(pendOff, Len(pend), 0)

JInv == QueueInv /\ CountInv /\ (~DebtMayWrap => DebtInv)

\* What COPY_PENDING does to the lengths and the offset.
LEMMA CopyPendingCounts ==
    ASSUME IInv, chOpen, NEW n \in Nat, CopyPending(n)
    PROVE  LET k == MinOf(Len(pend), n)
           IN  /\ k \in Nat /\ k <= n /\ k <= Len(pend)
               /\ k = n \/ k = Len(pend)
               /\ Len(buf') = Len(buf) + k
               /\ Len(pend') = Len(pend) - k
               /\ pendOff' = IF k = Len(pend) THEN 0 ELSE pendOff + k
               /\ dirty' = (dirty \/ k > 0)
<1> DEFINE k == MinOf(Len(pend), n)
<1>1. Len(buf) \in Nat /\ Len(pend) \in Nat
  BY Lengths
<1>2. k \in Nat /\ k <= n /\ k <= Len(pend) /\ (k = n \/ k = Len(pend))
  BY <1>1, MinOfNat
<1>3. /\ Len(buf') + Len(pend') = Len(buf) + Len(pend)
      /\ Len(pend') = Len(pend) - k /\ buf' \in Seq(Nat)
  BY CopyPendingKeeps
<1>4. Len(buf') \in Nat
  BY <1>3, LenProperties
<1> HIDE DEF k
<1>5. Len(buf') = Len(buf) + k
  BY <1>1, <1>2, <1>3, <1>4
<1>6. /\ pendOff' = IF k = Len(pend) THEN 0 ELSE pendOff + k
      /\ dirty' = (dirty \/ k > 0)
  BY DEF CopyPending, k
<1>7. QED BY <1>2, <1>3, <1>5, <1>6 DEF k

\* The queue and what is counted after COPY_PENDING.
LEMMA CopyKeepsQueue ==
    ASSUME IInv, QueueInv, chOpen, NEW n \in Nat, CopyPending(n)
    PROVE  QueueInv'
<1> DEFINE k == MinOf(Len(pend), n)
<1>1. /\ k \in Nat /\ k <= Len(pend) /\ Len(pend') = Len(pend) - k
      /\ pendOff' = IF k = Len(pend) THEN 0 ELSE pendOff + k
      /\ Len(pend) \in Nat
  BY CopyPendingCounts, Lengths
<1> HIDE DEF k
<1>2. Len(pend') = 0 => k = Len(pend)
  BY <1>1
<1>3. QED BY <1>1, <1>2 DEF QueueInv

\* What a stored segment does to the lengths.
LEMMA StoredCounts ==
    ASSUME IInv, NEW m \in wire, NEW ok \in BOOLEAN, RecvInOrder(m, ok)
    PROVE  /\ Stored(m) \in Nat /\ ToCaller(m) \in Nat /\ ToCaller(m) <= Stored(m)
           /\ Len(buf') = Len(buf) + ToCaller(m)
           /\ Len(pend') = Len(pend) + (Stored(m) - ToCaller(m))
           /\ copyLen' = copyLen + ToCaller(m)
           /\ pc # "drain" => ToCaller(m) = 0
           /\ chOpen /\ chOpen' /\ pendOff' = pendOff /\ dirty' = dirty
           /\ reported' = reported /\ ret' = ret
<1>1. m \in wire \ {Rst} /\ InOrder(m) /\ InRecv
  BY DEF RecvInOrder
<1>2. /\ Stored(m) \in Nat /\ ToCaller(m) \in Nat /\ ToCaller(m) <= Stored(m)
      /\ ToCaller(m) > 0 => pc = "drain"
  BY <1>1, StoredAmounts
<1>3. /\ Len(buf') = Len(buf) + ToCaller(m)
      /\ Len(pend') = Len(pend) + (Stored(m) - ToCaller(m))
  BY <1>1, StoreKeeps
<1>4. /\ copyLen' = copyLen + ToCaller(m) /\ chOpen /\ chOpen'
      /\ pendOff' = pendOff /\ dirty' = dirty /\ reported' = reported /\ ret' = ret
  BY <1>1 DEF RecvInOrder, InRecv
<1>5. pc # "drain" => ToCaller(m) = 0
  BY <1>2
<1>6. QED BY <1>2, <1>3, <1>4, <1>5

(* The peer and the network touch nothing of the receiver.                 *)
LEMMA PeerTouchesNothing ==
    ASSUME Peer \/ LoseAck
    PROVE  UNCHANGED <<tcpVars, chanVars, callVars, histVars, last>>
<1>1. CASE PeerSendAny
  BY <1>1 DEF PeerSendAny, PeerSend, txVars
<1>2. CASE PeerReset
  BY <1>2 DEF PeerReset, txVars
<1>3. CASE \E a \in ackWire : PeerAck(a)
  BY <1>3 DEF PeerAck
<1>4. CASE LoseAck
  BY <1>4 DEF LoseAck
<1>5. QED BY <1>1, <1>2, <1>3, <1>4 DEF Peer

(* Steps that move no byte between the stream, the queue and the caller.   *)
LEMMA MovesNothing ==
    ASSUME \/ Peer \/ LoseAck \/ SendCall \/ RecvTimeout \/ RecvCancel
           \/ RstInDrain \/ RstForeign
           \/ \E m \in wire, ok \in BOOLEAN : RecvOutOfOrder(m, ok)
    PROVE  UNCHANGED <<pend, pendOff, buf, reported, copyLen>>
<1>1. CASE Peer \/ LoseAck
  BY <1>1, PeerTouchesNothing DEF chanVars, callVars, histVars
<1>3. CASE SendCall
  <2>1. CASE \E ok \in BOOLEAN : SendStart(ok)
    BY <2>1 DEF SendStart, chanVars, histVars
  <2>2. CASE \/ SendWait("send", "idle") \/ SendWait("send", "susp")
             \/ SendWait("susp", "send")
    BY <2>2 DEF SendWait, chanVars, histVars
  <2>3. QED BY <1>3, <2>1, <2>2 DEF SendCall
<1>4. CASE RecvTimeout
  BY <1>4 DEF RecvTimeout, chanVars, histVars
<1>5. CASE RecvCancel
  BY <1>5 DEF RecvCancel, chanVars, histVars
<1>6. CASE RstInDrain
  BY <1>6 DEF RstInDrain, chanVars, histVars
<1>7. CASE RstForeign
  BY <1>7 DEF RstForeign, chanVars, callVars, histVars
<1>8. CASE \E m \in wire, ok \in BOOLEAN : RecvOutOfOrder(m, ok)
  BY <1>8 DEF RecvOutOfOrder, chanVars, callVars, histVars
<1>9. QED BY <1>1, <1>3, <1>4, <1>5, <1>6, <1>7, <1>8

LEMMA QueueStep == IInv /\ QueueInv /\ Next => QueueInv'
<1> SUFFICES ASSUME IInv, QueueInv, Next PROVE QueueInv'
  OBVIOUS
<1>1. CASE \/ Peer \/ LoseAck \/ SendCall \/ RecvTimeout \/ RecvCancel
           \/ RstInDrain \/ RstForeign
           \/ \E ok \in BOOLEAN : RecvExit(ok)
           \/ \E size \in CallSizes, ok \in BOOLEAN : RecvEnter(size, ok)
           \/ \E m \in wire, ok \in BOOLEAN : RecvOutOfOrder(m, ok)
  <2>1. CASE \E ok \in BOOLEAN : RecvExit(ok)
    BY <2>1 DEF RecvExit, QueueInv
  <2>2. CASE \E size \in CallSizes, ok \in BOOLEAN : RecvEnter(size, ok)
    <3>1. UNCHANGED <<pend, pendOff>>
      BY <2>2 DEF RecvEnter, chanVars
    <3>2. QED BY <3>1 DEF QueueInv
  <2>3. CASE ~(\/ \E ok \in BOOLEAN : RecvExit(ok)
               \/ \E size \in CallSizes, ok \in BOOLEAN : RecvEnter(size, ok))
    <3>1. UNCHANGED <<pend, pendOff>>
      BY <1>1, <2>3, MovesNothing
    <3>2. QED BY <3>1 DEF QueueInv
  <2>4. QED BY <2>1, <2>2, <2>3
<1>2. CASE \E ok \in BOOLEAN : RecvServe(ok)
  <2>1. chOpen /\ space \in Nat /\ CopyPending(space)
    BY <1>2 DEF IInv, TypeOK, PhaseInv, RecvServe
  <2>2. QED BY <2>1, CopyKeepsQueue
<1>3. CASE \E size \in CallSizes : RecvSuspended(size)
  <2>1. \E size \in Nat : chOpen /\ CopyPending(size)
    BY <1>3, ConstantsAssumption DEF IInv, PhaseInv, RecvSuspended
  <2>2. QED BY <2>1, CopyKeepsQueue
<1>4. CASE \E m \in wire, ok \in BOOLEAN : RecvInOrder(m, ok)
  <2>1. \E k \in Nat : Len(pend') = Len(pend) + k /\ pendOff' = pendOff
    <3>1. PICK m \in wire, ok \in BOOLEAN : RecvInOrder(m, ok)
      BY <1>4
    <3>2. /\ Stored(m) \in Nat /\ ToCaller(m) \in Nat /\ ToCaller(m) <= Stored(m)
          /\ Len(pend') = Len(pend) + (Stored(m) - ToCaller(m)) /\ pendOff' = pendOff
      BY <3>1, StoredCounts
    <3>3. Stored(m) - ToCaller(m) \in Nat
      BY <3>2
    <3>4. QED BY <3>2, <3>3
  <2>2. Len(pend) \in Nat
    BY Lengths
  <2>3. QED BY <2>1, <2>2 DEF QueueInv
<1>5. CASE RstInSend
  <2>1. UNCHANGED <<pend, pendOff>> \/ pendOff' = 0
    BY <1>5 DEF RstInSend
  <2>2. QED BY <2>1 DEF QueueInv
<1>6. QED BY <1>1, <1>2, <1>3, <1>4, <1>5 DEF Next, RecvCall, RecvFrame

\* An open channel has not reported its close.
LEMMA OpenNotClosed ==
    ASSUME CountInv, chOpen
    PROVE  ret # "CLOSED"
BY DEF CountInv

\* Where a segment leaves the count: the close is reported by an empty call.
LEMMA AfterSegmentCount ==
    ASSUME IInv, CountInv, InRecv, NEW n \in Nat, NEW failed \in BOOLEAN, AfterSegment(n, failed),
           copyLen' \in Nat, pc # "drain" => copyLen' = copyLen
    PROVE  /\ pc' \notin {"drain", "flush"} => copyLen' = 0
           /\ exit' = "closed" => n = 0 /\ copyLen' = 0 /\ pc = "drain"
<1>1. pc \in {"drain", "send", "idle"} /\ exit = "none"
  BY DEF IInv, TypeOK, InRecv
<1>2. CASE pc = "drain"
  <2>1. CASE tcpState' = "CLOSE_WAIT"
    BY <1>2, <2>1 DEF AfterSegment, GoFlush
  <2>2. CASE tcpState' # "CLOSE_WAIT" /\ (failed \/ (n > 0 /\ space' = 0))
    BY <1>2, <2>2 DEF AfterSegment, GoFlush
  <2>3. CASE tcpState' # "CLOSE_WAIT" /\ ~(failed \/ (n > 0 /\ space' = 0))
    BY <1>1, <1>2, <2>3 DEF AfterSegment
  <2>4. QED BY <2>1, <2>2, <2>3
<1>3. CASE pc # "drain"
  <2>1. copyLen' = 0
    BY <1>1, <1>3 DEF CountInv
  <2>2. exit' = "none"
    BY <1>1, <1>3 DEF AfterSegment
  <2>3. QED BY <2>1, <2>2
<1>4. QED BY <1>2, <1>3

LEMMA RecvServeCount ==
    ASSUME IInv, IInv', CountInv, NEW ok \in BOOLEAN, RecvServe(ok)
    PROVE  CountInv'
<1> DEFINE k == MinOf(Len(pend), space)
<1>1. /\ pc = "serve" /\ exit = "none" /\ chOpen /\ space \in Nat /\ CopyPending(space)
  BY DEF IInv, TypeOK, PhaseInv, RecvServe
<1>2. /\ k \in Nat /\ Len(pend) \in Nat /\ (k = space \/ k = Len(pend))
      /\ Len(pend') = Len(pend) - k
  BY <1>1, CopyPendingCounts, Lengths
<1>3. ret # "CLOSED" /\ ret' # "CLOSED"
  <2>1. ret # "CLOSED"
    BY <1>1, OpenNotClosed
  <2>2. QED BY <2>1 DEF RecvServe, Return
<1>4. CASE space = k \/ closed
  <2>1. pc' = "flush" /\ exit' = ServeExit(k) /\ copyLen' = k
    BY <1>4 DEF RecvServe, GoFlush
  <2>2. exit' = "closed" => k = 0 /\ space # k
    BY <1>2, <2>1 DEF ServeExit
  <2>3. exit' = "closed" => copyLen' = 0 /\ Len(pend') = 0
    BY <1>2, <2>1, <2>2
  <2>4. QED BY <1>3, <2>1, <2>3 DEF CountInv
<1>5. CASE ~(space = k \/ closed)
  <2>1. exit' = "none" /\ (pc' = "drain" \/ copyLen' = 0)
    BY <1>1, <1>5 DEF RecvServe, Return
  <2>2. QED BY <1>3, <2>1 DEF CountInv
<1>6. QED BY <1>4, <1>5

\* The stream is complete behind a close that the FIN asked for.
LEMMA WholeStream ==
    ASSUME IInv, chOpen, Len(pend) = 0, tcpState = "CLOSE_WAIT"
    PROVE  Len(buf) = StreamLen
<1>1. rcvNxt = StreamLen + 1 /\ rcvNxt = Len(buf) + Len(pend) + 1
  BY DEF IInv, FinInv, StreamInv, FinSaved
<1>2. Len(buf) \in Nat /\ StreamLen \in Nat
  BY Lengths, ConstantsAssumption
<1>3. QED BY <1>1, <1>2

LEMMA RecvExitCount ==
    ASSUME IInv, CountInv, NEW ok \in BOOLEAN, RecvExit(ok)
    PROVE  CountInv'
<1>1. /\ pc = "flush" /\ chOpen /\ exit \in {"drain", "closed", "cancel"}
      /\ UNCHANGED <<pend, buf, tcpState>>
  BY DEF IInv, TypeOK, PhaseInv, RecvExit
<1>2. pc' = "idle" /\ exit' = "none" /\ copyLen' = 0
  BY <1>1 DEF RecvExit, Return
<1>3. ret' = "CLOSED" => exit = "closed" /\ ~chOpen'
  BY <1>1 DEF RecvExit, Return
<1>4. exit = "closed" => Len(pend) = 0
  BY DEF CountInv
<1>5. ret' = "CLOSED" => /\ ~chOpen' /\ Len(pend') = 0
                         /\ tcpState' = "CLOSE_WAIT" => Len(buf') = StreamLen
  BY <1>1, <1>3, <1>4, WholeStream
<1>6. QED BY <1>2, <1>5 DEF CountInv

LEMMA RecvInOrderCount ==
    ASSUME IInv, CountInv, NEW m \in wire, NEW ok \in BOOLEAN, RecvInOrder(m, ok)
    PROVE  CountInv'
<1>1. InRecv /\ \E failed \in BOOLEAN : AfterSegment(Stored(m), failed)
  BY DEF RecvInOrder
<1>2. /\ Stored(m) \in Nat /\ ToCaller(m) \in Nat /\ ToCaller(m) <= Stored(m)
      /\ Len(pend') = Len(pend) + (Stored(m) - ToCaller(m))
      /\ copyLen' = copyLen + ToCaller(m) /\ copyLen \in Nat
      /\ pc # "drain" => ToCaller(m) = 0
      /\ chOpen /\ ret' = ret
  BY StoredCounts DEF IInv, TypeOK
<1>3. copyLen' \in Nat /\ (pc # "drain" => copyLen' = copyLen)
  BY <1>2
<1>4. /\ pc' \notin {"drain", "flush"} => copyLen' = 0
      /\ exit' = "closed" => Stored(m) = 0 /\ copyLen' = 0 /\ pc = "drain"
  BY <1>1, <1>2, <1>3, AfterSegmentCount
<1>5. exit' = "closed" => Len(pend') = 0
  <2>1. pc = "drain" => Len(pend) = 0
    BY EmptySeq DEF IInv, PhaseInv
  <2>2. QED BY <1>2, <1>4, <2>1
<1>6. ret' # "CLOSED"
  BY <1>2, OpenNotClosed
<1>7. QED BY <1>4, <1>5, <1>6 DEF CountInv

LEMMA RecvOutOfOrderCount ==
    ASSUME IInv, CountInv, NEW m \in wire, NEW ok \in BOOLEAN, RecvOutOfOrder(m, ok)
    PROVE  CountInv'
<1>1. /\ InRecv /\ chOpen /\ UNCHANGED <<pend, ret, copyLen>>
      /\ copyLen \in Nat
  BY DEF IInv, TypeOK, RecvOutOfOrder, InRecv
<1>2. ret' # "CLOSED"
  BY <1>1, OpenNotClosed
<1>3. CASE ok
  <2>1. AfterSegment(0, FALSE)
    BY <1>3 DEF RecvOutOfOrder
  <2>2. /\ pc' \notin {"drain", "flush"} => copyLen' = 0
        /\ exit' = "closed" => copyLen' = 0 /\ pc = "drain"
    BY <1>1, <2>1, AfterSegmentCount
  <2>3. pc = "drain" => Len(pend) = 0
    BY EmptySeq DEF IInv, PhaseInv
  <2>4. QED BY <1>1, <1>2, <2>2, <2>3 DEF CountInv
<1>4. CASE ~ok
  BY <1>1, <1>2, <1>4 DEF CountInv, RecvOutOfOrder
<1>5. QED BY <1>3, <1>4

LEMMA CountStep == IInv /\ IInv' /\ CountInv /\ Next => CountInv'
<1> SUFFICES ASSUME IInv, IInv', CountInv, Next PROVE CountInv'
  OBVIOUS
<1>1. CASE Peer \/ LoseAck
  <2>1. UNCHANGED <<tcpVars, chanVars, callVars, histVars>>
    BY <1>1, PeerTouchesNothing
  <2>2. QED BY <2>1 DEF CountInv, tcpVars, chanVars, callVars, histVars
<1>2. CASE SendCall
  <2>1. /\ pc' \notin {"drain", "flush"} /\ pc \in {"idle", "send", "susp"}
        /\ UNCHANGED <<exit, copyLen, chOpen, pend, tcpState, buf>>
        /\ ret' = ret \/ ret' \in {"none", "HW"}
    BY <1>2 DEF SendCall, SendStart, SendWait, tcpVars, chanVars, histVars
  <2>2. QED BY <2>1 DEF CountInv
<1>3. CASE \E size \in CallSizes, ok \in BOOLEAN : RecvEnter(size, ok)
  <2>1. /\ pc = "idle" /\ exit = "none" /\ chOpen /\ exit' = "none"
        /\ copyLen' = copyLen \/ copyLen' = 0
        /\ ret' \in {"HW", "none"}
    BY <1>3 DEF IInv, TypeOK, RecvEnter, Return
  <2>2. QED BY <2>1 DEF CountInv
<1>4. CASE \E ok \in BOOLEAN : RecvServe(ok)
  BY <1>4, RecvServeCount
<1>5. CASE \E size \in CallSizes : RecvSuspended(size)
  <2>1. pc = "susp" /\ ret' = "OK" /\ UNCHANGED <<pc, exit, copyLen>> /\ exit = "none"
    BY <1>5 DEF IInv, TypeOK, RecvSuspended
  <2>2. QED BY <2>1 DEF CountInv
<1>6. CASE RecvTimeout \/ RecvCancel
  <2>1. /\ pc' = "flush" /\ exit' \in {"drain", "cancel"}
        /\ UNCHANGED <<copyLen, ret, chOpen, pend, tcpState, buf>>
    BY <1>6 DEF RecvTimeout, RecvCancel, GoFlush, tcpVars, chanVars, histVars
  <2>2. QED BY <2>1 DEF CountInv
<1>7. CASE \E ok \in BOOLEAN : RecvExit(ok)
  BY <1>7, RecvExitCount
<1>8. CASE \E m \in wire, ok \in BOOLEAN : RecvInOrder(m, ok)
  BY <1>8, RecvInOrderCount
<1>9. CASE \E m \in wire, ok \in BOOLEAN : RecvOutOfOrder(m, ok)
  BY <1>9, RecvOutOfOrderCount
<1>10. CASE RstInDrain
  <2>1. /\ pc = "drain" /\ pc' = "flush" /\ (exit' = "closed" => copyLen = 0)
        /\ UNCHANGED <<copyLen, ret, chOpen, pend, tcpState, buf>>
    BY <1>10 DEF RstInDrain, GoFlush, RstExit, tcpVars, histVars
  <2>2. Len(pend) = 0
    BY <2>1, EmptySeq DEF IInv, PhaseInv
  <2>3. QED BY <2>1, <2>2 DEF CountInv
<1>11. CASE RstInSend \/ RstForeign
  <2>1. /\ pc \in {"send", "idle"} /\ pc' = "idle" /\ chOpen
        /\ UNCHANGED <<exit, copyLen>> /\ (ret' = ret \/ ret' = "SENDCLOSED")
    BY <1>11 DEF IInv, PhaseInv, RstInSend, RstForeign, callVars
  <2>2. exit = "none" /\ ret # "CLOSED"
    BY <2>1, OpenNotClosed DEF IInv, TypeOK
  <2>3. QED BY <2>1, <2>2 DEF CountInv
<1>12. QED BY <1>1, <1>2, <1>3, <1>4, <1>5, <1>6, <1>7, <1>8, <1>9, <1>10, <1>11
           DEF Next, RecvCall, RecvFrame

-----------------------------------------------------------------------------
(* The ACK debt.                                                           *)

\* A remainder within two turns.
LEMMA SmallRemainder ==
    ASSUME NEW d \in Nat \ {0}, NEW a \in Nat
    PROVE  /\ a < d => a % d = a
           /\ d <= a /\ a < 2 * d => a % d = a - d
           /\ a < 2 * d => a % (2 * d) = a
<1>1. \A x, y \in Nat : y > 0 /\ x < y => x % y = x
  OBVIOUS
<1>2. \A x, y \in Nat : y > 0 /\ y <= x /\ x < 2 * y => x % y = x - y
  OBVIOUS
<1>3. d > 0 /\ 2 * d \in Nat /\ 2 * d > 0
  OBVIOUS
<1>4. QED BY <1>1, <1>2, <1>3

\* A segment that is counted leaves a debt, as long as the count stays below
\* the defer flag.
LEMMA CountedIsDebt ==
    ASSUME unacked \in 0 .. 2 * DeferBit - 1, unacked % DeferBit < DeferBit - 1
    PROVE  IncDebt(unacked) % DeferBit # 0
<1>1. DeferBit \in Nat \ {0} /\ unacked \in Nat /\ unacked < 2 * DeferBit
  BY ConstantsAssumption
<1>2. CASE unacked < DeferBit
  <2>1. unacked + 1 < DeferBit
    BY <1>1, <1>2, SmallRemainder
  <2>2. unacked + 1 \in Nat /\ unacked + 1 < 2 * DeferBit
    BY <1>1, <2>1
  <2>3. IncDebt(unacked) = unacked + 1
    BY <1>1, <2>2, SmallRemainder DEF IncDebt
  <2>4. (unacked + 1) % DeferBit = unacked + 1
    BY <1>1, <2>1, <2>2, SmallRemainder
  <2>5. QED BY <1>1, <2>3, <2>4
<1>3. CASE DeferBit <= unacked
  <2>1. unacked - DeferBit + 1 < DeferBit
    <3>1. unacked % DeferBit = unacked - DeferBit
      BY <1>1, <1>3, SmallRemainder
    <3>2. QED BY <1>1, <3>1
  <2>2. unacked + 1 \in Nat /\ DeferBit <= unacked + 1 /\ unacked + 1 < 2 * DeferBit
    BY <1>1, <1>3, <2>1
  <2>3. IncDebt(unacked) = unacked + 1
    BY <1>1, <2>2, SmallRemainder DEF IncDebt
  <2>4. PICK v \in Nat : v = unacked + 1
    BY <2>2
  <2>5. v % DeferBit = v - DeferBit
    BY <1>1, <2>2, <2>4, SmallRemainder
  <2>6. v - DeferBit # 0
    BY <1>1, <1>3, <2>4, \A x, y \in Nat : y <= x => x + 1 - y # 0
  <2>7. QED BY <2>3, <2>4, <2>5, <2>6
<1>4. QED BY <1>1, <1>2, <1>3

\* A buffer that is lent makes no smaller a window.
LEMMA WindowGrows ==
    ASSUME NEW off \in Nat, NEW len \in Nat, NEW lent \in Nat, off + len <= PendSize
    PROVE  Window(off, len, lent) >= Window(off, len, 0)
<1>1. PendSize \in Nat /\ WinCap \in Nat
  BY ConstantsAssumption
<1>2. \A a, b \in Nat : a <= b => MinOf(a, WinCap) <= MinOf(b, WinCap)
  BY <1>1 DEF MinOf
<1>3. Capacity(off, len, lent) \in Nat /\ Capacity(off, len, 0) \in Nat
  BY <1>1, WindowNat
<1>4. Capacity(off, len, 0) <= Capacity(off, len, lent)
  BY <1>1 DEF Capacity
<1>5. MinOf(Capacity(off, len, 0), WinCap) <= MinOf(Capacity(off, len, lent), WinCap)
  BY <1>2, <1>3, <1>4
<1>6. QED BY <1>1, <1>3, <1>5, WindowNat DEF Window

\* The segment that leaves is the last one; a refused one changes nothing.
LEMMA EmitLast ==
    ASSUME NEW ok \in BOOLEAN, NEW n, NEW wnd, Emit(ok, n, wnd)
    PROVE  /\ ok => last'.ack = n /\ last'.wnd = wnd
           /\ ~ok => last' = last
BY DEF Emit, txVars

\* FLUSH_RECV_ACK settles what is owed, or keeps it as debt.
LEMMA FlushSettles ==
    ASSUME IInv, DebtInv, chOpen, NEW ok \in BOOLEAN, Flush(ok), UNCHANGED <<rcvNxt, pend, pendOff>>
    PROVE  DebtInv'
<1>1. /\ unacked \in 0 .. 2 * DeferBit - 1 /\ DeferBit \in Nat \ {0} /\ dirty \in BOOLEAN
      /\ Window(pendOff, Len(pend), 0) \in Nat
  BY Lengths, WindowNat, ConstantsAssumption DEF IInv, TypeOK
<1>2. dirty' = FALSE
  BY DEF Flush
<1>3. unacked % DeferBit \in 0 .. DeferBit - 1
  BY <1>1, DebtRange
<1>4. CASE FlushDebt = 0
  <2>1. unacked % DeferBit = 0 /\ ~dirty
    BY <1>3, <1>4, FlushBelow
  <2>2. last' = last
    BY <1>4 DEF Flush, txVars
  <2>3. QED BY <2>1, <2>2 DEF DebtInv
<1>5. CASE FlushDebt # 0 /\ ok
  <2>1. Emit(ok, rcvNxt, Window(pendOff, Len(pend), 0))
    BY <1>5 DEF Flush
  <2>2. last'.ack = rcvNxt /\ last'.wnd = Window(pendOff, Len(pend), 0)
    BY <1>5, <2>1, EmitLast
  <2>3. QED BY <1>1, <2>2 DEF DebtInv
<1>6. CASE FlushDebt # 0 /\ ~ok
  <2>1. unacked' = FlushDebt
    BY <1>6 DEF Flush
  <2>2. FlushDebt \in Nat /\ FlushDebt < DeferBit
    BY <1>1, <1>3, FlushBelow
  <2>3. unacked' % DeferBit # 0
    BY <1>1, <1>6, <2>1, <2>2, SmallRemainder
  <2>4. QED BY <2>3 DEF DebtInv
<1>7. QED BY <1>4, <1>5, <1>6

\* Copying from the queue marks what it frees.
LEMMA CopyMarks ==
    ASSUME IInv, QueueInv, DebtInv, chOpen, NEW n \in Nat, CopyPending(n),
           UNCHANGED <<rcvNxt, last>>, unacked' = unacked
    PROVE  DebtInv'
<1> DEFINE k == MinOf(Len(pend), n)
<1>1. /\ k \in Nat /\ Len(pend') = Len(pend) - k
      /\ pendOff' = IF k = Len(pend) THEN 0 ELSE pendOff + k
      /\ dirty' = (dirty \/ k > 0)
      /\ Len(pend) \in Nat /\ pendOff \in Nat
  BY CopyPendingCounts, Lengths DEF IInv, TypeOK
<1> HIDE DEF k
<1>2. CASE k = 0
  <2>1. Len(pend') = Len(pend) /\ dirty' = dirty
    BY <1>1, <1>2 DEF IInv, TypeOK
  <2>2. pendOff' = pendOff
    BY <1>1, <1>2 DEF QueueInv
  <2>3. QED BY <2>1, <2>2 DEF DebtInv
<1>3. CASE k # 0
  <2>1. k > 0
    BY <1>1, <1>3
  <2>2. dirty'
    BY <1>1, <2>1, Zenon
  <2>3. QED BY <2>2 DEF DebtInv
<1>4. QED BY <1>2, <1>3

LEMMA RecvServeDebt ==
    ASSUME IInv, QueueInv, DebtInv, NEW ok \in BOOLEAN, RecvServe(ok)
    PROVE  DebtInv'
<1> DEFINE k == MinOf(Len(pend), space)
<1>1. chOpen /\ CopyPending(space) /\ space \in Nat /\ rcvNxt' = rcvNxt
  BY DEF IInv, TypeOK, PhaseInv, RecvServe
<1>2. CASE (space = k \/ closed) \/ ~ok
  <2>1. unacked' = unacked /\ last' = last
    BY <1>2 DEF RecvServe, Emit, txVars
  <2>2. QED BY <1>1, <2>1, CopyMarks
<1>3. CASE ~(space = k \/ closed) /\ ok
  <2>1. /\ k \in Nat /\ k <= space /\ Len(pend') = Len(pend) - k
        /\ pendOff' \in Nat /\ Len(pend') \in Nat /\ pendOff' + Len(pend') <= PendSize
    BY <1>1, CopyPendingCounts, CopyPendingKeeps
  <2>2. Emit(ok, rcvNxt, Window(pendOff', Len(pend'), space - k))
    BY <1>3 DEF RecvServe
  <2> HIDE DEF k
  <2>3. space - k \in Nat
    BY <1>1, <2>1
  <2>4. last'.ack = rcvNxt /\ last'.wnd = Window(pendOff', Len(pend'), space - k)
    BY <1>3, <2>2, EmitLast
  <2>5. Window(pendOff', Len(pend'), space - k) >= Window(pendOff', Len(pend'), 0)
    BY <2>1, <2>3, WindowGrows
  <2>6. QED BY <1>1, <2>4, <2>5 DEF DebtInv
<1>4. QED BY <1>2, <1>3

LEMMA RecvInOrderDebt ==
    ASSUME IInv, IInv', ~DebtMayWrap, NEW m \in wire, NEW ok \in BOOLEAN, RecvInOrder(m, ok)
    PROVE  DebtInv'
<1> DEFINE d == ToCaller(m)
<1>1. m \in wire \ {Rst} /\ InOrder(m) /\ pendOff' = pendOff
  BY DEF RecvInOrder
<1>2. Lent - d \in Nat
  <2>1. Lent \in Nat /\ d \in Nat /\ d <= Lent
    BY <1>1, StoredAmounts
  <2> HIDE DEF d
  <2>2. QED BY <2>1
<1>3. IncDebt(unacked) % DeferBit # 0
  BY CountedIsDebt DEF IInv, TypeOK, RecvInOrder
<1>4. CASE (tcpState' = "CLOSE_WAIT" \/ unacked < DeferBit) /\ ok
  <2>1. Emit(ok, rcvNxt', Window(pendOff, Len(pend'), Lent - d))
    BY <1>4 DEF RecvInOrder
  <2>2. last'.ack = rcvNxt' /\ last'.wnd = Window(pendOff, Len(pend'), Lent - d)
    BY <1>4, <2>1, EmitLast
  <2>3. pendOff \in Nat /\ Len(pend') \in Nat /\ pendOff + Len(pend') <= PendSize
    BY <1>1, LenProperties DEF IInv, TypeOK
  <2> HIDE DEF d
  <2>4. Window(pendOff, Len(pend'), Lent - d) >= Window(pendOff, Len(pend'), 0)
    BY <1>2, <2>3, WindowGrows
  <2>5. QED BY <1>1, <2>2, <2>4 DEF DebtInv
<1>5. CASE ~((tcpState' = "CLOSE_WAIT" \/ unacked < DeferBit) /\ ok)
  <2>1. unacked' = IncDebt(unacked)
    BY <1>5 DEF RecvInOrder, AfterAck
  <2>2. QED BY <1>3, <2>1 DEF DebtInv
<1>6. QED BY <1>4, <1>5

\* An answer that acknowledges RCV_NXT with the window of the moment.
LEMMA EmitKeepsDebt ==
    ASSUME IInv, DebtInv, chOpen, NEW ok \in BOOLEAN, NEW lent \in Nat,
           Emit(ok, rcvNxt, Window(pendOff, Len(pend), lent)),
           UNCHANGED <<rcvNxt, pend, pendOff, dirty>>,
           ~ok => unacked' = unacked
    PROVE  DebtInv'
<1>1. /\ pendOff \in Nat /\ Len(pend) \in Nat /\ pendOff + Len(pend) <= PendSize
  BY Lengths DEF IInv, TypeOK
<1>2. CASE ok
  <2>1. last'.ack = rcvNxt /\ last'.wnd = Window(pendOff, Len(pend), lent)
    BY <1>2, EmitLast
  <2>2. Window(pendOff, Len(pend), lent) >= Window(pendOff, Len(pend), 0)
    BY <1>1, WindowGrows
  <2>3. QED BY <2>1, <2>2 DEF DebtInv
<1>3. CASE ~ok
  <2>1. last' = last /\ unacked' = unacked
    BY <1>3, EmitLast
  <2>2. QED BY <2>1 DEF DebtInv
<1>4. QED BY <1>2, <1>3

LEMMA DebtStep ==
    ASSUME IInv, IInv', QueueInv, DebtInv, ~DebtMayWrap, Next
    PROVE  DebtInv'
<1>1. CASE \/ Peer \/ LoseAck \/ RecvTimeout \/ RecvCancel
           \/ SendWait("send", "idle") \/ SendWait("send", "susp") \/ SendWait("susp", "send")
  <2>1. Peer \/ LoseAck => UNCHANGED <<tcpVars, chanVars, last>>
    BY PeerTouchesNothing
  <2>2. RecvTimeout \/ RecvCancel => UNCHANGED <<tcpVars, chanVars, last>>
    BY DEF RecvTimeout, RecvCancel, txVars
  <2>3. \A from, to : SendWait(from, to) => UNCHANGED <<tcpVars, chanVars, last>>
    BY DEF SendWait, txVars
  <2>4. UNCHANGED <<tcpVars, chanVars, last>>
    BY <1>1, <2>1, <2>2, <2>3
  <2>5. QED BY <2>4 DEF DebtInv, tcpVars, chanVars
<1>2. CASE RstInDrain \/ RstInSend \/ RstForeign
  <2>1. ~chOpen' \/ UNCHANGED <<tcpVars, dirty, last, pend, pendOff, chOpen>>
    BY <1>2 DEF RstInDrain, RstInSend, RstForeign, txVars
  <2>2. QED BY <2>1 DEF DebtInv, tcpVars
<1>3. CASE \E size \in CallSizes, ok \in BOOLEAN : RecvEnter(size, ok)
  BY <1>3, FlushSettles DEF RecvEnter
<1>4. CASE \E ok \in BOOLEAN : RecvServe(ok)
  BY <1>4, RecvServeDebt
<1>5. CASE \E size \in CallSizes : RecvSuspended(size)
  <2>1. PICK size \in Nat : CopyPending(size) /\ chOpen /\ UNCHANGED <<rcvNxt, last, unacked>>
    BY <1>5, ConstantsAssumption DEF IInv, PhaseInv, RecvSuspended, tcpVars, txVars
  <2>2. QED BY <2>1, CopyMarks
<1>6. CASE \E ok \in BOOLEAN : RecvExit(ok)
  BY <1>6, FlushSettles DEF IInv, PhaseInv, RecvExit
<1>7. CASE \E m \in wire, ok \in BOOLEAN : RecvInOrder(m, ok)
  BY <1>7, RecvInOrderDebt
<1>8. CASE \E m \in wire, ok \in BOOLEAN : RecvOutOfOrder(m, ok)
  <2>1. PICK ok \in BOOLEAN : /\ Emit(ok, rcvNxt, Window(pendOff, Len(pend), Lent))
                              /\ unacked' = IF ok THEN Scope(unacked) ELSE unacked
                              /\ chOpen /\ UNCHANGED <<rcvNxt, pend, pendOff, dirty>>
    BY <1>8 DEF RecvOutOfOrder, InRecv
  <2>2. Lent \in Nat
    BY DEF IInv, TypeOK, Lent
  <2>3. QED BY <2>1, <2>2, EmitKeepsDebt
<1>9. CASE \E ok \in BOOLEAN : SendStart(ok)
  <2>1. PICK ok \in BOOLEAN : /\ Emit(ok, rcvNxt, Window(pendOff, Len(pend), 0))
                              /\ chOpen /\ UNCHANGED <<rcvNxt, pend, pendOff, dirty, unacked>>
    BY <1>9 DEF SendStart, tcpVars, chanVars
  <2>2. QED BY <2>1, EmitKeepsDebt
<1>10. QED BY <1>1, <1>2, <1>3, <1>4, <1>5, <1>6, <1>7, <1>8, <1>9
           DEF Next, RecvCall, RecvFrame, SendCall

-----------------------------------------------------------------------------
(* What a return accounts for.                                             *)

LEMMA LossStep ==
    ASSUME IInv, CountInv, Next, ret' \notin {"HW", "CANCEL"}
    PROVE  Unreported' = Unreported
<1>1. Len(buf) \in Nat /\ reported \in Nat /\ copyLen \in Nat
  BY Lengths DEF IInv, TypeOK
<1>2. CASE \/ Peer \/ LoseAck \/ SendCall \/ RecvTimeout \/ RecvCancel
           \/ RstInDrain \/ RstInSend \/ RstForeign
           \/ \E m \in wire, ok \in BOOLEAN : RecvOutOfOrder(m, ok)
  <2>1. RstInSend => UNCHANGED <<buf, reported, copyLen>>
    BY DEF RstInSend, histVars
  <2>2. ~RstInSend => UNCHANGED <<buf, reported, copyLen>>
    BY <1>2, MovesNothing
  <2>3. UNCHANGED <<buf, reported, copyLen>>
    BY <2>1, <2>2
  <2>4. QED BY <2>3 DEF Unreported
<1>3. CASE \E size \in CallSizes, ok \in BOOLEAN : RecvEnter(size, ok)
  <2>1. UNCHANGED <<buf, reported, copyLen>>
    BY <1>3 DEF RecvEnter, Return
  <2>2. QED BY <2>1 DEF Unreported
<1>4. CASE \E ok \in BOOLEAN : RecvServe(ok)
  <2> DEFINE k == MinOf(Len(pend), space)
  <2>1. chOpen /\ pc = "serve" /\ CopyPending(space) /\ space \in Nat
    BY <1>4 DEF IInv, TypeOK, PhaseInv, RecvServe
  <2>2. k \in Nat /\ Len(buf') = Len(buf) + k
    BY <2>1, CopyPendingCounts
  <2>3. copyLen' = k /\ reported' = reported
    BY <1>4 DEF RecvServe, Return
  <2>4. copyLen = 0
    BY <2>1 DEF CountInv
  <2> HIDE DEF k
  <2>5. QED BY <1>1, <2>2, <2>3, <2>4 DEF Unreported
<1>5. CASE \E size \in CallSizes : RecvSuspended(size)
  <2>1. PICK size \in CallSizes : RecvSuspended(size)
    BY <1>5
  <2> DEFINE k == MinOf(Len(pend), size)
  <2>2. chOpen /\ CopyPending(size) /\ size \in Nat /\ reported' = reported + k /\ copyLen' = copyLen
    BY <2>1, ConstantsAssumption DEF IInv, PhaseInv, RecvSuspended
  <2>3. k \in Nat /\ Len(buf') = Len(buf) + k
    BY <2>2, CopyPendingCounts
  <2> HIDE DEF k
  <2>4. QED BY <1>1, <2>2, <2>3 DEF Unreported
<1>6. CASE \E ok \in BOOLEAN : RecvExit(ok)
  <2>1. pc = "flush" /\ exit \in {"drain", "closed", "cancel"} /\ buf' = buf
    BY <1>6 DEF IInv, TypeOK, RecvExit
  <2>2. copyLen' = 0 /\ \/ exit = "drain" /\ reported' = reported + copyLen
                        \/ exit = "closed" /\ reported' = reported + 0
    BY <1>6, <2>1 DEF RecvExit, Return
  <2>3. exit = "closed" => copyLen = 0
    BY DEF CountInv
  <2>4. QED BY <1>1, <2>1, <2>2, <2>3 DEF Unreported
<1>7. CASE \E m \in wire, ok \in BOOLEAN : RecvInOrder(m, ok)
  <2>1. PICK d \in Nat : Len(buf') = Len(buf) + d /\ copyLen' = copyLen + d /\ reported' = reported
    BY <1>7, StoredCounts
  <2>2. QED BY <1>1, <2>1 DEF Unreported
<1>8. QED BY <1>2, <1>3, <1>4, <1>5, <1>6, <1>7 DEF Next, RecvCall, RecvFrame

-----------------------------------------------------------------------------
(* The theorems of the second invariant.                                   *)

LEMMA InitJInv == Init => JInv
<1> SUFFICES ASSUME Init PROVE JInv
  OBVIOUS
<1>1. Len(pend) = 0 /\ pendOff = 0
  BY EmptySeq DEF Init
<1>2. Window(0, 0, 0) \in Nat
  BY WindowNat, ConstantsAssumption, 0 + 0 <= PendSize
<1>3. QueueInv /\ CountInv
  BY <1>1 DEF Init, QueueInv, CountInv
<1>4. DebtInv
  BY <1>1, <1>2 DEF Init, DebtInv
<1>5. QED BY <1>3, <1>4 DEF JInv

LEMMA NextJInv == IInv /\ IInv' /\ JInv /\ [Next]_vars => JInv'
<1> SUFFICES ASSUME IInv, IInv', JInv, [Next]_vars PROVE JInv'
  OBVIOUS
<1>1. CASE Next
  BY <1>1, QueueStep, CountStep, DebtStep DEF JInv
<1>2. CASE UNCHANGED vars
  BY <1>2 DEF JInv, QueueInv, CountInv, DebtInv,
              vars, tcpVars, chanVars, callVars, histVars, txVars, peerVars
<1>3. QED BY <1>1, <1>2

\* The second invariant holds in every reachable state.
THEOREM InductiveToo == Spec => []JInv
<1>1. IInv /\ JInv /\ [Next]_vars /\ IInv' => JInv'
  BY NextJInv
<1>2. QED BY <1>1, InitJInv, Inductive, PTL DEF Spec

\* RECV tells of the close only when nothing is left to read, and after a FIN
\* only when the whole stream has been written to callers' buffers.
THEOREM ClosesAfterData == Spec => []ClosedAfterData
<1>1. IInv /\ JInv => ClosedAfterData
  BY EmptySeq DEF IInv, TypeOK, JInv, CountInv, ClosedAfterData
<1>2. QED BY <1>1, Inductive, InductiveToo, PTL

\* While the debt of a channel stays below the defer flag, no accepted segment
\* is forgotten: without debt the last ACK that left acknowledges RCV_NXT.
THEOREM ForgetsNoAck ==
    ASSUME ~DebtMayWrap
    PROVE  Spec => []NoDebtMeansAcked
<1>1. 0 % DeferBit = 0
  BY ConstantsAssumption, SmallRemainder
<1>2. JInv => NoDebtMeansAcked
  BY <1>1 DEF JInv, DebtInv, NoDebtMeansAcked
<1>3. QED BY <1>2, InductiveToo, PTL

\* Queue space that RECV freed is announced, or marked to be.
THEOREM AnnouncesSpace ==
    ASSUME ~DebtMayWrap
    PROVE  Spec => []FreedSpaceAnnounced
<1>1. 0 % DeferBit = 0
  BY ConstantsAssumption, SmallRemainder
<1>2. JInv => FreedSpaceAnnounced
  BY <1>1 DEF JInv, DebtInv, FreedSpaceAnnounced
<1>3. QED BY <1>2, InductiveToo, PTL

\* A call that succeeds, or reports the close, accounts for every byte it
\* wrote: bytes go uncounted only with NERR_HW and NERR_CANCEL.
THEOREM LosesOnlyOnFailure == Spec => LossOnlyOnFailure
<1>1. IInv /\ JInv /\ [Next]_vars => [Unreported' # Unreported => ret' \in {"HW", "CANCEL"}]_vars
  BY LossStep DEF JInv
<1>2. QED BY <1>1, Inductive, InductiveToo, PTL DEF Spec, LossOnlyOnFailure

=============================================================================
