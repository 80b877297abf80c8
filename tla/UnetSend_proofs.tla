--------------------------- MODULE UnetSend_proofs ---------------------------
(***************************************************************************)
(* Proofs about UnetSend for every stream length, segment size, number of  *)
(* attempts, budget, slice and network bound, and an application that does *)
(* not call SEND again after a SEND that failed: type correctness, the     *)
(* order of the bytes at the peer, the exactness of DE, the two resets of  *)
(* CLOSE, and that the sender implements ByteStream.                       *)
(***************************************************************************)
EXTENDS UnetSend, SequenceTheorems, TLAPS

-----------------------------------------------------------------------------
(* The inductive invariant.                                                *)

Segment == [kind : {"data", "fin", "rst"}, seq : Nat, first : Nat, len : Nat]
Reply   == [kind : {"ack", "fin", "rst"}, ack : Nat]
Result  == [op : {"none", "send", "close"},
            status : {"OK", "AGAIN", "CANCEL", "HW", "CLOSED", "SEND", "TIMEOUT"},
            de : Int, len : Nat]

TypeInv == TypeOK /\ wire \subseteq Segment /\ acks \subseteq Reply /\ last \in Result

\* How far the peer has acknowledged at most: what it took, and the end.
Expected == AckNumber(Len(got), peer)

\* Once CLOSE has sent a FIN or the channel is released, no byte is put on
\* the stream any more.
Over == phase \in {"fin", "closed"}

\* Every byte in flight is the one its number says and has been put on the
\* stream; a FIN lies behind the last of them; nothing is acknowledged that
\* the peer does not have.
NetInv ==
    /\ \A s \in wire : s.kind = "data" => s.first = s.seq + 1 /\ s.seq + s.len <= put
    /\ \A s \in wire : s.kind = "fin" => Over /\ s.seq = put
    /\ \A a \in acks : a.ack <= Expected

PeerInv ==
    /\ PeerGetsPrefix
    /\ Len(got) <= put
    /\ peer = "ended" => Over /\ Len(got) = put
    /\ sndUna <= Expected
    /\ pos <= Len(got)

\* Stop and wait: a chunk starts where everything is acknowledged and
\* reported, and is all that is in flight until it is.
CallInv ==
    /\ failed => phase \in {"idle", "fin", "closed"}
    /\ phase = "idle" => sndNxt = put /\ pos <= sndUna /\ (~failed => pos = put)
    /\ phase = "chunk" =>
          /\ sndNxt = put /\ sndUna = put
          /\ pos + call.done = put /\ call.done < call.len
    /\ phase \in {"send", "again"} =>
          /\ sendSeq = pos + call.done
          /\ target = sendSeq + call.chunk
          /\ sndNxt = target /\ put = target
          /\ sendSeq <= sndUna
          /\ call.chunk >= 1 /\ call.done + call.chunk <= call.len
          /\ retryLeft \in 1 .. Attempts
    /\ phase = "fin" =>
          /\ target = put + 1 /\ sndNxt = target
          /\ put <= sndUna /\ retryLeft >= 1

\* What the application was told, or is told while a SEND is suspended.
ResultInv ==
    /\ last.op = "send" =>
          /\ last.de \in 0 .. last.len
          /\ last.status = "OK" <=> last.de = last.len
    /\ phase \in {"chunk", "send"} => last.op # "send"
    /\ phase = "again" => pos + last.de = sndUna

\* With a peer that takes segments whole, whatever it has or acknowledges
\* ends in front of the newest chunk or behind it.
WholeInv ==
    ~takesPart /\ ~Over =>
        /\ sendSeq <= put /\ sendSeq <= Len(got)
        /\ Len(got) \in {sendSeq, put}
        /\ sndUna \in {sendSeq, put}
        /\ \A s \in wire : s.kind = "data" => s.seq + s.len <= sendSeq \/ s.seq + s.len = put
        /\ \A a \in acks : a.ack <= sendSeq \/ a.ack = put

IInv == TypeInv /\ NetInv /\ PeerInv /\ CallInv /\ ResultInv /\ WholeInv

\* The lengths and numbers the invariant speaks of.
LEMMA Numbers ==
    ASSUME TypeInv
    PROVE  /\ Len(got) \in Nat /\ Expected \in Nat
           /\ Len(got) <= Expected /\ (peer # "ended" => Expected = Len(got))
           /\ call.len \in Nat /\ call.done \in Nat /\ call.chunk \in Nat
           /\ last.de \in Int /\ last.len \in Nat
<1>1. Len(got) \in Nat
  BY LenProperties DEF TypeInv, TypeOK
<1>2. QED BY <1>1 DEF TypeInv, TypeOK, Expected, AckNumber, Result

\* What the network holds once frames are sent was there or is one of them.
LEMMA OntoOld ==
    ASSUME NEW net, NEW frames, NEW max, NEW n \in Onto(net, frames, max)
    PROVE  \A s \in n : s \in net \/ s \in frames
BY DEF Onto

\* UPDATE_SEND_ACK never goes back, never passes what is outstanding, never
\* counts what the peer does not have, and keeps to the chunk's two ends.
LEMMA AckedExact ==
    ASSUME IInv, NEW m \in acks
    PROVE  /\ Acked(m.ack) \in Nat
           /\ sndUna <= Acked(m.ack) /\ Acked(m.ack) <= sndNxt
           /\ Acked(m.ack) <= Expected
           /\ ~takesPart /\ ~Over => Acked(m.ack) \in {sendSeq, put}
<1>1. m.ack \in Nat /\ m.ack <= Expected /\ Expected \in Nat
  BY Numbers DEF IInv, TypeInv, Reply, NetInv
<1>2. /\ sndUna \in Nat /\ sndNxt \in Nat /\ sendSeq \in Nat /\ put \in Nat
      /\ sndUna <= sndNxt /\ sndUna <= Expected
  BY DEF IInv, TypeInv, TypeOK, PeerInv
<1>3. ~takesPart /\ ~Over => Acked(m.ack) \in {sendSeq, put}
  <2>1. ~takesPart /\ ~Over =>
          /\ sndUna \in {sendSeq, put} /\ sendSeq <= put
          /\ m.ack <= sendSeq \/ m.ack = put
    BY DEF IInv, WholeInv
  <2>2. QED BY <1>1, <1>2, <2>1 DEF Acked
<1>4. QED BY <1>1, <1>2, <1>3 DEF Acked

\* No failure is reported as OK.
LEMMA FailureIsNotOK ==
    ASSUME NEW f
    PROVE  SendStatus(f) \in {"CANCEL", "HW", "CLOSED", "SEND"}
BY DEF SendStatus

\* SEND_PROGRESS of a chunk that is not confirmed is less than the call's
\* length and takes the count of reported bytes exactly to una.
LEMMA ProgressOfPart ==
    ASSUME NEW p \in Nat, NEW done \in Nat, NEW chunk \in Nat, NEW len \in Nat,
           NEW seq \in Nat, NEW una \in Nat,
           seq = p + done, seq <= una, una < seq + chunk, done + chunk <= len
    PROVE  /\ done + una - seq \in 0 .. len
           /\ done + una - seq # len
           /\ p + (done + una - seq) = una
           /\ done + una - seq < done + chunk
OBVIOUS

-----------------------------------------------------------------------------
(* The pieces of SEND.                                                     *)

\* SEND returns, or goes on to its next chunk, with the acknowledgement una.
LEMMA SendHearsStep ==
    ASSUME IInv, phase = "send",
           NEW una \in Nat, sndUna <= una, una <= sndNxt, una <= Expected,
           ~takesPart => una \in {sendSeq, put},
           NEW f, SendHears(una, f),
           sndUna' = una, closeWait' \in BOOLEAN,
           UNCHANGED <<sndNxt, waitVars, put, wire, acks, peerVars>>
    PROVE  IInv'
<1>1. /\ sendSeq = pos + call.done /\ target = sendSeq + call.chunk
      /\ sndNxt = target /\ put = target /\ sendSeq <= una /\ una <= target
      /\ call.chunk >= 1 /\ call.done + call.chunk <= call.len
      /\ ~failed /\ peer # "ended" /\ una <= Len(got) /\ ~Over
  BY SMTT(30), Numbers DEF IInv, TypeInv, TypeOK, CallInv, PeerInv, Over
<1>2. /\ sndUna \in Nat /\ sndNxt \in Nat /\ sendSeq \in Nat /\ target \in Nat
      /\ pos \in Nat /\ put \in Nat /\ Len(got) \in Nat
      /\ call \in [len : Nat, done : Nat, chunk : Nat]
      /\ call.len \in Nat /\ call.done \in Nat /\ call.chunk \in Nat
      /\ call.done + call.chunk \in Nat
  BY Numbers DEF IInv, TypeInv, TypeOK
<1>3. /\ NoCall \in [len : Nat, done : Nat, chunk : Nat]
  BY DEF NoCall
<1>4. NetInv'
  BY <1>1 DEF IInv, NetInv, Over, Expected, AckNumber, peerVars
<1>5. WholeInv'
  BY <1>1, <1>2 DEF IInv, WholeInv, Over, waitVars, peerVars
<1>6. CASE una # target
  <2> DEFINE de == call.done + una - sendSeq
  <2>1. /\ last' = [op |-> "send", status |-> SendStatus(f), de |-> de, len |-> call.len]
        /\ phase' \in {"idle", "closed"} /\ failed' = TRUE
        /\ call' = NoCall /\ pos' = pos + de
    BY <1>6 DEF SendHears, Confirmed, SendFails, Progress
  <2>2. de \in 0 .. call.len /\ de # call.len /\ pos' = una
    <3>1. una < target /\ pos' = pos + de
      BY <1>1, <1>2, <1>6, <2>1
    <3>2. /\ pos \in Nat /\ call.done \in Nat /\ call.chunk \in Nat /\ call.len \in Nat
          /\ sendSeq \in Nat /\ sendSeq = pos + call.done /\ sendSeq <= una
          /\ call.done + call.chunk <= call.len /\ una < sendSeq + call.chunk
      BY <1>1, <1>2, <3>1
    <3>3. /\ call.done + una - sendSeq \in 0 .. call.len
          /\ call.done + una - sendSeq # call.len
          /\ pos + (call.done + una - sendSeq) = una
      BY <3>2, ProgressOfPart
    <3>4. QED BY <3>1, <3>3
  <2>3. /\ last' \in Result /\ last'.op = "send"
        /\ last'.de = de /\ last'.len = call.len /\ last'.status # "OK"
    BY <1>2, <2>1, <2>2, FailureIsNotOK DEF Result
  <2>4. TypeInv'
    BY <1>2, <1>3, <2>1, <2>2, <2>3 DEF IInv, TypeInv, TypeOK, Phases, waitVars, peerVars
  <2>5. PeerInv'
    BY <1>1, <1>2, <2>2 DEF IInv, PeerInv, PeerGetsPrefix, Expected, AckNumber, peerVars
  <2>6. CallInv'
    <3>1. /\ phase' \in {"idle", "closed"} /\ failed' = TRUE
          /\ pos' <= sndUna' /\ sndNxt' = put'
      BY <1>1, <2>1, <2>2
    <3>2. QED BY <3>1 DEF CallInv
  <2>7. ResultInv'
    BY <1>2, <2>1, <2>2, <2>3 DEF ResultInv
  <2>8. QED BY <1>4, <1>5, <2>4, <2>5, <2>6, <2>7 DEF IInv
<1>7. CASE una = target /\ call.done + call.chunk < call.len
  <2>1. /\ phase' = "chunk" /\ UNCHANGED <<last, pos, failed>>
        /\ call' = [call EXCEPT !.done = call.done + call.chunk]
    BY <1>2, <1>7 DEF SendHears, Confirmed, ChunkSent
  <2>2. /\ call' \in [len : Nat, done : Nat, chunk : Nat]
        /\ call'.len = call.len /\ call'.done = call.done + call.chunk
    BY <1>2, <2>1
  <2>3. TypeInv'
    BY <1>2, <2>1, <2>2 DEF IInv, TypeInv, TypeOK, Phases, waitVars, peerVars
  <2>4. PeerInv'
    BY <1>1, <1>2, <2>1 DEF IInv, PeerInv, PeerGetsPrefix, Expected, AckNumber, peerVars
  <2>5. CallInv' /\ ResultInv'
    BY SMTT(30), <1>1, <1>2, <1>7, <2>1, <2>2 DEF IInv, CallInv, ResultInv
  <2>6. QED BY <1>4, <1>5, <2>3, <2>4, <2>5 DEF IInv
<1>8. CASE una = target /\ call.done + call.chunk = call.len
  <2>1. /\ last' = [op |-> "send", status |-> "OK", de |-> call.len, len |-> call.len]
        /\ phase' = "idle" /\ call' = NoCall /\ pos' = pos + call.len /\ UNCHANGED failed
    BY <1>2, <1>8 DEF SendHears, Confirmed, ChunkSent
  <2>2. pos' = una
    BY <1>1, <1>2, <1>8, <2>1
  <2>3. /\ last' \in Result /\ last'.op = "send"
        /\ last'.de = call.len /\ last'.len = call.len /\ last'.status = "OK"
    BY <1>2, <2>1 DEF Result
  <2>4. TypeInv'
    BY <1>2, <1>3, <2>1, <2>2, <2>3 DEF IInv, TypeInv, TypeOK, Phases, waitVars, peerVars
  <2>5. PeerInv'
    BY <1>1, <1>2, <2>2 DEF IInv, PeerInv, PeerGetsPrefix, Expected, AckNumber, peerVars
  <2>6. CallInv' /\ ResultInv'
    BY <1>1, <1>2, <1>8, <2>1, <2>2, <2>3 DEF CallInv, ResultInv
  <2>7. QED BY <1>4, <1>5, <2>4, <2>5, <2>6 DEF IInv
<1>9. QED BY <1>1, <1>2, <1>6, <1>7, <1>8

\* A data frame of the chunk joins the network.
LEMMA DataSent ==
    ASSUME NetInv, TypeInv, NEW seq \in Nat, NEW len \in Nat, NEW p \in Nat, NEW done \in Nat,
           seq = p + done, ~Over, phase' = "send",
           wire' \in Onto(wire, {Data(seq, Payload(p, done), len)}, WireMax),
           put' \in Nat, put <= put', seq + len <= put', UNCHANGED <<acks, peerVars>>
    PROVE  /\ NetInv' /\ wire' \subseteq Segment
           /\ \A s \in wire' : s \in wire \/ s.seq + s.len = seq + len
<1> DEFINE new == Data(seq, Payload(p, done), len)
<1>1. /\ new \in Segment /\ new.kind = "data" /\ new.seq = seq /\ new.len = len
      /\ new.first = seq + 1
  BY DEF Data, Payload, Segment
<1>2. \A s \in wire' : s \in wire \/ s = new
  BY OntoOld
<1>3. \A s \in wire : s \in Segment /\ s.seq \in Nat /\ s.len \in Nat
  BY DEF TypeInv, Segment
<1>4. put \in Nat
  BY DEF TypeInv, TypeOK
<1>5. \A s \in wire' : s.kind = "data" => s.first = s.seq + 1 /\ s.seq + s.len <= put'
  BY <1>1, <1>2, <1>3, <1>4 DEF NetInv
<1>6. \A s \in wire' : s.kind # "fin"
  BY <1>1, <1>2 DEF NetInv, Over
<1>7. NetInv'
  BY <1>5, <1>6 DEF NetInv, Expected, AckNumber, peerVars
<1>8. QED BY <1>1, <1>2, <1>3, <1>7

\* The chunk loop's call of TCP.SEND preserves the invariant: the new chunk
\* starts where all is acknowledged, and a failed first transmission takes
\* nothing onto the stream.
LEMMA SendChunkStep ==
    ASSUME IInv, NEW txOk \in BOOLEAN, SendChunk(txOk)
    PROVE  IInv'
<1> DEFINE n == Smaller(MSS, call.len - call.done)
<1>1. /\ phase = "chunk" /\ sndNxt = put /\ sndUna = put
      /\ pos + call.done = put /\ call.done < call.len
      /\ ~failed /\ peer # "ended" /\ ~Over /\ put <= Len(got) /\ Len(got) <= put
  BY Numbers DEF SendChunk, IInv, TypeInv, TypeOK, CallInv, PeerInv, Over
<1>2. /\ sndUna \in Nat /\ sndNxt \in Nat /\ put \in Nat /\ pos \in Nat /\ Len(got) \in Nat
      /\ call \in [len : Nat, done : Nat, chunk : Nat]
      /\ call.len \in Nat /\ call.done \in Nat
  BY Numbers DEF IInv, TypeInv, TypeOK
<1>3. n \in Nat /\ n >= 1 /\ call.done + n <= call.len
  BY <1>1, <1>2, SendAssumption DEF Smaller
<1>4. /\ Try(put, n, Attempts, txOk)
      /\ sendSeq' = put /\ target' = put + n /\ retryLeft' = Attempts /\ msLeft' = AttemptMs
      /\ UNCHANGED <<sndUna, slice, closeWait, acks, peerVars>>
  BY <1>1 DEF SendChunk, Try, Target
<1>5. Attempts \in 1 .. Attempts /\ Attempts \in Nat /\ AttemptMs \in 0 .. AttemptMs
  BY SendAssumption
<1>6. \A a \in acks : a.ack \in Nat /\ a.ack <= put
  BY <1>1, <1>2, Numbers DEF IInv, TypeInv, Reply, NetInv
<1>7. \A s \in wire : s.kind = "data" => s.seq \in Nat /\ s.len \in Nat /\ s.seq + s.len <= put
  BY DEF IInv, TypeInv, Segment, NetInv
<1>8. CASE txOk
  <2>1. /\ wire' \in Onto(wire, {Data(put, Payload(pos, call.done), n)}, WireMax)
        /\ put' = Larger(put, put + n) /\ sndNxt' = put + n /\ phase' = "send"
        /\ call' = [call EXCEPT !.chunk = n] /\ UNCHANGED <<pos, last, failed>>
    BY <1>4, <1>8 DEF Try, Target
  <2>2. put' = put + n /\ put' \in Nat
    BY <1>2, <1>3, <2>1 DEF Larger
  <2>3. /\ call' \in [len : Nat, done : Nat, chunk : Nat]
        /\ call'.len = call.len /\ call'.done = call.done /\ call'.chunk = n
    BY <1>2, <1>3, <2>1
  <2>4. /\ NetInv' /\ wire' \subseteq Segment
        /\ \A s \in wire' : s \in wire \/ s.seq + s.len = put + n
    <3>1. /\ NetInv /\ TypeInv /\ put \in Nat /\ n \in Nat /\ pos \in Nat /\ call.done \in Nat
          /\ put = pos + call.done /\ put <= put' /\ put + n <= put'
      BY <1>1, <1>2, <1>3, <2>2 DEF IInv
    <3>2. UNCHANGED <<acks, peerVars>>
      BY <1>4
    <3>3. QED BY SMTT(30), <1>1, <2>1, <2>2, <3>1, <3>2, DataSent
  <2>5. TypeInv'
    <3>1. /\ sndNxt' \in Nat /\ target' \in Nat /\ sendSeq' \in Nat /\ sndUna' <= sndNxt'
      BY <1>1, <1>2, <1>3, <1>4, <2>1
    <3>2. /\ retryLeft' \in Nat /\ msLeft' \in 0 .. AttemptMs /\ phase' \in Phases
      BY <1>4, <1>5, <2>1 DEF Phases
    <3>3. QED BY <1>4, <2>1, <2>2, <2>3, <2>4, <3>1, <3>2 DEF IInv, TypeInv, TypeOK, peerVars
  <2>6. PeerInv'
    BY <1>1, <1>2, <1>3, <1>4, <2>1, <2>2
       DEF IInv, PeerInv, PeerGetsPrefix, Expected, AckNumber, peerVars, Over
  <2>7. CallInv'
    BY <1>1, <1>2, <1>3, <1>4, <1>5, <2>1, <2>2, <2>3 DEF CallInv
  <2>8. ResultInv'
    BY <1>1, <2>1 DEF IInv, ResultInv
  <2>9. WholeInv'
    <3>1. /\ Len(got') = put /\ sndUna' = put /\ sendSeq' = put /\ put <= put'
      BY <1>1, <1>2, <1>3, <1>4, <2>2 DEF peerVars
    <3>2. \A a \in acks' : a.ack <= put
      BY <1>4, <1>6
    <3>3. \A s \in wire' : s.kind = "data" => s.seq + s.len <= put \/ s.seq + s.len = put'
      BY <1>7, <2>2, <2>4
    <3>4. QED BY <3>1, <3>2, <3>3, <1>2 DEF WholeInv
  <2>10. QED BY <2>4, <2>5, <2>6, <2>7, <2>8, <2>9 DEF IInv
<1>9. CASE ~txOk
  <2>1. /\ sndNxt' = Rewound(sndUna, put + n, Attempts)
        /\ SendFails("F_SEND", sndUna, put) /\ UNCHANGED <<wire, put>>
    BY <1>4, <1>9 DEF Try, Target
  <2>2. /\ phase' = "idle" /\ failed' = TRUE /\ call' = NoCall
        /\ pos' = pos + (call.done + (sndUna - put))
        /\ last' = [op |-> "send", status |-> SendStatus("F_SEND"),
                    de |-> call.done + (sndUna - put), len |-> call.len]
    BY <2>1 DEF SendFails, Progress
  <2>3. /\ call.done + (sndUna - put) = call.done /\ pos' = put /\ sndNxt' = put
    BY <1>1, <1>2, <2>1, <2>2 DEF Rewound
  <2>4. /\ last' \in Result /\ last'.op = "send"
        /\ last'.de = call.done /\ last'.len = call.len /\ last'.status # "OK"
    BY <1>2, <2>2, <2>3, FailureIsNotOK DEF Result
  <2>5. NoCall \in [len : Nat, done : Nat, chunk : Nat]
    BY DEF NoCall
  <2>6. TypeInv'
    <3>1. /\ sndNxt' \in Nat /\ target' \in Nat /\ sendSeq' \in Nat /\ pos' \in Nat
          /\ sndUna' <= sndNxt'
      BY <1>1, <1>2, <1>3, <1>4, <2>3
    <3>2. /\ retryLeft' \in Nat /\ msLeft' \in 0 .. AttemptMs /\ phase' \in Phases
          /\ failed' \in BOOLEAN
      BY <1>4, <1>5, <2>2 DEF Phases
    <3>3. call' \in [len : Nat, done : Nat, chunk : Nat]
      BY <2>2, <2>5
    <3>4. QED BY <1>4, <2>1, <2>4, <3>1, <3>2, <3>3 DEF IInv, TypeInv, TypeOK, peerVars
  <2>7. NetInv'
    BY <1>1, <1>4, <2>1 DEF IInv, NetInv, Over, Expected, AckNumber, peerVars
  <2>8. PeerInv'
    BY <1>1, <1>2, <1>4, <2>1, <2>2, <2>3
       DEF IInv, PeerInv, PeerGetsPrefix, Expected, AckNumber, peerVars, Over
  <2>9. CallInv'
    BY <1>1, <1>2, <1>4, <2>1, <2>2, <2>3 DEF CallInv
  <2>10. ResultInv'
    BY <1>1, <1>2, <2>2, <2>4 DEF ResultInv
  <2>11. WholeInv'
    <3>1. /\ Len(got') = put /\ sndUna' = put /\ sendSeq' = put /\ put' = put
      BY <1>1, <1>2, <1>4, <2>1 DEF peerVars
    <3>2. QED BY <1>2, <1>4, <1>6, <1>7, <2>1, <3>1 DEF WholeInv
  <2>12. QED BY <2>6, <2>7, <2>8, <2>9, <2>10, <2>11 DEF IInv
<1>10. QED BY <1>8, <1>9

\* A retransmission preserves the invariant: it repeats the chunk, and when it
\* fails SND_NXT stays behind what an earlier attempt put on the wire.
LEMMA SendRetryStep ==
    ASSUME IInv, phase = "send", sndUna # target, retryLeft - 1 # 0,
           NEW txOk \in BOOLEAN, Try(sendSeq, call.chunk, retryLeft - 1, txOk)
    PROVE  IInv'
<1>1. /\ sendSeq = pos + call.done /\ target = sendSeq + call.chunk
      /\ sndNxt = target /\ put = target /\ sendSeq <= sndUna /\ sndUna < target
      /\ call.chunk >= 1 /\ call.done + call.chunk <= call.len
      /\ retryLeft \in 1 .. Attempts
      /\ ~failed /\ peer # "ended" /\ ~Over
  BY DEF IInv, TypeInv, TypeOK, CallInv, PeerInv, Over
<1>2. /\ sndUna \in Nat /\ sndNxt \in Nat /\ sendSeq \in Nat /\ target \in Nat
      /\ put \in Nat /\ pos \in Nat /\ Len(got) \in Nat /\ sndUna <= Len(got)
      /\ call \in [len : Nat, done : Nat, chunk : Nat]
      /\ call.len \in Nat /\ call.done \in Nat /\ call.chunk \in Nat
  BY <1>1, Numbers DEF IInv, TypeInv, TypeOK, PeerInv
<1>3. /\ sendSeq' = sendSeq /\ target' = target /\ retryLeft' = retryLeft - 1
      /\ msLeft' = AttemptMs
      /\ UNCHANGED <<sndUna, slice, closeWait, acks, peerVars>>
  BY <1>1 DEF Try, Target
<1>4. /\ retryLeft' \in 1 .. Attempts /\ retryLeft' \in Nat /\ retryLeft' # Attempts
      /\ AttemptMs \in 0 .. AttemptMs
  BY <1>1, <1>3, SendAssumption
<1>5. CASE txOk
  <2>1. /\ wire' \in Onto(wire, {Data(sendSeq, Payload(pos, call.done), call.chunk)}, WireMax)
        /\ put' = Larger(put, sendSeq + call.chunk) /\ sndNxt' = sendSeq + call.chunk
        /\ phase' = "send"
        /\ call' = [call EXCEPT !.chunk = call.chunk] /\ UNCHANGED <<pos, last, failed>>
    BY <1>5 DEF Try, Target
  <2>2. put' = put /\ sndNxt' = sndNxt /\ call' = call
    BY <1>1, <1>2, <2>1 DEF Larger
  <2>3. /\ NetInv' /\ wire' \subseteq Segment
        /\ \A s \in wire' : s \in wire \/ s.seq + s.len = put
    <3>1. /\ NetInv /\ TypeInv /\ put' \in Nat /\ put <= put' /\ sendSeq + call.chunk <= put'
          /\ sendSeq \in Nat /\ call.chunk \in Nat /\ pos \in Nat /\ call.done \in Nat
          /\ sendSeq = pos + call.done /\ ~Over /\ phase' = "send"
      BY <1>1, <1>2, <2>1, <2>2 DEF IInv
    <3>2. UNCHANGED <<acks, peerVars>>
      BY <1>3
    <3>3. wire' \in Onto(wire, {Data(sendSeq, Payload(pos, call.done), call.chunk)}, WireMax)
      BY <2>1
    <3>4. /\ NetInv' /\ wire' \subseteq Segment
          /\ \A s \in wire' : s \in wire \/ s.seq + s.len = sendSeq + call.chunk
      BY <3>1, <3>2, <3>3, DataSent
    <3>5. QED BY <1>1, <3>4
  <2>4. TypeInv'
    BY <1>3, <1>4, <2>1, <2>2, <2>3 DEF IInv, TypeInv, TypeOK, Phases, peerVars
  <2>5. PeerInv'
    BY <1>1, <1>3, <2>1, <2>2
       DEF IInv, PeerInv, PeerGetsPrefix, Expected, AckNumber, peerVars
  <2>6. CallInv'
    BY <1>1, <1>3, <1>4, <2>1, <2>2 DEF CallInv
  <2>7. ResultInv'
    BY <1>1, <2>1 DEF IInv, ResultInv
  <2>8. WholeInv'
    BY <1>1, <1>3, <2>2, <2>3 DEF IInv, WholeInv, peerVars
  <2>9. QED BY <2>3, <2>4, <2>5, <2>6, <2>7, <2>8 DEF IInv
<1>6. CASE ~txOk
  <2> DEFINE de == call.done + (sndUna - sendSeq)
  <2>1. /\ sndNxt' = Rewound(sndUna, target, retryLeft')
        /\ phase' = "idle" /\ failed' = TRUE /\ call' = NoCall
        /\ pos' = pos + de /\ UNCHANGED <<wire, put>>
        /\ last' = [op |-> "send", status |-> SendStatus("F_SEND"), de |-> de, len |-> call.len]
    BY <1>1, <1>3, <1>6 DEF Try, Target, SendFails, Progress
  <2>2. sndNxt' = sndNxt
    BY <1>1, <1>4, <2>1 DEF Rewound
  <2>3. /\ pos \in Nat /\ call.done \in Nat /\ call.chunk \in Nat /\ call.len \in Nat
        /\ sendSeq \in Nat /\ sendSeq = pos + call.done /\ sendSeq <= sndUna /\ sndUna \in Nat
        /\ call.done + call.chunk <= call.len /\ sndUna < sendSeq + call.chunk
    BY <1>1, <1>2
  <2>4. de \in 0 .. call.len /\ de # call.len /\ pos + de = sndUna
    BY <2>3, ProgressOfPart
  <2>5. /\ last' \in Result /\ last'.op = "send"
        /\ last'.de = de /\ last'.len = call.len /\ last'.status # "OK"
    BY <1>2, <2>1, <2>4, FailureIsNotOK DEF Result
  <2>6. pos' = sndUna /\ NoCall \in [len : Nat, done : Nat, chunk : Nat]
    BY <2>1, <2>4 DEF NoCall
  <2>7. TypeInv'
    BY <1>2, <1>3, <1>4, <2>1, <2>2, <2>5, <2>6 DEF IInv, TypeInv, TypeOK, Phases, peerVars
  <2>8. NetInv'
    BY <1>1, <1>3, <2>1 DEF IInv, NetInv, Over, Expected, AckNumber, peerVars
  <2>9. PeerInv'
    BY <1>1, <1>2, <1>3, <2>1, <2>6
       DEF IInv, PeerInv, PeerGetsPrefix, Expected, AckNumber, peerVars
  <2>10. CallInv'
    <3>1. phase' = "idle" /\ failed' = TRUE /\ pos' <= sndUna' /\ sndNxt' = put'
      BY <1>1, <1>2, <1>3, <2>1, <2>2, <2>6
    <3>2. QED BY <3>1 DEF CallInv
  <2>11. ResultInv'
    BY <2>1, <2>4, <2>5 DEF ResultInv
  <2>12. WholeInv'
    BY <1>1, <1>3, <2>1 DEF IInv, WholeInv, Over, peerVars
  <2>13. QED BY <2>7, <2>8, <2>9, <2>10, <2>11, <2>12 DEF IInv
<1>7. QED BY <1>5, <1>6

-----------------------------------------------------------------------------
(* The actions of the sender.                                              *)

\* What the code reads of an answer does not depend on the peer: nothing but
\* the listed variables is needed to carry the peer's part over.
LEMMA LocalKeepsPeer ==
    ASSUME IInv, UNCHANGED <<put, wire, acks, peerVars>>, Over => Over'
    PROVE  NetInv'
BY DEF IInv, NetInv, Over, Expected, AckNumber, peerVars

LEMMA SendFrameStep ==
    ASSUME IInv, NEW m \in acks, NEW inOrder \in BOOLEAN, NEW txOk \in BOOLEAN,
           SendFrame(m, inOrder, txOk)
    PROVE  IInv'
<1> DEFINE una == Acked(m.ack)
           outcome == Outcome(m, inOrder, txOk)
<1>1. /\ phase = "send" /\ sndUna' = una
      /\ UNCHANGED <<sndNxt, waitVars, put, wire, acks, peerVars>>
      /\ ~Over
  BY DEF SendFrame, Hear, Over
<1>2. closeWait' \in BOOLEAN
  BY DEF SendFrame, Hear
<1>3. /\ una \in Nat /\ sndUna <= una /\ una <= sndNxt /\ una <= Expected
      /\ ~takesPart => una \in {sendSeq, put}
  BY <1>1, AckedExact
<1>4. CASE outcome # "wait"
  <2>1. SendHears(una, outcome)
    BY <1>4 DEF SendFrame
  <2>2. QED BY <1>1, <1>2, <1>3, <2>1, SendHearsStep
<1>5. CASE outcome = "wait"
  <2>1. UNCHANGED appVars
    BY <1>5 DEF SendFrame
  <2>2. TypeInv'
    BY <1>1, <1>2, <1>3, <2>1 DEF IInv, TypeInv, TypeOK, waitVars, appVars, peerVars
  <2>3. NetInv'
    BY <1>1, LocalKeepsPeer DEF Over
  <2>4. PeerInv'
    BY <1>1, <1>3, <2>1
       DEF IInv, PeerInv, PeerGetsPrefix, Expected, AckNumber, peerVars, appVars, Over
  <2>5. CallInv'
    <3>1. sendSeq <= una
      BY <1>1, <1>3 DEF IInv, CallInv, TypeInv, TypeOK
    <3>2. QED BY <1>1, <2>1, <3>1 DEF IInv, CallInv, waitVars, appVars
  <2>6. ResultInv'
    BY <1>1, <2>1 DEF IInv, ResultInv, appVars
  <2>7. WholeInv'
    BY <1>1, <1>3, <2>1 DEF IInv, WholeInv, Over, waitVars, appVars, peerVars
  <2>8. QED BY <2>2, <2>3, <2>4, <2>5, <2>6, <2>7 DEF IInv
<1>6. QED BY <1>4, <1>5

LEMMA SendSilenceStep ==
    ASSUME IInv, NEW txOk \in BOOLEAN, SendSilence(txOk)
    PROVE  IInv'
<1>1. phase = "send" /\ ~Over
  BY DEF SendSilence, Over
<1>2. /\ sndUna \in Nat /\ sndUna <= sndUna /\ sndUna <= sndNxt /\ sndUna <= Expected
      /\ ~takesPart => sndUna \in {sendSeq, put}
      /\ closeWait \in BOOLEAN
  BY <1>1 DEF IInv, TypeInv, TypeOK, PeerInv, WholeInv
<1>3. CASE /\ SendHears(sndUna, "F_TIMEOUT")
           /\ UNCHANGED <<sndUna, sndNxt, waitVars, closeWait, put, wire, acks, peerVars>>
  BY <1>1, <1>2, <1>3, SendHearsStep
<1>4. CASE Try(sendSeq, call.chunk, retryLeft - 1, txOk) /\ retryLeft - 1 # 0 /\ sndUna # target
  BY <1>1, <1>4, SendRetryStep
<1>5. CASE /\ sndUna # target /\ Quantum # msLeft
           /\ phase' = "again" /\ msLeft' = msLeft - Quantum
           /\ last' = [op |-> "send", status |-> "AGAIN",
                       de |-> Progress(sndUna, sendSeq), len |-> call.len]
           /\ UNCHANGED <<sndUna, sndNxt, sendSeq, target, retryLeft, slice, closeWait, call,
                          pos, failed, put, wire, acks, peerVars>>
  <2>1. /\ sendSeq = pos + call.done /\ target = sendSeq + call.chunk
        /\ sendSeq <= sndUna /\ sndUna < target
        /\ call.done + call.chunk <= call.len
        /\ sendSeq \in Nat /\ pos \in Nat
        /\ call.len \in Nat /\ call.done \in Nat /\ call.chunk \in Nat
    BY <1>1, <1>2, <1>5, Numbers DEF IInv, TypeInv, TypeOK, CallInv
  <2> DEFINE de == call.done + (sndUna - sendSeq)
  <2>2. de \in 0 .. call.len /\ de # call.len /\ pos + de = sndUna
    BY <1>2, <2>1, ProgressOfPart
  <2>3. last' = [op |-> "send", status |-> "AGAIN", de |-> de, len |-> call.len]
    BY <1>5 DEF Progress
  <2>4. /\ last' \in Result /\ last'.op = "send" /\ last'.de = de
        /\ last'.len = call.len /\ last'.status # "OK"
    BY <2>1, <2>2, <2>3 DEF Result
  <2>5. msLeft' \in 0 .. AttemptMs
    <3>1. /\ msLeft \in 0 .. AttemptMs /\ slice \in Nat /\ AttemptMs \in Nat
      BY SendAssumption DEF IInv, TypeInv, TypeOK
    <3>2. Quantum \in 0 .. msLeft
      BY <3>1 DEF Quantum, Smaller
    <3>3. QED BY <1>5, <3>1, <3>2
  <2>6. TypeInv'
    BY <1>5, <2>4, <2>5 DEF IInv, TypeInv, TypeOK, Phases, peerVars
  <2>7. NetInv'
    BY <1>1, <1>5, LocalKeepsPeer
  <2>8. PeerInv'
    BY <1>1, <1>5 DEF IInv, PeerInv, PeerGetsPrefix, Expected, AckNumber, peerVars, Over
  <2>9. CallInv'
    BY <1>1, <1>5 DEF IInv, CallInv
  <2>10. ResultInv'
    <3>1. /\ phase' = "again" /\ last'.op = "send"
          /\ last'.de \in 0 .. last'.len /\ last'.de # last'.len /\ last'.status # "OK"
      BY <1>5, <2>2, <2>4
    <3>2. pos' + last'.de = sndUna'
      BY <1>5, <2>2, <2>4
    <3>3. QED BY <3>1, <3>2 DEF ResultInv
  <2>11. WholeInv'
    BY <1>1, <1>5 DEF IInv, WholeInv, Over, peerVars
  <2>12. QED BY <2>6, <2>7, <2>8, <2>9, <2>10, <2>11 DEF IInv
<1>6. QED BY <1>3, <1>4, <1>5 DEF SendSilence, SendHears, Confirmed, Spent

LEMMA SendStoppedStep ==
    ASSUME IInv, NEW f, SendStopped(f)
    PROVE  IInv'
<1>1. /\ phase = "send" /\ ~Over /\ SendHears(sndUna, f)
      /\ UNCHANGED <<sndUna, sndNxt, waitVars, closeWait, put, wire, acks, peerVars>>
  BY DEF SendStopped, Over
<1>2. /\ sndUna \in Nat /\ sndUna <= sndUna /\ sndUna <= sndNxt /\ sndUna <= Expected
      /\ ~takesPart => sndUna \in {sendSeq, put}
      /\ closeWait \in BOOLEAN
  BY <1>1 DEF IInv, TypeInv, TypeOK, PeerInv, WholeInv
<1>3. QED BY <1>1, <1>2, SendHearsStep

\* A fresh SEND starts where everything is acknowledged and reported: this is
\* where the application's restraint is needed.
LEMMA SendStartStep ==
    ASSUME IInv, ~SendsAgain, NEW n \in 1 .. StreamLen, NEW sl \in Slices, SendStart(n, sl)
    PROVE  IInv'
<1>1. /\ phase = "idle" /\ ~failed /\ ~Over /\ phase' = "chunk" /\ slice' = sl
      /\ call' = [len |-> n, done |-> 0, chunk |-> 0] /\ last' = NoResult
      /\ UNCHANGED <<sndUna, sndNxt, sendSeq, target, retryLeft, msLeft, closeWait,
                     pos, failed, put, wire, acks, peerVars>>
  BY DEF SendStart, Over
<1>2. /\ sndUna \in Nat /\ sndNxt \in Nat /\ pos \in Nat /\ put \in Nat
      /\ sndNxt = put /\ sndUna = put /\ pos = put
  BY <1>1 DEF IInv, TypeInv, TypeOK, CallInv
<1>3. n \in Nat /\ n > 0
  BY SendAssumption
<1>4. /\ call' \in [len : Nat, done : Nat, chunk : Nat]
      /\ call'.len = n /\ call'.done = 0
      /\ last' \in Result /\ last'.op = "none"
  BY <1>1, <1>3 DEF NoResult, Result
<1>5. TypeInv'
  BY <1>1, <1>4 DEF IInv, TypeInv, TypeOK, Phases, peerVars
<1>6. NetInv'
  BY <1>1, LocalKeepsPeer
<1>7. PeerInv'
  BY <1>1 DEF IInv, PeerInv, PeerGetsPrefix, Expected, AckNumber, peerVars, Over
<1>8. CallInv'
  BY <1>1, <1>2, <1>3, <1>4 DEF CallInv
<1>9. ResultInv'
  BY <1>1, <1>4 DEF ResultInv
<1>10. WholeInv'
  BY <1>1 DEF IInv, WholeInv, Over, peerVars
<1>11. QED BY <1>5, <1>6, <1>7, <1>8, <1>9, <1>10 DEF IInv

LEMMA SendResumeStep ==
    ASSUME IInv, NEW sl \in Slices, SendResume(sl)
    PROVE  IInv'
<1>1. /\ phase = "again" /\ ~Over /\ phase' = "send" /\ slice' = sl /\ msLeft' = msLeft
      /\ last' = NoResult
      /\ UNCHANGED <<sndUna, sndNxt, sendSeq, target, retryLeft, closeWait, call, pos,
                     failed, put, wire, acks, peerVars>>
  BY DEF SendResume, ResumeBudget, Over
<1>2. last' \in Result /\ last'.op = "none"
  BY <1>1 DEF NoResult, Result
<1>3. TypeInv'
  BY <1>1, <1>2 DEF IInv, TypeInv, TypeOK, Phases, peerVars
<1>4. NetInv'
  BY <1>1, LocalKeepsPeer
<1>5. PeerInv'
  BY <1>1 DEF IInv, PeerInv, PeerGetsPrefix, Expected, AckNumber, peerVars, Over
<1>6. CallInv'
  BY <1>1 DEF IInv, CallInv
<1>7. ResultInv'
  BY <1>1, <1>2 DEF ResultInv
<1>8. WholeInv'
  BY <1>1 DEF IInv, WholeInv, Over, peerVars
<1>9. QED BY <1>3, <1>4, <1>5, <1>6, <1>7, <1>8 DEF IInv

LEMMA RecvFrameStep ==
    ASSUME IInv, NEW m \in acks, NEW inOrder \in BOOLEAN, RecvFrame(m, inOrder)
    PROVE  IInv'
<1>1. /\ phase = "idle" /\ ~Over /\ phase' \in {"idle", "closed"}
      /\ sndUna' = Acked(m.ack) /\ closeWait' \in BOOLEAN
      /\ UNCHANGED <<sndNxt, waitVars, call, pos, last, failed, put, wire, acks, peerVars>>
  BY DEF RecvFrame, Hear, Over
<1>2. /\ sndUna' \in Nat /\ sndUna <= sndUna' /\ sndUna' <= sndNxt /\ sndUna' <= Expected
      /\ ~takesPart => sndUna' \in {sendSeq, put}
  BY <1>1, AckedExact
<1>3. TypeInv'
  BY <1>1, <1>2 DEF IInv, TypeInv, TypeOK, Phases, waitVars, peerVars
<1>4. NetInv'
  BY <1>1, LocalKeepsPeer
<1>5. PeerInv'
  BY <1>1, <1>2 DEF IInv, PeerInv, PeerGetsPrefix, Expected, AckNumber, peerVars, Over
<1>6. CallInv'
  <2>1. sndNxt' = put' /\ pos' <= sndUna' /\ (~failed' => pos' = put')
    BY <1>1, <1>2 DEF IInv, TypeInv, TypeOK, CallInv
  <2>2. QED BY <1>1, <2>1 DEF CallInv
<1>7. ResultInv'
  BY <1>1 DEF IInv, ResultInv
<1>8. WholeInv'
  BY <1>1, <1>2 DEF IInv, WholeInv, Over, waitVars, peerVars
<1>9. QED BY <1>3, <1>4, <1>5, <1>6, <1>7, <1>8 DEF IInv

LEMMA RecvClosedStep ==
    ASSUME IInv, RecvClosed
    PROVE  IInv'
<1>1. /\ phase = "idle" /\ ~Over /\ phase' = "closed"
      /\ UNCHANGED <<sndUna, sndNxt, waitVars, closeWait, call, pos, last, failed, put,
                     wire, acks, peerVars>>
  BY DEF RecvClosed, Over
<1>2. TypeInv'
  BY <1>1 DEF IInv, TypeInv, TypeOK, Phases, waitVars, peerVars
<1>3. NetInv'
  BY <1>1, LocalKeepsPeer
<1>4. PeerInv'
  BY <1>1 DEF IInv, PeerInv, PeerGetsPrefix, Expected, AckNumber, peerVars, Over
<1>5. CallInv' /\ ResultInv'
  BY <1>1 DEF IInv, CallInv, ResultInv
<1>6. WholeInv'
  BY <1>1 DEF WholeInv, Over
<1>7. QED BY <1>2, <1>3, <1>4, <1>5, <1>6 DEF IInv

-----------------------------------------------------------------------------
(* CLOSE.                                                                  *)

\* What CLOSE does to everything but its frames: the stream is over.
LEMMA ClosingKeeps ==
    ASSUME IInv, Over', UNCHANGED <<put, pos, acks, peerVars>>,
           sndUna' \in Nat, sndUna' <= Expected, wire' \subseteq Segment,
           \A s \in wire' : s \in wire \/ s.kind = "rst" \/ (s.kind = "fin" /\ s.seq = put)
    PROVE  NetInv' /\ PeerInv' /\ WholeInv'
<1>1. NetInv'
  BY DEF IInv, NetInv, Over, Expected, AckNumber, peerVars
<1>2. PeerInv'
  BY DEF IInv, PeerInv, PeerGetsPrefix, Expected, AckNumber, peerVars, Over
<1>3. WholeInv'
  BY DEF WholeInv, Over
<1>4. QED BY <1>1, <1>2, <1>3

\* A result of CLOSE says nothing about bytes.
LEMMA ClosedResult ==
    ASSUME NEW status \in {"OK", "HW", "TIMEOUT", "CANCEL"}, Closed(status)
    PROVE  last' \in Result /\ last'.op = "close" /\ phase' = "closed" /\ Over'
BY DEF Closed, Result, Over

LEMMA CloseAbortsStep ==
    ASSUME IInv, NEW txNxt \in BOOLEAN, NEW txUna \in BOOLEAN, CloseAborts(txNxt, txUna)
    PROVE  IInv'
<1> DEFINE frames == (IF txNxt THEN {Rst(sndNxt)} ELSE {})
                       \cup (IF txUna THEN {Rst(sndUna)} ELSE {})
<1>1. /\ phase = "idle" /\ sndNxt' = sndUna /\ wire' \in Onto(wire, frames, WireMax)
      /\ UNCHANGED <<sndUna, waitVars, closeWait, call, pos, failed, put, acks, peerVars>>
  BY DEF CloseAborts
<1>2. last' \in Result /\ last'.op = "close" /\ phase' = "closed" /\ Over'
  BY ClosedResult DEF CloseAborts
<1>3. \A s \in frames : s \in Segment /\ s.kind = "rst"
  BY DEF IInv, TypeInv, TypeOK, Rst, Segment
<1>4. \A s \in wire' : s \in wire \/ s \in frames
  BY <1>1, OntoOld
<1>5. wire' \subseteq Segment /\ \A s \in wire' : s \in wire \/ s.kind = "rst"
  BY <1>3, <1>4 DEF IInv, TypeInv
<1>6. sndUna' \in Nat /\ sndUna' <= sndNxt' /\ sndUna' <= Expected /\ sndNxt' \in Nat
  BY <1>1 DEF IInv, TypeInv, TypeOK, PeerInv
<1>7. TypeInv'
  BY <1>1, <1>2, <1>5, <1>6 DEF IInv, TypeInv, TypeOK, Phases, waitVars, peerVars
<1>8. NetInv' /\ PeerInv' /\ WholeInv'
  BY <1>1, <1>2, <1>5, <1>6, ClosingKeeps
<1>9. CallInv' /\ ResultInv'
  BY <1>2 DEF CallInv, ResultInv
<1>10. QED BY <1>7, <1>8, <1>9 DEF IInv

LEMMA CloseStartStep ==
    ASSUME IInv, NEW txOk \in BOOLEAN, CloseStart(txOk)
    PROVE  IInv'
<1>1. /\ phase = "idle" /\ sndUna = sndNxt /\ sndNxt = put /\ put \in Nat /\ pos <= put
      /\ UNCHANGED <<sndUna, sendSeq, msLeft, slice, call, pos, failed, put, acks, peerVars>>
      /\ sndUna' \in Nat /\ sndUna' <= Expected /\ closeWait' \in BOOLEAN
  BY DEF CloseStart, IInv, CallInv, TypeInv, TypeOK, PeerInv
<1>2. CASE txOk
  <2>1. /\ wire' \in Onto(wire, {Fin(put)}, WireMax)
        /\ sndNxt' = put + 1 /\ target' = put + 1 /\ retryLeft' = FinAttempts
        /\ phase' = "fin" /\ UNCHANGED last
    BY <1>1, <1>2 DEF CloseStart
  <2>2. Fin(put) \in Segment /\ Fin(put).kind = "fin" /\ Fin(put).seq = put
    BY <1>1 DEF Fin, Segment
  <2>3. /\ wire' \subseteq Segment
        /\ \A s \in wire' : s \in wire \/ (s.kind = "fin" /\ s.seq = put)
    BY <2>1, <2>2, OntoOld DEF IInv, TypeInv
  <2>4. Over' /\ retryLeft' \in Nat /\ retryLeft' >= 1
    BY <2>1, SendAssumption DEF Over
  <2>5. TypeInv'
    BY <1>1, <2>1, <2>3, <2>4 DEF IInv, TypeInv, TypeOK, Phases, peerVars
  <2>6. NetInv' /\ PeerInv' /\ WholeInv'
    BY <1>1, <2>3, <2>4, ClosingKeeps
  <2>7. CallInv' /\ ResultInv'
    BY <1>1, <2>1, <2>4 DEF IInv, CallInv, ResultInv
  <2>8. QED BY <2>5, <2>6, <2>7 DEF IInv
<1>3. CASE ~txOk
  <2>1. Closed("HW") /\ UNCHANGED <<wire, sndNxt, target, retryLeft>>
    BY <1>3 DEF CloseStart
  <2>2. last' \in Result /\ last'.op = "close" /\ phase' = "closed" /\ Over'
    BY <2>1, ClosedResult
  <2>3. TypeInv'
    BY <1>1, <2>1, <2>2 DEF IInv, TypeInv, TypeOK, Phases, peerVars
  <2>4. wire' \subseteq Segment /\ \A s \in wire' : s \in wire
    BY <2>1 DEF IInv, TypeInv
  <2>5. NetInv' /\ PeerInv' /\ WholeInv'
    BY <1>1, <2>2, <2>4, ClosingKeeps
  <2>6. CallInv' /\ ResultInv'
    BY <2>2 DEF CallInv, ResultInv
  <2>7. QED BY <2>3, <2>5, <2>6 DEF IInv
<1>4. QED BY <1>2, <1>3

LEMMA FinFrameStep ==
    ASSUME IInv, NEW m \in acks, NEW inOrder \in BOOLEAN, NEW txOk \in BOOLEAN,
           FinFrame(m, inOrder, txOk)
    PROVE  IInv'
<1>1. /\ phase = "fin" /\ sndUna' = Acked(m.ack) /\ closeWait' \in BOOLEAN
      /\ UNCHANGED <<sndNxt, waitVars, call, pos, failed, put, wire, acks, peerVars>>
  BY DEF FinFrame, Hear
<1>2. sndUna' \in Nat /\ sndUna <= sndUna' /\ sndUna' <= sndNxt /\ sndUna' <= Expected
  BY <1>1, AckedExact
<1>3. wire' \subseteq Segment /\ \A s \in wire' : s \in wire
  BY <1>1 DEF IInv, TypeInv
<1>4. CASE UNCHANGED <<phase, last>>
  <2>1. Over'
    BY <1>1, <1>4 DEF Over
  <2>2. TypeInv'
    BY <1>1, <1>2, <1>4 DEF IInv, TypeInv, TypeOK, waitVars, peerVars
  <2>3. NetInv' /\ PeerInv' /\ WholeInv'
    BY <1>1, <1>2, <1>3, <2>1, ClosingKeeps
  <2>4. put <= sndUna'
    BY <1>1, <1>2 DEF IInv, CallInv, TypeInv, TypeOK
  <2>5. CallInv' /\ ResultInv'
    BY <1>1, <1>4, <2>4 DEF IInv, CallInv, ResultInv, waitVars
  <2>6. QED BY <2>2, <2>3, <2>5 DEF IInv
<1>5. CASE Closed("OK")
  <2>1. last' \in Result /\ last'.op = "close" /\ phase' = "closed" /\ Over'
    BY <1>5, ClosedResult
  <2>2. TypeInv'
    BY <1>1, <1>2, <2>1 DEF IInv, TypeInv, TypeOK, Phases, waitVars, peerVars
  <2>3. NetInv' /\ PeerInv' /\ WholeInv'
    BY <1>1, <1>2, <1>3, <2>1, ClosingKeeps
  <2>4. CallInv' /\ ResultInv'
    BY <2>1 DEF CallInv, ResultInv
  <2>5. QED BY <2>2, <2>3, <2>4 DEF IInv
<1>6. QED BY <1>4, <1>5 DEF FinFrame

LEMMA FinSilenceStep ==
    ASSUME IInv, NEW txOk \in BOOLEAN, FinSilence(txOk)
    PROVE  IInv'
<1>1. /\ phase = "fin"
      /\ target = put + 1 /\ sndNxt = put + 1 /\ put <= sndUna /\ sndUna <= sndNxt
      /\ sndUna \in Nat /\ put \in Nat /\ sndUna <= Expected /\ retryLeft \in Nat
      /\ UNCHANGED <<sndUna, sendSeq, target, msLeft, slice, closeWait, call, pos, failed, put,
                     acks, peerVars>>
  BY DEF FinSilence, IInv, CallInv, TypeInv, TypeOK, PeerInv
<1>2. CASE /\ Closed("OK") \/ Closed("TIMEOUT")
           /\ UNCHANGED <<sndNxt, retryLeft, wire>>
  <2>1. last' \in Result /\ last'.op = "close" /\ phase' = "closed" /\ Over'
    BY <1>2, ClosedResult
  <2>2. wire' \subseteq Segment /\ \A s \in wire' : s \in wire
    BY <1>2 DEF IInv, TypeInv
  <2>3. TypeInv'
    BY <1>1, <1>2, <2>1 DEF IInv, TypeInv, TypeOK, Phases, peerVars
  <2>4. NetInv' /\ PeerInv' /\ WholeInv'
    BY <1>1, <2>1, <2>2, ClosingKeeps
  <2>5. CallInv' /\ ResultInv'
    BY <2>1 DEF CallInv, ResultInv
  <2>6. QED BY <2>3, <2>4, <2>5 DEF IInv
<1>3. CASE /\ sndUna # target /\ retryLeft > 1 /\ retryLeft' = retryLeft - 1
           /\ wire' \in IF txOk THEN Onto(wire, {Fin(sndUna)}, WireMax) ELSE {wire}
           /\ sndNxt' = sndUna + 1 /\ UNCHANGED <<phase, last>>
  <2>1. sndUna = put /\ sndNxt' = put + 1 /\ retryLeft' \in Nat /\ retryLeft' >= 1
    BY <1>1, <1>3
  <2>2. Fin(put) \in Segment /\ Fin(put).kind = "fin" /\ Fin(put).seq = put
    BY <1>1 DEF Fin, Segment
  <2>3. \A s \in wire' : s \in wire \/ s = Fin(put)
    BY <1>3, <2>1, OntoOld
  <2>4. /\ wire' \subseteq Segment
        /\ \A s \in wire' : s \in wire \/ (s.kind = "fin" /\ s.seq = put)
    BY <2>2, <2>3 DEF IInv, TypeInv
  <2>5. Over'
    BY <1>1, <1>3 DEF Over
  <2>6. TypeInv'
    BY <1>1, <1>3, <2>1, <2>4 DEF IInv, TypeInv, TypeOK, peerVars
  <2>7. NetInv' /\ PeerInv' /\ WholeInv'
    BY <1>1, <2>4, <2>5, ClosingKeeps
  <2>8. CallInv' /\ ResultInv'
    BY <1>1, <1>3, <2>1 DEF IInv, CallInv, ResultInv
  <2>9. QED BY <2>6, <2>7, <2>8 DEF IInv
<1>4. QED BY <1>2, <1>3 DEF FinSilence

LEMMA FinStoppedStep ==
    ASSUME IInv, NEW f \in {"F_CANCEL", "F_OTHER"}, FinStopped(f)
    PROVE  IInv'
<1>1. /\ UNCHANGED <<sndUna, sndNxt, waitVars, closeWait, call, pos, failed, put, wire,
                     acks, peerVars>>
      /\ sndUna' \in Nat /\ sndUna' <= Expected
  BY DEF FinStopped, IInv, TypeInv, TypeOK, PeerInv
<1>2. last' \in Result /\ last'.op = "close" /\ phase' = "closed" /\ Over'
  <2>1. PICK status \in {"OK", "CANCEL", "TIMEOUT"} : Closed(status)
    BY DEF FinStopped
  <2>2. QED BY <2>1, ClosedResult
<1>3. wire' \subseteq Segment /\ \A s \in wire' : s \in wire
  BY <1>1 DEF IInv, TypeInv
<1>4. TypeInv'
  BY <1>1, <1>2 DEF IInv, TypeInv, TypeOK, Phases, waitVars, peerVars
<1>5. NetInv' /\ PeerInv' /\ WholeInv'
  BY <1>1, <1>2, <1>3, ClosingKeeps
<1>6. CallInv' /\ ResultInv'
  BY <1>2 DEF CallInv, ResultInv
<1>7. QED BY <1>4, <1>5, <1>6 DEF IInv

-----------------------------------------------------------------------------
(* The peer.                                                               *)

\* What a step of the peer does to everything but its stream.
LEMMA AnswerSent ==
    ASSUME TypeInv, NEW kind \in {"ack", "fin", "rst"}, NEW n \in Nat,
           acks' \in Onto(acks, {Answer(kind, n)}, AckMax)
    PROVE  acks' \subseteq Reply /\ \A a \in acks' : a \in acks \/ a.ack = n
<1>1. Answer(kind, n) \in Reply /\ Answer(kind, n).ack = n
  BY DEF Answer, Reply
<1>2. \A a \in acks' : a \in acks \/ a = Answer(kind, n)
  BY OntoOld
<1>3. QED BY <1>1, <1>2 DEF TypeInv

\* Bytes of a sound segment behind what the peer has continue the prefix.
LEMMA PrefixGrows ==
    ASSUME got \in Seq(Nat), PeerGetsPrefix, NEW k \in Nat,
           got' = got \o [i \in 1 .. k |-> Len(got) + i]
    PROVE  got' \in Seq(Nat) /\ Len(got') = Len(got) + k /\ PeerGetsPrefix'
<1> DEFINE more == [i \in 1 .. k |-> Len(got) + i]
<1>1. Len(got) \in Nat
  BY LenProperties
<1>2. more \in [1 .. k -> Nat]
  BY <1>1
<1>3. more \in Seq(Nat) /\ Len(more) = k
  BY <1>2, SeqDef, LenProperties
<1>4. /\ got' \in Seq(Nat) /\ Len(got') = Len(got) + k
      /\ \A i \in 1 .. Len(got) + k : got'[i] = IF i <= Len(got) THEN got[i] ELSE more[i - Len(got)]
  BY <1>1, <1>3, ConcatProperties
<1>5. ASSUME NEW i \in 1 .. Len(got) + k
      PROVE  got'[i] = i
  <2>1. CASE i <= Len(got)
    BY <1>1, <1>4, <2>1 DEF PeerGetsPrefix
  <2>2. CASE ~(i <= Len(got))
    <3>1. i - Len(got) \in 1 .. k
      BY <1>1, <2>2
    <3>2. more[i - Len(got)] = Len(got) + (i - Len(got))
      BY <3>1
    <3>3. QED BY <1>1, <1>4, <2>2, <3>2
  <2>3. QED BY <2>1, <2>2
<1>6. QED BY <1>4, <1>5 DEF PeerGetsPrefix

LEMMA PeerDataStep ==
    ASSUME IInv, NEW s \in wire, PeerData(s)
    PROVE  IInv'
<1>1. /\ s.kind = "data" /\ peer # "reset"
      /\ acks' \in Onto(acks, {Answer("ack", AckNumber(Len(got'), peer))}, AckMax)
      /\ UNCHANGED <<sndUna, sndNxt, waitVars, closeWait, appVars, put, wire, peer, peerFin,
                     takesPart>>
  BY DEF PeerData
<1>2. /\ s.seq \in Nat /\ s.len \in Nat /\ s.first = s.seq + 1 /\ s.seq + s.len <= put
      /\ put \in Nat /\ got \in Seq(Nat) /\ Len(got) \in Nat /\ Len(got) <= put
  BY <1>1, Numbers DEF IInv, TypeInv, TypeOK, Segment, NetInv, PeerInv
<1>3. /\ got' \in Seq(Nat) /\ PeerGetsPrefix' /\ Len(got') \in Nat
      /\ Len(got) <= Len(got') /\ Len(got') <= put
      /\ peer # "open" => Len(got') = Len(got)
      /\ ~takesPart => Len(got') = Len(got) \/ (Len(got') = s.seq + s.len /\ Len(got) < Len(got'))
  <2> DEFINE new  == s.seq + s.len - Len(got)
             skip == Len(got) - s.seq
  <2>1. CASE got' = got
    BY <1>2, <2>1 DEF IInv, PeerInv, PeerGetsPrefix
  <2>2. CASE /\ peer = "open" /\ skip >= 0 /\ new > 0
             /\ \E k \in (IF takesPart THEN 1 ELSE new) .. new :
                   got' = got \o [i \in 1 .. k |-> s.first + skip + i - 1]
    <3>1. PICK k \in (IF takesPart THEN 1 ELSE new) .. new :
             got' = got \o [i \in 1 .. k |-> s.first + skip + i - 1]
      BY <2>2
    <3>2. /\ new \in Nat /\ k \in Nat /\ 1 <= k /\ k <= new /\ (~takesPart => k = new)
      BY SMTT(30), <1>2, <2>2, <3>1
    <3>3. [i \in 1 .. k |-> s.first + skip + i - 1] = [i \in 1 .. k |-> Len(got) + i]
      BY <1>2, <3>2
    <3>4. /\ got' \in Seq(Nat) /\ Len(got') = Len(got) + k /\ PeerGetsPrefix'
      BY <1>2, <3>1, <3>2, <3>3, PrefixGrows DEF IInv, PeerInv
    <3>5. /\ Len(got) + k \in Nat /\ Len(got) <= Len(got) + k /\ Len(got) + k <= put
          /\ Len(got) < Len(got) + k
      BY <1>2, <3>2
    <3>6. ~takesPart => Len(got) + k = s.seq + s.len
      BY <1>2, <3>2
    <3>7. QED BY <2>2, <3>4, <3>5, <3>6
  <2>3. QED BY <2>1, <2>2 DEF PeerData
<1>4. /\ Expected' \in Nat /\ Expected <= Expected'
      /\ Expected' = AckNumber(Len(got'), peer)
  BY <1>1, <1>2, <1>3 DEF Expected, AckNumber
<1>5. acks' \subseteq Reply /\ \A a \in acks' : a \in acks \/ a.ack = Expected'
  BY <1>1, <1>4, AnswerSent DEF IInv
<1>6. TypeInv'
  BY <1>1, <1>3, <1>5 DEF IInv, TypeInv, TypeOK, waitVars, appVars
<1>7. NetInv'
  <2>1. \A a \in acks : a.ack \in Nat /\ a.ack <= Expected /\ Expected \in Nat
    BY Numbers DEF IInv, TypeInv, Reply, NetInv
  <2>2. \A a \in acks' : a.ack <= Expected'
    BY <1>4, <1>5, <2>1
  <2>3. QED BY <1>1, <2>2 DEF IInv, NetInv, Over, appVars
<1>8. PeerInv'
  <2>1. /\ sndUna \in Nat /\ pos \in Nat /\ Expected \in Nat
        /\ sndUna <= Expected /\ pos <= Len(got)
    BY Numbers DEF IInv, TypeInv, TypeOK, PeerInv
  <2>2. sndUna' <= Expected' /\ pos' <= Len(got')
    BY <1>1, <1>2, <1>3, <1>4, <2>1 DEF appVars
  <2>3. QED BY <1>1, <1>3, <2>2 DEF IInv, PeerInv, Over, appVars
<1>9. CallInv' /\ ResultInv'
  BY <1>1 DEF IInv, CallInv, ResultInv, waitVars, appVars
<1>10. WholeInv'
  <2> SUFFICES ASSUME ~takesPart, ~Over PROVE WholeInv'
    BY <1>1 DEF WholeInv, Over, appVars
  <2>1. /\ sendSeq \in Nat /\ sendSeq <= put /\ sendSeq <= Len(got)
        /\ Len(got) \in {sendSeq, put} /\ sndUna \in {sendSeq, put}
        /\ s.seq + s.len <= sendSeq \/ s.seq + s.len = put
        /\ peer # "ended"
    BY <1>1 DEF IInv, TypeInv, TypeOK, WholeInv, PeerInv
  <2>2. Len(got') \in {sendSeq, put} /\ sendSeq <= Len(got')
    BY <1>2, <1>3, <2>1
  <2>3. Expected' = Len(got')
    BY <1>4, <2>1 DEF AckNumber
  <2>4. \A a \in acks' : a.ack <= sendSeq \/ a.ack = put
    BY <1>5, <2>1, <2>2, <2>3 DEF IInv, WholeInv
  <2>5. QED BY <1>1, <2>1, <2>2, <2>4 DEF IInv, WholeInv, waitVars, appVars
<1>11. QED BY <1>6, <1>7, <1>8, <1>9, <1>10 DEF IInv

\* A step of the peer that takes no byte: its end and its answer.
LEMMA PeerAnswers ==
    ASSUME IInv, NEW kind \in {"ack", "fin", "rst"}, NEW p \in {"open", "ended", "reset"},
           acks' \in Onto(acks, {Answer(kind, AckNumber(Len(got), p))}, AckMax),
           peer' \in {"open", "ended", "reset"}, p \in {peer, peer'},
           peer = "ended" => peer' = "ended",
           peer' = "ended" => Over /\ Len(got) = put,
           peerFin' \in BOOLEAN,
           UNCHANGED <<sndUna, sndNxt, waitVars, closeWait, appVars, put, wire, got, takesPart>>
    PROVE  IInv'
<1>1. /\ Len(got) \in Nat /\ AckNumber(Len(got), p) \in Nat
      /\ Expected \in Nat /\ Expected' \in Nat /\ Expected <= Expected'
      /\ AckNumber(Len(got), p) <= Expected'
  BY Numbers DEF IInv, Expected, AckNumber
<1>2. acks' \subseteq Reply /\ \A a \in acks' : a \in acks \/ a.ack = AckNumber(Len(got), p)
  BY <1>1, AnswerSent DEF IInv
<1>3. TypeInv'
  BY <1>2 DEF IInv, TypeInv, TypeOK, waitVars, appVars
<1>4. NetInv'
  <2>1. \A a \in acks : a.ack \in Nat /\ a.ack <= Expected
    BY DEF IInv, TypeInv, Reply, NetInv
  <2>2. \A a \in acks' : a.ack <= Expected'
    BY <1>1, <1>2, <2>1
  <2>3. QED BY <2>2 DEF IInv, NetInv, Over, appVars
<1>5. PeerInv'
  <2>1. sndUna' <= Expected'
    BY <1>1 DEF IInv, TypeInv, TypeOK, PeerInv
  <2>2. QED BY <2>1 DEF IInv, PeerInv, PeerGetsPrefix, Over, appVars
<1>6. CallInv' /\ ResultInv'
  BY DEF IInv, CallInv, ResultInv, waitVars, appVars
<1>7. WholeInv'
  <2> SUFFICES ASSUME ~takesPart, ~Over PROVE WholeInv'
    BY DEF WholeInv, Over, appVars
  <2>1. AckNumber(Len(got), p) = Len(got)
    BY <1>1 DEF AckNumber, IInv, PeerInv
  <2>2. \A a \in acks' : a.ack <= sendSeq \/ a.ack = put
    BY <1>2, <2>1 DEF IInv, WholeInv, TypeInv, TypeOK
  <2>3. QED BY <2>2 DEF IInv, WholeInv, waitVars, appVars
<1>8. QED BY <1>3, <1>4, <1>5, <1>6, <1>7 DEF IInv

LEMMA PeerEndStep ==
    ASSUME IInv, NEW s \in wire, PeerEnd(s)
    PROVE  IInv'
<1>1. /\ s.kind = "fin" /\ peer # "reset"
      /\ peer' = IF s.seq = Len(got) THEN "ended" ELSE peer
      /\ acks' \in Onto(acks, {Answer("ack", AckNumber(Len(got), peer'))}, AckMax)
      /\ UNCHANGED <<sndUna, sndNxt, waitVars, closeWait, appVars, put, wire, got, peerFin,
                     takesPart>>
  BY DEF PeerEnd
<1>2. Over /\ s.seq = put /\ (peer = "ended" => Len(got) = put)
  BY <1>1 DEF IInv, NetInv, PeerInv
<1>3. peer \in {"open", "ended", "reset"} /\ peerFin \in BOOLEAN
  BY DEF IInv, TypeInv, TypeOK
<1>4. /\ peer' \in {"open", "ended", "reset"} /\ peerFin' \in BOOLEAN
      /\ (peer = "ended" => peer' = "ended") /\ (peer' = "ended" => Over /\ Len(got) = put)
  BY <1>1, <1>2, <1>3
<1>5. QED BY <1>1, <1>4, PeerAnswers

LEMMA PeerResetStep ==
    ASSUME IInv, NEW s \in wire, PeerReset(s)
    PROVE  IInv'
<1>1. /\ peer = "open" /\ peer' = "reset"
      /\ UNCHANGED <<sndUna, sndNxt, waitVars, closeWait, appVars, put, wire, acks, got,
                     peerFin, takesPart>>
  BY DEF PeerReset
<1>2. Expected' = Expected
  BY <1>1 DEF Expected, AckNumber
<1>3. TypeInv'
  BY <1>1 DEF IInv, TypeInv, TypeOK, waitVars, appVars
<1>4. NetInv' /\ PeerInv'
  BY <1>1, <1>2 DEF IInv, NetInv, PeerInv, PeerGetsPrefix, Over, appVars
<1>5. CallInv' /\ ResultInv' /\ WholeInv'
  BY <1>1 DEF IInv, CallInv, ResultInv, WholeInv, Over, waitVars, appVars
<1>6. QED BY <1>3, <1>4, <1>5 DEF IInv

LEMMA PeerSpeaksStep ==
    ASSUME IInv, NEW kind \in {"fin", "rst"}, PeerSpeaks(kind)
    PROVE  IInv'
<1>1. /\ acks' \in Onto(acks, {Answer(kind, AckNumber(Len(got), peer))}, AckMax)
      /\ UNCHANGED <<sndUna, sndNxt, waitVars, closeWait, appVars, put, wire, got, takesPart>>
      /\ \/ kind = "fin" /\ peer # "reset" /\ peerFin' = TRUE /\ UNCHANGED peer
         \/ kind = "rst" /\ peer # "ended" /\ peer' = "reset" /\ UNCHANGED peerFin
  BY DEF PeerSpeaks
<1>2. /\ peer \in {"open", "ended", "reset"} /\ peerFin \in BOOLEAN
      /\ peer = "ended" => Over /\ Len(got) = put
  BY DEF IInv, TypeInv, TypeOK, PeerInv
<1>3. /\ peer' \in {"open", "ended", "reset"} /\ peerFin' \in BOOLEAN
      /\ (peer = "ended" => peer' = "ended") /\ (peer' = "ended" => Over /\ Len(got) = put)
  BY <1>1, <1>2
<1>4. QED BY <1>1, <1>2, <1>3, PeerAnswers

-----------------------------------------------------------------------------
(* The theorems.                                                           *)

LEMMA InitIInv == Init => IInv
<1> SUFFICES ASSUME Init PROVE IInv
  OBVIOUS
<1>1. <<>> \in Seq(Nat) /\ Len(<<>>) = 0
  BY EmptySeq
<1>2. /\ call \in [len : Nat, done : Nat, chunk : Nat] /\ last \in Result
      /\ last.op = "none"
  BY DEF Init, NoCall, NoResult, Result
<1>3. takesPart \in BOOLEAN /\ 0 \in 0 .. AttemptMs
  BY SendAssumption DEF Init
<1>4. TypeInv
  <2>1. TypeOK
    <3>1. got \in Seq(Nat) /\ peer \in {"open", "ended", "reset"} /\ phase \in Phases
      BY <1>1 DEF Init, Phases
    <3>2. msLeft \in 0 .. AttemptMs /\ slice \in Slices \cup {0}
      BY <1>3 DEF Init
    <3>3. /\ sndUna \in Nat /\ sndNxt \in Nat /\ sendSeq \in Nat /\ target \in Nat
          /\ retryLeft \in Nat /\ pos \in Nat /\ put \in Nat /\ sndUna <= sndNxt
      BY DEF Init
    <3>4. closeWait \in BOOLEAN /\ peerFin \in BOOLEAN /\ failed \in BOOLEAN
      BY DEF Init
    <3>5. QED BY <1>2, <1>3, <3>1, <3>2, <3>3, <3>4 DEF TypeOK
  <2>2. wire \subseteq Segment /\ acks \subseteq Reply
    BY DEF Init
  <2>3. QED BY <1>2, <2>1, <2>2 DEF TypeInv
<1>5. NetInv /\ PeerInv /\ WholeInv
  BY <1>1 DEF Init, NetInv, PeerInv, PeerGetsPrefix, Expected, AckNumber, WholeInv
<1>6. CallInv /\ ResultInv
  BY <1>2 DEF Init, CallInv, ResultInv
<1>7. QED BY <1>4, <1>5, <1>6 DEF IInv

LEMMA StutterStep == IInv /\ UNCHANGED vars => IInv'
<1> SUFFICES ASSUME IInv, UNCHANGED vars PROVE IInv'
  OBVIOUS
<1> USE DEF vars, waitVars, appVars, peerVars
<1>1. TypeInv'
  BY DEF IInv, TypeInv, TypeOK
<1>2. NetInv' /\ PeerInv'
  BY DEF IInv, NetInv, PeerInv, PeerGetsPrefix, Over, Expected, AckNumber
<1>3. CallInv' /\ ResultInv' /\ WholeInv'
  BY DEF IInv, CallInv, ResultInv, WholeInv, Over
<1>4. QED BY <1>1, <1>2, <1>3 DEF IInv

LEMMA NextIInv == ~SendsAgain /\ IInv /\ [Next]_vars => IInv'
<1> SUFFICES ASSUME ~SendsAgain, IInv, [Next]_vars PROVE IInv'
  OBVIOUS
<1>1. CASE Local
  BY <1>1, SendStartStep, SendChunkStep, SendResumeStep, SendFrameStep, SendSilenceStep,
     SendStoppedStep, RecvFrameStep, RecvClosedStep, CloseAbortsStep, CloseStartStep,
     FinFrameStep, FinSilenceStep, FinStoppedStep
     DEF Local
<1>2. CASE Remote
  BY <1>2, PeerDataStep, PeerEndStep, PeerResetStep, PeerSpeaksStep DEF Remote
<1>3. CASE UNCHANGED vars
  BY <1>3, StutterStep
<1>4. QED BY <1>1, <1>2, <1>3 DEF Next

\* The inductive invariant holds in every reachable state, as long as the
\* application does not call SEND again after a SEND that failed.
THEOREM Inductive ==
    ASSUME ~SendsAgain
    PROVE  Spec => []IInv
<1>1. IInv /\ [Next]_vars => IInv'
  BY NextIInv
<1>2. QED BY <1>1, InitIInv, PTL DEF Spec

\* Every variable keeps its type, and SND_UNA never passes SND_NXT.
THEOREM TypeCorrect ==
    ASSUME ~SendsAgain
    PROVE  Spec => []TypeOK
<1>1. IInv => TypeOK
  BY DEF IInv, TypeInv
<1>2. QED BY <1>1, Inductive, PTL

\* Whatever the network loses, repeats and reorders, and however a SEND is
\* sliced and resumed, the peer takes the application's bytes in order, each
\* once.
THEOREM DeliversPrefix ==
    ASSUME ~SendsAgain
    PROVE  Spec => []PeerGetsPrefix
<1>1. IInv => PeerGetsPrefix
  BY DEF IInv, PeerInv
<1>2. QED BY <1>1, Inductive, PTL

\* DE is exact on every return of SEND: of this call's bytes, those the peer
\* has acknowledged, and all of them exactly when the call succeeds.
THEOREM CountsExactly ==
    ASSUME ~SendsAgain
    PROVE  Spec => []ProgressExact
<1>1. IInv => ProgressExact
  <2> SUFFICES ASSUME IInv, last.op = "send" PROVE ProgressExact
    BY DEF ProgressExact
  <2>1. phase = "again" => pos + last.de <= Len(got)
    <3> SUFFICES ASSUME phase = "again" PROVE pos + last.de <= Len(got)
      OBVIOUS
    <3>1. peer # "ended" /\ sndUna <= Expected /\ pos + last.de = sndUna
      BY DEF IInv, PeerInv, ResultInv, Over
    <3>2. QED BY <3>1, Numbers DEF IInv
  <2>2. pos <= Len(got)
    BY DEF IInv, PeerInv
  <2>3. /\ last.de \in 0 .. last.len
        /\ last.status = "OK" <=> last.de = last.len
    BY DEF IInv, ResultInv
  <2>4. QED BY <2>1, <2>2, <2>3 DEF ProgressExact
<1>2. QED BY <1>1, Inductive, PTL

\* When CLOSE aborts, one of its two resets has the number the peer expects,
\* as long as the peer takes segments whole.
THEOREM ResetsHit ==
    ASSUME ~SendsAgain
    PROVE  Spec => []AbortHitsPeer
<1>1. IInv => AbortHitsPeer
  <2> SUFFICES ASSUME IInv, ~takesPart, phase = "idle", sndUna # sndNxt
               PROVE  Len(got) \in {sndUna, sndNxt}
    BY DEF AbortHitsPeer
  <2>1. /\ sndNxt = put /\ Len(got) \in {sendSeq, put} /\ sndUna \in {sendSeq, put}
    BY DEF IInv, CallInv, WholeInv, Over
  <2>2. QED BY <2>1
<1>2. QED BY <1>1, Inductive, PTL

-----------------------------------------------------------------------------
(* The sender implements ByteStream.                                       *)

\* A step of the sender shows the peer new bytes, or tells the application
\* of more, or neither.
LEMMA LocalMoves ==
    ASSUME IInv, IInv', Local
    PROVE  /\ UNCHANGED <<got, peer>>
           /\ \/ UNCHANGED <<put, pos>>
              \/ UNCHANGED pos /\ put' > put /\ peer # "ended"
              \/ UNCHANGED put /\ pos' > pos
<1>1. /\ put \in Nat /\ put' \in Nat /\ pos \in Nat /\ pos' \in Nat
      /\ sndUna \in Nat /\ sendSeq \in Nat
      /\ call.len \in Nat /\ call.done \in Nat /\ call.chunk \in Nat
  BY Numbers DEF IInv, TypeInv, TypeOK
<1>2. ASSUME NEW n \in Nat, NEW seq \in Nat, NEW left, NEW txOk, Try(seq, n, left, txOk),
             pos + call.done = seq, seq <= sndUna, peer # "ended"
      PROVE  /\ UNCHANGED <<got, peer>>
             /\ \/ UNCHANGED <<put, pos>>
                \/ UNCHANGED pos /\ put' > put /\ peer # "ended"
                \/ UNCHANGED put /\ pos' > pos
  <2>1. UNCHANGED <<got, peer>>
    BY <1>2 DEF Try, peerVars
  <2>2. CASE UNCHANGED pos /\ put' = Larger(put, seq + n)
    BY <1>1, <1>2, <2>1, <2>2 DEF Larger
  <2>3. CASE UNCHANGED put /\ pos' = pos + (call.done + (sndUna - seq))
    <3>1. pos' = sndUna /\ pos <= sndUna
      BY <1>1, <1>2, <2>3
    <3>2. QED BY <1>1, <2>1, <2>3, <3>1
  <2>4. QED BY <1>2, <2>2, <2>3 DEF Try, SendFails, Progress
<1>3. ASSUME NEW una \in Nat, NEW f, SendHears(una, f), phase = "send", sndUna <= una,
             UNCHANGED <<put, peerVars>>
      PROVE  UNCHANGED <<got, peer, put>> /\ (UNCHANGED pos \/ pos' > pos)
  <2>1. /\ sendSeq = pos + call.done /\ sendSeq <= sndUna /\ call.done + call.chunk >= 1
    BY <1>1, <1>3 DEF IInv, CallInv
  <2>2. \/ UNCHANGED pos
        \/ pos' = pos + (call.done + call.chunk)
        \/ pos' = pos + (call.done + (una - sendSeq))
    BY <1>3 DEF SendHears, ChunkSent, SendFails, Progress
  <2>3. UNCHANGED <<got, peer, put>>
    BY <1>3 DEF peerVars
  <2>4. pos + (call.done + (una - sendSeq)) = una /\ pos <= una
    BY <1>1, <1>3, <2>1
  <2>5. QED BY <1>1, <1>3, <2>1, <2>2, <2>3, <2>4
<1>4. ASSUME NEW txOk \in BOOLEAN, SendChunk(txOk)
      PROVE  /\ UNCHANGED <<got, peer>>
             /\ \/ UNCHANGED <<put, pos>>
                \/ UNCHANGED pos /\ put' > put /\ peer # "ended"
                \/ UNCHANGED put /\ pos' > pos
  <2>1. /\ phase = "chunk" /\ Try(sndNxt, Smaller(MSS, call.len - call.done), Attempts, txOk)
        /\ pos + call.done = sndNxt /\ sndNxt <= sndUna /\ sndNxt \in Nat /\ peer # "ended"
        /\ call.done < call.len
    BY <1>4 DEF SendChunk, IInv, TypeInv, TypeOK, CallInv, PeerInv, Over
  <2>2. Smaller(MSS, call.len - call.done) \in Nat
    BY <1>1, <2>1, SendAssumption DEF Smaller
  <2>3. QED BY <1>2, <2>1, <2>2
<1>5. ASSUME NEW txOk \in BOOLEAN, SendSilence(txOk)
      PROVE  /\ UNCHANGED <<got, peer>>
             /\ \/ UNCHANGED <<put, pos>>
                \/ UNCHANGED pos /\ put' > put /\ peer # "ended"
                \/ UNCHANGED put /\ pos' > pos
  <2>1. /\ phase = "send" /\ pos + call.done = sendSeq /\ sendSeq <= sndUna /\ peer # "ended"
    BY <1>5 DEF SendSilence, IInv, TypeInv, TypeOK, CallInv, PeerInv, Over
  <2>2. CASE Try(sendSeq, call.chunk, retryLeft - 1, txOk)
    BY <1>1, <1>2, <2>1, <2>2
  <2>3. CASE UNCHANGED <<pos, put, peerVars>>
    BY <2>3 DEF peerVars
  <2>4. CASE SendHears(sndUna, "F_TIMEOUT") /\ UNCHANGED <<put, peerVars>>
    <3>1. sndUna <= sndUna
      BY <1>1
    <3>2. QED BY <1>1, <1>3, <2>1, <2>4, <3>1
  <2>5. QED BY <1>5, <2>2, <2>3, <2>4 DEF SendSilence, SendHears, Confirmed, Spent
<1>6. ASSUME NEW m \in acks, NEW inOrder \in BOOLEAN, NEW txOk \in BOOLEAN,
             SendFrame(m, inOrder, txOk)
      PROVE  UNCHANGED <<got, peer, put>> /\ (UNCHANGED pos \/ pos' > pos)
  <2>1. phase = "send" /\ UNCHANGED <<put, peerVars>>
    BY <1>6 DEF SendFrame
  <2>2. Acked(m.ack) \in Nat /\ sndUna <= Acked(m.ack)
    BY AckedExact
  <2>3. CASE UNCHANGED appVars
    BY <2>1, <2>3 DEF appVars, peerVars
  <2>4. CASE SendHears(Acked(m.ack), Outcome(m, inOrder, txOk))
    BY <1>3, <2>1, <2>2, <2>4
  <2>5. QED BY <1>6, <2>3, <2>4 DEF SendFrame
<1>7. ASSUME NEW f, SendStopped(f)
      PROVE  UNCHANGED <<got, peer, put>> /\ (UNCHANGED pos \/ pos' > pos)
  <2>1. phase = "send" /\ SendHears(sndUna, f) /\ UNCHANGED <<put, peerVars>> /\ sndUna <= sndUna
    BY <1>1, <1>7 DEF SendStopped
  <2>2. QED BY <1>1, <1>3, <2>1
<1>8. CASE \/ \E n \in 1 .. StreamLen, sl \in Slices : SendStart(n, sl)
           \/ \E sl \in Slices : SendResume(sl)
           \/ \E m \in acks, inOrder \in BOOLEAN : RecvFrame(m, inOrder)
           \/ RecvClosed
  BY <1>8 DEF SendStart, SendResume, RecvFrame, RecvClosed, peerVars
<1>9. CASE \/ \E txNxt, txUna \in BOOLEAN : CloseAborts(txNxt, txUna)
           \/ \E txOk \in BOOLEAN : CloseStart(txOk)
           \/ \E m \in acks, inOrder, txOk \in BOOLEAN : FinFrame(m, inOrder, txOk)
           \/ \E txOk \in BOOLEAN : FinSilence(txOk)
           \/ \E f \in {"F_CANCEL", "F_OTHER"} : FinStopped(f)
  BY <1>9 DEF CloseAborts, CloseStart, FinFrame, FinSilence, FinStopped, peerVars
<1>10. QED BY <1>4, <1>5, <1>6, <1>7, <1>8, <1>9 DEF Local

\* A step of the peer takes bytes it was shown, or ends or aborts the stream.
LEMMA RemoteMoves ==
    ASSUME IInv, IInv', Remote
    PROVE  /\ UNCHANGED <<put, pos>>
           /\ \/ UNCHANGED peer /\ (Len(got') = Len(got) \/ (peer = "open" /\ Len(got') > Len(got)))
              \/ UNCHANGED got /\ peer = "open" /\ peer' = "ended" /\ Len(got) = put
              \/ UNCHANGED got /\ peer = "open" /\ peer' = "reset"
<1>1. ASSUME NEW s \in wire, PeerData(s)
      PROVE  /\ UNCHANGED <<put, pos, peer>>
             /\ Len(got') = Len(got) \/ (peer = "open" /\ Len(got') > Len(got))
  <2>1. UNCHANGED <<put, pos, peer>>
    BY <1>1 DEF PeerData, appVars
  <2>2. CASE got' = got
    BY <2>1, <2>2
  <2>3. CASE /\ peer = "open" /\ Len(got) - s.seq >= 0 /\ s.seq + s.len - Len(got) > 0
             /\ \E k \in (IF takesPart THEN 1 ELSE s.seq + s.len - Len(got)) .. s.seq + s.len - Len(got) :
                   got' = got \o [i \in 1 .. k |-> s.first + (Len(got) - s.seq) + i - 1]
    <3>1. PICK k \in (IF takesPart THEN 1 ELSE s.seq + s.len - Len(got)) .. s.seq + s.len - Len(got) :
                   got' = got \o [i \in 1 .. k |-> s.first + (Len(got) - s.seq) + i - 1]
      BY <2>3
    <3>2. /\ s.seq \in Nat /\ s.len \in Nat /\ s.first = s.seq + 1
          /\ got \in Seq(Nat) /\ Len(got) \in Nat /\ PeerGetsPrefix
      BY <1>1, Numbers DEF PeerData, IInv, TypeInv, TypeOK, Segment, NetInv, PeerInv
    <3>3. k \in Nat /\ k >= 1
      BY <2>3, <3>2
    <3>4. [i \in 1 .. k |-> s.first + (Len(got) - s.seq) + i - 1] = [i \in 1 .. k |-> Len(got) + i]
      BY <3>2, <3>3
    <3>5. Len(got') = Len(got) + k
      BY <3>1, <3>2, <3>3, <3>4, PrefixGrows
    <3>6. QED BY <2>1, <2>3, <3>2, <3>3, <3>5
  <2>4. QED BY <1>1, <2>2, <2>3 DEF PeerData
<1>2. ASSUME NEW s \in wire, PeerEnd(s)
      PROVE  /\ UNCHANGED <<put, pos, got>>
             /\ UNCHANGED peer \/ (peer = "open" /\ peer' = "ended" /\ Len(got) = put)
  <2>1. s.seq = put /\ peer \in {"open", "ended"}
    BY <1>2 DEF PeerEnd, IInv, NetInv, TypeInv, TypeOK
  <2>2. QED BY <1>2, <2>1 DEF PeerEnd, appVars
<1>3. CASE (\E s \in wire : PeerReset(s)) \/ \E kind \in {"fin", "rst"} : PeerSpeaks(kind)
  <2>1. peer \in {"open", "ended", "reset"}
    BY DEF IInv, TypeInv, TypeOK
  <2>2. QED BY <1>3, <2>1 DEF PeerReset, PeerSpeaks, appVars
<1>4. QED BY <1>1, <1>2, <1>3 DEF Remote

\* Every step of the sender and the peer is a step of ByteStream or leaves
\* its state alone.
LEMMA StepRefines == IInv /\ IInv' /\ [Next]_vars => [Promise!Next]_(Promise!vars)
<1> SUFFICES ASSUME IInv, IInv', [Next]_vars
             PROVE  Promise!Next \/ UNCHANGED <<put, Len(got), pos, peer>>
  BY DEF Promise!vars
<1>1. /\ put \in Nat /\ put' \in Nat /\ pos \in Nat /\ pos' \in Nat
      /\ Len(got) \in Nat /\ Len(got') \in Nat /\ Len(got') <= put' /\ pos' <= Len(got')
  BY LenProperties DEF IInv, TypeInv, TypeOK, PeerInv
<1>2. CASE Local
  <2>1. UNCHANGED <<got, peer>>
    BY <1>2, LocalMoves
  <2>2. CASE UNCHANGED <<put, pos>>
    BY <2>1, <2>2
  <2>3. CASE UNCHANGED pos /\ put' > put /\ peer # "ended"
    BY <1>1, <2>1, <2>3 DEF Promise!Next, Promise!Put
  <2>4. CASE UNCHANGED put /\ pos' > pos
    <3>1. pos' \in pos + 1 .. Len(got)
      BY <1>1, <2>1, <2>4
    <3>2. QED BY <2>1, <2>4, <3>1 DEF Promise!Next, Promise!Confirm
  <2>5. QED BY <1>2, <2>2, <2>3, <2>4, LocalMoves
<1>3. CASE Remote
  <2>1. UNCHANGED <<put, pos>>
    BY <1>3, RemoteMoves
  <2>2. CASE UNCHANGED peer /\ Len(got') = Len(got)
    BY <2>1, <2>2
  <2>3. CASE UNCHANGED peer /\ peer = "open" /\ Len(got') > Len(got)
    <3>1. Len(got') \in Len(got) + 1 .. put
      BY <1>1, <2>1, <2>3
    <3>2. QED BY <2>1, <2>3, <3>1 DEF Promise!Next, Promise!Take
  <2>4. CASE UNCHANGED got /\ peer = "open" /\ peer' = "ended" /\ Len(got) = put
    BY <2>1, <2>4 DEF Promise!Next, Promise!Finish
  <2>5. CASE UNCHANGED got /\ peer = "open" /\ peer' = "reset"
    BY <2>1, <2>5 DEF Promise!Next, Promise!Abort
  <2>6. QED BY <1>3, <2>2, <2>3, <2>4, <2>5, RemoteMoves
<1>4. CASE UNCHANGED vars
  BY <1>4 DEF vars, appVars, peerVars
<1>5. QED BY <1>2, <1>3, <1>4 DEF Next

\* The sending side keeps the promise of ByteStream: bytes are shown to the
\* peer in order, the application is never told of a byte the peer does not
\* have, and the peer sees the orderly end only with every byte.
THEOREM Implements ==
    ASSUME ~SendsAgain
    PROVE  Spec => ImplementsStream
<1>1. Init => Promise!Init
  BY EmptySeq DEF Init, Promise!Init
<1>2. IInv /\ IInv' /\ [Next]_vars => [Promise!Next]_(Promise!vars)
  BY StepRefines
<1>3. QED BY <1>1, <1>2, Inductive, PTL DEF Spec, ImplementsStream, Promise!Spec

=============================================================================
