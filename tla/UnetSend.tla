------------------------------ MODULE UnetSend ------------------------------
(***************************************************************************)
(* The sending side of one UNETRTL TCP channel: F_SEND's chunk loop,       *)
(* TCP.SEND and SEND_RESUME (stop and wait, bounded retransmission, AGAIN  *)
(* slices), RECV as far as it moves the send state, and TCP.CLOSE with     *)
(* AWAIT_FIN_ACK, against a peer and a network that are external.          *)
(*                                                                         *)
(* Sequence numbers are positions in the outgoing stream, counted from 0   *)
(* (TcpSeq shows that the 32-bit registers decide as these numbers do).    *)
(* The application hands over the bytes 1, 2, 3, ... of its data, each     *)
(* call starting behind what the last one reported as sent.                *)
(***************************************************************************)
EXTENDS Integers, Sequences, FiniteSets

CONSTANTS
    StreamLen,     \* bound: bytes the application has to send
    MSS,           \* TCP_MSS, the largest chunk (536)
    Attempts,      \* SEND_ATTEMPTS (4)
    AttemptMs,     \* SEND_ACK_TIMEOUT_MS, in units of the smallest slice
    FinAttempts,   \* CLOSE_ATTEMPTS (3)
    Slices,        \* values of UNET_OPT_SENDSLICE; 0 blocks
    SendsAgain,    \* the application calls SEND after a SEND that failed
    TakesPart,     \* whether a peer may take the first part of a segment: the kinds of peer
    WireMax,       \* bound: frames held by the network towards the peer
    AckMax         \* bound: frames held by the network towards the channel

ASSUME SendAssumption ==
    /\ StreamLen \in Nat
    /\ MSS \in Nat \ {0}
    /\ Attempts \in Nat \ {0}
    /\ AttemptMs \in Nat \ {0}
    /\ FinAttempts \in Nat \ {0}
    /\ Slices \subseteq Nat
    /\ SendsAgain \in BOOLEAN
    /\ TakesPart \subseteq BOOLEAN
    /\ WireMax \in Nat
    /\ AckMax \in Nat

VARIABLES
    sndUna, sndNxt,  \* TCP_SND_UNA, TCP_SND_NXT
    sendSeq,         \* TCP_SEND_SEQ: first byte of the chunk
    target,          \* TCP_ACK_WAIT_TARGET
    retryLeft,       \* TCP_SEND_RETRY_LEFT; of CLOSE: the FINs left
    msLeft,          \* TCP_ATTEMPT_MS_LEFT
    slice,           \* OPT_SLICE
    closeWait,       \* TCP_STATE = ST_CLOSE_WAIT
    phase,           \* where the channel is: see Phases
    call,            \* the SEND call: its length, SEND_DONE and CHUNK_LEN
    pos,             \* bytes the application was told were sent
    last,            \* the last result returned to the application
    failed,          \* an earlier SEND of this connection failed
    put,             \* bytes that have been on the wire at least once
    wire,            \* frames the network may deliver to the peer
    acks,            \* frames the network may deliver to the channel
    got,             \* what the peer has taken
    peer,            \* what the peer knows of the stream's end
    peerFin,         \* the peer has sent its FIN
    takesPart        \* the peer may take the first part of a segment

waitVars == <<sendSeq, target, retryLeft, msLeft, slice>>
appVars  == <<phase, call, pos, last, failed>>
peerVars == <<got, peer, peerFin, takesPart>>
vars     == <<sndUna, sndNxt, waitVars, closeWait, appVars, put, wire, acks, peerVars>>

\* chunk: about to call TCP.SEND; send: waiting for its ACK; again: suspended;
\* fin: AWAIT_FIN_ACK; closed: the channel is released.
Phases == {"idle", "chunk", "send", "again", "fin", "closed"}

-----------------------------------------------------------------------------
(* The network: it loses, repeats and reorders, holding a few frames.      *)

Data(seq, first, len) == [kind |-> "data", seq |-> seq, first |-> first, len |-> len]
Fin(seq)              == [kind |-> "fin", seq |-> seq, first |-> 0, len |-> 0]
Rst(seq)              == [kind |-> "rst", seq |-> seq, first |-> 0, len |-> 0]
Answer(kind, ack)     == [kind |-> kind, ack |-> ack]

\* What may be left on the way once some frames are sent.
Onto(net, frames, max) == {n \in SUBSET (net \cup frames) : Cardinality(n) <= max}

-----------------------------------------------------------------------------
(* Pieces of the code.                                                     *)

Smaller(a, b) == IF a < b THEN a ELSE b
Larger(a, b)  == IF a < b THEN b ELSE a

\* Mutant: a resumed or later chunk is read from the start of the buffer.
PayloadAtStart(p, done) == p + 1

\* The first application byte of the chunk: ARG_DE + SEND_DONE.
Payload(p, done) == p + done + 1

\* Mutant: the target always lies a full segment ahead.
TargetOfFullChunk(seq, len) == seq + MSS

\* SEND: the acknowledgement that confirms the chunk.
Target(seq, len) == seq + len

\* UPDATE_SEND_ACK.
Acked(ack) == IF sndUna <= ack /\ ack <= sndNxt THEN ack ELSE sndUna

\* Mutant: a slice longer than what is left of the attempt is not cut.
QuantumUncut == IF slice = 0 THEN msLeft ELSE slice

\* SEND: the silence a wait may last.
Quantum == IF slice = 0 THEN msLeft ELSE Smaller(slice, msLeft)

\* Mutant: every failed transmission rewinds.
RewoundAlways(una, nxt, left) == una

\* SND_NXT after a failed transmission: only a first attempt proves that
\* nothing left the NIC.
Rewound(una, nxt, left) == IF left = Attempts THEN una ELSE nxt

\* Mutant: a resumed wait starts a fresh budget.
ResumeBudgetFresh(left) == AttemptMs

\* SEND_RESUME: the attempt's budget is as SEND left it.
ResumeBudget(left) == left

\* .ATTEMPT_EXHAUSTED: no transmission is left.
Spent(left) == left = 0

\* Mutant: an error return is believed without looking at SND_UNA.
ConfirmedOnlyByReturn(una, outcome) == outcome = "ok"

\* SEND takes a chunk as sent whenever SND_UNA has reached the target, even
\* if RECV came back with an error.
Confirmed(una, outcome) == una = target

\* SEND_PROGRESS.
Progress(una, seq) == call.done + (una - seq)

\* What RECV returns to a waiting SEND or CLOSE on frame m: in order or not,
\* our own ACK of it sent or not.
Outcome(m, inOrder, txOk) ==
    LET cw == closeWait \/ (m.kind = "fin" /\ inOrder)
    IN  CASE m.kind = "rst"       -> "F_RST"
          [] inOrder /\ ~txOk     -> "F_SEND"
          [] ~inOrder /\ ~txOk    -> "wait"
          [] txOk /\ cw           -> "F_CLOSED"
          [] OTHER                -> IF Acked(m.ack) = target THEN "ok" ELSE "wait"

\* MAP_TCP_SEND_FAIL.
SendStatus(f) ==
    CASE f = "F_CANCEL" -> "CANCEL"
      [] f = "F_SEND"   -> "HW"
      [] f \in {"F_CLOSED", "F_RST"} -> "CLOSED"
      [] OTHER          -> "SEND"

-----------------------------------------------------------------------------
NoCall   == [len |-> 0, done |-> 0, chunk |-> 0]
NoResult == [op |-> "none", status |-> "OK", de |-> 0, len |-> 0]

Init ==
    /\ sndUna = 0 /\ sndNxt = 0 /\ sendSeq = 0 /\ target = 0
    /\ retryLeft = 0 /\ msLeft = 0 /\ slice = 0
    /\ closeWait = FALSE
    /\ phase = "idle"
    /\ call = NoCall
    /\ pos = 0
    /\ last = NoResult
    /\ failed = FALSE
    /\ put = 0
    /\ wire = {}
    /\ acks = {}
    /\ got = <<>>
    /\ peer = "open"
    /\ peerFin = FALSE
    /\ takesPart \in TakesPart

\* A SEND call returns with a failure: MAP_TCP_SEND_FAIL, SEND_PROGRESS.
SendFails(f, una, seq) ==
    LET de == Progress(una, seq)
    IN  /\ phase' = IF f = "F_RST" THEN "closed" ELSE "idle"
        /\ last' = [op |-> "send", status |-> SendStatus(f),
                    de |-> de, len |-> call.len]
        /\ pos' = pos + de
        /\ failed' = TRUE
        /\ call' = NoCall

\* .after_send: the chunk is confirmed; the loop goes on or the call returns.
ChunkSent ==
    LET done == call.done + call.chunk
    IN  \/ /\ done < call.len
           /\ phase' = "chunk"
           /\ call' = [call EXCEPT !.done = done]
           /\ UNCHANGED <<last, pos, failed>>
        \/ /\ done = call.len
           /\ phase' = "idle"
           /\ last' = [op |-> "send", status |-> "OK",
                       de |-> done, len |-> done]
           /\ pos' = pos + done
           /\ call' = NoCall
           /\ UNCHANGED failed

\* .TRY: transmit bytes seq .. seq + len - 1 with left attempts to go.
Try(seq, len, left, txOk) ==
    /\ sendSeq' = seq
    /\ target' = Target(seq, len)
    /\ retryLeft' = left
    /\ msLeft' = AttemptMs
    /\ \/ /\ txOk
          /\ wire' \in Onto(wire, {Data(seq, Payload(pos, call.done), len)}, WireMax)
          /\ put' = Larger(put, seq + len)
          /\ sndNxt' = Target(seq, len)
          /\ phase' = "send"
          /\ call' = [call EXCEPT !.chunk = len]
          /\ UNCHANGED <<pos, last, failed>>
       \/ /\ ~txOk
          /\ sndNxt' = Rewound(sndUna, Target(seq, len), left)
          /\ SendFails("F_SEND", sndUna, seq)
          /\ UNCHANGED <<wire, put>>
    /\ UNCHANGED <<sndUna, slice, closeWait, acks, peerVars>>

\* RECV gave the waiting SEND the outcome of a frame, a timeout or a local
\* stop; una is SND_UNA by then.
SendHears(una, outcome) ==
    \/ /\ Confirmed(una, outcome)
       /\ ChunkSent
    \/ /\ ~Confirmed(una, outcome)
       /\ SendFails(outcome, una, sendSeq)

-----------------------------------------------------------------------------
(* SEND.                                                                   *)

\* F_SEND, fresh call, with whatever SETOPT has made of the slice.
SendStart(n, sl) ==
    /\ phase = "idle"
    /\ SendsAgain \/ ~failed
    /\ pos \in 0 .. StreamLen - n
    /\ sndNxt <= StreamLen
    /\ phase' = "chunk"
    /\ slice' = sl
    /\ call' = [len |-> n, done |-> 0, chunk |-> 0]
    /\ last' = NoResult
    /\ UNCHANGED <<sndUna, sndNxt, sendSeq, target, retryLeft, msLeft, closeWait,
                   pos, failed, put, wire, acks, peerVars>>

\* The chunk loop calls TCP.SEND.
SendChunk(txOk) ==
    /\ phase = "chunk"
    /\ Try(sndNxt, Smaller(MSS, call.len - call.done), Attempts, txOk)

\* F_SEND, the same call again: SEND_RESUME.
SendResume(sl) ==
    /\ phase = "again"
    /\ phase' = "send"
    /\ slice' = sl
    /\ msLeft' = ResumeBudget(msLeft)
    /\ last' = NoResult
    /\ UNCHANGED <<sndUna, sndNxt, sendSeq, target, retryLeft, closeWait, call, pos,
                   failed, put, wire, acks, peerVars>>

\* RECV takes a frame of the peer.
Hear(m, inOrder) ==
    /\ ~(inOrder /\ m.kind = "fin" /\ closeWait)
    /\ sndUna' = Acked(m.ack)
    /\ closeWait' = (closeWait \/ (m.kind = "fin" /\ inOrder))

\* RECV, called by SEND, takes a frame.
SendFrame(m, inOrder, txOk) ==
    LET outcome == Outcome(m, inOrder, txOk)
    IN  /\ phase = "send"
        /\ Hear(m, inOrder)
        /\ \/ outcome = "wait" /\ UNCHANGED appVars
           \/ outcome # "wait" /\ SendHears(Acked(m.ack), outcome)
        /\ UNCHANGED <<sndNxt, waitVars, put, wire, acks, peerVars>>

\* RECV was silent for the whole quantum: the chunk may have been confirmed
\* all the same; else the call is suspended, or the attempt is spent.
SendSilence(txOk) ==
    /\ phase = "send"
    /\ \/ /\ Confirmed(sndUna, "F_TIMEOUT")
          /\ ChunkSent
          /\ UNCHANGED <<sndUna, sndNxt, waitVars, closeWait, put, wire, acks, peerVars>>
       \/ /\ ~Confirmed(sndUna, "F_TIMEOUT")
          /\ Quantum # msLeft
          /\ phase' = "again"
          /\ msLeft' = msLeft - Quantum
          /\ last' = [op |-> "send", status |-> "AGAIN",
                      de |-> Progress(sndUna, sendSeq), len |-> call.len]
          /\ UNCHANGED <<sndUna, sndNxt, sendSeq, target, retryLeft, slice, closeWait, call,
                         pos, failed, put, wire, acks, peerVars>>
       \/ /\ ~Confirmed(sndUna, "F_TIMEOUT")
          /\ Quantum = msLeft
          /\ ~Spent(retryLeft - 1)
          /\ Try(sendSeq, call.chunk, retryLeft - 1, txOk)
       \/ /\ ~Confirmed(sndUna, "F_TIMEOUT")
          /\ Quantum = msLeft
          /\ Spent(retryLeft - 1)
          /\ SendFails("F_TIMEOUT", sndUna, sendSeq)
          /\ UNCHANGED <<sndUna, sndNxt, waitVars, closeWait, put, wire, acks, peerVars>>

\* RECV stopped for a local reason: the cancel key, or a frame for the other
\* channel that has to stay in the ring.
SendStopped(f) ==
    /\ phase = "send"
    /\ SendHears(sndUna, f)
    /\ UNCHANGED <<sndUna, sndNxt, waitVars, closeWait, put, wire, acks, peerVars>>

-----------------------------------------------------------------------------
(* RECV between two SEND calls, as far as the send state goes.             *)

\* A reset releases the channel once the saved bytes are read.
RecvFrame(m, inOrder) ==
    /\ phase = "idle"
    /\ Hear(m, inOrder)
    /\ phase' \in IF m.kind = "rst" THEN {"idle", "closed"} ELSE {"idle"}
    /\ UNCHANGED <<sndNxt, waitVars, call, pos, last, failed, put, wire, acks, peerVars>>

\* .report_closed: after the peer's FIN and the last saved byte.
RecvClosed ==
    /\ phase = "idle"
    /\ closeWait
    /\ phase' = "closed"
    /\ UNCHANGED <<sndUna, sndNxt, waitVars, closeWait, call, pos, last, failed, put,
                   wire, acks, peerVars>>

-----------------------------------------------------------------------------
(* CLOSE.                                                                  *)

Closed(status) ==
    /\ phase' = "closed"
    /\ last' = [op |-> "close", status |-> status, de |-> 0, len |-> 0]

\* Bytes are outstanding: RST at both ends of them.
CloseAborts(txNxt, txUna) ==
    /\ phase = "idle"
    /\ sndUna # sndNxt
    /\ wire' \in Onto(wire, (IF txNxt THEN {Rst(sndNxt)} ELSE {})
                              \cup (IF txUna THEN {Rst(sndUna)} ELSE {}), WireMax)
    /\ sndNxt' = sndUna
    /\ Closed(IF txNxt /\ txUna THEN "OK" ELSE "HW")
    /\ UNCHANGED <<sndUna, waitVars, closeWait, call, pos, failed, put, acks, peerVars>>

\* Everything is acknowledged: FIN, and LAST_ACK.
CloseStart(txOk) ==
    /\ phase = "idle"
    /\ sndUna = sndNxt
    /\ \/ /\ txOk
          /\ wire' \in Onto(wire, {Fin(sndNxt)}, WireMax)
          /\ sndNxt' = sndNxt + 1
          /\ target' = sndNxt + 1
          /\ retryLeft' = FinAttempts
          /\ phase' = "fin"
          /\ closeWait' = FALSE
          /\ UNCHANGED last
       \/ /\ ~txOk
          /\ Closed("HW")
          /\ UNCHANGED <<wire, sndNxt, target, retryLeft, closeWait>>
    /\ UNCHANGED <<sndUna, sendSeq, msLeft, slice, call, pos, failed, put, acks, peerVars>>

\* AWAIT_FIN_ACK: any answer of the peer ends the wait.
FinFrame(m, inOrder, txOk) ==
    LET outcome == Outcome(m, inOrder, txOk)
    IN  /\ phase = "fin"
        /\ Hear(m, inOrder)
        /\ \/ outcome = "wait" /\ UNCHANGED <<phase, last>>
           \/ outcome # "wait" /\ Closed("OK")
        /\ UNCHANGED <<sndNxt, waitVars, call, pos, failed, put, wire, acks, peerVars>>

\* .SILENT: the next FIN, built at SND_UNA, or the end.
FinSilence(txOk) ==
    /\ phase = "fin"
    /\ \/ /\ sndUna = target
          /\ Closed("OK")
          /\ UNCHANGED <<sndNxt, retryLeft, wire>>
       \/ /\ sndUna # target
          /\ retryLeft = 1
          /\ Closed("TIMEOUT")
          /\ UNCHANGED <<sndNxt, retryLeft, wire>>
       \/ /\ sndUna # target
          /\ retryLeft > 1
          /\ retryLeft' = retryLeft - 1
          /\ wire' \in IF txOk THEN Onto(wire, {Fin(sndUna)}, WireMax) ELSE {wire}
          /\ sndNxt' = sndUna + 1
          /\ UNCHANGED <<phase, last>>
    /\ UNCHANGED <<sndUna, sendSeq, target, msLeft, slice, closeWait, call, pos, failed, put,
                   acks, peerVars>>

FinStopped(f) ==
    /\ phase = "fin"
    /\ Closed(IF sndUna = target THEN "OK" ELSE IF f = "F_CANCEL" THEN "CANCEL" ELSE "TIMEOUT")
    /\ UNCHANGED <<sndUna, sndNxt, waitVars, closeWait, call, pos, failed, put, wire,
                   acks, peerVars>>

-----------------------------------------------------------------------------
(* The peer: any TCP receiver.                                             *)

AckNumber(taken, p) == taken + (IF p = "ended" THEN 1 ELSE 0)

\* A data frame: what is new of it, or as much as fits, is taken; every frame
\* is answered.
PeerData(s) ==
    /\ s.kind = "data"
    /\ peer # "reset"
    /\ LET new  == s.seq + s.len - Len(got)
           skip == Len(got) - s.seq
       IN  \/ /\ peer = "open" /\ skip >= 0 /\ new > 0
              /\ \E k \in (IF takesPart THEN 1 ELSE new) .. new :
                    got' = got \o [i \in 1 .. k |-> s.first + skip + i - 1]
           \/ /\ peer = "ended" \/ skip < 0 \/ new <= 0
              /\ got' = got
    /\ acks' \in Onto(acks, {Answer("ack", AckNumber(Len(got'), peer))}, AckMax)
    /\ UNCHANGED <<sndUna, sndNxt, waitVars, closeWait, appVars, put, wire, peer, peerFin, takesPart>>

\* The end of the stream, taken in order only.
PeerEnd(s) ==
    /\ s.kind = "fin"
    /\ peer # "reset"
    /\ peer' = IF s.seq = Len(got) THEN "ended" ELSE peer
    /\ acks' \in Onto(acks, {Answer("ack", AckNumber(Len(got), peer'))}, AckMax)
    /\ UNCHANGED <<sndUna, sndNxt, waitVars, closeWait, appVars, put, wire, got, peerFin, takesPart>>

\* A reset counts at exactly the next expected number (RFC 5961).
PeerReset(s) ==
    /\ s.kind = "rst"
    /\ peer = "open"
    /\ s.seq = Len(got)
    /\ peer' = "reset"
    /\ UNCHANGED <<sndUna, sndNxt, waitVars, closeWait, appVars, put, wire, acks, got,
                   peerFin, takesPart>>

\* The peer's own FIN, first or again, and its own reset.
PeerSpeaks(kind) ==
    /\ \/ kind = "fin" /\ peer # "reset" /\ peerFin' = TRUE /\ UNCHANGED peer
       \/ kind = "rst" /\ peer # "ended" /\ peer' = "reset" /\ UNCHANGED peerFin
    /\ acks' \in Onto(acks, {Answer(kind, AckNumber(Len(got), peer))}, AckMax)
    /\ UNCHANGED <<sndUna, sndNxt, waitVars, closeWait, appVars, put, wire, got, takesPart>>

-----------------------------------------------------------------------------
Local ==
    \/ \E n \in 1 .. StreamLen, sl \in Slices : SendStart(n, sl)
    \/ \E txOk \in BOOLEAN : SendChunk(txOk)
    \/ \E sl \in Slices : SendResume(sl)
    \/ \E m \in acks, inOrder, txOk \in BOOLEAN : SendFrame(m, inOrder, txOk)
    \/ \E txOk \in BOOLEAN : SendSilence(txOk)
    \/ \E f \in {"F_CANCEL", "F_OTHER"} : SendStopped(f)
    \/ \E m \in acks, inOrder \in BOOLEAN : RecvFrame(m, inOrder)
    \/ RecvClosed
    \/ \E txNxt, txUna \in BOOLEAN : CloseAborts(txNxt, txUna)
    \/ \E txOk \in BOOLEAN : CloseStart(txOk)
    \/ \E m \in acks, inOrder, txOk \in BOOLEAN : FinFrame(m, inOrder, txOk)
    \/ \E txOk \in BOOLEAN : FinSilence(txOk)
    \/ \E f \in {"F_CANCEL", "F_OTHER"} : FinStopped(f)

Remote ==
    \/ \E s \in wire : PeerData(s)
    \/ \E s \in wire : PeerEnd(s)
    \/ \E s \in wire : PeerReset(s)
    \/ \E kind \in {"fin", "rst"} : PeerSpeaks(kind)

Next == Local \/ Remote

Spec == Init /\ [][Next]_vars

\* The code runs, its waits end (every pass of RECV's loop uses up a tick),
\* and the application resumes a suspended SEND.
FairSpec ==
    /\ Spec
    /\ WF_vars(\E txOk \in BOOLEAN : SendChunk(txOk))
    /\ WF_vars(\E txOk \in BOOLEAN : SendSilence(txOk))
    /\ WF_vars(\E sl \in Slices : SendResume(sl))
    /\ WF_vars(\E txOk \in BOOLEAN : FinSilence(txOk))

-----------------------------------------------------------------------------
(* Properties.                                                             *)

TypeOK ==
    /\ sndUna \in Nat /\ sndNxt \in Nat /\ sendSeq \in Nat /\ target \in Nat
    /\ retryLeft \in Nat /\ msLeft \in 0 .. AttemptMs /\ slice \in Slices \cup {0}
    /\ closeWait \in BOOLEAN /\ peerFin \in BOOLEAN /\ failed \in BOOLEAN
    /\ phase \in Phases
    /\ call \in [len : Nat, done : Nat, chunk : Nat]
    /\ pos \in Nat /\ put \in Nat
    /\ sndUna <= sndNxt
    /\ got \in Seq(Nat)
    /\ peer \in {"open", "ended", "reset"} /\ takesPart \in BOOLEAN

\* The peer takes the application's bytes in order, each once.
PeerGetsPrefix == \A i \in 1 .. Len(got) : got[i] = i

\* The channel keeps the promise of ByteStream.
Promise == INSTANCE ByteStream WITH put <- put, taken <- Len(got), confirmed <- pos, end <- peer
ImplementsStream == Promise!Spec

\* DE, on every return of SEND, counts bytes of this call the peer has, and
\* the call succeeds exactly if that is all of them: a FIN, a reset or a
\* failure that comes with or behind the last acknowledgement is no error.
ProgressExact ==
    last.op = "send" =>
        /\ last.de \in 0 .. last.len
        /\ last.status = "OK" <=> last.de = last.len
        /\ (IF phase = "again" THEN pos + last.de ELSE pos) <= Len(got)

\* Whenever CLOSE would abort, one of the two numbers it resets at is the one
\* the peer expects (tcp_lib.asm: "both candidates for it are known here").
\* It does not hold of a peer that takes part of a segment: if the ACK of the
\* part is lost, the peer expects neither.
AbortHitsPeer ==
    ~takesPart /\ phase = "idle" /\ sndUna # sndNxt /\ peer = "open" => Len(got) \in {sndUna, sndNxt}

\* A SEND that is resumed whenever it suspends ends, and so does a CLOSE.
CallsEnd == phase \in {"chunk", "send", "again", "fin"} ~> phase \in {"idle", "closed"}

=============================================================================
