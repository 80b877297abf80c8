------------------------------- MODULE TcpSeq -------------------------------
(***************************************************************************)
(* The 32-bit sequence arithmetic of tcp_lib.asm (UNET_DLL build): which   *)
(* acknowledgements UPDATE_SEND_ACK takes, and how RECV classifies a       *)
(* segment against RCV_NXT, both on registers that wrap.                   *)
(*                                                                         *)
(* Each register is shadowed by the count of bytes it stands for since the *)
(* connection began (trueUna, trueNxt, trueRcv), which does not wrap; the  *)
(* properties compare what the code decides with what is true.             *)
(***************************************************************************)
EXTENDS Integers

CONSTANTS
    Modulus,   \* 2^32
    Recent,    \* 65536: a copy at least this old is dropped unseen
    MaxLen,    \* largest payload of a segment
    MaxOut,    \* most bytes sent and not acknowledged
    Reach,     \* how far from the registers an arriving number may lie
    Starts,    \* initial sequence numbers
    Last       \* bound: bytes of each stream

ASSUME SeqAssumption ==
    /\ Modulus \in Nat \ {0, 1}
    /\ Recent \in Nat /\ 2 * Recent <= Modulus
    /\ MaxLen \in 1 .. Recent - 1
    /\ MaxOut \in Nat
    /\ Reach \in Nat
    \* serial numbers compare as long as they are less than half apart
    /\ 2 * (Reach + MaxOut) < Modulus
    /\ Starts \subseteq 0 .. Modulus - 1
    /\ Last \in Nat

VARIABLES
    iss, irs,          \* the initial sequence numbers of both directions
    sndUna, sndNxt,    \* TCP_SND_UNA, TCP_SND_NXT
    rcvNxt,            \* TCP_RCV_NXT
    closeWait,         \* TCP_STATE = ST_CLOSE_WAIT
    trueUna, trueNxt,  \* bytes acknowledged, bytes sent
    trueRcv,           \* bytes (and FIN) accepted
    seg                \* the last segment: what it was and what became of it

vars == <<iss, irs, sndUna, sndNxt, rcvNxt, closeWait, trueUna, trueNxt, trueRcv, seg>>

-----------------------------------------------------------------------------
(* Registers.                                                              *)

\* Mutant: the carry out of the top byte is kept.
PlusUnwrapped(a, n) == a + n

\* ADD32_BE_BC and INC_SEQ32.
Plus(a, n) == (a + n) % Modulus

\* The SUB/SBC chain over the four bytes: the difference, its borrow and sign.
Minus(a, b)    == (a - b) % Modulus
Borrows(a, b)  == a < b
Negative(a, b) == 2 * Minus(a, b) >= Modulus

\* Mutant: unsigned comparison.
AcceptsAckUnsigned(ack, una, nxt) == ~Borrows(ack, una) /\ ~Borrows(nxt, ack)

\* UPDATE_SEND_ACK: neither stale nor ahead of what was sent.
AcceptsAck(ack, una, nxt) == ~Negative(ack, una) /\ ~Negative(nxt, ack)

\* Mutant: the test against the segment's length forgets equality.
AcceptsWholeCopy(rcv, seq, len, fin, cw) ==
    ~Borrows(rcv, seq) /\ Minus(rcv, seq) < Recent /\ Minus(rcv, seq) <= len

\* RECV takes a segment that starts at RCV_NXT, or starts less than Recent
\* before it and holds a byte past it, or a first FIN exactly at it.
Accepts(rcv, seq, len, fin, cw) ==
    \/ seq = rcv
    \/ /\ ~Borrows(rcv, seq)
       /\ Minus(rcv, seq) < Recent
       /\ \/ Minus(rcv, seq) < len
          \/ Minus(rcv, seq) = len /\ fin /\ ~cw

-----------------------------------------------------------------------------
NoSeg == [known |-> FALSE, gap |-> 0, new |-> FALSE, accepted |-> FALSE]

Init ==
    /\ iss \in Starts
    /\ irs \in Starts
    /\ sndUna = iss
    /\ sndNxt = iss
    /\ rcvNxt = irs
    /\ closeWait = FALSE
    /\ trueUna = 0
    /\ trueNxt = 0
    /\ trueRcv = 0
    /\ seg = NoSeg

\* SEND builds a segment of n bytes behind whatever is still unconfirmed.
Transmit(n) ==
    /\ trueNxt + n - trueUna <= MaxOut
    /\ trueNxt + n <= Last
    /\ sndNxt' = Plus(sndNxt, n)
    /\ trueNxt' = trueNxt + n
    /\ UNCHANGED <<iss, irs, sndUna, rcvNxt, closeWait, trueUna, trueRcv, seg>>

\* An acknowledgement of position t arrives: current, stale, or never earned.
AckArrives(t) ==
    /\ LET ack == (iss + t) % Modulus
       IN  sndUna' = IF AcceptsAck(ack, sndUna, sndNxt) THEN ack ELSE sndUna
    /\ trueUna' = IF t \in trueUna .. trueNxt THEN t ELSE trueUna
    /\ UNCHANGED <<iss, irs, sndNxt, rcvNxt, closeWait, trueNxt, trueRcv, seg>>

\* The peer's bytes t .. t+len-1 arrive, with its FIN behind them or not.
SegmentArrives(t, len, fin) ==
    LET seq   == (irs + t) % Modulus
        delta == Minus(rcvNxt, seq)
        takes == Accepts(rcvNxt, seq, len, fin, closeWait)
        n     == len - delta + (IF fin THEN 1 ELSE 0)
    IN  /\ fin \/ len > 0
        /\ closeWait => t + len + (IF fin THEN 1 ELSE 0) <= trueRcv
        /\ trueRcv + len < Last
        /\ rcvNxt' = IF takes THEN Plus(rcvNxt, n) ELSE rcvNxt
        /\ trueRcv' = IF takes THEN trueRcv + n ELSE trueRcv
        /\ closeWait' = (closeWait \/ (takes /\ fin))
        /\ seg' = [known |-> TRUE,
                   gap |-> IF takes THEN t + delta - trueRcv ELSE 0,
                   new |-> t <= trueRcv /\ t + len + (IF fin THEN 1 ELSE 0) > trueRcv,
                   accepted |-> takes]
        /\ UNCHANGED <<iss, irs, sndUna, sndNxt, trueUna, trueNxt>>

Next ==
    \/ \E n \in 1 .. MaxLen : Transmit(n)
    \/ \E t \in trueUna - Reach .. trueNxt + Reach : AckArrives(t)
    \/ \E t \in trueRcv - Reach .. trueRcv + Reach, len \in 0 .. MaxLen, fin \in BOOLEAN :
          t >= 0 /\ SegmentArrives(t, len, fin)

Spec == Init /\ [][Next]_vars

-----------------------------------------------------------------------------
(* Properties.                                                             *)

TypeOK ==
    /\ iss \in 0 .. Modulus - 1
    /\ irs \in 0 .. Modulus - 1
    /\ sndUna \in 0 .. Modulus - 1
    /\ sndNxt \in 0 .. Modulus - 1
    /\ rcvNxt \in 0 .. Modulus - 1
    /\ closeWait \in BOOLEAN
    /\ trueUna \in Nat
    /\ trueNxt \in Nat
    /\ trueRcv \in Nat
    /\ seg.known \in BOOLEAN /\ seg.new \in BOOLEAN /\ seg.accepted \in BOOLEAN
    /\ seg.gap \in Int

\* SND_UNA is exactly the highest acknowledgement of bytes really sent, across
\* the wrap and whatever stale or unearned numbers arrive in between, and
\* never passes SND_NXT.
UnaExact ==
    /\ trueUna <= trueNxt
    /\ sndUna = (iss + trueUna) % Modulus
    /\ sndNxt = (iss + trueNxt) % Modulus

\* Whatever RECV accepts continues the stream: the first byte it takes from a
\* trimmed segment is the one RCV_NXT stands for.
AcceptedInPlace ==
    /\ seg.gap = 0
    /\ seg.accepted => seg.new
    /\ rcvNxt = (irs + trueRcv) % Modulus

=============================================================================
