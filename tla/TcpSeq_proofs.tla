---------------------------- MODULE TcpSeq_proofs ----------------------------
(***************************************************************************)
(* Proofs about TcpSeq for every register width and every initial sequence *)
(* number: the signed comparison of UPDATE_SEND_ACK is exact, and what     *)
(* RECV accepts continues the stream.                                      *)
(***************************************************************************)
EXTENDS TcpSeq, TLAPS

-----------------------------------------------------------------------------
(* Remainders.                                                             *)

\* Division with remainder.
LEMMA ModQuotient ==
    ASSUME NEW a \in Int, NEW m \in Nat, m > 0
    PROVE  /\ a % m \in 0 .. m - 1
           /\ \E q \in Int : a = m * q + (a % m)
OBVIOUS

\* The remainder is unique.
LEMMA ModUnique ==
    ASSUME NEW q \in Int, NEW m \in Nat, m > 0, NEW r \in 0 .. m - 1
    PROVE  (m * q + r) % m = r
OBVIOUS

\* Multiples of the modulus do not count.
LEMMA ModShift ==
    ASSUME NEW q \in Int, NEW m \in Nat, m > 0, NEW a \in Int
    PROVE  (m * q + a) % m = a % m
<1>1. a % m \in 0 .. m - 1
  BY ModQuotient
<1>2. PICK p \in Int : a = m * p + (a % m)
  BY ModQuotient
<1>3. m * q + a = m * (q + p) + (a % m)
  BY <1>1, <1>2
<1>4. QED BY <1>1, <1>3, ModUnique

\* Two multiples with their rests subtract part by part.
LEMMA PartsSubtract ==
    ASSUME NEW a \in Int, NEW b \in Int, NEW m \in Int, NEW p \in Int, NEW q \in Int,
           NEW c \in Int, NEW d \in Int, a = m * p + c, b = m * q + d
    PROVE  a - b = m * (p - q) + (c - d)
OBVIOUS

\* Registers subtract as the numbers they stand for.
LEMMA ModDifference ==
    ASSUME NEW a \in Int, NEW b \in Int, NEW m \in Nat, m > 0
    PROVE  ((a % m) - (b % m)) % m = (a - b) % m
<1>1. a % m \in Int /\ b % m \in Int
  BY ModQuotient
<1>2. PICK p \in Int : a = m * p + (a % m)
  BY ModQuotient
<1>3. PICK q \in Int : b = m * q + (b % m)
  BY ModQuotient
<1>4. a - b = m * (p - q) + ((a % m) - (b % m))
  BY <1>1, <1>2, <1>3, PartsSubtract
<1>5. QED BY SMTT(30), <1>1, <1>4, ModShift

\* Adding to a register.
LEMMA ModSum ==
    ASSUME NEW a \in Int, NEW n \in Int, NEW m \in Nat, m > 0
    PROVE  ((a % m) + n) % m = (a + n) % m
<1>1. a % m \in Int
  BY ModQuotient
<1>2. PICK p \in Int : a = m * p + (a % m)
  BY ModQuotient
<1>3. a + n = m * p + ((a % m) + n)
  BY <1>1, <1>2
<1>4. QED BY <1>1, <1>3, ModShift

\* Small numbers are their own remainder; small negative ones wrap once.
LEMMA ModSmall ==
    ASSUME NEW a \in Int, NEW m \in Nat, m > 0, -m <= a, a < m
    PROVE  a % m = IF a < 0 THEN a + m ELSE a
<1>1. CASE a >= 0
  <2>1. a \in 0 .. m - 1 /\ a = m * 0 + a
    BY <1>1
  <2>2. QED BY <1>1, <2>1, ModUnique
<1>2. CASE a < 0
  <2>1. a + m \in 0 .. m - 1 /\ a = m * (-1) + (a + m)
    BY <1>2
  <2>2. QED BY <1>2, <2>1, ModUnique
<1>3. QED BY <1>1, <1>2

-----------------------------------------------------------------------------
(* The comparisons of the code.                                            *)

LEMMA Registers ==
    /\ Modulus \in Nat /\ Modulus > 0
    /\ Reach \in Nat /\ MaxOut \in Nat /\ 2 * (Reach + MaxOut) < Modulus
    /\ Recent \in Nat /\ 2 * Recent <= Modulus
    /\ MaxLen \in Nat /\ MaxLen < Recent
BY SeqAssumption

\* The difference of two registers less than half the range apart.
LEMMA MinusExact ==
    ASSUME NEW a \in Int, NEW b \in Int, -Modulus <= a - b, a - b < Modulus
    PROVE  Minus(a % Modulus, b % Modulus) = IF a < b THEN a - b + Modulus ELSE a - b
<1>1. Minus(a % Modulus, b % Modulus) = (a - b) % Modulus
  BY Registers, ModDifference DEF Minus
<1> DEFINE d == a - b
<1>2. d \in Int /\ (d < 0 <=> a < b)
  OBVIOUS
<1>3. d % Modulus = IF d < 0 THEN d + Modulus ELSE d
  BY Registers, ModSmall
<1> HIDE DEF d
<1>4. (IF d < 0 THEN d + Modulus ELSE d) = IF a < b THEN d + Modulus ELSE d
  BY <1>2, Zenon
<1>5. Minus(a % Modulus, b % Modulus) = d % Modulus
  BY <1>1 DEF d
<1>6. Minus(a % Modulus, b % Modulus) = IF a < b THEN d + Modulus ELSE d
  BY <1>3, <1>4, <1>5, Zenon
<1>7. QED BY <1>6, Zenon DEF d

\* The sign of that difference tells which number is larger.
LEMMA NegativeExact ==
    ASSUME NEW a \in Int, NEW b \in Int, -Modulus < 2 * (a - b), 2 * (a - b) < Modulus
    PROVE  Negative(a % Modulus, b % Modulus) <=> a < b
<1>1. -Modulus <= a - b /\ a - b < Modulus
  BY Registers
<1>2. Minus(a % Modulus, b % Modulus) = IF a < b THEN a - b + Modulus ELSE a - b
  BY <1>1, MinusExact
<1>3. QED BY <1>2, Registers DEF Negative

\* UPDATE_SEND_ACK takes an acknowledgement exactly if it lies between the
\* first unconfirmed byte and the last one sent.
LEMMA AcceptsAckExact ==
    ASSUME NEW i \in Int, NEW u \in Int, NEW x \in Int, NEW t \in Int,
           u <= x, x - u <= MaxOut, u - Reach <= t, t <= x + Reach
    PROVE  AcceptsAck((i + t) % Modulus, (i + u) % Modulus, (i + x) % Modulus)
             <=> t \in u .. x
<1>1. /\ -Modulus < 2 * (t - u) /\ 2 * (t - u) < Modulus
      /\ -Modulus < 2 * (x - t) /\ 2 * (x - t) < Modulus
  BY Registers
<1>2. Negative((i + t) % Modulus, (i + u) % Modulus) <=> t < u
  BY <1>1, NegativeExact
<1>3. Negative((i + x) % Modulus, (i + t) % Modulus) <=> x < t
  BY <1>1, NegativeExact
<1>4. QED BY <1>2, <1>3 DEF AcceptsAck

\* A segment RECV accepts begins no later than RCV_NXT, reaches past it, and
\* the trimmed difference is the true one.
LEMMA AcceptsInPlace ==
    ASSUME NEW i \in Int, NEW r \in Int, NEW t \in Int, NEW len \in 0 .. MaxLen,
           NEW fin, NEW cw, r - Reach <= t, t <= r + Reach,
           fin \/ len > 0,
           Accepts((i + r) % Modulus, (i + t) % Modulus, len, fin, cw)
    PROVE  /\ t <= r
           /\ Minus((i + r) % Modulus, (i + t) % Modulus) = r - t
           /\ t + len + (IF fin THEN 1 ELSE 0) > r
           /\ r - t <= len
<1> DEFINE rcv == (i + r) % Modulus
           seq == (i + t) % Modulus
<1>1. -Modulus <= r - t /\ r - t < Modulus /\ Modulus - Reach > MaxLen
  BY Registers
<1> DEFINE a == i + r
           b == i + t
<1>7. /\ rcv = (i + r) % Modulus /\ seq = (i + t) % Modulus
      /\ rcv = a % Modulus /\ seq = b % Modulus
  OBVIOUS
<1>9. a \in Int /\ b \in Int /\ a - b = r - t /\ (a < b <=> r < t)
  OBVIOUS
<1>3. rcv \in Int
  BY Registers, ModQuotient
<1>8. Accepts(rcv, seq, len, fin, cw)
  OBVIOUS
<1> HIDE DEF a, b
<1>2. Minus(rcv, seq) = IF r < t THEN r - t + Modulus ELSE r - t
  <2>1. Minus(a % Modulus, b % Modulus) = IF a < b THEN a - b + Modulus ELSE a - b
    BY <1>1, <1>9, MinusExact
  <2>2. Minus(a % Modulus, b % Modulus) = IF r < t THEN r - t + Modulus ELSE r - t
    BY <2>1, <1>9, Zenon
  <2>3. QED BY <2>2, <1>7, Zenon
<1> HIDE DEF rcv, seq
<1>4. CASE seq = rcv
  <2>1. Minus(rcv, seq) = 0
    <3>1. rcv - seq = 0
      BY <1>3, <1>4
    <3>2. 0 % Modulus = 0
      BY Registers, ModSmall
    <3>3. QED BY <3>1, <3>2 DEF Minus
  <2>2. r = t
    BY <1>1, <1>2, <2>1, Registers
  <2>3. Minus(rcv, seq) = r - t /\ t <= r /\ r - t <= len
        /\ t + len + (IF fin THEN 1 ELSE 0) > r
    BY <1>2, <2>2, Registers
  <2>4. QED BY <2>3, <1>7, Zenon
<1>5. CASE seq # rcv
  <2>1. Minus(rcv, seq) < len \/ (Minus(rcv, seq) = len /\ fin)
    BY <1>5, <1>8 DEF Accepts
  <2>2. t <= r
    BY <1>1, <1>2, <2>1, Registers
  <2>3. Minus(rcv, seq) = r - t
    BY <1>2, <2>2
  <2>4. t + len + (IF fin THEN 1 ELSE 0) > r /\ r - t <= len
    BY <2>1, <2>3, Registers
  <2>5. QED BY <2>2, <2>3, <2>4, <1>7, Zenon
<1>6. QED BY <1>4, <1>5

-----------------------------------------------------------------------------
(* The theorems.                                                           *)

\* The sending half's invariant: exact registers, bounded distance.
SendInv ==
    /\ iss \in Int /\ trueUna \in Nat /\ trueNxt \in Nat
    /\ trueUna <= trueNxt /\ trueNxt - trueUna <= MaxOut
    /\ sndUna = (iss + trueUna) % Modulus
    /\ sndNxt = (iss + trueNxt) % Modulus

\* Every step keeps the registers exact.
LEMMA SendInvariant == Spec => []SendInv
<1>1. Init => SendInv
  <2> SUFFICES ASSUME Init PROVE SendInv
    OBVIOUS
  <2>1. iss \in 0 .. Modulus - 1
    BY SeqAssumption DEF Init
  <2>2. iss \in Int /\ iss + 0 = iss /\ iss % Modulus = iss
    BY <2>1, Registers, ModSmall
  <2>3. QED BY <2>2, Registers DEF Init, SendInv
<1>2. SendInv /\ [Next]_vars => SendInv'
  <2> SUFFICES ASSUME SendInv, [Next]_vars PROVE SendInv'
    OBVIOUS
  <2>1. ASSUME NEW n \in 1 .. MaxLen, Transmit(n) PROVE SendInv'
    <3>1. n \in Nat /\ iss + trueNxt \in Int
      BY Registers DEF SendInv
    <3>2. sndNxt' = (iss + trueNxt + n) % Modulus
      <4>1. (((iss + trueNxt) % Modulus) + n) % Modulus = (iss + trueNxt + n) % Modulus
        BY <3>1, Registers, ModSum
      <4>2. sndNxt' = (((iss + trueNxt) % Modulus) + n) % Modulus
        BY <2>1 DEF SendInv, Transmit, Plus
      <4>3. QED BY <4>1, <4>2
    <3>3. /\ trueNxt' = trueNxt + n /\ trueNxt' - trueUna <= MaxOut
          /\ iss' = iss /\ trueUna' = trueUna /\ sndUna' = sndUna
      BY <2>1, <3>1 DEF SendInv, Transmit
    <3>4. sndNxt' = (iss' + trueNxt') % Modulus
      BY <3>1, <3>2, <3>3 DEF SendInv
    <3>5. QED BY <3>1, <3>3, <3>4 DEF SendInv
  <2>2. ASSUME NEW t \in trueUna - Reach .. trueNxt + Reach, AckArrives(t) PROVE SendInv'
    <3>1. t \in Int /\ trueUna - Reach <= t /\ t <= trueNxt + Reach
      BY Registers DEF SendInv
    <3>2. AcceptsAck((iss + t) % Modulus, sndUna, sndNxt) <=> t \in trueUna .. trueNxt
      <4>1. /\ iss \in Int /\ trueUna \in Int /\ trueNxt \in Int
            /\ trueUna <= trueNxt /\ trueNxt - trueUna <= MaxOut
            /\ sndUna = (iss + trueUna) % Modulus
            /\ sndNxt = (iss + trueNxt) % Modulus
        BY DEF SendInv
      <4>2. AcceptsAck((iss + t) % Modulus, (iss + trueUna) % Modulus, (iss + trueNxt) % Modulus)
              <=> t \in trueUna .. trueNxt
        BY <3>1, <4>1, AcceptsAckExact
      <4>3. QED BY <4>1, <4>2
    <3>3. /\ sndUna' = IF t \in trueUna .. trueNxt THEN (iss + t) % Modulus ELSE sndUna
          /\ trueUna' = IF t \in trueUna .. trueNxt THEN t ELSE trueUna
          /\ iss' = iss /\ sndNxt' = sndNxt /\ trueNxt' = trueNxt
      BY <2>2, <3>2 DEF AckArrives
    <3>4. CASE t \in trueUna .. trueNxt
      <4>1. t \in Nat /\ t <= trueNxt /\ trueNxt - t <= MaxOut
        BY <3>1, <3>4, Registers DEF SendInv
      <4>2. /\ sndUna' = (iss + t) % Modulus /\ trueUna' = t
            /\ iss' = iss /\ sndNxt' = sndNxt /\ trueNxt' = trueNxt
        BY <3>3, <3>4
      <4>3. sndUna' = (iss' + trueUna') % Modulus /\ sndNxt' = (iss' + trueNxt') % Modulus
        BY <4>2 DEF SendInv
      <4>4. QED BY <4>1, <4>2, <4>3 DEF SendInv
    <3>5. CASE t \notin trueUna .. trueNxt
      BY <3>3, <3>5 DEF SendInv
    <3>6. QED BY <3>4, <3>5
  <2>3. ASSUME NEW t, NEW len, NEW fin, SegmentArrives(t, len, fin) PROVE SendInv'
    BY <2>3 DEF SendInv, SegmentArrives
  <2>4. CASE UNCHANGED vars
    BY <2>4 DEF SendInv, vars
  <2>5. QED BY <2>1, <2>2, <2>3, <2>4 DEF Next
<1>3. QED BY <1>1, <1>2, PTL DEF Spec

\* SND_UNA stands for the highest acknowledgement of bytes really sent, for
\* every width of the register and every initial sequence number.
THEOREM UnaIsExact == Spec => []UnaExact
<1>1. SendInv => UnaExact
  BY DEF SendInv, UnaExact
<1>2. QED BY <1>1, SendInvariant, PTL

\* The receiving half's invariant.
RecvInv == irs \in Int /\ trueRcv \in Nat /\ AcceptedInPlace

\* Every step keeps RCV_NXT at the bytes accepted.
LEMMA RecvInvariant == Spec => []RecvInv
<1>1. Init => RecvInv
  <2> SUFFICES ASSUME Init PROVE RecvInv
    OBVIOUS
  <2>1. irs \in 0 .. Modulus - 1
    BY SeqAssumption DEF Init
  <2>2. irs \in Int /\ irs + 0 = irs /\ irs % Modulus = irs
    BY <2>1, Registers, ModSmall
  <2>3. QED BY <2>2 DEF Init, RecvInv, AcceptedInPlace, NoSeg
<1>2. RecvInv /\ [Next]_vars => RecvInv'
  <2> SUFFICES ASSUME RecvInv, [Next]_vars PROVE RecvInv'
    OBVIOUS
  <2>1. ASSUME NEW t \in trueRcv - Reach .. trueRcv + Reach, NEW len \in 0 .. MaxLen,
               NEW fin \in BOOLEAN, SegmentArrives(t, len, fin)
        PROVE  RecvInv'
    <3> DEFINE seq == (irs + t) % Modulus
               delta == Minus(rcvNxt, seq)
               takes == Accepts(rcvNxt, seq, len, fin, closeWait)
               n == len - delta + (IF fin THEN 1 ELSE 0)
    <3>1. /\ irs \in Int /\ trueRcv \in Nat /\ rcvNxt = (irs + trueRcv) % Modulus
          /\ t \in Int /\ trueRcv - Reach <= t /\ t <= trueRcv + Reach
          /\ len \in Int /\ len >= 0
      BY Registers DEF RecvInv, AcceptedInPlace
    <3>2. /\ fin \/ len > 0
          /\ rcvNxt' = IF takes THEN Plus(rcvNxt, n) ELSE rcvNxt
          /\ trueRcv' = IF takes THEN trueRcv + n ELSE trueRcv
          /\ seg'.gap = IF takes THEN t + delta - trueRcv ELSE 0
          /\ seg'.new = (t <= trueRcv /\ t + len + (IF fin THEN 1 ELSE 0) > trueRcv)
          /\ seg'.accepted = takes
          /\ irs' = irs
      BY <2>1 DEF SegmentArrives
    <3>3. CASE takes
      <4>1. /\ t <= trueRcv /\ delta = trueRcv - t
            /\ t + len + (IF fin THEN 1 ELSE 0) > trueRcv
            /\ trueRcv - t <= len
        <5>1. Accepts((irs + trueRcv) % Modulus, (irs + t) % Modulus, len, fin, closeWait)
          BY <3>1, <3>3
        <5>2. /\ t <= trueRcv
              /\ Minus((irs + trueRcv) % Modulus, (irs + t) % Modulus) = trueRcv - t
              /\ t + len + (IF fin THEN 1 ELSE 0) > trueRcv
              /\ trueRcv - t <= len
          <6>1. trueRcv \in Int /\ (fin \/ len > 0)
            BY <3>1, <3>2
          <6>2. QED BY <3>1, <5>1, <6>1, AcceptsInPlace
        <5>3. QED BY <3>1, <5>2
      <4> HIDE DEF takes, delta
      <4>2. n \in Nat
        BY <3>1, <4>1
      <4> HIDE DEF n
      <4>3. rcvNxt' = (irs + trueRcv + n) % Modulus
        <5>1. irs + trueRcv \in Int /\ n \in Int
          BY <3>1, <4>2
        <5>2. (((irs + trueRcv) % Modulus) + n) % Modulus = (irs + trueRcv + n) % Modulus
          BY <5>1, Registers, ModSum
        <5>3. rcvNxt' = Plus(rcvNxt, n)
          BY <3>2, <3>3
        <5>4. QED BY <3>1, <5>2, <5>3 DEF Plus
      <4>4. trueRcv' = trueRcv + n /\ irs + trueRcv + n = irs' + trueRcv'
        BY <3>1, <3>2, <3>3, <4>2
      <4>5. seg'.gap = 0
        BY <3>1, <3>2, <3>3, <4>1
      <4>6. seg'.new
        BY <3>2, <4>1
      <4>7. QED BY <3>1, <3>2, <4>2, <4>3, <4>4, <4>5, <4>6 DEF RecvInv, AcceptedInPlace
    <3>4. CASE ~takes
      BY <3>1, <3>2, <3>4 DEF RecvInv, AcceptedInPlace
    <3>5. QED BY <3>3, <3>4
  <2>2. ASSUME NEW n, Transmit(n) PROVE RecvInv'
    BY <2>2 DEF RecvInv, AcceptedInPlace, Transmit
  <2>3. ASSUME NEW t, AckArrives(t) PROVE RecvInv'
    BY <2>3 DEF RecvInv, AcceptedInPlace, AckArrives
  <2>4. CASE UNCHANGED vars
    BY <2>4 DEF RecvInv, AcceptedInPlace, vars
  <2>5. QED BY <2>1, <2>2, <2>3, <2>4 DEF Next
<1>3. QED BY <1>1, <1>2, PTL DEF Spec

\* Whatever RECV accepts continues the stream at RCV_NXT, for every width of
\* the register: the unsigned comparison refuses good segments at the wrap,
\* but never takes a bad one.
THEOREM AcceptsOnlyInPlace == Spec => []AcceptedInPlace
<1>1. RecvInv => AcceptedInPlace
  BY DEF RecvInv
<1>2. QED BY <1>1, RecvInvariant, PTL

\* What neither half says: the initial numbers and the observation.
RestInv ==
    /\ iss \in 0 .. Modulus - 1 /\ irs \in 0 .. Modulus - 1
    /\ closeWait \in BOOLEAN
    /\ seg.known \in BOOLEAN /\ seg.new \in BOOLEAN /\ seg.accepted \in BOOLEAN

\* Registers stay within their width and the counts of true bytes never go
\* below zero, whatever numbers arrive.
THEOREM TypeCorrect == Spec => []TypeOK
<1>1. Init => RestInv
  <2> SUFFICES ASSUME Init PROVE RestInv
    OBVIOUS
  <2>1. iss \in 0 .. Modulus - 1 /\ irs \in 0 .. Modulus - 1
    BY SeqAssumption DEF Init
  <2>2. seg.known \in BOOLEAN /\ seg.new \in BOOLEAN /\ seg.accepted \in BOOLEAN
    BY DEF Init, NoSeg
  <2>3. QED BY <2>1, <2>2 DEF Init, RestInv
<1>2. RestInv /\ [Next]_vars => RestInv'
  <2> SUFFICES ASSUME RestInv, [Next]_vars PROVE RestInv'
    OBVIOUS
  <2>1. ASSUME NEW n, Transmit(n) PROVE RestInv'
    BY <2>1 DEF RestInv, Transmit
  <2>2. ASSUME NEW t, AckArrives(t) PROVE RestInv'
    BY <2>2 DEF RestInv, AckArrives
  <2>3. ASSUME NEW t, NEW len, NEW fin \in BOOLEAN, SegmentArrives(t, len, fin)
        PROVE  RestInv'
    <3>1. Accepts(rcvNxt, (irs + t) % Modulus, len, fin, closeWait) \in BOOLEAN
      BY DEF RestInv, Accepts
    <3>2. closeWait' \in BOOLEAN
      BY <2>3, <3>1 DEF RestInv, SegmentArrives
    <3>3. seg'.known \in BOOLEAN /\ seg'.new \in BOOLEAN /\ seg'.accepted \in BOOLEAN
      BY <2>3, <3>1 DEF SegmentArrives
    <3>4. UNCHANGED <<iss, irs>>
      BY <2>3 DEF SegmentArrives
    <3>5. QED BY <3>2, <3>3, <3>4 DEF RestInv
  <2>4. CASE UNCHANGED vars
    BY <2>4 DEF RestInv, vars
  <2>5. QED BY <2>1, <2>2, <2>3, <2>4 DEF Next
<1>3. SendInv /\ RecvInv /\ RestInv => TypeOK
  <2> SUFFICES ASSUME SendInv, RecvInv, RestInv PROVE TypeOK
    OBVIOUS
  <2>1. iss + trueUna \in Int /\ iss + trueNxt \in Int /\ irs + trueRcv \in Int
    BY DEF SendInv, RecvInv
  <2>2. /\ sndUna \in 0 .. Modulus - 1 /\ sndNxt \in 0 .. Modulus - 1
        /\ rcvNxt \in 0 .. Modulus - 1
    <3>1. \A a \in Int : a % Modulus \in 0 .. Modulus - 1
      BY Registers, ModQuotient
    <3>2. QED BY <2>1, <3>1 DEF SendInv, RecvInv, AcceptedInPlace
  <2>3. QED BY <2>2 DEF SendInv, RecvInv, RestInv, AcceptedInPlace, TypeOK
<1>4. QED BY <1>1, <1>2, <1>3, SendInvariant, RecvInvariant, PTL DEF Spec

=============================================================================
