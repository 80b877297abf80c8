--------------------------- MODULE NicRing_proofs ---------------------------
(***************************************************************************)
(* Proofs about NicRing for every ring, any frames, retries and faults:    *)
(* the types, that SEND_FRAME reports what left the wire, and that no      *)
(* write meant for page 0 reaches the registers of page 1.                 *)
(*                                                                         *)
(* First the chip: what a write to each register changes, and from these   *)
(* what a transfer through the data port and the read-backs of SELECT_PAGE *)
(* do.  The actions then are lemmas of one line of argument each: a step   *)
(* keeps the parts of the chip the invariant names, and the rest is what   *)
(* the driver's label owes.                                                *)
(***************************************************************************)
EXTENDS NicRing, FiniteSetTheorems, SequenceTheorems, TLAPS

-----------------------------------------------------------------------------
(* Chips.                                                                  *)

Stored == [frame : 0 .. MaxFrames, part : Nat, next : Ring, pages : Byte \ {0}]
Token == Stored \cup {Poison}
Frame == [id : Nat, prefix : BOOLEAN, rest : BOOLEAN, bytes : Word]
Chip == [cr : 0 .. 127, isr : Byte, curr : Byte, bnry : Byte, pstart : Byte, pstop : Byte,
         par : [1 .. 6 -> Byte], mar : [0 .. 7 -> Byte], rcr : Byte, tcr : Byte,
         dcr : Byte, imr : Byte, tpsr : Byte, tbcr : Word, rsar : Word, rbcr : Word,
         crda : Nat, dma : {"idle", "read", "write"}, stopped : BOOLEAN,
         rxHalted : BOOLEAN, bus : Byte, ram : [Ring -> Token], tx : Frame, wire : Frame]

\* The parts of a chip: the packet memory with the two ends of the wire, the
\* command register with what it drives, and the registers of page 1 and 0.
SameStore(c, d) == d.ram = c.ram /\ d.tx = c.tx /\ d.wire = c.wire
SameRun(c, d) == /\ d.cr = c.cr /\ d.stopped = c.stopped /\ d.rxHalted = c.rxHalted
                 /\ d.dma = c.dma /\ d.crda = c.crda
SameOne(c, d) == d.par = c.par /\ d.mar = c.mar /\ d.curr = c.curr
SameBounds(c, d) == /\ d.bnry = c.bnry /\ d.tpsr = c.tpsr /\ d.tbcr = c.tbcr
                    /\ d.pstart = c.pstart /\ d.pstop = c.pstop
                    /\ d.rsar = c.rsar /\ d.rbcr = c.rbcr
SameRing(c, d) == /\ d.bnry = c.bnry /\ d.tpsr = c.tpsr
                  /\ d.pstart = c.pstart /\ d.pstop = c.pstop
SameZero(c, d) == SameBounds(c, d) /\ d.isr = c.isr

-----------------------------------------------------------------------------
(* Bits and bytes.                                                         *)

LEMMA ClearedByte ==
    ASSUME NEW v \in Byte, NEW ones \in Byte
    PROVE  Cleared(v, ones) \in 0 .. v
<1> DEFINE B(bit) == IF Has(v, bit) THEN bit ELSE 0
<1>1. v = B(1) + B(2) + B(4) + B(8) + B(16) + B(32) + B(64) + B(128)
  BY DEF Has, Byte
<1>2. QED BY <1>1 DEF Cleared, Byte

LEMMA WordMember ==
    ASSUME NEW w \in Int
    PROVE  w \in Word <=> 0 <= w /\ w <= 65535
<1>1. MaxWord \in Int /\ (w <= MaxWord <=> w <= 65535)
  BY DEF MaxWord
<1>2. w \in Word <=> 0 <= w /\ w <= MaxWord
  BY <1>1 DEF Word
<1>3. QED BY <1>1, <1>2

LEMMA WordBytes ==
    ASSUME NEW w \in Word
    PROVE  HighByte(w) \in Byte /\ LowByte(w) \in Byte
<1>1. w \in Int /\ 0 <= w /\ w <= 65535
  <2>1. w \in Int
    BY DEF Word
  <2>2. w \in Word <=> 0 <= w /\ w <= 65535
    BY <2>1, WordMember
  <2>3. QED BY <2>1, <2>2
<1>2. QED BY <1>1 DEF HighByte, LowByte, Byte

LEMMA BytesWord ==
    ASSUME NEW h \in Byte, NEW l \in Byte
    PROVE  /\ 256 * h + l \in Word
           /\ HighByte(256 * h + l) = h /\ LowByte(256 * h + l) = l
<1>1. /\ 256 * h + l \in Int /\ 0 <= 256 * h + l /\ 256 * h + l <= 65535
      /\ (256 * h + l) \div 256 = h /\ (256 * h + l) % 256 = l
  BY DEF Byte
<1> DEFINE w == 256 * h + l
<1> HIDE DEF w
<1>2. w \in Word
  BY <1>1, WordMember DEF w
<1>3. QED BY <1>1, <1>2 DEF HighByte, LowByte, w

LEMMA WithByte ==
    ASSUME NEW w \in Word, NEW v \in Byte
    PROVE  /\ WithLow(w, v) \in Word /\ WithHigh(w, v) \in Word
           /\ LowByte(WithLow(w, v)) = v /\ HighByte(WithLow(w, v)) = HighByte(w)
           /\ HighByte(WithHigh(w, v)) = v /\ LowByte(WithHigh(w, v)) = LowByte(w)
BY WordBytes, BytesWord DEF WithLow, WithHigh

LEMMA SetByte ==
    ASSUME NEW v \in Byte, NEW bit \in {1, 2, 4, 8, 16, 32, 64, 128}
    PROVE  Set(v, bit) \in Byte
BY DEF Set, Has, Byte


-----------------------------------------------------------------------------
(* Chips, field by field.                                                  *)

LEMMA FieldTyped ==
    ASSUME NEW c \in Chip
    PROVE  /\ \A v \in Byte : [c EXCEPT !.bus = v] \in Chip
           /\ \A v \in [1 .. 6 -> Byte] : [c EXCEPT !.par = v] \in Chip
           /\ \A v \in [0 .. 7 -> Byte] : [c EXCEPT !.mar = v] \in Chip
           /\ \A v \in Byte : [c EXCEPT !.curr = v] \in Chip
           /\ \A v \in Byte : [c EXCEPT !.pstart = v] \in Chip
           /\ \A v \in Byte : [c EXCEPT !.pstop = v] \in Chip
           /\ \A v \in Byte : [c EXCEPT !.bnry = v] \in Chip
           /\ \A v \in Byte : [c EXCEPT !.tpsr = v] \in Chip
           /\ \A v \in Byte : [c EXCEPT !.isr = v] \in Chip
           /\ \A v \in Byte : [c EXCEPT !.rcr = v] \in Chip
           /\ \A v \in Byte : [c EXCEPT !.tcr = v] \in Chip
           /\ \A v \in Byte : [c EXCEPT !.dcr = v] \in Chip
           /\ \A v \in Byte : [c EXCEPT !.imr = v] \in Chip
           /\ \A v \in Word : [c EXCEPT !.tbcr = v] \in Chip
           /\ \A v \in Word : [c EXCEPT !.rsar = v] \in Chip
           /\ \A v \in Word : [c EXCEPT !.rbcr = v] \in Chip
BY DEF Chip

LEMMA RunTyped ==
    ASSUME NEW c \in Chip
    PROVE  /\ \A v \in 0 .. 127 : [c EXCEPT !.cr = v] \in Chip
           /\ \A v \in Nat : [c EXCEPT !.crda = v] \in Chip
           /\ \A v \in {"idle", "read", "write"} : [c EXCEPT !.dma = v] \in Chip
           /\ \A v \in BOOLEAN : [c EXCEPT !.stopped = v] \in Chip
           /\ \A v \in BOOLEAN : [c EXCEPT !.rxHalted = v] \in Chip
           /\ \A v \in [Ring -> Token] : [c EXCEPT !.ram = v] \in Chip
           /\ \A v \in Frame : [c EXCEPT !.tx = v] \in Chip
           /\ \A v \in Frame : [c EXCEPT !.wire = v] \in Chip
<1>1. /\ \A v \in 0 .. 127 : [c EXCEPT !.cr = v] \in Chip
      /\ \A v \in Nat : [c EXCEPT !.crda = v] \in Chip
      /\ \A v \in {"idle", "read", "write"} : [c EXCEPT !.dma = v] \in Chip
  BY DEF Chip
<1>2. /\ \A v \in BOOLEAN : [c EXCEPT !.stopped = v] \in Chip
      /\ \A v \in BOOLEAN : [c EXCEPT !.rxHalted = v] \in Chip
  BY DEF Chip
<1>3. /\ \A v \in [Ring -> Token] : [c EXCEPT !.ram = v] \in Chip
      /\ \A v \in Frame : [c EXCEPT !.tx = v] \in Chip
      /\ \A v \in Frame : [c EXCEPT !.wire = v] \in Chip
  BY DEF Chip
<1>4. QED BY <1>1, <1>2, <1>3

\* What two steps in a row leave alone.
LEMMA SameAgain ==
    ASSUME NEW c, NEW d, NEW e, SameStore(c, d), SameOne(c, d), SameBounds(c, d),
           SameStore(d, e), SameOne(d, e), SameBounds(d, e)
    PROVE  SameStore(c, e) /\ SameOne(c, e) /\ SameBounds(c, e)
BY DEF SameStore, SameOne, SameBounds

\* STA, and STP with the interrupt status it leaves.
Started(c) == [c EXCEPT !.stopped = FALSE, !.rxHalted = FALSE]
Stopped(c, isr) == [c EXCEPT !.stopped = TRUE, !.isr = isr]

LEMMA StartTyped ==
    ASSUME NEW c \in Chip, NEW d, d = Started(c)
    PROVE  /\ d \in Chip /\ SameStore(c, d) /\ SameOne(c, d) /\ SameBounds(c, d)
           /\ d.cr = c.cr /\ d.crda = c.crda /\ d.dma = c.dma /\ d.bus = c.bus /\ d.isr = c.isr
<1> DEFINE b == FALSE
<1> DEFINE e == [c EXCEPT !.stopped = b]
<1>1. b \in BOOLEAN /\ d = [e EXCEPT !.rxHalted = b]
  BY DEF Started
<1> HIDE DEF b
<1>2. e \in Chip
  BY <1>1, RunTyped
<1>3. /\ SameStore(c, e) /\ SameOne(c, e) /\ SameBounds(c, e)
      /\ e.cr = c.cr /\ e.crda = c.crda /\ e.dma = c.dma /\ e.bus = c.bus /\ e.isr = c.isr
  BY <1>2 DEF Chip, SameStore, SameOne, SameBounds
<1> HIDE DEF e
<1>4. d \in Chip
  BY <1>1, <1>2, RunTyped
<1>5. /\ SameStore(e, d) /\ SameOne(e, d) /\ SameBounds(e, d)
      /\ d.cr = e.cr /\ d.crda = e.crda /\ d.dma = e.dma /\ d.bus = e.bus /\ d.isr = e.isr
  BY <1>1, <1>2, <1>4 DEF Chip, SameStore, SameOne, SameBounds
<1>6. QED BY <1>3, <1>4, <1>5, SameAgain

LEMMA StopTyped ==
    ASSUME NEW c \in Chip, NEW isr \in Byte, NEW d, d = Stopped(c, isr)
    PROVE  /\ d \in Chip /\ SameStore(c, d) /\ SameOne(c, d) /\ SameBounds(c, d)
           /\ d.cr = c.cr /\ d.crda = c.crda /\ d.dma = c.dma /\ d.bus = c.bus
<1> DEFINE b == TRUE
<1> DEFINE e == [c EXCEPT !.stopped = b]
<1>1. b \in BOOLEAN /\ d = [e EXCEPT !.isr = isr]
  BY DEF Stopped
<1> HIDE DEF b
<1>2. e \in Chip
  BY <1>1, RunTyped
<1>3. /\ SameStore(c, e) /\ SameOne(c, e) /\ SameBounds(c, e)
      /\ e.cr = c.cr /\ e.crda = c.crda /\ e.dma = c.dma /\ e.bus = c.bus
  BY <1>2 DEF Chip, SameStore, SameOne, SameBounds
<1> HIDE DEF e
<1>4. d \in Chip
  BY <1>1, <1>2, FieldTyped
<1>5. /\ SameStore(e, d) /\ SameOne(e, d) /\ SameBounds(e, d)
      /\ d.cr = e.cr /\ d.crda = e.crda /\ d.dma = e.dma /\ d.bus = e.bus
  BY <1>1, <1>2, <1>4 DEF Chip, SameStore, SameOne, SameBounds
<1>6. QED BY <1>3, <1>4, <1>5, SameAgain

\* A remote DMA that stands still.
LEMMA IdleTyped ==
    ASSUME NEW c \in Chip, NEW d, d = [c EXCEPT !.dma = "idle"]
    PROVE  /\ d \in Chip /\ SameStore(c, d) /\ SameOne(c, d) /\ SameBounds(c, d)
           /\ d.cr = c.cr /\ d.crda = c.crda /\ d.isr = c.isr /\ d.bus = c.bus /\ d.dma = "idle"
<1>1. d \in Chip
  BY RunTyped
<1>2. QED BY <1>1 DEF Chip, SameStore, SameOne, SameBounds

LEMMA WriteGoes ==
    ASSUME NEW c \in Chip, NEW v, NEW s, s = [c EXCEPT !.bus = v]
    PROVE  /\ Page(s) = Page(c)
           /\ c ++ <<CR, v>> = WriteCr(s, v, FALSE)
           /\ \A off \in 1 .. 15 : Page(c) = 0 => c ++ <<off, v>> = WritePage0(s, off, v)
           /\ \A off \in 1 .. 15 : Page(c) = 1 => c ++ <<off, v>> = WritePage1(s, off, v)
<1>1. Page(s) = Page(c)
  BY DEF Page, Chip
<1>2. WriteReg(c, CR, v) = WriteCr(s, v, FALSE)
  BY DEF WriteReg, CR
<1>3. ASSUME NEW off \in 1 .. 15, Page(c) = 0
      PROVE  WriteReg(c, off, v) = WritePage0(s, off, v)
  <2>1. off # CR
    BY DEF CR
  <2>2. QED BY <1>1, <1>3, <2>1 DEF WriteReg
<1>4. ASSUME NEW off \in 1 .. 15, Page(c) = 1
      PROVE  WriteReg(c, off, v) = WritePage1(s, off, v)
  <2>1. off # CR
    BY DEF CR
  <2>2. QED BY <1>1, <1>4, <2>1 DEF WriteReg
<1>5. \A off : c ++ <<off, v>> = WriteReg(c, off, v)
  BY DEF ++
<1>6. QED BY <1>1, <1>2, <1>3, <1>4, <1>5

\* What a write to page 1 leaves.
OneWritten(c, off, v, d) ==
    /\ d.par = IF off < CURR THEN [c.par EXCEPT ![off] = v] ELSE c.par
    /\ d.curr = IF off = CURR THEN v ELSE c.curr
    /\ d.mar = IF off > CURR THEN [c.mar EXCEPT ![off - MAR0] = v] ELSE c.mar

\* Page 1 holds the address, CURR and the filter; nothing else changes there.
LEMMA WriteOne ==
    ASSUME NEW c \in Chip, Page(c) = 1, NEW off \in 1 .. 15, NEW v \in Byte,
           NEW d, d = c ++ <<off, v>>
    PROVE  /\ d \in Chip /\ SameStore(c, d) /\ SameRun(c, d) /\ SameZero(c, d)
           /\ d.bus = v /\ OneWritten(c, off, v, d)
<1> DEFINE s == [c EXCEPT !.bus = v]
<1>1. d = WritePage1(s, off, v)
  BY WriteGoes
<1>2. /\ c.par \in [1 .. 6 -> Byte] /\ c.curr \in Byte /\ c.mar \in [0 .. 7 -> Byte]
      /\ s.par = c.par /\ s.mar = c.mar /\ s.curr = c.curr /\ s.bus = v
      /\ SameStore(c, s) /\ SameRun(c, s) /\ SameZero(c, s)
  BY DEF Chip, SameStore, SameRun, SameZero, SameBounds
<1>3. s \in Chip
  BY FieldTyped
<1> HIDE DEF s
<1>4. CASE off < CURR
  <2>1. PICK f \in [1 .. 6 -> Byte] : f = [c.par EXCEPT ![off] = v]
    BY <1>2, <1>4 DEF CURR
  <2>2. d = [s EXCEPT !.par[off] = v]
    BY <1>1, <1>4 DEF WritePage1, CURR
  <2>3. d = [s EXCEPT !.par = f]
    BY <1>2, <2>1, <2>2
  <2>4. d \in Chip
    BY <1>3, <2>3, FieldTyped
  <2>5. d.par = f /\ d.mar = s.mar /\ d.curr = s.curr /\ d.bus = s.bus
    BY <1>3, <2>3 DEF Chip
  <2>6. SameStore(s, d) /\ SameRun(s, d) /\ SameZero(s, d)
    BY <1>3, <2>3 DEF Chip, SameStore, SameRun, SameZero, SameBounds
  <2>7. QED BY <1>2, <1>4, <2>1, <2>4, <2>5, <2>6 DEF CURR, OneWritten, SameStore, SameRun, SameZero, SameBounds
<1>5. CASE off = CURR
  <2>2. d = [s EXCEPT !.curr = v]
    BY <1>1, <1>5 DEF WritePage1, CURR
  <2>4. d \in Chip
    BY <1>3, <2>2, FieldTyped
  <2>5. d.par = s.par /\ d.mar = s.mar /\ d.curr = v /\ d.bus = s.bus
    BY <1>3, <2>2 DEF Chip
  <2>6. SameStore(s, d) /\ SameRun(s, d) /\ SameZero(s, d)
    BY <1>3, <2>2 DEF Chip, SameStore, SameRun, SameZero, SameBounds
  <2>7. QED BY <1>2, <1>5, <2>4, <2>5, <2>6 DEF CURR, OneWritten, SameStore, SameRun, SameZero, SameBounds
<1>6. CASE off > CURR
  <2>1. PICK f \in [0 .. 7 -> Byte] : f = [c.mar EXCEPT ![off - MAR0] = v]
    BY <1>2, <1>6 DEF CURR, MAR0
  <2>2. d = [s EXCEPT !.mar[off - MAR0] = v]
    BY <1>1, <1>6 DEF WritePage1, CURR
  <2>3. d = [s EXCEPT !.mar = f]
    BY <1>2, <2>1, <2>2
  <2>4. d \in Chip
    BY <1>3, <2>3, FieldTyped
  <2>5. d.par = s.par /\ d.mar = f /\ d.curr = s.curr /\ d.bus = s.bus
    BY <1>3, <2>3 DEF Chip
  <2>6. SameStore(s, d) /\ SameRun(s, d) /\ SameZero(s, d)
    BY <1>3, <2>3 DEF Chip, SameStore, SameRun, SameZero, SameBounds
  <2>7. QED BY <1>2, <1>6, <2>1, <2>4, <2>5, <2>6 DEF CURR, OneWritten, SameStore, SameRun, SameZero, SameBounds
<1>7. QED BY <1>4, <1>5, <1>6 DEF CURR

\* What a write to page 0 leaves, register by register.
ZeroWritten(c, off, v, d) ==
    /\ d.pstart = IF off = PSTART THEN v ELSE c.pstart
    /\ d.pstop = IF off = PSTOP THEN v ELSE c.pstop
    /\ d.bnry = IF off = BNRY THEN v ELSE c.bnry
    /\ d.tpsr = IF off = TPSR THEN v ELSE c.tpsr
    /\ d.isr = IF off = ISR THEN Cleared(c.isr, v) ELSE c.isr
    /\ off = RSAR0 => d.rsar = WithLow(c.rsar, v)
    /\ off = RSAR1 => d.rsar = WithHigh(c.rsar, v)
    /\ off = TBCR0 => d.tbcr = WithLow(c.tbcr, v)
    /\ off = TBCR1 => d.tbcr = WithHigh(c.tbcr, v)
    /\ off \notin {TBCR0, TBCR1} => d.tbcr = c.tbcr
    /\ off \notin {RSAR0, RSAR1} => d.rsar = c.rsar
    /\ off = RBCR0 => d.rbcr = WithLow(c.rbcr, v)
    /\ off = RBCR1 => d.rbcr = WithHigh(c.rbcr, v)
    /\ off \notin {RBCR0, RBCR1} => d.rbcr = c.rbcr

LEMMA WriteZero ==
    ASSUME NEW c \in Chip, Page(c) = 0, NEW off \in 1 .. 15, NEW v \in Byte,
           NEW d, d = c ++ <<off, v>>
    PROVE  /\ d \in Chip /\ SameStore(c, d) /\ SameRun(c, d) /\ SameOne(c, d)
           /\ d.bus = v /\ ZeroWritten(c, off, v, d)
<1> USE DEF PSTART, PSTOP, BNRY, TPSR, TBCR0, TBCR1,
            ISR, RSAR0, RSAR1, RBCR0, RBCR1, RCR, TCR, DCR, IMR
<1> DEFINE s == [c EXCEPT !.bus = v]
           Kept(e) == SameStore(s, e) /\ SameRun(s, e) /\ SameOne(s, e) /\ e.bus = v
<1>1. d = WritePage0(s, off, v)
  BY WriteGoes
<1>2. /\ s.bus = v /\ SameStore(c, s) /\ SameRun(c, s) /\ SameZero(c, s) /\ SameOne(c, s)
  BY DEF Chip, SameStore, SameRun, SameZero, SameBounds, SameOne
<1>3. s \in Chip
  BY FieldTyped
<1> HIDE DEF s
<1>4. /\ WithLow(s.tbcr, v) \in Word /\ WithHigh(s.tbcr, v) \in Word
      /\ WithLow(s.rsar, v) \in Word /\ WithHigh(s.rsar, v) \in Word
      /\ WithLow(s.rbcr, v) \in Word /\ WithHigh(s.rbcr, v) \in Word
  <2>1. s.tbcr \in Word /\ s.rsar \in Word /\ s.rbcr \in Word
    BY <1>3 DEF Chip
  <2>2. QED BY <2>1, WithByte
<1>5. Cleared(s.isr, v) \in Byte
  <2>1. s.isr \in Byte
    BY <1>3 DEF Chip
  <2>2. Cleared(s.isr, v) \in 0 .. s.isr
    BY <2>1, ClearedByte
  <2>3. QED BY <2>1, <2>2 DEF Byte
<1>6. CASE off = PSTART
  <2>1. d = [s EXCEPT !.pstart = v]
    BY <1>1, <1>6 DEF WritePage0
  <2>2. d \in Chip
    BY <1>3, <1>4, <1>5, <2>1, FieldTyped
  <2>3. Kept(d) /\ ZeroWritten(s, off, v, d)
    BY <1>2, <1>3, <1>6, <2>1 DEF Chip, ZeroWritten, SameStore, SameRun, SameOne
  <2>4. QED BY <1>2, <2>2, <2>3 DEF SameStore, SameRun, SameZero, SameBounds, SameOne, ZeroWritten
<1>7. CASE off = PSTOP
  <2>1. d = [s EXCEPT !.pstop = v]
    BY <1>1, <1>7 DEF WritePage0
  <2>2. d \in Chip
    BY <1>3, <1>4, <1>5, <2>1, FieldTyped
  <2>3. Kept(d) /\ ZeroWritten(s, off, v, d)
    BY <1>2, <1>3, <1>7, <2>1 DEF Chip, ZeroWritten, SameStore, SameRun, SameOne
  <2>4. QED BY <1>2, <2>2, <2>3 DEF SameStore, SameRun, SameZero, SameBounds, SameOne, ZeroWritten
<1>8. CASE off = BNRY
  <2>1. d = [s EXCEPT !.bnry = v]
    BY <1>1, <1>8 DEF WritePage0
  <2>2. d \in Chip
    BY <1>3, <1>4, <1>5, <2>1, FieldTyped
  <2>3. Kept(d) /\ ZeroWritten(s, off, v, d)
    BY <1>2, <1>3, <1>8, <2>1 DEF Chip, ZeroWritten, SameStore, SameRun, SameOne
  <2>4. QED BY <1>2, <2>2, <2>3 DEF SameStore, SameRun, SameZero, SameBounds, SameOne, ZeroWritten
<1>9. CASE off = TPSR
  <2>1. d = [s EXCEPT !.tpsr = v]
    BY <1>1, <1>9 DEF WritePage0
  <2>2. d \in Chip
    BY <1>3, <1>4, <1>5, <2>1, FieldTyped
  <2>3. Kept(d) /\ ZeroWritten(s, off, v, d)
    BY <1>2, <1>3, <1>9, <2>1 DEF Chip, ZeroWritten, SameStore, SameRun, SameOne
  <2>4. QED BY <1>2, <2>2, <2>3 DEF SameStore, SameRun, SameZero, SameBounds, SameOne, ZeroWritten
<1>10. CASE off = TBCR0
  <2>1. d = [s EXCEPT !.tbcr = WithLow(s.tbcr, v)]
    BY <1>1, <1>10 DEF WritePage0
  <2>2. d \in Chip
    BY <1>3, <1>4, <1>5, <2>1, FieldTyped
  <2>3. Kept(d) /\ ZeroWritten(s, off, v, d)
    BY <1>2, <1>3, <1>10, <2>1 DEF Chip, ZeroWritten, SameStore, SameRun, SameOne
  <2>4. QED BY <1>2, <2>2, <2>3 DEF SameStore, SameRun, SameZero, SameBounds, SameOne, ZeroWritten
<1>11. CASE off = TBCR1
  <2>1. d = [s EXCEPT !.tbcr = WithHigh(s.tbcr, v)]
    BY <1>1, <1>11 DEF WritePage0
  <2>2. d \in Chip
    BY <1>3, <1>4, <1>5, <2>1, FieldTyped
  <2>3. Kept(d) /\ ZeroWritten(s, off, v, d)
    BY <1>2, <1>3, <1>11, <2>1 DEF Chip, ZeroWritten, SameStore, SameRun, SameOne
  <2>4. QED BY <1>2, <2>2, <2>3 DEF SameStore, SameRun, SameZero, SameBounds, SameOne, ZeroWritten
<1>12. CASE off = ISR
  <2>1. d = [s EXCEPT !.isr = Cleared(s.isr, v)]
    BY <1>1, <1>12 DEF WritePage0
  <2>2. d \in Chip
    BY <1>3, <1>4, <1>5, <2>1, FieldTyped
  <2>3. Kept(d) /\ ZeroWritten(s, off, v, d)
    BY <1>2, <1>3, <1>12, <2>1 DEF Chip, ZeroWritten, SameStore, SameRun, SameOne
  <2>4. QED BY <1>2, <2>2, <2>3 DEF SameStore, SameRun, SameZero, SameBounds, SameOne, ZeroWritten
<1>13. CASE off = RSAR0
  <2>1. d = [s EXCEPT !.rsar = WithLow(s.rsar, v)]
    BY <1>1, <1>13 DEF WritePage0
  <2>2. d \in Chip
    BY <1>3, <1>4, <1>5, <2>1, FieldTyped
  <2>3. Kept(d) /\ ZeroWritten(s, off, v, d)
    BY <1>2, <1>3, <1>13, <2>1 DEF Chip, ZeroWritten, SameStore, SameRun, SameOne
  <2>4. QED BY <1>2, <2>2, <2>3 DEF SameStore, SameRun, SameZero, SameBounds, SameOne, ZeroWritten
<1>14. CASE off = RSAR1
  <2>1. d = [s EXCEPT !.rsar = WithHigh(s.rsar, v)]
    BY <1>1, <1>14 DEF WritePage0
  <2>2. d \in Chip
    BY <1>3, <1>4, <1>5, <2>1, FieldTyped
  <2>3. Kept(d) /\ ZeroWritten(s, off, v, d)
    BY <1>2, <1>3, <1>14, <2>1 DEF Chip, ZeroWritten, SameStore, SameRun, SameOne
  <2>4. QED BY <1>2, <2>2, <2>3 DEF SameStore, SameRun, SameZero, SameBounds, SameOne, ZeroWritten
<1>15. CASE off = RBCR0
  <2>1. d = [s EXCEPT !.rbcr = WithLow(s.rbcr, v)]
    BY <1>1, <1>15 DEF WritePage0
  <2>2. d \in Chip
    BY <1>3, <1>4, <1>5, <2>1, FieldTyped
  <2>3. Kept(d) /\ ZeroWritten(s, off, v, d)
    BY <1>2, <1>3, <1>15, <2>1 DEF Chip, ZeroWritten, SameStore, SameRun, SameOne
  <2>4. QED BY <1>2, <2>2, <2>3 DEF SameStore, SameRun, SameZero, SameBounds, SameOne, ZeroWritten
<1>16. CASE off = RBCR1
  <2>1. d = [s EXCEPT !.rbcr = WithHigh(s.rbcr, v)]
    BY <1>1, <1>16 DEF WritePage0
  <2>2. d \in Chip
    BY <1>3, <1>4, <1>5, <2>1, FieldTyped
  <2>3. Kept(d) /\ ZeroWritten(s, off, v, d)
    BY <1>2, <1>3, <1>16, <2>1 DEF Chip, ZeroWritten, SameStore, SameRun, SameOne
  <2>4. QED BY <1>2, <2>2, <2>3 DEF SameStore, SameRun, SameZero, SameBounds, SameOne, ZeroWritten
<1>17. CASE off = RCR
  <2>1. d = [s EXCEPT !.rcr = v]
    BY <1>1, <1>17 DEF WritePage0
  <2>2. d \in Chip
    BY <1>3, <1>4, <1>5, <2>1, FieldTyped
  <2>3. Kept(d) /\ ZeroWritten(s, off, v, d)
    BY <1>2, <1>3, <1>17, <2>1 DEF Chip, ZeroWritten, SameStore, SameRun, SameOne
  <2>4. QED BY <1>2, <2>2, <2>3 DEF SameStore, SameRun, SameZero, SameBounds, SameOne, ZeroWritten
<1>18. CASE off = TCR
  <2>1. d = [s EXCEPT !.tcr = v]
    BY <1>1, <1>18 DEF WritePage0
  <2>2. d \in Chip
    BY <1>3, <1>4, <1>5, <2>1, FieldTyped
  <2>3. Kept(d) /\ ZeroWritten(s, off, v, d)
    BY <1>2, <1>3, <1>18, <2>1 DEF Chip, ZeroWritten, SameStore, SameRun, SameOne
  <2>4. QED BY <1>2, <2>2, <2>3 DEF SameStore, SameRun, SameZero, SameBounds, SameOne, ZeroWritten
<1>19. CASE off = DCR
  <2>1. d = [s EXCEPT !.dcr = v]
    BY <1>1, <1>19 DEF WritePage0
  <2>2. d \in Chip
    BY <1>3, <1>4, <1>5, <2>1, FieldTyped
  <2>3. Kept(d) /\ ZeroWritten(s, off, v, d)
    BY <1>2, <1>3, <1>19, <2>1 DEF Chip, ZeroWritten, SameStore, SameRun, SameOne
  <2>4. QED BY <1>2, <2>2, <2>3 DEF SameStore, SameRun, SameZero, SameBounds, SameOne, ZeroWritten
<1>20. CASE off = IMR
  <2>1. d = [s EXCEPT !.imr = v]
    BY <1>1, <1>20 DEF WritePage0
  <2>2. d \in Chip
    BY <1>3, <1>4, <1>5, <2>1, FieldTyped
  <2>3. Kept(d) /\ ZeroWritten(s, off, v, d)
    BY <1>2, <1>3, <1>20, <2>1 DEF Chip, ZeroWritten, SameStore, SameRun, SameOne
  <2>4. QED BY <1>2, <2>2, <2>3 DEF SameStore, SameRun, SameZero, SameBounds, SameOne, ZeroWritten
<1>21. QED BY <1>6, <1>7, <1>8, <1>9, <1>10, <1>11, <1>12, <1>13, <1>14, <1>15, <1>16, <1>17, <1>18, <1>19, <1>20

\* The commands that select a page, stop or start: the remote DMA is aborted.
LEMMA WriteCommand ==
    ASSUME NEW c \in Chip, NEW v \in {Page0Stop, Page0Start, Page1Stop, Page1Start},
           NEW d, d = c ++ <<CR, v>>
    PROVE  /\ d \in Chip /\ SameStore(c, d) /\ SameOne(c, d) /\ SameBounds(c, d)
           /\ d.cr = v /\ d.dma = "idle" /\ d.crda = c.crda /\ d.bus = v
           /\ v \in {Page0Start, Page1Start} => d.isr = c.isr
<1> DEFINE s == [c EXCEPT !.bus = v]
           t == [s EXCEPT !.cr = v]
           u == StopOrStart(t, v)
<1>1. d = WriteCr(s, v, FALSE)
  BY WriteGoes
<1>2. v \in {33, 34, 97, 98}
  BY DEF Page0Stop, Page0Start, Page1Stop, Page1Start
<1>3. /\ (v \div 8) % 8 = 4 /\ ~Has(v, 4)
      /\ v \in {33, 97} => Has(v, 1)
      /\ v \in {34, 98} => ~Has(v, 1)
  BY <1>2 DEF Has
<1>4. d = RemoteDma(u, (v \div 8) % 8)
  BY <1>1, <1>3 DEF WriteCr
<1>5. s \in Chip /\ t \in Chip /\ v \in Byte
  <2>1. v \in Byte /\ v \in 0 .. 127
    BY <1>2 DEF Byte
  <2>2. s \in Chip
    BY <2>1, FieldTyped
  <2> HIDE DEF s
  <2>3. QED BY <2>1, <2>2, RunTyped
<1>6. /\ SameStore(c, t) /\ SameOne(c, t) /\ SameBounds(c, t)
      /\ t.cr = v /\ t.crda = c.crda /\ t.isr = c.isr /\ t.bus = v
  BY DEF Chip, SameStore, SameOne, SameBounds
<1> HIDE DEF s, t
<1>7. /\ u \in Chip /\ SameStore(t, u) /\ SameOne(t, u) /\ SameBounds(t, u)
      /\ u.cr = v /\ u.crda = t.crda /\ u.bus = v
      /\ ~Has(v, 1) => u.isr = t.isr
  <2>1. CASE Has(v, 1)
    <3>1. PICK isr \in Byte : u = Stopped(t, isr)
      <4>1. t.isr \in Byte
        BY <1>5 DEF Chip
      <4>2. Set(t.isr, RST) \in Byte
        BY <4>1, SetByte DEF RST
      <4>3. QED BY <2>1, <4>1, <4>2 DEF StopOrStart, Stopped
    <3>2. QED BY <1>5, <1>6, <2>1, <3>1, StopTyped
  <2>2. CASE ~Has(v, 1) /\ Has(v, 2) /\ t.stopped
    <3>1. u = Started(t)
      BY <2>2 DEF StopOrStart, Started
    <3>2. QED BY <1>5, <1>6, <3>1, StartTyped
  <2>3. CASE ~Has(v, 1) /\ ~(Has(v, 2) /\ t.stopped)
    <3>1. u = t
      BY <2>3 DEF StopOrStart
    <3>2. QED BY <1>5, <1>6, <3>1 DEF SameStore, SameOne, SameBounds
  <2>4. QED BY <2>1, <2>2, <2>3
<1> HIDE DEF u
<1>8. d = [u EXCEPT !.dma = "idle"]
  BY <1>3, <1>4 DEF RemoteDma
<1>9. /\ d \in Chip /\ SameStore(u, d) /\ SameOne(u, d) /\ SameBounds(u, d)
      /\ d.cr = v /\ d.crda = u.crda /\ d.isr = u.isr /\ d.dma = "idle" /\ d.bus = v
  BY <1>7, <1>8, IdleTyped
<1>10. v \in {Page0Start, Page1Start} => ~Has(v, 1)
  BY <1>3 DEF Page0Start, Page1Start
<1>11. SameStore(c, u) /\ SameOne(c, u) /\ SameBounds(c, u)
  BY <1>6, <1>7, SameAgain
<1>12. SameStore(c, d) /\ SameOne(c, d) /\ SameBounds(c, d)
  BY <1>9, <1>11, SameAgain
<1>13. QED BY <1>6, <1>7, <1>9, <1>10, <1>12

\* The commands that start a remote DMA of the length in RBCR from RSAR.
LEMMA WriteDma ==
    ASSUME NEW c \in Chip, c.dma = "idle", NEW v \in {DmaReadCmd, DmaWriteCmd},
           NEW d, d = c ++ <<CR, v>>
    PROVE  /\ d \in Chip /\ SameStore(c, d) /\ SameOne(c, d) /\ SameBounds(c, d)
           /\ d.cr = v /\ d.crda = c.rsar
           /\ d.dma = IF c.rbcr = 0 THEN "idle"
                      ELSE IF v = DmaReadCmd THEN "read" ELSE "write"
<1> DEFINE s == [c EXCEPT !.bus = v]
           t == [s EXCEPT !.cr = v]
           u == StopOrStart(t, v)
           rd == (v \div 8) % 8
<1>1. d = WriteCr(s, v, FALSE)
  BY WriteGoes
<1>2. v \in {10, 18}
  BY DEF DmaReadCmd, DmaWriteCmd
<1>3. ~Has(v, 4) /\ ~Has(v, 1) /\ rd \in {1, 2} /\ (rd = 1 <=> v = DmaReadCmd)
  BY <1>2 DEF Has, DmaReadCmd
<1>4. d = RemoteDma(u, rd)
  BY <1>1, <1>3 DEF WriteCr
<1>5. s \in Chip /\ t \in Chip /\ v \in Byte
  <2>1. v \in Byte /\ v \in 0 .. 127
    BY <1>2 DEF Byte
  <2>2. s \in Chip
    BY <2>1, FieldTyped
  <2> HIDE DEF s
  <2>3. QED BY <2>1, <2>2, RunTyped
<1>6. /\ SameStore(c, t) /\ SameOne(c, t) /\ SameBounds(c, t)
      /\ t.cr = v /\ t.dma = "idle"
  BY DEF Chip, SameStore, SameOne, SameBounds
<1> HIDE DEF s, t, rd
<1>7. /\ u \in Chip /\ SameStore(t, u) /\ SameOne(t, u) /\ SameBounds(t, u)
      /\ u.cr = v /\ u.dma = "idle"
  <2>1. u = t \/ u = Started(t)
    BY <1>3 DEF StopOrStart, Started
  <2>2. CASE u = t
    BY <1>5, <1>6, <2>2 DEF SameStore, SameOne, SameBounds
  <2>3. CASE u = Started(t)
    BY <1>5, <1>6, <2>3, StartTyped
  <2>4. QED BY <2>1, <2>2, <2>3
<1> HIDE DEF u
<1>7a. /\ SameStore(c, u) /\ SameOne(c, u) /\ SameBounds(c, u)
       /\ u.rbcr = c.rbcr /\ u.rsar = c.rsar
  <2>1. SameStore(c, u) /\ SameOne(c, u) /\ SameBounds(c, u)
    BY <1>6, <1>7, SameAgain
  <2>2. QED BY <2>1 DEF SameBounds
<1>8. u.rsar \in Nat /\ u.rbcr \in Nat /\ u.isr \in Byte /\ Set(u.isr, RDC) \in Byte
  <2>1. u.rsar \in Word /\ u.rbcr \in Word /\ u.isr \in Byte
    BY <1>7 DEF Chip
  <2>2. QED BY <2>1, SetByte DEF Word, RDC
<1> DEFINE e == [u EXCEPT !.crda = u.rsar]
<1>9. /\ e \in Chip /\ SameStore(u, e) /\ SameOne(u, e) /\ SameBounds(u, e)
      /\ e.cr = u.cr /\ e.isr = u.isr /\ e.crda = u.rsar
  <2>1. e \in Chip
    BY <1>7, <1>8, RunTyped
  <2>2. QED BY <1>7, <2>1 DEF Chip, SameStore, SameOne, SameBounds
<1>9a. SameStore(c, e) /\ SameOne(c, e) /\ SameBounds(c, e)
  <2> HIDE DEF e
  <2>1. QED BY <1>9, <1>7a, SameAgain
<1>10. CASE u.rbcr = 0
  <2>1. d = [[e EXCEPT !.dma = "idle"] EXCEPT !.isr = Set(u.isr, RDC)]
    BY <1>3, <1>4, <1>7, <1>10 DEF RemoteDma, Chip
  <2> HIDE DEF e
  <2> DEFINE f == [e EXCEPT !.dma = "idle"]
  <2>2. f \in Chip /\ SameStore(e, f) /\ SameOne(e, f) /\ SameBounds(e, f)
        /\ f.cr = e.cr /\ f.crda = e.crda /\ f.dma = "idle"
    BY <1>9, IdleTyped
  <2> HIDE DEF f
  <2>3. d \in Chip /\ SameStore(f, d) /\ SameOne(f, d) /\ SameBounds(f, d)
        /\ d.cr = f.cr /\ d.crda = f.crda /\ d.dma = "idle"
    <3> DEFINE isr == Set(u.isr, RDC)
    <3>1. d = [f EXCEPT !.isr = isr] /\ isr \in Byte
      BY <1>8, <2>1 DEF f
    <3> HIDE DEF isr
    <3>2. d \in Chip
      BY <2>2, <3>1, FieldTyped
    <3>3. SameStore(f, d) /\ SameOne(f, d)
      BY <2>2, <3>1 DEF Chip, SameStore, SameOne
    <3>4. SameBounds(f, d) /\ d.cr = f.cr /\ d.crda = f.crda /\ d.dma = f.dma
      BY <2>2, <3>1 DEF Chip, SameBounds
    <3>5. QED BY <2>2, <3>2, <3>3, <3>4
  <2>4. SameStore(c, f) /\ SameOne(c, f) /\ SameBounds(c, f)
    BY <1>9a, <2>2, SameAgain
  <2>5. SameStore(c, d) /\ SameOne(c, d) /\ SameBounds(c, d)
    BY <2>3, <2>4, SameAgain
  <2>6. d.cr = v /\ d.crda = c.rsar
    BY <1>7, <1>9, <1>7a, <2>2, <2>3
  <2>7. QED BY <1>10, <1>7a, <2>3, <2>5, <2>6
<1>11. CASE u.rbcr > 0
  <2> DEFINE dma == IF rd = 1 THEN "read" ELSE "write"
  <2>1. d = [u EXCEPT !.crda = u.rsar, !.dma = dma]
    BY <1>3, <1>4, <1>7, <1>11 DEF RemoteDma
  <2>2. dma \in {"idle", "read", "write"} /\ (dma = "read" <=> v = DmaReadCmd)
    BY <1>3
  <2> HIDE DEF dma
  <2>3. d = [e EXCEPT !.dma = dma]
    BY <2>1
  <2> HIDE DEF e
  <2>4. d \in Chip
    <3>1. e \in Chip
      BY <1>9
    <3>2. QED BY <2>2, <2>3, <3>1, RunTyped
  <2>5. SameStore(e, d) /\ SameOne(e, d) /\ SameBounds(e, d)
        /\ d.cr = e.cr /\ d.crda = e.crda /\ d.dma = dma
    BY <1>9, <2>3, <2>4 DEF Chip, SameStore, SameOne, SameBounds
  <2>6. dma = IF v = DmaReadCmd THEN "read" ELSE "write"
    BY <1>3 DEF dma
  <2>7. SameStore(c, d) /\ SameOne(c, d) /\ SameBounds(c, d)
    BY <1>9a, <2>5, SameAgain
  <2>8. d.cr = v /\ d.crda = c.rsar /\ c.rbcr # 0
    BY <1>7, <1>9, <1>11, <1>7a, <2>5
  <2>9. QED BY <2>4, <2>5, <2>6, <2>7, <2>8
<1>12. QED BY <1>8, <1>10, <1>11

\* What the writes that set a transfer up leave alone.
SetUpFrom(c, e) == /\ e \in Chip /\ SameStore(c, e) /\ SameRing(c, e) /\ e.par = c.par
                   /\ e.dma = "idle"

LEMMA SetUpOne ==
    ASSUME NEW c, NEW e, SetUpFrom(c, e), Page(e) = 1,
           NEW o \in CURR .. 15, NEW v \in Byte, NEW f, f = e ++ <<o, v>>
    PROVE  SetUpFrom(c, f) /\ Page(f) = 1 /\ f.rbcr = e.rbcr
<1>1. e \in Chip /\ o \in 1 .. 15 /\ o >= CURR
  BY DEF SetUpFrom, CURR
<1>2. f \in Chip /\ SameStore(e, f) /\ SameRun(e, f) /\ SameZero(e, f) /\ f.par = e.par
  <2>1. f \in Chip /\ SameStore(e, f) /\ SameRun(e, f) /\ SameZero(e, f) /\ OneWritten(e, o, v, f)
    BY <1>1, WriteOne
  <2>2. f.par = e.par
    BY <1>1, <2>1 DEF OneWritten, CURR
  <2>3. QED BY <2>1, <2>2
<1>3. QED BY <1>1, <1>2 DEF SetUpFrom, Page, SameStore, SameRun, SameRing, SameZero, SameBounds

LEMMA SetUpZero ==
    ASSUME NEW c, NEW e, SetUpFrom(c, e), SameOne(c, e), Page(e) = 0,
           NEW o \in ISR .. RBCR1, NEW v \in Byte, NEW f, f = e ++ <<o, v>>
    PROVE  /\ SetUpFrom(c, f) /\ SameOne(c, f) /\ Page(f) = 0
           /\ o = RSAR0 => f.rsar = WithLow(e.rsar, v)
           /\ o = RSAR1 => f.rsar = WithHigh(e.rsar, v)
           /\ o \notin {RSAR0, RSAR1} => f.rsar = e.rsar
           /\ o = RBCR0 => f.rbcr = WithLow(e.rbcr, v)
           /\ o = RBCR1 => f.rbcr = WithHigh(e.rbcr, v)
           /\ o \notin {RBCR0, RBCR1} => f.rbcr = e.rbcr
<1>1. e \in Chip /\ o \in 1 .. 15 /\ o \notin {PSTART, PSTOP, BNRY, TPSR}
  BY DEF SetUpFrom, ISR, RBCR1, PSTART, PSTOP, BNRY, TPSR
<1>2. f \in Chip /\ SameStore(e, f) /\ SameRun(e, f) /\ SameOne(e, f) /\ ZeroWritten(e, o, v, f)
  BY <1>1, WriteZero
<1>3. SameRing(e, f)
  BY <1>1, <1>2 DEF ZeroWritten, SameRing
<1>4. SetUpFrom(c, f) /\ SameOne(c, f) /\ Page(f) = 0
  BY <1>2, <1>3 DEF SetUpFrom, Page, SameStore, SameRun, SameRing, SameOne
<1>5. QED BY <1>2, <1>4 DEF ZeroWritten

\* The writes that set a transfer up.  When the one that selects page 0 is lost
\* with page 1 selected, they go to CURR and the filter and no transfer starts.
LEMMA DmaIsSetUp ==
    ASSUME NEW c \in Chip, c.dma = "idle", c.rbcr = 0,
           NEW page \in Byte, NEW off \in Byte, NEW count \in Word, count > 0,
           NEW cmd \in {DmaReadCmd, DmaWriteCmd}, NEW lost \in BOOLEAN,
           NEW d, d = DmaSetUp(c, page, off, count, cmd, lost)
    PROVE  /\ d \in Chip /\ SameStore(c, d) /\ SameRing(c, d) /\ d.par = c.par
           /\ d.cr = cmd
           /\ lost /\ Page(c) = 1 => d.dma = "idle" /\ d.rbcr = 0
           /\ ~(lost /\ Page(c) = 1) =>
                 /\ SameOne(c, d) /\ d.crda = 256 * page + off /\ d.rbcr = count
                 /\ d.dma = IF cmd = DmaReadCmd THEN "read" ELSE "write"
<1> DEFINE c1 == IF lost THEN LostWrite(c, Page0Start) ELSE c ++ <<CR, Page0Start>>
           c2 == c1 ++ <<ISR, RDC>>
           c3 == c2 ++ <<RBCR0, LowByte(count)>>
           c4 == c3 ++ <<RBCR1, HighByte(count)>>
           c5 == c4 ++ <<RSAR0, off>>
           c6 == c5 ++ <<RSAR1, page>>
<1>1. d = c6 ++ <<CR, cmd>>
  BY DEF DmaSetUp
<1>2. /\ RDC \in Byte /\ Page0Start \in Byte /\ count \in Int
      /\ LowByte(count) \in Byte /\ HighByte(count) \in Byte
      /\ 256 * HighByte(count) + LowByte(count) = count
  <2>1. RDC \in Byte /\ Page0Start \in Byte
    BY DEF RDC, Page0Start, Byte
  <2>2. count \in Int
    BY DEF Word
  <2>3. 256 * HighByte(count) + LowByte(count) = count
    BY <2>2 DEF HighByte, LowByte
  <2>4. QED BY <2>1, <2>2, <2>3, WordBytes
<1>3. /\ SetUpFrom(c, c1) /\ c1.rbcr = 0 /\ SameOne(c, c1)
      /\ IF lost THEN Page(c1) = Page(c) ELSE Page(c1) = 0
      /\ Page(c1) \in {0, 1}
  <2>1. CASE lost
    <3>1. c1 = [c EXCEPT !.bus = Page0Start]
      BY <2>1 DEF LostWrite
    <3>2. c1 \in Chip
      BY <1>2, <3>1, FieldTyped
    <3>3. QED BY <2>1, <3>1, <3>2 DEF Chip, Page, SetUpFrom, SameStore, SameRing, SameOne
  <2>2. CASE ~lost
    <3>1. c1 = c ++ <<CR, Page0Start>>
      BY <2>2
    <3>2. c1 \in Chip /\ SameStore(c, c1) /\ SameOne(c, c1) /\ SameBounds(c, c1)
          /\ c1.cr = Page0Start /\ c1.dma = "idle"
      BY <3>1, WriteCommand
    <3>3. QED BY <2>2, <3>2 DEF Page, Page0Start, SetUpFrom, SameRing, SameBounds, SameOne
  <2>3. QED BY <2>1, <2>2
<1> HIDE DEF c1
<1>4. CASE lost /\ Page(c) = 1
  <2>1. {ISR, RBCR0, RBCR1, RSAR0, RSAR1} \subseteq CURR .. 15
    BY DEF ISR, RBCR0, RBCR1, RSAR0, RSAR1, CURR
  <2>2. SetUpFrom(c, c2) /\ Page(c2) = 1 /\ c2.rbcr = 0
    BY <1>2, <1>3, <1>4, <2>1, SetUpOne
  <2> HIDE DEF c2
  <2>3. SetUpFrom(c, c3) /\ Page(c3) = 1 /\ c3.rbcr = 0
    BY <1>2, <2>1, <2>2, SetUpOne
  <2> HIDE DEF c3
  <2>4. SetUpFrom(c, c4) /\ Page(c4) = 1 /\ c4.rbcr = 0
    BY <1>2, <2>1, <2>3, SetUpOne
  <2> HIDE DEF c4
  <2>5. SetUpFrom(c, c5) /\ Page(c5) = 1 /\ c5.rbcr = 0
    BY <2>1, <2>4, SetUpOne
  <2> HIDE DEF c5
  <2>6. SetUpFrom(c, c6) /\ Page(c6) = 1 /\ c6.rbcr = 0
    BY <2>1, <2>5, SetUpOne
  <2> HIDE DEF c6
  <2>7. c6 \in Chip /\ c6.dma = "idle"
    BY <2>6 DEF SetUpFrom
  <2>8. d \in Chip /\ SameStore(c6, d) /\ SameOne(c6, d) /\ SameBounds(c6, d)
        /\ d.cr = cmd /\ d.dma = "idle"
    BY <1>1, <2>6, <2>7, WriteDma
  <2>9. QED BY <1>4, <2>6, <2>8 DEF SetUpFrom, SameStore, SameRing, SameOne, SameBounds
<1>5. CASE ~(lost /\ Page(c) = 1)
  <2>1. Page(c1) = 0
    BY <1>3, <1>5 DEF Page, Chip
  <2>2. {ISR, RBCR0, RBCR1, RSAR0, RSAR1} \subseteq ISR .. RBCR1
    BY DEF ISR, RBCR0, RBCR1, RSAR0, RSAR1
  <2> DEFINE Near(e) == SetUpFrom(c, e) /\ SameOne(c, e) /\ Page(e) = 0
  <2>3. Near(c2)
    BY <1>2, <1>3, <2>1, <2>2, SetUpZero
  <2> HIDE DEF c2
  <2>4. Near(c3) /\ c3.rbcr = WithLow(c2.rbcr, LowByte(count))
    BY <1>2, <2>2, <2>3, SetUpZero
  <2> HIDE DEF c3
  <2>5. Near(c4) /\ c4.rbcr = WithHigh(c3.rbcr, HighByte(count))
    BY <1>2, <2>2, <2>4, SetUpZero
  <2> HIDE DEF c4
  <2>6. Near(c5) /\ c5.rsar = WithLow(c4.rsar, off) /\ c5.rbcr = c4.rbcr
    <3>1. RSAR0 \notin {RBCR0, RBCR1}
      BY DEF RBCR0, RBCR1, RSAR0
    <3>2. QED BY <2>2, <2>5, <3>1, SetUpZero
  <2> HIDE DEF c5
  <2>7. Near(c6) /\ c6.rsar = WithHigh(c5.rsar, page) /\ c6.rbcr = c5.rbcr
    <3>1. RSAR1 \notin {RBCR0, RBCR1}
      BY DEF RBCR0, RBCR1, RSAR1
    <3>2. QED BY <2>2, <2>6, <3>1, SetUpZero
  <2> HIDE DEF c6
  <2>8. /\ c6 \in Chip /\ c6.dma = "idle"
        /\ c2.rbcr \in Word /\ c3.rbcr \in Word /\ c4.rsar \in Word
    BY <2>3, <2>4, <2>5, <2>7 DEF SetUpFrom, Chip
  <2>9. c6.rbcr = count
    <3>1. LowByte(WithLow(c2.rbcr, LowByte(count))) = LowByte(count)
      <4> DEFINE low == LowByte(count)
                 was == c2.rbcr
      <4>1. low \in Byte /\ was \in Word
        BY <1>2, <2>8
      <4> HIDE DEF low, was
      <4>2. LowByte(WithLow(was, low)) = low
        BY <4>1, WithByte
      <4>3. QED BY <4>2 DEF low, was
    <3>2. QED BY <1>2, <2>4, <2>5, <2>6, <2>7, <3>1 DEF WithHigh
  <2>10. c6.rsar = 256 * page + off
    <3>1. LowByte(c5.rsar) = off
      BY <2>6, <2>8, WithByte
    <3>2. QED BY <2>7, <3>1 DEF WithHigh
  <2>11. d \in Chip /\ SameStore(c6, d) /\ SameOne(c6, d) /\ SameBounds(c6, d)
        /\ d.cr = cmd /\ d.crda = c6.rsar
        /\ d.dma = IF c6.rbcr = 0 THEN "idle" ELSE IF cmd = DmaReadCmd THEN "read" ELSE "write"
    BY <1>1, <2>8, WriteDma
  <2>12. QED BY <1>5, <2>7, <2>9, <2>10, <2>11
             DEF SetUpFrom, SameStore, SameRing, SameOne, SameBounds
<1>6. QED BY <1>4, <1>5

\* What every transfer leaves: the remote DMA idle and page 0 selected.
Rested(c) == c.dma = "idle" /\ c.rbcr = 0

LEMMA TransferRests ==
    ASSUME NEW c \in Chip, c.dma = "idle" => c.rbcr = 0, NEW d, d = Transfer(c)
    PROVE  /\ d \in Chip /\ Rested(d) /\ SameStore(c, d) /\ SameOne(c, d) /\ SameRing(c, d)
           /\ d.cr = c.cr
<1>1. CASE c.dma = "idle"
  BY <1>1 DEF Transfer, Rested, SameStore, SameOne, SameRing
<1>2. CASE c.dma # "idle"
  <2> DEFINE to == c.crda + c.rbcr
             isr == Set(c.isr, RDC)
             e == [c EXCEPT !.crda = to]
             f == [e EXCEPT !.rbcr = 0]
             g == [f EXCEPT !.dma = "idle"]
  <2>1. /\ d = [c EXCEPT !.crda = to, !.rbcr = 0, !.dma = "idle", !.isr = isr]
        /\ to \in Nat /\ isr \in Byte /\ 0 \in Word
    <3>1. c.crda \in Nat /\ c.rbcr \in Word /\ c.isr \in Byte
      BY DEF Chip
    <3>2. c.rbcr \in Nat /\ 0 \in Word
      BY <3>1, WordMember DEF Word
    <3>3. isr \in Byte
      BY <3>1, SetByte DEF RDC
    <3>4. QED BY <1>2, <3>1, <3>2, <3>3 DEF Transfer
  <2> HIDE DEF to, isr
  <2>2. d = [g EXCEPT !.isr = isr]
    BY <2>1
  <2>3. e \in Chip
    BY <2>1, RunTyped
  <2>4. f \in Chip
    <3> HIDE DEF e
    <3>1. QED BY <2>1, <2>3, FieldTyped
  <2>5. g \in Chip
    <3> HIDE DEF f
    <3>1. QED BY <2>4, RunTyped
  <2>6. d \in Chip
    <3> HIDE DEF g
    <3>1. isr \in Byte
      BY <2>1
    <3>2. QED BY <2>2, <2>5, <3>1, FieldTyped
  <2>7. Rested(d) /\ SameStore(c, d) /\ SameOne(c, d) /\ SameRing(c, d) /\ d.cr = c.cr
    BY <2>1 DEF Chip, Rested, SameStore, SameOne, SameRing
  <2>8. QED BY <2>6, <2>7
<1>3. QED BY <1>1, <1>2

LEMMA DmaEnds ==
    ASSUME NEW c \in Chip, Page(c) = 0, c.dma = "idle" => c.rbcr = 0,
           NEW d, d = DmaEnd(c)
    PROVE  /\ d \in Chip /\ Rested(d) /\ SameStore(c, d) /\ SameOne(c, d) /\ SameRing(c, d)
           /\ d.cr = Page0Start
<1> DEFINE e == Transfer(c)
           f == e ++ <<ISR, RDC>>
<1>1. d = f ++ <<CR, DmaAbort>>
  BY DEF DmaEnd
<1>2. /\ e \in Chip /\ Rested(e) /\ SameStore(c, e) /\ SameOne(c, e) /\ SameRing(c, e)
      /\ Page(e) = 0
  BY TransferRests DEF Page
<1> HIDE DEF e
<1>3. /\ f \in Chip /\ SameStore(e, f) /\ SameRun(e, f) /\ SameOne(e, f)
      /\ ZeroWritten(e, ISR, RDC, f)
  <2>1. ISR \in 1 .. 15 /\ RDC \in Byte
    BY DEF ISR, RDC, Byte
  <2>2. QED BY <1>2, <2>1, WriteZero
<1>4. SameRing(e, f) /\ f.rbcr = e.rbcr
  BY <1>3 DEF ZeroWritten, SameRing, ISR, PSTART, PSTOP, BNRY, TPSR, RBCR0, RBCR1
<1> HIDE DEF f
<1>5. /\ d \in Chip /\ SameStore(f, d) /\ SameOne(f, d) /\ SameBounds(f, d)
      /\ d.cr = Page0Start /\ d.dma = "idle"
  BY <1>1, <1>3, WriteCommand DEF DmaAbort, Page0Start
<1>6. QED BY <1>2, <1>3, <1>4, <1>5
          DEF Rested, SameStore, SameRun, SameOne, SameRing, SameBounds

\* A whole transfer through the data port.
LEMMA DmaDone ==
    ASSUME NEW c \in Chip, Rested(c),
           NEW page \in Byte, NEW off \in Byte, NEW count \in Word, count > 0,
           NEW cmd \in {DmaReadCmd, DmaWriteCmd}, NEW lost \in BOOLEAN,
           NEW e, e = DmaSetUp(c, page, off, count, cmd, lost),
           NEW d, d = DmaEnd(e)
    PROVE  /\ d \in Chip /\ Rested(d) /\ SameStore(c, d) /\ SameRing(c, d)
           /\ d.par = c.par /\ d.cr = Page0Start
           /\ ~(lost /\ Page(c) = 1) => SameOne(c, d)
           /\ e \in Chip /\ SameStore(c, e)
           /\ e.dma # "idle" => HighByte(e.crda) = page
<1>1. /\ e \in Chip /\ SameStore(c, e) /\ SameRing(c, e) /\ e.par = c.par
      /\ e.cr = cmd
      /\ lost /\ Page(c) = 1 => e.dma = "idle" /\ e.rbcr = 0
      /\ ~(lost /\ Page(c) = 1) =>
            /\ SameOne(c, e) /\ e.crda = 256 * page + off /\ e.rbcr = count
            /\ e.dma = IF cmd = DmaReadCmd THEN "read" ELSE "write"
  BY DmaIsSetUp DEF Rested
<1>2. Page(e) = 0
  BY <1>1 DEF Page, DmaReadCmd, DmaWriteCmd
<1>3. /\ d \in Chip /\ Rested(d) /\ SameStore(e, d) /\ SameOne(e, d) /\ SameRing(e, d)
      /\ d.cr = Page0Start
  <2>1. e.dma = "idle" => e.rbcr = 0
    BY <1>1
  <2>2. QED BY <1>1, <1>2, <2>1, DmaEnds
<1>4. e.dma # "idle" => HighByte(e.crda) = page
  BY <1>1, BytesWord
<1>5. QED BY <1>1, <1>3, <1>4 DEF SameStore, SameOne, SameRing

-----------------------------------------------------------------------------
(* Accesses that leave the chip's state alone but for the data lines.      *)

OnlyBus(c, d) ==
    d \in Chip /\ SameStore(c, d) /\ SameRun(c, d) /\ SameOne(c, d) /\ SameZero(c, d)

LEMMA BusTyped ==
    ASSUME NEW c \in Chip, NEW v \in Byte, NEW d, d = [c EXCEPT !.bus = v]
    PROVE  OnlyBus(c, d) /\ d.bus = v
<1>1. d \in Chip
  BY FieldTyped
<1>2. QED
  BY <1>1 DEF Chip, OnlyBus, SameStore, SameRun, SameOne, SameZero, SameBounds

LEMMA ReadTyped ==
    ASSUME NEW c \in Chip, NEW off \in {CR, PAR0, BNRY, CURR}, NEW missed \in BOOLEAN
    PROVE  /\ ReadReg(c, off, missed) \in Byte
           /\ missed => ReadReg(c, off, missed) = c.bus
           /\ ~missed /\ off = CR => ReadReg(c, off, missed) = c.cr
           /\ ~missed /\ off = BNRY /\ Page(c) = 1 => ReadReg(c, off, missed) = c.par[3]
           /\ ~missed /\ off = ISR /\ Page(c) = 0 => ReadReg(c, off, missed) = c.isr
           /\ ~missed /\ off = CURR /\ Page(c) = 1 => ReadReg(c, off, missed) = c.curr
<1>1. /\ c.bus \in Byte /\ c.cr \in Byte /\ c.bnry \in Byte /\ c.isr \in Byte /\ c.curr \in Byte
      /\ c.crda \in Nat /\ c.par[1] \in Byte /\ c.par[3] \in Byte /\ Page(c) \in {0, 1}
  BY DEF Chip, Byte, Page
<1>2. LowByte(c.crda) \in Byte
  BY <1>1 DEF LowByte, Byte
<1>3. CASE missed
  BY <1>1, <1>3 DEF ReadReg
<1>4. CASE ~missed /\ off = CR
  BY <1>1, <1>4 DEF ReadReg, ReadRaw, CR, BNRY, CURR, ISR
<1>5. CASE ~missed /\ off # CR /\ Page(c) = 0
  BY <1>1, <1>2, <1>5 DEF ReadReg, ReadRaw, CR, PAR0, BNRY, CURR, ISR
<1>6. CASE ~missed /\ off # CR /\ Page(c) = 1
  BY <1>1, <1>6 DEF ReadReg, ReadRaw, CR, PAR0, BNRY, CURR
<1>7. QED BY <1>1, <1>3, <1>4, <1>5, <1>6

LEMMA AfterReadTyped ==
    ASSUME NEW c \in Chip, NEW off \in {CR, PAR0, BNRY, CURR}, NEW missed \in BOOLEAN,
           NEW d, d = AfterRead(c, off, missed)
    PROVE  OnlyBus(c, d) /\ d.bus = ReadReg(c, off, missed)
BY ReadTyped, BusTyped DEF AfterRead

LEMMA OnlyBusTwice ==
    ASSUME NEW c, NEW d, NEW e, OnlyBus(c, d), OnlyBus(d, e)
    PROVE  OnlyBus(c, e)
BY DEF OnlyBus, SameStore, SameRun, SameOne, SameZero, SameBounds

\* The read-backs of SELECT_PAGE.
LEMMA ChecksTyped ==
    ASSUME NEW c \in Chip, NEW want, NEW missed \in [1 .. 4 -> BOOLEAN],
           NEW d, d = AfterChecks(c, want, missed)
    PROVE  OnlyBus(c, d)
<1> DEFINE c1 == AfterRead(c, PAR0, missed[1])
           c2 == AfterRead(c1, CR, missed[2])
           c3 == AfterRead(c2, BNRY, missed[3])
           c4 == AfterRead(c3, CR, missed[4])
<1>1. d = c4 \/ d = c2
  BY DEF AfterChecks
<1>2. OnlyBus(c, c1)
  BY AfterReadTyped
<1> HIDE DEF c1
<1>3. OnlyBus(c1, c2)
  BY <1>2, AfterReadTyped DEF OnlyBus
<1> HIDE DEF c2
<1>4. OnlyBus(c2, c3)
  BY <1>3, AfterReadTyped DEF OnlyBus
<1> HIDE DEF c3
<1>5. OnlyBus(c3, c4)
  BY <1>4, AfterReadTyped DEF OnlyBus
<1> HIDE DEF c4
<1>6. QED BY <1>1, <1>2, <1>3, <1>4, <1>5, OnlyBusTwice

\* Page 0 passes both read-backs from page 1 only when three reads are missed.
LEMMA WrongConfirmation ==
    ASSUME NEW c \in Chip, Page(c) = 1, c.par = Mac, NEW missed \in [1 .. 4 -> BOOLEAN],
           Confirms(c, Page0Start, missed)
    PROVE  missed[2] /\ missed[3] /\ missed[4]
<1> DEFINE c1 == AfterRead(c, PAR0, missed[1])
           c2 == AfterRead(c1, CR, missed[2])
           c3 == AfterRead(c2, BNRY, missed[3])
<1>1. OnlyBus(c, c1)
  BY AfterReadTyped
<1>2. /\ Verified(ReadReg(c1, CR, missed[2]), Page0Start)
      /\ Verified(ReadReg(c3, CR, missed[4]), Page0Start)
  BY DEF Confirms
<1> HIDE DEF c1
<1>3. OnlyBus(c1, c2)
  BY <1>1, AfterReadTyped DEF OnlyBus
<1> HIDE DEF c2
<1>4. OnlyBus(c2, c3) /\ c3.bus = ReadReg(c2, BNRY, missed[3])
  BY <1>3, AfterReadTyped DEF OnlyBus
<1> HIDE DEF c3
<1>5. /\ c1 \in Chip /\ c2 \in Chip /\ c3 \in Chip
      /\ c1.cr = c.cr /\ c2.cr = c.cr /\ c3.cr = c.cr /\ c2.par = Mac
  BY <1>1, <1>3, <1>4 DEF OnlyBus, SameRun, SameOne
<1>6. ~Verified(c.cr, Page0Start)
  BY DEF Verified, Page, Page0Start
<1>7. missed[2]
  BY <1>2, <1>5, <1>6, ReadTyped
<1>8. missed[4]
  BY <1>2, <1>5, <1>6, ReadTyped
<1>9. missed[3]
  <2>1. SUFFICES ASSUME ~missed[3] PROVE FALSE
    OBVIOUS
  <2>2. Page(c2) = 1
    BY <1>5 DEF Page
  <2>3. c3.bus = Mac[3]
    BY <1>4, <1>5, <2>1, <2>2, ReadTyped
  <2>4. Verified(Mac[3], Page0Start)
    <3>1. ReadReg(c3, CR, missed[4]) = c3.bus
      BY <1>5, <1>8, ReadTyped
    <3>2. QED BY <1>2, <2>3, <3>1
  <2>5. QED BY <2>4 DEF Verified, Mac, Page0Start
<1>10. QED BY <1>7, <1>8, <1>9

\* Page 1 passes from page 0 only when two reads are missed, and leaves CR's value
\* on the data lines but at the price of three.
LEMMA RightConfirmation ==
    ASSUME NEW c \in Chip, c.par = Mac, Page(c) = 1 => c.cr = Page1Start,
           NEW missed \in [1 .. 4 -> BOOLEAN], Confirms(c, Page1Start, missed),
           NEW d, d = AfterChecks(c, Page1Start, missed)
    PROVE  /\ Page(c) # 1 => missed[2] /\ missed[4]
           /\ Page(c) = 1 /\ d.bus # Page1Start => missed[2] /\ missed[3] /\ missed[4]
<1> DEFINE c1 == AfterRead(c, PAR0, missed[1])
           c2 == AfterRead(c1, CR, missed[2])
           c3 == AfterRead(c2, BNRY, missed[3])
           c4 == AfterRead(c3, CR, missed[4])
<1>1. OnlyBus(c, c1)
  BY AfterReadTyped
<1>2. /\ Verified(ReadReg(c1, CR, missed[2]), Page1Start)
      /\ Verified(ReadReg(c3, CR, missed[4]), Page1Start)
  BY DEF Confirms
<1>3. d = IF Verified(c2.bus, Page1Start) THEN c4 ELSE c2
  BY DEF AfterChecks
<1> HIDE DEF c1
<1>4. OnlyBus(c1, c2) /\ c2.bus = ReadReg(c1, CR, missed[2])
  BY <1>1, AfterReadTyped DEF OnlyBus
<1> HIDE DEF c2
<1>5. OnlyBus(c2, c3) /\ c3.bus = ReadReg(c2, BNRY, missed[3])
  BY <1>4, AfterReadTyped DEF OnlyBus
<1> HIDE DEF c3
<1>6. c4.bus = ReadReg(c3, CR, missed[4])
  BY <1>5, AfterReadTyped DEF OnlyBus
<1> HIDE DEF c4
<1>7. /\ c1 \in Chip /\ c2 \in Chip /\ c3 \in Chip
      /\ c1.cr = c.cr /\ c2.cr = c.cr /\ c3.cr = c.cr /\ c2.par = Mac
  BY <1>1, <1>4, <1>5 DEF OnlyBus, SameRun, SameOne
<1>8. d.bus = c4.bus
  BY <1>2, <1>3, <1>4
<1>9. CASE Page(c) # 1
  <2>1. ~Verified(c.cr, Page1Start)
    BY <1>9 DEF Verified, Page, Page1Start
  <2>2. missed[2]
    BY <1>2, <1>7, <2>1, ReadTyped
  <2>3. missed[4]
    BY <1>2, <1>7, <2>1, ReadTyped
  <2>4. QED BY <1>9, <2>2, <2>3
<1>10. CASE Page(c) = 1 /\ d.bus # Page1Start
  <2>1. c.cr = Page1Start
    BY <1>10
  <2>2. missed[4]
    BY <1>6, <1>7, <1>8, <1>10, <2>1, ReadTyped
  <2>3. c3.bus # Page1Start /\ Verified(c3.bus, Page1Start)
    BY <1>2, <1>6, <1>7, <1>8, <1>10, <2>2, ReadTyped
  <2>4. missed[3]
    <3>1. SUFFICES ASSUME ~missed[3] PROVE FALSE
      OBVIOUS
    <3>2. Page(c2) = 1
      BY <1>7, <1>10 DEF Page
    <3>3. c3.bus = Mac[3]
      BY <1>5, <1>7, <3>1, <3>2, ReadTyped
    <3>4. QED BY <2>3, <3>3 DEF Verified, Mac, Page1Start
  <2>5. c2.bus # Page1Start
    BY <1>5, <1>7, <2>3, <2>4, ReadTyped
  <2>6. missed[2]
    BY <1>4, <1>7, <2>1, <2>5, ReadTyped
  <2>7. QED BY <2>2, <2>4, <2>6
<1>11. QED BY <1>9, <1>10

LEMMA CountTyped ==
    ASSUME NEW missed \in [1 .. 4 -> BOOLEAN]
    PROVE  /\ Count(missed) \in Nat
           /\ missed[2] /\ missed[4] => Count(missed) >= 2
           /\ missed[2] /\ missed[3] /\ missed[4] => Count(missed) >= 3
<1> DEFINE S == {k \in 1 .. 4 : missed[k]}
<1>1. Count(missed) = Cardinality(S)
  BY DEF Count
<1>2. IsFiniteSet(S) /\ Cardinality(S) \in Nat
  <2>1. IsFiniteSet(1 .. 4)
    <3>1. 1 \in Int /\ 4 \in Int
      OBVIOUS
    <3>2. QED BY <3>1, FS_Interval, Zenon
  <2>2. S \in SUBSET (1 .. 4)
    OBVIOUS
  <2> HIDE DEF S
  <2>3. IsFiniteSet(S)
    BY <2>1, <2>2, FS_Subset
  <2>4. QED BY <2>3, FS_CardinalityType
<1>3. ASSUME missed[2], missed[3], missed[4] PROVE Cardinality(S) >= 3
  <2>1. 2 .. 4 \subseteq S
    BY <1>3
  <2>2. Cardinality(2 .. 4) = 3
    <3>1. Cardinality(2 .. 4) = IF 2 > 4 THEN 0 ELSE 4 - 2 + 1
      <4>1. 2 \in Int /\ 4 \in Int
        OBVIOUS
      <4>2. QED BY <4>1, FS_Interval, Zenon
    <3>2. QED BY <3>1
  <2>3. QED BY <1>2, <2>1, <2>2, FS_Subset
<1>4. ASSUME missed[2], missed[4] PROVE Cardinality(S) >= 2
  <2>1. S # {} /\ 2 \in S /\ 4 \in S \ {2}
    BY <1>4
  <2> DEFINE R == S \ {2}
             Q == R \ {4}
  <2>2. IsFiniteSet(R) /\ Cardinality(R) = Cardinality(S) - 1
    BY <1>2, <2>1, FS_RemoveElement
  <2>3. IsFiniteSet(Q) /\ Cardinality(Q) = Cardinality(R) - 1
    <3>1. 4 \in R
      BY <2>1
    <3> HIDE DEF R
    <3>2. QED BY <2>2, <3>1, FS_RemoveElement
  <2>4. Cardinality(Q) \in Nat
    BY <2>3, FS_CardinalityType
  <2>5. QED BY <1>2, <2>2, <2>3, <2>4
<1>5. QED BY <1>1, <1>3, <1>4, <1>2

-----------------------------------------------------------------------------
(* The steps of the chip, as the invariants see them.                      *)

\* What every step keeps, and what it does to the registers of the ring when
\* it reaches the page it is meant for.
Keeps(c, d) ==
    /\ d \in Chip /\ SameStore(c, d)
    /\ d.pstart = c.pstart /\ d.pstop = c.pstop
    /\ Rested(c) => Rested(d)
Moved(c, d, bnry) ==
    d.par = c.par /\ d.mar = c.mar /\ d.curr = c.curr /\ d.bnry \in {c.bnry, bnry}
Aligned(c, d) == Moved(c, d, c.bnry)

LEMMA KeepsTwice ==
    ASSUME NEW c, NEW d, NEW e, Keeps(c, d), Keeps(d, e)
    PROVE  Keeps(c, e) /\ (Aligned(c, d) /\ Aligned(d, e) => Aligned(c, e))
           /\ \A bnry : Moved(c, d, bnry) /\ Aligned(d, e) => Moved(c, e, bnry)
BY DEF Keeps, Aligned, Moved, SameStore

LEMMA OnlyBusKeeps ==
    ASSUME NEW c, NEW d, OnlyBus(c, d)
    PROVE  Keeps(c, d) /\ Aligned(c, d) /\ Page(d) = Page(c) /\ d.isr = c.isr
BY DEF OnlyBus, Keeps, Aligned, Moved, Rested, Page, SameRun, SameOne, SameZero, SameBounds

LEMMA LostKeeps ==
    ASSUME NEW c \in Chip, NEW v \in Byte
    PROVE  OnlyBus(c, LostWrite(c, v))
BY BusTyped DEF LostWrite

LEMMA CommandKeeps ==
    ASSUME NEW c \in Chip, NEW v \in {Page0Stop, Page0Start, Page1Stop, Page1Start},
           NEW d, d = WriteReg(c, CR, v)
    PROVE  Keeps(c, d) /\ Aligned(c, d) /\ d.cr = v /\ (v \in {Page0Start, Page1Start} => d.isr = c.isr)
<1>1. d = c ++ <<CR, v>>
  BY DEF ++
<1>2. QED BY <1>1, WriteCommand DEF Keeps, Aligned, Moved, Rested, SameOne, SameBounds

\* A write to a register that holds no bound of the ring.
LEMMA RegisterKeeps ==
    ASSUME NEW c \in Chip, NEW off \in 1 .. 15, off \notin {PSTART, PSTOP}, NEW v \in Byte,
           off \in {RBCR0, RBCR1} => v = 0, NEW d, d = c ++ <<off, v>>
    PROVE  /\ Keeps(c, d) /\ d.cr = c.cr
           /\ Page(c) = 0 => IF off = BNRY THEN Moved(c, d, v) ELSE Aligned(c, d)
           /\ d.isr = IF Page(c) = 0 /\ off = ISR THEN Cleared(c.isr, v) ELSE c.isr
           /\ d.tpsr = IF Page(c) = 0 /\ off = TPSR THEN v ELSE c.tpsr
           /\ Page(c) = 0 => /\ off = TBCR0 => d.tbcr = WithLow(c.tbcr, v)
                             /\ off = TBCR1 => d.tbcr = WithHigh(c.tbcr, v)
                             /\ off \notin {TBCR0, TBCR1} => d.tbcr = c.tbcr
           /\ d.bus = v
<1>1. Page(c) \in {0, 1}
  BY DEF Chip, Page
<1>2. CASE Page(c) = 1
  <2>1. d \in Chip /\ SameStore(c, d) /\ SameRun(c, d) /\ SameZero(c, d) /\ d.bus = v
    BY <1>2, WriteOne
  <2>2. QED BY <1>2, <2>1 DEF Keeps, Rested, SameRun, SameZero, SameBounds
<1>3. CASE Page(c) = 0
  <2>1. /\ d \in Chip /\ SameStore(c, d) /\ SameRun(c, d) /\ SameOne(c, d)
        /\ ZeroWritten(c, off, v, d) /\ d.bus = v
    BY <1>3, WriteZero
  <2>2. c.rbcr = 0 => d.rbcr = 0
    <3>1. WithLow(0, 0) = 0 /\ WithHigh(0, 0) = 0
      BY DEF WithLow, WithHigh, LowByte, HighByte
    <3>2. QED BY <2>1, <3>1 DEF ZeroWritten
  <2>3. Keeps(c, d)
    BY <2>1, <2>2 DEF Keeps, Rested, SameRun, ZeroWritten
  <2>4. IF off = BNRY THEN Moved(c, d, v) ELSE Aligned(c, d)
    BY <2>1 DEF Aligned, Moved, SameOne, ZeroWritten
  <2>5. d.isr = (IF off = ISR THEN Cleared(c.isr, v) ELSE c.isr) /\ d.cr = c.cr
    BY <2>1 DEF ZeroWritten, SameRun
  <2>6. d.tpsr = IF off = TPSR THEN v ELSE c.tpsr
    BY <2>1 DEF ZeroWritten
  <2>7. /\ off = TBCR0 => d.tbcr = WithLow(c.tbcr, v)
        /\ off = TBCR1 => d.tbcr = WithHigh(c.tbcr, v)
        /\ off \notin {TBCR0, TBCR1} => d.tbcr = c.tbcr
    BY <2>1 DEF ZeroWritten
  <2>8. QED BY <1>3, <2>1, <2>3, <2>4, <2>5, <2>6, <2>7
<1>4. QED BY <1>1, <1>2, <1>3

\* A write to a register of a transmission, on page 0, that may be lost.
LEMMA LoseKeeps ==
    ASSUME NEW c \in Chip, Page(c) = 0, NEW off \in {TBCR0, TBCR1, TPSR, ISR}, NEW v \in Byte,
           NEW lost \in BOOLEAN, NEW d, d = MayLose(c, off, v, lost)
    PROVE  /\ d \in Chip /\ Keeps(c, d) /\ Aligned(c, d) /\ Page(d) = 0 /\ d.cr = c.cr
           /\ d.bus = v
           /\ d.isr = IF off = ISR /\ ~lost THEN Cleared(c.isr, v) ELSE c.isr
           /\ d.tpsr = IF off = TPSR /\ ~lost THEN v ELSE c.tpsr
           /\ off = TBCR0 /\ ~lost => d.tbcr = WithLow(c.tbcr, v)
           /\ off = TBCR1 /\ ~lost => d.tbcr = WithHigh(c.tbcr, v)
           /\ off \notin {TBCR0, TBCR1} => d.tbcr = c.tbcr
<1>1. /\ off \in 1 .. 15 /\ off \notin {PSTART, PSTOP, RBCR0, RBCR1, BNRY}
  BY DEF TBCR0, TBCR1, TPSR, ISR, PSTART, PSTOP, RBCR0, RBCR1, BNRY
<1>2. CASE lost
  <2>1. d = [c EXCEPT !.bus = v]
    BY <1>2 DEF MayLose, LostWrite
  <2>2. OnlyBus(c, d) /\ d.bus = v
    BY <2>1, BusTyped
  <2>3. QED BY <1>2, <2>2, OnlyBusKeeps DEF OnlyBus, SameRun, SameZero, SameBounds
<1>3. CASE ~lost
  <2>1. d = c ++ <<off, v>>
    BY <1>3 DEF MayLose, ++
  <2>2. /\ Keeps(c, d) /\ d.cr = c.cr /\ Aligned(c, d) /\ d.bus = v
        /\ d.isr = IF off = ISR THEN Cleared(c.isr, v) ELSE c.isr
        /\ d.tpsr = IF off = TPSR THEN v ELSE c.tpsr
        /\ off = TBCR0 => d.tbcr = WithLow(c.tbcr, v)
        /\ off = TBCR1 => d.tbcr = WithHigh(c.tbcr, v)
        /\ off \notin {TBCR0, TBCR1} => d.tbcr = c.tbcr
    BY <1>1, <2>1, RegisterKeeps
  <2>3. QED BY <1>3, <2>2 DEF Keeps, Page
<1>4. QED BY <1>2, <1>3

LEMMA HasSet ==
    ASSUME NEW v \in Byte
    PROVE  /\ \A bit \in {PRX, OVW} : /\ Has(Set(v, bit), PTX) <=> Has(v, PTX)
                                      /\ Has(Set(v, bit), TXE) <=> Has(v, TXE)
           /\ Has(Set(v, PTX), PTX) /\ (Has(Set(v, PTX), TXE) <=> Has(v, TXE))
           /\ Has(Set(v, TXE), TXE) /\ (Has(Set(v, TXE), PTX) <=> Has(v, PTX))
<1>1. \A bit \in {PRX, OVW} : /\ Has(Set(v, bit), PTX) <=> Has(v, PTX)
                              /\ Has(Set(v, bit), TXE) <=> Has(v, TXE)
  BY DEF Byte, Has, Set, PRX, OVW, PTX, TXE
<1>2. Has(Set(v, PTX), PTX) /\ (Has(Set(v, PTX), TXE) <=> Has(v, TXE))
  BY DEF Byte, Has, Set, PTX, TXE
<1>3. Has(Set(v, TXE), TXE) /\ (Has(Set(v, TXE), PTX) <=> Has(v, PTX))
  BY DEF Byte, Has, Set, PTX, TXE
<1>4. QED BY <1>1, <1>2, <1>3

\* A frame that is stored, one that finds no room, and one that is sent.
Bounded(c) == c.pstart = PStart /\ c.pstop = PStop

LEMMA PageInRing ==
    ASSUME NEW c, Bounded(c), NEW page \in Int, NEW k \in Int
    PROVE  PageAt(c, page, k) \in Ring
<1>1. /\ c.pstart = PStart /\ RingSize(c) = PStop - PStart
      /\ PStart \in Int /\ PStop \in Int /\ PStop - PStart > 0
  BY RingAssumption DEF Bounded, RingSize
<1> DEFINE n == PStop - PStart
           m == (PosOf(c, page) + k) % n
<1>2. PosOf(c, page) \in Int
  BY <1>1 DEF PosOf
<1>3. m \in 0 .. n - 1
  BY <1>1, <1>2
<1>4. PageAt(c, page, k) = PStart + m
  BY <1>1 DEF PageAt
<1> HIDE DEF m
<1>5. QED BY <1>1, <1>3, <1>4 DEF Ring

LEMMA StoreTyped ==
    ASSUME NEW c \in Chip, Bounded(c), NEW id \in 0 .. MaxFrames, NEW pages \in Byte \ {0},
           NEW d, d = Store(c, id, pages)
    PROVE  /\ d \in Chip /\ Bounded(d) /\ (Rested(c) => Rested(d)) /\ d.curr \in Ring
           /\ d.cr = c.cr /\ d.bnry = c.bnry /\ d.par = c.par /\ d.mar = c.mar
           /\ d.tx = c.tx /\ d.wire = c.wire /\ d.tpsr = c.tpsr /\ d.tbcr = c.tbcr
           /\ d.bus = c.bus
           /\ \A p \in Ring : c.ram[p] # Poison => d.ram[p] # Poison
           /\ Has(d.isr, PTX) <=> Has(c.isr, PTX)
           /\ Has(d.isr, TXE) <=> Has(c.isr, TXE)
<1> DEFINE next == PageAt(c, c.curr, pages)
           written == {PageAt(c, c.curr, k) : k \in 0 .. pages - 1}
           part(p) == (PosOf(c, p) - PosOf(c, c.curr)) % RingSize(c)
           ram == [p \in Ring |->
                     IF p \in written
                     THEN [frame |-> id, part |-> part(p), next |-> next, pages |-> pages]
                     ELSE c.ram[p]]
           isr == Set(c.isr, PRX)
<1>1. c.curr \in Int /\ pages \in Int /\ c.isr \in Byte /\ c.ram \in [Ring -> Token]
  BY DEF Chip, Byte
<1>2. next \in Ring /\ next \in Byte
  <2>1. next \in Ring
    BY <1>1, PageInRing
  <2>2. Ring \subseteq Byte
    BY RingAssumption DEF Ring, Byte
  <2>3. QED BY <2>1, <2>2
<1>3. \A p \in Ring : part(p) \in Nat
  <2>1. /\ RingSize(c) = PStop - PStart /\ c.pstart = PStart
        /\ PStart \in Int /\ PStop \in Int /\ PStop - PStart > 0
    BY RingAssumption DEF Bounded, RingSize
  <2>2. \A p \in Int : PosOf(c, p) \in Int
    BY <2>1 DEF PosOf
  <2>3. PosOf(c, c.curr) \in Int /\ RingSize(c) \in Int /\ RingSize(c) > 0
    BY <1>1, <2>1, <2>2
  <2>4. \A i, j, n \in Int : n > 0 => (i - j) % n \in Nat
    OBVIOUS
  <2>5. \A p \in Ring : PosOf(c, p) \in Int
    BY <2>1, <2>2 DEF Ring
  <2>6. QED BY <2>3, <2>4, <2>5
<1> DEFINE tok(p) == [frame |-> id, part |-> part(p), next |-> next, pages |-> pages]
<1>4. \A p \in Ring : tok(p) \in Stored /\ tok(p) # Poison
  BY <1>2, <1>3 DEF Stored, Poison, Byte
<1>5. d = [c EXCEPT !.ram = ram, !.curr = next, !.isr = isr]
  BY DEF Store
<1>6. isr \in Byte /\ (Has(isr, PTX) <=> Has(c.isr, PTX)) /\ (Has(isr, TXE) <=> Has(c.isr, TXE))
  BY <1>1, SetByte, HasSet DEF PRX
<1> HIDE DEF next, written, part, isr
<1>7. ram \in [Ring -> Token]
  BY <1>1, <1>4 DEF Token
<1>8. \A p \in Ring : c.ram[p] # Poison => ram[p] # Poison
  BY <1>4
<1> HIDE DEF ram
<1> DEFINE e == [c EXCEPT !.ram = ram]
           f == [e EXCEPT !.curr = next]
<1>9. e \in Chip
  BY <1>7, RunTyped
<1>10. d = [f EXCEPT !.isr = isr]
  BY <1>5
<1>11. f \in Chip
  <2> HIDE DEF e
  <2>1. QED BY <1>2, <1>9, FieldTyped
<1>12. d \in Chip
  <2> HIDE DEF f
  <2>1. QED BY <1>6, <1>10, <1>11, FieldTyped
<1>13. /\ d.pstart = c.pstart /\ d.pstop = c.pstop /\ d.dma = c.dma /\ d.rbcr = c.rbcr
       /\ d.curr = next /\ d.ram = ram /\ d.isr = isr
       /\ d.cr = c.cr /\ d.bnry = c.bnry /\ d.par = c.par /\ d.mar = c.mar
       /\ d.tx = c.tx /\ d.wire = c.wire /\ d.tpsr = c.tpsr /\ d.tbcr = c.tbcr /\ d.bus = c.bus
  BY <1>5 DEF Chip
<1>14. QED BY <1>2, <1>6, <1>8, <1>12, <1>13 DEF Bounded, Rested

LEMMA HaltTyped ==
    ASSUME NEW c \in Chip, NEW d, d = Halt(c)
    PROVE  /\ Keeps(c, d) /\ Aligned(c, d) /\ d.cr = c.cr /\ d.tpsr = c.tpsr
           /\ d.tbcr = c.tbcr /\ d.bus = c.bus
           /\ Has(d.isr, PTX) <=> Has(c.isr, PTX)
           /\ Has(d.isr, TXE) <=> Has(c.isr, TXE)
<1> DEFINE isr == Set(c.isr, OVW)
           e == [c EXCEPT !.isr = isr]
<1>1. c.isr \in Byte
  BY DEF Chip
<1>2. isr \in Byte /\ (Has(isr, PTX) <=> Has(c.isr, PTX)) /\ (Has(isr, TXE) <=> Has(c.isr, TXE))
  BY <1>1, SetByte, HasSet DEF OVW
<1>3. d = [e EXCEPT !.rxHalted = TRUE]
  BY DEF Halt
<1> HIDE DEF isr
<1>4. /\ e \in Chip /\ SameStore(c, e) /\ e.pstart = c.pstart /\ e.pstop = c.pstop
      /\ e.dma = c.dma /\ e.rbcr = c.rbcr /\ SameOne(c, e) /\ e.bnry = c.bnry
      /\ e.cr = c.cr /\ e.tpsr = c.tpsr /\ e.isr = isr /\ e.tbcr = c.tbcr /\ e.bus = c.bus
  <2>1. e \in Chip
    BY <1>2, FieldTyped
  <2>2. QED BY <2>1 DEF Chip, SameStore, SameOne
<1> HIDE DEF e
<1>5. d \in Chip
  BY <1>3, <1>4, RunTyped
<1>6. /\ SameStore(e, d) /\ d.pstart = e.pstart /\ d.pstop = e.pstop
      /\ d.dma = e.dma /\ d.rbcr = e.rbcr /\ SameOne(e, d) /\ d.bnry = e.bnry
      /\ d.cr = e.cr /\ d.tpsr = e.tpsr /\ d.isr = e.isr /\ d.tbcr = e.tbcr /\ d.bus = e.bus
  BY <1>3, <1>4, <1>5 DEF Chip, SameStore, SameOne
<1>7. QED BY <1>2, <1>4, <1>5, <1>6 DEF Keeps, Aligned, Moved, Rested, SameStore, SameOne

LEMMA TransmitTyped ==
    ASSUME NEW c \in Chip, NEW fails \in BOOLEAN,
           NEW d, d = WriteCr([c EXCEPT !.bus = TxCmd], TxCmd, fails)
    PROVE  /\ d \in Chip /\ d.ram = c.ram /\ d.pstart = c.pstart /\ d.pstop = c.pstop
           /\ Rested(c) => Rested(d)
           /\ Aligned(c, d) /\ d.cr = Page0Start /\ d.bus = TxCmd /\ d.tpsr = c.tpsr
           /\ fails => d.wire = c.wire /\ d.isr = Set(c.isr, TXE)
           /\ ~fails /\ c.tpsr = TxPage => d.wire = [c.tx EXCEPT !.bytes = c.tbcr]
           /\ ~fails /\ c.tpsr # TxPage => d.wire = NoFrame
           /\ ~fails => d.isr = Set(c.isr, PTX)
<1> DEFINE s == [c EXCEPT !.bus = TxCmd]
           t == [s EXCEPT !.cr = TxCmd]
           u == StopOrStart(t, TxCmd)
           w == RemoteDma(u, 4)
<1>1. d = DoTransmit(w, fails)
  BY DEF WriteCr, TxCmd, Has
<1>2. TxCmd \in Byte /\ TxCmd \in 0 .. 127
  BY DEF TxCmd, Byte
<1>3. s \in Chip
  BY <1>2, FieldTyped
<1>4. t \in Chip
  <2> HIDE DEF s
  <2>1. QED BY <1>2, <1>3, RunTyped
<1>5. /\ SameStore(c, t) /\ SameOne(c, t) /\ SameBounds(c, t)
      /\ t.cr = TxCmd /\ t.dma = c.dma /\ t.isr = c.isr /\ t.bus = TxCmd
  BY DEF Chip, SameStore, SameOne, SameBounds
<1> HIDE DEF s, t
<1>6. /\ u \in Chip /\ SameStore(t, u) /\ SameOne(t, u) /\ SameBounds(t, u)
      /\ u.cr = t.cr /\ u.dma = t.dma /\ u.isr = t.isr /\ u.bus = t.bus
  <2>1. u = t \/ u = Started(t)
    BY DEF StopOrStart, Started, TxCmd, Has
  <2>2. CASE u = t
    BY <1>4, <2>2 DEF SameStore, SameOne, SameBounds
  <2>3. CASE u = Started(t)
    BY <1>4, <2>3, StartTyped
  <2>4. QED BY <2>1, <2>2, <2>3
<1> HIDE DEF u
<1>7. w = [u EXCEPT !.dma = "idle"]
  BY DEF RemoteDma
<1>8. /\ w \in Chip /\ SameStore(u, w) /\ SameOne(u, w) /\ SameBounds(u, w)
      /\ w.cr = u.cr /\ w.dma = "idle" /\ w.isr = u.isr /\ w.bus = u.bus
  BY <1>6, <1>7, IdleTyped
<1> HIDE DEF w
<1> DEFINE isr == Set(w.isr, IF fails THEN TXE ELSE PTX)
           left == [w.tx EXCEPT !.bytes = w.tbcr]
           wire == IF fails THEN w.wire ELSE IF w.tpsr = TxPage THEN left ELSE NoFrame
           x == [w EXCEPT !.isr = isr]
           y == [x EXCEPT !.wire = wire]
<1>9. w.tpsr = c.tpsr /\ w.tbcr = c.tbcr /\ w.tx = c.tx /\ w.wire = c.wire
  BY <1>5, <1>6, <1>8 DEF SameBounds, SameStore
<1>10. Cleared(TxCmd, 4) = Page0Start
  BY DEF Cleared, Has, TxCmd, Page0Start
<1>11. d = [w EXCEPT !.isr = isr, !.wire = wire, !.cr = Page0Start]
  <2>1. w.cr = TxCmd
    BY <1>5, <1>6, <1>8
  <2>2. DoTransmit(w, fails) = [w EXCEPT !.isr = isr, !.wire = wire, !.cr = Cleared(w.cr, 4)]
    BY DEF DoTransmit
  <2>3. QED BY <1>1, <1>10, <2>1, <2>2
<1>12. isr \in Byte /\ wire \in Frame
  <2>1. w.isr \in Byte /\ w.wire \in Frame /\ w.tx \in Frame /\ w.tbcr \in Word
    BY <1>8 DEF Chip
  <2>2. left \in Frame
    BY <2>1 DEF Frame
  <2>3. NoFrame \in Frame
    BY WordMember DEF NoFrame, Frame
  <2>4. isr \in Byte
    BY <2>1, SetByte DEF TXE, PTX
  <2> HIDE DEF left
  <2>5. QED BY <2>1, <2>2, <2>3, <2>4
<1>13. wire = IF fails THEN c.wire
              ELSE IF c.tpsr = TxPage THEN [c.tx EXCEPT !.bytes = c.tbcr] ELSE NoFrame
  BY <1>9
<1>14. isr = Set(c.isr, IF fails THEN TXE ELSE PTX)
  BY <1>5, <1>6, <1>8
<1> HIDE DEF isr, wire, left
<1>15. d = [y EXCEPT !.cr = Page0Start]
  BY <1>11
<1>16. x \in Chip
  BY <1>8, <1>12, FieldTyped
<1>17. y \in Chip
  <2> HIDE DEF x
  <2>1. QED BY <1>12, <1>16, RunTyped
<1>18. d \in Chip
  <2> HIDE DEF y
  <2>1. Page0Start \in 0 .. 127
    BY DEF Page0Start
  <2>2. QED BY <1>15, <1>17, <2>1, RunTyped
<1>19. /\ d.ram = w.ram /\ d.pstart = w.pstart /\ d.pstop = w.pstop
       /\ d.dma = w.dma /\ d.rbcr = w.rbcr /\ SameOne(w, d) /\ d.bnry = w.bnry
       /\ d.cr = Page0Start /\ d.wire = wire /\ d.isr = isr /\ d.bus = w.bus /\ d.tpsr = w.tpsr
  <2>1. d.pstart = w.pstart /\ d.pstop = w.pstop /\ d.bnry = w.bnry /\ d.rbcr = w.rbcr
    <3>1. x.pstart = w.pstart /\ x.pstop = w.pstop /\ x.bnry = w.bnry /\ x.rbcr = w.rbcr
      BY <1>8 DEF Chip
    <3> HIDE DEF x
    <3>2. y.pstart = x.pstart /\ y.pstop = x.pstop /\ y.bnry = x.bnry /\ y.rbcr = x.rbcr
      BY <1>16 DEF Chip
    <3> HIDE DEF y
    <3>3. d.pstart = y.pstart /\ d.pstop = y.pstop /\ d.bnry = y.bnry /\ d.rbcr = y.rbcr
      BY <1>15, <1>17 DEF Chip
    <3>4. QED BY <3>1, <3>2, <3>3
  <2>2. /\ d.ram = w.ram /\ d.dma = w.dma /\ d.cr = Page0Start /\ d.wire = wire /\ d.isr = isr
        /\ d.bus = w.bus /\ d.tpsr = w.tpsr
    BY <1>8, <1>11 DEF Chip
  <2>3. SameOne(w, d)
    <3>1. SameOne(w, x)
      BY <1>8 DEF Chip, SameOne
    <3> HIDE DEF x
    <3>2. SameOne(x, y)
      BY <1>16 DEF Chip, SameOne
    <3> HIDE DEF y
    <3>3. SameOne(y, d)
      BY <1>15, <1>17 DEF Chip, SameOne
    <3>4. QED BY <3>1, <3>2, <3>3 DEF SameOne
  <2>4. QED BY <2>1, <2>2, <2>3
<1>20. QED BY <1>5, <1>6, <1>8, <1>9, <1>13, <1>14, <1>18, <1>19
           DEF SameStore, SameOne, SameBounds, Rested, Aligned, Moved

-----------------------------------------------------------------------------
(* The invariant.                                                          *)

Labels == {"idle", "select", "curr1", "curr2", "page0", "decide", "isr1", "isr2",
           "monitor", "stop", "restart", "packet", "header", "bad", "body", "rest",
           "done", "write", "length", "clear", "txp", "ptx"}
SentLabels == {"write", "length", "clear", "txp", "ptx"}
Header == [frame : 0 .. MaxFrames, part : Nat, next : Byte, pages : Byte]
Reg == [want : {0, Page0Start, Page1Start}, after : {"none", "curr1", "decide"},
        tries : Nat, b : Byte, c : Byte, flipped : BOOLEAN, step : 0 .. 8,
        hdr : Header, peek : BOOLEAN, body : Seq(Token), before : Nat]

\* Between two actions no transfer is under way, and no write of the driver
\* has reached the bounds of the ring.
ChipInv == chip \in Chip /\ Rested(chip) /\ Bounded(chip)

TypeInv ==
    /\ reg \in Reg /\ pc \in Labels /\ shadow \in Ring /\ held \in Seq(Token)
    /\ arrived \in 0 .. MaxFrames /\ faults \in 0 .. MaxFaults
    /\ sending \in Frame /\ told \in {"none", "sent", "failed"}

\* What the working values are at each label: a header that was found good
\* names a page of the ring, and so does the first page of a body read after it.
CallInv ==
    /\ held # <<>> => held[1].next \in Ring
    /\ pc = "select" =>
          /\ reg.tries > 0
          /\ \/ reg.want = Page0Start /\ reg.after = "decide"
             \/ reg.want = Page1Start /\ reg.after = "curr1"
    /\ pc \in {"header", "write", "clear"} => reg.tries > 0
    /\ pc = "restart" => reg.step > 0
    /\ pc \in {"header", "bad", "body", "rest", "done"} => reg.b \in Ring
    /\ pc \in {"body", "rest", "done"} => reg.hdr.next \in Ring /\ reg.hdr.pages > 0
    /\ pc = "body" => chip.ram[reg.b] # Poison
    /\ pc \in {"rest", "done"} => reg.body # <<>> /\ reg.body[1].next \in Ring
    /\ pc = "rest" => Len(reg.body) < reg.hdr.pages

\* The frame being sent has not left the wire before its TXP.  From the check of
\* its headers on it is in the transmit buffer, with its TBCR and TPSR set if no
\* fault fell into the call.
Buffered == /\ Page(chip) = 0 /\ chip.tx.id = sending.id /\ chip.tx.prefix
            /\ faults = reg.before => chip.tx = sending
LengthSet == faults = reg.before => chip.tpsr = TxPage /\ chip.tbcr = sending.bytes

\* After the TXP the terminal bits say what has become of the frame: it has
\* left, or another page has in its place, or TXE is set, or the command was
\* lost; all but the first are faults of the call.
Left == /\ Has(chip.isr, PTX) /\ ~Has(chip.isr, TXE)
        /\ chip.wire.id = sending.id /\ chip.wire.prefix
        /\ faults = reg.before => chip.wire = sending
WrongPage == /\ Has(chip.isr, PTX) /\ ~Has(chip.isr, TXE)
             /\ chip.tpsr # TxPage /\ faults > reg.before
Stayed == /\ ~Has(chip.isr, PTX)
          /\ chip.wire.id < sending.id /\ faults > reg.before
Commanded == /\ chip.bus = TxCmd /\ Page(chip) = 0
             /\ Left \/ WrongPage \/ Stayed
             /\ ~Stayed => chip.cr = Page0Start

SendInv ==
    /\ chip.wire.id <= sending.id
    /\ pc \in SentLabels => reg.before <= faults
    /\ pc \in {"write", "length", "clear", "txp"} => chip.wire.id < sending.id
    /\ pc = "write" => /\ sending.bytes > 0 /\ sending.prefix /\ sending.rest
    /\ pc \in {"length", "clear", "txp"} => Buffered
    /\ pc \in {"clear", "txp"} => LengthSet
    /\ pc = "txp" => StatusClear(chip.isr)
    /\ pc = "ptx" => Commanded

IInv == ChipInv /\ TypeInv /\ CallInv /\ SendInv

LEMMA ChipKept ==
    ASSUME ChipInv, Keeps(chip, chip')
    PROVE  ChipInv' /\ chip'.wire = chip.wire /\ chip'.ram = chip.ram
BY DEF ChipInv, Keeps, Bounded, SameStore

LEMMA SendKept ==
    ASSUME SendInv, sending' = sending, chip'.wire = chip.wire, pc' \notin SentLabels
    PROVE  SendInv'
BY DEF SendInv, SentLabels

LEMMA MayTyped ==
    ASSUME TypeInv, NEW kind, NEW happens \in BOOLEAN, May(kind, happens)
    PROVE  faults' \in 0 .. MaxFaults /\ faults' >= faults /\ (happens => faults' = faults + 1)
BY NicAssumption DEF TypeInv, May

LEMMA RegTyped ==
    /\ NoReg \in Reg /\ Poison \in Header /\ Poison \in Token /\ Token \subseteq Header
    /\ 0 \in Byte /\ AllBits \in Byte /\ Ring \subseteq Byte
<1>1. 0 \in Byte /\ AllBits \in Byte
  BY DEF Byte, AllBits
<1>2. Ring \subseteq Byte
  BY RingAssumption DEF Ring, Byte
<1>3. MaxFrames \in Nat
  BY NicAssumption
<1>4. Poison \in Header
  BY <1>3 DEF Poison, Header, Byte
<1>5. Poison \in Token /\ Token \subseteq Header
  BY <1>2, <1>4 DEF Token, Stored, Header
<1>6. NoReg \in Reg
  BY <1>1, <1>4 DEF NoReg, Reg
<1>7. QED BY <1>1, <1>2, <1>4, <1>5, <1>6

LEMMA NextPageTyped ==
    ASSUME NEW p \in Ring
    PROVE  NextPage(p) \in Ring /\ Before(p) \in Ring
BY RingAssumption DEF NextPage, Before, Ring

-----------------------------------------------------------------------------
(* The actions keep it.  Reception and the poll.                           *)

LEMMA ArriveKeeps ==
    ASSUME IInv, NEW dest, NEW pages \in Sizes, Arrive(dest, pages)
    PROVE  IInv'
<1>1. pages \in Byte \ {0} /\ MaxFrames \in Nat
  BY NicAssumption, RingAssumption DEF Byte
<1>2. /\ chip' \in Chip /\ Bounded(chip') /\ Rested(chip') /\ arrived' \in 0 .. MaxFrames
      /\ chip'.cr = chip.cr /\ chip'.tx = chip.tx /\ chip'.wire = chip.wire
      /\ chip'.tpsr = chip.tpsr /\ chip'.tbcr = chip.tbcr /\ chip'.bus = chip.bus
      /\ \A p \in Ring : chip.ram[p] # Poison => chip'.ram[p] # Poison
      /\ Has(chip'.isr, PTX) <=> Has(chip.isr, PTX)
      /\ Has(chip'.isr, TXE) <=> Has(chip.isr, TXE)
  <2>1. CASE Fits(chip, pages)
    <3>1. chip' = Store(chip, arrived + 1, pages) /\ arrived' = arrived + 1
      BY <2>1 DEF Arrive
    <3>2. arrived + 1 \in 0 .. MaxFrames
      BY <1>1 DEF Arrive, IInv, TypeInv
    <3>3. QED BY <1>1, <3>1, <3>2, StoreTyped DEF IInv, ChipInv
  <2>2. CASE ~Fits(chip, pages)
    <3>1. chip' = Halt(chip) /\ arrived' = arrived
      BY <2>2 DEF Arrive
    <3>2. /\ Keeps(chip, chip') /\ chip'.cr = chip.cr /\ chip'.tpsr = chip.tpsr
          /\ chip'.tbcr = chip.tbcr /\ chip'.bus = chip.bus
          /\ Has(chip'.isr, PTX) <=> Has(chip.isr, PTX)
          /\ Has(chip'.isr, TXE) <=> Has(chip.isr, TXE)
      BY <3>1, HaltTyped DEF IInv, ChipInv
    <3>3. QED BY <3>1, <3>2 DEF Keeps, SameStore, IInv, ChipInv, TypeInv, Bounded
  <2>3. QED BY <2>1, <2>2
<1>3. UNCHANGED <<shadow, pc, reg, held, faults, sending, told>>
  BY DEF Arrive, sendVars
<1>4. ChipInv' /\ TypeInv'
  BY <1>2, <1>3 DEF IInv, ChipInv, TypeInv
<1>5. CallInv'
  BY <1>2, <1>3 DEF IInv, CallInv
<1>6. SendInv'
  BY <1>2, <1>3 DEF IInv, SendInv, Buffered, LengthSet, Commanded, Left, WrongPage, Stayed,
                    Page, StatusClear
<1>7. QED BY <1>4, <1>5, <1>6 DEF IInv

LEMMA PollKeeps ==
    ASSUME IInv, Poll
    PROVE  IInv'
<1>1. reg'.want = Page1Start /\ reg'.after = "curr1" /\ reg'.tries = SelectTries /\ reg' \in Reg
  <2>1. NextPage(shadow) \in Byte
    BY NextPageTyped, RegTyped DEF IInv, TypeInv
  <2>2. SelectTries \in Nat
    BY NicAssumption
  <2>3. QED BY <2>1, <2>2, RegTyped DEF Poll, Reg, NoReg
<1>2. SelectTries > 0
  BY NicAssumption
<1>3. UNCHANGED <<chip, shadow, arrived, faults, sending, told>> /\ pc' = "select" /\ held' = <<>>
  BY DEF Poll, sendVars
<1>4. ChipInv' /\ TypeInv'
  BY <1>1, <1>3 DEF IInv, ChipInv, TypeInv, Labels
<1>5. CallInv'
  BY <1>1, <1>2, <1>3 DEF CallInv
<1>6. SendInv'
  BY <1>3, SendKept DEF IInv, SentLabels
<1>7. QED BY <1>4, <1>5, <1>6 DEF IInv

\* What a try of SELECT_PAGE does to the chip.  With page 1 selected it confirms
\* page 0 only at the price of four faults.
LEMMA SelectEffect ==
    ASSUME IInv, NEW lost \in BOOLEAN, NEW missed \in [1 .. 4 -> BOOLEAN], SelectTry(lost, missed)
    PROVE  /\ Keeps(chip, chip') /\ Aligned(chip, chip')
           /\ IF lost THEN Page(chip') = Page(chip) ELSE Page(chip') = reg.want \div 64
           /\ faults' \in 0 .. MaxFaults /\ (lost => faults' >= faults + 1)
           /\ \/ pc' = reg.after /\ reg' = [reg EXCEPT !.after = "none"]
                 /\ (chip.par = Mac /\ reg.want = Page0Start /\ Page(chip') = 1 => faults' >= 4)
              \/ pc' = "select" /\ reg.tries > 1 /\ reg' = [reg EXCEPT !.tries = reg.tries - 1]
              \/ pc' = "page0" /\ reg.after = "curr1" /\ reg' = [reg EXCEPT !.c = AllBits]
              \/ pc' = "idle" /\ reg.after = "decide" /\ reg.tries = 1 /\ reg' = NoReg
<1> DEFINE written == IF lost THEN LostWrite(chip, reg.want) ELSE WriteReg(chip, CR, reg.want)
           ok == Confirms(written, reg.want, missed)
<1>1. /\ chip \in Chip /\ reg.want \in {Page0Start, Page1Start} /\ reg.want \in Byte
      /\ reg.tries \in Nat /\ reg.tries > 0 /\ reg.after \in {"curr1", "decide"}
      /\ faults \in 0 .. MaxFaults /\ MaxFaults \in Nat
  <2>1. chip \in Chip /\ reg \in Reg /\ faults \in 0 .. MaxFaults /\ MaxFaults \in Nat
    BY NicAssumption DEF IInv, ChipInv, TypeInv
  <2>2. /\ reg.want \in {Page0Start, Page1Start} /\ reg.tries > 0
        /\ reg.after \in {"curr1", "decide"}
    BY DEF IInv, CallInv, SelectTry
  <2>3. Page0Start \in Byte /\ Page1Start \in Byte
    BY DEF Page0Start, Page1Start, Byte
  <2>4. QED BY <2>1, <2>2, <2>3 DEF Reg
<1>2. /\ chip' = AfterChecks(written, reg.want, missed)
      /\ faults' = faults + Count(missed) + (IF lost THEN 1 ELSE 0)
      /\ faults' <= MaxFaults
  BY DEF SelectTry
<1>3. /\ Keeps(chip, written) /\ Aligned(chip, written) /\ written.par = chip.par
      /\ IF lost THEN Page(written) = Page(chip) ELSE Page(written) = reg.want \div 64
  <2>1. CASE lost
    BY <1>1, <2>1, LostKeeps, OnlyBusKeeps DEF Aligned, Moved
  <2>2. CASE ~lost
    BY <1>1, <2>2, CommandKeeps DEF Aligned, Moved, Page
  <2>3. QED BY <2>1, <2>2
<1> HIDE DEF written
<1>4. OnlyBus(written, chip')
  BY <1>2, <1>3, ChecksTyped DEF Keeps
<1>5. Keeps(chip, chip') /\ Aligned(chip, chip') /\ Page(chip') = Page(written)
  BY <1>3, <1>4, OnlyBusKeeps, KeepsTwice
<1>6. faults' \in 0 .. MaxFaults /\ (lost => faults' >= faults + 1)
  BY <1>1, <1>2, CountTyped
<1>7. CASE ok
  <2>1. pc' = reg.after /\ reg' = [reg EXCEPT !.after = "none"]
    BY <1>7 DEF SelectTry, Goto, written
  <2>2. ASSUME chip.par = Mac, reg.want = Page0Start, Page(chip') = 1
        PROVE  faults' >= 4
    <3>1. lost
      BY <1>3, <1>5, <2>2 DEF Page0Start
    <3>2. Count(missed) \in Nat /\ Count(missed) >= 3
      <4>1. missed[2] /\ missed[3] /\ missed[4]
        BY <1>3, <1>5, <1>7, <2>2, WrongConfirmation DEF Keeps
      <4>2. QED BY <4>1, CountTyped
    <3>3. QED BY <1>1, <1>2, <3>1, <3>2
  <2>3. QED BY <1>3, <1>5, <1>6, <2>1, <2>2
<1>8. CASE ~ok
  <2>1. \/ pc' = "select" /\ reg.tries > 1 /\ reg' = [reg EXCEPT !.tries = reg.tries - 1]
        \/ pc' = "page0" /\ reg.after = "curr1" /\ reg' = [reg EXCEPT !.c = AllBits]
        \/ pc' = "idle" /\ reg.after = "decide" /\ reg.tries = 1 /\ reg' = NoReg
    <3>1. CASE reg.tries > 1
      <4>1. reg.tries # 1
        BY <3>1
      <4>2. QED BY <1>8, <3>1, <4>1 DEF SelectTry, Goto, written
    <3>2. CASE reg.tries = 1 /\ reg.after = "curr1"
      BY <1>8, <3>2 DEF SelectTry, Goto, written
    <3>3. CASE reg.tries = 1 /\ reg.after = "decide"
      BY <1>8, <3>3 DEF SelectTry, Return, written
    <3>4. QED BY <1>1, <3>1, <3>2, <3>3
  <2>2. QED BY <1>3, <1>5, <1>6, <2>1
<1>9. QED BY <1>7, <1>8

LEMMA SelectKeeps ==
    ASSUME IInv, NEW lost \in BOOLEAN, NEW missed \in [1 .. 4 -> BOOLEAN], SelectTry(lost, missed)
    PROVE  IInv'
<1>1. /\ pc = "select" /\ UNCHANGED <<shadow, held, arrived, sending, told>>
  BY DEF SelectTry, ringVars, sendVars
<1>2. Keeps(chip, chip') /\ faults' \in 0 .. MaxFaults
  BY SelectEffect
<1>3. ChipInv' /\ chip'.wire = chip.wire /\ chip'.ram = chip.ram
  BY <1>2, ChipKept DEF IInv
<1>4. /\ reg \in Reg /\ reg.tries > 0
      /\ \/ reg.want = Page0Start /\ reg.after = "decide"
         \/ reg.want = Page1Start /\ reg.after = "curr1"
      /\ held # <<>> => held[1].next \in Ring
  BY <1>1 DEF IInv, TypeInv, CallInv
<1>5. /\ reg' \in Reg /\ pc' \in {"select", "curr1", "decide", "page0", "idle"}
      /\ pc' = "select" => /\ reg'.want = reg.want /\ reg'.after = reg.after /\ reg'.tries > 0
  <2>1. CASE pc' = reg.after /\ reg' = [reg EXCEPT !.after = "none"]
    BY <1>4, <2>1 DEF Reg
  <2>2. CASE pc' = "select" /\ reg.tries > 1 /\ reg' = [reg EXCEPT !.tries = reg.tries - 1]
    <3>1. reg.tries - 1 \in Nat /\ reg.tries - 1 > 0
      BY <1>4, <2>2 DEF Reg
    <3> DEFINE n == reg.tries - 1
    <3> HIDE DEF n
    <3>2. reg' = [reg EXCEPT !.tries = n] /\ n \in Nat /\ n > 0
      BY <2>2, <3>1 DEF n
    <3>3. QED BY <1>4, <2>2, <3>2 DEF Reg
  <2>3. CASE pc' = "page0" /\ reg.after = "curr1" /\ reg' = [reg EXCEPT !.c = AllBits]
    BY <1>4, <2>3, RegTyped DEF Reg
  <2>4. CASE pc' = "idle" /\ reg' = NoReg
    BY <2>4, RegTyped
  <2>5. QED BY <2>1, <2>2, <2>3, <2>4, SelectEffect
<1>6. TypeInv'
  BY <1>1, <1>2, <1>5 DEF IInv, TypeInv, Labels
<1>7. CallInv'
  BY <1>1, <1>4, <1>5 DEF CallInv
<1>8. SendInv'
  BY <1>1, <1>3, <1>5, SendKept DEF IInv, SentLabels
<1>9. QED BY <1>3, <1>6, <1>7, <1>8 DEF IInv

\* A step of a poll, a recovery or a read: it owes only what CallInv says of
\* the label it goes to.
Quiet ==
    /\ Keeps(chip, chip') /\ UNCHANGED <<shadow, held, arrived, sending, told>>
    /\ faults' \in 0 .. MaxFaults /\ reg' \in Reg /\ pc' \in Labels \ SentLabels

LEMMA QuietKeeps ==
    ASSUME IInv, Quiet
    PROVE  /\ chip'.ram = chip.ram /\ (CallInv' => IInv')
           /\ pc' \notin {"select", "restart", "header", "bad", "body", "rest", "done"} => IInv'
<1>1. ChipInv' /\ chip'.wire = chip.wire /\ chip'.ram = chip.ram
  BY ChipKept DEF IInv, Quiet
<1>2. TypeInv'
  BY DEF IInv, Quiet, TypeInv
<1>3. SendInv'
  BY <1>1, SendKept DEF IInv, Quiet
<1>4. pc' \notin {"select", "restart", "header", "bad", "body", "rest", "done"} => CallInv'
  BY DEF IInv, Quiet, CallInv, SentLabels
<1>5. QED BY <1>1, <1>2, <1>3, <1>4 DEF IInv

LEMMA CurrKeeps ==
    ASSUME IInv, NEW missed \in BOOLEAN, NEW flipped \in BOOLEAN,
           CurrFirst(missed, flipped) \/ CurrAgain(missed, flipped)
    PROVE  IInv' /\ OnlyBus(chip, chip')
<1> DEFINE v == IF flipped THEN OtherPage(chip.curr) ELSE ReadReg(chip, CURR, missed)
<1>1. PICK label \in {"curr1", "curr2"} : CurrRead(label, missed, flipped)
  BY DEF CurrFirst, CurrAgain
<1>2. /\ pc' \in {"curr2", "page0"} /\ UNCHANGED <<shadow, held, arrived, sending, told>>
      /\ May(IF missed THEN "read" ELSE "curr", missed \/ flipped)
  BY <1>1 DEF CurrFirst, CurrAgain, CurrRead, Goto, ringVars, sendVars
<1>3. faults' \in 0 .. MaxFaults
  BY <1>2, MayTyped DEF IInv
<1>4. v \in Byte
  <2>1. CASE flipped
    <3>1. chip.curr \in Ring
      BY <1>1, <2>1 DEF CurrRead
    <3>2. QED BY <2>1, <3>1, NextPageTyped, RegTyped DEF OtherPage
  <2>2. CASE ~flipped
    BY <2>2, ReadTyped DEF IInv, ChipInv
  <2>3. QED BY <2>1, <2>2
<1>5. /\ chip' = [chip EXCEPT !.bus = v]
      /\ reg' = [reg EXCEPT !.flipped = reg.flipped \/ flipped,
                            !.c = IF label = "curr1" \/ v = reg.c THEN v ELSE AllBits]
  BY <1>1 DEF CurrRead
<1> HIDE DEF v
<1>6. OnlyBus(chip, chip')
  BY <1>4, <1>5, BusTyped DEF IInv, ChipInv
<1>7. reg' \in Reg
  <2> DEFINE now == IF label = "curr1" \/ v = reg.c THEN v ELSE AllBits
             was == reg.flipped \/ flipped
  <2>1. reg \in Reg /\ now \in Byte /\ was \in BOOLEAN
    BY <1>4, RegTyped DEF IInv, TypeInv
  <2>2. reg' = [reg EXCEPT !.flipped = was, !.c = now]
    BY <1>5
  <2> HIDE DEF now, was
  <2>3. QED BY <2>1, <2>2 DEF Reg
<1>8. Quiet
  BY <1>2, <1>3, <1>6, <1>7, OnlyBusKeeps DEF Quiet, Labels, SentLabels
<1>9. QED BY <1>2, <1>6, <1>8, QuietKeeps

LEMMA SelectPage0Keeps ==
    ASSUME IInv, SelectPage0
    PROVE  IInv'
<1>1. SelectTries \in Nat /\ SelectTries > 0
  BY NicAssumption
<1>2. /\ pc' = "select" /\ reg' \in Reg
      /\ reg'.want = Page0Start /\ reg'.after = "decide" /\ reg'.tries > 0
  BY <1>1 DEF SelectPage0, Call, IInv, TypeInv, Reg
<1>3. UNCHANGED <<chip, faults, shadow, held, arrived, sending, told>>
  BY DEF SelectPage0, ringVars, sendVars
<1>4. Quiet
  BY <1>2, <1>3 DEF Quiet, Keeps, SameStore, IInv, ChipInv, TypeInv, Labels, SentLabels
<1>5. CallInv'
  BY <1>2, <1>3 DEF IInv, CallInv
<1>6. QED BY <1>4, <1>5, QuietKeeps

LEMMA DecideKeeps ==
    ASSUME IInv, Decide
    PROVE  IInv'
<1>1. /\ pc' \in {"idle", "packet", "isr1"} /\ reg' \in Reg
      /\ UNCHANGED <<chip, faults, shadow, held, arrived, sending, told>>
  <2>1. reg' \in {NoReg, reg} /\ pc' \in {"idle", "packet", "isr1"}
    BY DEF Decide, Return, Goto
  <2>2. QED BY <2>1, RegTyped DEF Decide, ringVars, sendVars, IInv, TypeInv
<1>2. Quiet
  BY <1>1 DEF Quiet, Keeps, SameStore, IInv, ChipInv, TypeInv, Labels, SentLabels
<1>3. QED BY <1>1, <1>2, QuietKeeps

LEMMA IsrKeeps ==
    ASSUME IInv, NEW missed \in BOOLEAN, IsrFirst(missed) \/ IsrAgain(missed)
    PROVE  IInv' /\ OnlyBus(chip, chip')
<1>1. /\ pc' \in {"idle", "isr2", "monitor"} /\ reg' = NoReg
      /\ chip' = AfterRead(chip, ISR, missed) /\ May("read", missed)
      /\ UNCHANGED <<shadow, held, arrived, sending, told>>
  BY DEF IsrFirst, IsrAgain, IsrRead, Return, Goto, ringVars, sendVars
<1>2. OnlyBus(chip, chip')
  BY <1>1, AfterReadTyped DEF ISR, CURR, IInv, ChipInv
<1>3. Quiet
  BY <1>1, <1>2, OnlyBusKeeps, MayTyped, RegTyped DEF Quiet, IInv, Labels, SentLabels
<1>4. QED BY <1>1, <1>2, <1>3, QuietKeeps

-----------------------------------------------------------------------------
(* The recovery from an overflow.                                          *)

LEMMA MonitorKeeps ==
    ASSUME IInv, MonitorMode
    PROVE  /\ IInv' /\ chip'.cr = chip.cr /\ chip'.ram = chip.ram
           /\ Page(chip) = 0 => Aligned(chip, chip')
<1>1. /\ pc' = "stop" /\ chip' = chip ++ <<RCR, Monitor>>
      /\ UNCHANGED <<reg, faults, shadow, held, arrived, sending, told>>
  BY DEF MonitorMode, Goto, ringVars, sendVars, ++
<1>2. RCR \in 1 .. 15 /\ RCR \notin {PSTART, PSTOP, RBCR0, RBCR1, BNRY} /\ Monitor \in Byte
  BY DEF RCR, PSTART, PSTOP, RBCR0, RBCR1, BNRY, Monitor, Byte
<1>3. Keeps(chip, chip') /\ chip'.cr = chip.cr /\ (Page(chip) = 0 => Aligned(chip, chip'))
  BY <1>1, <1>2, RegisterKeeps DEF IInv, ChipInv
<1>4. Quiet
  BY <1>1, <1>3 DEF Quiet, IInv, TypeInv, Labels, SentLabels
<1>5. QED BY <1>1, <1>3, <1>4, QuietKeeps

LEMMA StopKeeps ==
    ASSUME IInv, NEW lost \in BOOLEAN, StopChip(lost)
    PROVE  /\ IInv' /\ Aligned(chip, chip') /\ chip'.ram = chip.ram
           /\ Page(chip) = 0 => Page(chip') = 0
<1>1. /\ pc' = "restart" /\ reg' = [reg EXCEPT !.step = 1] /\ May("stop", lost)
      /\ chip' = IF lost THEN LostWrite(chip, Page0Stop) ELSE WriteReg(chip, CR, Page0Stop)
      /\ UNCHANGED <<shadow, held, arrived, sending, told>>
  BY DEF StopChip, Goto, ringVars, sendVars
<1>2. Keeps(chip, chip') /\ Aligned(chip, chip') /\ (Page(chip) = 0 => Page(chip') = 0)
  <2>1. CASE lost
    <3>1. Page0Stop \in Byte
      BY DEF Page0Stop, Byte
    <3>2. QED BY <1>1, <2>1, <3>1, LostKeeps, OnlyBusKeeps DEF IInv, ChipInv
  <2>2. CASE ~lost
    BY <1>1, <2>2, CommandKeeps DEF IInv, ChipInv, Page, Page0Stop
  <2>3. QED BY <2>1, <2>2
<1>3. reg' \in Reg /\ reg'.step > 0
  BY <1>1 DEF IInv, TypeInv, Reg
<1>4. Quiet
  BY <1>1, <1>2, <1>3, MayTyped DEF Quiet, IInv, Labels, SentLabels
<1>5. CallInv'
  BY <1>1, <1>3 DEF IInv, CallInv
<1>6. QED BY <1>2, <1>4, <1>5, QuietKeeps

LEMMA RestartWritesTyped ==
    ASSUME shadow \in Ring, NEW step \in 1 .. 8, NEW w, w = RestartWrites[step]
    PROVE  /\ w = <<w[1], w[2]>> /\ w[2] \in Byte
           /\ \/ w[1] = CR /\ w[2] = Page0Start
              \/ /\ w[1] \in 1 .. 15 \ {PSTART, PSTOP}
                 /\ w[1] \in {RBCR0, RBCR1} => w[2] = 0
                 /\ w[1] = BNRY => w[2] = shadow
<1>1. shadow \in Byte /\ {0, Loopback, Page0Start, AllBits, AcceptBroadcast} \subseteq Byte
  BY RegTyped DEF Byte, Loopback, Page0Start, AllBits, AcceptBroadcast
<1>2. \/ w = <<RBCR0, 0>> \/ w = <<RBCR1, 0>> \/ w = <<BNRY, shadow>> \/ w = <<TCR, Loopback>>
      \/ w = <<CR, Page0Start>> \/ w = <<ISR, AllBits>> \/ w = <<TCR, 0>>
      \/ w = <<RCR, AcceptBroadcast>>
  BY DEF RestartWrites
<1>3. /\ {RBCR0, RBCR1, BNRY, TCR, ISR, RCR} \subseteq 1 .. 15 \ {PSTART, PSTOP}
      /\ CR \notin {BNRY, RBCR0, RBCR1} /\ BNRY \notin {RBCR0, RBCR1}
      /\ TCR \notin {BNRY, RBCR0, RBCR1} /\ ISR \notin {BNRY, RBCR0, RBCR1}
      /\ RCR \notin {BNRY, RBCR0, RBCR1}
  BY DEF CR, RBCR0, RBCR1, BNRY, TCR, ISR, RCR, PSTART, PSTOP
<1>4. CASE w = <<CR, Page0Start>>
  BY <1>1, <1>4
<1>5. CASE w = <<BNRY, shadow>>
  BY <1>1, <1>3, <1>5
<1>6. CASE w = <<RBCR0, 0>> \/ w = <<RBCR1, 0>>
  BY <1>1, <1>3, <1>6
<1>7. CASE w = <<ISR, AllBits>> \/ w = <<RCR, AcceptBroadcast>>
  BY <1>1, <1>3, <1>7
<1>8. CASE w = <<TCR, 0>> \/ w = <<TCR, Loopback>>
  BY <1>1, <1>3, <1>8
<1>9. QED BY <1>2, <1>4, <1>5, <1>6, <1>7, <1>8

LEMMA RestartKeeps ==
    ASSUME IInv, NEW lost \in BOOLEAN, RestartChip(lost)
    PROVE  /\ IInv' /\ chip'.ram = chip.ram
           /\ Page(chip) = 0 => Moved(chip, chip', shadow) /\ Page(chip') = 0
<1> DEFINE w == RestartWrites[reg.step]
<1>1. reg \in Reg /\ reg.step \in 1 .. 8 /\ shadow \in Ring /\ chip \in Chip /\ pc = "restart"
  BY DEF RestartChip, IInv, ChipInv, TypeInv, CallInv, Reg
<1>2. /\ May(IF w[1] = BNRY THEN "bnry" ELSE "select", lost)
      /\ chip' = IF lost THEN LostWrite(chip, w[2]) ELSE chip ++ w
      /\ UNCHANGED <<shadow, held, arrived, sending, told>>
      /\ IF reg.step < Len(RestartWrites)
         THEN pc' = "restart" /\ reg' = [reg EXCEPT !.step = reg.step + 1]
         ELSE pc' = "idle" /\ reg' = NoReg
  BY DEF RestartChip, Goto, Return, ringVars, sendVars
<1>3. /\ w = <<w[1], w[2]>> /\ w[2] \in Byte
      /\ \/ w[1] = CR /\ w[2] = Page0Start
         \/ /\ w[1] \in 1 .. 15 \ {PSTART, PSTOP}
            /\ w[1] \in {RBCR0, RBCR1} => w[2] = 0
            /\ w[1] = BNRY => w[2] = shadow
  BY <1>1, RestartWritesTyped
<1>4. Len(RestartWrites) = 8
  BY DEF RestartWrites
<1> HIDE DEF w
<1>5. Keeps(chip, chip') /\ (Page(chip) = 0 => Moved(chip, chip', shadow) /\ Page(chip') = 0)
  <2>1. CASE lost
    BY <1>1, <1>2, <1>3, <2>1, LostKeeps, OnlyBusKeeps DEF Aligned, Moved
  <2>2. CASE ~lost /\ w[1] = CR
    <3>1. chip' = WriteReg(chip, CR, Page0Start)
      <4>1. chip' = chip ++ w /\ w[1] = CR /\ w[2] = Page0Start
        BY <1>2, <1>3, <2>2 DEF CR
      <4>2. chip ++ w = WriteReg(chip, w[1], w[2])
        BY DEF ++
      <4>3. QED BY <4>1, <4>2
    <3>2. QED BY <1>1, <3>1, CommandKeeps DEF Page, Page0Start, Aligned, Moved
  <2>3. CASE ~lost /\ w[1] # CR
    <3>1. chip' = chip ++ <<w[1], w[2]>>
      BY <1>2, <1>3, <2>3
    <3>2. /\ w[1] \in 1 .. 15 /\ w[1] \notin {PSTART, PSTOP} /\ (w[1] = BNRY => w[2] = shadow)
          /\ w[1] \in {RBCR0, RBCR1} => w[2] = 0
      BY <1>1, <1>3, <2>3
    <3>3. QED BY <1>1, <1>3, <3>1, <3>2, RegisterKeeps DEF Page, Aligned, Moved
  <2>4. QED BY <2>1, <2>2, <2>3
<1>6. /\ reg' \in Reg /\ pc' \in {"restart", "idle"} /\ (pc' = "restart" => reg'.step > 0)
  <2>1. CASE reg.step < 8
    <3> DEFINE n == reg.step + 1
    <3>1. n \in 0 .. 8 /\ n > 0 /\ reg' = [reg EXCEPT !.step = n] /\ pc' = "restart"
      BY <1>1, <1>2, <1>4, <2>1
    <3> HIDE DEF n
    <3>2. QED BY <1>1, <3>1 DEF Reg
  <2>2. CASE ~(reg.step < 8)
    BY <1>2, <1>4, <2>2, RegTyped
  <2>3. QED BY <2>1, <2>2
<1>7. Quiet
  BY <1>2, <1>5, <1>6, MayTyped DEF Quiet, IInv, Labels, SentLabels
<1>8. CallInv'
  BY <1>2, <1>6 DEF IInv, CallInv
<1>9. QED BY <1>5, <1>7, <1>8, QuietKeeps

-----------------------------------------------------------------------------
(* The reading of a frame.                                                 *)

LEMMA PacketKeeps ==
    ASSUME IInv, NEW peek \in BOOLEAN, PacketCall(peek)
    PROVE  IInv'
<1>1. NextPage(shadow) \in Ring /\ NextPage(shadow) \in Byte
  BY NextPageTyped, RegTyped DEF IInv, TypeInv
<1>2. HdrRetries \in Nat /\ HdrRetries > 0
  BY NicAssumption
<1>3. /\ pc' = "header" /\ reg' \in Reg /\ reg'.b \in Ring /\ reg'.tries > 0
  BY <1>1, <1>2 DEF PacketCall, Goto, IInv, TypeInv, Reg
<1>4. UNCHANGED <<chip, faults, shadow, held, arrived, sending, told>>
  BY DEF PacketCall, ringVars, sendVars
<1>5. Quiet
  BY <1>3, <1>4 DEF Quiet, Keeps, SameStore, IInv, ChipInv, TypeInv, Labels, SentLabels
<1>6. CallInv'
  BY <1>3, <1>4 DEF IInv, CallInv
<1>7. QED BY <1>5, <1>6, QuietKeeps

\* A transfer from the ring, as the invariants see it.
LEMMA ReadDmaKeeps ==
    ASSUME NEW c \in Chip, Rested(c), NEW page \in Ring, NEW off \in Byte,
           NEW count \in Byte, count > 0, NEW lost \in BOOLEAN,
           NEW e, e = DmaSetUp(c, page, off, count, DmaReadCmd, lost),
           NEW d, d = DmaEnd(e)
    PROVE  /\ Keeps(c, d) /\ (Page(c) = 0 => Aligned(c, d)) /\ d.cr = Page0Start
           /\ HeaderAt(e) \in Header
           /\ HeaderAt(e).pages > 0 => HeaderAt(e) \in Stored /\ c.ram[page] # Poison
           /\ HeaderAt(e) = Poison \/ (HeaderAt(e) = c.ram[page] /\ c.ram[page].part = 0)
<1>1. page \in Byte /\ count \in Word
  BY RegTyped, WordMember DEF Byte
<1>2. /\ d \in Chip /\ Rested(d) /\ SameStore(c, d) /\ SameRing(c, d)
      /\ d.par = c.par /\ d.cr = Page0Start
      /\ ~(lost /\ Page(c) = 1) => SameOne(c, d)
      /\ e \in Chip /\ SameStore(c, e)
      /\ e.dma # "idle" => HighByte(e.crda) = page
  BY <1>1, DmaDone
<1>3. Keeps(c, d) /\ (Page(c) = 0 => Aligned(c, d))
  BY <1>2 DEF Keeps, Aligned, Moved, SameRing, SameOne
<1>4. c.ram[page] \in Token /\ e.ram = c.ram
  BY <1>2 DEF Chip, SameStore
<1>5. HeaderAt(e) = Poison \/ (HeaderAt(e) = c.ram[page] /\ c.ram[page].part = 0)
  BY <1>2, <1>4 DEF HeaderAt, TokenAt
<1>6. ~(Poison.pages > 0)
  BY DEF Poison
<1>7. QED BY <1>2, <1>3, <1>4, <1>5, <1>6, RegTyped DEF Token

LEMMA HeaderKeeps ==
    ASSUME IInv, NEW harm \in {"none", "status", "next"}, NEW lost \in BOOLEAN,
           ReadHeader(harm, lost)
    PROVE  /\ IInv' /\ chip'.cr = Page0Start /\ chip'.ram = chip.ram
           /\ Page(chip) = 0 => Aligned(chip, chip')
<1> DEFINE c == DmaSetUp(chip, reg.b, 0, 4, DmaReadCmd, lost)
           h == IF harm = "next" THEN [HeaderAt(c) EXCEPT !.next = 255] ELSE HeaderAt(c)
<1>1. /\ pc = "header" /\ reg \in Reg /\ reg.b \in Ring /\ reg.tries > 0
      /\ chip \in Chip /\ Rested(chip)
  BY DEF ReadHeader, IInv, ChipInv, TypeInv, CallInv
<1>2. /\ chip' = DmaEnd(c) /\ UNCHANGED <<shadow, held, arrived, sending, told>>
      /\ faults' = faults + (IF harm = "none" THEN 0 ELSE 1) + (IF lost THEN 1 ELSE 0)
      /\ faults' <= MaxFaults
  BY DEF ReadHeader, sendVars
<1>3. \/ HeaderGood(h, harm # "status") /\ pc' = "body" /\ reg' = [reg EXCEPT !.hdr = h]
      \/ pc' = "header" /\ reg.tries > 1 /\ reg' = [reg EXCEPT !.tries = reg.tries - 1]
      \/ pc' = "bad" /\ reg' = [reg EXCEPT !.hdr = h]
  <2>1. reg.tries \in Nat /\ (reg.tries > 1 \/ reg.tries = 1)
    BY <1>1 DEF Reg
  <2>2. CASE HeaderGood(h, harm # "status")
    BY <2>2 DEF ReadHeader, Goto
  <2>3. CASE ~HeaderGood(h, harm # "status") /\ reg.tries > 1
    <3>1. reg.tries # 1
      BY <2>3
    <3>2. QED BY <2>3, <3>1 DEF ReadHeader, Goto
  <2>4. CASE ~HeaderGood(h, harm # "status") /\ reg.tries = 1
    BY <2>4 DEF ReadHeader, Goto
  <2>5. QED BY <2>1, <2>2, <2>3, <2>4
<1>4. /\ Keeps(chip, chip') /\ (Page(chip) = 0 => Aligned(chip, chip'))
      /\ chip'.cr = Page0Start /\ HeaderAt(c) \in Header
      /\ HeaderAt(c).pages > 0 => HeaderAt(c) \in Stored /\ chip.ram[reg.b] # Poison
  <2> DEFINE off == 0
             count == 4
  <2>1. off \in Byte /\ count \in Byte /\ count > 0
    BY DEF Byte
  <2>2. c = DmaSetUp(chip, reg.b, off, count, DmaReadCmd, lost) /\ chip' = DmaEnd(c)
    BY <1>2
  <2> HIDE DEF c, off, count
  <2>3. QED BY <1>1, <2>1, <2>2, ReadDmaKeeps
<1>5. faults' \in 0 .. MaxFaults
  BY <1>2, NicAssumption DEF IInv, TypeInv
<1> HIDE DEF c
<1>6. /\ h \in Header
      /\ HeaderGood(h, harm # "status") =>
            h.next \in Ring /\ h.pages > 0 /\ chip.ram[reg.b] # Poison
  <2>1. h \in Header /\ h.pages = HeaderAt(c).pages
    BY <1>4 DEF Header, Byte
  <2>2. HeaderGood(h, harm # "status") => h.next \in Ring /\ h.pages > 0
    BY <2>1 DEF HeaderGood, NextValid, Header, Byte
  <2>3. QED BY <1>4, <2>1, <2>2
<1> HIDE DEF h
<1>7. CASE HeaderGood(h, harm # "status") /\ pc' = "body" /\ reg' = [reg EXCEPT !.hdr = h]
  <2>1. reg' \in Reg /\ reg'.b = reg.b /\ reg'.hdr = h
    BY <1>1, <1>6, <1>7 DEF Reg
  <2>2. Quiet
    BY <1>2, <1>4, <1>5, <1>7, <2>1 DEF Quiet, Labels, SentLabels
  <2>3. CallInv'
    BY <1>1, <1>2, <1>6, <1>7, <2>1, <2>2, QuietKeeps DEF IInv, CallInv
  <2>4. QED BY <1>4, <2>2, <2>3, QuietKeeps
<1>8. CASE pc' = "header" /\ reg.tries > 1 /\ reg' = [reg EXCEPT !.tries = reg.tries - 1]
  <2> DEFINE n == reg.tries - 1
  <2>1. n \in Nat /\ n > 0
    BY <1>1, <1>8 DEF Reg
  <2>2. reg' = [reg EXCEPT !.tries = n]
    BY <1>8
  <2> HIDE DEF n
  <2>3. reg' \in Reg /\ reg'.b = reg.b /\ reg'.tries > 0
    BY <1>1, <2>1, <2>2 DEF Reg
  <2>4. Quiet
    BY <1>2, <1>4, <1>5, <1>8, <2>3 DEF Quiet, Labels, SentLabels
  <2>5. CallInv'
    BY <1>1, <1>2, <1>8, <2>3 DEF IInv, CallInv
  <2>6. QED BY <1>4, <2>4, <2>5, QuietKeeps
<1>9. CASE pc' = "bad" /\ reg' = [reg EXCEPT !.hdr = h]
  <2>1. reg' \in Reg /\ reg'.b = reg.b
    BY <1>1, <1>6, <1>9 DEF Reg
  <2>2. Quiet
    BY <1>2, <1>4, <1>5, <1>9, <2>1 DEF Quiet, Labels, SentLabels
  <2>3. CallInv'
    BY <1>1, <1>2, <1>9, <2>1 DEF IInv, CallInv
  <2>4. QED BY <1>4, <2>2, <2>3, QuietKeeps
<1>10. QED BY <1>3, <1>7, <1>8, <1>9

LEMMA ReturnKeeps ==
    ASSUME IInv, Keeps(chip, chip'), shadow' \in Ring, held' \in Seq(Token),
           held' # <<>> => held'[1].next \in Ring, UNCHANGED <<arrived, sending, told>>,
           faults' \in 0 .. MaxFaults, reg' \in Reg, pc' = "idle"
    PROVE  IInv' /\ chip'.ram = chip.ram
<1>1. ChipInv' /\ chip'.wire = chip.wire /\ chip'.ram = chip.ram
  BY ChipKept DEF IInv
<1>2. TypeInv'
  BY DEF IInv, TypeInv, Labels
<1>3. SendInv'
  BY <1>1, SendKept DEF IInv, SentLabels
<1>4. CallInv'
  BY DEF CallInv
<1>5. QED BY <1>1, <1>2, <1>3, <1>4 DEF IInv

LEMMA ReleaseKeeps ==
    ASSUME IInv, NEW bnry \in Ring, NEW lost \in BOOLEAN, Release(bnry, lost)
    PROVE  /\ Keeps(chip, chip') /\ chip'.cr = chip.cr
           /\ Page(chip) = 0 => Moved(chip, chip', bnry)
           /\ shadow' = bnry /\ faults' \in 0 .. MaxFaults
<1> DEFINE c == IF lost THEN LostWrite(chip, bnry) ELSE WriteReg(chip, BNRY, bnry)
<1>1. chip' = WriteReg(c, ISR, DoneBits) /\ shadow' = bnry /\ May("bnry", lost)
  BY DEF Release
<1>2. /\ bnry \in Byte /\ DoneBits \in Byte
      /\ BNRY \in 1 .. 15 /\ BNRY \notin {PSTART, PSTOP} /\ BNRY \notin {RBCR0, RBCR1}
      /\ ISR \in 1 .. 15 /\ ISR \notin {PSTART, PSTOP} /\ ISR \notin {RBCR0, RBCR1}
      /\ BNRY # ISR
  BY RegTyped
     DEF DoneBits, PRX, RXE, Byte, BNRY, ISR, PSTART, PSTOP, RBCR0, RBCR1
<1>3. chip \in Chip
  BY DEF IInv, ChipInv
<1>4. Keeps(chip, c) /\ c.cr = chip.cr /\ (Page(chip) = 0 => Moved(chip, c, bnry))
  <2>1. CASE lost
    BY <1>2, <1>3, <2>1, LostKeeps, OnlyBusKeeps DEF OnlyBus, SameRun, Aligned, Moved
  <2>2. CASE ~lost
    <3>1. c = chip ++ <<BNRY, bnry>>
      BY <2>2 DEF ++
    <3> HIDE DEF c
    <3>2. QED BY <1>2, <1>3, <3>1, RegisterKeeps
  <2>3. QED BY <2>1, <2>2
<1> HIDE DEF c
<1>5. Keeps(c, chip') /\ chip'.cr = c.cr /\ (Page(c) = 0 => Aligned(c, chip'))
  <2>1. chip' = c ++ <<ISR, DoneBits>> /\ c \in Chip
    BY <1>1, <1>4 DEF ++, Keeps
  <2>2. QED BY <1>2, <2>1, RegisterKeeps
<1>6. faults' \in 0 .. MaxFaults
  BY <1>1, MayTyped DEF IInv
<1>7. QED BY <1>1, <1>4, <1>5, <1>6, KeepsTwice DEF Page

LEMMA BadKeeps ==
    ASSUME IInv, NEW lost \in BOOLEAN, BadHeader(lost)
    PROVE  /\ IInv' /\ chip'.cr = chip.cr /\ chip'.ram = chip.ram
           /\ Page(chip) = 0 => Moved(chip, chip', shadow')
<1> DEFINE bnry == IF NextValid(reg.hdr) THEN Before(reg.hdr.next) ELSE reg.b
<1>1. bnry \in Ring
  <2>1. reg.b \in Ring
    BY DEF BadHeader, IInv, CallInv
  <2>2. NextValid(reg.hdr) => Before(reg.hdr.next) \in Ring
    BY NextPageTyped DEF NextValid
  <2>3. QED BY <2>1, <2>2
<1>2. /\ Release(bnry, lost) /\ pc' = "idle" /\ reg' = NoReg
      /\ UNCHANGED <<held, arrived, sending, told>>
  BY DEF BadHeader, Return, sendVars
<1> HIDE DEF bnry
<1>3. /\ Keeps(chip, chip') /\ chip'.cr = chip.cr
      /\ Page(chip) = 0 => Moved(chip, chip', shadow')
      /\ shadow' \in Ring /\ faults' \in 0 .. MaxFaults
  BY <1>1, <1>2, ReleaseKeeps
<1>4. held \in Seq(Token) /\ (held # <<>> => held[1].next \in Ring)
  BY DEF IInv, TypeInv, CallInv
<1>5. QED BY <1>2, <1>3, <1>4, RegTyped, ReturnKeeps

LEMMA ReadDoneKeeps ==
    ASSUME IInv, NEW lost \in BOOLEAN, ReadDone(lost)
    PROVE  /\ IInv' /\ chip'.cr = chip.cr /\ chip'.ram = chip.ram
           /\ Page(chip) = 0 => Moved(chip, chip', shadow')
<1>1. Before(reg.hdr.next) \in Ring
  BY NextPageTyped DEF ReadDone, IInv, CallInv
<1>2. /\ Release(Before(reg.hdr.next), lost) /\ pc' = "idle" /\ reg' = NoReg
      /\ UNCHANGED <<held, arrived, sending, told>>
  BY DEF ReadDone, Return, sendVars
<1>3. /\ Keeps(chip, chip') /\ chip'.cr = chip.cr
      /\ Page(chip) = 0 => Moved(chip, chip', shadow')
      /\ shadow' \in Ring /\ faults' \in 0 .. MaxFaults
  BY <1>1, <1>2, ReleaseKeeps
<1>4. held \in Seq(Token) /\ (held # <<>> => held[1].next \in Ring)
  BY DEF IInv, TypeInv, CallInv
<1>5. QED BY <1>2, <1>3, <1>4, RegTyped, ReturnKeeps

LEMMA CommitKeeps ==
    ASSUME IInv, NEW lost \in BOOLEAN, CommitPacket(lost)
    PROVE  /\ IInv' /\ chip'.cr = chip.cr /\ chip'.ram = chip.ram
           /\ Page(chip) = 0 => Moved(chip, chip', shadow')
<1>1. Before(held[1].next) \in Ring
  BY NextPageTyped DEF CommitPacket, IInv, CallInv
<1>2. /\ Release(Before(held[1].next), lost) /\ pc' = "idle" /\ reg' = reg /\ held' = <<>>
      /\ UNCHANGED <<arrived, sending, told>>
  BY DEF CommitPacket, sendVars
<1>3. /\ Keeps(chip, chip') /\ chip'.cr = chip.cr
      /\ Page(chip) = 0 => Moved(chip, chip', shadow')
      /\ shadow' \in Ring /\ faults' \in 0 .. MaxFaults
  BY <1>1, <1>2, ReleaseKeeps
<1>4. reg' \in Reg /\ held' \in Seq(Token)
  BY <1>2 DEF IInv, TypeInv
<1>5. QED BY <1>2, <1>3, <1>4, ReturnKeeps

LEMMA PeekDoneKeeps ==
    ASSUME IInv, PeekDone
    PROVE  IInv'
<1>1. /\ pc' = "idle" /\ reg' = NoReg /\ held' = reg.body
      /\ UNCHANGED <<chip, shadow, arrived, faults, sending, told>>
  BY DEF PeekDone, Return, sendVars
<1>2. reg.body \in Seq(Token) /\ reg.body[1].next \in Ring
  BY DEF PeekDone, IInv, TypeInv, CallInv, Reg
<1>3. Keeps(chip, chip') /\ shadow' \in Ring /\ faults' \in 0 .. MaxFaults
  BY <1>1 DEF Keeps, SameStore, IInv, ChipInv, TypeInv
<1>4. QED BY <1>1, <1>2, <1>3, RegTyped, ReturnKeeps

\* The pages of a body are tokens, the first of them the one it starts at.
LEMMA PagesTyped ==
    ASSUME ChipInv, NEW from \in Int, NEW count \in Nat
    PROVE  /\ ReadPages(from, count) \in Seq(Token) /\ Len(ReadPages(from, count)) = count
           /\ count > 0 => ReadPages(from, count)[1] = TokenAt(chip, from)
<1>1. \A p : TokenAt(chip, p) \in Token
  BY RegTyped DEF TokenAt, ChipInv, Chip
<1>2. from + 1 - 1 = from
  OBVIOUS
<1>3. QED BY <1>1, <1>2 DEF ReadPages

LEMMA BodyKeeps ==
    ASSUME IInv, NEW lost \in BOOLEAN, ReadBody(lost)
    PROVE  /\ IInv' /\ chip'.cr = Page0Start /\ chip'.ram = chip.ram
           /\ Page(chip) = 0 => Aligned(chip, chip')
<1> DEFINE count == FirstPages
           pages == ReadPages(reg.b, FirstPages)
           four == 4
<1>1. /\ pc = "body" /\ reg \in Reg /\ reg.b \in Ring /\ reg.hdr.next \in Ring
      /\ reg.hdr.pages \in Byte /\ reg.hdr.pages > 0
      /\ chip \in Chip /\ Rested(chip) /\ chip.ram[reg.b] \in Stored
  BY DEF ReadBody, IInv, ChipInv, TypeInv, CallInv, Reg, Header, Chip, Token
<1>2. count \in Byte /\ count > 0 /\ count <= reg.hdr.pages
  <2> DEFINE room == PStop - reg.b
             all == reg.hdr.pages
  <2>1. room > 0 /\ room \in Int
    BY <1>1, RingAssumption DEF Ring
  <2>2. count = IF all < room THEN all ELSE room
    BY DEF FirstPages
  <2>3. all \in Byte /\ all > 0
    BY <1>1
  <2> HIDE DEF room, count, all
  <2>4. count \in Byte /\ count > 0 /\ count <= all
    BY <2>1, <2>2, <2>3 DEF Byte
  <2>5. QED BY <2>4 DEF all
<1>3. /\ chip' = DmaEnd(DmaSetUp(chip, reg.b, four, count, DmaReadCmd, lost))
      /\ reg' = [reg EXCEPT !.body = pages] /\ May("select", lost)
      /\ pc' = IF count < reg.hdr.pages THEN "rest" ELSE "done"
      /\ UNCHANGED <<shadow, held, arrived, sending, told>>
  BY DEF ReadBody, Goto, ringVars, sendVars
<1>4. four \in Byte
  BY DEF Byte
<1>5. pages \in Seq(Token) /\ Len(pages) = count /\ pages # <<>> /\ pages[1].next \in Ring
  <2>1. count \in Nat /\ reg.b \in Int
    BY <1>1, <1>2, RingAssumption DEF Byte, Ring
  <2>2. pages \in Seq(Token) /\ Len(pages) = count /\ pages[1] = TokenAt(chip, reg.b)
    BY <1>2, <2>1, PagesTyped DEF IInv
  <2>3. TokenAt(chip, reg.b).next \in Ring
    BY <1>1 DEF TokenAt, Stored
  <2>4. QED BY <1>2, <2>1, <2>2, <2>3
<1> HIDE DEF count, pages, four
<1>6. Keeps(chip, chip') /\ (Page(chip) = 0 => Aligned(chip, chip')) /\ chip'.cr = Page0Start
  BY <1>1, <1>2, <1>3, <1>4, ReadDmaKeeps
<1>7. /\ reg' \in Reg /\ reg'.b = reg.b /\ reg'.hdr = reg.hdr /\ reg'.body = pages
  BY <1>1, <1>3, <1>5 DEF Reg
<1>8. Quiet
  BY <1>3, <1>6, <1>7, MayTyped DEF Quiet, IInv, Labels, SentLabels
<1>9. CallInv'
  BY <1>1, <1>2, <1>3, <1>5, <1>7 DEF IInv, CallInv
<1>10. QED BY <1>6, <1>8, <1>9, QuietKeeps

LEMMA RestKeeps ==
    ASSUME IInv, NEW lost \in BOOLEAN, ReadRest(lost)
    PROVE  /\ IInv' /\ chip'.cr = Page0Start /\ chip'.ram = chip.ram
           /\ Page(chip) = 0 => Aligned(chip, chip')
<1> DEFINE count == reg.hdr.pages - Len(reg.body)
           pages == ReadPages(PStart, count)
           zero == 0
<1>1. /\ pc = "rest" /\ reg \in Reg /\ reg.b \in Ring /\ reg.hdr.next \in Ring
      /\ reg.hdr.pages \in Byte /\ reg.hdr.pages > 0
      /\ reg.body \in Seq(Token) /\ reg.body # <<>> /\ reg.body[1].next \in Ring
      /\ Len(reg.body) < reg.hdr.pages /\ chip \in Chip /\ Rested(chip)
  BY DEF ReadRest, IInv, ChipInv, TypeInv, CallInv, Reg, Header
<1>2. count \in Byte /\ count > 0
  <2>1. Len(reg.body) \in Nat
    BY <1>1
  <2>2. \A p \in Byte, n \in Nat : n < p => p - n \in Byte /\ p - n > 0
    BY DEF Byte
  <2>3. QED BY <1>1, <2>1, <2>2
<1>3. /\ chip' = DmaEnd(DmaSetUp(chip, PStart, zero, count, DmaReadCmd, lost))
      /\ reg' = [reg EXCEPT !.body = reg.body \o pages] /\ May("select", lost) /\ pc' = "done"
      /\ UNCHANGED <<shadow, held, arrived, sending, told>>
  BY DEF ReadRest, Goto, ringVars, sendVars
<1>4. zero \in Byte /\ PStart \in Ring /\ PStart \in Int
  BY RingAssumption DEF Byte, Ring
<1>5. pages \in Seq(Token)
  <2> HIDE DEF count
  <2>1. count \in Nat
    BY <1>2 DEF Byte
  <2>2. QED BY <1>4, <2>1, PagesTyped DEF IInv
<1> HIDE DEF count, pages, zero
<1> DEFINE body == reg.body \o pages
<1>6. body \in Seq(Token) /\ body # <<>> /\ body[1].next \in Ring
  BY <1>1, <1>5
<1> HIDE DEF body
<1>7. Keeps(chip, chip') /\ (Page(chip) = 0 => Aligned(chip, chip')) /\ chip'.cr = Page0Start
  BY <1>1, <1>2, <1>3, <1>4, ReadDmaKeeps
<1>8. reg' = [reg EXCEPT !.body = body]
  BY <1>3 DEF body
<1>9. reg' \in Reg /\ reg'.b = reg.b /\ reg'.hdr = reg.hdr /\ reg'.body = body
  BY <1>1, <1>6, <1>8 DEF Reg
<1>10. Quiet
  BY <1>3, <1>7, <1>9, MayTyped DEF Quiet, IInv, Labels, SentLabels
<1>11. CallInv'
  BY <1>1, <1>3, <1>6, <1>9 DEF IInv, CallInv
<1>12. QED BY <1>7, <1>10, <1>11, QuietKeeps

-----------------------------------------------------------------------------
(* SEND_FRAME.                                                             *)

LEMMA SendFrameKeeps ==
    ASSUME IInv, SendFrame
    PROVE  IInv'
<1>1. PICK bytes \in Lengths :
         /\ pc' = "write" /\ reg' = [NoReg EXCEPT !.tries = TxTries, !.before = faults]
         /\ sending' = [NoFrame EXCEPT !.id = sending.id + 1, !.bytes = bytes]
         /\ UNCHANGED <<chip, faults, shadow, held, arrived, told>>
  BY DEF SendFrame, Goto, ringVars
<1>2. sending.id \in Nat /\ chip.wire.id \in Nat /\ chip.wire.id <= sending.id
  BY DEF IInv, TypeInv, ChipInv, SendInv, Frame, Chip
<1>3. /\ sending' \in Frame /\ sending'.id = sending.id + 1
      /\ sending'.bytes > 0 /\ sending'.prefix /\ sending'.rest
  <2> DEFINE n == sending.id + 1
  <2>0. bytes \in Int /\ bytes > 0 /\ bytes \in Word
    <3>1. bytes \in Int /\ bytes > 0 /\ bytes <= 65535
      BY NicAssumption
    <3>2. QED BY <3>1, WordMember
  <2>1. n \in Nat /\ sending' = [NoFrame EXCEPT !.id = n, !.bytes = bytes]
    BY <1>1, <1>2
  <2> HIDE DEF n
  <2>2. /\ sending' \in Frame /\ sending'.id = n
        /\ sending'.bytes > 0 /\ sending'.prefix /\ sending'.rest
    BY <2>0, <2>1 DEF NoFrame, Frame
  <2>3. QED BY <2>2 DEF n
<1>4. reg' \in Reg /\ reg'.tries > 0 /\ reg'.before = faults /\ faults \in Nat
  <2>1. TxTries \in Nat /\ TxTries > 0
    BY NicAssumption
  <2>2. faults \in Nat
    BY DEF IInv, TypeInv
  <2>3. QED BY <1>1, <2>1, <2>2, RegTyped DEF Reg
<1>5. ChipInv' /\ TypeInv'
  BY <1>1, <1>3, <1>4 DEF IInv, ChipInv, TypeInv, Labels
<1>6. CallInv'
  BY <1>1, <1>4 DEF IInv, CallInv
<1>7. SendInv'
  BY <1>1, <1>2, <1>3, <1>4 DEF SendInv
<1>8. QED BY <1>5, <1>6, <1>7 DEF IInv

\* The frame is written and its headers are read back.
LEMMA WriteEffect ==
    ASSUME IInv, NEW harm \in {"none", "prefix", "rest"}, NEW lost \in BOOLEAN,
           WriteFrame(harm, lost)
    PROVE  /\ ChipInv' /\ chip'.ram = chip.ram /\ chip'.wire = chip.wire
           /\ chip'.tx.id = sending.id /\ chip'.tx.prefix = (harm # "prefix")
           /\ harm = "none" => chip'.tx = sending
           /\ chip'.cr = Page0Start
           /\ ~(lost /\ Page(chip) = 1) => Aligned(chip, chip')
<1> DEFINE page == TxPage  zero == 0  length == sending.bytes  fortyTwo == 42  no == FALSE
           set == DmaSetUp(chip, page, zero, length, DmaWriteCmd, lost)
           c == DmaEnd(set)
           t == [sending EXCEPT !.prefix = harm # "prefix", !.rest = harm # "rest"]
           e == [c EXCEPT !.tx = t]
           check == DmaSetUp(e, page, zero, fortyTwo, DmaReadCmd, no)
<1>1. chip' = DmaEnd(check)
  BY DEF WriteFrame
<1>2. /\ page \in Byte /\ zero \in Byte /\ length \in Word /\ length > 0
      /\ fortyTwo \in Word /\ fortyTwo > 0 /\ no \in BOOLEAN /\ ~no
      /\ sending.prefix /\ sending.rest
  <2>1. page \in Byte /\ zero \in Byte /\ fortyTwo \in Word /\ fortyTwo > 0 /\ no \in BOOLEAN /\ ~no
    BY WordMember DEF TxPage, Byte
  <2>2. length \in Word
    BY DEF IInv, TypeInv, Frame
  <2>3. pc = "write" /\ length > 0 /\ sending.prefix /\ sending.rest
    BY DEF IInv, SendInv, WriteFrame
  <2>4. QED BY <2>1, <2>2, <2>3
<1> HIDE DEF page, zero, length, fortyTwo, no
<1>3. chip \in Chip /\ Rested(chip) /\ Bounded(chip) /\ sending \in Frame
  BY DEF IInv, ChipInv, TypeInv
<1>4. /\ t \in Frame /\ t.id = sending.id /\ t.prefix = (harm # "prefix")
      /\ harm = "none" => t = sending
  BY <1>2, <1>3 DEF Frame
<1> HIDE DEF t
<1>5. /\ c \in Chip /\ Rested(c) /\ SameStore(chip, c) /\ SameRing(chip, c)
      /\ c.par = chip.par /\ c.cr = Page0Start
      /\ ~(lost /\ Page(chip) = 1) => SameOne(chip, c)
  BY <1>2, <1>3, DmaDone
<1> HIDE DEF c
<1>6. /\ e \in Chip
  BY <1>4, <1>5, RunTyped
<1>7. /\ e.ram = c.ram /\ e.wire = c.wire /\ e.tx = t /\ e.cr = Page0Start
      /\ SameOne(c, e) /\ SameRing(c, e) /\ Rested(e)
  BY <1>4, <1>5, <1>6 DEF Chip, SameOne, SameRing, Rested
<1> HIDE DEF e
<1>8. Page(e) = 0
  BY <1>7 DEF Page, Page0Start
<1>9. /\ chip' \in Chip /\ Rested(chip') /\ SameStore(e, chip') /\ SameRing(e, chip')
      /\ chip'.cr = Page0Start /\ SameOne(e, chip')
  <2> DEFINE v == DmaEnd(check)
  <2>1. /\ v \in Chip /\ Rested(v) /\ SameStore(e, v) /\ SameRing(e, v)
        /\ v.cr = Page0Start /\ (~(no /\ Page(e) = 1) => SameOne(e, v))
    BY <1>2, <1>6, <1>7, DmaDone
  <2>2. chip' = v
    BY <1>1
  <2> HIDE DEF v
  <2>3. QED BY <1>8, <2>1, <2>2
<1>10. QED
  BY <1>3, <1>4, <1>5, <1>7, <1>9
     DEF ChipInv, Bounded, SameStore, SameRing, SameOne, Aligned, Moved

LEMMA WriteKeeps ==
    ASSUME IInv, NEW harm \in {"none", "prefix", "rest"}, NEW lost \in BOOLEAN,
           WriteFrame(harm, lost)
    PROVE  /\ IInv'
           /\ pc' = "idle" => told' = "failed" /\ chip.wire.id # sending.id
<1> DEFINE t == [sending EXCEPT !.prefix = harm # "prefix", !.rest = harm # "rest"]
<1>1. /\ ChipInv' /\ chip'.ram = chip.ram /\ chip'.wire = chip.wire
      /\ chip'.tx.id = sending.id /\ chip'.tx.prefix = (harm # "prefix")
      /\ harm = "none" => chip'.tx = sending
      /\ chip'.cr = Page0Start
  BY WriteEffect
<1>2. /\ pc = "write" /\ UNCHANGED <<shadow, held, arrived, sending>>
      /\ faults' = faults + (IF harm = "none" THEN 0 ELSE 1) + (IF lost THEN 1 ELSE 0)
      /\ faults' <= MaxFaults
  BY DEF WriteFrame, ringVars
<1>4. /\ reg \in Reg /\ reg.tries \in Nat /\ reg.tries > 0
      /\ chip.wire.id \in Nat /\ sending.id \in Nat /\ chip.wire.id < sending.id
      /\ sending.bytes > 0 /\ sending.prefix /\ sending.rest
      /\ reg.before \in Nat /\ reg.before <= faults /\ faults \in Nat
  BY <1>2 DEF IInv, ChipInv, TypeInv, CallInv, SendInv, Reg, Frame, Chip, SentLabels
<1>3. /\ faults' \in 0 .. MaxFaults /\ reg.before <= faults'
      /\ faults' = reg.before => harm = "none"
  <2> DEFINE h == IF harm = "none" THEN 0 ELSE 1
             l == IF lost THEN 1 ELSE 0
  <2>1. /\ h \in 0 .. 1 /\ l \in 0 .. 1 /\ (h = 0 => harm = "none")
        /\ faults' = faults + h + l
    BY <1>2
  <2> HIDE DEF h, l
  <2>2. MaxFaults \in Nat
    BY NicAssumption
  <2>3. /\ reg.before \in Nat /\ reg.before <= faults /\ faults \in Nat
        /\ faults' <= MaxFaults
    BY <1>2, <1>4
  <2>4. /\ faults' \in 0 .. MaxFaults /\ reg.before <= faults'
        /\ faults' = reg.before => h = 0
    BY <2>1, <2>2, <2>3
  <2>5. QED BY <2>1, <2>4
<1>5. t.prefix = (harm # "prefix")
  BY DEF IInv, TypeInv, Frame
<1>6. Page(chip') = 0
  BY <1>1 DEF Page, Page0Start
<1>7. CASE t.prefix
  <2>1. pc' = "length" /\ UNCHANGED <<reg, told>>
    BY <1>7 DEF WriteFrame, PrefixRight, Goto
  <2>2. TypeInv' /\ CallInv'
    BY <1>2, <1>3, <2>1 DEF IInv, TypeInv, CallInv, Labels
  <2>3. SendInv'
    BY <1>1, <1>2, <1>3, <1>4, <1>5, <1>6, <1>7, <2>1 DEF SendInv, Buffered, Page
  <2>4. QED BY <1>1, <2>1, <2>2, <2>3 DEF IInv
<1>8. CASE ~t.prefix /\ reg.tries > 1
  <2> DEFINE n == reg.tries - 1
  <2>1. reg.tries # 1 /\ n \in Nat /\ n > 0
    BY <1>4, <1>8
  <2>2. pc' = "write" /\ told' = told /\ reg' = [reg EXCEPT !.tries = n]
    BY <1>8, <2>1 DEF WriteFrame, PrefixRight, Goto
  <2> HIDE DEF n
  <2>3. reg' \in Reg /\ reg'.tries > 0 /\ reg'.before = reg.before
    BY <1>4, <2>1, <2>2 DEF Reg
  <2>4. TypeInv' /\ CallInv'
    BY <1>2, <1>3, <2>2, <2>3 DEF IInv, TypeInv, CallInv, Labels
  <2>5. SendInv'
    BY <1>1, <1>2, <1>3, <1>4, <2>2, <2>3 DEF SendInv
  <2>6. QED BY <1>1, <2>2, <2>4, <2>5 DEF IInv
<1>9. CASE ~t.prefix /\ reg.tries = 1
  <2>1. pc' = "idle" /\ reg' = NoReg /\ told' = "failed"
    BY <1>9 DEF WriteFrame, PrefixRight, Fail, Return
  <2>2. TypeInv' /\ CallInv'
    BY <1>2, <1>3, <2>1, RegTyped DEF IInv, TypeInv, CallInv, Labels
  <2>3. SendInv'
    BY <1>1, <1>2, <2>1, SendKept DEF IInv, SentLabels
  <2>4. QED BY <1>1, <1>4, <2>1, <2>2, <2>3 DEF IInv
<1>10. QED BY <1>4, <1>7, <1>8, <1>9

\* How many of n cycles were faulty.
LEMMA CountSome ==
    ASSUME NEW n \in Nat, NEW missed \in [1 .. n -> BOOLEAN]
    PROVE  Count(missed) \in Nat /\ \A k \in 1 .. n : missed[k] => Count(missed) >= 1
<1> DEFINE S == {k \in 1 .. n : missed[k]}
<1>1. Count(missed) = Cardinality(S)
  BY DEF Count
<1>2. IsFiniteSet(S)
  <2>1. IsFiniteSet(1 .. n)
    <3>1. 1 \in Int /\ n \in Int
      OBVIOUS
    <3>2. QED BY <3>1, FS_Interval, Zenon
  <2>2. S \in SUBSET (1 .. n)
    OBVIOUS
  <2> HIDE DEF S
  <2>3. QED BY <2>1, <2>2, FS_Subset
<1>3. Cardinality(S) \in Nat
  <2> HIDE DEF S
  <2>1. QED BY <1>2, FS_CardinalityType
<1>4. ASSUME NEW k \in 1 .. n, missed[k]
      PROVE  Cardinality(S) >= 1
  <2>1. S # {}
    BY <1>4
  <2> HIDE DEF S
  <2>2. Cardinality(S) # 0
    BY <1>2, <2>1, FS_EmptySet
  <2>3. QED BY <1>3, <2>2
<1>5. QED BY <1>1, <1>3, <1>4

LEMMA LengthEffect ==
    ASSUME IInv, NEW lost \in [1 .. 3 -> BOOLEAN], SetLength(lost)
    PROVE  /\ Keeps(chip, chip') /\ Aligned(chip, chip') /\ Page(chip') = 0
           /\ faults' \in 0 .. MaxFaults /\ faults' >= faults
           /\ faults' = faults => chip'.tpsr = TxPage /\ chip'.tbcr = sending.bytes
<1> DEFINE low == LowByte(sending.bytes)
           high == HighByte(sending.bytes)
           l1 == lost[1]  l2 == lost[2]  l3 == lost[3]
           c1 == MayLose(chip, TBCR0, low, l1)
           c2 == MayLose(c1, TBCR1, high, l2)
<1>1. chip' = MayLose(c2, TPSR, TxPage, l3)
  BY DEF SetLength
<1>2. /\ pc = "length" /\ chip \in Chip /\ Page(chip) = 0 /\ chip.tbcr \in Word
      /\ sending.bytes \in Word /\ faults \in Nat /\ MaxFaults \in Nat
  BY NicAssumption DEF SetLength, IInv, ChipInv, SendInv, Buffered, Chip, TypeInv, Frame
<1>3. /\ low \in Byte /\ high \in Byte /\ TxPage \in Byte
      /\ l1 \in BOOLEAN /\ l2 \in BOOLEAN /\ l3 \in BOOLEAN
  BY <1>2, WordBytes DEF TxPage, Byte
<1>4. /\ faults' \in 0 .. MaxFaults /\ faults' >= faults
      /\ faults' = faults => ~l1 /\ ~l2 /\ ~l3
  <2>1. /\ Count(lost) \in Nat
        /\ l1 \/ l2 \/ l3 => Count(lost) >= 1
    <3>1. Count(lost) \in Nat /\ \A k \in 1 .. 3 : lost[k] => Count(lost) >= 1
      BY CountSome
    <3>2. 1 \in 1 .. 3 /\ 2 \in 1 .. 3 /\ 3 \in 1 .. 3
      OBVIOUS
    <3>3. QED BY <3>1, <3>2
  <2>2. faults' = faults + Count(lost) /\ faults' <= MaxFaults
    BY DEF SetLength
  <2>3. QED BY <1>2, <2>1, <2>2
<1> HIDE DEF l1, l2, l3
<1>5. /\ c1 \in Chip /\ Keeps(chip, c1) /\ Aligned(chip, c1) /\ Page(c1) = 0
      /\ ~l1 => c1.tbcr = WithLow(chip.tbcr, low)
  <2> HIDE DEF low, high
  <2>1. QED BY <1>2, <1>3, LoseKeeps
<1> HIDE DEF c1
<1>6. /\ c2 \in Chip /\ Keeps(c1, c2) /\ Aligned(c1, c2) /\ Page(c2) = 0
      /\ ~l2 => c2.tbcr = WithHigh(c1.tbcr, high)
  <2> HIDE DEF low, high
  <2>1. TBCR1 # TBCR0
    BY DEF TBCR0, TBCR1
  <2>2. QED BY <1>3, <1>5, <2>1, LoseKeeps
<1> HIDE DEF c2
<1>7. /\ Keeps(c2, chip') /\ Aligned(c2, chip') /\ Page(chip') = 0
      /\ (~l3 => chip'.tpsr = TxPage) /\ chip'.tbcr = c2.tbcr
  <2> DEFINE d == MayLose(c2, TPSR, TxPage, l3)
  <2>1. TPSR \notin {TBCR0, TBCR1}
    BY DEF TPSR, TBCR0, TBCR1
  <2>2. /\ Keeps(c2, d) /\ Aligned(c2, d) /\ Page(d) = 0
        /\ d.tpsr = (IF ~l3 THEN TxPage ELSE c2.tpsr) /\ d.tbcr = c2.tbcr
    BY <1>3, <1>6, <2>1, LoseKeeps
  <2> HIDE DEF d
  <2>3. chip' = d
    BY <1>1 DEF d
  <2>4. QED BY <2>2, <2>3
<1>8. ASSUME ~l1, ~l2
      PROVE  c2.tbcr = sending.bytes
  <2>1. c2.tbcr = WithHigh(WithLow(chip.tbcr, low), high)
    BY <1>5, <1>6, <1>8
  <2>2. LowByte(WithLow(chip.tbcr, low)) = low
    <3> HIDE DEF low
    <3>1. QED BY <1>2, <1>3, WithByte
  <2>3. c2.tbcr = 256 * high + low
    BY <2>1, <2>2 DEF WithHigh
  <2>4. sending.bytes \in Int
    BY <1>2 DEF Word
  <2>5. 256 * HighByte(sending.bytes) + LowByte(sending.bytes) = sending.bytes
    BY <2>4 DEF HighByte, LowByte
  <2>6. QED BY <2>3, <2>5
<1>9. Keeps(chip, chip') /\ Aligned(chip, chip')
  BY <1>5, <1>6, <1>7, KeepsTwice
<1>10. QED BY <1>4, <1>7, <1>8, <1>9

LEMMA LengthKeeps ==
    ASSUME IInv, NEW lost \in [1 .. 3 -> BOOLEAN], SetLength(lost)
    PROVE  IInv'
<1>1. /\ pc = "length" /\ pc' = "clear" /\ reg' = [reg EXCEPT !.tries = ClearTries]
      /\ UNCHANGED <<shadow, held, arrived, sending, told>>
  BY DEF SetLength, Goto, ringVars, sendVars
<1>2. /\ Keeps(chip, chip') /\ Page(chip') = 0
      /\ faults' \in 0 .. MaxFaults /\ faults' >= faults
      /\ faults' = faults => chip'.tpsr = TxPage /\ chip'.tbcr = sending.bytes
  BY LengthEffect
<1>3. ChipInv' /\ chip'.wire = chip.wire /\ chip'.tx = chip.tx
  BY <1>2, ChipKept DEF IInv, Keeps, SameStore
<1>4. reg' \in Reg /\ reg'.tries > 0 /\ reg'.before = reg.before /\ reg.before \in Nat
  <2>1. ClearTries \in Nat /\ ClearTries > 0
    BY NicAssumption
  <2>2. reg \in Reg
    BY DEF IInv, TypeInv
  <2>3. QED BY <1>1, <2>1, <2>2 DEF Reg
<1>5. TypeInv' /\ CallInv'
  BY <1>1, <1>2, <1>4 DEF IInv, TypeInv, CallInv, Labels
<1>6. /\ chip.wire.id < sending.id /\ reg.before <= faults /\ faults \in Nat
      /\ chip.tx.id = sending.id /\ chip.tx.prefix
      /\ faults = reg.before => chip.tx = sending
  BY <1>1 DEF IInv, TypeInv, SendInv, Buffered, SentLabels
<1>7. chip.wire.id <= sending.id
  BY DEF IInv, SendInv
<1>8. SendInv'
  <2>1. reg'.before <= faults' /\ (faults' = reg'.before => faults' = faults /\ faults = reg.before)
    BY <1>2, <1>4, <1>6
  <2>2. QED BY <1>1, <1>2, <1>3, <1>6, <1>7, <2>1 DEF SendInv, Buffered, LengthSet, Page
<1>9. QED BY <1>3, <1>5, <1>8 DEF IInv

\* A try to clear the terminal bits.  A read-back that was missed gives what was
\* written, which is not clear.
LEMMA ClearEffect ==
    ASSUME IInv, NEW lost \in BOOLEAN, NEW missed \in BOOLEAN, ClearStatus(lost, missed)
    PROVE  /\ Keeps(chip, chip') /\ Aligned(chip, chip') /\ Page(chip') = 0
           /\ chip'.tpsr = chip.tpsr /\ chip'.tbcr = chip.tbcr
           /\ faults' \in 0 .. MaxFaults /\ faults' >= faults
           /\ \/ pc' = "txp" /\ StatusClear(chip'.isr) /\ UNCHANGED <<reg, told>>
              \/ pc' = "clear" /\ reg.tries > 1 /\ told' = told
                 /\ reg' = [reg EXCEPT !.tries = reg.tries - 1]
              \/ pc' = "idle" /\ reg' = NoReg /\ told' = "failed"
<1> DEFINE d == MayLose(chip, ISR, TxStatus, lost)
<1>1. chip' = AfterRead(d, ISR, missed)
  BY DEF ClearStatus
<1>2. /\ pc = "clear" /\ chip \in Chip /\ Page(chip) = 0
      /\ reg.tries \in Nat /\ reg.tries > 0 /\ faults \in Nat /\ MaxFaults \in Nat
  BY NicAssumption DEF ClearStatus, IInv, ChipInv, SendInv, Buffered, TypeInv, CallInv, Reg
<1>3. TxStatus \in Byte /\ ISR \notin {TPSR, TBCR0, TBCR1} /\ ISR = CURR
  BY DEF Byte, TxStatus, PTX, TXE, ISR, TPSR, TBCR0, TBCR1, CURR
<1>4. /\ d \in Chip /\ Keeps(chip, d) /\ Aligned(chip, d) /\ Page(d) = 0 /\ d.bus = TxStatus
      /\ d.tpsr = chip.tpsr /\ d.tbcr = chip.tbcr
  BY <1>2, <1>3, LoseKeeps
<1> HIDE DEF d
<1>5. /\ OnlyBus(d, chip') /\ chip'.bus = ReadReg(d, ISR, missed)
  <2> DEFINE e == AfterRead(d, ISR, missed)
  <2>1. OnlyBus(d, e) /\ e.bus = ReadReg(d, ISR, missed)
    BY <1>3, <1>4, AfterReadTyped
  <2> HIDE DEF e
  <2>2. chip' = e
    BY <1>1 DEF e
  <2>3. QED BY <2>1, <2>2
<1>6. /\ Keeps(d, chip') /\ Aligned(d, chip') /\ Page(chip') = 0 /\ chip'.isr = d.isr
      /\ chip'.tpsr = d.tpsr /\ chip'.tbcr = d.tbcr
  BY <1>4, <1>5, OnlyBusKeeps DEF OnlyBus, SameZero, SameBounds
<1>7. StatusClear(chip'.bus) => StatusClear(chip'.isr)
  <2>1. CASE missed
    <3>1. chip'.bus = TxStatus
      BY <1>3, <1>4, <1>5, <2>1, ReadTyped
    <3>2. ~StatusClear(TxStatus)
      BY DEF StatusClear, TxStatus, Has, PTX, TXE
    <3>3. QED BY <3>1, <3>2
  <2>2. CASE ~missed
    <3>1. chip'.bus = d.isr
      BY <1>3, <1>4, <1>5, <2>2, ReadTyped
    <3>2. QED BY <1>6, <3>1
  <2>3. QED BY <2>1, <2>2
<1>8. faults' \in 0 .. MaxFaults /\ faults' >= faults
  BY <1>2 DEF ClearStatus
<1>9. Keeps(chip, chip') /\ Aligned(chip, chip')
  BY <1>4, <1>6, KeepsTwice
<1>10. \/ pc' = "txp" /\ StatusClear(chip'.isr) /\ UNCHANGED <<reg, told>>
       \/ pc' = "clear" /\ reg.tries > 1 /\ told' = told
          /\ reg' = [reg EXCEPT !.tries = reg.tries - 1]
       \/ pc' = "idle" /\ reg' = NoReg /\ told' = "failed"
  <2>1. CASE StatusClear(chip'.bus)
    BY <1>7, <2>1 DEF ClearStatus, Goto
  <2>2. CASE ~StatusClear(chip'.bus) /\ reg.tries > 1
    <3>1. reg.tries # 1
      BY <2>2
    <3>2. QED BY <1>2, <2>2, <3>1 DEF ClearStatus
  <2>3. CASE ~StatusClear(chip'.bus) /\ reg.tries = 1
    BY <2>3 DEF ClearStatus, Fail, Return
  <2>4. QED BY <1>2, <2>1, <2>2, <2>3
<1>11. QED BY <1>4, <1>6, <1>8, <1>9, <1>10

LEMMA ClearKeeps ==
    ASSUME IInv, NEW lost \in BOOLEAN, NEW missed \in BOOLEAN, ClearStatus(lost, missed)
    PROVE  /\ IInv'
           /\ pc' = "idle" => told' = "failed" /\ chip.wire.id # sending.id
<1>1. pc = "clear" /\ UNCHANGED <<shadow, held, arrived, sending>>
  BY DEF ClearStatus, ringVars
<1>2. /\ Keeps(chip, chip') /\ Page(chip') = 0
      /\ chip'.tpsr = chip.tpsr /\ chip'.tbcr = chip.tbcr
      /\ faults' \in 0 .. MaxFaults /\ faults' >= faults
  BY ClearEffect
<1>3. ChipInv' /\ chip'.wire = chip.wire /\ chip'.tx = chip.tx
  BY <1>2, ChipKept DEF IInv, Keeps, SameStore
<1>4. /\ chip.wire.id < sending.id /\ chip.wire.id <= sending.id
      /\ reg.before <= faults /\ faults \in Nat /\ reg.before \in Nat
      /\ chip.wire.id \in Nat /\ sending.id \in Nat
      /\ chip.tx.id = sending.id /\ chip.tx.prefix
      /\ faults = reg.before => chip.tx = sending
      /\ faults = reg.before => chip.tpsr = TxPage /\ chip.tbcr = sending.bytes
  BY <1>1 DEF IInv, TypeInv, ChipInv, Chip, Frame, Reg, SendInv, Buffered, LengthSet, SentLabels
<1>5. /\ reg \in Reg /\ reg.tries \in Nat /\ told \in {"none", "sent", "failed"}
  BY DEF IInv, TypeInv, Reg
<1>6. ASSUME pc' \in {"clear", "txp"}, reg'.before = reg.before,
             pc' = "txp" => StatusClear(chip'.isr)
      PROVE  SendInv'
  <2>1. reg'.before <= faults' /\ (faults' = reg'.before => faults = reg.before)
    BY <1>2, <1>4, <1>6
  <2>2. QED BY <1>1, <1>2, <1>3, <1>4, <1>6, <2>1 DEF SendInv, Buffered, LengthSet, Page
<1>7. CASE pc' = "txp" /\ StatusClear(chip'.isr) /\ UNCHANGED <<reg, told>>
  <2>1. TypeInv' /\ CallInv'
    BY <1>1, <1>2, <1>7 DEF IInv, TypeInv, CallInv, Labels
  <2>2. QED BY <1>3, <1>6, <1>7, <2>1 DEF IInv
<1>8. CASE pc' = "clear" /\ reg.tries > 1 /\ told' = told
           /\ reg' = [reg EXCEPT !.tries = reg.tries - 1]
  <2> DEFINE n == reg.tries - 1
  <2>1. n \in Nat /\ n > 0 /\ reg' = [reg EXCEPT !.tries = n]
    BY <1>5, <1>8
  <2> HIDE DEF n
  <2>2. reg' \in Reg /\ reg'.tries > 0 /\ reg'.before = reg.before
    BY <1>5, <2>1 DEF Reg
  <2>3. TypeInv' /\ CallInv'
    BY <1>1, <1>2, <1>8, <2>2 DEF IInv, TypeInv, CallInv, Labels
  <2>4. QED BY <1>3, <1>6, <1>8, <2>2, <2>3 DEF IInv
<1>9. CASE pc' = "idle" /\ reg' = NoReg /\ told' = "failed"
  <2>1. TypeInv' /\ CallInv'
    BY <1>1, <1>2, <1>9, RegTyped DEF IInv, TypeInv, CallInv, Labels
  <2>2. SendInv'
    BY <1>1, <1>3, <1>9, SendKept DEF IInv, SentLabels
  <2>3. QED BY <1>3, <1>4, <1>9, <2>1, <2>2 DEF IInv
<1>10. QED BY <1>7, <1>8, <1>9, ClearEffect

\* The one TXP: from here on the terminal bits say what became of the frame.
LEMMA TransmitKeeps ==
    ASSUME IInv, NEW lost \in BOOLEAN, NEW fails \in BOOLEAN, Transmit(lost, fails)
    PROVE  IInv' /\ Aligned(chip, chip') /\ Page(chip') = 0 /\ chip'.ram = chip.ram
<1>1. /\ pc = "txp" /\ pc' = "ptx" /\ (lost => ~fails)
      /\ May(IF lost THEN "txp" ELSE "txe", lost \/ fails)
      /\ chip' = IF lost THEN LostWrite(chip, TxCmd)
                 ELSE WriteCr([chip EXCEPT !.bus = TxCmd], TxCmd, fails)
      /\ UNCHANGED <<reg, shadow, held, arrived, sending, told>>
  BY DEF Transmit, Goto, ringVars, sendVars
<1>2. /\ chip \in Chip /\ Rested(chip) /\ Bounded(chip) /\ Page(chip) = 0
      /\ chip.wire.id < sending.id /\ chip.tx.id = sending.id /\ chip.tx.prefix
      /\ StatusClear(chip.isr)
      /\ chip.isr \in Byte /\ chip.wire.id \in Nat /\ sending.id \in Nat /\ sending \in Frame
      /\ chip.tx \in Frame /\ chip.tbcr \in Word
  BY <1>1 DEF IInv, ChipInv, TypeInv, SendInv, Buffered, Chip, Frame
<1>3. /\ faults' \in 0 .. MaxFaults /\ faults' >= faults
      /\ lost \/ fails => faults' > faults
      /\ reg.before <= faults /\ faults \in Nat /\ reg.before \in Nat
      /\ faults = reg.before => /\ chip.tx = sending
                                /\ chip.tpsr = TxPage /\ chip.tbcr = sending.bytes
  <2>1. (lost \/ fails) \in BOOLEAN
    OBVIOUS
  <2>2. /\ faults' \in 0 .. MaxFaults /\ faults' >= faults
        /\ lost \/ fails => faults' = faults + 1
    BY <1>1, <2>1, MayTyped DEF IInv
  <2>3. /\ reg.before <= faults /\ faults \in Nat /\ reg.before \in Nat
        /\ faults = reg.before => /\ chip.tx = sending
                                  /\ chip.tpsr = TxPage /\ chip.tbcr = sending.bytes
    BY <1>1 DEF IInv, TypeInv, Reg, SendInv, Buffered, LengthSet, SentLabels
  <2>4. QED BY <2>2, <2>3
<1>4. TypeInv'
  BY <1>1, <1>3 DEF IInv, TypeInv, Labels
<1>5. CallInv'
  BY <1>1 DEF IInv, CallInv
<1>6. CASE lost
  <2>1. OnlyBus(chip, chip') /\ chip'.bus = TxCmd
    <3>1. TxCmd \in Byte
      BY DEF TxCmd, Byte
    <3>2. chip' = [chip EXCEPT !.bus = TxCmd]
      BY <1>1, <1>6 DEF LostWrite
    <3>3. QED BY <1>2, <3>1, <3>2, BusTyped
  <2>2. /\ Keeps(chip, chip') /\ Aligned(chip, chip') /\ Page(chip') = 0 /\ chip'.isr = chip.isr
    BY <1>2, <2>1, OnlyBusKeeps DEF OnlyBus
  <2>3. ChipInv' /\ chip'.wire = chip.wire /\ chip'.ram = chip.ram
    BY <2>2, ChipKept DEF IInv
  <2>4. Stayed'
    BY <1>1, <1>2, <1>3, <1>6, <2>2, <2>3 DEF Stayed, StatusClear
  <2>5. SendInv'
    BY <1>1, <1>2, <1>3, <2>1, <2>2, <2>3, <2>4 DEF SendInv, Commanded
  <2>6. QED BY <1>4, <1>5, <2>2, <2>3, <2>5 DEF IInv
<1>7. CASE ~lost
  <2>1. /\ chip' \in Chip /\ chip'.ram = chip.ram
        /\ chip'.pstart = chip.pstart /\ chip'.pstop = chip.pstop /\ Rested(chip')
        /\ Aligned(chip, chip') /\ chip'.cr = Page0Start
        /\ chip'.bus = TxCmd /\ chip'.tpsr = chip.tpsr
        /\ fails => chip'.wire = chip.wire /\ chip'.isr = Set(chip.isr, TXE)
        /\ ~fails /\ chip.tpsr = TxPage => chip'.wire = [chip.tx EXCEPT !.bytes = chip.tbcr]
        /\ ~fails /\ chip.tpsr # TxPage => chip'.wire = NoFrame
        /\ ~fails => chip'.isr = Set(chip.isr, PTX)
    <3> DEFINE d == WriteCr([chip EXCEPT !.bus = TxCmd], TxCmd, fails)
    <3>1. chip' = d
      BY <1>1, <1>7
    <3>2. /\ d \in Chip /\ d.ram = chip.ram /\ d.pstart = chip.pstart /\ d.pstop = chip.pstop
          /\ Rested(d) /\ Aligned(chip, d) /\ d.cr = Page0Start
          /\ d.bus = TxCmd /\ d.tpsr = chip.tpsr
          /\ fails => d.wire = chip.wire /\ d.isr = Set(chip.isr, TXE)
          /\ ~fails /\ chip.tpsr = TxPage => d.wire = [chip.tx EXCEPT !.bytes = chip.tbcr]
          /\ ~fails /\ chip.tpsr # TxPage => d.wire = NoFrame
          /\ ~fails => d.isr = Set(chip.isr, PTX)
      BY <1>2, TransmitTyped
    <3> HIDE DEF d
    <3>3. QED BY <3>1, <3>2
  <2>2. ChipInv' /\ Page(chip') = 0
    BY <1>2, <2>1 DEF ChipInv, Bounded, Page, Page0Start
  <2>3. ASSUME chip'.wire.id <= sending.id, Left' \/ WrongPage' \/ Stayed'
        PROVE  IInv'
    <3>1. SendInv'
      BY <1>1, <1>3, <2>1, <2>2, <2>3 DEF SendInv, Commanded
    <3>2. QED BY <1>4, <1>5, <2>2, <3>1 DEF IInv
  <2>4. CASE fails
    <3>1. ~Has(chip'.isr, PTX)
      BY <1>2, <2>1, <2>4, HasSet DEF StatusClear
    <3>2. chip'.wire = chip.wire /\ chip.wire.id <= sending.id
      BY <1>2, <2>1, <2>4
    <3>3. Stayed'
      <4>1. chip'.wire.id < sending'.id
        BY <1>1, <1>2, <3>2
      <4>2. faults' > reg'.before
        <5>1. reg'.before = reg.before /\ faults' > faults /\ faults' \in Int
          BY <1>1, <1>3, <2>4
        <5>2. QED BY <1>3, <5>1
      <4>3. QED BY <3>1, <4>1, <4>2 DEF Stayed
    <3>4. QED BY <2>1, <2>2, <2>3, <3>2, <3>3
  <2>5. CASE ~fails /\ chip.tpsr = TxPage
    <3>1. Has(chip'.isr, PTX) /\ ~Has(chip'.isr, TXE)
      BY <1>2, <2>1, <2>5, HasSet DEF StatusClear
    <3>2. /\ chip'.wire = [chip.tx EXCEPT !.bytes = chip.tbcr]
          /\ chip'.wire.id = sending.id /\ chip'.wire.prefix
          /\ chip.tx = sending /\ chip.tbcr = sending.bytes => chip'.wire = sending
      BY <1>2, <2>1, <2>5 DEF Frame
    <3>3. faults' = reg'.before => chip'.wire = sending'
      BY <1>1, <1>3, <3>2
    <3>4. Left'
      BY <1>1, <3>1, <3>2, <3>3 DEF Left
    <3>5. QED BY <1>2, <2>1, <2>2, <2>3, <3>2, <3>4
  <2>6. CASE ~fails /\ chip.tpsr # TxPage
    <3>1. Has(chip'.isr, PTX) /\ ~Has(chip'.isr, TXE)
      BY <1>2, <2>1, <2>6, HasSet DEF StatusClear
    <3>2. chip'.wire = NoFrame /\ chip'.wire.id <= sending.id
      BY <1>2, <2>1, <2>6 DEF NoFrame
    <3>3. faults' > reg'.before
      BY <1>1, <1>3, <2>6
    <3>4. WrongPage'
      BY <2>1, <2>6, <3>1, <3>3 DEF WrongPage
    <3>5. QED BY <2>1, <2>2, <2>3, <3>2, <3>4
  <2>7. QED BY <2>4, <2>5, <2>6
<1>8. QED BY <1>6, <1>7

\* What WAIT_PTX reads: the loop's look, and the captured status, which is that
\* look, the CR or the ISR.
LEMMA WaitReads ==
    ASSUME NEW c \in Chip, Page(c) = 0, NEW missed \in [1 .. 3 -> BOOLEAN],
           NEW look, look = AfterRead(c, ISR, missed[1]),
           NEW d, d = Captured(look, missed)
    PROVE  /\ look \in Chip /\ OnlyBus(c, d)
           /\ look.bus = IF missed[1] THEN c.bus ELSE c.isr
           /\ ~missed[3] => d.bus = c.isr
           /\ d.bus \in {look.bus, c.cr, c.isr}
<1> DEFINE m1 == missed[1]  m2 == missed[2]  m3 == missed[3]
           e == AfterRead(look, CR, m2)
<1>1. m1 \in BOOLEAN /\ m2 \in BOOLEAN /\ m3 \in BOOLEAN /\ ISR = CURR
  BY DEF ISR, CURR
<1>2. look = AfterRead(c, ISR, m1) /\ d = AfterRead(e, ISR, m3)
  BY DEF Captured
<1> HIDE DEF m1, m2, m3
<1>3. OnlyBus(c, look) /\ look.bus = ReadReg(c, ISR, m1) /\ look \in Chip
  BY <1>1, <1>2, AfterReadTyped DEF OnlyBus
<1>4. look.bus = IF m1 THEN c.bus ELSE c.isr
  BY <1>1, <1>3, ReadTyped
<1>5. OnlyBus(look, e) /\ e.bus = ReadReg(look, CR, m2) /\ e \in Chip
  <2>1. OnlyBus(look, e) /\ e.bus = ReadReg(look, CR, m2)
    BY <1>1, <1>3, AfterReadTyped
  <2>2. QED BY <2>1 DEF OnlyBus
<1>6. e.bus = IF m2 THEN look.bus ELSE look.cr
  BY <1>1, <1>3, <1>5, ReadTyped
<1> HIDE DEF e
<1>7. OnlyBus(c, e)
  BY <1>3, <1>5, OnlyBusTwice
<1>8. Page(e) = 0 /\ e.isr = c.isr /\ look.cr = c.cr
  BY <1>3, <1>7 DEF OnlyBus, SameRun, SameZero, Page
<1>9. OnlyBus(e, d) /\ d.bus = ReadReg(e, ISR, m3)
  BY <1>1, <1>2, <1>5, AfterReadTyped
<1>10. d.bus = IF m3 THEN e.bus ELSE e.isr
  BY <1>1, <1>5, <1>8, <1>9, ReadTyped
<1>11. OnlyBus(c, d)
  BY <1>7, <1>9, OnlyBusTwice
<1>12. QED BY <1>3, <1>4, <1>6, <1>8, <1>10, <1>11 DEF m1, m3

\* A verdict of "failed" is right.  One of "sent" is wrong at the price of two
\* faults, or of a TPSR that does not point to the frame.
LEMMA WaitKeeps ==
    ASSUME IInv, NEW lost \in BOOLEAN, NEW missed \in [1 .. 3 -> BOOLEAN], WaitPtx(lost, missed)
    PROVE  /\ IInv' /\ Aligned(chip, chip') /\ Page(chip') = 0 /\ chip'.ram = chip.ram
           /\ told' = "failed" => chip.wire.id # sending.id
           /\ told' = "sent" /\ faults' - reg.before <= 1 /\ chip.tpsr = TxPage =>
                 chip.wire.id = sending.id /\ chip.wire.prefix
           /\ told' = "sent" /\ faults' - reg.before = 0 => chip.wire = sending
<1> DEFINE look == AfterRead(chip, ISR, missed[1])
           c == Captured(look, missed)
           event == Has(look.bus, PTX) \/ Has(look.bus, TXE)
<1>1. /\ pc = "ptx" /\ pc' = "idle" /\ reg' = NoReg
      /\ UNCHANGED <<shadow, held, arrived, sending>>
      /\ faults' = faults + Count(missed) + (IF lost THEN 1 ELSE 0) /\ faults' <= MaxFaults
      /\ chip' = IF event THEN MayLose(c, ISR, TxStatus, lost) ELSE c
      /\ told' = IF event /\ LeftTheWire(c.bus) THEN "sent" ELSE "failed"
  BY DEF WaitPtx, Return, ringVars
<1>2. /\ chip \in Chip /\ Page(chip) = 0 /\ chip.bus = TxCmd
      /\ Left \/ WrongPage \/ Stayed
      /\ ~Stayed => chip.cr = Page0Start
      /\ reg.before <= faults /\ reg.before \in Nat /\ faults \in Nat /\ MaxFaults \in Nat
      /\ chip.wire.id \in Nat /\ sending.id \in Nat
  <2>1. SendInv /\ TypeInv /\ chip \in Chip /\ pc \in SentLabels
    BY <1>1 DEF IInv, ChipInv, SentLabels
  <2>2. Commanded /\ reg.before <= faults
    BY <1>1, <2>1 DEF SendInv
  <2>3. reg.before \in Nat /\ faults \in Nat /\ MaxFaults \in Nat
    BY <2>1, NicAssumption DEF TypeInv, Reg
  <2>4. chip.wire.id \in Nat /\ sending.id \in Nat
    BY <2>1 DEF TypeInv, Chip, Frame
  <2>5. QED BY <2>1, <2>2, <2>3, <2>4 DEF Commanded
<1>3. /\ OnlyBus(chip, c)
      /\ look.bus = IF missed[1] THEN TxCmd ELSE chip.isr
      /\ ~missed[3] => c.bus = chip.isr
      /\ c.bus \in {look.bus, chip.cr, chip.isr}
  BY <1>2, WaitReads
<1> HIDE DEF look, c
<1>4. /\ Count(missed) \in Nat /\ (missed[1] \/ missed[3] => Count(missed) >= 1)
  <2>1. Count(missed) \in Nat /\ \A k \in 1 .. 3 : missed[k] => Count(missed) >= 1
    BY CountSome
  <2>2. 1 \in 1 .. 3 /\ 3 \in 1 .. 3
    OBVIOUS
  <2>3. QED BY <2>1, <2>2
<1>5. /\ faults' \in 0 .. MaxFaults /\ faults' >= faults
      /\ missed[1] \/ missed[3] => faults' > faults
  BY <1>1, <1>2, <1>4
<1>6. TxStatus \in Byte /\ ISR \in {TBCR0, TBCR1, TPSR, ISR}
  BY DEF Byte, TxStatus, PTX, TXE
<1>7. Keeps(chip, c) /\ Aligned(chip, c) /\ Page(c) = 0 /\ c \in Chip
  BY <1>2, <1>3, OnlyBusKeeps DEF OnlyBus
<1>8. Keeps(chip, chip') /\ Aligned(chip, chip') /\ Page(chip') = 0
  <2> DEFINE d == MayLose(c, ISR, TxStatus, lost)
  <2>1. Keeps(c, d) /\ Aligned(c, d) /\ Page(d) = 0
    BY <1>6, <1>7, LoseKeeps
  <2> HIDE DEF d
  <2>2. chip' \in {c, d}
    BY <1>1 DEF d
  <2>3. QED BY <1>7, <2>1, <2>2, KeepsTwice
<1>9. ChipInv' /\ chip'.wire = chip.wire /\ chip'.ram = chip.ram
  BY <1>8, ChipKept DEF IInv
<1>10. TypeInv' /\ CallInv'
  BY <1>1, <1>5, RegTyped DEF IInv, TypeInv, CallInv, Labels
<1>11. SendInv'
  BY <1>1, <1>9, SendKept DEF IInv, SentLabels
<1>12. /\ Has(TxCmd, PTX) /\ ~Has(TxCmd, TXE) /\ ~Has(Page0Start, TXE)
  BY DEF Has, TxCmd, Page0Start, PTX, TXE
<1>13. CASE Left
  <2>1. event /\ LeftTheWire(c.bus)
    BY <1>2, <1>3, <1>12, <1>13 DEF Left, Stayed, LeftTheWire
  <2>2. told' = "sent"
    BY <1>1, <2>1
  <2>3. faults' = reg.before => faults = reg.before
    BY <1>2, <1>5
  <2>4. faults' - reg.before = 0 => faults' = reg.before
    BY <1>2, <1>5
  <2>5. QED BY <1>8, <1>9, <1>10, <1>11, <1>13, <2>2, <2>3, <2>4 DEF Left, IInv
<1>14. CASE WrongPage
  <2>1. event /\ LeftTheWire(c.bus)
    BY <1>2, <1>3, <1>12, <1>14 DEF WrongPage, Stayed, LeftTheWire
  <2>2. told' = "sent"
    BY <1>1, <2>1
  <2>3. faults' - reg.before > 0
    BY <1>2, <1>5, <1>14 DEF WrongPage
  <2>4. faults' - reg.before # 0
    BY <1>2, <1>5, <2>3
  <2>5. QED BY <1>8, <1>9, <1>10, <1>11, <1>14, <2>2, <2>4 DEF WrongPage, IInv
<1>15. CASE Stayed
  <2>1. told' = "sent" => missed[1] \/ missed[3]
    <3>1. ASSUME ~missed[1], ~missed[3]
          PROVE  told' = "failed"
      <4>1. look.bus = chip.isr /\ c.bus = chip.isr
        BY <1>3, <3>1
      <4>2. event => Has(chip.isr, TXE)
        BY <1>15, <4>1 DEF Stayed
      <4>3. QED BY <1>1, <4>1, <4>2 DEF LeftTheWire
    <3>2. QED BY <3>1
  <2>2. told' = "sent" => faults' - reg.before > 1
    BY <1>2, <1>5, <1>15, <2>1 DEF Stayed
  <2>3. chip.wire.id # sending.id
    BY <1>2, <1>15 DEF Stayed
  <2>4. faults' - reg.before \in Int
    BY <1>2, <1>5
  <2>5. told' = "sent" => ~(faults' - reg.before <= 1) /\ faults' - reg.before # 0
    BY <2>2, <2>4
  <2>6. QED BY <1>8, <1>9, <1>10, <1>11, <2>3, <2>5 DEF IInv
<1>16. QED BY <1>2, <1>13, <1>14, <1>15

-----------------------------------------------------------------------------
(* INIT_NORMAL, a write at a time.                                         *)

Booting(c, page) ==
    /\ c \in Chip /\ Rested(c) /\ Page(c) = page /\ c.wire = NoFrame
    /\ c.par = Mac /\ c.mar = [k \in 0 .. 7 |-> 0]
SameLimits(c, d) == d.pstart = c.pstart /\ d.pstop = c.pstop /\ d.bnry = c.bnry
SameCurr(c, d) == d.curr = c.curr

LEMMA BootZero ==
    ASSUME NEW c, Booting(c, 0), NEW off \in 1 .. 15, NEW v \in Byte,
           off \in {RBCR0, RBCR1} => v = 0, NEW d, d = c ++ <<off, v>>
    PROVE  /\ Booting(d, 0) /\ SameCurr(c, d)
           /\ off \notin {PSTART, PSTOP, BNRY} => SameLimits(c, d)
           /\ d.pstart = IF off = PSTART THEN v ELSE c.pstart
           /\ d.pstop = IF off = PSTOP THEN v ELSE c.pstop
           /\ d.bnry = IF off = BNRY THEN v ELSE c.bnry
<1>1. c \in Chip /\ Page(c) = 0
  BY DEF Booting
<1>2. d \in Chip /\ SameStore(c, d) /\ SameRun(c, d) /\ SameOne(c, d) /\ ZeroWritten(c, off, v, d)
  BY <1>1, WriteZero
<1>3. c.rbcr = 0 => d.rbcr = 0
  <2>1. WithLow(0, 0) = 0 /\ WithHigh(0, 0) = 0
    BY DEF WithLow, WithHigh, LowByte, HighByte
  <2>2. QED BY <1>2, <2>1 DEF ZeroWritten
<1>4. Booting(d, 0)
  BY <1>2, <1>3 DEF Booting, Rested, Page, SameStore, SameRun, SameOne
<1>5. QED BY <1>2, <1>4 DEF ZeroWritten, SameOne, SameCurr, SameLimits

\* The address and the filter are written as they are after power-on.
LEMMA BootOne ==
    ASSUME NEW c, Booting(c, 1), NEW off \in 1 .. 15, NEW v \in Byte,
           off < CURR => v = Mac[off], off > CURR => v = 0, NEW d, d = c ++ <<off, v>>
    PROVE  /\ Booting(d, 1) /\ SameLimits(c, d)
           /\ off # CURR => SameCurr(c, d)
           /\ off = CURR => d.curr = v
<1>1. c \in Chip /\ Page(c) = 1
  BY DEF Booting
<1>2. d \in Chip /\ SameStore(c, d) /\ SameRun(c, d) /\ SameZero(c, d) /\ OneWritten(c, off, v, d)
  BY <1>1, WriteOne
<1>3. d.par = Mac
  <2>1. CASE off < CURR
    <3>1. d.par = [c.par EXCEPT ![off] = v] /\ c.par = Mac /\ v = Mac[off]
      BY <1>2, <2>1 DEF OneWritten, Booting
    <3>2. off \in 1 .. 6
      BY <2>1 DEF CURR
    <3>3. QED BY <3>1, <3>2 DEF Mac
  <2>2. CASE ~(off < CURR)
    BY <1>2, <2>2 DEF OneWritten, Booting
  <2>3. QED BY <2>1, <2>2
<1>4. d.mar = [k \in 0 .. 7 |-> 0]
  <2>1. CASE off > CURR
    <3>1. d.mar = [c.mar EXCEPT ![off - MAR0] = 0] /\ c.mar = [k \in 0 .. 7 |-> 0]
      BY <1>2, <2>1 DEF OneWritten, Booting
    <3>2. QED BY <3>1
  <2>2. CASE ~(off > CURR)
    BY <1>2, <2>2 DEF OneWritten, Booting
  <2>3. QED BY <2>1, <2>2
<1>5. Booting(d, 1)
  BY <1>2, <1>3, <1>4 DEF Booting, Rested, Page, SameStore, SameRun, SameZero, SameBounds
<1>6. QED BY <1>2, <1>5 DEF OneWritten, SameZero, SameBounds, SameCurr, SameLimits

LEMMA BootPage ==
    ASSUME NEW c, NEW page \in {0, 1}, Booting(c, page),
           NEW v \in {Page0Stop, Page0Start, Page1Stop, Page1Start},
           NEW d, d = c ++ <<CR, v>>
    PROVE  Booting(d, v \div 64) /\ SameLimits(c, d) /\ SameCurr(c, d)
<1>1. c \in Chip
  BY DEF Booting
<1>2. d \in Chip /\ SameStore(c, d) /\ SameOne(c, d) /\ SameBounds(c, d) /\ d.cr = v /\ d.dma = "idle"
  BY <1>1, WriteCommand
<1>3. QED
  BY <1>2 DEF Booting, Rested, Page, SameStore, SameOne, SameBounds, SameLimits, SameCurr

LEMMA BootStart == Booting(PowerOn, 0)
<1>1. PowerOn \in Chip
  <2>1. Mac \in [1 .. 6 -> Byte] /\ [k \in 0 .. 7 |-> 0] \in [0 .. 7 -> Byte]
    BY DEF Mac, Byte
  <2>2. 0 \in Word /\ NoFrame \in Frame /\ 0 \in Byte /\ 255 \in Byte
    BY WordMember DEF NoFrame, Frame, Byte
  <2>3. [p \in Ring |-> Poison] \in [Ring -> Token]
    BY RegTyped
  <2>4. QED BY <2>1, <2>2, <2>3 DEF PowerOn, Chip
<1>2. QED BY <1>1 DEF PowerOn, Booting, Rested, Page

\* One byte of the address, or of the filter.
LEMMA BootPar ==
    ASSUME NEW c, Booting(c, 1), NEW k \in 1 .. 6, NEW d, d = c ++ <<k, Mac[k]>>
    PROVE  Booting(d, 1) /\ SameLimits(c, d)
<1>1. Mac[k] \in Byte /\ k \in 1 .. 15 /\ k < CURR /\ ~(k > CURR)
  BY DEF Mac, Byte, CURR
<1>2. QED BY <1>1, BootOne

LEMMA BootMar ==
    ASSUME NEW c, Booting(c, 1), NEW k \in 0 .. 7, NEW d, d = c ++ <<MAR0 + k, 0>>
    PROVE  Booting(d, 1) /\ SameLimits(c, d) /\ SameCurr(c, d)
<1> DEFINE off == MAR0 + k
           v == 0
<1>1. v \in Byte /\ off \in 1 .. 15 /\ ~(off < CURR) /\ off > CURR /\ off # CURR /\ v = 0
  BY DEF MAR0, Byte, CURR
<1>2. d = c ++ <<off, v>>
  OBVIOUS
<1> HIDE DEF off, v
<1>3. QED BY <1>1, <1>2, BootOne

LEMMA InitBoots ==
    ASSUME NEW tpsr \in {0, TxPage}, NEW c, c = InitNormal(tpsr)
    PROVE  /\ c \in Chip /\ Rested(c) /\ Bounded(c) /\ Page(c) = 0 /\ c.wire = NoFrame
           /\ c.par = Mac /\ c.mar = [k \in 0 .. 7 |-> 0]
           /\ c.curr \in Ring /\ c.bnry \in Ring
           /\ c.curr = PStart + 1 /\ c.bnry = PStart
<1> DEFINE z == 0
           dcr == 72
           c1 == PowerOn ++ <<CR, Page0Stop>>  c2 == c1 ++ <<DCR, dcr>> 
           c3 == c2 ++ <<RBCR0, z>>  c4 == c3 ++ <<RBCR1, z>>  c5 == c4 ++ <<RCR, Monitor>> 
           c6 == c5 ++ <<TCR, Loopback>>  c7 == c6 ++ <<TPSR, tpsr>> 
           c8 == c7 ++ <<PSTART, PStart>>  c9 == c8 ++ <<PSTOP, PStop>> 
           c10 == c9 ++ <<BNRY, PStart>>  c11 == c10 ++ <<ISR, AllBits>> 
           c12 == c11 ++ <<IMR, z>>  c13 == c12 ++ <<CR, Page1Stop>> 
           c14 == c13 ++ <<PAR0, Mac[1]>>  c15 == c14 ++ <<PAR0 + 1, Mac[2]>> 
           c16 == c15 ++ <<PAR0 + 2, Mac[3]>>  c17 == c16 ++ <<PAR0 + 3, Mac[4]>> 
           c18 == c17 ++ <<PAR0 + 4, Mac[5]>>  c19 == c18 ++ <<PAR0 + 5, Mac[6]>> 
           first == PStart + 1
           c20 == c19 ++ <<CURR, first>>  c21 == c20 ++ <<MAR0, 0>> 
           c22 == c21 ++ <<MAR0 + 1, 0>>  c23 == c22 ++ <<MAR0 + 2, 0>> 
           c24 == c23 ++ <<MAR0 + 3, 0>>  c25 == c24 ++ <<MAR0 + 4, 0>> 
           c26 == c25 ++ <<MAR0 + 5, 0>>  c27 == c26 ++ <<MAR0 + 6, 0>> 
           c28 == c27 ++ <<MAR0 + 7, 0>>  c29 == c28 ++ <<CR, Page0Start>> 
           c30 == c29 ++ <<TCR, z>>  c31 == c30 ++ <<RCR, AcceptBroadcast>> 
<1>0. c = c31
  BY DEF InitNormal
<1>1. /\ z \in Byte /\ z = 0 /\ dcr \in Byte /\ AcceptBroadcast \in Byte /\ Monitor \in Byte /\ Loopback \in Byte /\ tpsr \in Byte
      /\ AllBits \in Byte /\ PStart \in Byte /\ PStop \in Byte
  BY RingAssumption DEF Byte, Monitor, Loopback, TxPage, AllBits, AcceptBroadcast
<1>2. /\ DCR \in 1 .. 15 /\ DCR \notin {RBCR0, RBCR1} /\ DCR \notin {PSTART, PSTOP, BNRY}
      /\ RBCR0 \in 1 .. 15 /\ RBCR0 \notin {PSTART, PSTOP, BNRY}
      /\ RBCR1 \in 1 .. 15 /\ RBCR1 \notin {PSTART, PSTOP, BNRY}
      /\ RCR \in 1 .. 15 /\ RCR \notin {RBCR0, RBCR1} /\ RCR \notin {PSTART, PSTOP, BNRY}
      /\ TCR \in 1 .. 15 /\ TCR \notin {RBCR0, RBCR1} /\ TCR \notin {PSTART, PSTOP, BNRY}
      /\ TPSR \in 1 .. 15 /\ TPSR \notin {RBCR0, RBCR1} /\ TPSR \notin {PSTART, PSTOP, BNRY}
      /\ ISR \in 1 .. 15 /\ ISR \notin {RBCR0, RBCR1} /\ ISR \notin {PSTART, PSTOP, BNRY}
      /\ IMR \in 1 .. 15 /\ IMR \notin {RBCR0, RBCR1} /\ IMR \notin {PSTART, PSTOP, BNRY}
  BY DEF PSTART, PSTOP, BNRY, TPSR, ISR, RBCR0, RBCR1, RCR, TCR, DCR, IMR
<1>3. /\ PSTART \in 1 .. 15 /\ PSTART \notin {RBCR0, RBCR1} /\ PSTART # PSTOP /\ PSTART # BNRY
      /\ PSTOP \in 1 .. 15 /\ PSTOP \notin {RBCR0, RBCR1} /\ PSTOP # BNRY
      /\ BNRY \in 1 .. 15 /\ BNRY \notin {RBCR0, RBCR1}
  BY DEF PSTART, PSTOP, BNRY, RBCR0, RBCR1
<1>4. Page0Stop \div 64 = 0 /\ Page1Stop \div 64 = 1 /\ Page0Start \div 64 = 0
  BY DEF Page0Stop, Page1Stop, Page0Start
<1>40. /\ first \in Byte /\ first \in Ring /\ PStart \in Ring
       /\ CURR \in 1 .. 15 /\ ~(CURR < CURR) /\ ~(CURR > CURR)
  BY RingAssumption DEF Byte, Ring, CURR
<1>41. /\ PAR0 = 1 /\ PAR0 + 1 = 2 /\ PAR0 + 2 = 3 /\ PAR0 + 3 = 4 /\ PAR0 + 4 = 5
       /\ PAR0 + 5 = 6 /\ MAR0 = MAR0 + 0
  BY DEF PAR0, MAR0
<1> HIDE DEF z, dcr, first
<1>5. Booting(c1, 0)
  BY <1>4, BootStart, BootPage
<1> HIDE DEF c1
<1>6. Booting(c2, 0)
  BY <1>5, <1>1, <1>2, BootZero
<1> HIDE DEF c2
<1>7. Booting(c3, 0)
  BY <1>6, <1>1, <1>2, BootZero
<1> HIDE DEF c3
<1>8. Booting(c4, 0)
  BY <1>7, <1>1, <1>2, BootZero
<1> HIDE DEF c4
<1>9. Booting(c5, 0)
  BY <1>8, <1>1, <1>2, BootZero
<1> HIDE DEF c5
<1>10. Booting(c6, 0)
  BY <1>9, <1>1, <1>2, BootZero
<1> HIDE DEF c6
<1>11. Booting(c7, 0)
  BY <1>10, <1>1, <1>2, BootZero
<1> HIDE DEF c7
<1>12. Booting(c8, 0) /\ c8.pstart = PStart
  BY <1>11, <1>1, <1>3, BootZero
<1> HIDE DEF c8
<1>13. Booting(c9, 0) /\ c9.pstart = PStart /\ c9.pstop = PStop
  BY <1>12, <1>1, <1>3, BootZero
<1> HIDE DEF c9
<1>14. Booting(c10, 0) /\ c10.pstart = PStart /\ c10.pstop = PStop /\ c10.bnry = PStart
  BY <1>13, <1>1, <1>3, BootZero
<1> HIDE DEF c10
<1>15. Booting(c11, 0) /\ SameLimits(c10, c11)
  BY <1>14, <1>1, <1>2, BootZero DEF SameLimits
<1> HIDE DEF c11
<1>16. Booting(c12, 0) /\ SameLimits(c10, c12)
  BY <1>15, <1>1, <1>2, BootZero DEF SameLimits
<1> HIDE DEF c12
<1>17. Booting(c13, 1) /\ SameLimits(c10, c13)
  BY <1>16, <1>4, BootPage DEF SameLimits
<1> HIDE DEF c13
<1>18. Booting(c14, 1) /\ SameLimits(c10, c14)
  BY <1>17, <1>41, BootPar DEF SameLimits
<1> HIDE DEF c14
<1>19. Booting(c15, 1) /\ SameLimits(c10, c15)
  BY <1>18, <1>41, BootPar DEF SameLimits
<1> HIDE DEF c15
<1>20. Booting(c16, 1) /\ SameLimits(c10, c16)
  BY <1>19, <1>41, BootPar DEF SameLimits
<1> HIDE DEF c16
<1>21. Booting(c17, 1) /\ SameLimits(c10, c17)
  BY <1>20, <1>41, BootPar DEF SameLimits
<1> HIDE DEF c17
<1>22. Booting(c18, 1) /\ SameLimits(c10, c18)
  BY <1>21, <1>41, BootPar DEF SameLimits
<1> HIDE DEF c18
<1>23. Booting(c19, 1) /\ SameLimits(c10, c19)
  BY <1>22, <1>41, BootPar DEF SameLimits
<1> HIDE DEF c19
<1>24. Booting(c20, 1) /\ SameLimits(c10, c20) /\ c20.curr = first
  BY <1>23, <1>40, BootOne DEF SameLimits
<1> HIDE DEF c20
<1>25. Booting(c21, 1) /\ SameLimits(c10, c21) /\ SameCurr(c20, c21)
  BY <1>24, <1>41, BootMar DEF SameLimits, SameCurr
<1> HIDE DEF c21
<1>26. Booting(c22, 1) /\ SameLimits(c10, c22) /\ SameCurr(c20, c22)
  BY <1>25, BootMar DEF SameLimits, SameCurr
<1> HIDE DEF c22
<1>27. Booting(c23, 1) /\ SameLimits(c10, c23) /\ SameCurr(c20, c23)
  BY <1>26, BootMar DEF SameLimits, SameCurr
<1> HIDE DEF c23
<1>28. Booting(c24, 1) /\ SameLimits(c10, c24) /\ SameCurr(c20, c24)
  BY <1>27, BootMar DEF SameLimits, SameCurr
<1> HIDE DEF c24
<1>29. Booting(c25, 1) /\ SameLimits(c10, c25) /\ SameCurr(c20, c25)
  BY <1>28, BootMar DEF SameLimits, SameCurr
<1> HIDE DEF c25
<1>30. Booting(c26, 1) /\ SameLimits(c10, c26) /\ SameCurr(c20, c26)
  BY <1>29, BootMar DEF SameLimits, SameCurr
<1> HIDE DEF c26
<1>31. Booting(c27, 1) /\ SameLimits(c10, c27) /\ SameCurr(c20, c27)
  BY <1>30, BootMar DEF SameLimits, SameCurr
<1> HIDE DEF c27
<1>32. Booting(c28, 1) /\ SameLimits(c10, c28) /\ SameCurr(c20, c28)
  BY <1>31, BootMar DEF SameLimits, SameCurr
<1> HIDE DEF c28
<1>33. Booting(c29, 0) /\ SameLimits(c10, c29) /\ SameCurr(c20, c29)
  BY <1>32, <1>4, BootPage DEF SameLimits, SameCurr
<1> HIDE DEF c29
<1>34. Booting(c30, 0) /\ SameLimits(c10, c30) /\ SameCurr(c20, c30)
  BY <1>33, <1>1, <1>2, BootZero DEF SameLimits, SameCurr
<1> HIDE DEF c30
<1>35. Booting(c31, 0) /\ SameLimits(c10, c31) /\ SameCurr(c20, c31)
  BY <1>34, <1>1, <1>2, BootZero DEF SameLimits, SameCurr
<1> HIDE DEF c31
<1>36. /\ c.pstart = PStart /\ c.pstop = PStop /\ c.bnry = PStart /\ c.curr = first
  BY <1>0, <1>14, <1>24, <1>35 DEF SameLimits, SameCurr
<1>37. QED BY <1>0, <1>35, <1>36, <1>40 DEF Booting, Bounded, first

LEMMA InitKeeps ==
    ASSUME Init
    PROVE  IInv
<1>1. PICK tpsr \in {0, TxPage} : chip = InitNormal(tpsr)
  BY DEF Init
<1>2. chip \in Chip /\ Rested(chip) /\ Bounded(chip) /\ chip.wire = NoFrame
  BY <1>1, InitBoots
<1>3. /\ pc = "idle" /\ reg = NoReg /\ shadow = PStart /\ held = <<>> /\ arrived = 0
      /\ faults = 0 /\ sending = NoFrame /\ told = "none"
  BY DEF Init
<1>4. PStart \in Ring /\ NoFrame \in Frame /\ NoFrame.id = 0
  BY RingAssumption, WordMember DEF Ring, NoFrame, Frame
<1>5. MaxFrames \in Nat /\ MaxFaults \in Nat
  BY NicAssumption
<1>6. TypeInv
  BY <1>3, <1>4, <1>5, RegTyped DEF TypeInv, Labels
<1>7. CallInv
  BY <1>3 DEF CallInv
<1>8. SendInv
  BY <1>2, <1>3, <1>4 DEF SendInv, SentLabels
<1>9. QED BY <1>2, <1>6, <1>7, <1>8 DEF IInv, ChipInv

LEMMA StutterKeeps ==
    ASSUME IInv, UNCHANGED vars
    PROVE  IInv'
BY DEF vars, IInv, ChipInv, Rested, Bounded, TypeInv, CallInv, SendInv, Buffered, LengthSet,
       Commanded, Left, WrongPage, Stayed, Page, StatusClear

LEMMA NextKeeps ==
    ASSUME IInv, [Next]_vars
    PROVE  IInv'
<1>1. CASE Network
  BY <1>1, ArriveKeeps DEF Network
<1>2. CASE Poll \/ Commit \/ SendFrame
  BY <1>2, PollKeeps, CommitKeeps, SendFrameKeeps DEF Commit
<1>3. CASE Receiving
  BY <1>3, SelectKeeps, CurrKeeps, SelectPage0Keeps, DecideKeeps, IsrKeeps, MonitorKeeps,
     StopKeeps, RestartKeeps, PacketKeeps, HeaderKeeps, BadKeeps, BodyKeeps, RestKeeps,
     ReadDoneKeeps, PeekDoneKeeps
     DEF Receiving
<1>4. CASE Sending
  BY <1>4, WriteKeeps, LengthKeeps, ClearKeeps, TransmitKeeps, WaitKeeps DEF Sending
<1>5. CASE UNCHANGED vars
  BY <1>5, StutterKeeps
<1>6. QED BY <1>1, <1>2, <1>3, <1>4, <1>5 DEF Next, Code

-----------------------------------------------------------------------------
(* The theorems.                                                           *)

LEMMA InvTyped ==
    ASSUME IInv
    PROVE  TypeOK
<1>1. {chip.cr, chip.isr, chip.curr, chip.bnry, chip.bus} \subseteq Byte
  BY DEF IInv, ChipInv, Chip, Byte
<1>2. {chip.rsar, chip.rbcr} \subseteq Word
  BY DEF IInv, ChipInv, Chip
<1>3. held \in Seq([frame : 0 .. MaxFrames, part : Nat, next : Byte, pages : Nat])
  <2>1. Token \subseteq [frame : 0 .. MaxFrames, part : Nat, next : Byte, pages : Nat]
    BY RegTyped DEF Header, Byte
  <2>2. held \in Seq(Token)
    BY DEF IInv, TypeInv
  <2>3. QED BY <2>1, <2>2, SeqMonotonic
<1>4. QED BY <1>1, <1>2, <1>3 DEF IInv, TypeInv, TypeOK

\* The driver's boundary and every header it keeps stay values of the ring, and
\* every register keeps its width, whatever is lost, damaged or misread.
THEOREM TypeCorrect == Spec => []TypeOK
<1>1. Init => IInv
  BY InitKeeps
<1>2. IInv /\ [Next]_vars => IInv'
  BY NextKeeps
<1>3. IInv => TypeOK
  BY InvTyped
<1>4. QED BY <1>1, <1>2, <1>3, PTL DEF Spec

\* No other action returns from SEND_FRAME.
LEMMA OthersSilent ==
    ASSUME Network \/ Poll \/ Commit \/ SendFrame \/ Receiving
    PROVE  pc' = "idle" => pc \notin {"write", "clear", "ptx"}
<1>1. CASE Network
  BY <1>1 DEF Network, Arrive, sendVars
<1>2. CASE Poll \/ Commit \/ SendFrame
  BY <1>2 DEF Poll, Commit, CommitPacket, SendFrame, sendVars, Goto
<1>3. CASE Receiving
  <2>1. CASE \/ \E lost \in BOOLEAN, missed \in [1 .. 4 -> BOOLEAN] : SelectTry(lost, missed)
             \/ \E missed, flipped \in BOOLEAN :
                   CurrFirst(missed, flipped) \/ CurrAgain(missed, flipped)
             \/ SelectPage0 \/ Decide
             \/ \E missed \in BOOLEAN : IsrFirst(missed) \/ IsrAgain(missed)
    BY <2>1 DEF SelectTry, CurrFirst, CurrAgain, CurrRead, SelectPage0, Decide,
                IsrFirst, IsrAgain, IsrRead, sendVars
  <2>2. CASE MonitorMode \/ \E lost \in BOOLEAN : StopChip(lost) \/ RestartChip(lost)
    BY <2>2 DEF MonitorMode, StopChip, RestartChip, sendVars
  <2>3. CASE \/ \E peek \in BOOLEAN : PacketCall(peek)
             \/ \E harm \in {"none", "status", "next"}, lost \in BOOLEAN : ReadHeader(harm, lost)
             \/ \E lost \in BOOLEAN :
                   BadHeader(lost) \/ ReadBody(lost) \/ ReadRest(lost) \/ ReadDone(lost)
             \/ PeekDone
    <3>1. pc \in {"packet", "header", "bad", "body", "rest", "done"}
      BY <2>3 DEF PacketCall, ReadHeader, BadHeader, ReadBody, ReadRest, ReadDone, PeekDone
    <3>2. QED BY <3>1
  <2>4. QED BY <1>3, <2>1, <2>2, <2>3 DEF Receiving
<1>4. QED BY <1>1, <1>2, <1>3

\* What SentIsTrue says of a step.
Truthful ==
    pc' = "idle" /\ pc \in {"write", "clear", "ptx"} =>
          LET inCall == faults' - reg.before
          IN  /\ told' = "failed" => chip.wire.id # sending.id
              /\ told' = "sent" /\ inCall <= 1 /\ chip.tpsr = TxPage =>
                    chip.wire.id = sending.id /\ chip.wire.prefix
              /\ told' = "sent" /\ inCall = 0 => chip.wire = sending

LEMMA StepTruthful ==
    ASSUME IInv, [Next]_vars
    PROVE  [Truthful]_vars
<1>1. CASE Network \/ Poll \/ Commit \/ SendFrame \/ Receiving
  BY <1>1, OthersSilent DEF Truthful
<1>2. CASE Sending
  <2>1. ASSUME NEW harm \in {"none", "prefix", "rest"}, NEW lost \in BOOLEAN,
               WriteFrame(harm, lost)
        PROVE  Truthful
    BY <2>1, WriteKeeps DEF Truthful
  <2>2. ASSUME NEW lost \in [1 .. 3 -> BOOLEAN], SetLength(lost)
        PROVE  Truthful
    BY <2>2 DEF Truthful, SetLength, Goto
  <2>3. ASSUME NEW lost \in BOOLEAN, NEW missed \in BOOLEAN, ClearStatus(lost, missed)
        PROVE  Truthful
    BY <2>3, ClearKeeps DEF Truthful
  <2>4. ASSUME NEW lost \in BOOLEAN, NEW fails \in BOOLEAN, Transmit(lost, fails)
        PROVE  Truthful
    BY <2>4 DEF Truthful, Transmit, Goto
  <2>5. ASSUME NEW lost \in BOOLEAN, NEW missed \in [1 .. 3 -> BOOLEAN], WaitPtx(lost, missed)
        PROVE  Truthful
    BY <2>5, WaitKeeps DEF Truthful
  <2>6. QED BY <1>2, <2>1, <2>2, <2>3, <2>4, <2>5 DEF Sending
<1>3. CASE UNCHANGED vars
  BY <1>3
<1>4. QED BY <1>1, <1>2, <1>3 DEF Next, Code

\* What SEND_FRAME returns, for any frames, tries and faults of a run: "failed"
\* is never said of a frame that has left; "sent" is right while one cycle of
\* the call at most was faulty and TPSR points to the frame, and means the frame
\* as it was built, of its length, when none was.  No terminal bit of an earlier
\* frame is taken for this one's, however many writes that clear it were lost.
THEOREM SentTrue == Spec => SentIsTrue
<1>1. Init => IInv
  BY InitKeeps
<1>2. IInv /\ [Next]_vars => IInv'
  BY NextKeeps
<1>3. IInv /\ [Next]_vars => [Truthful]_vars
  BY StepTruthful
<1>4. Spec => [][Truthful]_vars
  BY <1>1, <1>2, <1>3, PTL DEF Spec
<1>5. QED BY <1>4 DEF SentIsTrue, Truthful

-----------------------------------------------------------------------------
(* The registers behind page 1.  Page 1 stays selected past a poll only when *)
(* every try of SELECT_PAGE has lost its write, and then no fault is left   *)
(* to lose the write of SEND_FRAME that selects page 0 again.               *)

PageInv ==
    /\ chip.par = Mac /\ chip.mar = [k \in 0 .. 7 |-> 0]
    /\ chip.curr \in Ring /\ chip.bnry \in Ring
    /\ pc \notin {"idle"} \cup SentLabels => held = <<>>
    /\ Page(chip) = 1 =>
          \/ pc \in {"select", "curr1", "curr2", "page0"}
          \/ pc \in {"idle", "write"} /\ held = <<>> /\ faults >= SelectTries
    /\ pc = "select" /\ reg.after = "decide" /\ Page(chip) = 1 =>
          faults + reg.tries >= SelectTries

\* Fewer faults than cut the driver off from page 0.  Both bounds are sharp: as
\* many lost cycles as tries leave page 1 selected and one more loses the write
\* that goes back, and a lost write with three lost reads passes for page 0.
FewFaults == MaxFaults <= SelectTries /\ MaxFaults <= 3

LEMMA InitPage ==
    ASSUME Init
    PROVE  PageInv
<1>1. PICK tpsr \in {0, TxPage} : chip = InitNormal(tpsr)
  BY DEF Init
<1>2. /\ chip.par = Mac /\ chip.mar = [k \in 0 .. 7 |-> 0]
      /\ chip.curr \in Ring /\ chip.bnry \in Ring /\ Page(chip) = 0
  BY <1>1, InitBoots
<1>3. pc = "idle"
  BY DEF Init
<1>4. QED BY <1>2, <1>3 DEF PageInv

\* A step that begins and ends on page 0.
LEMMA StraightKeeps ==
    ASSUME PageInv, NEW bnry \in Ring, Moved(chip, chip', bnry), Page(chip') = 0,
           pc' \notin {"idle"} \cup SentLabels => held' = <<>>
    PROVE  PageInv'
<1>1. /\ chip'.par = Mac /\ chip'.mar = [k \in 0 .. 7 |-> 0]
      /\ chip'.curr \in Ring /\ chip'.bnry \in Ring
  BY DEF PageInv, Moved
<1>2. Page(chip)' = 0
  BY DEF Page
<1>3. QED BY <1>1, <1>2 DEF PageInv

\* A step that leaves the page and the faults alone.
LEMMA ElsewhereKeeps ==
    ASSUME PageInv, Aligned(chip, chip'), Page(chip') = Page(chip),
           pc' \notin {"idle"} \cup SentLabels => held' = <<>>,
           Page(chip) = 1 => pc' \in {"select", "curr1", "curr2", "page0"},
           pc' = "select" /\ reg'.after = "decide" => faults' + reg'.tries >= SelectTries
    PROVE  PageInv'
<1>1. /\ chip'.par = Mac /\ chip'.mar = [k \in 0 .. 7 |-> 0]
      /\ chip'.curr \in Ring /\ chip'.bnry \in Ring
  BY DEF PageInv, Aligned, Moved
<1>2. Page(chip)' = Page(chip)
  BY DEF Page
<1>3. QED BY <1>1, <1>2 DEF PageInv

LEMMA ArrivePage ==
    ASSUME IInv, PageInv, NEW dest, NEW pages \in Sizes, Arrive(dest, pages)
    PROVE  PageInv'
<1>1. pages \in Byte \ {0} /\ MaxFrames \in Nat
  BY NicAssumption, RingAssumption DEF Byte
<1>2. UNCHANGED <<pc, reg, held, faults>>
  BY DEF Arrive
<1>3. /\ chip'.cr = chip.cr /\ chip'.par = chip.par /\ chip'.mar = chip.mar
      /\ chip'.curr \in Ring /\ chip'.bnry \in Ring
  <2>1. CASE Fits(chip, pages)
    <3>1. chip' = Store(chip, arrived + 1, pages)
      BY <2>1 DEF Arrive
    <3>2. arrived + 1 \in 0 .. MaxFrames
      BY <1>1 DEF Arrive, IInv, TypeInv
    <3>3. QED BY <1>1, <3>1, <3>2, StoreTyped DEF IInv, ChipInv, PageInv
  <2>2. CASE ~Fits(chip, pages)
    <3>1. chip' = Halt(chip)
      BY <2>2 DEF Arrive
    <3>2. Aligned(chip, chip') /\ chip'.cr = chip.cr
      BY <3>1, HaltTyped DEF IInv, ChipInv
    <3>3. QED BY <3>2 DEF Aligned, Moved, PageInv
  <2>3. QED BY <2>1, <2>2
<1>4. QED BY <1>2, <1>3 DEF PageInv, Page

LEMMA SelectPage ==
    ASSUME FewFaults, IInv, PageInv, NEW lost \in BOOLEAN, NEW missed \in [1 .. 4 -> BOOLEAN],
           SelectTry(lost, missed)
    PROVE  PageInv'
<1>1. /\ pc = "select" /\ UNCHANGED held /\ held = <<>>
      /\ \/ reg.want = Page0Start /\ reg.after = "decide"
         \/ reg.want = Page1Start /\ reg.after = "curr1"
      /\ reg \in Reg /\ reg.tries \in Nat /\ reg.tries > 0
  BY DEF SelectTry, ringVars, IInv, TypeInv, CallInv, PageInv, Reg, SentLabels
<1>2. /\ Aligned(chip, chip') /\ Keeps(chip, chip')
      /\ IF lost THEN Page(chip') = Page(chip) ELSE Page(chip') = reg.want \div 64
      /\ faults' \in 0 .. MaxFaults /\ (lost => faults' >= faults + 1)
      /\ \/ pc' = reg.after /\ reg' = [reg EXCEPT !.after = "none"]
            /\ (chip.par = Mac /\ reg.want = Page0Start /\ Page(chip') = 1 => faults' >= 4)
         \/ pc' = "select" /\ reg.tries > 1 /\ reg' = [reg EXCEPT !.tries = reg.tries - 1]
         \/ pc' = "page0" /\ reg.after = "curr1" /\ reg' = [reg EXCEPT !.c = AllBits]
         \/ pc' = "idle" /\ reg.after = "decide" /\ reg.tries = 1 /\ reg' = NoReg
  BY SelectEffect
<1>3. /\ SelectTries \in Nat /\ MaxFaults \in Nat /\ MaxFaults <= 3
      /\ faults \in 0 .. MaxFaults /\ chip.par = Mac
  BY NicAssumption DEF FewFaults, IInv, TypeInv, PageInv
<1>4. Page(chip') \in {0, 1}
  BY <1>2 DEF Keeps, Chip, Page
<1>5. CASE Page(chip') = 0
  BY <1>1, <1>2, <1>5, StraightKeeps DEF Aligned, PageInv
<1>6. CASE Page(chip') = 1 /\ reg.after = "curr1"
  <2>1. pc' \in {"select", "curr1", "page0"} /\ (pc' = "select" => reg'.after = "curr1")
    BY <1>1, <1>2, <1>6 DEF Reg
  <2>2. /\ chip'.par = Mac /\ chip'.mar = [k \in 0 .. 7 |-> 0]
        /\ chip'.curr \in Ring /\ chip'.bnry \in Ring
    BY <1>2 DEF PageInv, Aligned, Moved
  <2>3. QED BY <1>1, <2>1, <2>2 DEF PageInv
<1>7. CASE Page(chip') = 1 /\ reg.after = "decide"
  <2>1. lost /\ Page(chip) = 1 /\ reg.want = Page0Start
    BY <1>1, <1>2, <1>7 DEF Page0Start
  <2>2. faults + reg.tries >= SelectTries /\ faults' >= faults + 1 /\ ~(faults' >= 4)
    BY <1>1, <1>2, <1>3, <1>7, <2>1 DEF PageInv
  <2>3. /\ chip'.par = Mac /\ chip'.mar = [k \in 0 .. 7 |-> 0]
        /\ chip'.curr \in Ring /\ chip'.bnry \in Ring
    BY <1>2 DEF PageInv, Aligned, Moved
  <2>4. \/ pc' = "select" /\ reg' = [reg EXCEPT !.tries = reg.tries - 1]
        \/ pc' = "idle" /\ reg.tries = 1
    BY <1>2, <1>3, <1>7, <2>1, <2>2
  <2>5. CASE pc' = "select" /\ reg' = [reg EXCEPT !.tries = reg.tries - 1]
    <3>1. reg'.tries = reg.tries - 1
      BY <1>1, <2>5 DEF Reg
    <3>2. faults' + reg'.tries >= SelectTries
      BY <1>1, <1>2, <1>3, <2>2, <3>1
    <3>3. QED BY <1>1, <2>3, <2>5, <3>2 DEF PageInv
  <2>6. CASE pc' = "idle" /\ reg.tries = 1
    <3>1. faults' >= SelectTries
      BY <1>1, <1>2, <1>3, <2>2, <2>6
    <3>2. QED BY <1>1, <2>3, <2>6, <3>1 DEF PageInv
  <2>7. QED BY <2>4, <2>5, <2>6
<1>8. QED BY <1>1, <1>4, <1>5, <1>6, <1>7

LEMMA CallsPage ==
    ASSUME IInv, PageInv, Poll \/ SelectPage0 \/ Decide \/ SendFrame \/ PeekDone
                          \/ (\E peek \in BOOLEAN : PacketCall(peek))
    PROVE  PageInv'
<1>1. UNCHANGED <<chip, faults>>
  BY DEF Poll, SelectPage0, Decide, SendFrame, PeekDone, PacketCall
<1>2. Aligned(chip, chip') /\ Page(chip') = Page(chip)
  BY <1>1 DEF Aligned, Moved
<1>3. Page(chip) \in {0, 1}
  BY DEF IInv, ChipInv, Chip, Page
<1>4. CASE Poll
  <2>1. pc' = "select" /\ held' = <<>> /\ reg'.after = "curr1"
    BY <1>4 DEF Poll, NoReg
  <2>2. QED BY <1>2, <2>1, ElsewhereKeeps
<1>5. CASE SelectPage0
  <2>1. pc = "page0" /\ held' = held /\ pc' = "select"
    BY <1>5 DEF SelectPage0, Call, ringVars
  <2>2. faults + SelectTries >= SelectTries /\ reg'.tries = SelectTries
    <3>1. faults \in Nat /\ SelectTries \in Nat /\ reg \in Reg
      BY NicAssumption DEF IInv, TypeInv
    <3>2. QED BY <1>5, <3>1 DEF SelectPage0, Call, Reg
  <2>3. held' = <<>>
    BY <2>1 DEF PageInv, SentLabels
  <2>4. QED BY <1>1, <1>2, <2>1, <2>2, <2>3, ElsewhereKeeps
<1>6. CASE Decide \/ \E peek \in BOOLEAN : PacketCall(peek)
  <2>1. pc \in {"decide", "packet"} /\ held' = held
    BY <1>6 DEF Decide, PacketCall, ringVars
  <2>2. Page(chip) = 0 /\ held' = <<>>
    BY <1>3, <2>1 DEF PageInv, SentLabels
  <2>3. QED BY <1>2, <2>2, StraightKeeps DEF Aligned, PageInv
<1>7. CASE SendFrame
  <2>1. pc = "idle" /\ pc' = "write" /\ held' = held
    BY <1>7 DEF SendFrame, Goto, ringVars
  <2>2. Page(chip)' = Page(chip)
    BY <1>1 DEF Page
  <2>3. QED BY <1>1, <2>1, <2>2 DEF PageInv, SentLabels
<1>8. CASE PeekDone
  <2>1. pc = "done" /\ pc' = "idle"
    BY <1>8 DEF PeekDone, Return
  <2>2. Page(chip) = 0
    BY <1>3, <2>1 DEF PageInv
  <2>3. QED BY <1>2, <2>1, <2>2, StraightKeeps DEF Aligned, PageInv
<1>9. QED BY <1>4, <1>5, <1>6, <1>7, <1>8

LEMMA ReadsPage ==
    ASSUME IInv, PageInv,
           \/ \E missed, flipped \in BOOLEAN :
                 CurrFirst(missed, flipped) \/ CurrAgain(missed, flipped)
           \/ \E missed \in BOOLEAN : IsrFirst(missed) \/ IsrAgain(missed)
    PROVE  PageInv'
<1>1. Page(chip) \in {0, 1}
  BY DEF IInv, ChipInv, Chip, Page
<1>2. CASE \E missed, flipped \in BOOLEAN :
              CurrFirst(missed, flipped) \/ CurrAgain(missed, flipped)
  <2>1. OnlyBus(chip, chip')
    BY <1>2, CurrKeeps
  <2>2. Aligned(chip, chip') /\ Page(chip') = Page(chip)
    BY <2>1, OnlyBusKeeps
  <2>3. pc \in {"curr1", "curr2"} /\ pc' \in {"curr2", "page0"} /\ held' = held
    BY <1>2 DEF CurrFirst, CurrAgain, CurrRead, Goto, ringVars
  <2>4. held' = <<>>
    BY <2>3 DEF PageInv, SentLabels
  <2>5. QED BY <2>2, <2>3, <2>4, ElsewhereKeeps
<1>3. CASE \E missed \in BOOLEAN : IsrFirst(missed) \/ IsrAgain(missed)
  <2>1. OnlyBus(chip, chip')
    BY <1>3, IsrKeeps
  <2>2. Aligned(chip, chip') /\ Page(chip') = Page(chip)
    BY <2>1, OnlyBusKeeps
  <2>3. pc \in {"isr1", "isr2"} /\ held' = held
    BY <1>3 DEF IsrFirst, IsrAgain, IsrRead, ringVars
  <2>4. Page(chip) = 0 /\ held' = <<>>
    BY <1>1, <2>3 DEF PageInv, SentLabels
  <2>5. QED BY <2>2, <2>4, StraightKeeps DEF Aligned, PageInv
<1>4. QED BY <1>2, <1>3

LEMMA WorkPage ==
    ASSUME IInv, PageInv, NEW lost \in BOOLEAN,
           \/ MonitorMode \/ StopChip(lost) \/ RestartChip(lost)
           \/ (\E harm \in {"none", "status", "next"} : ReadHeader(harm, lost))
           \/ BadHeader(lost) \/ ReadBody(lost) \/ ReadRest(lost) \/ ReadDone(lost)
    PROVE  PageInv'
<1>1. /\ pc \in {"monitor", "stop", "restart", "header", "bad", "body", "rest", "done"}
      /\ held' = held
  BY DEF MonitorMode, StopChip, RestartChip, ReadHeader, BadHeader, ReadBody, ReadRest,
         ReadDone, ringVars
<1>2. Page(chip) \in {0, 1}
  BY DEF IInv, ChipInv, Chip, Page
<1>3. Page(chip) = 0 /\ held' = <<>>
  BY <1>1, <1>2 DEF PageInv, SentLabels
<1>4. Page0Start \div 64 = 0
  BY DEF Page0Start
<1>5. CASE MonitorMode
  BY <1>3, <1>5, MonitorKeeps, StraightKeeps DEF Page, Aligned, PageInv
<1>6. CASE StopChip(lost)
  BY <1>3, <1>6, StopKeeps, StraightKeeps DEF Aligned, PageInv
<1>7. CASE RestartChip(lost)
  <2>1. Moved(chip, chip', shadow) /\ Page(chip') = 0 /\ shadow \in Ring
    BY <1>3, <1>7, RestartKeeps DEF IInv, TypeInv
  <2>2. QED BY <1>3, <2>1, StraightKeeps
<1>8. CASE \E harm \in {"none", "status", "next"} : ReadHeader(harm, lost)
  BY <1>3, <1>4, <1>8, HeaderKeeps, StraightKeeps DEF Page, Aligned, PageInv
<1>9. CASE BadHeader(lost)
  <2>1. Moved(chip, chip', shadow') /\ chip'.cr = chip.cr /\ shadow' \in Ring
    BY <1>3, <1>9, BadKeeps DEF IInv, TypeInv
  <2>2. QED BY <1>3, <2>1, StraightKeeps DEF Page
<1>10. CASE ReadBody(lost)
  BY <1>3, <1>4, <1>10, BodyKeeps, StraightKeeps DEF Page, Aligned, PageInv
<1>11. CASE ReadRest(lost)
  BY <1>3, <1>4, <1>11, RestKeeps, StraightKeeps DEF Page, Aligned, PageInv
<1>12. CASE ReadDone(lost)
  <2>1. Moved(chip, chip', shadow') /\ chip'.cr = chip.cr /\ shadow' \in Ring
    BY <1>3, <1>12, ReadDoneKeeps DEF IInv, TypeInv
  <2>2. QED BY <1>3, <2>1, StraightKeeps DEF Page
<1>13. QED BY <1>5, <1>6, <1>7, <1>8, <1>9, <1>10, <1>11, <1>12

\* Another try, the transmission or the failure.
LEMMA WriteGoesOn ==
    ASSUME IInv, NEW harm \in {"none", "prefix", "rest"}, NEW lost \in BOOLEAN,
           WriteFrame(harm, lost)
    PROVE  pc = "write" /\ pc' \in {"length", "write", "idle"}
<1>1. pc = "write" /\ (reg.tries > 1 \/ reg.tries = 1)
  BY DEF WriteFrame, IInv, TypeInv, CallInv, Reg
<1> DEFINE t == [sending EXCEPT !.prefix = harm # "prefix", !.rest = harm # "rest"]
<1>2. CASE PrefixRight(t)
  BY <1>1, <1>2 DEF WriteFrame, Goto
<1>3. CASE ~PrefixRight(t) /\ reg.tries > 1
  <2>1. reg.tries # 1
    BY <1>3
  <2>2. QED BY <1>1, <1>3, <2>1 DEF WriteFrame, Goto
<1>4. CASE ~PrefixRight(t) /\ reg.tries = 1
  BY <1>1, <1>4 DEF WriteFrame, Fail, Return
<1>5. QED BY <1>1, <1>2, <1>3, <1>4

\* On page 1 no fault is left to lose the write that selects page 0.
LEMMA WriteOnPage0 ==
    ASSUME FewFaults, IInv, PageInv, NEW harm \in {"none", "prefix", "rest"},
           NEW lost \in BOOLEAN, WriteFrame(harm, lost)
    PROVE  ~(lost /\ Page(chip) = 1)
<1>1. lost => faults' >= faults + 1 /\ faults' <= MaxFaults
  BY NicAssumption DEF WriteFrame, IInv, TypeInv
<1>2. Page(chip) = 1 => faults >= SelectTries
  BY WriteGoesOn DEF PageInv
<1>3. SelectTries \in Nat /\ MaxFaults \in Nat /\ faults \in Nat /\ faults' \in Nat
  BY NicAssumption DEF WriteFrame, IInv, TypeInv
<1>4. QED BY <1>1, <1>2, <1>3 DEF FewFaults

LEMMA SendingPage ==
    ASSUME FewFaults, IInv, PageInv, Sending
    PROVE  PageInv'
<1>1. Page(chip) \in {0, 1}
  BY DEF IInv, ChipInv, Chip, Page
<1>2. ASSUME NEW harm \in {"none", "prefix", "rest"}, NEW lost \in BOOLEAN,
             WriteFrame(harm, lost)
      PROVE  PageInv'
  <2>1. pc = "write" /\ pc' \in {"length", "write", "idle"}
    BY <1>2, WriteGoesOn
  <2>2. ~(lost /\ Page(chip) = 1)
    BY <1>2, WriteOnPage0
  <2>3. Aligned(chip, chip') /\ Page(chip') = 0
    BY <1>2, <2>2, WriteEffect DEF Page, Page0Start
  <2>4. QED BY <2>1, <2>3, StraightKeeps DEF SentLabels, Aligned, PageInv
<1>3. ASSUME NEW lost \in BOOLEAN, NEW missed \in BOOLEAN, ClearStatus(lost, missed)
      PROVE  PageInv'
  <2>1. pc' \in {"txp", "clear", "idle"} /\ Aligned(chip, chip') /\ Page(chip') = 0
    BY <1>3, ClearEffect
  <2>2. QED BY <2>1, StraightKeeps DEF SentLabels, Aligned, PageInv
<1>4. ASSUME NEW lost \in BOOLEAN, NEW fails \in BOOLEAN, Transmit(lost, fails)
      PROVE  PageInv'
  <2>1. pc' = "ptx"
    BY <1>4 DEF Transmit, Goto
  <2>2. QED BY <1>4, <2>1, TransmitKeeps, StraightKeeps DEF SentLabels, Aligned, PageInv
<1>5. ASSUME NEW lost \in BOOLEAN, NEW missed \in [1 .. 3 -> BOOLEAN], WaitPtx(lost, missed)
      PROVE  PageInv'
  <2>1. pc' = "idle"
    BY <1>5 DEF WaitPtx, Return
  <2>2. QED BY <1>5, <2>1, WaitKeeps, StraightKeeps DEF Aligned, PageInv
<1>6. ASSUME NEW lost \in [1 .. 3 -> BOOLEAN], SetLength(lost)
      PROVE  PageInv'
  <2>1. pc' = "clear"
    BY <1>6 DEF SetLength, Goto
  <2>2. QED BY <1>6, <2>1, LengthEffect, StraightKeeps DEF SentLabels, Aligned, PageInv
<1>7. QED BY <1>2, <1>3, <1>4, <1>5, <1>6 DEF Sending

LEMMA NextPageInv ==
    ASSUME FewFaults, IInv, PageInv, [Next]_vars
    PROVE  PageInv'
<1>1. CASE Network
  BY <1>1, ArrivePage DEF Network
<1>2. CASE Poll \/ SendFrame
  BY <1>2, CallsPage
<1>3. CASE Commit
  <2>1. PICK lost \in BOOLEAN : CommitPacket(lost)
    BY <1>3 DEF Commit
  <2>2. pc = "idle" /\ pc' = "idle" /\ held # <<>>
    BY <2>1 DEF CommitPacket
  <2>3. Page(chip) = 0
    <3>1. Page(chip) \in {0, 1}
      BY DEF IInv, ChipInv, Chip, Page
    <3>2. QED BY <2>2, <3>1 DEF PageInv
  <2>4. Moved(chip, chip', shadow') /\ chip'.cr = chip.cr /\ shadow' \in Ring
    BY <2>1, <2>3, CommitKeeps DEF IInv, TypeInv
  <2>5. QED BY <2>2, <2>3, <2>4, StraightKeeps DEF Page
<1>4. CASE Receiving
  BY <1>4, SelectPage, CallsPage, ReadsPage, WorkPage DEF Receiving
<1>5. CASE Sending
  BY <1>5, SendingPage
<1>6. CASE UNCHANGED vars
  BY <1>6 DEF vars, PageInv, Page
<1>7. QED BY <1>1, <1>2, <1>3, <1>4, <1>5, <1>6 DEF Next, Code

\* The address, the multicast filter and the bounds of the ring stay what
\* INIT_NORMAL wrote, and CURR and BNRY in the ring: no write meant for page 0
\* is made while page 1 is selected.
THEOREM Intact ==
    ASSUME FewFaults
    PROVE  Spec => []RegistersIntact
<1>1. Init => IInv /\ PageInv
  BY InitKeeps, InitPage
<1>2. IInv /\ PageInv /\ [Next]_vars => (IInv /\ PageInv)'
  BY NextKeeps, NextPageInv
<1>3. IInv /\ PageInv => RegistersIntact
  BY DEF IInv, ChipInv, Bounded, PageInv, RegistersIntact
<1>4. QED BY <1>1, <1>2, <1>3, PTL DEF Spec

=============================================================================
