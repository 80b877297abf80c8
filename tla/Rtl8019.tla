------------------------------ MODULE Rtl8019 ------------------------------
(***************************************************************************)
(* The RTL8019AS/DP8390 network card as the program tests model it         *)
(* (tools/exe-harness/rtl8019-model.js).  A chip is a record c with a      *)
(* field for each register the driver's normal operation reaches; an       *)
(* access is an operator from chips to chips.  bus is lastBus: what the    *)
(* last register cycle left on the data lines, which is what the host      *)
(* reads when the chip sits a cycle out.                                   *)
(*                                                                         *)
(* Packet memory: ram maps a page of the receive ring to a token that says *)
(* which frame and which part of it is stored there; the token of a first  *)
(* page carries the header's next page and the frame's size in pages.  tx  *)
(* is the frame in the transmit buffer.                                    *)
(***************************************************************************)
EXTENDS Integers, Sequences, FiniteSets

CONSTANTS
    PStart,        \* first page of the receive ring
    PStop,         \* the page behind its last
    RstOnStop      \* quirks.isrRstOnStop

ASSUME RingAssumption ==
    /\ PStart \in 65 .. 252 /\ PStop \in (PStart + 3) .. 255
    /\ RstOnStop \in BOOLEAN

Ring == PStart .. PStop - 1
TxPage == 64                \* RTL_TPSR_INIT
Mac == <<2, 128, 25, 17, 34, 51>>

\* The bits of the interrupt status.
PRX == 1  PTX == 2  RXE == 4  TXE == 8  OVW == 16  RDC == 64  RST == 128
Has(v, bit) == (v \div bit) % 2 = 1
Set(v, bit) == IF Has(v, bit) THEN v ELSE v + bit
\* v with the bits of ones cleared.
Cleared(v, ones) ==
    LET both(bit) == IF Has(v, bit) /\ Has(ones, bit) THEN bit ELSE 0
    IN  v - both(1) - both(2) - both(4) - both(8)
          - both(16) - both(32) - both(64) - both(128)

\* The offsets of the registers (page 0 when a page is not named).
CR == 0  PSTART == 1  PSTOP == 2  BNRY == 3  TPSR == 4  TBCR0 == 5  TBCR1 == 6
ISR == 7  RSAR0 == 8  RSAR1 == 9  RBCR0 == 10  RBCR1 == 11  RCR == 12  TCR == 13
DCR == 14  IMR == 15
PAR0 == 1  CURR == 7  MAR0 == 8       \* page 1

Poison == [frame |-> 0, part |-> 0, next |-> 170, pages |-> 0]
NoFrame == [id |-> 0, prefix |-> TRUE, rest |-> TRUE, bytes |-> 0]

PowerOn ==
    [cr |-> 33, isr |-> 0, curr |-> 0, bnry |-> 0, pstart |-> 0, pstop |-> 0,
     par |-> Mac, mar |-> [k \in 0 .. 7 |-> 0], rcr |-> 0, tcr |-> 0, dcr |-> 0,
     imr |-> 0, tpsr |-> 0, tbcr |-> 0, rsar |-> 0, rbcr |-> 0, crda |-> 0,
     dma |-> "idle", stopped |-> FALSE, rxHalted |-> FALSE, bus |-> 255,
     ram |-> [p \in Ring |-> Poison], tx |-> NoFrame, wire |-> NoFrame]

-----------------------------------------------------------------------------
(* The command register. *)

\* A transmission: TBCR bytes from TPSR on leave the card, or it reports an
\* error.  TXP clears itself.
DoTransmit(c, fails) ==
    [c EXCEPT !.isr = Set(@, IF fails THEN TXE ELSE PTX),
              !.wire = CASE fails -> @
                         [] ~fails /\ c.tpsr = TxPage -> [c.tx EXCEPT !.bytes = c.tbcr]
                         [] ~fails /\ c.tpsr # TxPage -> NoFrame,
              !.cr = Cleared(@, 4)]

\* STP stops; STA after a stop restarts the receiver.
StopOrStart(c, v) ==
    CASE Has(v, 1) ->
            [c EXCEPT !.stopped = TRUE, !.isr = IF RstOnStop THEN Set(@, RST) ELSE @]
      [] ~Has(v, 1) /\ Has(v, 2) /\ c.stopped ->
            [c EXCEPT !.stopped = FALSE, !.rxHalted = FALSE]
      [] OTHER -> c

RemoteDma(c, rd) ==
    LET at == IF c.dma = "idle" THEN c.rsar ELSE c.crda
    IN  CASE rd \in {1, 2} /\ c.rbcr = 0 ->
                [c EXCEPT !.crda = at, !.dma = "idle", !.isr = Set(@, RDC)]
          [] rd \in {1, 2} /\ c.rbcr > 0 ->
                [c EXCEPT !.crda = at, !.dma = IF rd = 1 THEN "read" ELSE "write"]
          [] rd = 4 -> [c EXCEPT !.dma = "idle"]
          [] OTHER -> c

WriteCr(c, v, fails) ==
    LET after == RemoteDma(StopOrStart([c EXCEPT !.cr = v], v), (v \div 8) % 8)
    IN  IF Has(v, 4) THEN DoTransmit(after, fails) ELSE after

-----------------------------------------------------------------------------
(* The register file. *)

Page(c) == c.cr \div 64
MaxWord == 65535
Byte == 0 .. 255
Word == 0 .. MaxWord
LowByte(w) == w % 256
HighByte(w) == w \div 256
WithLow(w, v) == 256 * HighByte(w) + v
WithHigh(w, v) == 256 * v + LowByte(w)

ReadRaw(c, off) ==
    CASE off = CR -> c.cr
      [] off # CR /\ Page(c) = 0 ->
            << LowByte(c.crda), HighByte(c.crda), c.bnry, 1, 0, 0, c.isr,
               LowByte(c.crda), HighByte(c.crda), 80, 112, 0, 0, 0, 0 >>[off]
      [] off # CR /\ Page(c) = 1 ->
            CASE off < CURR -> c.par[off]
              [] off = CURR -> c.curr
              [] off > CURR -> c.mar[off - MAR0]

WritePage0(c, off, v) ==
    CASE off = PSTART -> [c EXCEPT !.pstart = v]
      [] off = PSTOP -> [c EXCEPT !.pstop = v]
      [] off = BNRY -> [c EXCEPT !.bnry = v]
      [] off = TPSR -> [c EXCEPT !.tpsr = v]
      [] off = TBCR0 -> [c EXCEPT !.tbcr = WithLow(@, v)]
      [] off = TBCR1 -> [c EXCEPT !.tbcr = WithHigh(@, v)]
      [] off = ISR -> [c EXCEPT !.isr = Cleared(@, v)]
      [] off = RSAR0 -> [c EXCEPT !.rsar = WithLow(@, v)]
      [] off = RSAR1 -> [c EXCEPT !.rsar = WithHigh(@, v)]
      [] off = RBCR0 -> [c EXCEPT !.rbcr = WithLow(@, v)]
      [] off = RBCR1 -> [c EXCEPT !.rbcr = WithHigh(@, v)]
      [] off = RCR -> [c EXCEPT !.rcr = v]
      [] off = TCR -> [c EXCEPT !.tcr = v]
      [] off = DCR -> [c EXCEPT !.dcr = v]
      [] off = IMR -> [c EXCEPT !.imr = v]

WritePage1(c, off, v) ==
    CASE off < CURR -> [c EXCEPT !.par[off] = v]
      [] off = CURR -> [c EXCEPT !.curr = v]
      [] off > CURR -> [c EXCEPT !.mar[off - MAR0] = v]

\* A write cycle the chip takes part in, and one that it sits out.
WriteReg(c, off, v) ==
    LET seen == [c EXCEPT !.bus = v]
    IN  CASE off = CR -> WriteCr(seen, v, FALSE)
          [] off # CR /\ Page(c) = 0 -> WritePage0(seen, off, v)
          [] off # CR /\ Page(c) = 1 -> WritePage1(seen, off, v)
LostWrite(c, v) == [c EXCEPT !.bus = v]

\* The value of a read cycle, and the chip after it.
ReadReg(c, off, missed) == IF missed THEN c.bus ELSE ReadRaw(c, off)
AfterRead(c, off, missed) == [c EXCEPT !.bus = ReadReg(c, off, missed)]

\* The chip after one more write w = <<offset, value>>.
c ++ w == WriteReg(c, w[1], w[2])

\* The data port, for the rest of a transfer.  With no transfer under way the
\* accesses do nothing and a read gives the open bus.
Transfer(c) ==
    IF c.dma = "idle" THEN c
    ELSE [c EXCEPT !.crda = @ + c.rbcr, !.rbcr = 0, !.dma = "idle",
                   !.isr = Set(@, RDC)]

-----------------------------------------------------------------------------
(* Reception. *)

RingSize(c) == c.pstop - c.pstart
PosOf(c, page) == (page - c.pstart) % RingSize(c)
PageAt(c, page, k) == c.pstart + ((PosOf(c, page) + k) % RingSize(c))

\* Is a frame to this address stored?  Monitor mode stores none.
Accepts(c, dest) ==
    /\ ~Has(c.rcr, 32)
    /\ \/ dest = "broadcast" /\ Has(c.rcr, 4)
       \/ dest = "own" /\ c.par = Mac

Gap(c) == (PosOf(c, c.bnry) - PosOf(c, c.curr)) % RingSize(c)

\* Mutant: one page more is taken for free.
FitsInFull(c, pages) == pages <= Gap(c) + 1
Fits(c, pages) == pages <= Gap(c)

Halt(c) == [c EXCEPT !.isr = Set(@, OVW), !.rxHalted = TRUE]

Store(c, id, pages) ==
    LET next == PageAt(c, c.curr, pages)
        written == {PageAt(c, c.curr, k) : k \in 0 .. pages - 1}
        part(p) == (PosOf(c, p) - PosOf(c, c.curr)) % RingSize(c)
    IN  [c EXCEPT !.ram = [p \in Ring |->
                            IF p \in written
                            THEN [frame |-> id, part |-> part(p), next |-> next, pages |-> pages]
                            ELSE @[p]],
                  !.curr = next, !.isr = Set(@, PRX)]

Listens(c, dest) == ~c.rxHalted /\ Accepts(c, dest)
=============================================================================
