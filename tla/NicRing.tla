------------------------------ MODULE NicRing ------------------------------
(***************************************************************************)
(* The driver's normal operation on the card (src/lib/rtl8019.asm, the     *)
(* build of UNETRTL.DLL): the poll of the receive ring, the reading of a   *)
(* frame with or without its release, the recovery from an overflow, and   *)
(* the transmission of a frame.                                            *)
(*                                                                         *)
(* The card stores frames between any two accesses of the driver.  One     *)
(* action is one access, except where the accesses in between touch        *)
(* nothing that reception changes: a try of SELECT_PAGE and a transfer     *)
(* through the data port are one action each.                              *)
(*                                                                         *)
(* Faults: the card may sit out a cycle, not latch a write, or give a      *)
(* damaged byte; MaxFaults bounds how often in a run, Faulty the kinds.    *)
(***************************************************************************)
EXTENDS Rtl8019

CONSTANTS
    Sizes,         \* pages a frame may take
    BufferPages,   \* pages of the callers' buffers (MAX_LEN)
    MaxFrames,     \* bound: frames that are stored
    MaxSends,      \* bound: frames that are sent
    SelectTries,   \* CR_SELECT_TRIES
    HdrRetries,    \* RTL_HDR_RETRIES
    TxTries,       \* TX_DMA_TRIES
    ClearTries,    \* TX_CLEAR_TRIES
    Lengths,       \* lengths of the frames that are sent
    Faulty,        \* the kinds of faults
    MaxFaults      \* bound: faults in a run

FaultKinds == {"select", "stop", "bnry", "read", "curr", "repeat", "header", "tx", "length", "txp", "txe", "clear"}

ASSUME NicAssumption ==
    /\ Sizes \subseteq 1 .. PStop - PStart - 1
    /\ {BufferPages, MaxFrames, MaxSends, MaxFaults} \subseteq Nat
    /\ {SelectTries, HdrRetries, TxTries, ClearTries} \subseteq Nat \ {0}
    /\ Lengths \subseteq 60 .. 1514
    /\ Faulty \subseteq FaultKinds

VARIABLES
    chip,          \* the card
    shadow,        \* RTL_BNRY_SHADOW
    pc,            \* where the driver is
    reg,           \* the driver's working values
    held,          \* pages of the frame the last PEEK_PACKET returned
    out,           \* the last frame handed over and released
    arrived,       \* frames stored so far
    sending,       \* the frame SEND_FRAME builds
    told,          \* what the last SEND_FRAME returned
    faults,        \* faults so far
    damaged        \* damaged reads of a header in the call in progress

vars == <<chip, shadow, pc, reg, held, out, arrived, sending, told, faults, damaged>>
ringVars == <<shadow, held, out, arrived, damaged>>
sendVars == <<sending, told>>

\* RCR_AB; CR_PAGE0_STOP ... CR_DMA_ABORT.
AcceptBroadcast == 4
Monitor == 32
Loopback == 2
Page0Stop == 33  Page0Start == 34  Page1Stop == 97  Page1Start == 98
DmaReadCmd == 10  DmaWriteCmd == 18  DmaAbort == 34  TxCmd == 38
TxStatus == PTX + TXE
AllBits == 255

-----------------------------------------------------------------------------
(* INIT_NORMAL.  The write of TPSR may be lost, which every SEND_FRAME     *)
(* makes good.                                                             *)

InitNormal(tpsr) ==
    LET stop == PowerOn
            ++ <<CR, Page0Stop>> ++ <<DCR, 72>> ++ <<RBCR0, 0>> ++ <<RBCR1, 0>>
            ++ <<RCR, Monitor>> ++ <<TCR, Loopback>> ++ <<TPSR, tpsr>>
            ++ <<PSTART, PStart>> ++ <<PSTOP, PStop>> ++ <<BNRY, PStart>>
            ++ <<ISR, AllBits>> ++ <<IMR, 0>> ++ <<CR, Page1Stop>>
        mac == stop
            ++ <<PAR0, Mac[1]>> ++ <<PAR0 + 1, Mac[2]>> ++ <<PAR0 + 2, Mac[3]>>
            ++ <<PAR0 + 3, Mac[4]>> ++ <<PAR0 + 4, Mac[5]>> ++ <<PAR0 + 5, Mac[6]>>
            ++ <<CURR, PStart + 1>>
        mar == mac
            ++ <<MAR0, 0>> ++ <<MAR0 + 1, 0>> ++ <<MAR0 + 2, 0>> ++ <<MAR0 + 3, 0>>
            ++ <<MAR0 + 4, 0>> ++ <<MAR0 + 5, 0>> ++ <<MAR0 + 6, 0>> ++ <<MAR0 + 7, 0>>
    IN  mar ++ <<CR, Page0Start>> ++ <<TCR, 0>> ++ <<RCR, AcceptBroadcast>>

\* before is history, for SentIsTrue: the faults before SEND_FRAME was called.
NoReg == [want |-> 0, after |-> "none", tries |-> 0, b |-> 0, c |-> 0,
          flipped |-> FALSE, step |-> 0, hdr |-> Poison, peek |-> FALSE, body |-> <<>>,
          before |-> 0]

Init ==
    /\ \E tpsr \in {0, TxPage} : chip = InitNormal(tpsr)
    /\ shadow = PStart /\ pc = "idle" /\ reg = NoReg /\ held = <<>>
    /\ out = 0 /\ arrived = 0 /\ sending = NoFrame /\ told = "none"
    /\ faults = 0 /\ damaged = 0

\* A fault of this kind happens, or does not.
May(kind, happens) ==
    IF happens THEN kind \in Faulty /\ faults < MaxFaults /\ faults' = faults + 1
    ELSE UNCHANGED faults

Goto(label) == pc' = label
\* The call returns: the working values are dead.
Return == pc' = "idle" /\ reg' = NoReg
Call(want, after) ==
    /\ pc' = "select"
    /\ reg' = [reg EXCEPT !.want = want, !.after = after, !.tries = SelectTries]

-----------------------------------------------------------------------------
(* The network and the application. *)

Arrive(dest, pages) ==
    /\ Listens(chip, dest)
    /\ arrived < MaxFrames
    /\ IF Fits(chip, pages)
       THEN chip' = Store(chip, arrived + 1, pages) /\ arrived' = arrived + 1
       ELSE chip' = Halt(chip) /\ UNCHANGED arrived
    /\ UNCHANGED <<shadow, pc, reg, held, out, faults, damaged, sendVars>>

NextPage(p) == IF p + 1 < PStop THEN p + 1 ELSE PStart

Verified(cr, want) == cr \div 64 = want \div 64 /\ cr % 4 = want % 4

\* RING_HAS_PACKET up to the first SELECT_PAGE.  A frame that was looked at
\* and not released is looked at again.
Poll ==
    /\ pc = "idle"
    /\ pc' = "select"
    /\ reg' = [NoReg EXCEPT !.b = NextPage(shadow), !.want = Page1Start,
                            !.after = "curr1", !.tries = SelectTries]
    /\ held' = <<>>
    /\ UNCHANGED <<chip, shadow, out, arrived, faults, damaged, sendVars>>

-----------------------------------------------------------------------------
(* SELECT_PAGE. *)

\* Mutant: one read-back, behind no other read.
ConfirmsAtOnce(c, want, missed) ==
    Verified(ReadReg(c, CR, missed[2]), want)
\* The two conditioned read-backs: <<confirmed, the chip after them>>.
Confirms(c, want, missed) ==
    LET c1 == AfterRead(c, PAR0, missed[1])
        c2 == AfterRead(c1, CR, missed[2])
        c3 == AfterRead(c2, BNRY, missed[3])
    IN  /\ Verified(ReadReg(c1, CR, missed[2]), want)
        /\ Verified(ReadReg(c3, CR, missed[4]), want)
AfterChecks(c, want, missed) ==
    LET c1 == AfterRead(c, PAR0, missed[1])
        c2 == AfterRead(c1, CR, missed[2])
    IN  IF Verified(c2.bus, want)
        THEN AfterRead(AfterRead(c2, BNRY, missed[3]), CR, missed[4])
        ELSE c2

Count(missed) == Cardinality({k \in DOMAIN missed : missed[k]})

SelectTry(lost, missed) ==
    /\ pc = "select"
    /\ lost => "select" \in Faulty
    /\ Count(missed) > 0 => "read" \in Faulty
    /\ faults' = faults + Count(missed) + (IF lost THEN 1 ELSE 0)
    /\ faults' <= MaxFaults
    /\ LET written == IF lost THEN LostWrite(chip, reg.want)
                      ELSE WriteReg(chip, CR, reg.want)
           ok == Confirms(written, reg.want, missed)
       IN  /\ chip' = AfterChecks(written, reg.want, missed)
           /\ CASE ok -> Goto(reg.after) /\ reg' = [reg EXCEPT !.after = "none"]
                [] ~ok /\ reg.tries > 1 -> Goto("select") /\ reg' = [reg EXCEPT !.tries = @ - 1]
                [] ~ok /\ reg.tries = 1 /\ reg.after = "curr1" ->
                      reg' = [reg EXCEPT !.c = AllBits] /\ Goto("page0")
                [] ~ok /\ reg.tries = 1 /\ reg.after = "decide" -> Return
    /\ UNCHANGED <<ringVars, sendVars>>

-----------------------------------------------------------------------------
(* RING_HAS_PACKET. *)

\* A misdirected read of CURR: another page of the ring.  It does not hit
\* both reads of one poll.  repeat: the card may sit out the second read when
\* the first was misdirected, and the bus then gives the same value again.
OtherPage(p) == NextPage(p)

CurrRead(label, missed, flipped) ==
    /\ pc = label
    /\ missed => ~flipped
    /\ flipped => chip.curr \in Ring
    /\ reg.flipped => ~flipped /\ (missed => "repeat" \in Faulty)
    /\ May(IF missed THEN "read" ELSE "curr", missed \/ flipped)
    /\ LET v == IF flipped THEN OtherPage(chip.curr) ELSE ReadReg(chip, CURR, missed)
       IN  /\ chip' = [chip EXCEPT !.bus = v]
           /\ reg' = [reg EXCEPT !.flipped = @ \/ flipped,
                        !.c = IF label = "curr1" \/ v = reg.c THEN v ELSE AllBits]
    /\ UNCHANGED <<ringVars, sendVars>>

CurrFirst(missed, flipped) == CurrRead("curr1", missed, flipped) /\ Goto("curr2")
CurrAgain(missed, flipped) == CurrRead("curr2", missed, flipped) /\ Goto("page0")

SelectPage0 ==
    /\ pc = "page0"
    /\ Call(Page0Start, "decide")
    /\ UNCHANGED <<chip, faults, ringVars, sendVars>>

\* An impossible CURR is reported as an empty ring.
Decide ==
    /\ pc = "decide"
    /\ CASE reg.c \notin Ring -> Return
         [] reg.c \in Ring /\ reg.c # reg.b -> Goto("packet") /\ reg' = NoReg
         [] reg.c \in Ring /\ reg.c = reg.b -> Goto("isr1") /\ UNCHANGED reg
    /\ UNCHANGED <<chip, faults, ringVars, sendVars>>

IsrRead(label, missed, onOverflow) ==
    /\ pc = label
    /\ May("read", missed)
    /\ chip' = AfterRead(chip, ISR, missed)
    /\ IF chip'.bus # AllBits /\ Has(chip'.bus, OVW)
       THEN onOverflow /\ reg' = NoReg ELSE Return
    /\ UNCHANGED <<ringVars, sendVars>>

IsrFirst(missed) == IsrRead("isr1", missed, Goto("isr2"))
IsrAgain(missed) == IsrRead("isr2", missed, Goto("monitor"))

-----------------------------------------------------------------------------
(* RECOVER_OVERFLOW, a write at a time.  The poll for RST proceeds with or *)
(* without it, so it is left out.                                          *)

MonitorMode ==
    /\ pc = "monitor"
    /\ chip' = WriteReg(chip, RCR, Monitor)
    /\ Goto("stop")
    /\ UNCHANGED <<reg, faults, ringVars, sendVars>>

StopChip(lost) ==
    /\ pc = "stop"
    /\ May("stop", lost)
    /\ chip' = IF lost THEN LostWrite(chip, Page0Stop) ELSE WriteReg(chip, CR, Page0Stop)
    /\ Goto("restart") /\ reg' = [reg EXCEPT !.step = 1]
    /\ UNCHANGED <<ringVars, sendVars>>

RestartWrites ==
    << <<RBCR0, 0>>, <<RBCR1, 0>>, <<BNRY, shadow>>, <<TCR, Loopback>>,
       <<CR, Page0Start>>, <<ISR, AllBits>>, <<TCR, 0>>, <<RCR, AcceptBroadcast>> >>

RestartChip(lost) ==
    /\ pc = "restart"
    /\ LET w == RestartWrites[reg.step]
       IN  /\ lost => w[1] \in {BNRY, CR}
           /\ May(IF w[1] = BNRY THEN "bnry" ELSE "select", lost)
           /\ chip' = IF lost THEN LostWrite(chip, w[2]) ELSE chip ++ w
    /\ IF reg.step < Len(RestartWrites)
       THEN Goto("restart") /\ reg' = [reg EXCEPT !.step = @ + 1]
       ELSE Return
    /\ UNCHANGED <<ringVars, sendVars>>

-----------------------------------------------------------------------------
(* READ_PACKET and PEEK_PACKET. *)

\* DMA_READ or the writing half of DMA_WRITE: the transfer of count bytes at
\* page, off.  The first write, which selects page 0, may be lost; the writes
\* behind it may not.
DmaSetUp(c, page, off, count, cmd, lost) ==
    (IF lost THEN LostWrite(c, Page0Start) ELSE c ++ <<CR, Page0Start>>)
        ++ <<ISR, RDC>> ++ <<RBCR0, LowByte(count)>> ++ <<RBCR1, HighByte(count)>>
        ++ <<RSAR0, off>> ++ <<RSAR1, page>> ++ <<CR, cmd>>
DmaEnd(c) == Transfer(c) ++ <<ISR, RDC>> ++ <<CR, DmaAbort>>

\* The page the transfer reads, and what it finds there.
TokenAt(c, page) == IF page \in Ring THEN c.ram[page] ELSE Poison

\* A header as it reads back: from a page inside a frame, or with no transfer
\* under way, nothing that looks like one.
HeaderAt(c) ==
    LET t == TokenAt(c, HighByte(c.crda))
    IN  IF c.dma = "idle" \/ c.rbcr # 4 \/ t.part # 0 THEN Poison ELSE t

NextValid(h) == h.next \in Ring
HeaderGood(h, status) == status /\ NextValid(h) /\ h.pages \in 1 .. BufferPages

PacketCall(peek) ==
    /\ pc = "packet"
    /\ Goto("header")
    /\ reg' = [reg EXCEPT !.b = NextPage(shadow), !.tries = HdrRetries, !.peek = peek]
    /\ damaged' = 0
    /\ UNCHANGED <<chip, faults, shadow, held, out, arrived, sendVars>>

\* harm: "none"; "status", the status byte; "next", the page number, which
\* then is none of the ring.
ReadHeader(harm, lost) ==
    /\ pc = "header"
    /\ harm # "none" => "header" \in Faulty
    /\ lost => "select" \in Faulty
    /\ faults' = faults + (IF harm = "none" THEN 0 ELSE 1) + (IF lost THEN 1 ELSE 0)
    /\ faults' <= MaxFaults
    /\ damaged' = IF harm = "none" THEN damaged ELSE damaged + 1
    /\ LET c == DmaSetUp(chip, reg.b, 0, 4, DmaReadCmd, lost)
           h == IF harm = "next" THEN [HeaderAt(c) EXCEPT !.next = 255] ELSE HeaderAt(c)
       IN  /\ chip' = DmaEnd(c)
           /\ CASE HeaderGood(h, harm # "status") ->
                      Goto("body") /\ reg' = [reg EXCEPT !.hdr = h]
                [] ~HeaderGood(h, harm # "status") /\ reg.tries > 1 ->
                      Goto("header") /\ reg' = [reg EXCEPT !.tries = @ - 1]
                [] ~HeaderGood(h, harm # "status") /\ reg.tries = 1 ->
                      Goto("bad") /\ reg' = [reg EXCEPT !.hdr = h]
    /\ UNCHANGED <<shadow, held, out, arrived, sendVars>>

\* SET_BNRY_FROM_NEXT_A.
\* Mutant: the page before the first is not wrapped.
BeforeUnwrapped(next) == next - 1
Before(next) == IF next - 1 < PStart THEN PStop - 1 ELSE next - 1

\* Mutant: the overflow latch is cleared with the rest.
ReleasedBits == PRX + RXE + OVW
DoneBits == PRX + RXE

\* BNRY follows the shadow, unless its write is lost.
Release(bnry, lost) ==
    /\ May("bnry", lost)
    /\ shadow' = bnry /\ damaged' = 0
    /\ chip' = WriteReg(IF lost THEN LostWrite(chip, bnry) ELSE WriteReg(chip, BNRY, bnry),
                        ISR, DoneBits)

\* Every retry has failed.
BadHeader(lost) ==
    /\ pc = "bad"
    /\ Release(IF NextValid(reg.hdr) THEN Before(reg.hdr.next) ELSE reg.b, lost)
    /\ Return
    /\ UNCHANGED <<held, out, arrived, sendVars>>

\* Mutant: no split, the body runs on behind the ring.
FirstPagesUnsplit == reg.hdr.pages
\* The pages of the body up to the end of the ring, then the rest.
FirstPages == LET room == PStop - reg.b
              IN  IF reg.hdr.pages < room THEN reg.hdr.pages ELSE room
ReadPages(from, count) == [k \in 1 .. count |-> TokenAt(chip, from + k - 1)]

ReadBody(lost) ==
    /\ pc = "body"
    /\ May("select", lost)
    /\ chip' = DmaEnd(DmaSetUp(chip, reg.b, 4, FirstPages, DmaReadCmd, lost))
    /\ reg' = [reg EXCEPT !.body = ReadPages(reg.b, FirstPages)]
    /\ Goto(IF FirstPages < reg.hdr.pages THEN "rest" ELSE "done")
    /\ UNCHANGED <<ringVars, sendVars>>

ReadRest(lost) ==
    /\ pc = "rest"
    /\ May("select", lost)
    /\ LET count == reg.hdr.pages - Len(reg.body)
       IN  /\ chip' = DmaEnd(DmaSetUp(chip, PStart, 0, count, DmaReadCmd, lost))
           /\ reg' = [reg EXCEPT !.body = @ \o ReadPages(PStart, count)]
    /\ Goto("done")
    /\ UNCHANGED <<ringVars, sendVars>>

\* PEEK_PACKET returns the frame, READ_PACKET releases it too.
PeekDone ==
    /\ pc = "done" /\ reg.peek
    /\ held' = reg.body
    /\ Return
    /\ UNCHANGED <<chip, shadow, out, arrived, faults, damaged, sendVars>>
ReadDone(lost) ==
    /\ pc = "done" /\ ~reg.peek
    /\ Release(Before(reg.hdr.next), lost)
    /\ out' = reg.hdr.frame
    /\ Return
    /\ UNCHANGED <<held, arrived, sendVars>>

\* COMMIT_PACKET, on the header the caller has kept.
CommitPacket(lost) ==
    /\ pc = "idle" /\ held # <<>>
    /\ Release(Before(held[1].next), lost)
    /\ out' = held[1].frame
    /\ held' = <<>>
    /\ UNCHANGED <<pc, reg, arrived, sendVars>>

-----------------------------------------------------------------------------
(* SEND_FRAME. *)

\* TXP clears itself, so the wait for an idle transmitter ends at once.
SendFrame ==
    /\ pc = "idle"
    /\ sending.id < MaxSends
    /\ \E bytes \in Lengths :
          sending' = [NoFrame EXCEPT !.id = sending.id + 1, !.bytes = bytes]
    /\ Goto("write") /\ reg' = [NoReg EXCEPT !.tries = TxTries, !.before = faults]
    /\ UNCHANGED <<chip, faults, ringVars, told>>

Fail == told' = "failed" /\ Return

PrefixRight(t) == t.prefix

\* DMA_WRITE_SG and VERIFY_TX_PREFIX.  harm: which part of the frame has a
\* byte that did not reach the packet memory.
WriteFrame(harm, lost) ==
    /\ pc = "write"
    /\ harm # "none" => "tx" \in Faulty
    /\ lost => "select" \in Faulty
    /\ faults' = faults + (IF harm = "none" THEN 0 ELSE 1) + (IF lost THEN 1 ELSE 0)
    /\ faults' <= MaxFaults
    /\ LET c == DmaEnd(DmaSetUp(chip, TxPage, 0, sending.bytes, DmaWriteCmd, lost))
           t == [sending EXCEPT !.prefix = harm # "prefix", !.rest = harm # "rest"]
           v == DmaEnd(DmaSetUp([c EXCEPT !.tx = t], TxPage, 0, 42, DmaReadCmd, FALSE))
       IN  /\ chip' = v
           /\ CASE PrefixRight(t) -> Goto("length") /\ UNCHANGED <<reg, told>>
                [] ~PrefixRight(t) /\ reg.tries > 1 ->
                      Goto("write") /\ reg' = [reg EXCEPT !.tries = @ - 1] /\ UNCHANGED told
                [] ~PrefixRight(t) /\ reg.tries = 1 -> Fail
    /\ UNCHANGED <<ringVars, sending>>

\* The chip after a write that may be lost.
MayLose(c, off, v, lost) == IF lost THEN LostWrite(c, v) ELSE WriteReg(c, off, v)

\* TBCR and TPSR, each written once.
SetLength(lost) ==
    /\ pc = "length"
    /\ Count(lost) > 0 => "length" \in Faulty
    /\ faults' = faults + Count(lost) /\ faults' <= MaxFaults
    /\ LET c1 == MayLose(chip, TBCR0, LowByte(sending.bytes), lost[1])
           c2 == MayLose(c1, TBCR1, HighByte(sending.bytes), lost[2])
       IN  chip' = MayLose(c2, TPSR, TxPage, lost[3])
    /\ Goto("clear") /\ reg' = [reg EXCEPT !.tries = ClearTries]
    /\ UNCHANGED <<ringVars, sendVars>>

\* The terminal bits of the last transmission are cleared and read back.
StatusClear(v) == ~Has(v, PTX) /\ ~Has(v, TXE)

ClearStatus(lost, missed) ==
    /\ pc = "clear"
    /\ lost => "clear" \in Faulty
    /\ missed => "read" \in Faulty
    /\ faults' = faults + (IF lost THEN 1 ELSE 0) + (IF missed THEN 1 ELSE 0)
    /\ faults' <= MaxFaults
    /\ chip' = AfterRead(MayLose(chip, ISR, TxStatus, lost), ISR, missed)
    /\ CASE StatusClear(chip'.bus) -> Goto("txp") /\ UNCHANGED <<reg, told>>
         [] ~StatusClear(chip'.bus) /\ reg.tries > 1 ->
               reg' = [reg EXCEPT !.tries = @ - 1] /\ UNCHANGED <<pc, told>>
         [] ~StatusClear(chip'.bus) /\ reg.tries = 1 -> Fail
    /\ UNCHANGED <<ringVars, sending>>

\* The one TXP command.
Transmit(lost, fails) ==
    /\ pc = "txp"
    /\ lost => ~fails
    /\ May(IF lost THEN "txp" ELSE "txe", lost \/ fails)
    /\ chip' = IF lost THEN LostWrite(chip, TxCmd)
               ELSE WriteCr([chip EXCEPT !.bus = TxCmd], TxCmd, fails)
    /\ Goto("ptx")
    /\ UNCHANGED <<reg, ringVars, sendVars>>

\* CAPTURE_TX_STATE: CR, then ISR.
Captured(c, missed) == AfterRead(AfterRead(c, CR, missed[2]), ISR, missed[3])

\* Mutant: any event is a success.
AnyEvent(v) == TRUE
\* The verdict on a captured ISR, behind an event.
LeftTheWire(v) == ~Has(v, TXE)

\* WAIT_PTX: the loop sees an event, or none until it runs out; the verdict is
\* that of a second read.  A first look that is missed gives the TXP command,
\* which has the bit of PTX.
WaitPtx(lost, missed) ==
    /\ pc = "ptx"
    /\ lost => "clear" \in Faulty
    /\ Count(missed) > 0 => "read" \in Faulty
    /\ faults' = faults + Count(missed) + (IF lost THEN 1 ELSE 0)
    /\ faults' <= MaxFaults
    /\ LET look == AfterRead(chip, ISR, missed[1])
           event == Has(look.bus, PTX) \/ Has(look.bus, TXE)
           c == Captured(look, missed)
       IN  /\ lost => event
           /\ chip' = IF event THEN MayLose(c, ISR, TxStatus, lost) ELSE c
           /\ told' = IF event /\ LeftTheWire(c.bus) THEN "sent" ELSE "failed"
    /\ Return
    /\ UNCHANGED <<ringVars, sending>>

-----------------------------------------------------------------------------
Network == \E dest \in {"own", "broadcast"}, pages \in Sizes : Arrive(dest, pages)

Receiving ==
    \/ \E lost \in BOOLEAN, missed \in [1 .. 4 -> BOOLEAN] : SelectTry(lost, missed)
    \/ \E missed, flipped \in BOOLEAN : CurrFirst(missed, flipped) \/ CurrAgain(missed, flipped)
    \/ SelectPage0 \/ Decide
    \/ \E missed \in BOOLEAN : IsrFirst(missed) \/ IsrAgain(missed)
    \/ MonitorMode \/ \E lost \in BOOLEAN : StopChip(lost) \/ RestartChip(lost)
    \/ \E peek \in BOOLEAN : PacketCall(peek)
    \/ \E harm \in {"none", "status", "next"}, lost \in BOOLEAN : ReadHeader(harm, lost)
    \/ \E lost \in BOOLEAN :
          BadHeader(lost) \/ ReadBody(lost) \/ ReadRest(lost) \/ ReadDone(lost)
    \/ PeekDone

Sending ==
    \/ \E harm \in {"none", "prefix", "rest"}, lost \in BOOLEAN : WriteFrame(harm, lost)
    \/ \E lost \in [1 .. 3 -> BOOLEAN] : SetLength(lost)
    \/ \E lost, missed \in BOOLEAN : ClearStatus(lost, missed)
    \/ \E lost \in BOOLEAN, missed \in [1 .. 3 -> BOOLEAN] : WaitPtx(lost, missed)
    \/ \E lost, fails \in BOOLEAN : Transmit(lost, fails)

Commit == \E lost \in BOOLEAN : CommitPacket(lost)
Code == Receiving \/ Sending

Next == Network \/ Poll \/ Commit \/ SendFrame \/ Code
Spec == Init /\ [][Next]_vars

\* The driver goes on with a call it has begun; the application polls, and
\* releases what it has looked at.  This is
\*     WF_vars(Code) /\ SF_vars(Poll) /\ SF_vars(Takes)
\* with Takes a COMMIT_PACKET or the end of a READ_PACKET; written out, with
\* what each of these steps alone does, TLC evaluates it faster.
CodeStep == pc # "idle" /\ <<pc, reg, faults>>' # <<pc, reg, faults>>
PollStep == pc = "idle" /\ pc' = "select"
MayTake ==
    \/ pc = "idle" /\ held # <<>>
    \/ pc = "done" /\ ~reg.peek
TakeStep ==
    MayTake /\ pc' = "idle" /\ held' = <<>> /\ <<held, pc>>' # <<held, pc>>
Fairness ==
    /\ []<>(pc = "idle") \/ []<><<CodeStep>>_vars
    /\ <>[](pc # "idle") \/ []<><<PollStep>>_vars
    /\ <>[](~MayTake) \/ []<><<TakeStep>>_vars
FairSpec == Spec /\ Fairness

-----------------------------------------------------------------------------
(* Properties. *)

\* The driver's values are bytes of the ring, and the chip's registers bytes.
TypeOK ==
    /\ shadow \in Ring
    /\ {chip.cr, chip.isr, chip.curr, chip.bnry, chip.bus} \subseteq Byte
    /\ {chip.rsar, chip.rbcr} \subseteq Word
    /\ held \in Seq([frame : 0 .. MaxFrames, part : Nat, next : Byte, pages : Nat])
    /\ faults \in 0 .. MaxFaults
    /\ told \in {"none", "sent", "failed"}

\* The page k pages behind p, k at most the ring's size.
Size == PStop - PStart
Behind(p, k) == IF p + k < PStop THEN p + k ELSE p + k - Size

\* The frame that begins on a page, if one does.
Begins(t) == IF t.part = 0 THEN <<[id |-> t.frame, pages |-> t.pages]>> ELSE <<>>

\* The frames that begin on the first k pages behind page s, for every k.
Heads(ram, s) ==
    LET heads[k \in 0 .. Size] ==
            IF k = 0 THEN <<>> ELSE heads[k - 1] \o Begins(ram[Behind(s, k)])
    IN  heads

\* The frames in the ring, from the page behind the driver's boundary to CURR.
\* A boundary in the middle of a frame has left that frame.
Queued == Heads(chip.ram, shadow)[(chip.curr - NextPage(shadow)) % Size]

\* The ring is a queue: frames are handed over whole, in the order stored and
\* once, whatever is stored in the middle of a read, a peek or a recovery, and
\* none is skipped but what no buffer holds or what one call reads damaged to the
\* last retry ("drop just this ring slot", rtl8019.asm:2406).
Frames == INSTANCE FrameQueue WITH queue <- Queued, Capacity <- Size - 1,
                                   Patience <- HdrRetries
ImplementsQueue == Frames!QueueSpec

\* What has been read is the frame at the head of the queue, all of it, until
\* it is released, although the receiver goes on storing frames behind it.
Whole(body, id) ==
    /\ \A k \in DOMAIN body : body[k].frame = id /\ body[k].part = k - 1
    /\ Len(body) = body[1].pages
HeldIsWhole ==
    LET first == NextPage(shadow)
        head == chip.ram[first]
        whole(body) == first # chip.curr /\ head.part = 0 /\ Whole(body, head.frame)
    IN  /\ held # <<>> => whole(held)
        /\ pc = "done" => whole(reg.body)

\* No access meant for page 0 has reached page 1: the address, the filter and
\* the bounds of the ring are what INIT_NORMAL wrote ("NICREG caught a BNRY
\* write landing in PAR2 that way", rtl8019.asm:2484).
RegistersIntact ==
    /\ chip.par = Mac /\ chip.mar = [k \in 0 .. 7 |-> 0]
    /\ chip.pstart = PStart /\ chip.pstop = PStop
    /\ chip.curr \in Ring /\ chip.bnry \in Ring

\* What SEND_FRAME returns, when it returns.  A frame reported as failed has not
\* left the card.  One reported as sent has, with its headers as they were built,
\* if one fault at most fell into the call; if none did, all of it has, as long
\* as it was built ("so a marginal ISA write cannot silently turn into
\* PTX=success for a malformed frame", rtl8019.asm:1675).  With two faults it may
\* not have: TXE behind a captured ISR that was missed, a lost TXP behind a first
\* look that was.  One lost write is enough for another length, or, where
\* INIT_NORMAL has not set TPSR, for another page: both are written once.
SentIsTrue ==
    [][pc' = "idle" /\ pc \in {"write", "clear", "ptx"} =>
          LET inCall == faults' - reg.before
          IN  /\ told' = "failed" => chip.wire.id # sending.id
              /\ told' = "sent" /\ inCall <= 1 /\ chip.tpsr = TxPage =>
                    chip.wire.id = sending.id /\ chip.wire.prefix
              /\ told' = "sent" /\ inCall = 0 => chip.wire = sending]_vars

\* The receiver is never deaf for good: again and again it is started, with no
\* overflow unrecovered and the filter the program asked for ("left the
\* receiver deaf for good", rtl8019.asm:2080).
Hearing == ~chip.rxHalted /\ ~chip.stopped /\ chip.rcr = AcceptBroadcast /\ chip.tcr = 0
NeverDeaf == []<>Hearing
=============================================================================
