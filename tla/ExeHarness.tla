----------------------------- MODULE ExeHarness -----------------------------
(***************************************************************************)
(* The machine that executes a real program under test                     *)
(* (tools/exe-harness/harness.js): the Z80 core, one megabyte of memory    *)
(* seen through four windows, the ISA window with the registers of the     *)
(* card behind it, the DSS and BIOS entry points, the fast-forward of the  *)
(* delay loop and the 50 Hz interrupt.                                     *)
(*                                                                         *)
(* The interrupt may come at any instruction boundary.  Beside the machine *)
(* z runs quiet, the same program with no interrupts at all, which takes a *)
(* step for each step that z takes outside an interrupt handler.           *)
(*                                                                         *)
(* A throw of the harness is the field fault of z; the machine then stops. *)
(* The card is a set of latches here; module NicRing models it.  Of the    *)
(* services, those on files, keys and the environment are left out.        *)
(***************************************************************************)
EXTENDS Z80Core, FiniteSets, SequencesExt, TLC

CONSTANTS
    Programs,      \* name -> the program, see ProgramShape
    Chosen,        \* the names of the programs that are run
    MaxTicks,      \* bound: interrupts accepted in one run
    ClobberWin3    \* timerInterrupt.clobberWin3

Lin(page, a) == page * 16384 + (a % 16384)

\* image: what is in memory when the program starts; entry, stack: from the
\* header of the file; input: a value for C that the run starts with, or none;
\* distinctBlocks: scenario.distinctBlockIds; faults, exit, output, ms, cells
\* (of memory), card (its registers), win: how the run must end.
ProgramShape(p) ==
    /\ {"image", "entry", "stack", "input", "distinctBlocks", "faults",
        "exit", "output", "ms", "cells", "card", "win"} \subseteq DOMAIN p
    /\ {p.entry, p.stack} \subseteq 0 .. 65535

ASSUME ProgramsAssumption ==
    /\ Chosen \subseteq DOMAIN Programs
    /\ \A n \in Chosen : ProgramShape(Programs[n])
    /\ MaxTicks \in Nat
    /\ ClobberWin3 \in BOOLEAN

-----------------------------------------------------------------------------
(* The bus. *)

ChipBase == 49152 + 768     \* card.base = 0x300, seen through window 3
InChip(a) == a \in ChipBase .. ChipBase + 31
OpenBus == 255              \* card.quirks.openBusValue
CardSlot == 1

Throw(s, why) == [s EXCEPT !.fault = IF @ = "none" THEN why ELSE @]

Memory(s, a) ==
    LET n == Lin(s.win[a \div 16384], a)
    IN  CASE n \in DOMAIN s.mem -> s.mem[n]
          [] n \in DOMAIN Programs[s.prog].image -> Programs[s.prog].image[n]
          [] OTHER -> 170                           \* scenario.poison

\* noise stands for a value that the read never delivers because it throws:
\* ThrowsOnRead compares an instruction under two values of it.
Rd(s, a) ==
    CASE s.isaOpen /\ a > 49151 ->
            CASE InChip(a) /\ s.iff1 = 1 -> s.noise
              [] InChip(a) /\ s.iff1 = 0 /\ s.slot = CardSlot -> s.chip[a - ChipBase]
              [] OTHER -> OpenBus
      [] OTHER -> Memory(s, a)

Wr(s, a, v) ==
    CASE s.isaOpen /\ a > 49151 ->
            CASE InChip(a) /\ s.iff1 = 1 -> Throw(s, "irq at chip")
              [] InChip(a) /\ s.iff1 = 0 /\ s.slot = CardSlot ->
                    [s EXCEPT !.chip[a - ChipBase] = v]
              [] OTHER -> s
      [] OTHER -> [s EXCEPT !.mem = (Lin(s.win[a \div 16384], a) :> v) @@ @]

WindowPort == 130 :> 0 @@ 162 :> 1 @@ 194 :> 2 @@ 226 :> 3

In(s, port) ==
    IF port % 256 \in DOMAIN WindowPort THEN s.win[WindowPort[port % 256]]
    ELSE s.noise

\* Mutant: a block id is taken for a page.
MapWindowUnchecked(s, index, page) == [s EXCEPT !.win[index] = page]
MapWindow(s, index, page) ==
    IF page > 63 THEN Throw(s, "page past memory") ELSE [s EXCEPT !.win[index] = page]

Out(s, port, v) ==
    LET low == port % 256
    IN  CASE low = 60 -> s                              \* ROM overlay
          [] low = 226 /\ s.systemIsa /\ v \in {212, 214} ->
                [s EXCEPT !.slot = (v - 212) \div 2]
          [] low \in DOMAIN WindowPort /\ ~(low = 226 /\ s.systemIsa /\ v \in {212, 214}) ->
                MapWindow(s, WindowPort[low], v)
          [] port = 8189 /\ v = 17 -> [s EXCEPT !.systemIsa = TRUE]
          [] port = 8189 /\ v = 1 ->
                [s EXCEPT !.systemIsa = FALSE, !.isaOpen = FALSE]
          [] port = 40893 ->
                IF s.systemIsa /\ v = 0 THEN [s EXCEPT !.isaOpen = TRUE]
                ELSE Throw(s, "isa mapping")
          [] OTHER -> Throw(s, "unknown port")


-----------------------------------------------------------------------------
(* The services. *)

Ret(s) == [Popped(s) EXCEPT !.pc = PopWord(s)]
SetCarry(s, v) == [s EXCEPT !.C = v]

BlockPage(s, block, index) ==
    IF block \in DOMAIN s.blocks /\ index < Len(s.blocks[block])
    THEN s.blocks[block][index + 1] ELSE -1

GetMem(s) ==
    LET count == IF s.b = 0 THEN 1 ELSE s.b
        block == IF Programs[s.prog].distinctBlocks THEN s.nextBlock ELSE s.nextBank
    IN  [SetCarry(s, 0) EXCEPT
            !.a = block, !.nextBank = @ + count,
            !.nextBlock = IF Programs[s.prog].distinctBlocks THEN @ + 1 ELSE @,
            !.blocks = (block :> [k \in 1 .. count |-> s.nextBank + k - 1]) @@ @]
FreeMem(s) ==
    IF s.a \in DOMAIN s.blocks
    THEN [SetCarry(s, 0) EXCEPT !.blocks =
            [k \in DOMAIN s.blocks \ {s.a} |-> s.blocks[k]]]
    ELSE Throw(s, "unknown block")
SetWin(s, w) ==
    IF BlockPage(s, s.a, s.b) = -1 THEN Throw(s, "unknown block")
    ELSE [SetCarry(s, 0) EXCEPT !.win[w] = BlockPage(s, s.a, s.b)]

\* The console keeps no register: what comes back is the colour, the BIOS
\* function and zeros.
Scrambled(s) == [SetCarry(s, 0) EXCEPT !.a = 0, !.b = 0, !.c = 224, !.iy = 0]
PutChar(s) == Scrambled([s EXCEPT !.output = Append(@, s.a)])
CString(s, from) ==
    LET n == CHOOSE k \in 0 .. 16383 :
                /\ Rd(s, (from + k) % 65536) = 0
                /\ \A j \in 0 .. k - 1 : Rd(s, (from + j) % 65536) # 0
    IN  [k \in 1 .. n |-> Rd(s, (from + k - 1) % 65536)]
PChars(s) ==
    LET text == CString(s, HL(s))
        past == PutPair(s, 2, HL(s) + Len(text) + 1)
    IN  Scrambled([past EXCEPT !.output = @ \o text, !.d = 0, !.e = 0])

\* EXIT gives the pages back and ends the run.
Exit(s) == [s EXCEPT !.exit = s.b, !.blocks = <<>>]

Dss(s) ==
    CASE s.isaOpen -> Throw(s, "dss while open")
      [] ~s.isaOpen /\ s.c = 65 -> Exit(s)
      [] ~s.isaOpen /\ s.c = 2 -> Ret([SetCarry(s, 0) EXCEPT !.a = 2])    \* CURDISK
      [] ~s.isaOpen /\ s.c \in {34, 82, 86} -> Ret(SetCarry(s, 0))        \* stubs
      [] ~s.isaOpen /\ s.c = 56 -> Ret(SetWin(s, s.h \div 64))
      [] ~s.isaOpen /\ s.c \in 57 .. 59 -> Ret(SetWin(s, s.c - 56))
      [] ~s.isaOpen /\ s.c = 61 -> Ret(GetMem(s))
      [] ~s.isaOpen /\ s.c = 62 -> Ret(FreeMem(s))
      [] ~s.isaOpen /\ s.c = 91 -> Ret(PutChar(s))
      [] ~s.isaOpen /\ s.c = 92 -> Ret(PChars(s))
      [] OTHER -> Throw(s, "unknown dss call")

Bios(s) ==
    CASE s.isaOpen -> Throw(s, "bios while open")
      [] ~s.isaOpen /\ s.c = 196 ->                        \* EMM_FN4
            IF BlockPage(s, s.a, s.b) = -1 THEN Throw(s, "unknown block")
            ELSE Ret([s EXCEPT !.a = BlockPage(s, s.a, s.b)])
      [] OTHER -> Throw(s, "unknown bios call")

\* The handler of the system page, which is modelled and not executed.
\* Mutant: it returns without its EI.
FrameHandlerNoEi(s) == Ret(s)
FrameHandler(s) ==
    IF s.isaOpen THEN Throw(s, "frame while open")
    ELSE SetIff(Ret([s EXCEPT !.win[3] = IF ClobberWin3 THEN 63 ELSE @]), 1)

-----------------------------------------------------------------------------
(* One turn of the loop. *)

IsDelayLoopTop(s) ==
    \A k \in 0 .. 4 : Rd(s, (s.pc + k) % 65536) = <<11, 120, 177, 32, 251>>[k + 1]

\* The delay loop is not run: its counter is set to its last value and a
\* millisecond passes.
FastDelay(s) ==
    CASE ~(IsDelayLoopTop(s) /\ Pair(s, 0) > 1) -> s
      [] IsDelayLoopTop(s) /\ Pair(s, 0) > 1 /\ s.isaOpen ->
            Throw(s, "delay while open")
      [] OTHER -> [s EXCEPT !.b = 0, !.c = 1, !.ms = @ + 1]

\* A read throws if its value is never delivered: the instruction is run
\* under two values of noise, and the result would depend on it.
Settled(s, low, high) ==
    IF low = high THEN low
    ELSE Throw(s, IF s.isaOpen THEN "irq at chip" ELSE "unknown port")
MayThrow(s) == (s.isaOpen /\ s.iff1 = 1) \/ Memory(s, s.pc) \in {219, 237}
Under(run, v) == [run[v] EXCEPT !.noise = 0]
Delivered(s, run) ==
    IF MayThrow(s) THEN Settled(s, Under(run, 0), Under(run, 255)) ELSE run[0]
Execute(s) ==
    Delivered(s, [v \in {0, 255} |-> RunInstruction([s EXCEPT !.noise = v])])

\* The vectors are entry points of services only while the system page is in
\* window 0.
Serve(s) ==
    CASE s.fault # "none" -> s
      [] s.fault = "none" /\ s.win[0] = 0 /\ s.pc = 16 -> Dss(s)
      [] s.fault = "none" /\ s.win[0] = 0 /\ s.pc = 8 -> Bios(s)
      [] s.fault = "none" /\ s.win[0] = 0 /\ s.pc = 56 -> FrameHandler(s)
      [] OTHER -> Execute(s)

Turn(s) == Serve(FastDelay(s))

\* runExe up to the loop: the file is in memory, the registers are those of
\* the header, the interrupt mode is 1.
Loaded(name) ==
    LET p == Programs[name]
    IN  PowerOn @@
        [prog |-> name, mem |-> <<>>, win |-> [w \in 0 .. 3 |-> w],
         systemIsa |-> FALSE, isaOpen |-> FALSE, slot |-> 0,
         chip |-> [k \in 0 .. 31 |-> 33 + k], noise |-> 0, fault |-> "none",
         blocks |-> <<>>, nextBank |-> 16, nextBlock |-> 200,
         output |-> <<>>, exit |-> -1, ms |-> 0]

Started(name) ==
    LET p == Programs[name]
    IN  [Loaded(name) EXCEPT !.pc = p.entry, !.sp = p.stack, !.ix = 16128,
                             !.c = p.input, !.imode = 1]

-----------------------------------------------------------------------------
VARIABLES
    z,       \* the machine
    quiet,   \* the same run without interrupts
    handler, \* SP to which the program's own interrupt handler returns, or -1
    ticks    \* interrupts accepted so far

vars == <<z, quiet, handler, ticks>>

Init ==
    /\ \E name \in Chosen : z = Started(name) /\ quiet = Started(name)
    /\ handler = -1 /\ ticks = 0

Running == z.fault = "none" /\ z.exit = -1

\* An executed handler ends with the turn that gives the stack back.
AfterTurn(s, h) == IF s.sp = h THEN -1 ELSE h

\* One turn of z, in which an interrupt may be accepted first, and of quiet.
\* The timer fires at the head of a turn; two ticks are 20 ms apart, longer
\* than a handler takes.
Follows(tick) == ~tick /\ handler = -1
Steps(tick, from) ==
    /\ \E turn \in {[s \in {from} \cup (IF Follows(tick) THEN {quiet} ELSE {}) |-> Turn(s)]} :
          /\ z' = turn[from]
          /\ quiet' = IF Follows(tick) THEN turn[quiet] ELSE quiet
          /\ handler' = AfterTurn(turn[from], IF tick THEN z.sp ELSE handler)
    /\ ticks' = IF tick THEN ticks + 1 ELSE ticks

MayTick == z.iff1 = 1 /\ handler = -1 /\ ticks < MaxTicks

Stopped == ~Running /\ UNCHANGED vars

Turns ==
    /\ Running
    /\ \E tick \in {FALSE} \cup (IF MayTick THEN {TRUE} ELSE {}) :
          Steps(tick, IF tick THEN Interrupt(z, 255) ELSE z)
Next == Turns \/ Stopped
Spec == Init /\ [][Next]_vars

\* The loop of the harness goes on turning: this is WF_vars(Turns), with what
\* ENABLED <<Turns>>_vars comes to written out, which TLC evaluates faster.
\* Only in HALT does a turn change nothing.
Moves == Running /\ ~z.halted
Fairness == []<>~Moves \/ []<><<Turns>>_vars
FairSpec == Spec /\ Fairness

-----------------------------------------------------------------------------
(* Properties. *)

\* Registers hold bytes and words, flags hold bits, windows hold pages.
TypeOK ==
    /\ \A f \in {"a", "b", "c", "d", "e", "h", "l", "i", "f_prime"} : z[f] \in 0 .. 255
    /\ \A f \in {"pc", "sp", "iy"} : z[f] \in 0 .. 65535
    /\ \A f \in {"S", "Z", "Y", "H", "X", "P", "N", "C", "iff1", "iff2"} : z[f] \in {0, 1}
    /\ \A n \in DOMAIN z.mem : n \in 0 .. 1048575 /\ z.mem[n] \in 0 .. 255
    /\ \A w \in 0 .. 3 : z.win[w] \in 0 .. 63
    /\ z.isaOpen => z.systemIsa

Main(s) == Programs[s.prog]

\* How a program ends does not depend on when the interrupts come: the exit
\* code, the output, the milliseconds and the memory are what the source of
\* the routine promises, and a program the harness must refuse is refused for
\* the reason that tools/test-exe-harness.js names.
EndsAsPromised ==
    ~Running =>
        /\ z.fault \in Main(z).faults
        /\ z.fault = "none" =>
              /\ z.exit = Main(z).exit /\ z.output = Main(z).output
              /\ z.ms = Main(z).ms
              /\ z.win = Main(z).win /\ ~z.isaOpen
              /\ \A a \in DOMAIN Main(z).cells : Rd(z, a) = Main(z).cells[a]
              /\ \A k \in DOMAIN Main(z).card : z.chip[k] = Main(z).card[k]

\* What the program can see of the machine: everything but the refresh
\* register, and of the memory what lies outside the free part of the stack.
Free(s) == {Lin(s.win[((s.sp - k) % 65536) \div 16384], (s.sp - k) % 65536) : k \in 1 .. 32}
Visible(s) == [s EXCEPT !.r = 0,
                        !.mem = [n \in DOMAIN s.mem \ Free(s) |-> s.mem[n]]]

\* An interrupt that has been handled has left no trace: between two
\* instructions of the program the machine is the one that was never
\* interrupted.
Transparent == Running /\ handler = -1 => Visible(z) = Visible(quiet)

\* With the ISA window open the interrupts are off ("keep IRQs off while
\* open", isa.asm), so no handler ever runs over the card.
IrqsOffWhileOpen ==
    z.isaOpen /\ Main(z).faults = {"none"} => z.iff1 = 0 /\ handler = -1

\* Every program ends, however the interrupts fall.
Finishes == <>~Running

=============================================================================
