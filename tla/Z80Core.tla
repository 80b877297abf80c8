------------------------------ MODULE Z80Core ------------------------------
(***************************************************************************)
(* The Z80 interpreter that the program tests run on                       *)
(* (tools/exe-harness/Z80core.js).  A processor is a record s: one field   *)
(* for each register of the code, one for each flag, and whatever fields   *)
(* the bus of the board keeps in it.  An instruction is an operator from   *)
(* records to records.  The four functions of the core object that the     *)
(* constructor is given are the four constants.                            *)
(*                                                                         *)
(* Not modelled: cycle_counter and the four cycle tables, which no result  *)
(* of an instruction depends on.                                           *)
(***************************************************************************)
EXTENDS Integers, Sequences

CONSTANTS
    MemRead(_, _),      \* mem_read:  the byte at an address of s
    MemWrite(_, _, _),  \* mem_write: s after a byte is written
    IoRead(_, _),       \* io_read:   the byte a port of s gives
    IoWrite(_, _, _)    \* io_write:  s after a byte is sent to a port

-----------------------------------------------------------------------------
(* Bytes, words and flags. *)

Byte == 0 .. 255
Addr16 == 0 .. 65535
Bit(x, k) == (x \div 2^k) % 2
Lo(w) == w % 256
Hi(w) == (w \div 256) % 256
Digit(x) == x % 16          \* the low four bits
Low12(x) == x % 4096
Y(op) == (op \div 8) % 8    \* the middle field of an opcode
Word(hi, lo) == 256 * hi + lo
W16(x) == x % 65536
Flag(p) == IF p THEN 1 ELSE 0

OfBits(b(_)) == b(0) + 2 * b(1) + 4 * b(2) + 8 * b(3)
                + 16 * b(4) + 32 * b(5) + 64 * b(6) + 128 * b(7)
And8(x, y) == OfBits(LAMBDA k : Bit(x, k) * Bit(y, k))
Xor8(x, y) == OfBits(LAMBDA k : (Bit(x, k) + Bit(y, k)) % 2)
Or8(x, y) == OfBits(LAMBDA k : Flag(Bit(x, k) + Bit(y, k) > 0))

GetSignedOffsetByte(v) == Lo(v) - 256 * Bit(v, 7)

GetParity(v) ==
    Flag((Bit(v, 0) + Bit(v, 1) + Bit(v, 2) + Bit(v, 3)
          + Bit(v, 4) + Bit(v, 5) + Bit(v, 6) + Bit(v, 7)) % 2 = 0)

GetFlagsRegister(s) ==
    128 * s.S + 64 * s.Z + 32 * s.Y + 16 * s.H + 8 * s.X + 4 * s.P
    + 2 * s.N + s.C

SetFlagsRegister(s, f) ==
    [s EXCEPT !.S = Bit(f, 7), !.Z = Bit(f, 6), !.Y = Bit(f, 5),
              !.H = Bit(f, 4), !.X = Bit(f, 3), !.P = Bit(f, 2),
              !.N = Bit(f, 1), !.C = Bit(f, 0)]

UpdateXyFlags(s, v) == [s EXCEPT !.Y = Bit(v, 5), !.X = Bit(v, 3)]

\* The assignments most instructions end with: S, Z and the undocumented
\* flags from a result, the rest as given.
SetFlags(s, v, hf, pf, nf, cf) ==
    UpdateXyFlags([s EXCEPT !.S = Bit(v, 7), !.Z = Flag(v % 256 = 0),
                            !.H = hf, !.P = pf, !.N = nf, !.C = cf], v)

-----------------------------------------------------------------------------
(* Operands.  The eight operands of a register field of an opcode, with    *)
(* (HL) as number 6; the register pairs, with SP as number 3.  The program *)
(* counter is on the last byte read; run_instruction moves it on.          *)

HL(s) == Word(s.h, s.l)
Reg == <<"b", "c", "d", "e", "h", "l", "m", "a">>

GetOperand(s, k) == IF k = 6 THEN MemRead(s, HL(s)) ELSE s[Reg[k + 1]]
PutOperand(s, k, v) ==
    IF k = 6 THEN MemWrite(s, HL(s), v) ELSE [s EXCEPT ![Reg[k + 1]] = v]

Pair(s, p) == IF p = 3 THEN s.sp ELSE Word(s[Reg[2 * p + 1]], s[Reg[2 * p + 2]])
PutPair(s, p, v) ==
    IF p = 3 THEN [s EXCEPT !.sp = W16(v)]
    ELSE [s EXCEPT ![Reg[2 * p + 1]] = Hi(v), ![Reg[2 * p + 2]] = Lo(v)]

Skip(s, n) == [s EXCEPT !.pc = W16(@ + n)]
Imm(s) == MemRead(s, W16(s.pc + 1))
Imm16(s) == Word(MemRead(s, W16(s.pc + 2)), Imm(s))
Read16(s, a) == Word(MemRead(s, W16(a + 1)), MemRead(s, a))
Write16(s, a, w) == MemWrite(MemWrite(s, a, Lo(w)), W16(a + 1), Hi(w))

PushWord(s, w) ==
    LET hi == MemWrite([s EXCEPT !.sp = W16(@ - 1)], W16(s.sp - 1), Hi(w))
    IN  MemWrite([hi EXCEPT !.sp = W16(@ - 1)], W16(s.sp - 2), Lo(w))
PopWord(s) == Word(MemRead(s, W16(s.sp + 1)), MemRead(s, s.sp))
Popped(s) == [s EXCEPT !.sp = W16(@ + 2)]

-----------------------------------------------------------------------------
(* Jumps, calls and returns.  Each leaves PC one short of its target.      *)

JumpTo(s, a) == [s EXCEPT !.pc = W16(a - 1)]

AbsoluteJump(s, cond) == IF cond THEN JumpTo(s, Imm16(s)) ELSE Skip(s, 2)
RelativeJump(s, cond) ==
    IF cond THEN Skip(s, GetSignedOffsetByte(Imm(s)) + 1) ELSE Skip(s, 1)
Call(s, cond) ==
    IF cond THEN JumpTo(PushWord(s, W16(s.pc + 3)), Imm16(s)) ELSE Skip(s, 2)
Return(s, cond) == IF cond THEN JumpTo(Popped(s), PopWord(s)) ELSE s
Rst(s, address) == JumpTo(PushWord(s, W16(s.pc + 1)), address)

\* The condition field of an opcode: NZ, Z, NC, C, PO, PE, P, M.
Holds(s, y) == (<<s.Z, s.C, s.P, s.S>>[y \div 2 + 1] = 1) <=> (y % 2 = 1)

-----------------------------------------------------------------------------
(* Eight-bit arithmetic and logic on A. *)

AddCarry(s, o, carry) ==
    LET res == s.a + o + carry
    IN  [SetFlags(s, res, Flag(Digit(o) + Digit(s.a) + carry > 15),
                  Flag(Bit(s.a, 7) = Bit(o, 7) /\ Bit(s.a, 7) # Bit(res, 7)),
                  0, Bit(res, 8))
         EXCEPT !.a = Lo(res)]
SubCarry(s, o, carry) ==
    LET res == s.a - o - carry
    IN  [SetFlags(s, res, Flag(Digit(s.a) < Digit(o) + carry),
                  Flag(Bit(s.a, 7) # Bit(o, 7) /\ Bit(s.a, 7) # Bit(res, 7)),
                  1, Bit(res, 8))
         EXCEPT !.a = Lo(res)]

DoAdd(s, o) == AddCarry(s, o, 0)
\* Mutant: the carry is left out.
DoAdcAsAdd(s, o) == DoAdd(s, o)
DoAdc(s, o) == AddCarry(s, o, s.C)
DoSub(s, o) == SubCarry(s, o, 0)
DoSbc(s, o) == SubCarry(s, o, s.C)
DoCp(s, o) == UpdateXyFlags([DoSub(s, o) EXCEPT !.a = s.a], o)

Logic(s, v, hf) == [SetFlags(s, v, hf, GetParity(v), 0, 0) EXCEPT !.a = v]
DoAnd(s, o) == Logic(s, And8(s.a, o), 1)
DoOr(s, o) == Logic(s, Or8(s.a, o), 0)
DoXor(s, o) == Logic(s, Xor8(s.a, o), 0)

\* op_array: the operation field of an opcode.
Alu(s, y, o) ==
    CASE y = 0 -> DoAdd(s, o)
      [] y = 1 -> DoAdc(s, o)
      [] y = 2 -> DoSub(s, o)
      [] y = 3 -> DoSbc(s, o)
      [] y = 4 -> DoAnd(s, o)
      [] y = 5 -> DoXor(s, o)
      [] y = 6 -> DoOr(s, o)
      [] y = 7 -> DoCp(s, o)

\* The flags of INC and DEC; C is left alone, the caller stores the result.
IncFlags(s, o) == SetFlags(s, o + 1, Flag(Digit(o) = 15), Flag(o = 127), 0, s.C)
DecFlags(s, o) == SetFlags(s, o - 1, Flag(Digit(o) = 0), Flag(o = 128), 1, s.C)

DoNeg(s) ==
    LET v == IF s.a = 128 THEN 128 ELSE Lo(-GetSignedOffsetByte(s.a))
    IN  [SetFlags(s, v, Flag(Digit(v) > 0), Flag(v = 128), 1, Flag(v # 0))
         EXCEPT !.a = v]

\* DAA.
Daa(s) ==
    LET high  == s.C = 1 \/ s.a > 153
        by    == 6 * Flag(s.H = 1 \/ Digit(s.a) > 9) + 96 * Flag(high)
        t     == IF s.N = 0 THEN s.a + by ELSE s.a - by
    IN  [SetFlags(s, t, (Bit(s.a, 4) + Bit(t, 4)) % 2, GetParity(Lo(t)),
                  s.N, Flag(high))
         EXCEPT !.a = Lo(t)]

-----------------------------------------------------------------------------
(* Sixteen-bit arithmetic. *)

DoHlAdd(s, o) ==
    LET res == HL(s) + o
    IN  UpdateXyFlags([s EXCEPT !.N = 0, !.C = Bit(res, 16),
                                !.H = Bit(Low12(HL(s)) + Low12(o), 12),
                                !.l = Lo(res), !.h = Hi(res)], Hi(res))

\* ADC HL and SBC HL set the same flags from an operand that already holds
\* the carry.
Wide(s, o, res, h, sameSign, nf) ==
    UpdateXyFlags([s EXCEPT !.S = Bit(res, 15), !.Z = Flag(W16(res) = 0), !.H = h,
                            !.P = Flag((Bit(HL(s), 15) = Bit(o, 15)) = sameSign
                                       /\ Bit(res, 15) # Bit(HL(s), 15)),
                            !.N = nf, !.C = Bit(res, 16),
                            !.l = Lo(res), !.h = Hi(res)], Hi(res))
DoHlAdc(s, operand) ==
    LET o == operand + s.C
    IN  Wide(s, o, HL(s) + o, Bit(Low12(HL(s)) + Low12(o), 12), TRUE, 0)
DoHlSbc(s, operand) ==
    LET o == operand + s.C
    IN  Wide(s, o, HL(s) - o, Bit(Low12(HL(s)) - Low12(o), 12), FALSE, 1)

\* ADD IX: the sum is stored as it is, without a mask.
DoIxAdd(s, o) ==
    LET res == s.ix + o
    IN  UpdateXyFlags([s EXCEPT !.N = 0, !.C = Bit(res, 16),
                                !.H = Bit(Low12(s.ix) + Low12(o), 12),
                                !.ix = res], Hi(res))

-----------------------------------------------------------------------------
(* Rotates and shifts: the result and the bit that leaves. *)

Rotated(y, o, carry) ==
    CASE y = 0 -> ((2 * o) % 256) + Bit(o, 7)
      [] y = 1 -> o \div 2 + 128 * Bit(o, 0)
      [] y = 2 -> ((2 * o) % 256) + carry
      [] y = 3 -> o \div 2 + 128 * carry
Shifted(y, o) ==
    CASE y = 4 -> (2 * o) % 256
      [] y = 5 -> o \div 2 + 128 * Bit(o, 7)
      [] y = 6 -> ((2 * o) % 256) + 1
      [] y = 7 -> o \div 2
RotValue(s, y, o) == IF y < 4 THEN Rotated(y, o, s.C) ELSE Shifted(y, o)
RotFlags(s, y, o) ==
    LET v == RotValue(s, y, o)
    IN  SetFlags(s, v, 0, GetParity(v), 0, Bit(o, IF y % 2 = 0 THEN 7 ELSE 0))

\* RLCA, RRCA, RLA, RRA keep S, Z and P.
RotA(s, y) == [RotFlags(s, y, s.a) EXCEPT !.S = s.S, !.Z = s.Z, !.P = s.P,
                                          !.a = RotValue(s, y, s.a)]

-----------------------------------------------------------------------------
(* Input, and the block instructions; d is 1 or -1. *)

DoIn(s, v) == SetFlags(s, v, 0, GetParity(v), 0, s.C)
PortBC(s) == Word(s.b, s.c)

BlockStep(s, d) ==
    PutPair(PutPair(s, 2, HL(s) + d), 0, Pair(s, 0) - 1)
LoadFlags(t, n) ==
    [t EXCEPT !.H = 0, !.N = 0, !.P = Flag(t.b # 0 \/ t.c # 0),
              !.Y = Bit(n, 1), !.X = Bit(n, 3)]
BlockLoad(s, v, d) ==
    LoadFlags(BlockStep(PutPair(MemWrite(s, Pair(s, 1), v), 1, Pair(s, 1) + d), d),
              s.a + v)
DoLdi(s) == BlockLoad(s, MemRead(s, HL(s)), 1)
DoLdd(s) == BlockLoad(s, MemRead(s, HL(s)), -1)

CompareFlags(s, v, t) ==
    [t EXCEPT !.C = s.C, !.Y = Bit(s.a - v - t.H, 1),
              !.X = Bit(s.a - v - t.H, 3), !.P = Flag(Pair(s, 0) # 1)]
BlockCompare(s, v, d) == CompareFlags(s, v, BlockStep(DoCp(s, v), d))
DoCpi(s) == BlockCompare(s, MemRead(s, HL(s)), 1)
DoCpd(s) == BlockCompare(s, MemRead(s, HL(s)), -1)

BlockIn(s, d) ==
    LET t == [DecFlags(s, s.b) EXCEPT !.b = Lo(@ - 1)]
    IN  [PutPair(MemWrite(t, HL(t), IoRead(t, PortBC(t))), 2, HL(s) + d)
         EXCEPT !.N = 1]
Counted(t) == [DecFlags(t, t.b) EXCEPT !.b = Lo(@ - 1), !.N = 1]
BlockOut(s, d) ==
    Counted(PutPair(IoWrite(s, PortBC(s), MemRead(s, HL(s))), 2, HL(s) + d))
DoIni(s) == BlockIn(s, 1)
DoInd(s) == BlockIn(s, -1)
DoOuti(s) == BlockOut(s, 1)
DoOutd(s) == BlockOut(s, -1)

-----------------------------------------------------------------------------
(* The first quarter of the instruction table, 0x00 to 0x3f.  First what   *)
(* repeats with the register or pair field, then each row's own.           *)

IncR(s) == [s EXCEPT !.r = 128 * Bit(@, 7) + ((@ + 1) % 128)]

ByPair(s, op, p, k, v) ==
    CASE op % 16 = 1  -> Skip(PutPair(s, p, Imm16(s)), 2)
      [] op % 16 = 9  -> DoHlAdd(s, Pair(s, p))
      [] op % 16 = 3  -> PutPair(s, p, Pair(s, p) + 1)
      [] op % 16 = 11 -> PutPair(s, p, Pair(s, p) - 1)
      [] op % 8 = 4   -> PutOperand(IncFlags(s, v), k, Lo(v + 1))
      [] op % 8 = 5   -> PutOperand(DecFlags(s, v), k, Lo(v - 1))
      [] op % 8 = 6   -> PutOperand(Skip(s, 1), k, Imm(s))

ExAf(s) == [SetFlagsRegister(s, s.f_prime)
            EXCEPT !.a = s.a_prime, !.a_prime = s.a,
                   !.f_prime = GetFlagsRegister(s)]

Row0(s, op, other) ==
    CASE op = 0  -> s                                          \* NOP
      [] op = 2  -> MemWrite(s, Pair(s, 0), s.a)               \* LD (BC),A
      [] op = 7  -> RotA(s, 0)                                 \* RLCA
      [] op = 8  -> ExAf(s)                                    \* EX AF,AF'
      [] op = 10 -> [s EXCEPT !.a = MemRead(s, Pair(s, 0))]    \* LD A,(BC)
      [] op = 15 -> RotA(s, 1)                                 \* RRCA
      [] OTHER   -> other
Row1(s, op, other) ==
    CASE op = 16 -> RelativeJump([s EXCEPT !.b = Lo(@ - 1)], s.b # 1) \* DJNZ
      [] op = 18 -> MemWrite(s, Pair(s, 1), s.a)               \* LD (DE),A
      [] op = 23 -> RotA(s, 2)                                 \* RLA
      [] op = 24 -> RelativeJump(s, TRUE)                      \* JR
      [] op = 26 -> [s EXCEPT !.a = MemRead(s, Pair(s, 1))]    \* LD A,(DE)
      [] op = 31 -> RotA(s, 3)                                 \* RRA
      [] OTHER   -> other
Row2(s, op, other) ==
    CASE op \in {32, 40} -> RelativeJump(s, Holds(s, op \div 8 - 4))  \* JR NZ; JR Z
      [] op = 34 -> Skip(Write16(s, Imm16(s), HL(s)), 2)       \* LD (nn),HL
      [] op = 42 -> Skip(PutPair(s, 2, Read16(s, Imm16(s))), 2) \* LD HL,(nn)
      [] op = 39 -> Daa(s)
      [] op = 47 -> [UpdateXyFlags(s, 255 - s.a)               \* CPL
                     EXCEPT !.a = 255 - @, !.N = 1, !.H = 1]
      [] OTHER   -> other
Row3(s, op, other) ==
    CASE op \in {48, 56} -> RelativeJump(s, Holds(s, op \div 8 - 4))  \* JR NC; JR C
      [] op = 50 -> Skip(MemWrite(s, Imm16(s), s.a), 2)        \* LD (nn),A
      [] op = 58 -> Skip([s EXCEPT !.a = MemRead(s, Imm16(s))], 2)    \* LD A,(nn)
      [] op = 55 -> [UpdateXyFlags(s, s.a)                     \* SCF
                     EXCEPT !.N = 0, !.H = 0, !.C = 1]
      [] op = 63 -> [UpdateXyFlags(s, s.a)                     \* CCF
                     EXCEPT !.N = 0, !.H = s.C, !.C = 1 - @]
      [] OTHER   -> other

-----------------------------------------------------------------------------
(* The prefix CB: rotates, BIT, RES and SET. *)

BitFlags(s, v, n) ==
    LET z == 1 - Bit(v, n)
    IN  [s EXCEPT !.Z = z, !.N = 0, !.H = 1, !.P = z, !.S = Flag(n = 7 /\ z = 0)]
BitXy(s, n) == [s EXCEPT !.Y = Flag(n = 5 /\ s.Z = 0), !.X = Flag(n = 3 /\ s.Z = 0)]
WithBit(v, n, b) == v + (b - Bit(v, n)) * 2^n

\* What a CB opcode below or above BIT stores, and the flags it sets.
CbValue(s, op, v) ==
    CASE op < 64   -> RotValue(s, op \div 8, v)
      [] op \in 128 .. 191 -> WithBit(v, Y(op), 0)
      [] op > 191  -> WithBit(v, Y(op), 1)
CbFlags(s, op, v) == IF op < 64 THEN RotFlags(s, op \div 8, v) ELSE s
IsBit(op) == op \in 64 .. 127

CbInstruction(s, op, v) ==
    IF IsBit(op) THEN BitXy(BitFlags(s, v, Y(op)), Y(op))
    ELSE PutOperand(CbFlags(s, op, v), op % 8, CbValue(s, op, v))

\* The byte after a prefix.
Prefixed(s) == Skip(IncR(s), 1)
PrefixCb(s) ==
    CbInstruction(Prefixed(s), Imm(s), GetOperand(s, Imm(s) % 8))

-----------------------------------------------------------------------------
(* The prefix ED. *)

PortIn(s, k, v) ==
    IF k = 6 THEN DoIn(s, v) ELSE PutOperand(DoIn(s, v), k, v)
PortOut(s, k) == IoWrite(s, PortBC(s), IF k = 6 THEN 0 ELSE s[Reg[k + 1]])

EdByPair(s, op) ==
    LET p == (op \div 16) % 4
        k == Y(op)
    IN  CASE op % 8 = 0   -> PortIn(s, k, IoRead(s, PortBC(s)))
          [] op % 8 = 1   -> PortOut(s, k)
          [] op % 16 = 2  -> DoHlSbc(s, Pair(s, p))
          [] op % 16 = 10 -> DoHlAdc(s, Pair(s, p))
          [] op % 16 = 3  -> Skip(Write16(s, Imm16(s), Pair(s, p)), 2)
          [] op % 16 = 11 -> Skip(PutPair(s, p, Read16(s, Imm16(s))), 2)
          [] op % 8 = 4   -> DoNeg(s)
          [] op % 8 = 5   -> [Return(s, TRUE) EXCEPT !.iff1 = s.iff2]  \* RETN
          [] op % 8 = 6   -> [s EXCEPT !.imode = <<0, 0, 1, 2>>[(k % 4) + 1]]

\* LD A,I and LD A,R: P is IFF2.
FromIr(s, v) == [SetFlags(s, v, 0, s.iff2, 0, s.C) EXCEPT !.a = v]

\* RRD and RLD: the digits (HL) and A hold afterwards.
Digits(s, inA, inMem) ==
    LET a == 16 * (s.a \div 16) + inA
    IN  [SetFlags(MemWrite(s, HL(s), inMem), a, 0, GetParity(a), 0, s.C)
         EXCEPT !.a = a]

EdRow4(s, op, other) ==
    CASE op = 71 -> [s EXCEPT !.i = s.a]                       \* LD I,A
      [] op = 77 -> Return(s, TRUE)                            \* RETI
      [] op = 79 -> [s EXCEPT !.r = s.a]                       \* LD R,A
      [] OTHER   -> other
EdRow5(s, op, other) ==
    CASE op = 87 -> FromIr(s, s.i)                             \* LD A,I
      [] op = 95 -> FromIr(s, s.r)                             \* LD A,R
      [] OTHER   -> other
EdRow6(s, op, m, other) ==
    CASE op = 103 -> Digits(s, Digit(m), m \div 16 + 16 * Digit(s.a))
      [] op = 111 -> Digits(s, m \div 16, 16 * Digit(m) + Digit(s.a))
      [] OTHER    -> other
EdRow7(s, op, other) == IF op \in {119, 127} THEN s ELSE other

\* A block instruction repeats by stepping back over itself.
Again(s, more) == IF more THEN Skip(s, -2) ELSE s
MoreBC(s) == s.b # 0 \/ s.c # 0
EdBlock(s, op) ==
    CASE op = 160 -> DoLdi(s)
      [] op = 161 -> DoCpi(s)
      [] op = 162 -> DoIni(s)
      [] op = 163 -> DoOuti(s)
      [] op = 168 -> DoLdd(s)
      [] op = 169 -> DoCpd(s)
      [] op = 170 -> DoInd(s)
      [] op = 171 -> DoOutd(s)
      [] OTHER    -> s
EdRepeat(t, op) ==
    CASE op \in {176, 184} -> Again(t, MoreBC(t))
      [] op \in {177, 185} -> Again(t, t.Z = 0 /\ MoreBC(t))
      [] op \in {178, 179, 186, 187} -> Again(t, t.b # 0)
      [] OTHER -> t

EdInstruction(s, op, other) ==
    CASE op \in 64 .. 79   -> EdRow4(s, op, other)
      [] op \in 80 .. 95   -> EdRow5(s, op, other)
      [] op \in 96 .. 111  -> EdRow6(s, op, MemRead(s, HL(s)), other)
      [] op \in 112 .. 127 -> EdRow7(s, op, other)
      [] op \in 160 .. 191 ->
            EdRepeat(EdBlock(s, IF op > 175 THEN op - 16 ELSE op), op)
      [] OTHER -> s
EdOpcode(s, op) == EdInstruction(s, op, EdByPair(s, op))
PrefixEd(s) == EdOpcode(Prefixed(s), Imm(s))

-----------------------------------------------------------------------------
(* The prefixes DD and FD: the same table, on IX; FD swaps IX and IY       *)
(* around it.  An opcode the table lacks runs as if it had no prefix.      *)

IxHalf(s, k) == IF k = 4 THEN Hi(s.ix) ELSE Lo(s.ix)
PutIxHalf(s, k, v) ==
    [s EXCEPT !.ix = IF k = 4 THEN Word(v, Lo(@)) ELSE Word(Hi(@), v)]
\* (IX+d), with d in the byte after the opcode.
IxAt(s) == W16(s.ix + GetSignedOffsetByte(Imm(s)))
\* The operand of a register field under the prefix, and PC past its d.
IxOperand(s, k) ==
    CASE k \in {4, 5} -> IxHalf(s, k)
      [] k = 6 -> MemRead(s, IxAt(s))
      [] OTHER -> s[Reg[k + 1]]
PastOffset(s, k) == IF k = 6 THEN Skip(s, 1) ELSE s

DdOpcodes ==
    {9, 25, 41, 57, 52, 53, 54, 203, 225, 227, 229, 233, 249}
    \cup 33 .. 38 \cup 42 .. 46 \cup 96 .. 111 \cup (112 .. 119 \ {118})
    \cup {8 * y + z : y \in {8, 9, 10, 11, 15} \cup 16 .. 23, z \in 4 .. 6}

DdPair(s, op) ==
    CASE op % 16 = 9 -> DoIxAdd(s, IF op = 41 THEN s.ix ELSE Pair(s, op \div 16))
      [] op = 33 -> Skip([s EXCEPT !.ix = Imm16(s)], 2)         \* LD IX,nn
      [] op = 34 -> Skip(Write16(s, Imm16(s), s.ix), 2)         \* LD (nn),IX
      [] op = 42 -> Skip([s EXCEPT !.ix = Read16(s, Imm16(s))], 2)
      [] op = 35 -> [s EXCEPT !.ix = W16(@ + 1)]
      [] op = 43 -> [s EXCEPT !.ix = W16(@ - 1)]
      [] op = 36 -> PutIxHalf(IncFlags(s, s.ix \div 256), 4, Lo(s.ix \div 256 + 1))
      [] op = 37 -> PutIxHalf(DecFlags(s, s.ix \div 256), 4, Lo(s.ix \div 256 - 1))
      [] op = 44 -> PutIxHalf(IncFlags(s, Lo(s.ix)), 5, Lo(s.ix + 1))
      [] op = 45 -> PutIxHalf(DecFlags(s, Lo(s.ix)), 5, Lo(s.ix - 1))
      [] op \in {38, 46} -> Skip(PutIxHalf(s, op \div 8, Imm(s)), 1)
DdMemory(s, op, a, v) ==
    CASE op = 52 -> MemWrite(IncFlags(Skip(s, 1), v), a, Lo(v + 1))  \* INC (IX+d)
      [] op = 53 -> MemWrite(DecFlags(Skip(s, 1), v), a, Lo(v - 1))  \* DEC (IX+d)
      [] op = 54 -> Skip(MemWrite(s, a, MemRead(s, W16(s.pc + 2))), 2)

\* LD r, with IXH, IXL or (IX+d); here H and L are themselves.
DdLoad(s, op) ==
    PastOffset([s EXCEPT ![Reg[Y(op) + 1]] = IxOperand(s, op % 8)], op % 8)
\* LD IXH and LD IXL.  The shift of LD IXL,IXH keeps what ADD IX left above
\* sixteen bits.
DdLoadHalf(s, op) ==
    CASE op \in {102, 110} -> DdLoad(s, op)
      [] op \in {100, 109} -> s
      [] op = 108 -> [s EXCEPT !.ix = Word(Or8(Hi(@), @ \div 65536), Hi(@))]
      [] OTHER -> PutIxHalf(s, op \div 8 - 8, IxOperand(s, op % 8))
DdStore(s, op) == Skip(MemWrite(s, IxAt(s), s[Reg[(op % 8) + 1]]), 1)
DdAlu(s, op) == Alu(PastOffset(s, op % 8), op \div 8 - 16, IxOperand(s, op % 8))

\* DD CB d op: rotates, RES and SET also copy the result to a register.
DdCbStore(s, op, a, w) ==
    IF op % 8 = 6 THEN MemWrite(s, a, w)
    ELSE PutOperand(MemWrite(s, a, w), op % 8, w)
DdCbOpcode(s, op, a, v) ==
    IF IsBit(op) THEN BitFlags(s, v, Y(op))
    ELSE DdCbStore(CbFlags(s, op, v), op, a, CbValue(s, op, v))
DdCb(s) ==
    DdCbOpcode(Skip(s, 2), MemRead(s, W16(s.pc + 2)), IxAt(s), MemRead(s, IxAt(s)))

DdStack(s, op) ==
    CASE op = 225 -> [Popped(s) EXCEPT !.ix = PopWord(s)]       \* POP IX
      [] op = 227 -> [Write16(s, s.sp, s.ix) EXCEPT !.ix = Read16(s, s.sp)]
      [] op = 229 -> PushWord(s, s.ix)                          \* PUSH IX
      [] op = 233 -> JumpTo(s, s.ix)                            \* JP (IX)
      [] op = 249 -> [s EXCEPT !.sp = s.ix]                     \* LD SP,IX

DdInstruction(s, op) ==
    CASE op = 203 -> DdCb(s)
      [] op \in {52, 53, 54} -> DdMemory(s, op, IxAt(s), MemRead(s, IxAt(s)))
      [] op < 64 -> DdPair(s, op)
      [] op \in 96 .. 111 -> DdLoadHalf(s, op)
      [] op \in 112 .. 119 -> DdStore(s, op)
      [] op \in 64 .. 127 -> DdLoad(s, op)
      [] op \in 128 .. 191 -> DdAlu(s, op)
      [] OTHER -> DdStack(s, op)

DdOpcode(s, op) ==
    IF op \in DdOpcodes THEN DdInstruction(s, op) ELSE Skip(s, -1)
PrefixDd(s) == DdOpcode(Prefixed(s), Imm(s))

SwapIxIy(s) == [s EXCEPT !.ix = s.iy, !.iy = s.ix]
PrefixFd(s0) == SwapIxIy(PrefixDd(SwapIxIy(s0)))

-----------------------------------------------------------------------------
(* The last quarter of the table, 0xc0 to 0xff. *)

ByCondition(s, op, y) ==
    CASE op % 8 = 0 -> Return(s, Holds(s, y))
      [] op % 8 = 2 -> AbsoluteJump(s, Holds(s, y))
      [] op % 8 = 4 -> Call(s, Holds(s, y))
      [] op % 8 = 6 -> Alu(Skip(s, 1), y, Imm(s))
      [] op % 8 = 7 -> Rst(s, 8 * y)
      [] op % 16 = 1 -> PutPair(Popped(s), y \div 2, PopWord(s))
      [] op % 16 = 5 -> PushWord(s, Pair(s, y \div 2))

Exx(s) ==
    [s EXCEPT !.b = s.b_prime, !.b_prime = s.b, !.c = s.c_prime, !.c_prime = s.c,
              !.d = s.d_prime, !.d_prime = s.d, !.e = s.e_prime, !.e_prime = s.e,
              !.h = s.h_prime, !.h_prime = s.h, !.l = s.l_prime, !.l_prime = s.l]

RowC(s, op, other) ==
    CASE op = 195 -> AbsoluteJump(s, TRUE)                      \* JP
      [] op = 201 -> Return(s, TRUE)                            \* RET
      [] op = 203 -> PrefixCb(s)
      [] op = 205 -> Call(s, TRUE)                              \* CALL
      [] OTHER    -> other
RowD(s, op, other) ==
    CASE op = 211 -> Skip(IoWrite(s, Word(s.a, Imm(s)), s.a), 1)     \* OUT (n),A
      [] op = 219 -> Skip([s EXCEPT !.a = IoRead(s, Word(s.a, Imm(s)))], 1)
      [] op = 217 -> Exx(s)
      [] op = 221 -> PrefixDd(s)
      [] OTHER    -> other
RowE(s, op, other) ==
    CASE op = 227 -> PutPair(Write16(s, s.sp, HL(s)), 2, Read16(s, s.sp))
      [] op = 233 -> JumpTo(s, HL(s))                           \* JP (HL)
      [] op = 235 -> PutPair(PutPair(s, 1, HL(s)), 2, Pair(s, 1))    \* EX DE,HL
      [] op = 237 -> PrefixEd(s)
      [] OTHER    -> other
RowF(s, op, other) ==
    CASE op = 241 -> [SetFlagsRegister(Popped(s), Lo(PopWord(s)))    \* POP AF
                      EXCEPT !.a = Hi(PopWord(s))]
      [] op = 245 -> PushWord(s, Word(s.a, GetFlagsRegister(s)))     \* PUSH AF
      [] op = 243 -> [s EXCEPT !.do_delayed_di = TRUE]          \* DI
      [] op = 251 -> [s EXCEPT !.do_delayed_ei = TRUE]          \* EI
      [] op = 249 -> [s EXCEPT !.sp = HL(s)]                    \* LD SP,HL
      [] op = 253 -> PrefixFd(s)
      [] OTHER    -> other

-----------------------------------------------------------------------------
(* The public functions. *)

FirstRows(s, op, other) ==
    CASE op < 16 -> Row0(s, op, other)
      [] op \in 16 .. 31 -> Row1(s, op, other)
      [] op \in 32 .. 47 -> Row2(s, op, other)
      [] OTHER -> Row3(s, op, other)
LastRows(s, op, other) ==
    CASE op < 208 -> RowC(s, op, other)
      [] op \in 208 .. 223 -> RowD(s, op, other)
      [] op \in 224 .. 239 -> RowE(s, op, other)
      [] OTHER -> RowF(s, op, other)

\* HALT is where LD (HL),(HL) would be.
\* Mutant: all of LD (HL),r halts.
IsHaltRow(op) == op \in 112 .. 119
IsHalt(op) == op = 118

DecodeInstruction(s, op) ==
    CASE IsHalt(op) -> [s EXCEPT !.halted = TRUE]
      [] op \in 64 .. 127 /\ ~IsHalt(op) ->
            PutOperand(s, Y(op), GetOperand(s, op % 8))    \* LD r,r
      [] op \in 128 .. 191 -> Alu(s, Y(op), GetOperand(s, op % 8))
      [] op < 64 ->
            FirstRows(s, op, ByPair(s, op, op \div 16, op \div 8, GetOperand(s, op \div 8)))
      [] op > 191 -> LastRows(s, op, ByCondition(s, op, Y(op)))

SetIff(s, v) == [s EXCEPT !.iff1 = v, !.iff2 = v]

\* DI and EI take effect after the instruction that follows them.
\* Mutant: a delayed DI is forgotten.
DelayedNoDi(s, di, ei) == IF ei THEN SetIff(s, 1) ELSE s
Delayed(s, di, ei) == IF di \/ ei THEN SetIff(s, Flag(ei)) ELSE s

Fetched(s, di, ei) ==
    IncR([s EXCEPT !.do_delayed_di = FALSE, !.do_delayed_ei = @ /\ ~ei])
RunWith(s, di, ei) ==
    Delayed(Skip(DecodeInstruction(Fetched(s, di, ei), MemRead(s, s.pc)), 1), di, ei)
RunInstruction(s) ==
    IF s.halted THEN s
    ELSE RunWith(s, s.do_delayed_di, ~s.do_delayed_di /\ s.do_delayed_ei)

\* The INT pin, with what the bus carries; NMI.
Vector(s, data) ==
    LET t == SetIff([IncR(s) EXCEPT !.halted = FALSE], 0)
    IN  CASE s.imode = 0 -> Skip(DecodeInstruction(Skip(t, -1), data), 1)
          [] s.imode = 1 -> [PushWord(t, s.pc) EXCEPT !.pc = 56]
          [] s.imode = 2 -> LET u == PushWord(t, s.pc)
                            IN  [u EXCEPT !.pc = Read16(u, Word(s.i, data))]
Interrupt(s, data) == IF s.iff1 = 1 THEN Vector(s, data) ELSE s
NonMaskable(s) ==
    LET t == [IncR(s) EXCEPT !.halted = FALSE, !.iff2 = s.iff1, !.iff1 = 0]
    IN  [PushWord(t, s.pc) EXCEPT !.pc = 102]

Reset(s) ==
    [SetFlagsRegister(SetIff(s, 0), 0)
     EXCEPT !.sp = 57328, !.pc = 0, !.a = 0, !.r = 0, !.imode = 0,
            !.halted = FALSE, !.do_delayed_di = FALSE, !.do_delayed_ei = FALSE]

\* The registers of a new processor.
PowerOn ==
    [a |-> 0, b |-> 0, c |-> 0, d |-> 0, e |-> 0, h |-> 0, l |-> 0,
     a_prime |-> 0, b_prime |-> 0, c_prime |-> 0, d_prime |-> 0, e_prime |-> 0,
     h_prime |-> 0, l_prime |-> 0, ix |-> 0, iy |-> 0, i |-> 0, r |-> 0,
     sp |-> 57328, pc |-> 0, S |-> 0, Z |-> 0, Y |-> 0, H |-> 0, X |-> 0,
     P |-> 0, N |-> 0, C |-> 0, f_prime |-> 0, imode |-> 0, iff1 |-> 0,
     iff2 |-> 0, halted |-> FALSE, do_delayed_di |-> FALSE,
     do_delayed_ei |-> FALSE]
=============================================================================
