---------------------------- MODULE ExePrograms ----------------------------
(***************************************************************************)
(* The programs that ExeHarness runs: routines of src/lib, assembled, each *)
(* under a small main program at 8100h, with what the run must end with.   *)
(***************************************************************************)
EXTENDS Integers, Sequences, FiniteSets, TLC

\* ISA_OPEN and ISA_CLOSE (isa.asm) at 8200.
IsaAsm ==
    << 245, 237, 87, 234, 14, 130, 237, 87,  \* PUSH AF / LD A,I / JP PE,IFF_ON / LD A,I
       234, 14, 130, 175, 24, 2,             \* JP PE,IFF_ON / XOR A / JR IFF_SAMPLED
       62, 1, 243, 197, 71,                  \* LD A,1 / DI / PUSH BC / LD B,A
       58, 107, 130, 183,                    \* LD A,(IS_OPEN) / OR A
       32, 41, 120,                          \* JR NZ,OPEN_ALREADY / LD A,B
       50, 96, 130, 1, 226, 0, 237, 120,     \* LD (SAVE_IFF),A / LD BC,PAGE3 / IN A,(C)
       50, 88, 130, 1, 253, 31,              \* LD (SAVE_MMU3),A / LD BC,PORT_SYSTEM
       62, 17, 237, 121, 62, 1, 203, 39,     \* LD A,0x11 / OUT (C),A / LD A,1 / SLA A
       246, 212, 1, 226, 0, 237, 121,        \* OR A,0xD4 / LD BC,PAGE3 / OUT (C),A
       1, 189, 159, 175, 237, 121,           \* LD BC,PORT_ISA / XOR A / OUT (C),A
       62, 1, 50, 107, 130, 193,             \* LD A,1 / LD (IS_OPEN),A / POP BC
       241, 201, 245, 197,                   \* POP AF / RET / PUSH AF / PUSH BC
       58, 107, 130, 183,                    \* LD A,(IS_OPEN) / OR A
       40, 27, 62, 1,                        \* JR Z,CLOSE_ALREADY / LD A,1
       1, 253, 31, 237, 121,                 \* LD BC,PORT_SYSTEM / OUT (C),A
       1, 226, 0, 62, 0, 237, 121, 175,      \* LD BC,PAGE3 / LD A,0 / OUT (C),A / XOR A
       50, 107, 130, 62, 0, 183,             \* LD (IS_OPEN),A / LD A,0 / OR A
       40, 1, 251, 193, 241, 201,            \* JR Z,NO_EI / EI / POP BC / POP AF / RET
       193, 241, 201, 0 >>                   \* POP BC / POP AF / RET / DB 0

\* HEXB, DELAY_1MS and DELAY_2MS (util.asm) at 8300.
UtilAsm ==
    << 121, 31, 31, 31, 31,          \* LD A,C / RRA / RRA / RRA / RRA
       205, 9, 131, 121, 230, 15,    \* CALL NIBBLE / LD A,C / AND 0x0F
       198, 144, 39, 206, 64, 39,    \* ADD A,0x90 / DAA / ADC A,0x40 / DAA
       18, 19, 201, 245,             \* LD (DE),A / INC DE / RET / PUSH AF
       197, 1, 144, 1, 11, 120,      \* PUSH BC / LD BC,400 / DEC BC / LD A,B
       177, 32, 251, 193, 241, 201,  \* OR C / JR NZ,L1 / POP BC / POP AF / RET
       205, 20, 131, 24, 238 >>      \* CALL DELAY_1MS / JR DELAY_1MS

\* CHECKSUM (util.asm) at 8340.
ChecksumAsm ==
    << 33, 0, 0, 120, 177, 40, 29,      \* LD HL,0 / LD A,B / OR C / JR Z,CDONE
       221, 86, 0, 221, 35, 11, 30, 0,  \* LD D,(IX+0) / INC IX / DEC BC / LD E,0
       120, 177, 40, 6, 221, 94, 0,     \* LD A,B / OR C / JR Z,CADD / LD E,(IX+0)
       221, 35, 11, 25, 48, 231,        \* INC IX / DEC BC / ADD HL,DE / JR NC,CLP
       35, 124, 181, 32, 226,           \* INC HL / LD A,H / OR L / JR NZ,CLP
       35, 24, 223, 124, 47, 103,       \* INC HL / JR CLP / LD A,H / CPL / LD H,A
       125, 47, 111, 201 >>             \* LD A,L / CPL / LD L,A / RET

\* DIV32_BY_DE (util.asm) at 8380, with its dividend at 8500.
DivAsm ==
    << 33, 0, 0, 6, 32, 229,         \* LD HL,0 / LD B,32 / PUSH HL
       33, 0, 133, 203, 38, 35,      \* LD HL,SCRATCH / SLA (HL) / INC HL
       203, 22, 35, 203, 22, 35,     \* RL (HL) / INC HL / RL (HL) / INC HL
       203, 22, 225, 237, 106,       \* RL (HL) / POP HL / ADC HL,HL
       56, 7, 183, 237, 82,          \* JR C,SUB_FORCE / OR A / SBC HL,DE
       56, 14, 24, 3, 183, 237, 82,  \* JR C,NOSUB / JR DSET / OR A / SBC HL,DE
       229, 33, 0, 133, 203, 198,    \* PUSH HL / LD HL,SCRATCH / SET 0,(HL)
       225, 24, 1, 25, 16, 214,      \* POP HL / JR DNEXT / ADD HL,DE / DJNZ DLP
       201 >>                        \* RET

\* RUN (win0cold.asm) at 8400, READY and PHYS_BYTE after it.
RunAsm ==
    << 50, 48, 132, 58, 73, 132, 183,        \* LD (SAVE_A),A / LD A,(READY) / OR A
       32, 2, 55, 201, 237, 87,              \* JR NZ,GO / SCF / RET / LD A,I
       234, 24, 132, 237, 87, 234, 24, 132,  \* JP PE,R_ON / LD A,I / JP PE,R_ON
       175, 24, 2, 62, 1,                    \* XOR A / JR R_SAMPLED / LD A,1
       50, 66, 132, 243, 237, 115, 62, 132,  \* LD (R_SAVE_IFF),A / DI / LD (SAVE_SP),SP
       219, 130, 50, 56, 132,                \* IN A,(PAGE0) / LD (SAVE_PAGE0),A
       58, 74, 132, 211, 130,                \* LD A,(PHYS_BYTE) / OUT (PAGE0),A
       49, 0, 64, 62, 0, 205, 0, 0,          \* LD SP,0x4000 / LD A,0 / CALL 0
       50, 60, 132, 62, 0, 211, 130,         \* LD (RESULT_A),A / LD A,0 / OUT (PAGE0),A
       62, 0, 49, 0, 0, 245, 62, 0,          \* LD A,0 / LD SP,0 / PUSH AF / LD A,0
       183, 40, 1, 251, 241, 201,            \* OR A / JR Z,R_NO_EI / EI / POP AF / RET
       0, 0 >>                               \* DB 0 / DB 0

\* A cold routine: twice A plus a register of the card, put back into it.
ColdBlob ==
    << 135, 33, 0, 195, 229,  \* ADD A,A / LD HL,CHIP / PUSH HL
       134, 119, 225, 201 >>  \* ADD A,(HL) / LD (HL),A / POP HL / RET

\* An interrupt routine of a program that keeps its own page in window 0.
Trampoline ==
    << 245, 197, 1, 52, 18, 175,  \* PUSH AF / PUSH BC / LD BC,0x1234 / XOR A
       193, 241, 251, 237, 77 >>  \* POP BC / POP AF / EI / RETI

\* A nested bracket around the card; the exit code is the interrupt state
\* that it leaves.  Once with interrupts on, once off.
MainBracketOn ==
    << 251, 0, 205, 0, 130, 205, 0, 130,     \* EI / NOP / CALL ISA_OPEN / CALL ISA_OPEN
       58, 0, 195, 50, 1, 195,               \* LD A,(CHIP) / LD (CHIP+1),A
       205, 69, 130, 205, 69, 130, 6, 0,     \* CALL ISA_CLOSE / CALL ISA_CLOSE / LD B,0
       237, 87, 226, 29, 129, 6, 1, 14, 65,  \* LD A,I / JP PO,$+5 / LD B,1 / LD C,0x41
       215 >>                                \* RST 0x10

MainBracketOff ==
    << 243, 0, 205, 0, 130, 205, 0, 130,     \* DI / NOP / CALL ISA_OPEN / CALL ISA_OPEN
       58, 0, 195, 50, 1, 195,               \* LD A,(CHIP) / LD (CHIP+1),A
       205, 69, 130, 205, 69, 130, 6, 0,     \* CALL ISA_CLOSE / CALL ISA_CLOSE / LD B,0
       237, 87, 226, 29, 129, 6, 1, 14, 65,  \* LD A,I / JP PO,$+5 / LD B,1 / LD C,0x41
       215 >>                                \* RST 0x10

\* INIT without its file: a block, its physical page, the blob staged over
\* window 3; then RUN from inside the bracket.  The stack is in window 0.
MainCold ==
    << 251, 6, 1, 14, 61, 215,              \* EI / LD B,1 / LD C,0x3D / RST 0x10
       6, 0, 14, 196, 207,                  \* LD B,0 / LD C,0xC4 / RST 8
       50, 74, 132, 1, 226, 0,              \* LD (PHYS_BYTE),A / LD BC,PAGE3
       237, 120, 245, 58, 74, 132,          \* IN A,(C) / PUSH AF / LD A,(PHYS_BYTE)
       237, 121, 33, 128, 132, 17, 0, 192,  \* OUT (C),A / LD HL,COLD / LD DE,0xC000
       1, 9, 0, 237, 176, 241,              \* LD BC,COLDLEN / LDIR / POP AF
       1, 226, 0, 237, 121, 62, 1,          \* LD BC,PAGE3 / OUT (C),A / LD A,1
       50, 73, 132, 205, 0, 130, 62, 5,     \* LD (READY),A / CALL ISA_OPEN / LD A,5
       205, 0, 132, 205, 69, 130, 71,       \* CALL RUN / CALL ISA_CLOSE / LD B,A
       14, 65, 215 >>                       \* LD C,0x41 / RST 0x10

MainDelay ==
    << 251, 205, 33, 131, 6, 0, 14, 65,  \* EI / CALL DELAY_2MS / LD B,0 / LD C,0x41
       215 >>                            \* RST 0x10

\* PRINT_HEX_A of the input; the exit code is the B that PCHARS leaves.
MainHex ==
    << 251, 17, 0, 133, 205, 0, 131, 175,  \* EI / LD DE,0x8500 / CALL HEXB / XOR A
       18, 33, 0, 133, 14, 92,             \* LD (DE),A / LD HL,0x8500 / LD C,0x5C
       215, 14, 65, 215 >>                 \* RST 0x10 / LD C,0x41 / RST 0x10

\* The checksum of as many bytes at 8510 as the input says.
MainChecksum ==
    << 251, 221, 33, 16, 133, 6, 0,     \* EI / LD IX,0x8510 / LD B,0
       205, 64, 131, 34, 0, 133, 6, 0,  \* CALL CHECKSUM / LD (0x8500),HL / LD B,0
       14, 65, 215 >>                   \* LD C,0x41 / RST 0x10

MainDiv ==
    << 251, 17, 205, 171, 205, 128, 131,  \* EI / LD DE,0xABCD / CALL DIV32
       34, 8, 133, 6, 0, 14, 65,          \* LD (0x8508),HL / LD B,0 / LD C,0x41
       215 >>                             \* RST 0x10

\* PUTCHAR in a DJNZ loop, with the counter saved as the real DSS demands.
MainPrint ==
    << 251, 6, 3, 197, 62, 46,     \* EI / LD B,3 / PUSH BC / LD A,0x2E
       14, 91, 215, 193, 16, 247,  \* LD C,0x5B / RST 0x10 / POP BC / DJNZ PLP
       14, 65, 215 >>              \* LD C,0x41 / RST 0x10

\* A program with its own page, and its own RST 38h, in window 0.
MainOwnPage ==
    << 6, 1, 14, 61, 215, 6, 0,                 \* LD B,1 / LD C,0x3D / RST 0x10 / LD B,0
       14, 196, 207, 211, 226,                  \* LD C,0xC4 / RST 8 / OUT (PAGE3),A
       33, 192, 132, 17, 56, 192,               \* LD HL,TRAMP / LD DE,0xC038
       1, 11, 0, 237, 176, 211, 130,            \* LD BC,TRAMPLEN / LDIR / OUT (PAGE0),A
       251, 33, 128, 132, 17, 0, 133, 1, 6, 0,  \* EI / LD HL,COLD / LD DE,0x8500 / LD BC,6
       237, 176, 175, 211, 130, 6, 0,           \* LDIR / XOR A / OUT (PAGE0),A / LD B,0
       14, 65, 215 >>                           \* LD C,0x41 / RST 0x10

\* The same with a bracket around the card in it.
MainOwnBracket ==
    << 6, 1, 14, 61, 215, 6, 0,          \* LD B,1 / LD C,0x3D / RST 0x10 / LD B,0
       14, 196, 207, 211, 226,           \* LD C,0xC4 / RST 8 / OUT (PAGE3),A
       33, 192, 132, 17, 56, 192,        \* LD HL,TRAMP / LD DE,0xC038
       1, 11, 0, 237, 176, 211, 130,     \* LD BC,TRAMPLEN / LDIR / OUT (PAGE0),A
       251, 0, 205, 0, 130, 58, 0, 195,  \* EI / NOP / CALL ISA_OPEN / LD A,(CHIP)
       205, 69, 130, 175, 211, 130,      \* CALL ISA_CLOSE / XOR A / OUT (PAGE0),A
       6, 0, 14, 65, 215 >>              \* LD B,0 / LD C,0x41 / RST 0x10

\* The self tests of tools/test-exe-harness.js: what the harness must refuse.
OpenSequence ==
    << 1, 253, 31, 62, 17,            \* LD BC,PORT_SYSTEM / LD A,0x11
       237, 121, 1, 226, 0, 62, 214,  \* OUT (C),A / LD BC,PAGE3 / LD A,0xD6
       237, 121, 1, 189, 159, 175,    \* OUT (C),A / LD BC,PORT_ISA / XOR A
       237, 121 >>                    \* OUT (C),A

ThenDss ==
    << 215 >>  \* RST 0x10

ThenChip ==
    << 251, 33, 0, 195, 126 >>  \* EI / LD HL,CHIP / LD A,(HL)

ThenDelay ==
    << 1, 144, 1, 11, 120, 177,  \* LD BC,400 / DEC BC / LD A,B / OR C
       32, 251 >>                \* JR NZ,$-3

MainRawBlock ==
    << 6, 1, 14, 61, 215,  \* LD B,1 / LD C,0x3D / RST 0x10
       211, 226 >>         \* OUT (PAGE3),A

MainNoSystem ==
    << 1, 189, 159, 175, 237, 121 >>  \* LD BC,PORT_ISA / XOR A / OUT (C),A


-----------------------------------------------------------------------------
At(org, bytes) == [a \in org .. org + Len(bytes) - 1 |-> bytes[a - org + 1]]

Identity == [w \in 0 .. 3 |-> w]

\* A program that exits with code, all windows as they were.
Program(image, code) ==
    [image |-> image, entry |-> 33024, stack |-> 40960, input |-> 0,
     distinctBlocks |-> FALSE, faults |-> {"none"}, exit |-> code,
     output |-> <<>>, ms |-> 0, cells |-> <<>>, card |-> <<>>, win |-> Identity]

\* A program that the harness refuses.
Refused(bytes, why) == [Program(At(33024, bytes), -1) EXCEPT !.faults = why]

Bracket(main, code) ==
    [Program(At(33024, main) @@ At(33280, IsaAsm), code)
     EXCEPT !.card = (1 :> 33)]
Cold ==
    [Program(At(33024, MainCold) @@ At(33280, IsaAsm) @@ At(33792, RunAsm)
             @@ At(33920, ColdBlob), 43)
     EXCEPT !.stack = 12288, !.card = (0 :> 43), !.distinctBlocks = TRUE]
Delay == [Program(At(33024, MainDelay) @@ At(33536, UtilAsm), 0) EXCEPT !.ms = 2]

HexDigit(n) == IF n < 10 THEN 48 + n ELSE 55 + n
Hex(v) ==
    [Program(At(33024, MainHex) @@ At(33536, UtilAsm), 0)
     EXCEPT !.input = v, !.output = <<HexDigit(v \div 16), HexDigit(v % 16)>>]

\* RFC 1071 over the first n of these bytes.
Bytes == <<255, 254, 0, 2, 128>>
ByteAt(k, n) == IF k > n THEN 0 ELSE Bytes[k]
OnesSum(n) == 256 * (ByteAt(1, n) + ByteAt(3, n) + ByteAt(5, n))
          + ByteAt(2, n) + ByteAt(4, n)
Folded(n) == 65535 - ((OnesSum(n) % 65536) + (OnesSum(n) \div 65536))
Checksum(n) ==
    [Program(At(33024, MainChecksum) @@ At(33600, ChecksumAsm) @@ At(34064, Bytes), 0)
     EXCEPT !.input = n,
            !.cells = 34048 :> Folded(n) % 256 @@ 34049 :> Folded(n) \div 256]

\* 7FFFFFFFh by ABCDh: the quotient at 8500h, the remainder at 8508h.
Dividend == 2147483647
Divisor == 43981
Quotient == Dividend \div Divisor
Remainder == Dividend % Divisor
Divide ==
    [Program(At(33024, MainDiv) @@ At(33664, DivAsm) @@ At(34048, <<255, 255, 255, 127>>), 0)
     EXCEPT !.cells =
        34048 :> Quotient % 256 @@ 34049 :> (Quotient \div 256) % 256
        @@ 34050 :> 0 @@ 34051 :> 0
        @@ 34056 :> Remainder % 256 @@ 34057 :> Remainder \div 256]
Dots == [Program(At(33024, MainPrint), 0) EXCEPT !.output = <<46, 46, 46>>]

OwnPage(main) ==
    [Program(At(33024, main) @@ At(33280, IsaAsm) @@ At(33920, ColdBlob)
             @@ At(33984, Trampoline), 0)
     EXCEPT !.win = [Identity EXCEPT ![3] = 16]]

MCPrograms ==
    [bracket_on |-> Bracket(MainBracketOn, 1), bracket_off |-> Bracket(MainBracketOff, 0),
     cold |-> Cold, delay |-> Delay,
     hex_00 |-> Hex(0), hex_3f |-> Hex(63), hex_a9 |-> Hex(169),
     sum_0 |-> Checksum(0), sum_3 |-> Checksum(3), sum_4 |-> Checksum(4),
     sum_5 |-> Checksum(5), divide |-> Divide, dots |-> Dots,
     own_page |-> [OwnPage(MainOwnPage) EXCEPT !.cells = At(34048, SubSeq(ColdBlob, 1, 6))],
     own_bracket |-> OwnPage(MainOwnBracket),
     dss |-> Refused(OpenSequence \o ThenDss, {"dss while open"}),
     \* with interrupts on, a frame may come before the access
     chip |-> Refused(OpenSequence \o ThenChip, {"irq at chip", "frame while open"}),
     idle |-> Refused(OpenSequence \o ThenDelay, {"delay while open"}),
     raw_block |-> [Refused(MainRawBlock, {"page past memory"}) EXCEPT !.distinctBlocks = TRUE],
     no_system |-> Refused(MainNoSystem, {"isa mapping"})]
=============================================================================
