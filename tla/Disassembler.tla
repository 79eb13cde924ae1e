----------------------------- MODULE Disassembler -----------------------------
(***************************************************************************)
(* The disassembler (src/debug/disassembler.cpp): how many bytes an        *)
(* instruction has and what is printed for it. A second decoder, written   *)
(* beside the one of the processor. The text is a tuple of its words; how  *)
(* numbers are written is left out.                                        *)
(***************************************************************************)
EXTENDS Integers, Sequences

R8Name  == <<"B", "C", "D", "E", "H", "L", "(HL)", "A">>
RpName  == <<"BC", "DE", "HL", "SP">>
Rp2Name == <<"BC", "DE", "HL", "AF">>
CcName  == <<"NZ", "Z", "NC", "C">>
AluName == <<"ADD A", "ADC A", "SUB", "SBC A", "AND", "XOR", "OR", "CP">>
RotName == <<"RLC", "RRC", "RL", "RR", "SLA", "SRA", "SWAP", "SRL">>
IndirectName == <<"(BC)", "(DE)", "(HL+)", "(HL-)">>
AccumulatorName == <<"RLCA", "RRCA", "RLA", "RRA", "DAA", "CPL", "SCF", "CCF">>
ReturnName == <<"RET", "RETI", "JP HL", "LD SP, HL">>

Ins(length, text) == [length |-> length, text |-> text]

\* Mutant: the byte behind the prefix is not counted.
DisassembledCbAsOneByte(cb) == Ins(1, <<"BIT", (cb \div 8) % 8, R8Name[(cb % 8) + 1]>>)

\* The page behind 0xCB.
DisassembledCb(cb) ==
  LET x == cb \div 64
      y == (cb \div 8) % 8
      r == R8Name[(cb % 8) + 1] IN
  Ins(2, CASE x = 0 -> <<RotName[y + 1], r>>
           [] x = 1 -> <<"BIT", y, r>>
           [] x = 2 -> <<"RES", y, r>>
           [] x = 3 -> <<"SET", y, r>>)

\* 0x00-0x3F, with an immediate byte, an immediate word and a jump's target.
DisassembledLow(y, z, imm8, imm16, target) ==
  LET p == y \div 2
      direct == (y % 2) = 0
  IN
  CASE z = 0 /\ y = 0 -> Ins(1, <<"NOP">>)
    [] z = 0 /\ y = 1 -> Ins(3, <<"LD (nn)", imm16, "SP">>)
    [] z = 0 /\ y = 2 -> Ins(2, <<"STOP">>)
    [] z = 0 /\ y = 3 -> Ins(2, <<"JR", target>>)
    [] z = 0 /\ y > 3 -> Ins(2, <<"JR", CcName[y - 3], target>>)
    [] z = 1 /\ direct  -> Ins(3, <<"LD", RpName[p + 1], imm16>>)
    [] z = 1 /\ ~direct -> Ins(1, <<"ADD HL", RpName[p + 1]>>)
    [] z = 2 /\ direct  -> Ins(1, <<"LD", IndirectName[p + 1], "A">>)
    [] z = 2 /\ ~direct -> Ins(1, <<"LD", "A", IndirectName[p + 1]>>)
    [] z = 3 -> Ins(1, <<IF direct THEN "INC" ELSE "DEC", RpName[p + 1]>>)
    [] z = 4 -> Ins(1, <<"INC", R8Name[y + 1]>>)
    [] z = 5 -> Ins(1, <<"DEC", R8Name[y + 1]>>)
    [] z = 6 -> Ins(2, <<"LD", R8Name[y + 1], imm8>>)
    [] z = 7 -> Ins(1, <<AccumulatorName[y + 1]>>)

\* 0xC0-0xFF.
DisassembledHigh(y, z, imm8, imm16) ==
  LET p == y \div 2
      even == (y % 2) = 0
      disp == IF imm8 < 128 THEN imm8 ELSE imm8 - 256
      illegal == Ins(1, <<"illegal", 192 + 8 * y + z>>)
  IN
  CASE z = 0 /\ y < 4 -> Ins(1, <<"RET", CcName[y + 1]>>)
    [] z = 0 /\ y = 4 -> Ins(2, <<"LDH (n)", imm8, "A">>)
    [] z = 0 /\ y = 5 -> Ins(2, <<"ADD SP", disp>>)
    [] z = 0 /\ y = 6 -> Ins(2, <<"LDH A", imm8>>)
    [] z = 0 /\ y = 7 -> Ins(2, <<"LD HL, SP", disp>>)
    [] z = 1 /\ even  -> Ins(1, <<"POP", Rp2Name[p + 1]>>)
    [] z = 1 /\ ~even -> Ins(1, <<ReturnName[p + 1]>>)
    [] z = 2 /\ y < 4 -> Ins(3, <<"JP", CcName[y + 1], imm16>>)
    [] z = 2 /\ y = 4 -> Ins(1, <<"LDH ($FF00+C), A">>)
    [] z = 2 /\ y = 5 -> Ins(3, <<"LD (nn)", imm16, "A">>)
    [] z = 2 /\ y = 6 -> Ins(1, <<"LDH A, ($FF00+C)">>)
    [] z = 2 /\ y = 7 -> Ins(3, <<"LD A", imm16>>)
    [] z = 3 /\ y = 0 -> Ins(3, <<"JP", imm16>>)
    [] z = 3 /\ y = 1 -> DisassembledCb(imm8)
    [] z = 3 /\ y = 6 -> Ins(1, <<"DI">>)
    [] z = 3 /\ y = 7 -> Ins(1, <<"EI">>)
    [] z = 3 /\ y \in 2 .. 5 -> illegal
    [] z = 4 /\ y < 4 -> Ins(3, <<"CALL", CcName[y + 1], imm16>>)
    [] z = 4 /\ y > 3 -> illegal
    [] z = 5 /\ even  -> Ins(1, <<"PUSH", Rp2Name[p + 1]>>)
    [] z = 5 /\ y = 1 -> Ins(3, <<"CALL", imm16>>)
    [] z = 5 /\ y \in {3, 5, 7} -> illegal
    [] z = 6 -> Ins(2, <<AluName[y + 1], imm8>>)
    [] z = 7 -> Ins(1, <<"RST", 8 * y>>)

\* disassemble: the instruction whose first three bytes are given, at an address.
Disassembled(address, opcode, imm8, imm8h) ==
  LET x == opcode \div 64
      y == (opcode \div 8) % 8
      z == opcode % 8
      imm16 == 256 * imm8h + imm8
      disp == IF imm8 < 128 THEN imm8 ELSE imm8 - 256
      target == (address + 2 + disp) % 65536
  IN
  CASE x = 0 -> DisassembledLow(y, z, imm8, imm16, target)
    [] x = 1 -> IF opcode = 118 THEN Ins(1, <<"HALT">>)
                ELSE Ins(1, <<"LD", R8Name[y + 1], R8Name[z + 1]>>)
    [] x = 2 -> Ins(1, <<AluName[y + 1], R8Name[z + 1]>>)
    [] x = 3 -> DisassembledHigh(y, z, imm8, imm16)
=============================================================================
