------------------------------- MODULE SelfTest -------------------------------
(***************************************************************************)
(* The self-test of the repository (src/debug/cpu_selftest.cpp) run on     *)
(* this model: every bench about the processor, the bank controllers, the  *)
(* disassembler and the picture, with the outcome the repository expects   *)
(* of it. A behaviour takes one bench, steps the processor as often as the *)
(* bench does, or composes as many lines of its scene, and stops; or it    *)
(* sweeps the operands of one arithmetic operation.                        *)
(***************************************************************************)
EXTENDS Processor, Disassembler, Scenes

CONSTANTS RamBankSize, Mbc2Cells
M == INSTANCE Mbc

VARIABLES
  bench,   \* what is run: a bench of the self-test, a scene or a sweep,
  topic,   \* as this says: "bench", "picture", "sweep", or "tables" for none
  left,    \* Cpu::step calls, or lines, still to make
  video    \* what Picture keeps
vars == <<machine, bench, topic, left, video>>

-----------------------------------------------------------------------------
(* A bench: code at 0x0100, registers set and bytes poked before n steps,  *)
(* and what is looked at after them.                                       *)

Bench(cgb, code, set, poke, n, want) ==
  [cgb |-> cgb, code |-> code, set |-> set, poke |-> poke, steps |-> n, want |-> want]
Dmg(code, set, poke, n, want) == Bench(FALSE, code, set, poke, n, want)

None == <<>>
CarryOnly == [NoFlags EXCEPT !.C = TRUE]
ZeroOnly  == [NoFlags EXCEPT !.Z = TRUE]

\* <<opcode, A, B, carry in, A out, flags out>>.
AluCases == <<
  <<128, 15, 1, FALSE, 16, {"H"}>>, <<128, 255, 1, FALSE, 0, {"Z", "H", "C"}>>,
  <<128, 240, 16, FALSE, 0, {"Z", "C"}>>, <<128, 58, 5, FALSE, 63, {}>>,
  <<128, 0, 0, TRUE, 0, {"Z"}>>,
  <<136, 14, 1, TRUE, 16, {"H"}>>, <<136, 255, 0, TRUE, 0, {"Z", "H", "C"}>>,
  <<144, 0, 1, FALSE, 255, {"N", "H", "C"}>>, <<144, 16, 16, FALSE, 0, {"Z", "N"}>>,
  <<144, 16, 1, FALSE, 15, {"N", "H"}>>,
  <<152, 16, 0, TRUE, 15, {"N", "H"}>>, <<152, 0, 0, TRUE, 255, {"N", "H", "C"}>>,
  <<160, 240, 15, TRUE, 0, {"Z", "H"}>>, <<160, 60, 15, FALSE, 12, {"H"}>>,
  <<168, 255, 255, TRUE, 0, {"Z"}>>, <<176, 240, 15, TRUE, 255, {}>>,
  <<184, 16, 32, FALSE, 16, {"N", "C"}>>, <<184, 66, 66, FALSE, 66, {"Z", "N"}>> >>
AluBenches ==
  [i \in DOMAIN AluCases |->
     LET c == AluCases[i] IN
     Dmg(<<c[1]>>, [a |-> c[2], b |-> c[3], f |-> [NoFlags EXCEPT !.C = c[4]]], None, 1,
         [a |-> c[5], f |-> c[6]])]

\* INC and DEC keep the carry; the 16-bit additions; DAA after an addition and
\* after a subtraction.
ArithmeticBenches == <<
  Dmg(<<4>>, [b |-> 15, f |-> CarryOnly], None, 1, [b |-> 16, f |-> {"H", "C"}]),
  Dmg(<<5>>, [b |-> 0, f |-> NoFlags], None, 1, [b |-> 255, f |-> {"N", "H"}]),
  Dmg(<<9>>, [h |-> 15, l |-> 255, b |-> 0, c |-> 1, f |-> ZeroOnly], None, 1,
      [hl |-> 4096, f |-> {"Z", "H"}]),
  Dmg(<<232, 1>>, [sp |-> 15], None, 1, [sp |-> 16, f |-> {"H"}]),
  Dmg(<<248, 255>>, [sp |-> 0], None, 1, [hl |-> 65535]),
  Dmg(<<128, 39>>, [a |-> 9, b |-> 8], None, 2, [a |-> 23]),
  Dmg(<<144, 39>>, [a |-> 16, b |-> 1], None, 2, [a |-> 9]) >>

\* Rotates, shifts and single bits; F has no low nibble.
RotateBenches == <<
  Dmg(<<7>>, [a |-> 0], None, 1, [f |-> {}]),
  Dmg(<<203, 7>>, [a |-> 0], None, 1, [f |-> {"Z"}]),
  Dmg(<<203, 32>>, [b |-> 128], None, 1, [b |-> 0, f |-> {"Z", "C"}]),
  Dmg(<<203, 40>>, [b |-> 129], None, 1, [b |-> 192]),
  Dmg(<<203, 56>>, [b |-> 129], None, 1, [b |-> 64]),
  Dmg(<<203, 48>>, [b |-> 171], None, 1, [b |-> 186]),
  Dmg(<<203, 64>>, [b |-> 1, f |-> CarryOnly], None, 1, [f |-> {"H", "C"}]),
  Dmg(<<241>>, [sp |-> 49152], << <<49152, 255>>, <<49153, 18>> >>, 1,
      [f |-> {"Z", "N", "H", "C"}, a |-> 18]) >>

JumpBenches == <<
  Dmg(<<24, 254>>, None, None, 1, [pc |-> 256]),
  Dmg(<<199>>, [sp |-> 49154], None, 1, [pc |-> 0, top |-> 257]),
  Dmg(<<205, 52, 18>>, [sp |-> 49154], None, 1, [pc |-> 4660, top |-> 259]),
  Dmg(<<24, 5>>, None, None, 1, [pc |-> 263]),
  Dmg(<<195, 52, 18>>, None, None, 1, [pc |-> 4660]) >>

AtC000 == [h |-> 192, l |-> 0]
TimingBenches == <<
  Dmg(<<0>>, None, None, 1, [cycles |-> 4]),
  Dmg(<<6, 66>>, None, None, 1, [cycles |-> 8]),
  Dmg(<<1, 52, 18>>, None, None, 1, [cycles |-> 12]),
  Dmg(<<3>>, None, None, 1, [cycles |-> 8]),
  Dmg(<<52>>, AtC000, None, 1, [cycles |-> 12]),
  Dmg(<<24, 0>>, None, None, 1, [cycles |-> 12]),
  Dmg(<<32, 0>>, [f |-> ZeroOnly], None, 1, [cycles |-> 8]),
  Dmg(<<195, 0, 1>>, None, None, 1, [cycles |-> 16]),
  Dmg(<<205, 0, 1>>, [sp |-> 49154], None, 1, [cycles |-> 24]),
  Dmg(<<201>>, [sp |-> 49152], None, 1, [cycles |-> 16]),
  Dmg(<<192>>, [sp |-> 49152, f |-> ZeroOnly], None, 1, [cycles |-> 8]),
  Dmg(<<197>>, [sp |-> 49154], None, 1, [cycles |-> 16]),
  Dmg(<<193>>, [sp |-> 49152], None, 1, [cycles |-> 12]),
  Dmg(<<232, 1>>, None, None, 1, [cycles |-> 16]),
  Dmg(<<248, 1>>, None, None, 1, [cycles |-> 12]),
  Dmg(<<203, 64>>, None, None, 1, [cycles |-> 8]),
  Dmg(<<203, 70>>, AtC000, None, 1, [cycles |-> 12]),
  Dmg(<<203, 134>>, AtC000, None, 1, [cycles |-> 16]) >>

\* EI one instruction late, the dispatch, HALT and its bug. IF reads 0xE1 after boot.
InterruptBenches == <<
  Dmg(<<251, 0, 0>>, None, None, 1, [ime |-> FALSE]),
  Dmg(<<251, 0, 0>>, None, None, 2, [ime |-> TRUE]),
  Dmg(<<251, 0, 0>>, None, << <<65535, 1>> >>, 3, [pc |-> 64, cycles |-> 20, ime |-> FALSE]),
  Dmg(<<118, 0>>, None, << <<65535, 1>>, <<65295, 0>> >>, 1, [halted |-> TRUE]),
  Dmg(<<118, 60>>, None, << <<65535, 1>> >>, 1, [halted |-> FALSE]) >>

\* The speed switch: KEY1 read back, STOP with it armed and not, and on a DMG.
SpeedBenches == <<
  Bench(TRUE, <<16, 0>>, None, None, 0, [key1 |-> 126]),
  Bench(TRUE, <<16, 0>>, None, << <<65357, 1>> >>, 1,
        [double |-> TRUE, stopped |-> FALSE, key1 |-> 254]),
  Bench(TRUE, <<16, 0>>, None, None, 1, [double |-> FALSE, stopped |-> TRUE]),
  Dmg(<<16, 0>>, None, << <<65357, 1>> >>, 1, [double |-> FALSE, stopped |-> TRUE]) >>

-----------------------------------------------------------------------------
(* Every opcode against the disassembler.                                  *)

UnconditionalJumps == {24, 195, 201, 205, 217, 233, 199, 207, 215, 223, 231, 239, 247, 255}

\* JR cc, RET cc, JP cc and CALL cc, which the flags must keep from being taken.
IsConditional(op) ==
  LET low == op % 8 IN \/ op \in {32, 40, 48, 56}
                       \/ op \in 192 .. 223 /\ low \in {0, 2, 4}
FlagsThatAvoidTheBranch(op) ==
  IF IsConditional(op) /\ ((op \div 8) % 4) \in {0, 2} THEN [NoFlags EXCEPT !.Z = TRUE, !.C = TRUE]
  ELSE NoFlags

Sequential(op, code) ==
  Dmg(code, [h |-> 192, l |-> 0, sp |-> 49408, f |-> FlagsThatAvoidTheBranch(op)], None, 1,
      [pc |-> 256 + Disassembled(256, code[1], code[2], code[3]).length])
OpcodeBenches ==
  {Sequential(op, <<op, 16, 32, 0>>) : op \in 0 .. 255 \ (UnconditionalJumps \cup {203})}
  \cup {Sequential(op, <<203, op, 16, 32>>) : op \in 0 .. 255}

\* Three bytes and the words they are printed as.
TextCases == <<
  <<0, 0, 0, <<"NOP">>>>, <<66, 0, 0, <<"LD", "B", "D">>>>, <<118, 0, 0, <<"HALT">>>>,
  <<201, 0, 0, <<"RET">>>>, <<62, 66, 0, <<"LD", "A", 66>>>>, <<1, 52, 18, <<"LD", "BC", 4660>>>>,
  <<195, 80, 1, <<"JP", 336>>>>, <<24, 254, 0, <<"JR", 256>>>>, <<32, 5, 0, <<"JR", "NZ", 263>>>>,
  <<205, 0, 192, <<"CALL", 49152>>>>, <<8, 0, 192, <<"LD (nn)", 49152, "SP">>>>,
  <<224, 68, 0, <<"LDH (n)", 68, "A">>>>, <<240, 68, 0, <<"LDH A", 68>>>>,
  <<226, 0, 0, <<"LDH ($FF00+C), A">>>>, <<34, 0, 0, <<"LD", "(HL+)", "A">>>>,
  <<58, 0, 0, <<"LD", "A", "(HL-)">>>>, <<134, 0, 0, <<"ADD A", "(HL)">>>>,
  <<254, 144, 0, <<"CP", 144>>>>, <<232, 251, 0, <<"ADD SP", -5>>>>,
  <<248, 5, 0, <<"LD HL, SP", 5>>>>, <<223, 0, 0, <<"RST", 24>>>>,
  <<203, 64, 0, <<"BIT", 0, "B">>>>, <<203, 126, 0, <<"BIT", 7, "(HL)">>>>,
  <<203, 134, 0, <<"RES", 0, "(HL)">>>>, <<203, 48, 0, <<"SWAP", "B">>>>,
  <<211, 0, 0, <<"illegal", 211>>>> >>
OneByteJumps == {201, 217, 233, 199, 207, 215, 223, 231, 239, 247, 255}
TextsAsExpected ==
  /\ \A i \in DOMAIN TextCases :
       LET c == TextCases[i] IN Disassembled(256, c[1], c[2], c[3]).text = c[4]
  /\ \A op \in OneByteJumps : Disassembled(256, op, 0, 0).length = 1

-----------------------------------------------------------------------------
(* The bank controllers: a cartridge of n banks given stores to its ROM    *)
(* area, and the banks its windows then show; then its RAM.                *)

Commanded(kind, stores) ==
  FoldLeft(LAMBDA c, s : M!Command(kind, c, s[1], s[2], s[3]), M!PowerOn, stores)
ShowsHigh(kind, n, stores, bank) == M!HighBank(kind, Commanded(kind, stores), n) = bank
Plain(region, v) == <<region, FALSE, v>>

BanksAsExpected ==
  /\ M!LowBank("Mbc1", M!PowerOn, 4) = 0
  /\ ShowsHigh("Mbc1", 4, <<>>, 1)
  /\ ShowsHigh("Mbc1", 4, <<Plain("2000", 2)>>, 2)
  /\ M!LowBank("Mbc1", Commanded("Mbc1", <<Plain("2000", 2)>>), 4) = 0
  /\ ShowsHigh("Mbc1", 4, <<Plain("2000", 3)>>, 3)
  /\ ShowsHigh("Mbc1", 4, <<Plain("2000", 3), Plain("2000", 0)>>, 1)
  /\ ShowsHigh("Mbc1", 4, <<Plain("2000", 6)>>, 2)
  /\ ShowsHigh("Mbc2", 4, << <<"2000", TRUE, 2>> >>, 2)
  /\ ShowsHigh("Mbc5", 16, <<Plain("2000", 5)>>, 5)
  /\ ShowsHigh("Mbc5", 16, <<Plain("2000", 5), Plain("2000", 0)>>, 0)
  /\ ShowsHigh("Mbc5", 16, <<Plain("3000", 1), Plain("2000", 0)>>, 0)
  /\ ShowsHigh("None", 2, <<Plain("2000", 3)>>, 1)

BlankRam(n) == [i \in 1 .. n |-> 0]
Opened(kind) == Commanded(kind, <<Plain("0000", 10)>>)
Closed(kind) == Commanded(kind, <<Plain("0000", 10), Plain("0000", 0)>>)
RamAsExpected ==
  LET one  == BlankRam(RamBankSize)
      kept == M!WriteRam("Mbc1", Opened("Mbc1"), one, 0, 66)
      half == M!WriteRam("Mbc2", Opened("Mbc2"), BlankRam(Mbc2Cells), 0, 171)
      advanced == Commanded("Mbc1", <<Plain("0000", 10), Plain("6000", 1), Plain("4000", 1)>>)
  IN /\ M!ReadRam("Mbc1", M!PowerOn, one, 0) = 255
     /\ M!WriteRam("Mbc1", M!PowerOn, one, 0, 66) = one
     /\ M!ReadRam("Mbc1", Opened("Mbc1"), kept, 0) = 66
     /\ M!ReadRam("Mbc1", Closed("Mbc1"), kept, 0) = 255
     /\ M!ReadRam("Mbc1", advanced, kept, 0) = 66
     /\ M!ReadRam("Mbc2", Opened("Mbc2"), half, 0) = 251
     /\ M!ReadRam("Mbc2", Opened("Mbc2"), half, Mbc2Cells) = 251

-----------------------------------------------------------------------------
(* Running a bench. *)

\* The programs run_discheck is given are ROMs; these are short ones that branch,
\* call, halt with the bug, stop and take interrupts.
Program(cgb, code, poke, n) == Bench(cgb, code, [sp |-> 49408], poke, n, None)
Programs == {
  Program(FALSE, <<62, 1, 224, 15, 62, 1, 224, 255, 251, 0, 60, 60, 24, 252>>, None, 16),
  Program(FALSE, <<62, 3, 61, 32, 253, 205, 8, 1, 201, 195, 0, 1>>, None, 16),
  Program(FALSE, <<118, 60, 62, 20, 118, 62, 20>>, << <<65535, 1>> >>, 6),
  Program(TRUE, <<62, 1, 224, 77, 16, 0, 60, 16, 0, 62, 1, 60>>, None, 8),
  Program(FALSE, <<175, 40, 2, 60, 60, 202, 0, 1, 32, 0, 200>>, None, 8),
  Program(FALSE, <<55, 48, 2, 220, 8, 1, 0, 0, 63, 216, 195, 2, 1>>, None, 12),
  Program(FALSE, <<243, 118, 0>>, << <<65535, 1>>, <<65295, 0>> >>, 4),
  Program(FALSE, <<33, 12, 1, 233, 0, 0, 0, 0, 0, 0, 0, 0, 217>>,
                 << <<65535, 1>>, <<49408, 0>>, <<49409, 1>> >>, 6),
  Program(FALSE, <<195, 254, 255>>, << <<65534, 0>> >>, 4),
  Program(FALSE, <<62, 240, 34, 42, 50, 58, 2, 10, 234, 0, 192, 250, 0, 192, 249, 229, 241>>, None, 13) }

\* One operation on the accumulator, with every second operand.
Sweeps == [a : Byte, f : {NoFlags, CarryOnly}]

InitBench(b) ==
  LET rom == [c \in {<<"rom", 255 + i>> : i \in DOMAIN b.code} |-> b.code[c[2] - 255]] IN
  /\ regs = b.set @@ PowerOnRegs(b.cgb)
  /\ bus = FoldLeft(LAMBDA m, p : Store(m, p[1], p[2]), PowerOnBus(b.cgb, rom), b.poke)
  /\ left = b.steps

\* What a bench may look at.
Observed == [
  a |-> regs.a, b |-> regs.b, f |-> {k \in DOMAIN regs.f : regs.f[k]}, hl |-> HL(regs),
  sp |-> regs.sp, pc |-> regs.pc, top |-> Top, cycles |-> cycles, ime |-> ctl.ime,
  halted |-> ctl.halted, stopped |-> ctl.stopped, double |-> bus.double, key1 |-> Load(bus, 65357)]

InitMachine(cgb) == regs = PowerOnRegs(cgb) /\ bus = PowerOnBus(cgb, <<>>)

Init ==
  /\ ctl = PowerOnCtl /\ cycles = 0
  /\ \/ /\ topic = "bench"
        /\ bench \in ToSet(AluBenches \o ArithmeticBenches \o RotateBenches \o JumpBenches
                           \o TimingBenches \o InterruptBenches \o SpeedBenches)
                     \cup OpcodeBenches \cup Programs
        /\ InitBench(bench) /\ video = PowerOnVideo(bench.cgb)
     \/ /\ topic = "sweep" /\ bench \in Sweeps
        /\ InitMachine(FALSE) /\ video = PowerOnVideo(FALSE) /\ left = 0
     \/ /\ topic = "tables" /\ bench = None
        /\ InitMachine(FALSE) /\ video = PowerOnVideo(FALSE) /\ left = 0
     \/ /\ topic = "picture" /\ bench \in Scenes
        /\ InitMachine(bench.colourModel) /\ video = Prepared(bench) /\ left = bench.lines

StepBench == topic = "bench" /\ Step /\ UNCHANGED video

\* A program is interrupted at any of its steps.
RequestInProgram == topic = "bench" /\ bench \in Programs /\ Request /\ UNCHANGED video

\* A line is composed, after a store in the blank before it or none; with the
\* screen off there is no line.
ComposeLine ==
  /\ topic = "picture"
  /\ \/ video' = RenderScanline(video)
     \/ \E s \in bench.writes :
          video' = RenderScanline(VideoStore(bench.colourModel, video, s))
  /\ UNCHANGED machine

Next ==
  /\ left > 0 /\ left' = left - 1
  /\ StepBench \/ RequestInProgram \/ ComposeLine
  /\ UNCHANGED <<bench, topic>>

Spec == Init /\ [][Next]_vars

-----------------------------------------------------------------------------
(* What a bench must find. *)

\* The line just composed shows in each column the foremost of its ten sprites that
\* is not transparent there, or the background if that sprite must stay behind it:
\* painting sprite after sprite over the row, with columns claimed on the way, comes
\* to choosing for each column on its own (Ppu::render_sprites).
PictureExact == [][
  Len(video'.screen) > Len(video.screen) =>
    LET v == [video' EXCEPT !.line = @ - 1, !.windowLine = video.windowLine]
        selected == SelectedSprites(v)
    IN Last(video'.screen) = [x \in Columns |-> ColumnShows(v, selected, x)] ]_vars

\* When its steps are made, a bench finds in the registers, the flags, the cycles
\* and the picture what the repository's self-test asks for; and its tables of
\* texts, banks and palettes are what the disassembler, the controllers and the PPU
\* give.
ChecksPass ==
  /\ topic = "bench" /\ left = 0
       => \A k \in DOMAIN bench.want : Observed[k] = bench.want[k]
  /\ topic = "picture" /\ left = 0
       => /\ \A dot \in bench.is   : video.screen[dot[2] + 1][dot[1]] = dot[3]
          /\ \A dot \in bench.isnt : video.screen[dot[2] + 1][dot[1]] # dot[3]
  /\ topic = "tables"
       => TextsAsExpected /\ BanksAsExpected /\ RamAsExpected /\ PalettesAsExpected

ControlFlow == {16, 24, 32, 40, 48, 56, 118} \cup {c \in 192 .. 255 : c % 8 = 7}
  \cup {192, 194, 195, 196, 200, 201, 202, 204, 205, 208, 210, 212, 216, 217, 218, 220, 233}
AtPc == Disassembled(regs.pc, Load(bus, regs.pc), Load(bus, U16(regs.pc + 1)),
                     Load(bus, U16(regs.pc + 2)))
NextPc == U16(regs.pc + AtPc.length)

StepAgrees ==
  IF Load(bus, regs.pc) \in ControlFlow
    THEN LET words == AtPc.text  target == words[Len(words)] IN
         words[1] \in {"JR", "JP", "CALL", "RST"} => regs'.pc \in {NextPc, target}
    ELSE regs'.pc = NextPc

\* The two decoders agree (run_discheck): an instruction that does not jump moves
\* PC by the length the disassembler prints, and one that does lands behind
\* itself or at the target printed for it. Not said of the step after the halt
\* bug, which reads a byte twice.
LengthsAgree == [][
  ~Interrupted /\ ~Asleep /\ ~ctl.bug /\ Execute => StepAgrees ]_machine

BytesExact(a, f) ==
  \A v \in Byte :
    /\ Sums(a, v, 0, Add(a, v, f)) /\ Sums(a, v, Carry(f), Adc(a, v, f))
    /\ Differs(a, v, 0, Sub(a, v, f)) /\ Differs(a, v, Carry(f), Sbc(a, v, f))
    /\ Compare(a, v, f) = [Sub(a, v, f) EXCEPT !.v = a]

ShiftsExact(a, f) ==
  /\ Undone(0, 1, a, f) /\ Undone(1, 0, a, f) /\ Undone(2, 3, a, f) /\ Undone(3, 2, a, f)
  /\ Undone(6, 6, a, f)
  /\ Rotate(4, a, f, TRUE) = [Add(a, a, f) EXCEPT !.f.H = FALSE]
  /\ 2 * Signed(Rotate(5, a, f, TRUE).v) + Bit0(a) = Signed(a)
  /\ 2 * Rotate(7, a, f, TRUE).v + Bit0(a) = a

SpelledOut(a, f) ==
  /\ Inc8(a, f) = [Add(a, 1, f) EXCEPT !.f.C = f.C]
  /\ Dec8(a, f) = [Sub(a, 1, f) EXCEPT !.f.C = f.C]
  /\ \A v \in Byte :
       LET hl == 256 * v + a  n == 256 * a + v
           s == AddSpSigned(n, a)  low == Add(v, a, f)
       IN /\ AddHl(hl, n, f) = AddedByBytes(hl, n, f)
          /\ AddHl(n, n, f) = AddedByBytes(n, n, f)
          /\ s.v % 256 = low.v /\ s.f.H = low.f.H /\ s.f.C = low.f.C
          /\ (s.v - n) % 65536 = Signed(a) % 65536

\* Every addition, subtraction and comparison of two bytes, with and without a
\* carry, gives the sum or the difference and its carry, and the half-carry that
\* the bits of the operands and of the result call for (Cpu::alu). A rotation is
\* undone by the opposite one, and the shifts are arithmetic (Cpu::rotate). The
\* instructions that say the same thing twice agree: INC and DEC with an addition
\* of 1, ADD HL with two additions of bytes, ADD SP with one (Cpu::add_hl,
\* Cpu::add_sp_signed).
ArithmeticExact ==
  topic = "sweep" => /\ BytesExact(bench.a, bench.f)
                     /\ ShiftsExact(bench.a, bench.f)
                     /\ SpelledOut(bench.a, bench.f)

\* DAA after ADD, ADC, SUB and SBC computes in base ten (Cpu::execute, 0x27).
DecimalExact ==
  topic = "sweep" /\ bench.a < 100 =>
    \A n \in 0 .. 99 : /\ AddsInDecimal(bench.a, n, bench.f)
                       /\ SubtractsInDecimal(bench.a, n, bench.f)

\* Addresses on both sides of every boundary, and the page of registers.
Edges == {0, 16383, 16384, 32767, 32768, 40959, 40960, 49151, 49152, 49153, 53247, 53248,
          56831, 57343, 57344, 57345, 61439, 61440, 65023, 65024, 65183, 65184, 65279,
          65408, 65534, 65535} \cup 65280 .. 65407

\* The two chains of tests of the bus, one for loads and one for stores, agree: what
\* a program stores in memory it finds again at that address and its echo, under the
\* same bank of work RAM, and nowhere else has anything changed; and each register is
\* stored to where it is loaded from.
MemoryHolds ==
  topic = "tables" =>
    \A cgb \in BOOLEAN, x, y \in {0, 1, 2, 7}, a1, a2 \in Edges :
      /\ Apart(cgb, x, a1, y, a2) /\ Together(cgb, x, a1, y, a2)
      /\ InsideWorkRam(cgb, x, a1)
      /\ StoredIsLoaded([PowerOnBus(cgb, <<>>) EXCEPT !.svbk = x], a1, 90, y, a2)
=============================================================================
