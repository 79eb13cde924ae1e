------------------------------- MODULE Processor -------------------------------
(***************************************************************************)
(* The instructions of the processor (Cpu::step, Cpu::execute and          *)
(* Cpu::execute_cb of src/core/cpu.cpp), one action per family of the      *)
(* decoder, over the address map of Memory. Cpu models the same steps cut  *)
(* where the bus ticks; here a step is whole, its registers and memory are *)
(* exact, and the time it takes is the number of its bus accesses and      *)
(* internal cycles. A state of the machine under an instruction is a       *)
(* record s with the registers s.r and the bus s.b.                        *)
(***************************************************************************)
EXTENDS Alu, Memory

VARIABLES
  regs,    \* regs_
  bus,     \* what Memory keeps
  ctl,     \* ime_, ime_pending_, halted_, halt_bug_, stopped_, illegal_
  cycles   \* what the last Cpu::step returned
machine == <<regs, bus, ctl, cycles>>

R8 == <<"b", "c", "d", "e", "h", "l", "(hl)", "a">>

NoFlags == [Z |-> FALSE, N |-> FALSE, H |-> FALSE, C |-> FALSE]
FlagByte(f) == (IF f.Z THEN 128 ELSE 0) + (IF f.N THEN 64 ELSE 0)
             + (IF f.H THEN 32 ELSE 0) + (IF f.C THEN 16 ELSE 0)

FlagsOf(v) == [Z |-> (v \div 128) % 2 = 1, N |-> (v \div 64) % 2 = 1,
               H |-> (v \div 32) % 2 = 1, C |-> (v \div 16) % 2 = 1]

\* Cpu::reset.
PowerOnRegs(cgb) ==
  IF cgb THEN [a |-> 17, f |-> FlagsOf(128), b |-> 0, c |-> 0, d |-> 255, e |-> 86,
               h |-> 0, l |-> 13, sp |-> 65534, pc |-> 256]
         ELSE [a |-> 1, f |-> FlagsOf(176), b |-> 0, c |-> 19, d |-> 0, e |-> 216,
               h |-> 1, l |-> 77, sp |-> 65534, pc |-> 256]
PowerOnCtl == [ime |-> FALSE, ei |-> FALSE, halted |-> FALSE, bug |-> FALSE,
               stopped |-> FALSE, illegal |-> FALSE]

-----------------------------------------------------------------------------
(* Register pairs, operands by their number in the opcode, the stack. *)

HL(r) == 256 * r.h + r.l
Rp(r, i) == CASE i = 0 -> 256 * r.b + r.c
              [] i = 1 -> 256 * r.d + r.e
              [] i = 2 -> HL(r)
              [] i = 3 -> r.sp
WithRp(r, i, v) == CASE i = 0 -> [r EXCEPT !.b = v \div 256, !.c = v % 256]
                     [] i = 1 -> [r EXCEPT !.d = v \div 256, !.e = v % 256]
                     [] i = 2 -> [r EXCEPT !.h = v \div 256, !.l = v % 256]
                     [] i = 3 -> [r EXCEPT !.sp = v]
Rp2(r, i) == IF i = 3 THEN 256 * r.a + FlagByte(r.f) ELSE Rp(r, i)
WithRp2(r, i, v) == IF i = 3 THEN [r EXCEPT !.a = v \div 256, !.f = FlagsOf(v)] ELSE WithRp(r, i, v)

GetR8(i) == IF i = 6 THEN Load(bus, HL(regs)) ELSE regs[R8[i + 1]]
PutR8(s, i, v) == IF i = 6 THEN [s EXCEPT !.b = Store(@, HL(s.r), v)]
                           ELSE [s EXCEPT !.r[R8[i + 1]] = v]
PutA(s, out) == [s EXCEPT !.r.a = out.v, !.r.f = out.f]

\* The bus access an operand costs.
Touch(i) == IF i = 6 THEN 1 ELSE 0

Condition(i) == CASE i = 0 -> ~regs.f.Z [] i = 1 -> regs.f.Z
                  [] i = 2 -> ~regs.f.C [] i = 3 -> regs.f.C

\* Mutant: the low byte is pushed first.
PushLowFirst(s, v) ==
  [r |-> [s.r EXCEPT !.sp = U16(@ - 2)],
   b |-> Store(Store(s.b, U16(s.r.sp - 1), v % 256), U16(s.r.sp - 2), v \div 256)]

\* The high byte is pushed first, the stack grows downwards.
Push(s, v) ==
  [r |-> [s.r EXCEPT !.sp = U16(@ - 2)],
   b |-> Store(Store(s.b, U16(s.r.sp - 1), v \div 256), U16(s.r.sp - 2), v % 256)]
Top == Load(bus, regs.sp) + 256 * Load(bus, U16(regs.sp + 1))
Popped(s) == [s EXCEPT !.r.sp = U16(@ + 2)]
Jumped(s, target) == [s EXCEPT !.r.pc = target]

-----------------------------------------------------------------------------
(* Fetching: byte k of the instruction, and the state once n bytes are     *)
(* read. With the halt bug the first byte is read twice.                   *)

At(k) == Load(bus, U16(regs.pc + (IF ctl.bug /\ k > 0 THEN k - 1 ELSE k)))
After(n) == [r |-> [regs EXCEPT !.pc = U16(@ + n - (IF ctl.bug THEN 1 ELSE 0))], b |-> bus]
Imm8  == At(1)
Imm16 == At(1) + 256 * At(2)

Decoded(op) ==
  [op |-> op, x |-> op \div 64, y |-> (op \div 8) % 8, z |-> op % 8,
   p |-> (op \div 16) % 4, q |-> (op \div 8) % 2]
Field == Decoded(At(0))

\* The end of a step that took m machine cycles and left c in the control flags:
\* an EI of the instruction before takes effect.
Ends(s, m, c) ==
  /\ regs' = s.r /\ bus' = s.b /\ cycles' = 4 * m
  /\ ctl' = IF ctl.ei THEN [c EXCEPT !.ime = TRUE, !.ei = FALSE] ELSE c

Awake == [ctl EXCEPT !.halted = FALSE, !.bug = FALSE]
Finish(s, m) == Ends(s, m, Awake)

-----------------------------------------------------------------------------
(* 0x00-0x3F. *)

Nop == /\ Field.op = 0 /\ Finish(After(1), 1)

StoreSp ==
  /\ Field.op = 8
  /\ LET b == Store(Store(bus, Imm16, regs.sp % 256), U16(Imm16 + 1), regs.sp \div 256)
     IN Finish([After(3) EXCEPT !.b = b], 5)

\* STOP stops, or changes the speed when that was asked for (2050 cycles of pause).
Stop ==
  /\ Field.op = 16
  /\ IF SpeedSwitchArmed(bus)
       THEN Finish([After(2) EXCEPT !.b = SpeedSwitched(bus)], 2052)
       ELSE Ends(After(2), 2, [Awake EXCEPT !.stopped = TRUE])

Relative ==
  LET s == After(2) IN Jumped(s, U16(s.r.pc + Signed(Imm8)))
JumpRelative ==
  /\ Field.x = 0 /\ Field.z = 0 /\ Field.y >= 3
  /\ IF Field.y = 3 \/ Condition(Field.y - 4) THEN Finish(Relative, 3) ELSE Finish(After(2), 2)

LoadPair == /\ Field.x = 0 /\ Field.z = 1 /\ Field.q = 0
            /\ Finish([After(3) EXCEPT !.r = WithRp(@, Field.p, Imm16)], 3)

AddHlPair ==
  /\ Field.x = 0 /\ Field.z = 1 /\ Field.q = 1
  /\ LET out == AddHl(HL(regs), Rp(regs, Field.p), regs.f)
     IN Finish([After(1) EXCEPT !.r = [WithRp(@, 2, out.v) EXCEPT !.f = out.f]], 2)

\* Through BC, DE, HL+ and HL-.
LoadIndirect ==
  /\ Field.x = 0 /\ Field.z = 2
  /\ LET at == Rp(regs, IF Field.p = 3 THEN 2 ELSE Field.p)
         s1 == IF Field.q = 0 THEN [After(1) EXCEPT !.b = Store(@, at, regs.a)]
                              ELSE [After(1) EXCEPT !.r.a = Load(bus, at)]
         s2 == CASE Field.p < 2 -> s1
                 [] Field.p = 2 -> [s1 EXCEPT !.r = WithRp(@, 2, U16(at + 1))]
                 [] Field.p = 3 -> [s1 EXCEPT !.r = WithRp(@, 2, U16(at - 1))]
     IN Finish(s2, 2)

StepPair ==
  /\ Field.x = 0 /\ Field.z = 3
  /\ LET v == U16(Rp(regs, Field.p) + (IF Field.q = 0 THEN 1 ELSE -1))
     IN Finish([After(1) EXCEPT !.r = WithRp(@, Field.p, v)], 2)

StepByte ==
  /\ Field.x = 0 /\ Field.z \in {4, 5}
  /\ LET v == GetR8(Field.y)
         out == IF Field.z = 4 THEN Inc8(v, regs.f) ELSE Dec8(v, regs.f)
     IN Finish(PutR8([After(1) EXCEPT !.r.f = out.f], Field.y, out.v), 1 + 2 * Touch(Field.y))

LoadImmediate == /\ Field.x = 0 /\ Field.z = 6
                 /\ Finish(PutR8(After(2), Field.y, Imm8), 2 + Touch(Field.y))

\* RLCA, RRCA, RLA, RRA, DAA, CPL, SCF, CCF.
Accumulator ==
  /\ Field.x = 0 /\ Field.z = 7
  /\ LET f == regs.f
         out == CASE Field.y < 4 -> Rotate(Field.y, regs.a, f, FALSE)
                  [] Field.y = 4 -> Daa(regs.a, f)
                  [] Field.y = 5 -> Out(255 - regs.a, f.Z, TRUE, TRUE, f.C)
                  [] Field.y = 6 -> Out(regs.a, f.Z, FALSE, FALSE, TRUE)
                  [] Field.y = 7 -> Out(regs.a, f.Z, FALSE, FALSE, ~f.C)
     IN Finish(PutA(After(1), out), 1)

-----------------------------------------------------------------------------
(* 0x40-0xBF. *)

Pending == And(bus.ie, bus.iflag)

Halt ==
  /\ Field.op = 118
  /\ Ends(After(1), 1, IF ~ctl.ime /\ Pending # 0 THEN [Awake EXCEPT !.bug = TRUE]
                                                 ELSE [Awake EXCEPT !.halted = TRUE])

Move == /\ Field.x = 1 /\ Field.op # 118
        /\ Finish(PutR8(After(1), Field.y, GetR8(Field.z)), 1 + Touch(Field.y) + Touch(Field.z))

AluResult(op, a, v, f) ==
  CASE op = 0 -> Add(a, v, f)
    [] op = 1 -> Adc(a, v, f)
    [] op = 2 -> Sub(a, v, f)
    [] op = 3 -> Sbc(a, v, f)
    [] op = 4 -> Out(And(a, v), And(a, v) = 0, FALSE, TRUE, FALSE)
    [] op = 5 -> Out(Xor(a, v), Xor(a, v) = 0, FALSE, FALSE, FALSE)
    [] op = 6 -> Out(Or(a, v), Or(a, v) = 0, FALSE, FALSE, FALSE)
    [] op = 7 -> Compare(a, v, f)

AluRegister ==
  /\ Field.x = 2
  /\ Finish(PutA(After(1), AluResult(Field.y, regs.a, GetR8(Field.z), regs.f)), 1 + Touch(Field.z))

-----------------------------------------------------------------------------
(* 0xC0-0xFF. *)

High(y, z) == Field.x = 3 /\ Field.z = z /\ Field.y = y
ReturnIf == /\ Field.x = 3 /\ Field.z = 0 /\ Field.y < 4
            /\ IF Condition(Field.y) THEN Finish(Jumped(Popped(After(1)), Top), 5)
                                     ELSE Finish(After(1), 2)

StoreHigh == High(4, 0) /\ Finish([After(2) EXCEPT !.b = Store(@, 65280 + Imm8, regs.a)], 3)
LoadHigh  == High(6, 0) /\ Finish([After(2) EXCEPT !.r.a = Load(bus, 65280 + Imm8)], 3)

AddSp ==
  /\ High(5, 0)
  /\ LET out == AddSpSigned(regs.sp, Imm8)
     IN Finish([After(2) EXCEPT !.r.sp = out.v, !.r.f = out.f], 4)
LoadHlSp ==
  /\ High(7, 0)
  /\ LET out == AddSpSigned(regs.sp, Imm8)
     IN Finish([After(2) EXCEPT !.r = [WithRp(@, 2, out.v) EXCEPT !.f = out.f]], 3)

Pop == /\ Field.x = 3 /\ Field.z = 1 /\ Field.q = 0
       /\ Finish([Popped(After(1)) EXCEPT !.r = WithRp2(@, Field.p, Top)], 3)

Return == High(1, 1) /\ Finish(Jumped(Popped(After(1)), Top), 4)
ReturnFromInterrupt ==
  High(3, 1) /\ Ends(Jumped(Popped(After(1)), Top), 4, [Awake EXCEPT !.ime = TRUE])
JumpHl == High(5, 1) /\ Finish(Jumped(After(1), HL(regs)), 1)
LoadSpHl == High(7, 1) /\ Finish([After(1) EXCEPT !.r.sp = HL(regs)], 2)

JumpIf == /\ Field.x = 3 /\ Field.z = 2 /\ Field.y < 4
          /\ IF Condition(Field.y) THEN Finish(Jumped(After(3), Imm16), 4) ELSE Finish(After(3), 3)
StoreC    == High(4, 2) /\ Finish([After(1) EXCEPT !.b = Store(@, 65280 + regs.c, regs.a)], 2)
StoreWord == High(5, 2) /\ Finish([After(3) EXCEPT !.b = Store(@, Imm16, regs.a)], 4)
LoadC     == High(6, 2) /\ Finish([After(1) EXCEPT !.r.a = Load(bus, 65280 + regs.c)], 2)
LoadWord  == High(7, 2) /\ Finish([After(3) EXCEPT !.r.a = Load(bus, Imm16)], 4)

Jump == High(0, 3) /\ Finish(Jumped(After(3), Imm16), 4)
DisableInterrupts == High(6, 3) /\ Ends(After(1), 1, [Awake EXCEPT !.ime = FALSE, !.ei = FALSE])
EnableInterrupts  == High(7, 3) /\ Ends(After(1), 1, [Awake EXCEPT !.ei = TRUE])

CallTo(s, target) == Jumped(Push(s, s.r.pc), target)
CallIf == /\ Field.x = 3 /\ Field.z = 4 /\ Field.y < 4
          /\ IF Condition(Field.y) THEN Finish(CallTo(After(3), Imm16), 6) ELSE Finish(After(3), 3)
Call == High(1, 5) /\ Finish(CallTo(After(3), Imm16), 6)
Restart == /\ Field.x = 3 /\ Field.z = 7
           /\ Finish(CallTo(After(1), 8 * Field.y), 4)

PushPair == /\ Field.x = 3 /\ Field.z = 5 /\ Field.q = 0
            /\ Finish(Push(After(1), Rp2(regs, Field.p)), 4)

AluImmediate == /\ Field.x = 3 /\ Field.z = 6
                /\ Finish(PutA(After(2), AluResult(Field.y, regs.a, Imm8, regs.f)), 2)

IllegalOpcode == /\ Field.op \in {211, 219, 221, 227, 228, 235, 236, 237, 244, 252, 253}
                 /\ Ends(After(1), 1, [Awake EXCEPT !.illegal = TRUE])

\* Cpu::execute_cb. BIT only tests; the others write their operand back.
Prefixed ==
  /\ High(1, 3)
  /\ LET cb == Imm8  op == cb \div 64  y == (cb \div 8) % 8  z == cb % 8
         v == GetR8(z)
         bit == Bit(v, y)
         out == CASE op = 0 -> Rotate(y, v, regs.f, TRUE)
                  [] op = 1 -> Out(v, bit = 0, FALSE, TRUE, regs.f.C)
                  [] op = 2 -> [v |-> v - bit * Weight(y), f |-> regs.f]
                  [] op = 3 -> [v |-> v + (1 - bit) * Weight(y), f |-> regs.f]
         s == [After(2) EXCEPT !.r.f = out.f]
     IN IF op = 1 THEN Finish(s, 2 + Touch(z)) ELSE Finish(PutR8(s, z, out.v), 2 + 2 * Touch(z))

-----------------------------------------------------------------------------
(* Cpu::step. *)

Execute ==
  \/ Nop \/ StoreSp \/ Stop \/ JumpRelative \/ LoadPair \/ AddHlPair \/ LoadIndirect
  \/ StepPair \/ StepByte \/ LoadImmediate \/ Accumulator \/ Halt \/ Move \/ AluRegister
  \/ ReturnIf \/ StoreHigh \/ LoadHigh \/ AddSp \/ LoadHlSp \/ Pop \/ Return
  \/ ReturnFromInterrupt \/ JumpHl \/ LoadSpHl \/ JumpIf \/ StoreC \/ StoreWord \/ LoadC
  \/ LoadWord \/ Jump \/ DisableInterrupts \/ EnableInterrupts \/ CallIf \/ Call
  \/ Restart \/ PushPair \/ AluImmediate \/ IllegalOpcode \/ Prefixed

\* Cpu::service_interrupt: five cycles, the lowest line first.
Dispatch ==
  /\ ctl.ime
  /\ \E i \in 0 .. 4 :
       /\ Bit(Pending, i) = 1
       /\ Pending % Weight(i) = 0
       /\ LET s == Push([r |-> regs, b |-> bus], regs.pc)
              b == [s.b EXCEPT !.iflag = IF Bit(@, i) = 1 THEN @ - Weight(i) ELSE @]
          IN  regs' = [s.r EXCEPT !.pc = 64 + 8 * i] /\ bus' = b
  /\ ctl' = [ctl EXCEPT !.ime = FALSE, !.halted = FALSE]
  /\ cycles' = 20

Interrupted == ctl.ime /\ Pending # 0
Asleep == (ctl.halted /\ Pending = 0) \/ ctl.stopped \/ ctl.illegal

\* Asleep, stopped or locked up: only time passes.
Idle ==
  /\ ~Interrupted /\ Asleep
  /\ ctl' = [ctl EXCEPT !.halted = @ /\ Pending = 0]
  /\ cycles' = 4 /\ UNCHANGED <<regs, bus>>

Step == Dispatch \/ Idle \/ (~Interrupted /\ ~Asleep /\ Execute)

\* Bus::request_interrupt: between two steps a component raises its line.
Request ==
  /\ \E i \in 0 .. 4 :
       bus' = [bus EXCEPT !.iflag = IF Bit(@, i) = 1 THEN @ ELSE @ + Weight(i)]
  /\ UNCHANGED <<regs, ctl, cycles>>

-----------------------------------------------------------------------------
(* A machine switched on with a ROM in it, and left to run, its components *)
(* raising interrupts whenever they like.                                  *)

RomCells == {<<"rom", i>> : i \in 0 .. 32767}
Roms == UNION {[cells -> Byte] : cells \in SUBSET RomCells}

PowerOn(cgb, rom) ==
  /\ regs = PowerOnRegs(cgb) /\ bus = PowerOnBus(cgb, rom)
  /\ ctl = PowerOnCtl /\ cycles = 0

MachineSpec ==
  (\E cgb \in BOOLEAN, rom \in Roms : PowerOn(cgb, rom)) /\ [][Step \/ Request]_machine

Registers == [a : Byte, f : Flags, b : Byte, c : Byte, d : Byte, e : Byte,
              h : Byte, l : Byte, sp : Word, pc : Word]
Controls == [ime : BOOLEAN, ei : BOOLEAN, halted : BOOLEAN, bug : BOOLEAN,
             stopped : BOOLEAN, illegal : BOOLEAN]

MachineTypeOK ==
  /\ regs \in Registers /\ IsBus(bus) /\ ctl \in Controls /\ cycles \in Nat
=============================================================================
