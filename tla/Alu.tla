--------------------------------- MODULE Alu ---------------------------------
(***************************************************************************)
(* The arithmetic of the processor (src/core/cpu.cpp): what an operation   *)
(* leaves in its operand and in the flags. Pure operators. A flag register *)
(* is a record of four Booleans, because F has no low nibble               *)
(* (src/include/retroemu/core/registers.hpp); an outcome pairs the result  *)
(* with the flags. A byte is combined with another bit by bit.             *)
(***************************************************************************)
EXTENDS Integers

Byte == 0 .. 255
Word == {n \in Nat : n < 65536}
Flags == [Z : BOOLEAN, N : BOOLEAN, H : BOOLEAN, C : BOOLEAN]

U8(n) == n % 256
U16(n) == n % 65536
Low(v) == v % 16
Signed(v) == IF v < 128 THEN v ELSE v - 256
Carry(f) == IF f.C THEN 1 ELSE 0

Out(v, z, n, h, c) == [v |-> v, f |-> [Z |-> z, N |-> n, H |-> h, C |-> c]]

-----------------------------------------------------------------------------
(* Cpu::alu: the arithmetic operations on the accumulator. *)

\* Mutant: the half-carry forgets the carry that comes in.
AddWithHalfOfTwo(a, v, c) ==
  Out(U8(a + v + c), U8(a + v + c) = 0, FALSE, Low(a) + Low(v) > 15, a + v + c > 255)

AddWith(a, v, c) ==
  Out(U8(a + v + c), U8(a + v + c) = 0, FALSE, Low(a) + Low(v) + c > 15, a + v + c > 255)

SubWith(a, v, c) ==
  Out(U8(a - v - c), U8(a - v - c) = 0, TRUE, Low(a) < Low(v) + c, a - v - c < 0)

Add(a, v, f) == AddWith(a, v, 0)
Adc(a, v, f) == AddWith(a, v, Carry(f))
Sub(a, v, f) == SubWith(a, v, 0)
Sbc(a, v, f) == SubWith(a, v, Carry(f))

\* CP: a subtraction whose result is thrown away.
Compare(a, v, f) == [SubWith(a, v, 0) EXCEPT !.v = a]

-----------------------------------------------------------------------------
(* Single bits, and the operations that combine those of two bytes.        *)

Weight(i) == <<1, 2, 4, 8, 16, 32, 64, 128>>[i + 1]
Bit(v, i) == (v \div Weight(i)) % 2
FromBits(b) == b[0] + 2 * b[1] + 4 * b[2] + 8 * b[3] + 16 * b[4] + 32 * b[5] + 64 * b[6] + 128 * b[7]

And(a, v) == FromBits([i \in 0 .. 7 |-> Bit(a, i) * Bit(v, i)])
Or(a, v)  == FromBits([i \in 0 .. 7 |-> IF Bit(a, i) + Bit(v, i) > 0 THEN 1 ELSE 0])
Xor(a, v) == FromBits([i \in 0 .. 7 |-> (Bit(a, i) + Bit(v, i)) % 2])

-----------------------------------------------------------------------------
(* Increments, sixteen-bit additions, decimal adjustment. *)

\* The carry is left alone.
Inc8(v, f) == Out(U8(v + 1), U8(v + 1) = 0, FALSE, Low(v) = 15, f.C)
Dec8(v, f) == Out(U8(v - 1), U8(v - 1) = 0, TRUE, Low(v) = 0, f.C)

\* ADD HL,rr: Z is left alone, the half-carry is the one out of bit 11.
AddHl(hl, v, f) ==
  Out(U16(hl + v), f.Z, FALSE, (hl % 4096) + (v % 4096) > 4095, hl + v > 65535)

\* ADD SP,e8 and LD HL,SP+e8: the flags come from the low byte.
AddSpSigned(sp, e) ==
  Out(U16(sp + Signed(e)), FALSE, FALSE, Low(sp) + Low(e) > 15, (sp % 256) + e > 255)

\* Mutant: the low digit is adjusted first, and the high one looks at the result.
DaaLowFirst(a, f) ==
  LET low  == f.H \/ (~f.N /\ Low(a) > 9)
      a1   == IF ~low THEN a ELSE IF f.N THEN U8(a - 6) ELSE U8(a + 6)
      high == f.C \/ (~f.N /\ a1 > 153)
      a2   == IF ~high THEN a1 ELSE IF f.N THEN U8(a1 - 96) ELSE U8(a1 + 96)
  IN Out(a2, a2 = 0, f.N, FALSE, high)

\* DAA: both tests look at the accumulator as it was.
TensOff(a, f)  == f.C \/ (~f.N /\ a > 153)
UnitsOff(a, f) == f.H \/ (~f.N /\ Low(a) > 9)
Correction(a, f) == (IF TensOff(a, f) THEN 96 ELSE 0) + (IF UnitsOff(a, f) THEN 6 ELSE 0)
Daa(a, f) ==
  LET r == IF f.N THEN U8(a - Correction(a, f)) ELSE U8(a + Correction(a, f))
  IN Out(r, r = 0, f.N, FALSE, TensOff(a, f))

-----------------------------------------------------------------------------
(* Rotates and shifts, by their number in the opcode. *)

Bit7(v) == v \div 128
Bit0(v) == v % 2

Rotated(op, v, c) ==
  CASE op = 0 -> U8(2 * v) + Bit7(v)             \* RLC
    [] op = 1 -> v \div 2 + 128 * Bit0(v)        \* RRC
    [] op = 2 -> U8(2 * v) + c                   \* RL
    [] op = 3 -> v \div 2 + 128 * c              \* RR
    [] op = 4 -> U8(2 * v)                       \* SLA
    [] op = 5 -> v \div 2 + 128 * Bit7(v)        \* SRA
    [] op = 6 -> U8(16 * v) + v \div 16          \* SWAP
    [] op = 7 -> v \div 2                        \* SRL

ShiftedOut(op, v) ==
  IF op = 6 THEN 0 ELSE IF op \in {0, 2, 4} THEN Bit7(v) ELSE Bit0(v)

\* Only the forms behind the 0xCB prefix set Z.
Rotate(op, v, f, cbForm) ==
  LET r == Rotated(op, v, Carry(f))
  IN Out(r, cbForm /\ r = 0, FALSE, FALSE, ShiftedOut(op, v) = 1)

-----------------------------------------------------------------------------
(* What the operations must come to, said without the nibbles the code     *)
(* looks at.                                                               *)

\* A bit of the result differs from those of the operands exactly when
\* something was carried (or borrowed) into it.
CarriedInto4(a, v, r) == ((a \div 16) + (v \div 16) + (r \div 16)) % 2 = 1

Sums(a, v, c, out) ==
  /\ out.v \in Byte /\ out.f.Z = (out.v = 0)
  /\ out.v + (IF out.f.C THEN 256 ELSE 0) = a + v + c
  /\ out.f.H = CarriedInto4(a, v, out.v)
Differs(a, v, c, out) ==
  /\ out.v \in Byte /\ out.f.Z = (out.v = 0)
  /\ out.v - (IF out.f.C THEN 256 ELSE 0) = a - v - c
  /\ out.f.H = CarriedInto4(a, v, out.v)

Packed(n) == 16 * (n \div 10) + (n % 10)
\* DAA after an addition or a subtraction of two numbers of two decimal digits
\* leaves the two digits of what the operation gives in base ten, and its carry.
AddsInDecimal(m, n, f) ==
  LET sum == m + n + Carry(f)
      out == LET o == Adc(Packed(m), Packed(n), f) IN Daa(o.v, o.f)
  IN out.v = Packed(sum % 100) /\ out.f.C = (sum > 99) /\ out.f.Z = (out.v = 0)
SubtractsInDecimal(m, n, f) ==
  LET difference == m - n - Carry(f)
      out == LET o == Sbc(Packed(m), Packed(n), f) IN Daa(o.v, o.f)
  IN out.v = Packed(difference % 100) /\ out.f.C = (difference < 0) /\ out.f.Z = (out.v = 0)

\* A word is added a byte at a time, the way a program without ADD HL does it.
AddedByBytes(hl, v, f) ==
  LET low  == Add(hl % 256, v % 256, f)
      high == Adc(hl \div 256, v \div 256, low.f)
  IN Out(256 * high.v + low.v, f.Z, FALSE, high.f.H, high.f.C)

\* Undoing a rotation, with the carry the first one leaves.
Undone(op, back, v, f) ==
  LET once == Rotate(op, v, f, TRUE) IN Rotate(back, once.v, once.f, TRUE).v = v
=============================================================================
