---------------------------- MODULE ProcessorProofs ----------------------------
(***************************************************************************)
(* What the instructions of the processor compute, and that every program  *)
(* may rely on it. First the operators: the arithmetic of bytes, words and *)
(* decimal digits, and the address map. Then the machine of Processor with *)
(* any ROM in it: MachineTypeOK is inductive, proved instruction by        *)
(* instruction together with how far each moves PC; from that follow that  *)
(* the two decoders agree and that the stack gives back what it was given. *)
(***************************************************************************)
EXTENDS SelfTest, TLAPS

-----------------------------------------------------------------------------
(* The arithmetic of the processor. *)

\* A byte is two nibbles.
LEMMA Nibbles ==
  ASSUME NEW v \in Byte
  PROVE  /\ v \div 16 \in 0 .. 15 /\ v % 16 \in 0 .. 15
         /\ v = 16 * (v \div 16) + (v % 16)
  BY DEF Byte

\* The carry in is a bit.
LEMMA CarryIsBit == ASSUME NEW f \in Flags PROVE Carry(f) \in {0, 1}
  BY DEF Carry, Flags

\* The sum of two bytes and a carry: the half-carry the code finds in the low
\* nibbles is the one the bits of the result show (Cpu::alu, 0 and 1).
LEMMA AddWithIsExact ==
  ASSUME NEW a \in Byte, NEW v \in Byte, NEW c \in {0, 1}
  PROVE  Sums(a, v, c, AddWith(a, v, c))
  <1> DEFINE ah == a \div 16  al == a % 16  vh == v \div 16  vl == v % 16
             r == (a + v + c) % 256
  <1>1. /\ ah \in 0 .. 15 /\ al \in 0 .. 15 /\ a = 16 * ah + al
        /\ vh \in 0 .. 15 /\ vl \in 0 .. 15 /\ v = 16 * vh + vl
    BY Nibbles
  <1>2. /\ r \in 0 .. 255
        /\ r + (IF a + v + c > 255 THEN 256 ELSE 0) = a + v + c
    <2>1. a + v + c \in 0 .. 511
      BY DEF Byte
    <2>2. \A n \in 0 .. 511 :
            n % 256 \in 0 .. 255 /\ (n % 256) + (IF n > 255 THEN 256 ELSE 0) = n
      OBVIOUS
    <2> QED BY <2>1, <2>2
  <1>3. (al + vl + c > 15) = ((ah + vh + (r \div 16)) % 2 = 1)
    <2>1. CASE al + vl + c > 15
      <3>1. r \div 16 = (ah + vh + 1) % 16
        BY <1>1, <1>2, <2>1 DEF Byte
      <3> QED BY <1>1, <2>1, <3>1
    <2>2. CASE ~(al + vl + c > 15)
      <3>1. r \div 16 = (ah + vh) % 16
        BY <1>1, <1>2, <2>2 DEF Byte
      <3> QED BY <1>1, <2>2, <3>1
    <2> QED BY <2>1, <2>2
  <1> QED BY <1>2, <1>3, ZenonT(60) DEF Sums, AddWith, Out, U8, Low, CarriedInto4, Byte

\* The same of a difference, with a borrow (Cpu::alu, 2, 3 and 7).
LEMMA SubWithIsExact ==
  ASSUME NEW a \in Byte, NEW v \in Byte, NEW c \in {0, 1}
  PROVE  Differs(a, v, c, SubWith(a, v, c))
  <1> DEFINE ah == a \div 16  al == a % 16  vh == v \div 16  vl == v % 16
             r == (a - v - c) % 256
  <1>1. /\ ah \in 0 .. 15 /\ al \in 0 .. 15 /\ a = 16 * ah + al
        /\ vh \in 0 .. 15 /\ vl \in 0 .. 15 /\ v = 16 * vh + vl
    BY Nibbles
  <1>2. /\ r \in 0 .. 255
        /\ r - (IF a - v - c < 0 THEN 256 ELSE 0) = a - v - c
    <2>1. a - v - c \in -256 .. 255
      BY DEF Byte
    <2>2. \A n \in -256 .. 255 :
            n % 256 \in 0 .. 255 /\ (n % 256) - (IF n < 0 THEN 256 ELSE 0) = n
      OBVIOUS
    <2> QED BY <2>1, <2>2
  <1>3. (al < vl + c) = ((ah + vh + (r \div 16)) % 2 = 1)
    <2>1. CASE al < vl + c
      <3>1. r \div 16 = (ah - vh - 1) % 16
        BY <1>1, <1>2, <2>1 DEF Byte
      <3> QED BY <1>1, <2>1, <3>1
    <2>2. CASE ~(al < vl + c)
      <3>1. r \div 16 = (ah - vh) % 16
        BY <1>1, <1>2, <2>2 DEF Byte
      <3> QED BY <1>1, <2>2, <3>1
    <2> QED BY <2>1, <2>2
  <1> QED BY <1>2, <1>3 DEF Differs, SubWith, Out, U8, Low, CarriedInto4, Byte

\* ADD, ADC, SUB, SBC and CP are exact, flags included, for every accumulator,
\* operand and flag register (Cpu::alu): what ArithmeticExact sweeps.
THEOREM ArithmeticIsExact ==
  ASSUME NEW a \in Byte, NEW v \in Byte, NEW f \in Flags
  PROVE  /\ Sums(a, v, 0, Add(a, v, f)) /\ Sums(a, v, Carry(f), Adc(a, v, f))
         /\ Differs(a, v, 0, Sub(a, v, f)) /\ Differs(a, v, Carry(f), Sbc(a, v, f))
         /\ Compare(a, v, f) = [Sub(a, v, f) EXCEPT !.v = a]
  <1>1. Carry(f) \in {0, 1}
    BY CarryIsBit
  <1>2. Sums(a, v, 0, AddWith(a, v, 0)) /\ Sums(a, v, Carry(f), AddWith(a, v, Carry(f)))
    BY <1>1, AddWithIsExact
  <1>3. Differs(a, v, 0, SubWith(a, v, 0)) /\ Differs(a, v, Carry(f), SubWith(a, v, Carry(f)))
    BY <1>1, SubWithIsExact
  <1> QED BY <1>2, <1>3 DEF Add, Adc, Sub, Sbc, Compare

-----------------------------------------------------------------------------
(* Decimal adjustment. T is the sum (difference) of the tens, u that of    *)
(* the units with the carry; the tests of DAA find out whether each of     *)
(* them left its decimal digit.                                            *)

LEMMA PackedDigits ==
  ASSUME NEW t \in 0 .. 9, NEW u \in 0 .. 9
  PROVE  Packed(10 * t + u) = 16 * t + u
  BY DEF Packed

LEMMA TensAndUnits ==
  ASSUME NEW m \in 0 .. 99
  PROVE  /\ m \div 10 \in 0 .. 9 /\ m % 10 \in 0 .. 9 /\ m = 10 * (m \div 10) + (m % 10)
  OBVIOUS

\* The tests of DAA after an addition that came to s, its units to u.
UnitsCarry(u) == IF u > 9 THEN 1 ELSE 0
TensCarry(T, u) == IF T + UnitsCarry(u) > 9 THEN 1 ELSE 0
UnitsTest(s, u) == u > 15 \/ s % 16 > 9
TensTest(s) == s > 255 \/ s % 256 > 153

\* They hold where k and h are the carries of the two decimal
\* digits, and with them the adjustment leaves both digits below ten.
LEMMA AdjustedSum ==
  ASSUME NEW T \in 0 .. 18, NEW u \in 0 .. 19
  PROVE  LET k == UnitsCarry(u)  h == TensCarry(T, u)  s == 16 * T + u IN
         /\ UnitsTest(s, u) <=> (k = 1)
         /\ TensTest(s) <=> (h = 1)
         /\ ((s % 256) + ((IF h = 1 THEN 96 ELSE 0) + (IF k = 1 THEN 6 ELSE 0))) % 256
              = 16 * (T + k - 10 * h) + (u - 10 * k)
         /\ T + k - 10 * h \in 0 .. 9 /\ u - 10 * k \in 0 .. 9
         /\ (10 * T + u) % 100 = 10 * (T + k - 10 * h) + (u - 10 * k)
         /\ (10 * T + u > 99) <=> (h = 1)
  <1> DEFINE k == UnitsCarry(u)  h == TensCarry(T, u)  s == 16 * T + u
  <1>1. CASE u > 9 /\ T > 8
    <2>1. k = 1 /\ h = 1 BY <1>1 DEF UnitsCarry, TensCarry
    <2>2. s \in 154 .. 307 /\ (s + 102 - 256) \in 0 .. 255 BY <1>1
    <2>3. u \in 10 .. 15 => s % 16 = u BY <1>1
    <2>4. ((s % 256) + 102) % 256 = s + 102 - 256 BY <2>2
    <2>5. 10 * T + u \in 100 .. 199 BY <1>1
    <2>6. (10 * T + u) % 100 = 10 * T + u - 100 BY <2>5
    <2> QED BY <1>1, <2>1, <2>2, <2>3, <2>4, <2>5, <2>6 DEF UnitsTest, TensTest
  <1>2. CASE u > 9 /\ T <= 8
    <2>1. k = 1 /\ h = 0 BY <1>2 DEF UnitsCarry, TensCarry
    <2>2. s \in 10 .. 147 /\ (s + 6) \in 0 .. 255 BY <1>2
    <2>3. u \in 10 .. 15 => s % 16 = u BY <1>2
    <2>4. ((s % 256) + 6) % 256 = s + 6 BY <2>2
    <2>5. 10 * T + u \in 0 .. 99 BY <1>2
    <2>6. (10 * T + u) % 100 = 10 * T + u BY <2>5
    <2> QED BY <1>2, <2>1, <2>2, <2>3, <2>4, <2>5, <2>6 DEF UnitsTest, TensTest
  <1>3. CASE u <= 9 /\ T > 9
    <2>1. k = 0 /\ h = 1 BY <1>3 DEF UnitsCarry, TensCarry
    <2>2. s \in 160 .. 297 /\ (s + 96 - 256) \in 0 .. 255 BY <1>3
    <2>3. s % 16 = u BY <1>3
    <2>4. ((s % 256) + 96) % 256 = s + 96 - 256 BY <2>2
    <2>5. 10 * T + u \in 100 .. 199 BY <1>3
    <2>6. (10 * T + u) % 100 = 10 * T + u - 100 BY <2>5
    <2> QED BY <1>3, <2>1, <2>2, <2>3, <2>4, <2>5, <2>6 DEF UnitsTest, TensTest
  <1>4. CASE u <= 9 /\ T <= 9
    <2>1. k = 0 /\ h = 0 BY <1>4 DEF UnitsCarry, TensCarry
    <2>2. s \in 0 .. 153 BY <1>4
    <2>3. s % 16 = u BY <1>4
    <2>4. (s % 256) % 256 = s BY <2>2
    <2>5. 10 * T + u \in 0 .. 99 BY <1>4
    <2>6. (10 * T + u) % 100 = 10 * T + u BY <2>5
    <2> QED BY <1>4, <2>1, <2>2, <2>3, <2>4, <2>5, <2>6 DEF UnitsTest, TensTest
  <1> QED BY <1>1, <1>2, <1>3, <1>4

\* And after a subtraction: k and h are the borrows.
Borrowed(T, u, k, h, s) ==
  /\ (s < 0) = (h = 1)
  /\ ((s % 256) - ((IF h = 1 THEN 96 ELSE 0) + (IF k = 1 THEN 6 ELSE 0))) % 256
       = 16 * (T - k + 10 * h) + (u + 10 * k)
  /\ T - k + 10 * h \in 0 .. 9 /\ u + 10 * k \in 0 .. 9
  /\ (10 * T + u) % 100 = 10 * (T - k + 10 * h) + (u + 10 * k)
  /\ (10 * T + u < 0) = (h = 1)

LEMMA AdjustedDifference ==
  ASSUME NEW T \in -9 .. 9, NEW u \in -10 .. 9, NEW k, NEW h,
         k = IF u < 0 THEN 1 ELSE 0,
         h = IF T - k < 0 THEN 1 ELSE 0,
         NEW s, s = 16 * T + u
  PROVE  Borrowed(T, u, k, h, s)
  <1> USE DEF Borrowed
  <1>1. CASE u < 0 /\ T <= 0
    <2>1. k = 1 /\ h = 1 BY <1>1
    <2>2. s \in -154 .. -1 /\ s % 256 = s + 256 BY <1>1
    <2>3. s + 154 \in 0 .. 255 BY <2>2
    <2>4. ((s % 256) - 102) % 256 = s + 154 BY <2>2, <2>3
    <2>5. 10 * T + u \in -100 .. -1 BY <1>1
    <2>6. (10 * T + u) % 100 = 10 * T + u + 100 BY <2>5
    <2> QED BY <1>1, <2>1, <2>2, <2>4, <2>5, <2>6
  <1>2. CASE u < 0 /\ T > 0
    <2>1. k = 1 /\ h = 0 BY <1>2
    <2>2. s \in 6 .. 143 BY <1>2
    <2>3. s % 256 = s BY <2>2
    <2>4. ((s % 256) - 6) % 256 = s - 6 BY <2>2
    <2>5. 10 * T + u \in 0 .. 99 BY <1>2
    <2>6. (10 * T + u) % 100 = 10 * T + u BY <2>5
    <2> QED BY <1>2, <2>1, <2>2, <2>4, <2>5, <2>6
  <1>3. CASE u >= 0 /\ T < 0
    <2>1. k = 0 /\ h = 1 BY <1>3
    <2>2. s \in -144 .. -7 /\ s % 256 = s + 256 BY <1>3
    <2>3. s + 160 \in 0 .. 255 BY <2>2
    <2>4. ((s % 256) - 96) % 256 = s + 160 BY <2>2, <2>3
    <2>5. 10 * T + u \in -100 .. -1 BY <1>3
    <2>6. (10 * T + u) % 100 = 10 * T + u + 100 BY <2>5
    <2> QED BY <1>3, <2>1, <2>2, <2>4, <2>5, <2>6
  <1>4. CASE u >= 0 /\ T >= 0
    <2>1. k = 0 /\ h = 0 BY <1>4
    <2>2. s \in 0 .. 153 BY <1>4
    <2>3. s % 256 = s BY <2>2
    <2>5. 10 * T + u \in 0 .. 99 BY <1>4
    <2>6. (10 * T + u) % 100 = 10 * T + u BY <2>5
    <2> QED BY <1>4, <2>1, <2>2, <2>3, <2>5, <2>6
  <1> QED BY <1>1, <1>2, <1>3, <1>4

\* DAA after ADD and ADC computes in base ten (Cpu::execute, 0x27, N clear).
LEMMA AddsDecimally ==
  ASSUME NEW m \in 0 .. 99, NEW n \in 0 .. 99, NEW f \in Flags
  PROVE  AddsInDecimal(m, n, f)
  <1> DEFINE mt == m \div 10  mo == m % 10  nt == n \div 10  no == n % 10  c == Carry(f)
  <1>1. /\ mt \in 0 .. 9 /\ mo \in 0 .. 9 /\ m = 10 * mt + mo
        /\ nt \in 0 .. 9 /\ no \in 0 .. 9 /\ n = 10 * nt + no
        /\ c \in {0, 1}
    BY TensAndUnits, CarryIsBit
  <1>2. Packed(m) = 16 * mt + mo /\ Packed(n) = 16 * nt + no
    BY <1>1, PackedDigits
  <1> HIDE DEF mt, mo, nt, no, c
  <1> DEFINE T == mt + nt  u == mo + no + c  s == 16 * T + u
             k == UnitsCarry(u)  h == TensCarry(T, u)
  <1>3. T \in 0 .. 18 /\ u \in 0 .. 19
    BY <1>1
  <1>4. Packed(m) + Packed(n) + c = s /\ m + n + c = 10 * T + u
    BY <1>1, <1>2
  <1>5. Packed(m) % 16 = mo /\ Packed(n) % 16 = no
    BY <1>1, <1>2
  <1> HIDE DEF T, u, s, k, h
  <1>6. /\ UnitsTest(s, u) <=> (k = 1)
        /\ TensTest(s) <=> (h = 1)
        /\ ((s % 256) + ((IF h = 1 THEN 96 ELSE 0) + (IF k = 1 THEN 6 ELSE 0))) % 256
             = 16 * (T + k - 10 * h) + (u - 10 * k)
        /\ T + k - 10 * h \in 0 .. 9 /\ u - 10 * k \in 0 .. 9
        /\ (10 * T + u) % 100 = 10 * (T + k - 10 * h) + (u - 10 * k)
        /\ (10 * T + u > 99) <=> (h = 1)
    BY <1>3, AdjustedSum, ZenonT(60) DEF s, k, h
  <1>7. Packed((m + n + c) % 100) = 16 * (T + k - 10 * h) + (u - 10 * k)
    BY <1>4, <1>6, PackedDigits
  <1> DEFINE o == Adc(Packed(m), Packed(n), f)
             d == Daa(o.v, o.f)
  <1>8. /\ o.v = s % 256 /\ o.f.N = FALSE
        /\ o.f.H = (u > 15) /\ o.f.C = (s > 255)
    BY <1>4, <1>5 DEF Adc, AddWith, Out, U8, Low, c, u
  <1> HIDE DEF o
  <1>9. /\ d.v = ((s % 256) + ((IF h = 1 THEN 96 ELSE 0) + (IF k = 1 THEN 6 ELSE 0))) % 256
        /\ d.f.C = (h = 1) /\ d.f.Z = (d.v = 0)
    <2>1. TensOff(o.v, o.f) <=> (h = 1)
      BY <1>6, <1>8, ZenonT(60) DEF TensTest, TensOff
    <2>2. UnitsOff(o.v, o.f) <=> (k = 1)
      <3>1. (s % 256) % 16 = s % 16
        BY <1>3 DEF s
      <3> QED BY <1>6, <1>8, <3>1, ZenonT(60) DEF UnitsTest, UnitsOff, Low
    <2>3. Correction(o.v, o.f) = (IF h = 1 THEN 96 ELSE 0) + (IF k = 1 THEN 6 ELSE 0)
      BY <2>1, <2>2 DEF Correction
    <2>4. TensOff(o.v, o.f) = (h = 1)
      BY <2>1 DEF TensOff
    <2> QED BY <1>8, <2>3, <2>4 DEF Daa, Out, U8
  <1> HIDE DEF d
  <1>10. d.v = Packed((m + n + c) % 100)
    BY <1>6, <1>7, <1>9
  <1>11. d.f.C = (m + n + c > 99)
    BY <1>4, <1>6, <1>9
  <1> QED BY <1>9, <1>10, <1>11 DEF AddsInDecimal, d, o, c

\* DAA after SUB and SBC (Cpu::execute, 0x27, N set).
LEMMA SubtractsDecimally ==
  ASSUME NEW m \in 0 .. 99, NEW n \in 0 .. 99, NEW f \in Flags
  PROVE  SubtractsInDecimal(m, n, f)
  <1> DEFINE mt == m \div 10  mo == m % 10  nt == n \div 10  no == n % 10  c == Carry(f)
  <1>1. /\ mt \in 0 .. 9 /\ mo \in 0 .. 9 /\ m = 10 * mt + mo
        /\ nt \in 0 .. 9 /\ no \in 0 .. 9 /\ n = 10 * nt + no
        /\ c \in {0, 1}
    BY TensAndUnits, CarryIsBit
  <1>2. Packed(m) = 16 * mt + mo /\ Packed(n) = 16 * nt + no
    BY <1>1, PackedDigits
  <1> HIDE DEF mt, mo, nt, no, c
  <1> DEFINE T == mt - nt  u == mo - no - c  s == 16 * T + u
             k == IF u < 0 THEN 1 ELSE 0
             h == IF T - k < 0 THEN 1 ELSE 0
  <1>3. T \in -9 .. 9 /\ u \in -10 .. 9
    BY <1>1
  <1>4. Packed(m) - Packed(n) - c = s /\ m - n - c = 10 * T + u
    BY <1>1, <1>2
  <1>5. Packed(m) % 16 = mo /\ Packed(n) % 16 = no /\ (mo < no + c) = (k = 1)
    BY <1>1, <1>2, SMTT(60)
  <1>a. k = (IF u < 0 THEN 1 ELSE 0) /\ h = (IF T - k < 0 THEN 1 ELSE 0) /\ s = 16 * T + u
    OBVIOUS
  <1> HIDE DEF T, u, s, k, h
  <1>b. Borrowed(T, u, k, h, s)
    BY <1>3, <1>a, AdjustedDifference
  <1>6. /\ (s < 0) = (h = 1)
        /\ ((s % 256) - ((IF h = 1 THEN 96 ELSE 0) + (IF k = 1 THEN 6 ELSE 0))) % 256
             = 16 * (T - k + 10 * h) + (u + 10 * k)
        /\ T - k + 10 * h \in 0 .. 9 /\ u + 10 * k \in 0 .. 9
        /\ (10 * T + u) % 100 = 10 * (T - k + 10 * h) + (u + 10 * k)
        /\ (10 * T + u < 0) = (h = 1)
    BY <1>b DEF Borrowed
  <1>7. Packed((m - n - c) % 100) = 16 * (T - k + 10 * h) + (u + 10 * k)
    BY <1>4, <1>6, PackedDigits
  <1> DEFINE o == Sbc(Packed(m), Packed(n), f)
             d == Daa(o.v, o.f)
  <1>8. /\ o.v = s % 256 /\ o.f.N = TRUE
        /\ o.f.H = (k = 1) /\ o.f.C = (h = 1)
    BY <1>4, <1>5, <1>6 DEF Sbc, SubWith, Out, U8, Low, c
  <1> HIDE DEF o
  <1>9. /\ d.v = ((s % 256) - ((IF h = 1 THEN 96 ELSE 0) + (IF k = 1 THEN 6 ELSE 0))) % 256
        /\ d.f.C = (h = 1) /\ d.f.Z = (d.v = 0)
    <2>1. TensOff(o.v, o.f) = (h = 1) /\ UnitsOff(o.v, o.f) = (k = 1)
      BY <1>8 DEF TensOff, UnitsOff
    <2>2. Correction(o.v, o.f) = (IF h = 1 THEN 96 ELSE 0) + (IF k = 1 THEN 6 ELSE 0)
      BY <2>1 DEF Correction
    <2> QED BY <1>8, <2>1, <2>2 DEF Daa, Out, U8
  <1> HIDE DEF d
  <1>10. d.v = Packed((m - n - c) % 100)
    BY <1>6, <1>7, <1>9
  <1>11. d.f.C = (m - n - c < 0)
    BY <1>4, <1>6, <1>9, SMTT(60)
  <1> QED BY <1>9, <1>10, <1>11 DEF SubtractsInDecimal, d, o, c

\* DAA computes in base ten after every addition and subtraction of two numbers of
\* two decimal digits (Cpu::execute, 0x27): what DecimalExact sweeps.
THEOREM DecimalIsExact ==
  ASSUME NEW m \in 0 .. 99, NEW n \in 0 .. 99, NEW f \in Flags
  PROVE  AddsInDecimal(m, n, f) /\ SubtractsInDecimal(m, n, f)
  BY AddsDecimally, SubtractsDecimally, Zenon

-----------------------------------------------------------------------------
\* A word is two bytes.
LEMMA WordOfBytes ==
  ASSUME NEW w \in Word
  PROVE  w \div 256 \in 0 .. 255 /\ w % 256 \in 0 .. 255 /\ w = 256 * (w \div 256) + (w % 256)
  BY DEF Word

\* ADD HL gives what a program gets that adds the low bytes and then, with the
\* carry, the high ones: the carry out of bit 11 is the half-carry of the second
\* addition (Cpu::execute, 0x09 and its like).
THEOREM WordsAddByBytes ==
  ASSUME NEW hl \in Word, NEW w \in Word, NEW f \in Flags
  PROVE  AddHl(hl, w, f) = AddedByBytes(hl, w, f)
  <1> DEFINE x == hl \div 256  y == hl % 256  p == w \div 256  q == w % 256
             c == IF y + q > 255 THEN 1 ELSE 0
             low == Add(y, q, f)  high == Adc(x, p, low.f)
  <1>1. /\ x \in 0 .. 255 /\ y \in 0 .. 255 /\ hl = 256 * x + y
        /\ p \in 0 .. 255 /\ q \in 0 .. 255 /\ w = 256 * p + q
    BY WordOfBytes
  <1>2. /\ low.v = (y + q) % 256 /\ low.f.C = (y + q > 255)
    <2> HIDE DEF y, q
    <2> QED BY <1>1 DEF Add, AddWith, Out, U8
  <1>3. Carry(low.f) = c
    BY <1>2, ZenonT(60) DEF Carry
  <1>4. high = Out((x + p + c) % 256, (x + p + c) % 256 = 0, FALSE,
                   (x % 16) + (p % 16) + c > 15, x + p + c > 255)
    <2> HIDE DEF x, p, c, low
    <2> QED BY <1>3 DEF Adc, AddWith, U8, Low
  <1> HIDE DEF x, y, p, q
  <1>5. c \in {0, 1} /\ (y + q) % 256 = y + q - 256 * c
    BY <1>1
  <1> HIDE DEF c
  <1>6. (hl + w) % 65536 = 256 * ((x + p + c) % 256) + ((y + q) % 256)
    <2>1. hl + w = 256 * (x + p + c) + (y + q - 256 * c) /\ y + q - 256 * c \in 0 .. 255
      BY <1>1, <1>5
    <2>2. \A m \in 0 .. 511, r \in 0 .. 255 : (256 * m + r) % 65536 = 256 * (m % 256) + r
      OBVIOUS
    <2> QED BY <1>1, <1>5, <2>1, <2>2
  <1>7. (hl + w > 65535) = (x + p + c > 255)
    BY <1>1, <1>5
  <1>8. ((hl % 4096) + (w % 4096) > 4095) = ((x % 16) + (p % 16) + c > 15)
    <2>1. \A m, r \in 0 .. 255 : (256 * m + r) % 4096 = 256 * (m % 16) + r
      OBVIOUS
    <2>2. hl % 4096 = 256 * (x % 16) + y /\ w % 4096 = 256 * (p % 16) + q
      BY <1>1, <2>1
    <2>3. x % 16 \in 0 .. 15 /\ p % 16 \in 0 .. 15 /\ y + q - 256 * c \in 0 .. 255
      BY <1>1, <1>5
    <2> DEFINE m == x % 16  n == p % 16
    <2> HIDE DEF m, n
    <2>4. (256 * m + y + (256 * n + q) > 4095) = (m + n + c > 15)
      BY <1>1, <1>5, <2>3 DEF m, n
    <2> QED BY <2>2, <2>4 DEF m, n
  <1>9. AddedByBytes(hl, w, f) = Out(256 * high.v + low.v, f.Z, FALSE, high.f.H, high.f.C)
    BY DEF AddedByBytes, x, y, p, q
  <1> HIDE DEF low, high
  <1>10. /\ high.v = (x + p + c) % 256
         /\ high.f.H = ((x % 16) + (p % 16) + c > 15) /\ high.f.C = (x + p + c > 255)
    BY <1>4, Zenon DEF Out
  <1>11. /\ 256 * high.v + low.v = (hl + w) % 65536
         /\ high.f.H = ((hl % 4096) + (w % 4096) > 4095) /\ high.f.C = (hl + w > 65535)
    BY <1>2, <1>6, <1>7, <1>8, <1>10
  <1>12. AddHl(hl, w, f) = Out((hl + w) % 65536, f.Z, FALSE,
                              (hl % 4096) + (w % 4096) > 4095, hl + w > 65535)
    BY DEF AddHl, U16
  <1> DEFINE A == (hl + w) % 65536  H == (hl % 4096) + (w % 4096) > 4095  C == hl + w > 65535
             V == 256 * high.v + low.v
  <1>13. V = A /\ high.f.H = H /\ high.f.C = C
    BY <1>11
  <1>14. AddHl(hl, w, f) = Out(A, f.Z, FALSE, H, C)
    BY <1>12
  <1>15. AddedByBytes(hl, w, f) = Out(V, f.Z, FALSE, high.f.H, high.f.C)
    BY <1>9
  <1> HIDE DEF A, H, C, V
  <1> QED BY <1>13, <1>14, <1>15

\* The rotations and shifts, spelt out with the top and the bottom bit apart.
LEMMA RotatedIs ==
  ASSUME NEW v \in Byte, NEW c \in {0, 1}
  PROVE  /\ Rotated(0, v, c) = 2 * (v % 128) + v \div 128
         /\ Rotated(1, v, c) = v \div 2 + 128 * (v % 2)
         /\ Rotated(2, v, c) = 2 * (v % 128) + c
         /\ Rotated(3, v, c) = v \div 2 + 128 * c
         /\ Rotated(4, v, c) = 2 * (v % 128)
         /\ Rotated(5, v, c) = v \div 2 + 128 * (v \div 128)
         /\ Rotated(6, v, c) = 16 * (v % 16) + v \div 16
         /\ Rotated(7, v, c) = v \div 2
<1>1. (2 * v) % 256 = 2 * (v % 128) /\ (16 * v) % 256 = 16 * (v % 16)
  BY DEF Byte
<1> QED
  BY <1>1 DEF Rotated, U8, Bit7, Bit0

\* What goes out at the top, or at the bottom.
LEMMA ShiftedOutIs ==
  ASSUME NEW v
  PROVE  /\ \A op \in {0, 2, 4} : ShiftedOut(op, v) = v \div 128
         /\ \A op \in {1, 3, 5, 7} : ShiftedOut(op, v) = v % 2
BY DEF ShiftedOut, Bit7, Bit0

\* A rotation is undone where the second one, given what was shifted out, gives v back.
LEMMA UndoneIs ==
  ASSUME NEW op, NEW back, NEW v, NEW f,
         Rotated(back, Rotated(op, v, Carry(f)), IF ShiftedOut(op, v) = 1 THEN 1 ELSE 0) = v
  PROVE  Undone(op, back, v, f)
<1> DEFINE once == Rotate(op, v, f, TRUE)
<1>1. once.v = Rotated(op, v, Carry(f)) /\ Carry(once.f) = IF ShiftedOut(op, v) = 1 THEN 1 ELSE 0
  BY DEF Rotate, Out, Carry
<1> HIDE DEF once
<1>2. Rotate(back, once.v, once.f, TRUE).v = Rotated(back, once.v, Carry(once.f))
  BY DEF Rotate, Out
<1> QED
  BY <1>1, <1>2 DEF Undone, once

\* A rotation is undone by the opposite one with the carry it left, SLA doubles as
\* ADD A,A does, SRA halves the signed and SRL the unsigned value and both shift out
\* the remainder, for every byte and flag register (Cpu::rotate).
THEOREM ShiftsAreExact ==
  ASSUME NEW v \in Byte, NEW f \in Flags
  PROVE  /\ Undone(0, 1, v, f) /\ Undone(1, 0, v, f)
         /\ Undone(2, 3, v, f) /\ Undone(3, 2, v, f)
         /\ Undone(6, 6, v, f)
         /\ Rotate(4, v, f, TRUE) = [Add(v, v, f) EXCEPT !.f.H = FALSE]
         /\ 2 * Signed(Rotate(5, v, f, TRUE).v) + Bit0(v) = Signed(v)
         /\ 2 * Rotate(7, v, f, TRUE).v + Bit0(v) = v
<1> DEFINE c == Carry(f)
<1>0. c \in {0, 1} /\ v \in 0 .. 255
  BY CarryIsBit DEF Byte
<1>a. \A u \in 0 .. 255 :
        /\ u \div 128 \in {0, 1} /\ u % 2 \in {0, 1}
        /\ 2 * (u % 128) + u \div 128 \in 0 .. 255 /\ u \div 2 + 128 * (u % 2) \in 0 .. 255
        /\ 2 * (u % 128) \in 0 .. 254 /\ u \div 2 \in 0 .. 127
        /\ 16 * (u % 16) + u \div 16 \in 0 .. 255
  OBVIOUS
<1> HIDE DEF c
<1>1. Undone(0, 1, v, f)
  <2> DEFINE r == 2 * (v % 128) + v \div 128
  <2>0. Rotated(0, v, c) = r
    BY <1>0, RotatedIs, ZenonT(60)
  <2>1. r \in Byte /\ Rotated(0, v, c) = r
    BY <1>0, <1>a, <2>0 DEF Byte
  <2>2. r \div 2 + 128 * (r % 2) = v
    BY <1>0
  <2> HIDE DEF r
  <2>3. \A d \in {0, 1} : Rotated(1, r, d) = v
    BY <2>1, <2>2, RotatedIs
  <2> QED
    BY <2>1, <2>3, UndoneIs DEF c
<1>2. Undone(1, 0, v, f)
  <2> DEFINE r == v \div 2 + 128 * (v % 2)
  <2>0. Rotated(1, v, c) = r
    BY <1>0, RotatedIs, ZenonT(60)
  <2>1. r \in Byte /\ Rotated(1, v, c) = r
    BY <1>0, <1>a, <2>0 DEF Byte
  <2>2. 2 * (r % 128) + r \div 128 = v
    BY <1>0
  <2> HIDE DEF r
  <2>3. \A d \in {0, 1} : Rotated(0, r, d) = v
    BY <2>1, <2>2, RotatedIs
  <2> QED
    BY <2>1, <2>3, UndoneIs DEF c
<1>3. Undone(2, 3, v, f)
  <2> DEFINE r == 2 * (v % 128) + c
             d == v \div 128
  <2>0. Rotated(2, v, c) = r
    BY <1>0, RotatedIs, ZenonT(60)
  <2>1. r \in Byte /\ Rotated(2, v, c) = r
    BY <1>0, <1>a, <2>0 DEF Byte
  <2>2. r \div 2 + 128 * d = v /\ d \in {0, 1}
    BY <1>0, <1>a
  <2>4. ShiftedOut(2, v) = d
    BY ShiftedOutIs
  <2> HIDE DEF r, d
  <2>3. Rotated(3, r, d) = v
    BY <2>1, <2>2, RotatedIs
  <2>5. (IF ShiftedOut(2, v) = 1 THEN 1 ELSE 0) = d
    BY <2>2, <2>4
  <2> QED
    BY <2>1, <2>3, <2>5, UndoneIs DEF c
<1>4. Undone(3, 2, v, f)
  <2> DEFINE r == v \div 2 + 128 * c
             d == v % 2
  <2>0. Rotated(3, v, c) = r
    BY <1>0, RotatedIs, ZenonT(60)
  <2>1. r \in Byte /\ Rotated(3, v, c) = r
    BY <1>0, <1>a, <2>0 DEF Byte
  <2>2. 2 * (r % 128) + d = v /\ d \in {0, 1}
    BY <1>0, <1>a
  <2>4. ShiftedOut(3, v) = d
    BY ShiftedOutIs
  <2> HIDE DEF r, d
  <2>3. Rotated(2, r, d) = v
    BY <2>1, <2>2, RotatedIs
  <2>5. (IF ShiftedOut(3, v) = 1 THEN 1 ELSE 0) = d
    BY <2>2, <2>4
  <2> QED
    BY <2>1, <2>3, <2>5, UndoneIs DEF c
<1>5. Undone(6, 6, v, f)
  <2> DEFINE r == 16 * (v % 16) + v \div 16
  <2>0. Rotated(6, v, c) = r
    BY <1>0, RotatedIs, ZenonT(60)
  <2>1. r \in Byte /\ Rotated(6, v, c) = r
    BY <1>0, <1>a, <2>0 DEF Byte
  <2>2. 16 * (r % 16) + r \div 16 = v
    BY <1>0
  <2> HIDE DEF r
  <2>3. \A d \in {0, 1} : Rotated(6, r, d) = v
    BY <2>1, <2>2, RotatedIs
  <2> QED
    BY <2>1, <2>3, UndoneIs DEF c
<1>6. Rotate(4, v, f, TRUE) = [Add(v, v, f) EXCEPT !.f.H = FALSE]
  <2>1. Rotated(4, v, c) = U8(v + v + 0)
    BY <1>0, RotatedIs DEF U8, Byte
  <2>2. (ShiftedOut(4, v) = 1) = (v + v + 0 > 255)
    BY <1>0, <1>a, ShiftedOutIs
  <2>3. Rotate(4, v, f, TRUE) = Out(Rotated(4, v, c), Rotated(4, v, c) = 0, FALSE, FALSE,
                                    ShiftedOut(4, v) = 1)
    BY Zenon DEF Rotate, c
  <2>4. Add(v, v, f) = Out(U8(v + v + 0), U8(v + v + 0) = 0, FALSE,
                           Low(v) + Low(v) + 0 > 15, v + v + 0 > 255)
    BY Zenon DEF Add, AddWith
  <2>5. Rotate(4, v, f, TRUE) = Out(U8(v + v + 0), U8(v + v + 0) = 0, FALSE, FALSE,
                                    v + v + 0 > 255)
    BY <2>1, <2>2, <2>3, Zenon
  <2> DEFINE r == U8(v + v + 0)
             z == r = 0
             h == Low(v) + Low(v) + 0 > 15
             o == v + v + 0 > 255
             no == FALSE
  <2>6. Add(v, v, f) = Out(r, z, no, h, o) /\ Rotate(4, v, f, TRUE) = Out(r, z, no, no, o)
    BY <2>4, <2>5, Zenon
  <2> SUFFICES Rotate(4, v, f, TRUE) = [Add(v, v, f) EXCEPT !.f.H = no]
    BY Zenon
  <2> HIDE DEF r, z, h, o, no
  <2>7. [Out(r, z, no, h, o) EXCEPT !.f.H = no] = Out(r, z, no, no, o)
    BY DEF Out
  <2> QED
    BY <2>6, <2>7
<1>7. 2 * Signed(Rotate(5, v, f, TRUE).v) + Bit0(v) = Signed(v)
  <2>1. Rotate(5, v, f, TRUE).v = v \div 2 + 128 * (v \div 128)
    <3>1. Rotate(5, v, f, TRUE).v = Rotated(5, v, c)
      BY DEF Rotate, Out, c
    <3> QED
      BY <1>0, <3>1, RotatedIs, ZenonT(60)
  <2> DEFINE r == v \div 2 + 128 * (v \div 128)
  <2>2. 2 * (v \div 2) + (v % 2) = v
    BY <1>0
  <2>3. CASE v < 128
    <3>1. r = v \div 2 /\ v \div 2 < 128
      BY <1>0, <2>3
    <3> QED
      BY <2>1, <2>2, <2>3, <3>1, ZenonT(60) DEF Signed, Bit0
  <2>4. CASE ~(v < 128)
    <3>1. r = v \div 2 + 128 /\ v \div 2 \in 64 .. 127 /\ v % 2 \in 0 .. 1
      BY <1>0, <2>4
    <3> HIDE DEF r
    <3>2. Signed(r) = v \div 2 - 128
      BY <1>0, <3>1 DEF Signed
    <3>3. Signed(v) = v - 256
      BY <2>4 DEF Signed
    <3>4. 2 * (v \div 2 - 128) + (v % 2) = v - 256
      BY <1>0, <2>2, <3>1
    <3> QED
      BY <2>1, <3>2, <3>3, <3>4, Zenon DEF Bit0, r
  <2> QED
    BY <2>3, <2>4
<1>8. 2 * Rotate(7, v, f, TRUE).v + Bit0(v) = v
  <2>1. Rotate(7, v, f, TRUE).v = v \div 2
    <3>1. Rotate(7, v, f, TRUE).v = Rotated(7, v, c)
      BY DEF Rotate, Out, c
    <3> QED
      BY <1>0, <3>1, RotatedIs, ZenonT(60)
  <2>2. 2 * (v \div 2) + (v % 2) = v
    BY <1>0
  <2> QED
    BY <2>1, <2>2, Zenon DEF Bit0
<1> QED
  BY <1>1, <1>2, <1>3, <1>4, <1>5, <1>6, <1>7, <1>8

\* INC and DEC give what an addition and a subtraction of 1 give, but for the carry,
\* which they keep (Cpu::execute, 0x04 and its like).
THEOREM StepsByOne ==
  ASSUME NEW v \in Byte, NEW f \in Flags
  PROVE  /\ Inc8(v, f) = [Add(v, 1, f) EXCEPT !.f.C = f.C]
         /\ Dec8(v, f) = [Sub(v, 1, f) EXCEPT !.f.C = f.C]
<1>0. v \in 0 .. 255
  BY DEF Byte
<1>1. /\ (Low(v) = 15) = (Low(v) + Low(1) + 0 > 15)
      /\ (Low(v) = 0) = (Low(v) < Low(1) + 0)
  BY <1>0 DEF Low
<1>2. v + 1 + 0 = v + 1 /\ v - 1 - 0 = v - 1
  BY <1>0
<1>3. /\ Add(v, 1, f) = Out(U8(v + 1), U8(v + 1) = 0, FALSE, Low(v) = 15, v + 1 > 255)
      /\ Sub(v, 1, f) = Out(U8(v - 1), U8(v - 1) = 0, TRUE, Low(v) = 0, v - 1 < 0)
  BY <1>1, <1>2, Zenon DEF Add, Sub, AddWith, SubWith
<1> DEFINE r == U8(v + 1)  z == r = 0  h == Low(v) = 15  o == v + 1 > 255
           q == U8(v - 1)  y == q = 0  b == Low(v) = 0   u == v - 1 < 0
           yes == TRUE  no == FALSE  kept == f.C
<1>4. /\ Add(v, 1, f) = Out(r, z, no, h, o)  /\ Inc8(v, f) = Out(r, z, no, h, kept)
      /\ Sub(v, 1, f) = Out(q, y, yes, b, u) /\ Dec8(v, f) = Out(q, y, yes, b, kept)
  BY <1>3, Zenon DEF Inc8, Dec8
<1> SUFFICES /\ Inc8(v, f) = [Add(v, 1, f) EXCEPT !.f.C = kept]
             /\ Dec8(v, f) = [Sub(v, 1, f) EXCEPT !.f.C = kept]
  BY Zenon
<1> HIDE DEF r, z, h, o, q, y, b, u, yes, no, kept
<1>5. /\ [Out(r, z, no, h, o) EXCEPT !.f.C = kept] = Out(r, z, no, h, kept)
      /\ [Out(q, y, yes, b, u) EXCEPT !.f.C = kept] = Out(q, y, yes, b, kept)
  BY DEF Out
<1> QED
  BY <1>4, <1>5

\* ADD SP,e8 takes its flags from the addition of the low bytes although its offset
\* is signed, and moves SP by exactly the signed offset (Cpu::add_sp_signed).
THEOREM OffsetsAddByBytes ==
  ASSUME NEW sp \in Word, NEW e \in Byte, NEW f \in Flags
  PROVE  LET s == AddSpSigned(sp, e)  low == Add(sp % 256, e, f)
         IN /\ s.v % 256 = low.v /\ s.f.H = low.f.H /\ s.f.C = low.f.C
            /\ (s.v - sp) % 65536 = Signed(e) % 65536
<1> DEFINE d == Signed(e)
           n == sp + d
           h == sp \div 256
           l == sp % 256
<1>a. sp \in Int /\ 0 <= sp /\ sp <= 65535
  BY DEF Word
<1>0. h \in 0 .. 255 /\ l \in 0 .. 255 /\ sp = 256 * h + l
  BY WordOfBytes
<1>1. e \in 0 .. 255 /\ d \in -128 .. 127 /\ (d = e \/ d = e - 256)
  BY DEF Byte, Signed
<1> HIDE DEF d, h, l
<1>2. n \in Int /\ -128 <= n /\ n <= 65662 /\ n = sp + d
  BY <1>a, <1>1
<1> HIDE DEF n
<1>3. n % 65536 = n \/ n % 65536 = n - 65536 \/ n % 65536 = n + 65536
  BY <1>2
<1>4. (n % 65536) % 256 = (l + e + 0) % 256
  <2>1. (n % 65536) % 256 = n % 256
    BY <1>2, <1>3
  <2>2. n = 256 * h + (l + e) \/ n = 256 * (h - 1) + (l + e)
    BY <1>0, <1>1, <1>2
  <2>3. \A k \in -1 .. 255, m \in 0 .. 510 : (256 * k + m) % 256 = m % 256
    OBVIOUS
  <2>4. h - 1 \in -1 .. 255 /\ h \in -1 .. 255 /\ l + e \in 0 .. 510 /\ l + e + 0 = l + e
    BY <1>0, <1>1
  <2>5. n % 256 = (l + e) % 256
    BY <2>2, <2>3, <2>4
  <2> QED
    BY <2>1, <2>4, <2>5
<1>5. ((n % 65536) - sp) % 65536 = d % 65536
  <2>1. (n % 65536) - sp \in {d, d - 65536, d + 65536}
    BY <1>a, <1>1, <1>2, <1>3
  <2>2. (d - 65536) % 65536 = d % 65536 /\ (d + 65536) % 65536 = d % 65536
    BY <1>1
  <2> QED
    BY <2>1, <2>2
<1>6. Low(sp) = Low(l)
  <2>1. \A k, m \in 0 .. 255 : (256 * k + m) % 16 = m % 16
    OBVIOUS
  <2> QED
    BY <1>0, <2>1 DEF Low
<1> DEFINE hf == Low(l) + Low(e) > 15
           cf == l + e > 255
<1>7. AddSpSigned(sp, e) = Out(n % 65536, FALSE, FALSE, hf, cf)
  <2>1. AddSpSigned(sp, e) = Out(U16(sp + Signed(e)), FALSE, FALSE,
                                 Low(sp) + Low(e) > 15, (sp % 256) + e > 255)
    BY Zenon DEF AddSpSigned
  <2>2. U16(sp + Signed(e)) = n % 65536
    BY DEF U16, n, d
  <2>3. sp % 256 = l
    BY DEF l
  <2> DEFINE low == Low(sp) + Low(e) > 15
             all == (sp % 256) + e > 255
             sum == U16(sp + Signed(e))
  <2>4. low = hf /\ all = cf
    BY <1>6, <2>3
  <2>5. AddSpSigned(sp, e) = Out(sum, FALSE, FALSE, low, all)
    BY <2>1
  <2>6. sum = n % 65536
    BY <2>2
  <2> HIDE DEF hf, cf, low, all, sum
  <2> QED
    BY <2>4, <2>5, <2>6
<1>8. Low(l) + Low(e) + 0 = Low(l) + Low(e) /\ l + e + 0 = l + e
  BY <1>0, <1>1 DEF Low
<1>9. Add(l, e, f) = Out((l + e + 0) % 256, (l + e + 0) % 256 = 0, FALSE, hf, cf)
  BY <1>8, ZenonT(60) DEF Add, AddWith, U8
<1> HIDE DEF hf, cf
<1>12. /\ AddSpSigned(sp, e).v = n % 65536 /\ Add(l, e, f).v = (l + e + 0) % 256
       /\ AddSpSigned(sp, e).f.H = hf /\ Add(l, e, f).f.H = hf
       /\ AddSpSigned(sp, e).f.C = cf /\ Add(l, e, f).f.C = cf
  BY <1>7, <1>9 DEF Out
<1>11. /\ AddSpSigned(sp, e).v % 256 = Add(l, e, f).v
       /\ AddSpSigned(sp, e).f.H = Add(l, e, f).f.H
       /\ AddSpSigned(sp, e).f.C = Add(l, e, f).f.C
       /\ (AddSpSigned(sp, e).v - sp) % 65536 = Signed(e) % 65536
  <2>1. Signed(e) = d
    BY DEF d
  <2> QED
    BY <1>4, <1>5, <1>12, <2>1
<1> QED
  BY <1>11, SMTT(60) DEF l

-----------------------------------------------------------------------------
(* The address map of the bus. *)

LEMMA AddrBounds == ASSUME NEW a \in Addr PROVE a \in Int /\ a >= 0 /\ a <= 65535
  BY DEF Addr

\* The regions tile the sixteen bits of an address.
LEMMA Tiles ==
  ASSUME NEW a \in Int, a >= 0, a <= 65535
  PROVE  /\ (a >= 0 /\ a < 16384) => RegionOf(a) = "RomBank0"
         /\ (a >= 16384 /\ a < 32768) => RegionOf(a) = "RomBankN"
         /\ (a >= 32768 /\ a < 40960) => RegionOf(a) = "Vram"
         /\ (a >= 40960 /\ a < 49152) => RegionOf(a) = "ExternalRam"
         /\ (a >= 49152 /\ a < 53248) => RegionOf(a) = "WramBank0"
         /\ (a >= 53248 /\ a < 57344) => RegionOf(a) = "WramBankN"
         /\ (a >= 57344 /\ a < 65024) => RegionOf(a) = "EchoRam"
         /\ (a >= 65024 /\ a < 65184) => RegionOf(a) = "Oam"
         /\ (a >= 65184 /\ a < 65280) => RegionOf(a) = "Unusable"
         /\ (a >= 65280 /\ a < 65408) => RegionOf(a) = "IoRegisters"
         /\ (a >= 65408 /\ a < 65535) => RegionOf(a) = "Hram"
         /\ (a >= 65535 /\ a < 65536) => RegionOf(a) = "InterruptEnable"
  <1>1. (a >= 0 /\ a < 16384) => RegionOf(a) = "RomBank0"
    BY DEF RegionOf
  <1>2. (a >= 16384 /\ a < 32768) => RegionOf(a) = "RomBankN"
    BY DEF RegionOf
  <1>3. (a >= 32768 /\ a < 40960) => RegionOf(a) = "Vram"
    BY DEF RegionOf
  <1>4. (a >= 40960 /\ a < 49152) => RegionOf(a) = "ExternalRam"
    BY DEF RegionOf
  <1>5. (a >= 49152 /\ a < 53248) => RegionOf(a) = "WramBank0"
    BY DEF RegionOf
  <1>6. (a >= 53248 /\ a < 57344) => RegionOf(a) = "WramBankN"
    BY DEF RegionOf
  <1>7. (a >= 57344 /\ a < 65024) => RegionOf(a) = "EchoRam"
    BY DEF RegionOf
  <1>8. (a >= 65024 /\ a < 65184) => RegionOf(a) = "Oam"
    BY DEF RegionOf
  <1>9. (a >= 65184 /\ a < 65280) => RegionOf(a) = "Unusable"
    BY DEF RegionOf
  <1>10. (a >= 65280 /\ a < 65408) => RegionOf(a) = "IoRegisters"
    BY DEF RegionOf
  <1>11. (a >= 65408 /\ a < 65535) => RegionOf(a) = "Hram"
    BY DEF RegionOf
  <1>12. (a >= 65535 /\ a < 65536) => RegionOf(a) = "InterruptEnable"
    BY DEF RegionOf
  <1> QED BY <1>1, <1>2, <1>3, <1>4, <1>5, <1>6, <1>7, <1>8, <1>9, <1>10, <1>11, <1>12

LEMMA NotEcho ==
  ASSUME NEW a \in Int, a >= 0, a <= 65535, a < 57344 \/ a >= 65024
  PROVE  RegionOf(a) # "EchoRam"
  BY DEF RegionOf

\* An echo address is the one it mirrors, and never an echo itself.
LEMMA UnechoedAddr ==
  ASSUME NEW a \in Int, a >= 0, a <= 65535
  PROVE  /\ (a >= 57344 /\ a < 65024) => Unechoed(a) = a - 8192
         /\ (a < 57344 \/ a >= 65024) => Unechoed(a) = a
         /\ Unechoed(a) \in Int /\ Unechoed(a) >= 0 /\ Unechoed(a) <= 65535
         /\ Unechoed(a) < 57344 \/ Unechoed(a) >= 65024
  <1>1. ASSUME a >= 57344, a < 65024 PROVE Unechoed(a) = a - 8192
    <2>1. RegionOf(a) = "EchoRam" BY <1>1, Tiles
    <2> QED BY <2>1, SMT DEF Unechoed
  <1>2. ASSUME a < 57344 \/ a >= 65024 PROVE Unechoed(a) = a
    <2>1. RegionOf(a) # "EchoRam" BY <1>2, NotEcho
    <2> QED BY <2>1, SMT DEF Unechoed
  <1>3. (a >= 57344 /\ a < 65024) \/ a < 57344 \/ a >= 65024
    BY SMT
  <1>4. CASE a >= 57344 /\ a < 65024
    <2>1. Unechoed(a) = a - 8192 BY <1>1, <1>4
    <2>2. ~(a < 57344 \/ a >= 65024) BY <1>4, SMT
    <2>3. a - 8192 \in Int /\ a - 8192 >= 0 /\ a - 8192 < 57344 BY <1>4, SMT
    <2> QED BY <2>1, <2>2, <2>3
  <1>5. CASE a < 57344 \/ a >= 65024
    <2>1. Unechoed(a) = a BY <1>2, <1>5
    <2>2. ~(a >= 57344 /\ a < 65024) BY <1>5, SMT
    <2> QED BY <1>5, <2>1, <2>2
  <1> QED BY <1>3, <1>4, <1>5

\* The banked half of work RAM is never bank 0, and never beyond the eighth.
LEMMA WramBankRange ==
  ASSUME NEW cgb \in BOOLEAN, NEW svbk \in Nat
  PROVE  WramBank(cgb, svbk) \in 1 .. 7
  BY DEF WramBank

\* What both chains come to, but for the owner of a register.
Located(cgb, svbk, addr, owner) ==
  LET a == Unechoed(addr) IN
  IF RegionOf(a) \in {"RomBank0", "RomBankN"} THEN <<"rom", a>>
  ELSE IF RegionOf(a) = "Vram" THEN <<"vram", a - 32768>>
  ELSE IF RegionOf(a) = "ExternalRam" THEN <<"extram", a - 40960>>
  ELSE IF RegionOf(a) = "WramBank0" THEN <<"wram", a - 49152>>
  ELSE IF RegionOf(a) = "WramBankN"
    THEN <<"wram", WramBank(cgb, svbk) * WramBankSize + (a - 53248)>>
  ELSE IF RegionOf(a) = "Oam" THEN <<"oam", a - 65024>>
  ELSE IF RegionOf(a) = "Unusable" THEN <<"unusable", a - 65184>>
  ELSE IF RegionOf(a) = "IoRegisters" THEN <<owner, a - 65280>>
  ELSE IF RegionOf(a) = "Hram" THEN <<"hram", a - 65408>>
  ELSE <<"ie", 0>>

\* An address that is no echo is behind a region of its own; registers have no echo.
LEMMA UnechoedRegion ==
  ASSUME NEW a \in Int, a >= 0, a <= 65535
  PROVE  /\ RegionOf(Unechoed(a)) # "EchoRam"
         /\ RegionOf(Unechoed(a)) = "IoRegisters" => Unechoed(a) = a
  <1> DEFINE u == Unechoed(a)
  <1>1. u \in Int /\ u >= 0 /\ u <= 65535 /\ (u < 57344 \/ u >= 65024)
    BY UnechoedAddr
  <1>2. u # a => u < 57344
    BY UnechoedAddr
  <1> HIDE DEF u
  <1>3. RegionOf(u) # "EchoRam"
    BY <1>1, NotEcho
  <1>4. u < 57344 => RegionOf(u) # "IoRegisters"
    BY <1>1 DEF RegionOf
  <1> QED BY <1>2, <1>3, <1>4 DEF u

\* What dispatch_read comes to, and what dispatch_write does.
LEMMA ReadLocated ==
  ASSUME NEW cgb \in BOOLEAN, NEW x \in Nat, NEW a \in Int, a >= 0, a <= 65535
  PROVE  ReadCell(cgb, x, a) = Located(cgb, x, a, ReadOwner(cgb, a - 65280))
  <1> DEFINE u == Unechoed(a)
  <1>1. ReadCell(cgb, x, a) = ReadDirect(cgb, x, u)
    BY DEF ReadCell, Unechoed
  <1>2. RegionOf(u) # "EchoRam" /\ (RegionOf(u) = "IoRegisters" => u = a)
    BY UnechoedRegion
  <1>3. RegionOf(u) \in Regions
    BY DEF RegionOf, Regions
  <1>4. Located(cgb, x, a, ReadOwner(cgb, a - 65280)) = ReadDirect(cgb, x, u)
    <2> HIDE DEF u
    <2>1. u = Unechoed(a)
      BY DEF u
    <2>2. CASE RegionOf(u) = "RomBank0"
      BY <2>1, <2>2 DEF Located, ReadDirect
    <2>3. CASE RegionOf(u) = "RomBankN"
      BY <2>1, <2>3 DEF Located, ReadDirect
    <2>4. CASE RegionOf(u) = "Vram"
      BY <2>1, <2>4 DEF Located, ReadDirect
    <2>5. CASE RegionOf(u) = "ExternalRam"
      BY <2>1, <2>5 DEF Located, ReadDirect
    <2>6. CASE RegionOf(u) = "WramBank0"
      BY <2>1, <2>6 DEF Located, ReadDirect
    <2>7. CASE RegionOf(u) = "WramBankN"
      BY <2>1, <2>7 DEF Located, ReadDirect
    <2>8. CASE RegionOf(u) = "Oam"
      BY <2>1, <2>8 DEF Located, ReadDirect
    <2>9. CASE RegionOf(u) = "Unusable"
      BY <2>1, <2>9 DEF Located, ReadDirect
    <2>10. CASE RegionOf(u) = "IoRegisters"
      BY <2>1, <2>10, <1>2 DEF Located, ReadDirect
    <2>11. CASE RegionOf(u) = "Hram"
      BY <2>1, <2>11 DEF Located, ReadDirect
    <2>12. CASE RegionOf(u) = "InterruptEnable"
      BY <2>1, <2>12 DEF Located, ReadDirect
    <2> QED BY <1>2, <1>3, <2>2, <2>3, <2>4, <2>5, <2>6, <2>7,
              <2>8, <2>9, <2>10, <2>11, <2>12 DEF Regions
  <1> QED BY <1>1, <1>4

LEMMA WriteLocated ==
  ASSUME NEW cgb \in BOOLEAN, NEW x \in Nat, NEW a \in Int, a >= 0, a <= 65535
  PROVE  WriteCell(cgb, x, a) = Located(cgb, x, a, WriteOwner(cgb, a - 65280))
  <1> DEFINE u == Unechoed(a)
  <1>1. WriteCell(cgb, x, a) = WriteDirect(cgb, x, u)
    BY DEF WriteCell, Unechoed
  <1>2. RegionOf(u) # "EchoRam" /\ (RegionOf(u) = "IoRegisters" => u = a)
    BY UnechoedRegion
  <1>3. RegionOf(u) \in Regions
    BY DEF RegionOf, Regions
  <1>4. Located(cgb, x, a, WriteOwner(cgb, a - 65280)) = WriteDirect(cgb, x, u)
    <2> HIDE DEF u
    <2>1. u = Unechoed(a)
      BY DEF u
    <2>2. CASE RegionOf(u) = "RomBank0"
      BY <2>1, <2>2 DEF Located, WriteDirect
    <2>3. CASE RegionOf(u) = "RomBankN"
      BY <2>1, <2>3 DEF Located, WriteDirect
    <2>4. CASE RegionOf(u) = "Vram"
      BY <2>1, <2>4 DEF Located, WriteDirect
    <2>5. CASE RegionOf(u) = "ExternalRam"
      BY <2>1, <2>5 DEF Located, WriteDirect
    <2>6. CASE RegionOf(u) = "WramBank0"
      BY <2>1, <2>6 DEF Located, WriteDirect
    <2>7. CASE RegionOf(u) = "WramBankN"
      BY <2>1, <2>7 DEF Located, WriteDirect
    <2>8. CASE RegionOf(u) = "Oam"
      BY <2>1, <2>8 DEF Located, WriteDirect
    <2>9. CASE RegionOf(u) = "Unusable"
      BY <2>1, <2>9 DEF Located, WriteDirect
    <2>10. CASE RegionOf(u) = "IoRegisters"
      BY <2>1, <2>10, <1>2 DEF Located, WriteDirect
    <2>11. CASE RegionOf(u) = "Hram"
      BY <2>1, <2>11 DEF Located, WriteDirect
    <2>12. CASE RegionOf(u) = "InterruptEnable"
      BY <2>1, <2>12 DEF Located, WriteDirect
    <2> QED BY <1>2, <1>3, <2>2, <2>3, <2>4, <2>5, <2>6, <2>7,
              <2>8, <2>9, <2>10, <2>11, <2>12 DEF Regions
  <1> QED BY <1>1, <1>4

\* The cell of an address, range by range.
LEMMA Cells ==
  ASSUME NEW cgb \in BOOLEAN, NEW x \in Nat, NEW a \in Int, a >= 0, a <= 65535, NEW owner
  PROVE  LET u == Unechoed(a)  cell == Located(cgb, x, a, owner) IN
         /\ (u >= 0 /\ u < 16384) => cell = <<"rom", u>>
         /\ (u >= 16384 /\ u < 32768) => cell = <<"rom", u>>
         /\ (u >= 32768 /\ u < 40960) => cell = <<"vram", u - 32768>>
         /\ (u >= 40960 /\ u < 49152) => cell = <<"extram", u - 40960>>
         /\ (u >= 49152 /\ u < 53248) => cell = <<"wram", u - 49152>>
         /\ (u >= 53248 /\ u < 57344) => cell = <<"wram", WramBank(cgb, x) * 4096 + (u - 53248)>>
         /\ (u >= 65024 /\ u < 65184) => cell = <<"oam", u - 65024>>
         /\ (u >= 65184 /\ u < 65280) => cell = <<"unusable", u - 65184>>
         /\ (u >= 65280 /\ u < 65408) => cell = <<owner, u - 65280>>
         /\ (u >= 65408 /\ u < 65535) => cell = <<"hram", u - 65408>>
         /\ (u >= 65535 /\ u < 65536) => cell = <<"ie", 0>>
  <1> DEFINE u == Unechoed(a)  cell == Located(cgb, x, a, owner)
  <1>1. u \in Int /\ u >= 0 /\ u <= 65535
    BY UnechoedAddr
  <1>2. (u >= 0 /\ u < 16384) => cell = <<"rom", u>>
    <2> SUFFICES ASSUME u >= 0, u < 16384 PROVE cell = <<"rom", u>>
      OBVIOUS
    <2>1. RegionOf(u) = "RomBank0"
      BY <1>1, Tiles
    <2> QED BY <2>1 DEF Located, WramBankSize
  <1>3. (u >= 16384 /\ u < 32768) => cell = <<"rom", u>>
    <2> SUFFICES ASSUME u >= 16384, u < 32768 PROVE cell = <<"rom", u>>
      OBVIOUS
    <2>1. RegionOf(u) = "RomBankN"
      BY <1>1, Tiles
    <2> QED BY <2>1 DEF Located, WramBankSize
  <1>4. (u >= 32768 /\ u < 40960) => cell = <<"vram", u - 32768>>
    <2> SUFFICES ASSUME u >= 32768, u < 40960 PROVE cell = <<"vram", u - 32768>>
      OBVIOUS
    <2>1. RegionOf(u) = "Vram"
      BY <1>1, Tiles
    <2> QED BY <2>1 DEF Located, WramBankSize
  <1>5. (u >= 40960 /\ u < 49152) => cell = <<"extram", u - 40960>>
    <2> SUFFICES ASSUME u >= 40960, u < 49152 PROVE cell = <<"extram", u - 40960>>
      OBVIOUS
    <2>1. RegionOf(u) = "ExternalRam"
      BY <1>1, Tiles
    <2> QED BY <2>1 DEF Located, WramBankSize
  <1>6. (u >= 49152 /\ u < 53248) => cell = <<"wram", u - 49152>>
    <2> SUFFICES ASSUME u >= 49152, u < 53248 PROVE cell = <<"wram", u - 49152>>
      OBVIOUS
    <2>1. RegionOf(u) = "WramBank0"
      BY <1>1, Tiles
    <2> QED BY <2>1 DEF Located, WramBankSize
  <1>7. (u >= 53248 /\ u < 57344) => cell = <<"wram", WramBank(cgb, x) * 4096 + (u - 53248)>>
    <2> SUFFICES ASSUME u >= 53248, u < 57344 PROVE cell = <<"wram", WramBank(cgb, x) * 4096 + (u - 53248)>>
      OBVIOUS
    <2>1. RegionOf(u) = "WramBankN"
      BY <1>1, Tiles
    <2> QED BY <2>1 DEF Located, WramBankSize
  <1>8. (u >= 65024 /\ u < 65184) => cell = <<"oam", u - 65024>>
    <2> SUFFICES ASSUME u >= 65024, u < 65184 PROVE cell = <<"oam", u - 65024>>
      OBVIOUS
    <2>1. RegionOf(u) = "Oam"
      BY <1>1, Tiles
    <2> QED BY <2>1 DEF Located, WramBankSize
  <1>9. (u >= 65184 /\ u < 65280) => cell = <<"unusable", u - 65184>>
    <2> SUFFICES ASSUME u >= 65184, u < 65280 PROVE cell = <<"unusable", u - 65184>>
      OBVIOUS
    <2>1. RegionOf(u) = "Unusable"
      BY <1>1, Tiles
    <2> QED BY <2>1 DEF Located, WramBankSize
  <1>10. (u >= 65280 /\ u < 65408) => cell = <<owner, u - 65280>>
    <2> SUFFICES ASSUME u >= 65280, u < 65408 PROVE cell = <<owner, u - 65280>>
      OBVIOUS
    <2>1. RegionOf(u) = "IoRegisters"
      BY <1>1, Tiles
    <2> QED BY <2>1 DEF Located, WramBankSize
  <1>11. (u >= 65408 /\ u < 65535) => cell = <<"hram", u - 65408>>
    <2> SUFFICES ASSUME u >= 65408, u < 65535 PROVE cell = <<"hram", u - 65408>>
      OBVIOUS
    <2>1. RegionOf(u) = "Hram"
      BY <1>1, Tiles
    <2> QED BY <2>1 DEF Located, WramBankSize
  <1>12. (u >= 65535 /\ u < 65536) => cell = <<"ie", 0>>
    <2> SUFFICES ASSUME u >= 65535, u < 65536 PROVE cell = <<"ie", 0>>
      OBVIOUS
    <2>1. RegionOf(u) = "InterruptEnable"
      BY <1>1, Tiles
    <2> QED BY <2>1 DEF Located, WramBankSize
  <1> QED BY <1>2, <1>3, <1>4, <1>5, <1>6, <1>7, <1>8, <1>9, <1>10, <1>11, <1>12

-----------------------------------------------------------------------------
\* The memories; any other owner is a component of the I/O page.
Memories == {"rom", "vram", "extram", "wram", "oam", "unusable", "hram", "ie"}

LEMMA OwnerNames ==
  ASSUME NEW cgb \in BOOLEAN, NEW o
  PROVE  ReadOwner(cgb, o) \notin Memories /\ WriteOwner(cgb, o) \notin Memories
  BY DEF ReadOwner, WriteOwner, ReadColourOwner, WriteColourOwner, Memories

\* The address a cell was reached from: a cell's name and index give it back.
Origin(cell) ==
  IF cell[1] = "rom" THEN cell[2]
  ELSE IF cell[1] = "vram" THEN cell[2] + 32768
  ELSE IF cell[1] = "extram" THEN cell[2] + 40960
  ELSE IF cell[1] = "wram"
    THEN IF cell[2] < 4096 THEN cell[2] + 49152 ELSE (cell[2] % 4096) + 53248
  ELSE IF cell[1] = "oam" THEN cell[2] + 65024
  ELSE IF cell[1] = "unusable" THEN cell[2] + 65184
  ELSE IF cell[1] = "hram" THEN cell[2] + 65408
  ELSE IF cell[1] = "ie" THEN 65535
  ELSE cell[2] + 65280

LEMMA OriginOfCell ==
  ASSUME NEW cgb \in BOOLEAN, NEW x \in Nat, NEW a \in Int, a >= 0, a <= 65535, NEW owner, owner \notin Memories
  PROVE  Origin(Located(cgb, x, a, owner)) = Unechoed(a)
  <1> DEFINE u == Unechoed(a)  cell == Located(cgb, x, a, owner)  w == WramBank(cgb, x)
  <1>1. u \in Int /\ u >= 0 /\ u <= 65535 /\ (u < 57344 \/ u >= 65024)
    BY UnechoedAddr
  <1>2. w \in 1 .. 7
    BY WramBankRange
  <1>3. ASSUME u >= 0, u < 16384 PROVE Origin(cell) = u
    <2>1. cell = <<"rom", u>>
      BY <1>3, Cells
    <2> HIDE DEF u, cell, w
    <2> QED BY <1>1, <1>2, <1>3, <2>1, SMT DEF Origin, Memories
  <1>4. ASSUME u >= 16384, u < 32768 PROVE Origin(cell) = u
    <2>1. cell = <<"rom", u>>
      BY <1>4, Cells
    <2> HIDE DEF u, cell, w
    <2> QED BY <1>1, <1>2, <1>4, <2>1, SMT DEF Origin, Memories
  <1>5. ASSUME u >= 32768, u < 40960 PROVE Origin(cell) = u
    <2>1. cell = <<"vram", u - 32768>>
      BY <1>5, Cells
    <2> HIDE DEF u, cell, w
    <2> QED BY <1>1, <1>2, <1>5, <2>1, SMT DEF Origin, Memories
  <1>6. ASSUME u >= 40960, u < 49152 PROVE Origin(cell) = u
    <2>1. cell = <<"extram", u - 40960>>
      BY <1>6, Cells
    <2> HIDE DEF u, cell, w
    <2> QED BY <1>1, <1>2, <1>6, <2>1, SMT DEF Origin, Memories
  <1>7. ASSUME u >= 49152, u < 53248 PROVE Origin(cell) = u
    <2>1. cell = <<"wram", u - 49152>>
      BY <1>7, Cells
    <2> HIDE DEF u, cell, w
    <2> QED BY <1>1, <1>2, <1>7, <2>1, SMT DEF Origin, Memories
  <1>8. ASSUME u >= 53248, u < 57344 PROVE Origin(cell) = u
    <2>1. cell = <<"wram", w * 4096 + (u - 53248)>>
      BY <1>8, Cells
    <2> HIDE DEF u, cell, w
    <2> QED BY <1>1, <1>2, <1>8, <2>1, SMT DEF Origin, Memories
  <1>9. ASSUME u >= 65024, u < 65184 PROVE Origin(cell) = u
    <2>1. cell = <<"oam", u - 65024>>
      BY <1>9, Cells
    <2> HIDE DEF u, cell, w
    <2> QED BY <1>1, <1>2, <1>9, <2>1, SMT DEF Origin, Memories
  <1>10. ASSUME u >= 65184, u < 65280 PROVE Origin(cell) = u
    <2>1. cell = <<"unusable", u - 65184>>
      BY <1>10, Cells
    <2> HIDE DEF u, cell, w
    <2> QED BY <1>1, <1>2, <1>10, <2>1, SMT DEF Origin, Memories
  <1>11. ASSUME u >= 65280, u < 65408 PROVE Origin(cell) = u
    <2>1. cell = <<owner, u - 65280>>
      BY <1>11, Cells
    <2> HIDE DEF u, cell, w
    <2> QED BY <1>1, <1>2, <1>11, <2>1, SMT DEF Origin, Memories
  <1>12. ASSUME u >= 65408, u < 65535 PROVE Origin(cell) = u
    <2>1. cell = <<"hram", u - 65408>>
      BY <1>12, Cells
    <2> HIDE DEF u, cell, w
    <2> QED BY <1>1, <1>2, <1>12, <2>1, SMT DEF Origin, Memories
  <1>13. ASSUME u >= 65535, u < 65536 PROVE Origin(cell) = u
    <2>1. cell = <<"ie", 0>>
      BY <1>13, Cells
    <2> HIDE DEF u, cell, w
    <2> QED BY <1>1, <1>2, <1>13, <2>1, SMT DEF Origin, Memories
  <1> HIDE DEF u, cell
  <1> QED BY <1>1, <1>3, <1>4, <1>5, <1>6, <1>7, <1>8, <1>9, <1>10, <1>11, <1>12, <1>13 DEF u, cell

LEMMA BankedRange ==
  ASSUME NEW a \in Int, a >= 0, a <= 65535, RegionOf(a) = "WramBankN"
  PROVE  a >= 53248 /\ a < 57344
  BY DEF RegionOf

LEMMA BankedIndex ==
  ASSUME NEW cgb \in BOOLEAN, NEW x \in Nat, NEW a \in Int, a >= 0, a <= 65535, NEW owner,
         Unechoed(a) >= 53248, Unechoed(a) < 57344
  PROVE  Located(cgb, x, a, owner)[2] = WramBank(cgb, x) * 4096 + (Unechoed(a) - 53248)
  <1> DEFINE i == WramBank(cgb, x) * 4096 + (Unechoed(a) - 53248)
             cell == Located(cgb, x, a, owner)
  <1>1. cell = <<"wram", i>>
    BY Cells
  <1> HIDE DEF i, cell
  <1>2. cell[2] = i
    BY <1>1
  <1> QED BY <1>2 DEF i, cell

\* A store under one bank and a load under another reach one cell only at one
\* address or its echo, and in the banked half only under one bank
\* (Bus::dispatch_write, Bus::dispatch_read).
THEOREM CellsApart ==
  ASSUME NEW cgb \in BOOLEAN, NEW x \in Nat, NEW y \in Nat, NEW a1 \in Addr, NEW a2 \in Addr
  PROVE  Apart(cgb, x, a1, y, a2)
  <1>1. SUFFICES ASSUME WriteCell(cgb, x, a1) = ReadCell(cgb, y, a2)
                 PROVE  Same(cgb, x, a1, y, a2)
    BY DEF Apart
  <1> DEFINE u == Unechoed(a1)
             w == WriteOwner(cgb, a1 - 65280)  r == ReadOwner(cgb, a2 - 65280)
  <1>2. /\ a1 \in Int /\ a1 >= 0 /\ a1 <= 65535
        /\ a2 \in Int /\ a2 >= 0 /\ a2 <= 65535
    BY AddrBounds
  <1>3. w \notin Memories /\ r \notin Memories
    BY OwnerNames
  <1>4. Located(cgb, x, a1, w) = Located(cgb, y, a2, r)
    BY <1>1, <1>2, ReadLocated, WriteLocated
  <1> HIDE DEF w, r
  <1>5. Unechoed(a1) = Unechoed(a2)
    BY <1>2, <1>3, <1>4, OriginOfCell
  <1>6. ASSUME RegionOf(u) = "WramBankN", cgb
        PROVE  x % 8 = y % 8 \/ {x % 8, y % 8} = {0, 1}
    <2>1. u \in Int /\ u >= 53248 /\ u < 57344
      BY <1>2, <1>6, UnechoedAddr, BankedRange
    <2> DEFINE c == Located(cgb, x, a1, w)  d == Located(cgb, y, a2, r)
               n == WramBank(cgb, x)  m == WramBank(cgb, y)
    <2>2. c[2] = n * 4096 + (u - 53248) /\ d[2] = m * 4096 + (u - 53248)
      BY <1>2, <1>5, <2>1, BankedIndex
    <2>3. n \in Int /\ m \in Int
      BY WramBankRange
    <2>4. n = m
      <3>1. c = d
        BY <1>4
      <3> HIDE DEF c, d, n, m, u
      <3> QED BY <2>1, <2>2, <2>3, <3>1
    <2>5. /\ WramBank(cgb, x) = (IF x % 8 = 0 THEN 1 ELSE x % 8)
          /\ WramBank(cgb, y) = (IF y % 8 = 0 THEN 1 ELSE y % 8)
      BY <1>6 DEF WramBank
    <2> QED BY <2>4, <2>5
  <1> QED BY <1>5, <1>6 DEF Same

\* No load of work RAM leaves its array (Bus::dispatch_read).
THEOREM WorkRamInside ==
  ASSUME NEW cgb \in BOOLEAN, NEW x \in Nat, NEW a \in Addr
  PROVE  InsideWorkRam(cgb, x, a)
  <1> DEFINE u == Unechoed(a)  w == WramBank(cgb, x)  r == ReadOwner(cgb, a - 65280)
             cell == Located(cgb, x, a, r)
  <1>2. a \in Int /\ a >= 0 /\ a <= 65535
    BY AddrBounds
  <1>1. SUFFICES ASSUME cell[1] = "wram" PROVE cell[2] < 32768
    BY <1>2, ReadLocated DEF InsideWorkRam, WramBanks, WramBankSize
  <1>3. u \in Int /\ u >= 0 /\ u <= 65535 /\ (u < 57344 \/ u >= 65024) /\ w \in 1 .. 7
    BY <1>2, UnechoedAddr, WramBankRange
  <1>4. r # "wram"
    BY OwnerNames DEF Memories
  <1>5. /\ (u >= 0 /\ u < 16384) => cell = <<"rom", u>>
        /\ (u >= 16384 /\ u < 32768) => cell = <<"rom", u>>
        /\ (u >= 32768 /\ u < 40960) => cell = <<"vram", u - 32768>>
        /\ (u >= 40960 /\ u < 49152) => cell = <<"extram", u - 40960>>
        /\ (u >= 49152 /\ u < 53248) => cell = <<"wram", u - 49152>>
        /\ (u >= 53248 /\ u < 57344) => cell = <<"wram", w * 4096 + (u - 53248)>>
        /\ (u >= 65024 /\ u < 65184) => cell = <<"oam", u - 65024>>
        /\ (u >= 65184 /\ u < 65280) => cell = <<"unusable", u - 65184>>
        /\ (u >= 65280 /\ u < 65408) => cell = <<r, u - 65280>>
        /\ (u >= 65408 /\ u < 65535) => cell = <<"hram", u - 65408>>
        /\ (u >= 65535 /\ u < 65536) => cell = <<"ie", 0>>
    BY <1>2, Cells
  <1> HIDE DEF u, w, r, cell
  <1>6. CASE u >= 49152 /\ u < 53248
    BY <1>3, <1>5, <1>6
  <1>7. CASE u >= 53248 /\ u < 57344
    BY <1>3, <1>5, <1>7
  <1>8. CASE u < 49152
    BY <1>1, <1>3, <1>5, <1>8
  <1>9. CASE u >= 65024
    BY <1>1, <1>3, <1>4, <1>5, <1>9
  <1> QED BY <1>3, <1>6, <1>7, <1>8, <1>9

-----------------------------------------------------------------------------
(* The whole of MemoryHolds, ArithmeticExact and DecimalExact.             *)

\* But for SC, a register is loaded from where it is stored.
LEMMA OwnersAgree ==
  ASSUME NEW cgb \in BOOLEAN, NEW o \in Int, o # 2
  PROVE  WriteOwner(cgb, o) = ReadOwner(cgb, o)
  BY DEF WriteOwner, ReadOwner, WriteColourOwner, ReadColourOwner

\* Two values of SVBK that select one bank of work RAM.
LEMMA BanksAgree ==
  ASSUME NEW cgb \in BOOLEAN, NEW x \in Nat, NEW y \in Nat,
         cgb => x % 8 = y % 8 \/ {x % 8, y % 8} = {0, 1}
  PROVE  WramBank(cgb, x) = WramBank(cgb, y)
  BY DEF WramBank

\* What is stored at an address under one bank is found at that address and its
\* echo under the same bank (Bus::dispatch_write, Bus::dispatch_read).
THEOREM CellsTogether ==
  ASSUME NEW cgb \in BOOLEAN, NEW x \in Nat, NEW y \in Nat, NEW a1 \in Addr, NEW a2 \in Addr
  PROVE  Together(cgb, x, a1, y, a2)
  <1>1. SUFFICES ASSUME Same(cgb, x, a1, y, a2), a1 # 65282, a2 # 65282
                 PROVE  WriteCell(cgb, x, a1) = ReadCell(cgb, y, a2)
    BY DEF Together
  <1> DEFINE u == Unechoed(a1)
             w == WriteOwner(cgb, a1 - 65280)  r == ReadOwner(cgb, a2 - 65280)
             c == Located(cgb, x, a1, w)  d == Located(cgb, y, a2, r)
             n == WramBank(cgb, x)  m == WramBank(cgb, y)
  <1>2. /\ a1 \in Int /\ a1 >= 0 /\ a1 <= 65535
        /\ a2 \in Int /\ a2 >= 0 /\ a2 <= 65535
    BY AddrBounds
  <1>3. u = Unechoed(a2) /\ u \in Int /\ u >= 0 /\ u <= 65535 /\ (u < 57344 \/ u >= 65024)
    BY <1>1, <1>2, UnechoedAddr DEF Same
  <1>4. ASSUME u >= 65280 PROVE w = r
    <2>1. a1 = a2
      BY <1>2, <1>3, <1>4, UnechoedAddr
    <2> DEFINE o == a1 - 65280
    <2>2. o \in Int /\ o # 2
      BY <1>1, <1>2
    <2> HIDE DEF o
    <2>3. WriteOwner(cgb, o) = ReadOwner(cgb, o)
      BY <2>2, OwnersAgree
    <2>4. w = WriteOwner(cgb, o)
      BY DEF o
    <2>5. r = ReadOwner(cgb, o)
      BY <2>1 DEF o
    <2> QED BY <2>3, <2>4, <2>5
  <1>5. ASSUME u >= 53248, u < 57344 PROVE n = m
    <2>1. RegionOf(u) = "WramBankN"
      BY <1>3, <1>5, Tiles
    <2> QED BY <1>1, <2>1, BanksAgree DEF Same
  <1>6. LET cell == c IN
         /\ (u >= 0 /\ u < 16384) => cell = <<"rom", u>>
         /\ (u >= 16384 /\ u < 32768) => cell = <<"rom", u>>
         /\ (u >= 32768 /\ u < 40960) => cell = <<"vram", u - 32768>>
         /\ (u >= 40960 /\ u < 49152) => cell = <<"extram", u - 40960>>
         /\ (u >= 49152 /\ u < 53248) => cell = <<"wram", u - 49152>>
         /\ (u >= 53248 /\ u < 57344) => cell = <<"wram", n * 4096 + (u - 53248)>>
         /\ (u >= 65024 /\ u < 65184) => cell = <<"oam", u - 65024>>
         /\ (u >= 65184 /\ u < 65280) => cell = <<"unusable", u - 65184>>
         /\ (u >= 65280 /\ u < 65408) => cell = <<w, u - 65280>>
         /\ (u >= 65408 /\ u < 65535) => cell = <<"hram", u - 65408>>
         /\ (u >= 65535 /\ u < 65536) => cell = <<"ie", 0>>
    BY <1>2, Cells
  <1>7. LET cell == d IN
         /\ (u >= 0 /\ u < 16384) => cell = <<"rom", u>>
         /\ (u >= 16384 /\ u < 32768) => cell = <<"rom", u>>
         /\ (u >= 32768 /\ u < 40960) => cell = <<"vram", u - 32768>>
         /\ (u >= 40960 /\ u < 49152) => cell = <<"extram", u - 40960>>
         /\ (u >= 49152 /\ u < 53248) => cell = <<"wram", u - 49152>>
         /\ (u >= 53248 /\ u < 57344) => cell = <<"wram", m * 4096 + (u - 53248)>>
         /\ (u >= 65024 /\ u < 65184) => cell = <<"oam", u - 65024>>
         /\ (u >= 65184 /\ u < 65280) => cell = <<"unusable", u - 65184>>
         /\ (u >= 65280 /\ u < 65408) => cell = <<r, u - 65280>>
         /\ (u >= 65408 /\ u < 65535) => cell = <<"hram", u - 65408>>
         /\ (u >= 65535 /\ u < 65536) => cell = <<"ie", 0>>
    BY <1>2, <1>3, Cells
  <1> HIDE DEF u, w, r, c, d, n, m
  <1>8. c = d
    <2>1. CASE u < 53248 BY <1>3, <1>6, <1>7, <2>1
    <2>2. CASE u >= 53248 /\ u < 57344 BY <1>5, <1>6, <1>7, <2>2
    <2>3. CASE u >= 65024 /\ u < 65280 BY <1>3, <1>6, <1>7, <2>3
    <2>4. CASE u >= 65280 /\ u < 65408 BY <1>4, <1>6, <1>7, <2>4
    <2>5. CASE u >= 65408 BY <1>3, <1>6, <1>7, <2>5
    <2> QED BY <1>3, <2>1, <2>2, <2>3, <2>4, <2>5
  <1> QED BY <1>2, <1>8, ReadLocated, WriteLocated DEF c, d, w, r

\* The memory names, and the byte of a register that only keeps it.
ByteNames == {"vram", "wram", "oam", "hram", "io", "ie"}

\* There is but one cell of the interrupt enable byte.
LEMMA EnableCell ==
  ASSUME NEW cgb, NEW x, NEW a, NEW owner, owner # "ie", Located(cgb, x, a, owner)[1] = "ie"
  PROVE  Located(cgb, x, a, owner) = <<"ie", 0>>
  BY DEF Located

\* Where there is memory, a store leads to a cell of it.
LEMMA KeptCell ==
  ASSUME NEW cgb \in BOOLEAN, NEW x \in Nat, NEW a \in Addr, KeepsBytes(cgb, a)
  PROVE  WriteCell(cgb, x, a)[1] \in ByteNames /\ a # 65282
  <1> DEFINE u == Unechoed(a)  o == a - 65280
  <1>1. a \in Int /\ a >= 0 /\ a <= 65535
    BY AddrBounds
  <1>2. WriteCell(cgb, x, a) = Located(cgb, x, a, WriteOwner(cgb, o))
    BY <1>1, WriteLocated
  <1>3. CASE RegionOf(u) \in {"Vram", "WramBank0", "WramBankN", "Oam", "Hram", "InterruptEnable"}
    <2>1. Located(cgb, x, a, WriteOwner(cgb, o))[1] \in ByteNames
      <3> HIDE DEF u, o
      <3>1. u = Unechoed(a)
        BY DEF u
      <3> QED BY <1>3, <3>1 DEF Located, ByteNames
    <2>2. a = 65282 => RegionOf(u) = "IoRegisters"
      BY <1>1, UnechoedAddr, Tiles
    <2> QED BY <1>2, <1>3, <2>1, <2>2
  <1>4. CASE RegionOf(u) = "IoRegisters" /\ o \notin Registered(cgb)
    <2>1. o \in Int
      BY <1>1
    <2> HIDE DEF o
    <2>2. WriteOwner(cgb, o) = "io"
      BY <1>4, <2>1 DEF WriteOwner, WriteColourOwner, Registered
    <2>3. Located(cgb, x, a, WriteOwner(cgb, o))[1] = "io"
      <3> HIDE DEF u
      <3>1. u = Unechoed(a)
        BY DEF u
      <3> QED BY <1>4, <2>2, <3>1 DEF Located
    <2>4. o # 2
      BY <1>4 DEF Registered
    <2> QED BY <1>1, <1>2, <2>3, <2>4 DEF ByteNames, o
  <1> QED BY <1>3, <1>4 DEF KeepsBytes

\* A byte stored in memory is found again, and every other load finds what it found
\* before, also after a change of bank (Bus::dispatch_write, Bus::dispatch_read).
THEOREM BytesAreKept ==
  ASSUME NEW b, b \in BusOver(b.cells), NEW a1 \in Addr, NEW v, NEW y \in Nat, NEW a2 \in Addr
  PROVE  StoredIsLoaded(b, a1, v, y, a2)
  <1> DEFINE x == b.svbk  c == WriteCell(b.cgb, x, a1)  d == ReadCell(b.cgb, y, a2)
             s == Store(b, a1, v)  after == [s EXCEPT !.svbk = y]
             before == [b EXCEPT !.svbk = y]  same == Same(b.cgb, x, a1, y, a2)
  <1>1. SUFFICES ASSUME KeepsBytes(b.cgb, a1)
                 PROVE  Load(after, a2) = IF same THEN v ELSE Load(before, a2)
    BY DEF StoredIsLoaded
  <1>2. b.cgb \in BOOLEAN /\ x \in Nat
    BY DEF BusOver
  <1>3. c[1] \in ByteNames /\ a1 # 65282
    BY <1>1, <1>2, KeptCell
  <1>4. same => d = c
    <2>1. same => a2 # 65282
      <3>1. /\ a1 \in Int /\ a1 >= 0 /\ a1 <= 65535
            /\ a2 \in Int /\ a2 >= 0 /\ a2 <= 65535
        BY AddrBounds
      <3> QED BY <1>3, <3>1, UnechoedAddr DEF Same
    <2>2. Together(b.cgb, x, a1, y, a2)
      BY <1>2, CellsTogether
    <2> QED BY <1>3, <2>1, <2>2 DEF Together
  <1>5. ~same => d # c
    <2>1. Apart(b.cgb, x, a1, y, a2)
      BY <1>2, CellsApart
    <2> QED BY <2>1 DEF Apart
  <1>6. c[1] = "ie" /\ d[1] = "ie" => c = d
    <2>1. /\ a1 \in Int /\ a1 >= 0 /\ a1 <= 65535
          /\ a2 \in Int /\ a2 >= 0 /\ a2 <= 65535
      BY AddrBounds
    <2>2. /\ c = Located(b.cgb, x, a1, WriteOwner(b.cgb, a1 - 65280))
          /\ d = Located(b.cgb, y, a2, ReadOwner(b.cgb, a2 - 65280))
      BY <1>2, <2>1, ReadLocated, WriteLocated
    <2>3. /\ WriteOwner(b.cgb, a1 - 65280) # "ie"
          /\ ReadOwner(b.cgb, a2 - 65280) # "ie"
      BY <1>2, OwnerNames DEF Memories
    <2> HIDE DEF c, d
    <2> QED BY <2>2, <2>3, EnableCell
  <1>7. s = StoreTo(b, c, v)
    BY DEF Store
  <1> HIDE DEF c, d, same
  <1>8. CASE c[1] = "ie"
    <2>1. s = [b EXCEPT !.ie = v]
      BY <1>7, <1>8 DEF StoreTo
    <2>2. /\ after.cgb = b.cgb /\ after.svbk = y /\ after.ie = v /\ after.iflag = b.iflag
          /\ after.double = b.double /\ after.key1 = b.key1 /\ after.cells = b.cells
          /\ before.cgb = b.cgb /\ before.svbk = y /\ before.iflag = b.iflag
          /\ before.double = b.double /\ before.key1 = b.key1 /\ before.cells = b.cells
      BY <2>1 DEF BusOver
    <2> HIDE DEF s, after, before
    <2>3. Load(after, a2) = LoadFrom(after, d) /\ Load(before, a2) = LoadFrom(before, d)
      BY <2>2 DEF Load, d
    <2>4. CASE same
      <3>1. d[1] = "ie"
        BY <1>4, <1>8, <2>4
      <3> QED BY <2>2, <2>3, <2>4, <3>1 DEF LoadFrom
    <2>5. CASE ~same
      <3>1. d[1] # "ie"
        BY <1>5, <1>6, <1>8, <2>5
      <3>2. LoadFrom(after, d) = LoadFrom(before, d)
        BY <2>2, <3>1 DEF LoadFrom, Holds
      <3> QED BY <2>3, <2>5, <3>2
    <2> QED BY <2>4, <2>5
  <1>9. CASE c[1] # "ie"
    <2>1. s = [b EXCEPT !.cells = With(b.cells, c, v)]
      BY <1>3, <1>7, <1>9 DEF StoreTo, ByteNames
    <2> DEFINE cells == With(b.cells, c, v)
    <2>2. /\ after.cgb = b.cgb /\ after.svbk = y /\ after.ie = b.ie /\ after.iflag = b.iflag
          /\ after.double = b.double /\ after.key1 = b.key1 /\ after.cells = cells
          /\ before.cgb = b.cgb /\ before.svbk = y /\ before.ie = b.ie
          /\ before.iflag = b.iflag
          /\ before.double = b.double /\ before.key1 = b.key1 /\ before.cells = b.cells
      <3> HIDE DEF cells
      <3> QED BY <2>1 DEF BusOver, cells
    <2> HIDE DEF s, after, before
    <2>3. Load(after, a2) = LoadFrom(after, d) /\ Load(before, a2) = LoadFrom(before, d)
      BY <2>2 DEF Load, d
    <2>4. CASE same
      <3>1. d[1] \in {"vram", "wram", "oam", "hram", "io"}
        BY <1>3, <1>4, <1>9, <2>4 DEF ByteNames
      <3>2. Holds(after, d) = v
        BY <1>4, <2>2, <2>4 DEF Holds, With
      <3>3. LoadFrom(after, d) = Holds(after, d)
        BY <3>1 DEF LoadFrom
      <3> QED BY <2>3, <2>4, <3>2, <3>3
    <2>5. CASE ~same
      <3>1. Holds(after, d) = Holds(before, d)
        BY <1>5, <2>2, <2>5 DEF Holds, With
      <3>2. LoadFrom(after, d) = LoadFrom(before, d)
        <4> HIDE DEF cells
        <4> QED BY <2>2, <3>1 DEF LoadFrom
      <3> QED BY <2>3, <2>5, <3>2
    <2> QED BY <2>4, <2>5
  <1> QED BY <1>8, <1>9

\* The boundaries checked on a run are addresses.
LEMMA EdgesAreAddresses == Edges \subseteq Addr
  BY DEF Edges, Addr

\* What MemoryHolds asks at the edges of the map holds at every address.
THEOREM MemoryIsSound == Spec => []MemoryHolds
  <1>1. MemoryHolds
    <2> DEFINE start(cgb, x) == [PowerOnBus(cgb, <<>>) EXCEPT !.svbk = x]
    <2> SUFFICES ASSUME NEW cgb \in BOOLEAN, NEW x \in {0, 1, 2, 7}, NEW y \in {0, 1, 2, 7},
                        NEW a1 \in Edges, NEW a2 \in Edges
                 PROVE  /\ Apart(cgb, x, a1, y, a2) /\ Together(cgb, x, a1, y, a2)
                        /\ InsideWorkRam(cgb, x, a1)
                        /\ StoredIsLoaded(start(cgb, x), a1, 90, y, a2)
      BY DEF MemoryHolds
    <2>1. x \in Nat /\ y \in Nat /\ a1 \in Addr /\ a2 \in Addr
      BY EdgesAreAddresses
    <2>2. start(cgb, x) \in BusOver(start(cgb, x).cells)
      <3> DEFINE p == PowerOnBus(cgb, <<>>)  cells == With(<<>>, <<"io", 2>>, 126)
      <3>1. p = [cgb |-> cgb, svbk |-> 1, key1 |-> 0, double |-> FALSE, ie |-> 0,
                 iflag |-> 1, serial |-> <<>>, cells |-> cells]
        BY DEF PowerOnBus
      <3>2. <<>> \in Sent
        BY DEF Sent
      <3> HIDE DEF cells, p
      <3>3. p \in BusOver(cells)
        BY <3>1, <3>2 DEF BusOver
      <3>4. [p EXCEPT !.svbk = x] \in BusOver(cells)
        BY <3>3 DEF BusOver
      <3>5. [p EXCEPT !.svbk = x].cells = cells
        BY <3>4 DEF BusOver
      <3> QED BY <3>4, <3>5 DEF p
    <2>3. StoredIsLoaded(start(cgb, x), a1, 90, y, a2)
      <3> HIDE DEF start
      <3> QED BY <2>1, <2>2, BytesAreKept
    <2> QED BY <2>1, <2>3, CellsApart, CellsTogether, WorkRamInside
  <1> QED BY <1>1, PTL

-----------------------------------------------------------------------------
\* A sweep keeps its operands.
SweepInv == topic = "sweep" => bench \in Sweeps

LEMMA SweepKept == Spec => []SweepInv
  <1>1. Init => SweepInv
    BY DEF Init, SweepInv
  <1>2. SweepInv /\ [Next]_vars => SweepInv'
    BY DEF SweepInv, Next, vars
  <1> QED BY <1>1, <1>2, PTL DEF Spec

\* What a sweep is over.
LEMMA SweptOperands == ASSUME SweepInv, topic = "sweep" PROVE bench.a \in Byte /\ bench.f \in Flags
  <1>1. bench \in [a : Byte, f : {NoFlags, CarryOnly}]
    BY DEF SweepInv, Sweeps
  <1>2. NoFlags \in Flags /\ CarryOnly \in Flags
    BY DEF NoFlags, CarryOnly, Flags
  <1> QED BY <1>1, <1>2

\* The instructions that say one thing twice, for all operands.
LEMMA SpelledOutExactly ==
  ASSUME NEW a \in Byte, NEW f \in Flags
  PROVE  SpelledOut(a, f)
  <1>1. ASSUME NEW v \in Byte
        PROVE  LET hl == 256 * v + a  n == 256 * a + v
                   s == AddSpSigned(n, a)  low == Add(v, a, f)
               IN /\ AddHl(hl, n, f) = AddedByBytes(hl, n, f)
                  /\ AddHl(n, n, f) = AddedByBytes(n, n, f)
                  /\ s.v % 256 = low.v /\ s.f.H = low.f.H /\ s.f.C = low.f.C
                  /\ (s.v - n) % 65536 = Signed(a) % 65536
    <2> DEFINE hl == 256 * v + a  n == 256 * a + v
    <2>1. hl \in Word /\ n \in Word /\ n % 256 = v
      BY DEF Word, Byte
    <2> HIDE DEF hl, n
    <2>2. AddHl(hl, n, f) = AddedByBytes(hl, n, f) /\ AddHl(n, n, f) = AddedByBytes(n, n, f)
      BY <2>1, WordsAddByBytes
    <2>3. LET s == AddSpSigned(n, a)  low == Add(n % 256, a, f)
          IN /\ s.v % 256 = low.v /\ s.f.H = low.f.H /\ s.f.C = low.f.C
             /\ (s.v - n) % 65536 = Signed(a) % 65536
      BY <2>1, OffsetsAddByBytes
    <2>4. LET s == AddSpSigned(n, a)  low == Add(v, a, f)
          IN /\ s.v % 256 = low.v /\ s.f.H = low.f.H /\ s.f.C = low.f.C
             /\ (s.v - n) % 65536 = Signed(a) % 65536
      BY <2>1, <2>3
    <2> QED BY <2>2, <2>4 DEF hl, n
  <1>2. /\ Inc8(a, f) = [Add(a, 1, f) EXCEPT !.f.C = f.C]
        /\ Dec8(a, f) = [Sub(a, 1, f) EXCEPT !.f.C = f.C]
    BY StepsByOne
  <1> QED BY <1>1, <1>2 DEF SpelledOut

\* The operations on two bytes, the shifts and the instructions that say one thing
\* twice are exact in every sweep (Cpu::alu, Cpu::rotate, Cpu::add_hl).
THEOREM ArithmeticIsSound == Spec => []ArithmeticExact
  <1>1. SweepInv => ArithmeticExact
    <2> SUFFICES ASSUME SweepInv, topic = "sweep"
                 PROVE  /\ BytesExact(bench.a, bench.f) /\ ShiftsExact(bench.a, bench.f)
                        /\ SpelledOut(bench.a, bench.f)
      BY DEF ArithmeticExact
    <2>1. bench.a \in Byte /\ bench.f \in Flags
      BY SweptOperands
    <2>2. BytesExact(bench.a, bench.f)
      BY <2>1, ArithmeticIsExact DEF BytesExact
    <2>3. ShiftsExact(bench.a, bench.f)
      BY <2>1, ShiftsAreExact DEF ShiftsExact
    <2> QED BY <2>1, <2>2, <2>3, SpelledOutExactly
  <1> QED BY <1>1, SweepKept, PTL

\* DAA computes in base ten in every sweep (Cpu::execute, 0x27).
THEOREM DecimalIsSound == Spec => []DecimalExact
  <1>1. SweepInv => DecimalExact
    <2> SUFFICES ASSUME SweepInv, topic = "sweep", bench.a < 100, NEW n \in 0 .. 99
                 PROVE  AddsInDecimal(bench.a, n, bench.f) /\ SubtractsInDecimal(bench.a, n, bench.f)
      BY DEF DecimalExact
    <2>1. bench.a \in Byte /\ bench.f \in Flags
      BY SweptOperands
    <2>2. bench.a \in 0 .. 99
      BY <2>1 DEF Byte
    <2> QED BY <2>1, <2>2, DecimalIsExact
  <1> QED BY <1>1, SweepKept, PTL

-----------------------------------------------------------------------------
(* Types of what the instructions compute. *)

Outcomes == [v : Byte, f : Flags]

\* The weights of the bits of a byte, and a bit, bits joined, or one bit changed.
LEMMA WeightIs ==
  /\ Weight(0) = 1 /\ Weight(1) = 2 /\ Weight(2) = 4 /\ Weight(3) = 8
  /\ Weight(4) = 16 /\ Weight(5) = 32 /\ Weight(6) = 64 /\ Weight(7) = 128
  BY DEF Weight

\* A bit is 0 or 1.
LEMMA BitIsBit ==
  ASSUME NEW v \in Byte, NEW i \in 0 .. 7
  PROVE  Bit(v, i) \in 0 .. 1 /\ Weight(i) \in 1 .. 128
  <1>1. \A w \in 1 .. 128 : v \div w \in Int /\ (v \div w) % 2 \in 0 .. 1
    BY DEF Byte
  <1>2. Weight(i) \in 1 .. 128
    BY WeightIs
  <1> QED BY <1>1, <1>2 DEF Bit

\* Eight bits make a byte.
LEMMA FromBitsIsByte == ASSUME NEW b \in [0 .. 7 -> 0 .. 1] PROVE FromBits(b) \in Byte
  BY DEF FromBits, Byte

\* A byte combined with another bit by bit is a byte.
LEMMA CombinedBytes ==
  ASSUME NEW a \in Byte, NEW v \in Byte
  PROVE  And(a, v) \in Byte /\ Or(a, v) \in Byte /\ Xor(a, v) \in Byte
  <1>1. \A i \in 0 .. 7 : Bit(a, i) \in 0 .. 1 /\ Bit(v, i) \in 0 .. 1
    BY BitIsBit
  <1>2. [i \in 0 .. 7 |-> Bit(a, i) * Bit(v, i)] \in [0 .. 7 -> 0 .. 1]
    <2>1. \A i \in 0 .. 7 : Bit(a, i) * Bit(v, i) \in 0 .. 1
      <3>1. \A x \in 0 .. 1, y \in 0 .. 1 : x * y \in 0 .. 1
        OBVIOUS
      <3> QED BY <1>1, <3>1
    <2> QED BY <2>1
  <1>3. [i \in 0 .. 7 |-> IF Bit(a, i) + Bit(v, i) > 0 THEN 1 ELSE 0] \in [0 .. 7 -> 0 .. 1]
    OBVIOUS
  <1>4. [i \in 0 .. 7 |-> (Bit(a, i) + Bit(v, i)) % 2] \in [0 .. 7 -> 0 .. 1]
    <2>1. \A i \in 0 .. 7 : (Bit(a, i) + Bit(v, i)) % 2 \in 0 .. 1
      BY <1>1
    <2> QED BY <2>1
  <1>5. And(a, v) \in Byte
    BY <1>2, FromBitsIsByte DEF And
  <1>6. Or(a, v) \in Byte
    BY <1>3, FromBitsIsByte DEF Or
  <1>7. Xor(a, v) \in Byte
    BY <1>4, FromBitsIsByte DEF Xor
  <1> QED BY <1>5, <1>6, <1>7

\* The bit of weight w of a byte is 0 or 1, and a byte with it reset or set is a byte.
LEMMA BitOfWeight ==
  ASSUME NEW v \in 0 .. 255
  PROVE  /\ LET b == (v \div 1) % 2 IN v - b * 1 \in 0 .. 255 /\ v + (1 - b) * 1 \in 0 .. 255
         /\ LET b == (v \div 2) % 2 IN v - b * 2 \in 0 .. 255 /\ v + (1 - b) * 2 \in 0 .. 255
         /\ LET b == (v \div 4) % 2 IN v - b * 4 \in 0 .. 255 /\ v + (1 - b) * 4 \in 0 .. 255
         /\ LET b == (v \div 8) % 2 IN v - b * 8 \in 0 .. 255 /\ v + (1 - b) * 8 \in 0 .. 255
         /\ LET b == (v \div 16) % 2 IN v - b * 16 \in 0 .. 255 /\ v + (1 - b) * 16 \in 0 .. 255
         /\ LET b == (v \div 32) % 2 IN v - b * 32 \in 0 .. 255 /\ v + (1 - b) * 32 \in 0 .. 255
         /\ LET b == (v \div 64) % 2 IN v - b * 64 \in 0 .. 255 /\ v + (1 - b) * 64 \in 0 .. 255
         /\ LET b == (v \div 128) % 2 IN v - b * 128 \in 0 .. 255 /\ v + (1 - b) * 128 \in 0 .. 255
  <1>1. LET b == (v \div 1) % 2 IN v - b * 1 \in 0 .. 255 /\ v + (1 - b) * 1 \in 0 .. 255
    <2> DEFINE h == v \div 1  k == h \div 2  b == h % 2
    <2>1. h \in Int /\ v - 1 * h \in 0 .. 0 /\ h \in 0 .. 255
      OBVIOUS
    <2> HIDE DEF h
    <2>2. k \in Int /\ h = 2 * k + b /\ b \in {0, 1} /\ k \in 0 .. 127
      BY <2>1
    <2> HIDE DEF k, b
    <2>3. v - b * 1 \in 0 .. 255 /\ v + (1 - b) * 1 \in 0 .. 255
      BY <2>1, <2>2
    <2> QED BY <2>3 DEF b, h
  <1>2. LET b == (v \div 2) % 2 IN v - b * 2 \in 0 .. 255 /\ v + (1 - b) * 2 \in 0 .. 255
    <2> DEFINE h == v \div 2  k == h \div 2  b == h % 2
    <2>1. h \in Int /\ v - 2 * h \in 0 .. 1 /\ h \in 0 .. 127
      OBVIOUS
    <2> HIDE DEF h
    <2>2. k \in Int /\ h = 2 * k + b /\ b \in {0, 1} /\ k \in 0 .. 63
      BY <2>1
    <2> HIDE DEF k, b
    <2>3. v - b * 2 \in 0 .. 255 /\ v + (1 - b) * 2 \in 0 .. 255
      BY <2>1, <2>2
    <2> QED BY <2>3 DEF b, h
  <1>3. LET b == (v \div 4) % 2 IN v - b * 4 \in 0 .. 255 /\ v + (1 - b) * 4 \in 0 .. 255
    <2> DEFINE h == v \div 4  k == h \div 2  b == h % 2
    <2>1. h \in Int /\ v - 4 * h \in 0 .. 3 /\ h \in 0 .. 63
      OBVIOUS
    <2> HIDE DEF h
    <2>2. k \in Int /\ h = 2 * k + b /\ b \in {0, 1} /\ k \in 0 .. 31
      BY <2>1
    <2> HIDE DEF k, b
    <2>3. v - b * 4 \in 0 .. 255 /\ v + (1 - b) * 4 \in 0 .. 255
      BY <2>1, <2>2
    <2> QED BY <2>3 DEF b, h
  <1>4. LET b == (v \div 8) % 2 IN v - b * 8 \in 0 .. 255 /\ v + (1 - b) * 8 \in 0 .. 255
    <2> DEFINE h == v \div 8  k == h \div 2  b == h % 2
    <2>1. h \in Int /\ v - 8 * h \in 0 .. 7 /\ h \in 0 .. 31
      OBVIOUS
    <2> HIDE DEF h
    <2>2. k \in Int /\ h = 2 * k + b /\ b \in {0, 1} /\ k \in 0 .. 15
      BY <2>1
    <2> HIDE DEF k, b
    <2>3. v - b * 8 \in 0 .. 255 /\ v + (1 - b) * 8 \in 0 .. 255
      BY <2>1, <2>2
    <2> QED BY <2>3 DEF b, h
  <1>5. LET b == (v \div 16) % 2 IN v - b * 16 \in 0 .. 255 /\ v + (1 - b) * 16 \in 0 .. 255
    <2> DEFINE h == v \div 16  k == h \div 2  b == h % 2
    <2>1. h \in Int /\ v - 16 * h \in 0 .. 15 /\ h \in 0 .. 15
      OBVIOUS
    <2> HIDE DEF h
    <2>2. k \in Int /\ h = 2 * k + b /\ b \in {0, 1} /\ k \in 0 .. 7
      BY <2>1
    <2> HIDE DEF k, b
    <2>3. v - b * 16 \in 0 .. 255 /\ v + (1 - b) * 16 \in 0 .. 255
      BY <2>1, <2>2
    <2> QED BY <2>3 DEF b, h
  <1>6. LET b == (v \div 32) % 2 IN v - b * 32 \in 0 .. 255 /\ v + (1 - b) * 32 \in 0 .. 255
    <2> DEFINE h == v \div 32  k == h \div 2  b == h % 2
    <2>1. h \in Int /\ v - 32 * h \in 0 .. 31 /\ h \in 0 .. 7
      OBVIOUS
    <2> HIDE DEF h
    <2>2. k \in Int /\ h = 2 * k + b /\ b \in {0, 1} /\ k \in 0 .. 3
      BY <2>1
    <2> HIDE DEF k, b
    <2>3. v - b * 32 \in 0 .. 255 /\ v + (1 - b) * 32 \in 0 .. 255
      BY <2>1, <2>2
    <2> QED BY <2>3 DEF b, h
  <1>7. LET b == (v \div 64) % 2 IN v - b * 64 \in 0 .. 255 /\ v + (1 - b) * 64 \in 0 .. 255
    <2> DEFINE h == v \div 64  k == h \div 2  b == h % 2
    <2>1. h \in Int /\ v - 64 * h \in 0 .. 63 /\ h \in 0 .. 3
      OBVIOUS
    <2> HIDE DEF h
    <2>2. k \in Int /\ h = 2 * k + b /\ b \in {0, 1} /\ k \in 0 .. 1
      BY <2>1
    <2> HIDE DEF k, b
    <2>3. v - b * 64 \in 0 .. 255 /\ v + (1 - b) * 64 \in 0 .. 255
      BY <2>1, <2>2
    <2> QED BY <2>3 DEF b, h
  <1>8. LET b == (v \div 128) % 2 IN v - b * 128 \in 0 .. 255 /\ v + (1 - b) * 128 \in 0 .. 255
    <2> DEFINE h == v \div 128  k == h \div 2  b == h % 2
    <2>1. h \in Int /\ v - 128 * h \in 0 .. 127 /\ h \in 0 .. 1
      OBVIOUS
    <2> HIDE DEF h
    <2>2. k \in Int /\ h = 2 * k + b /\ b \in {0, 1} /\ k \in 0 .. 0
      BY <2>1
    <2> HIDE DEF k, b
    <2>3. v - b * 128 \in 0 .. 255 /\ v + (1 - b) * 128 \in 0 .. 255
      BY <2>1, <2>2
    <2> QED BY <2>3 DEF b, h
  <1> QED BY <1>1, <1>2, <1>3, <1>4, <1>5, <1>6, <1>7, <1>8

\* RES and SET leave a byte.
LEMMA OneBit ==
  ASSUME NEW v \in Byte, NEW i \in 0 .. 7
  PROVE  v - Bit(v, i) * Weight(i) \in Byte /\ v + (1 - Bit(v, i)) * Weight(i) \in Byte
  <1>1. v \in 0 .. 255
    BY DEF Byte
  <1>2. CASE i = 0
    <2> DEFINE b == (v \div 1) % 2
    <2>1. Weight(i) = 1 /\ Bit(v, i) = b
      BY <1>2, WeightIs DEF Bit
    <2>2. v - b * 1 \in 0 .. 255 /\ v + (1 - b) * 1 \in 0 .. 255
      BY <1>1, BitOfWeight
    <2> HIDE DEF b
    <2> QED BY <2>1, <2>2 DEF Byte
  <1>3. CASE i = 1
    <2> DEFINE b == (v \div 2) % 2
    <2>1. Weight(i) = 2 /\ Bit(v, i) = b
      BY <1>3, WeightIs DEF Bit
    <2>2. v - b * 2 \in 0 .. 255 /\ v + (1 - b) * 2 \in 0 .. 255
      BY <1>1, BitOfWeight
    <2> HIDE DEF b
    <2> QED BY <2>1, <2>2 DEF Byte
  <1>4. CASE i = 2
    <2> DEFINE b == (v \div 4) % 2
    <2>1. Weight(i) = 4 /\ Bit(v, i) = b
      BY <1>4, WeightIs DEF Bit
    <2>2. v - b * 4 \in 0 .. 255 /\ v + (1 - b) * 4 \in 0 .. 255
      BY <1>1, BitOfWeight
    <2> HIDE DEF b
    <2> QED BY <2>1, <2>2 DEF Byte
  <1>5. CASE i = 3
    <2> DEFINE b == (v \div 8) % 2
    <2>1. Weight(i) = 8 /\ Bit(v, i) = b
      BY <1>5, WeightIs DEF Bit
    <2>2. v - b * 8 \in 0 .. 255 /\ v + (1 - b) * 8 \in 0 .. 255
      BY <1>1, BitOfWeight
    <2> HIDE DEF b
    <2> QED BY <2>1, <2>2 DEF Byte
  <1>6. CASE i = 4
    <2> DEFINE b == (v \div 16) % 2
    <2>1. Weight(i) = 16 /\ Bit(v, i) = b
      BY <1>6, WeightIs DEF Bit
    <2>2. v - b * 16 \in 0 .. 255 /\ v + (1 - b) * 16 \in 0 .. 255
      BY <1>1, BitOfWeight
    <2> HIDE DEF b
    <2> QED BY <2>1, <2>2 DEF Byte
  <1>7. CASE i = 5
    <2> DEFINE b == (v \div 32) % 2
    <2>1. Weight(i) = 32 /\ Bit(v, i) = b
      BY <1>7, WeightIs DEF Bit
    <2>2. v - b * 32 \in 0 .. 255 /\ v + (1 - b) * 32 \in 0 .. 255
      BY <1>1, BitOfWeight
    <2> HIDE DEF b
    <2> QED BY <2>1, <2>2 DEF Byte
  <1>8. CASE i = 6
    <2> DEFINE b == (v \div 64) % 2
    <2>1. Weight(i) = 64 /\ Bit(v, i) = b
      BY <1>8, WeightIs DEF Bit
    <2>2. v - b * 64 \in 0 .. 255 /\ v + (1 - b) * 64 \in 0 .. 255
      BY <1>1, BitOfWeight
    <2> HIDE DEF b
    <2> QED BY <2>1, <2>2 DEF Byte
  <1>9. CASE i = 7
    <2> DEFINE b == (v \div 128) % 2
    <2>1. Weight(i) = 128 /\ Bit(v, i) = b
      BY <1>9, WeightIs DEF Bit
    <2>2. v - b * 128 \in 0 .. 255 /\ v + (1 - b) * 128 \in 0 .. 255
      BY <1>1, BitOfWeight
    <2> HIDE DEF b
    <2> QED BY <2>1, <2>2 DEF Byte
  <1> QED BY <1>2, <1>3, <1>4, <1>5, <1>6, <1>7, <1>8, <1>9

\* An outcome from its parts.
LEMMA OutTyped ==
  ASSUME NEW S, NEW v \in S, NEW z \in BOOLEAN, NEW n \in BOOLEAN, NEW h \in BOOLEAN, NEW c \in BOOLEAN
  PROVE  Out(v, z, n, h, c) \in [v : S, f : Flags]
  BY DEF Out, Flags

\* The widths.
LEMMA U8IsByte == ASSUME NEW n \in Int PROVE U8(n) \in Byte
  BY DEF U8, Byte
\* A number cut to 16 bits.
LEMMA U16IsWord == ASSUME NEW n \in Int PROVE U16(n) \in Word
  BY DEF U16, Word

\* The four flags.
LEMMA FlagFields == ASSUME NEW f \in Flags PROVE f.Z \in BOOLEAN /\ f.N \in BOOLEAN /\ f.H \in BOOLEAN /\ f.C \in BOOLEAN
  BY DEF Flags

\* The arithmetic on one or two bytes gives a byte and flags.
LEMMA BytesTyped ==
  ASSUME NEW a \in Byte, NEW v \in Byte, NEW f \in Flags
  PROVE  /\ Add(a, v, f) \in Outcomes /\ Adc(a, v, f) \in Outcomes
         /\ Sub(a, v, f) \in Outcomes /\ Sbc(a, v, f) \in Outcomes
         /\ Compare(a, v, f) \in Outcomes
         /\ Inc8(a, f) \in Outcomes /\ Dec8(a, f) \in Outcomes /\ Daa(a, f) \in Outcomes
  <1>1. \A c \in {0, 1} : a + v + c \in Int /\ a - v - c \in Int /\ a + 1 \in Int /\ a - 1 \in Int
    BY DEF Byte
  <1>2. \A c \in {0, 1} : AddWith(a, v, c) \in Outcomes /\ SubWith(a, v, c) \in Outcomes
    <2> TAKE c \in {0, 1}
    <2>1. U8(a + v + c) \in Byte /\ U8(a - v - c) \in Byte
      BY <1>1, U8IsByte
    <2> QED BY <2>1 DEF AddWith, SubWith, Out, Flags, Outcomes
  <1>3. Carry(f) \in {0, 1}
    BY CarryIsBit
  <1>4. SubWith(a, v, 0) \in Outcomes
    BY <1>2
  <1>5. Compare(a, v, f) \in Outcomes
    BY <1>4 DEF Compare, Outcomes
  <1>6. Inc8(a, f) \in Outcomes /\ Dec8(a, f) \in Outcomes
    <2>1. U8(a + 1) \in Byte /\ U8(a - 1) \in Byte
      BY <1>1, U8IsByte
    <2>2. f.C \in BOOLEAN
      BY FlagFields
    <2> QED BY <2>1, <2>2 DEF Inc8, Dec8, Out, Flags, Outcomes
  <1>7. Daa(a, f) \in Outcomes
    <2>1. Correction(a, f) \in Int
      BY DEF Correction
    <2> DEFINE r == IF f.N THEN U8(a - Correction(a, f)) ELSE U8(a + Correction(a, f))
    <2>2. a - Correction(a, f) \in Int /\ a + Correction(a, f) \in Int
      BY <2>1 DEF Byte
    <2>3. r \in Byte
      BY <2>2, U8IsByte
    <2>4. f.N \in BOOLEAN /\ TensOff(a, f) \in BOOLEAN
      BY FlagFields DEF TensOff
    <2> HIDE DEF r
    <2>5. Out(r, r = 0, f.N, FALSE, TensOff(a, f)) \in Outcomes
      BY <2>3, <2>4, OutTyped DEF Outcomes
    <2> QED BY <2>5 DEF Daa, r
  <1> QED BY <1>2, <1>3, <1>5, <1>6, <1>7 DEF Add, Adc, Sub, Sbc

\* Every rotation and shift gives a byte and flags (Cpu::rotate).
LEMMA RotateTyped ==
  ASSUME NEW op \in 0 .. 7, NEW v \in Byte, NEW f \in Flags, NEW cb \in BOOLEAN
  PROVE  Rotate(op, v, f, cb) \in Outcomes
  <1> DEFINE c == Carry(f)  r == Rotated(op, v, c)
  <1>1. c \in {0, 1}
    BY CarryIsBit
  <1> HIDE DEF c
  <1>2. r \in Byte
    <2>1. CASE op = 0 BY <2>1, <1>1 DEF Rotated, Byte, U8, Bit7, Bit0
    <2>2. CASE op = 1 BY <2>2, <1>1 DEF Rotated, Byte, U8, Bit7, Bit0
    <2>3. CASE op = 2 BY <2>3, <1>1 DEF Rotated, Byte, U8, Bit7, Bit0
    <2>4. CASE op = 3 BY <2>4, <1>1 DEF Rotated, Byte, U8, Bit7, Bit0
    <2>5. CASE op = 4 BY <2>5, <1>1 DEF Rotated, Byte, U8, Bit7, Bit0
    <2>6. CASE op = 5 BY <2>6, <1>1 DEF Rotated, Byte, U8, Bit7, Bit0
    <2>7. CASE op = 6
      <3>1. ((16 * v) % 256) + v \div 16 \in 0 .. 255
        <4>1. (16 * v) % 256 = 16 * (v % 16)
          BY DEF Byte
        <4> QED BY <4>1 DEF Byte
      <3> QED BY <2>7, <3>1 DEF Rotated, Byte, U8, Bit7, Bit0
    <2>8. CASE op = 7 BY <2>8, <1>1 DEF Rotated, Byte, U8, Bit7, Bit0
    <2> QED BY <2>1, <2>2, <2>3, <2>4, <2>5, <2>6, <2>7, <2>8
  <1> HIDE DEF r
  <1>3. Out(r, cb /\ r = 0, FALSE, FALSE, ShiftedOut(op, v) = 1) \in Outcomes
    BY <1>2, OutTyped DEF Outcomes
  <1> QED BY <1>3 DEF Rotate, r, c

\* So does every operation on the accumulator (Cpu::alu).
LEMMA AluTyped ==
  ASSUME NEW op \in 0 .. 7, NEW a \in Byte, NEW v \in Byte, NEW f \in Flags
  PROVE  AluResult(op, a, v, f) \in Outcomes
  <1>1. /\ Add(a, v, f) \in Outcomes /\ Adc(a, v, f) \in Outcomes
        /\ Sub(a, v, f) \in Outcomes /\ Sbc(a, v, f) \in Outcomes
        /\ Compare(a, v, f) \in Outcomes
    BY BytesTyped
  <1>2. And(a, v) \in Byte /\ Or(a, v) \in Byte /\ Xor(a, v) \in Byte
    BY CombinedBytes
  <1>3. /\ Out(And(a, v), And(a, v) = 0, FALSE, TRUE, FALSE) \in Outcomes
        /\ Out(Xor(a, v), Xor(a, v) = 0, FALSE, FALSE, FALSE) \in Outcomes
        /\ Out(Or(a, v), Or(a, v) = 0, FALSE, FALSE, FALSE) \in Outcomes
    BY <1>2, OutTyped DEF Outcomes
  <1>4. op = 0 \/ op = 1 \/ op = 2 \/ op = 3 \/ op = 4 \/ op = 5 \/ op = 6 \/ op = 7
    OBVIOUS
  <1> QED BY <1>1, <1>3, <1>4 DEF AluResult

\* The 16-bit additions (Cpu::add_hl, Cpu::add_sp_signed).
LEMMA WordsTyped ==
  ASSUME NEW w \in Word, NEW v \in Word, NEW e \in Byte, NEW f \in Flags
  PROVE  /\ AddHl(w, v, f) \in [v : Word, f : Flags]
         /\ AddSpSigned(w, e) \in [v : Word, f : Flags]
  <1>1. w + v \in Int /\ w + Signed(e) \in Int
    BY DEF Word, Byte, Signed
  <1>2. U16(w + v) \in Word /\ U16(w + Signed(e)) \in Word
    BY <1>1, U16IsWord
  <1>3. f.Z \in BOOLEAN
    BY FlagFields
  <1> QED BY <1>2, <1>3 DEF AddHl, AddSpSigned, Out, Flags

\* F read as flags.
LEMMA FlagsOfTyped == ASSUME NEW v PROVE FlagsOf(v) \in Flags
  BY DEF FlagsOf, Flags

-----------------------------------------------------------------------------
(* Types of what the bus keeps. *)

\* The fields of the bus.
LEMMA BusParts ==
  ASSUME NEW b, IsBus(b)
  PROVE  /\ b.cgb \in BOOLEAN /\ b.svbk \in 0 .. 7 /\ b.key1 \in 0 .. 1 /\ b.double \in BOOLEAN
         /\ b.ie \in 0 .. 255 /\ b.iflag \in 0 .. 31 /\ b.serial \in Sent
         /\ IsMemory(b.cells)
  BY DEF IsBus, BusOver

\* A bus over memories that hold bytes.
LEMMA IsBusOver == ASSUME NEW c, IsMemory(c), NEW b \in BusOver(c) PROVE IsBus(b)
  <1>1. b.cells = c
    BY DEF BusOver
  <1> QED BY <1>1 DEF IsBus

\* A cell holds a byte.
LEMMA HoldsByte == ASSUME NEW b, IsMemory(b.cells), NEW cell PROVE Holds(b, cell) \in 0 .. 255
  BY DEF IsMemory, Holds

\* Every load gives a byte, wherever it goes (Bus::dispatch_read).
LEMMA LoadFromTyped == ASSUME NEW b, IsBus(b), NEW cell PROVE LoadFrom(b, cell) \in Byte
  <1>p. /\ b.svbk \in 0 .. 7 /\ b.key1 \in 0 .. 1 /\ b.ie \in 0 .. 255 /\ b.iflag \in 0 .. 31
    BY BusParts
  <1>1. /\ 224 + b.iflag \in Byte /\ b.ie \in Byte /\ b.svbk \in Byte
        /\ 126 + (IF b.double THEN 128 ELSE 0) + b.key1 \in Byte
    BY <1>p DEF Byte
  <1>2. Holds(b, cell) \in Byte
    BY BusParts, HoldsByte DEF Byte
  <1>3. 255 \in Byte
    BY DEF Byte
  <1>4. \/ LoadFrom(b, cell) = 255
        \/ LoadFrom(b, cell) = 224 + b.iflag
        \/ LoadFrom(b, cell) = b.ie
        \/ LoadFrom(b, cell) = b.svbk
        \/ LoadFrom(b, cell) = 126 + (IF b.double THEN 128 ELSE 0) + b.key1
        \/ LoadFrom(b, cell) = Holds(b, cell)
    BY DEF LoadFrom
  <1> QED BY <1>1, <1>2, <1>3, <1>4

\* A load gives a byte at every address (Bus::dispatch_read).
LEMMA LoadTyped == ASSUME NEW b, IsBus(b), NEW a PROVE Load(b, a) \in Byte
  BY LoadFromTyped DEF Load

\* Memories with one more byte stored.
LEMMA WithTyped ==
  ASSUME NEW cells, IsMemory(cells), NEW cell, NEW v \in 0 .. 255
  PROVE  IsMemory(With(cells, cell, v))
  <1> DEFINE D == DOMAIN cells \cup {cell}
             g == [c \in D |-> IF c = cell THEN v ELSE cells[c]]
  <1>1. \A c \in D : g[c] \in 0 .. 255
    BY DEF IsMemory
  <1>2. DOMAIN g = D /\ g = [c \in D |-> g[c]]
    OBVIOUS
  <1> QED BY <1>1, <1>2 DEF IsMemory, With

\* What the bus keeps besides the memories, with one of its parts replaced.
LEMMA BusWith ==
  ASSUME NEW b, IsBus(b), NEW cells, IsMemory(cells), NEW v \in 0 .. 255
  PROVE  /\ IsBus([b EXCEPT !.cells = cells])
         /\ IsBus([b EXCEPT !.iflag = v % 32])
         /\ IsBus([b EXCEPT !.ie = v])
         /\ IsBus([b EXCEPT !.svbk = v % 8])
         /\ IsBus([b EXCEPT !.key1 = v % 2])
  <1>1. v % 32 \in 0 .. 31 /\ v % 8 \in 0 .. 7 /\ v % 2 \in 0 .. 1
    OBVIOUS
  <1> DEFINE c == b.cells
  <1>2. b \in BusOver(c) /\ IsMemory(c)
    BY DEF IsBus
  <1> HIDE DEF c
  <1> DEFINE i == v % 32  n == v % 8  k == v % 2
  <1>3. i \in 0 .. 31 /\ n \in 0 .. 7 /\ k \in 0 .. 1
    BY <1>1
  <1> HIDE DEF i, n, k
  <1>4. IsBus([b EXCEPT !.cells = cells])
    <2>1. [b EXCEPT !.cells = cells] \in BusOver(cells)
      BY <1>2 DEF BusOver
    <2> QED BY <2>1, IsBusOver
  <1>5. IsBus([b EXCEPT !.iflag = i])
    <2>1. [b EXCEPT !.iflag = i] \in BusOver(c)
      BY <1>2, <1>3 DEF BusOver
    <2> QED BY <1>2, <2>1, IsBusOver
  <1>6. IsBus([b EXCEPT !.ie = v])
    <2>1. [b EXCEPT !.ie = v] \in BusOver(c)
      BY <1>2 DEF BusOver
    <2> QED BY <1>2, <2>1, IsBusOver
  <1>7. IsBus([b EXCEPT !.svbk = n])
    <2>1. [b EXCEPT !.svbk = n] \in BusOver(c)
      BY <1>2, <1>3 DEF BusOver
    <2> QED BY <1>2, <2>1, IsBusOver
  <1>8. IsBus([b EXCEPT !.key1 = k])
    <2>1. [b EXCEPT !.key1 = k] \in BusOver(c)
      BY <1>2, <1>3 DEF BusOver
    <2> QED BY <1>2, <2>1, IsBusOver
  <1> QED BY <1>4, <1>5, <1>6, <1>7, <1>8 DEF i, n, k

\* Raising a line that is not up yet adds its weight once.
LEMMA RequestTyped == ASSUME NEW i \in 0 .. 31 PROVE WithRequest(i, 8) \in 0 .. 31
  <1>1. i \div 8 \in 0 .. 3 /\ i - 8 * (i \div 8) \in 0 .. 7
    OBVIOUS
  <1>2. CASE (i \div 8) % 2 = 1
    BY <1>2 DEF WithRequest
  <1>3. CASE (i \div 8) % 2 # 1
    <2>1. i \div 8 \in {0, 2}
      BY <1>1, <1>3
    <2>2. i + 8 \in 0 .. 31
      BY <1>1, <2>1
    <2> QED BY <1>3, <2>2 DEF WithRequest
  <1> QED BY <1>2, <1>3

\* A byte sent through the serial port.
LEMMA TransferTyped == ASSUME NEW b, IsBus(b), NEW v \in Byte PROVE IsBus(Transfer(b, v))
  <1>1. CASE v < 128
    <2>1. v \in 0 .. 255
      BY DEF Byte
    <2>2. IsMemory(With(b.cells, <<"io", 2>>, v))
      <3>1. IsMemory(b.cells)
        BY BusParts, Zenon
      <3> QED BY <2>1, <3>1, WithTyped, Zenon
    <2>3. IsBus([b EXCEPT !.cells = With(b.cells, <<"io", 2>>, v)])
      BY <2>1, <2>2, BusWith, Zenon
    <2> QED BY <1>1, <2>3 DEF Transfer
  <1>2. CASE ~(v < 128)
    <2> DEFINE cells == With(b.cells, <<"io", 2>>, v - 128)
               sent == Append(b.serial, Holds(b, <<"io", 1>>))
               i == WithRequest(b.iflag, 8)
    <2>1. v - 128 \in 0 .. 255
      BY <1>2 DEF Byte
    <2>2. IsMemory(cells)
      <3>1. IsMemory(b.cells)
        BY BusParts, Zenon
      <3> QED BY <2>1, <3>1, WithTyped, Zenon
    <2>3. sent \in Sent
      <3>1. Holds(b, <<"io", 1>>) \in 0 .. 255
        BY BusParts, HoldsByte
      <3>2. b.serial \in Seq(0 .. 255)
        BY BusParts, Zenon DEF Sent
      <3> QED BY <3>1, <3>2 DEF Sent
    <2>4. i \in 0 .. 31
      BY BusParts, RequestTyped
    <2> DEFINE c == b.cells
    <2>c. b \in BusOver(c)
      BY DEF IsBus
    <2> HIDE DEF cells, sent, i, c
    <2> DEFINE b1 == [b EXCEPT !.cells = cells]
               b2 == [b1 EXCEPT !.serial = sent]
    <2>d. b1 \in BusOver(cells)
      BY <2>c DEF BusOver
    <2> HIDE DEF b1
    <2>e. b2 \in BusOver(cells)
      BY <2>3, <2>d DEF BusOver
    <2> HIDE DEF b2
    <2>f. [b2 EXCEPT !.iflag = i] \in BusOver(cells)
      BY <2>4, <2>e DEF BusOver
    <2>g. [b EXCEPT !.cells = cells, !.serial = sent, !.iflag = i] = [b2 EXCEPT !.iflag = i]
      BY DEF b1, b2
    <2>h. [b EXCEPT !.cells = cells, !.serial = sent, !.iflag = i] \in BusOver(cells)
      BY <2>f, <2>g
    <2>5. IsBus([b EXCEPT !.cells = cells, !.serial = sent, !.iflag = i])
      BY <2>2, <2>h, IsBusOver
    <2> QED BY <1>2, <2>5 DEF Transfer, cells, sent, i
  <1> QED BY <1>1, <1>2

\* A store leaves the bus what it was, wherever it goes (Bus::dispatch_write).
LEMMA StoreToTyped ==
  ASSUME NEW b, IsBus(b), NEW cell, NEW v \in Byte
  PROVE  IsBus(StoreTo(b, cell, v))
  <1>1. v \in 0 .. 255
    BY DEF Byte
  <1>2. IsMemory(b.cells)
    BY BusParts
  <1>3. IsMemory(With(b.cells, cell, v))
    BY <1>1, <1>2, WithTyped
  <1>4. /\ IsBus([b EXCEPT !.cells = With(b.cells, cell, v)])
        /\ IsBus([b EXCEPT !.iflag = v % 32])
        /\ IsBus([b EXCEPT !.ie = v])
        /\ IsBus([b EXCEPT !.svbk = v % 8])
        /\ IsBus([b EXCEPT !.key1 = v % 2])
    BY <1>1, <1>3, BusWith, Zenon
  <1>5. IsBus(Transfer(b, v))
    BY TransferTyped
  <1> DEFINE n == cell[1]
  <1>6. \/ n \in {"rom", "unusable", "extram"} /\ StoreTo(b, cell, v) = b
        \/ n = "if" /\ StoreTo(b, cell, v) = [b EXCEPT !.iflag = v % 32]
        \/ n = "ie" /\ StoreTo(b, cell, v) = [b EXCEPT !.ie = v]
        \/ n = "svbk" /\ StoreTo(b, cell, v) = [b EXCEPT !.svbk = v % 8]
        \/ n = "key1" /\ StoreTo(b, cell, v) = [b EXCEPT !.key1 = v % 2]
        \/ n = "serial" /\ StoreTo(b, cell, v) = Transfer(b, v)
        \/ StoreTo(b, cell, v) = [b EXCEPT !.cells = With(b.cells, cell, v)]
    BY DEF StoreTo
  <1> QED BY <1>4, <1>5, <1>6

\* A store leaves a bus at every address (Bus::dispatch_write).
LEMMA StoreTyped == ASSUME NEW b, IsBus(b), NEW a, NEW v \in Byte PROVE IsBus(Store(b, a, v))
  BY StoreToTyped DEF Store

\* So does the speed switch.
LEMMA SwitchTyped == ASSUME NEW b, IsBus(b) PROVE IsBus(SpeedSwitched(b))
  <1> DEFINE d == ~b.double
  <1>1. d \in BOOLEAN
    OBVIOUS
  <1> DEFINE c == b.cells
  <1>2. b \in BusOver(c) /\ IsMemory(c)
    BY DEF IsBus
  <1> HIDE DEF d, c
  <1> DEFINE b1 == [b EXCEPT !.key1 = 0]
  <1>a. b1 \in BusOver(c)
    BY <1>2 DEF BusOver
  <1> HIDE DEF b1
  <1>b. [b1 EXCEPT !.double = d] \in BusOver(c)
    BY <1>1, <1>a DEF BusOver
  <1>3. [b EXCEPT !.key1 = 0, !.double = d] \in BusOver(c)
    BY <1>b DEF b1
  <1>4. IsBus([b EXCEPT !.key1 = 0, !.double = d])
    BY <1>2, <1>3, IsBusOver
  <1> QED BY <1>4 DEF SpeedSwitched, d

\* The bus of a machine switched on with a ROM in it.
LEMMA PowerOnBusTyped ==
  ASSUME NEW cgb \in BOOLEAN, NEW rom \in Roms
  PROVE  IsBus(PowerOnBus(cgb, rom))
  <1>1. IsMemory(rom)
    <2>1. PICK cells \in SUBSET RomCells : rom \in [cells -> Byte]
      BY DEF Roms
    <2> QED BY <2>1 DEF IsMemory, Byte
  <1> DEFINE cells == With(rom, <<"io", 2>>, 126)
  <1>2. IsMemory(cells)
    BY <1>1, WithTyped
  <1> HIDE DEF cells
  <1> DEFINE sent == <<>>  no == FALSE
  <1>3. sent \in Sent /\ no \in BOOLEAN
    BY DEF Sent
  <1> HIDE DEF sent, no
  <1>4. [cgb |-> cgb, svbk |-> 1, key1 |-> 0, double |-> no, ie |-> 0, iflag |-> 1,
         serial |-> sent, cells |-> cells] \in BusOver(cells)
    BY <1>3 DEF BusOver
  <1> QED BY <1>2, <1>4, IsBusOver DEF PowerOnBus, cells, sent, no

-----------------------------------------------------------------------------
(* Types of the machine under an instruction. *)

IsState(s) ==
  /\ s = [r |-> s.r, b |-> s.b] /\ s.r \in Registers /\ IsBus(s.b)

\* A state with other registers, or another bus.
LEMMA StateWithR ==
  ASSUME NEW s, IsState(s), NEW r \in Registers
  PROVE  IsState([s EXCEPT !.r = r]) /\ [s EXCEPT !.r = r].r = r /\ [s EXCEPT !.r = r].b = s.b
  BY DEF IsState

\* The same for the bus.
LEMMA StateWithB ==
  ASSUME NEW s, IsState(s), NEW b, IsBus(b)
  PROVE  IsState([s EXCEPT !.b = b]) /\ [s EXCEPT !.b = b].b = b /\ [s EXCEPT !.b = b].r = s.r
  BY DEF IsState

\* The fields of the registers.
LEMMA RegisterParts ==
  ASSUME NEW r \in Registers
  PROVE  /\ r.a \in Byte /\ r.b \in Byte /\ r.c \in Byte /\ r.d \in Byte /\ r.e \in Byte
         /\ r.h \in Byte /\ r.l \in Byte /\ r.f \in Flags /\ r.sp \in Word /\ r.pc \in Word
  BY DEF Registers

\* Registers with one of them changed.
LEMMA RegistersWith ==
  ASSUME NEW r \in Registers, NEW v \in Byte, NEW w \in Word, NEW f \in Flags
  PROVE  /\ [r EXCEPT !.a = v] \in Registers /\ [r EXCEPT !.b = v] \in Registers
         /\ [r EXCEPT !.c = v] \in Registers /\ [r EXCEPT !.d = v] \in Registers
         /\ [r EXCEPT !.e = v] \in Registers /\ [r EXCEPT !.h = v] \in Registers
         /\ [r EXCEPT !.l = v] \in Registers /\ [r EXCEPT !.f = f] \in Registers
         /\ [r EXCEPT !.sp = w] \in Registers /\ [r EXCEPT !.pc = w] \in Registers
  <1>1. [r EXCEPT !.a = v] \in Registers BY DEF Registers
  <1>2. [r EXCEPT !.b = v] \in Registers BY DEF Registers
  <1>3. [r EXCEPT !.c = v] \in Registers BY DEF Registers
  <1>4. [r EXCEPT !.d = v] \in Registers BY DEF Registers
  <1>5. [r EXCEPT !.e = v] \in Registers BY DEF Registers
  <1>6. [r EXCEPT !.h = v] \in Registers BY DEF Registers
  <1>7. [r EXCEPT !.l = v] \in Registers BY DEF Registers
  <1>8. [r EXCEPT !.f = f] \in Registers BY DEF Registers
  <1>9. [r EXCEPT !.sp = w] \in Registers BY DEF Registers
  <1>10. [r EXCEPT !.pc = w] \in Registers BY DEF Registers
  <1> QED BY <1>1, <1>2, <1>3, <1>4, <1>5, <1>6, <1>7, <1>8, <1>9, <1>10

\* The program counter is not one of the registers an instruction names.
LEMMA PcKept ==
  ASSUME NEW r \in Registers, NEW v, NEW w
  PROVE  /\ [r EXCEPT !.a = v].pc = r.pc /\ [r EXCEPT !.b = v].pc = r.pc
         /\ [r EXCEPT !.c = v].pc = r.pc /\ [r EXCEPT !.d = v].pc = r.pc
         /\ [r EXCEPT !.e = v].pc = r.pc /\ [r EXCEPT !.h = v].pc = r.pc
         /\ [r EXCEPT !.l = v].pc = r.pc /\ [r EXCEPT !.f = v].pc = r.pc
         /\ [r EXCEPT !.sp = v].pc = r.pc /\ [r EXCEPT !.pc = w].pc = w
  BY DEF Registers

\* The names of the 8-bit registers.
LEMMA R8Is ==
  /\ R8[1] = "b" /\ R8[2] = "c" /\ R8[3] = "d" /\ R8[4] = "e"
  /\ R8[5] = "h" /\ R8[6] = "l" /\ R8[8] = "a"
  BY DEF R8

\* The register an opcode numbers, by its name.
LEMMA NamedRegister ==
  ASSUME NEW i \in 0 .. 7, i # 6
  PROVE  R8[i + 1] \in {"a", "b", "c", "d", "e", "h", "l"}
  <1>1. i = 0 \/ i = 1 \/ i = 2 \/ i = 3 \/ i = 4 \/ i = 5 \/ i = 7
    OBVIOUS
  <1> QED BY <1>1, R8Is

\* A register changed by its name.
LEMMA RegistersWithNamed ==
  ASSUME NEW r \in Registers, NEW v \in Byte, NEW n \in {"a", "b", "c", "d", "e", "h", "l"}
  PROVE  [r EXCEPT ![n] = v] \in Registers /\ [r EXCEPT ![n] = v].pc = r.pc
  <1>2. CASE n = "a" BY <1>2 DEF Registers
  <1>3. CASE n = "b" BY <1>3 DEF Registers
  <1>4. CASE n = "c" BY <1>4 DEF Registers
  <1>5. CASE n = "d" BY <1>5 DEF Registers
  <1>6. CASE n = "e" BY <1>6 DEF Registers
  <1>7. CASE n = "h" BY <1>7 DEF Registers
  <1>8. CASE n = "l" BY <1>8 DEF Registers
  <1> QED BY <1>2, <1>3, <1>4, <1>5, <1>6, <1>7, <1>8

\* A register read by its name.
LEMMA NamedByte ==
  ASSUME NEW r \in Registers, NEW n \in {"a", "b", "c", "d", "e", "h", "l"}
  PROVE  r[n] \in Byte
  BY DEF Registers

\* Two bytes make a word, and a word two bytes.
LEMMA PairOfBytes == ASSUME NEW x \in Byte, NEW y \in Byte PROVE 256 * x + y \in Word
  BY DEF Byte, Word
\* The other way.
LEMMA BytesOfPair == ASSUME NEW w \in Word PROVE w \div 256 \in Byte /\ w % 256 \in Byte
  BY WordOfBytes DEF Byte

\* A register pair is a word (Cpu::read_rp).
LEMMA PairTyped ==
  ASSUME NEW r \in Registers, NEW i \in 0 .. 3
  PROVE  Rp(r, i) \in Word /\ HL(r) \in Word
  <1>1. 256 * r.b + r.c \in Word /\ 256 * r.d + r.e \in Word /\ 256 * r.h + r.l \in Word /\ r.sp \in Word
    BY RegisterParts, PairOfBytes
  <1>2. i = 0 \/ i = 1 \/ i = 2 \/ i = 3
    OBVIOUS
  <1> QED BY <1>1, <1>2 DEF Rp, HL

\* A pair takes a word, a byte in each half.
LEMMA WithPairTyped ==
  ASSUME NEW r \in Registers, NEW i \in 0 .. 3, NEW w \in Word
  PROVE  WithRp(r, i, w) \in Registers /\ WithRp(r, i, w).pc = r.pc
  <1> DEFINE x == w \div 256  y == w % 256
             b1 == [r EXCEPT !.b = x]  d1 == [r EXCEPT !.d = x]  h1 == [r EXCEPT !.h = x]
  <1>0. [Z |-> TRUE, N |-> TRUE, H |-> TRUE, C |-> TRUE] \in Flags
    BY DEF Flags
  <1>1. x \in Byte /\ y \in Byte
    BY BytesOfPair
  <1> HIDE DEF x, y
  <1>2. /\ b1 \in Registers /\ d1 \in Registers /\ h1 \in Registers /\ [r EXCEPT !.sp = w] \in Registers
        /\ b1.pc = r.pc /\ d1.pc = r.pc /\ h1.pc = r.pc /\ [r EXCEPT !.sp = w].pc = r.pc
    BY <1>0, <1>1, RegistersWith, PcKept
  <1> HIDE DEF b1, d1, h1
  <1>3. /\ [b1 EXCEPT !.c = y] \in Registers /\ [d1 EXCEPT !.e = y] \in Registers
        /\ [h1 EXCEPT !.l = y] \in Registers
        /\ [b1 EXCEPT !.c = y].pc = r.pc /\ [d1 EXCEPT !.e = y].pc = r.pc
        /\ [h1 EXCEPT !.l = y].pc = r.pc
    <2>1. [b1 EXCEPT !.c = y] \in Registers /\ [b1 EXCEPT !.c = y].pc = r.pc
      BY <1>1, <1>2 DEF Registers
    <2>2. [d1 EXCEPT !.e = y] \in Registers /\ [d1 EXCEPT !.e = y].pc = r.pc
      BY <1>1, <1>2 DEF Registers
    <2>3. [h1 EXCEPT !.l = y] \in Registers /\ [h1 EXCEPT !.l = y].pc = r.pc
      BY <1>1, <1>2 DEF Registers
    <2> QED BY <2>1, <2>2, <2>3
  <1>4. /\ [r EXCEPT !.b = x, !.c = y] = [b1 EXCEPT !.c = y]
        /\ [r EXCEPT !.d = x, !.e = y] = [d1 EXCEPT !.e = y]
        /\ [r EXCEPT !.h = x, !.l = y] = [h1 EXCEPT !.l = y]
    BY DEF b1, d1, h1
  <1>5. CASE i = 0
    <2>1. WithRp(r, i, w) = [r EXCEPT !.b = x, !.c = y]
      BY <1>5 DEF WithRp, x, y
    <2> QED BY <1>3, <1>4, <2>1
  <1>6. CASE i = 1
    <2>1. WithRp(r, i, w) = [r EXCEPT !.d = x, !.e = y]
      BY <1>6 DEF WithRp, x, y
    <2> QED BY <1>3, <1>4, <2>1
  <1>7. CASE i = 2
    <2>1. WithRp(r, i, w) = [r EXCEPT !.h = x, !.l = y]
      BY <1>7 DEF WithRp, x, y
    <2> QED BY <1>3, <1>4, <2>1
  <1>8. CASE i = 3
    <2>1. WithRp(r, i, w) = [r EXCEPT !.sp = w]
      BY <1>8 DEF WithRp
    <2> QED BY <1>2, <2>1
  <1> QED BY <1>5, <1>6, <1>7, <1>8

\* F is a byte.
LEMMA FlagByteTyped == ASSUME NEW f PROVE FlagByte(f) \in Byte
  BY DEF FlagByte, Byte

\* The pairs of PUSH and POP, AF among them.
LEMMA StackedPairTyped ==
  ASSUME NEW r \in Registers, NEW i \in 0 .. 3, NEW w \in Word
  PROVE  /\ Rp2(r, i) \in Word
         /\ WithRp2(r, i, w) \in Registers /\ WithRp2(r, i, w).pc = r.pc
  <1>1. CASE i # 3
    BY <1>1, PairTyped, WithPairTyped DEF Rp2, WithRp2
  <1>2. CASE i = 3
    <2>1. Rp2(r, i) = 256 * r.a + FlagByte(r.f)
      BY <1>2 DEF Rp2
    <2>2. r.a \in Byte /\ FlagByte(r.f) \in Byte
      BY RegisterParts, FlagByteTyped
    <2>3. Rp2(r, i) \in Word
      BY <2>1, <2>2, PairOfBytes
    <2> DEFINE x == w \div 256  g == FlagsOf(w)  a1 == [r EXCEPT !.a = x]
    <2>4. x \in Byte /\ g \in Flags /\ w \in Word
      BY BytesOfPair, FlagsOfTyped
    <2> HIDE DEF x, g
    <2>5. a1 \in Registers /\ a1.pc = r.pc
      BY <2>4, RegistersWith, PcKept
    <2> HIDE DEF a1
    <2>6. [a1 EXCEPT !.f = g] \in Registers /\ [a1 EXCEPT !.f = g].pc = r.pc
      BY <2>4, <2>5, RegistersWith, PcKept
    <2>7. [r EXCEPT !.a = x, !.f = g] = [a1 EXCEPT !.f = g]
      BY DEF a1
    <2>8. WithRp2(r, i, w) = [r EXCEPT !.a = x, !.f = g]
      BY <1>2 DEF WithRp2, x, g
    <2> QED BY <2>3, <2>6, <2>7, <2>8
  <1> QED BY <1>1, <1>2

-----------------------------------------------------------------------------
(* The control flags, and the ends of steps.                               *)

\* The control flags, with one or two of them changed.
LEMMA Truths == TRUE \in BOOLEAN /\ FALSE \in BOOLEAN
  OBVIOUS

\* One flag.
LEMMA ControlsWith ==
  ASSUME NEW c \in Controls, NEW v \in BOOLEAN
  PROVE  /\ [c EXCEPT !.ime = v] \in Controls /\ [c EXCEPT !.ei = v] \in Controls
         /\ [c EXCEPT !.halted = v] \in Controls /\ [c EXCEPT !.bug = v] \in Controls
         /\ [c EXCEPT !.stopped = v] \in Controls /\ [c EXCEPT !.illegal = v] \in Controls
  <1>1. [c EXCEPT !.ime = v] \in Controls BY DEF Controls
  <1>2. [c EXCEPT !.ei = v] \in Controls BY DEF Controls
  <1>3. [c EXCEPT !.halted = v] \in Controls BY DEF Controls
  <1>4. [c EXCEPT !.bug = v] \in Controls BY DEF Controls
  <1>5. [c EXCEPT !.stopped = v] \in Controls BY DEF Controls
  <1>6. [c EXCEPT !.illegal = v] \in Controls BY DEF Controls
  <1> QED BY <1>1, <1>2, <1>3, <1>4, <1>5, <1>6

\* Two flags.
LEMMA ControlsWithTwo ==
  ASSUME NEW c \in Controls, NEW v \in BOOLEAN, NEW w \in BOOLEAN
  PROVE  /\ [c EXCEPT !.ime = v, !.ei = w] \in Controls
         /\ [c EXCEPT !.halted = v, !.bug = w] \in Controls
         /\ [c EXCEPT !.ime = v, !.halted = w] \in Controls
  <1>1. [c EXCEPT !.ime = v, !.ei = w] \in Controls
    <2> DEFINE d == [c EXCEPT !.ime = v]
    <2>1. d \in Controls BY ControlsWith
    <2> HIDE DEF d
    <2>2. [d EXCEPT !.ei = w] \in Controls BY <2>1, ControlsWith
    <2> QED BY <2>2 DEF d
  <1>2. [c EXCEPT !.halted = v, !.bug = w] \in Controls
    <2> DEFINE d == [c EXCEPT !.halted = v]
    <2>1. d \in Controls BY ControlsWith
    <2> HIDE DEF d
    <2>2. [d EXCEPT !.bug = w] \in Controls BY <2>1, ControlsWith
    <2> QED BY <2>2 DEF d
  <1>3. [c EXCEPT !.ime = v, !.halted = w] \in Controls
    <2> DEFINE d == [c EXCEPT !.ime = v]
    <2>1. d \in Controls BY ControlsWith
    <2> HIDE DEF d
    <2>2. [d EXCEPT !.halted = w] \in Controls BY <2>1, ControlsWith
    <2> QED BY <2>2 DEF d
  <1> QED BY <1>1, <1>2, <1>3

\* The flags of an instruction that ends awake.
LEMMA AwakeTyped == ASSUME MachineTypeOK PROVE Awake \in Controls
  <1> DEFINE no == FALSE
  <1>1. no \in BOOLEAN
    BY Truths, Zenon
  <1>a. ctl \in Controls
    BY DEF MachineTypeOK
  <1> HIDE DEF no
  <1>2. [ctl EXCEPT !.halted = no, !.bug = no] \in Controls
    BY <1>1, <1>a, ControlsWithTwo, Zenon
  <1> QED BY <1>2 DEF Awake, no

\* The end of a step keeps the types, with the registers the instruction left.
LEMMA EndsTyped ==
  ASSUME NEW s, IsState(s), NEW m \in Nat, NEW c \in Controls, Ends(s, m, c)
  PROVE  MachineTypeOK' /\ regs' = s.r
  <1> DEFINE yes == TRUE  no == FALSE
  <1>1. yes \in BOOLEAN /\ no \in BOOLEAN
    BY Truths, Zenon
  <1> HIDE DEF yes, no
  <1> DEFINE d == [c EXCEPT !.ime = yes, !.ei = no]
  <1>2. d \in Controls
    BY <1>1, ControlsWithTwo, Zenon
  <1>3. ctl' = d \/ ctl' = c
    BY DEF Ends, yes, no
  <1> HIDE DEF d
  <1>4. ctl' \in Controls
    BY <1>2, <1>3
  <1>5. regs' = s.r /\ bus' = s.b /\ cycles' = 4 * m
    BY DEF Ends
  <1>6. regs' \in Registers /\ IsBus(s.b) /\ cycles' \in Nat
    BY <1>5 DEF IsState
  <1>7. IsBus(bus')
    BY <1>5, <1>6
  <1> QED BY <1>4, <1>5, <1>6, <1>7 DEF MachineTypeOK, IsBus, BusOver, IsMemory, Registers, Controls

-----------------------------------------------------------------------------
(* Fetching. *)

\* What is fetched, and the word at the top of the stack, have their widths.
LEMMA Fetched ==
  ASSUME MachineTypeOK
  PROVE  /\ \A k : At(k) \in Byte
         /\ Imm8 \in Byte /\ Imm16 \in Word /\ Top \in Word
         /\ regs \in Registers /\ IsBus(bus) /\ ctl \in Controls
  <1>1. regs \in Registers /\ IsBus(bus) /\ ctl \in Controls
    BY DEF MachineTypeOK
  <1>2. ASSUME NEW k PROVE At(k) \in Byte
    BY <1>1, LoadTyped DEF At
  <1>3. At(1) \in Byte /\ At(2) \in Byte
    BY <1>2
  <1>4. 256 * At(2) + At(1) \in Word /\ At(1) + 256 * At(2) = 256 * At(2) + At(1)
    <2>1. 256 * At(2) + At(1) \in Word
      BY <1>3, PairOfBytes
    <2>2. At(1) \in Int /\ At(2) \in Int
      BY <1>3 DEF Byte
    <2> QED BY <2>1, <2>2
  <1>5. Top \in Word
    <2> DEFINE x == Load(bus, regs.sp)  y == Load(bus, U16(regs.sp + 1))
    <2>1. x \in Byte /\ y \in Byte
      BY <1>1, LoadTyped, Zenon
    <2> HIDE DEF x, y
    <2>2. 256 * y + x \in Word
      BY <2>1, PairOfBytes
    <2>3. x + 256 * y = 256 * y + x
      BY <2>1 DEF Byte
    <2> QED BY <2>2, <2>3 DEF Top, x, y
  <1> QED BY <1>1, <1>2, <1>3, <1>4, <1>5 DEF Imm8, Imm16

\* The state behind a fetched instruction.
LEMMA AfterTyped ==
  ASSUME MachineTypeOK, NEW n \in 1 .. 3
  PROVE  /\ IsState(After(n)) /\ After(n).b = bus
         /\ ~ctl.bug => After(n).r.pc = U16(regs.pc + n)
         /\ After(n).r.f = regs.f
  <1> DEFINE w == U16(regs.pc + n - (IF ctl.bug THEN 1 ELSE 0))
             r == [regs EXCEPT !.pc = w]
  <1>1. regs \in Registers /\ IsBus(bus)
    BY DEF MachineTypeOK
  <1>2. regs.pc \in Word
    BY <1>1, RegisterParts
  <1>3. w \in Word
    <2>1. regs.pc + n - (IF ctl.bug THEN 1 ELSE 0) \in Int
      BY <1>2 DEF Word
    <2> QED BY <2>1, U16IsWord
  <1>4. ~ctl.bug => w = U16(regs.pc + n)
    <2>1. regs.pc + n - 0 = regs.pc + n
      BY <1>2 DEF Word
    <2> QED BY <2>1
  <1> HIDE DEF w
  <1>5. r \in Registers /\ r.pc = w /\ r.f = regs.f
    BY <1>1, <1>3 DEF Registers
  <1>6. After(n) = [r |-> r, b |-> bus]
    BY DEF After, w
  <1> HIDE DEF r
  <1> QED BY <1>1, <1>4, <1>5, <1>6 DEF IsState

\* The fields of an opcode.
LEMMA Fields ==
  ASSUME NEW op \in Byte
  PROVE  /\ Decoded(op).op = op
         /\ Decoded(op).x \in 0 .. 3 /\ Decoded(op).y \in 0 .. 7 /\ Decoded(op).z \in 0 .. 7
         /\ Decoded(op).p \in 0 .. 3 /\ Decoded(op).q \in 0 .. 1
         /\ op = 64 * Decoded(op).x + 8 * Decoded(op).y + Decoded(op).z
         /\ Decoded(op).y = 2 * Decoded(op).p + Decoded(op).q
  <1> DEFINE x == op \div 64  y == (op \div 8) % 8  z == op % 8
             p == (op \div 16) % 4  q == (op \div 8) % 2
  <1>1. op \in 0 .. 255
    BY DEF Byte
  <1>2. /\ x \in 0 .. 3 /\ y \in 0 .. 7 /\ z \in 0 .. 7 /\ p \in 0 .. 3 /\ q \in 0 .. 1
        /\ op = 64 * x + 8 * y + z
    BY <1>1
  <1>3. y = 2 * p + q
    BY <1>1
  <1>4. /\ Decoded(op).op = op /\ Decoded(op).x = x /\ Decoded(op).y = y /\ Decoded(op).z = z
        /\ Decoded(op).p = p /\ Decoded(op).q = q
    BY DEF Decoded
  <1> HIDE DEF x, y, z, p, q
  <1> QED BY <1>2, <1>3, <1>4

\* The fields of the opcode at PC.
LEMMA FieldTyped ==
  ASSUME MachineTypeOK
  PROVE  /\ Field.op \in Byte /\ Field.op = At(0)
         /\ Field.x \in 0 .. 3 /\ Field.y \in 0 .. 7 /\ Field.z \in 0 .. 7
         /\ Field.p \in 0 .. 3 /\ Field.q \in 0 .. 1
         /\ Field.op = 64 * Field.x + 8 * Field.y + Field.z
         /\ Field.y = 2 * Field.p + Field.q
  <1>1. At(0) \in Byte
    BY Fetched
  <1> QED BY <1>1, Fields DEF Field

-----------------------------------------------------------------------------
(* Operands and the stack. *)

\* An operand is a byte (Cpu::read_r8).
LEMMA OperandTyped == ASSUME MachineTypeOK, NEW i \in 0 .. 7 PROVE GetR8(i) \in Byte
  <1>1. regs \in Registers /\ IsBus(bus)
    BY DEF MachineTypeOK
  <1>2. CASE i = 6
    BY <1>1, <1>2, LoadTyped DEF GetR8
  <1>3. CASE i # 6
    <2>1. R8[i + 1] \in {"a", "b", "c", "d", "e", "h", "l"}
      BY <1>3, NamedRegister
    <2>2. regs[R8[i + 1]] \in Byte
      BY <1>1, <2>1, NamedByte, Zenon
    <2> QED BY <1>3, <2>2 DEF GetR8
  <1> QED BY <1>2, <1>3

\* An operand written back (Cpu::write_r8) leaves PC alone.
LEMMA PutTyped ==
  ASSUME NEW s, IsState(s), NEW i \in 0 .. 7, NEW v \in Byte
  PROVE  IsState(PutR8(s, i, v)) /\ PutR8(s, i, v).r.pc = s.r.pc
  <1>1. s.r \in Registers /\ IsBus(s.b)
    BY DEF IsState
  <1>2. CASE i = 6
    <2> DEFINE b == Store(s.b, HL(s.r), v)
    <2>1. IsBus(b)
      BY <1>1, StoreTyped
    <2>2. PutR8(s, i, v) = [s EXCEPT !.b = b]
      BY <1>2 DEF PutR8
    <2> HIDE DEF b
    <2> QED BY <2>1, <2>2, StateWithB
  <1>3. CASE i # 6
    <2> DEFINE n == R8[i + 1]  r == [s.r EXCEPT ![n] = v]
    <2>1. n \in {"a", "b", "c", "d", "e", "h", "l"}
      BY <1>3, NamedRegister
    <2>2. PutR8(s, i, v) = [s EXCEPT !.r = r]
      BY <1>3 DEF PutR8
    <2> HIDE DEF n
    <2>3. r \in Registers /\ r.pc = s.r.pc
      BY <1>1, <2>1, RegistersWithNamed
    <2> HIDE DEF r
    <2> QED BY <2>2, <2>3, StateWithR
  <1> QED BY <1>2, <1>3

PutF(s, f) == [s EXCEPT !.r.f = f]

\* So do the flags,
LEMMA PutFTyped ==
  ASSUME NEW s, IsState(s), NEW f \in Flags
  PROVE  IsState(PutF(s, f)) /\ PutF(s, f).r.pc = s.r.pc
  <1> DEFINE r == [s.r EXCEPT !.f = f]
  <1>1. r \in Registers /\ r.pc = s.r.pc
    BY DEF IsState, Registers
  <1>2. PutF(s, f) = [s EXCEPT !.r = r]
    BY DEF PutF
  <1> HIDE DEF r
  <1>3. IsState([s EXCEPT !.r = r]) /\ [s EXCEPT !.r = r].r = r
    BY <1>1, StateWithR, Zenon
  <1> QED BY <1>1, <1>2, <1>3

\* and the accumulator with its flags.
LEMMA PutATyped ==
  ASSUME NEW s, IsState(s), NEW out \in Outcomes
  PROVE  IsState(PutA(s, out)) /\ PutA(s, out).r.pc = s.r.pc
  <1> DEFINE v == out.v  f == out.f  a1 == [s.r EXCEPT !.a = v]  r == [a1 EXCEPT !.f = f]
  <1>1. v \in Byte /\ f \in Flags
    BY DEF Outcomes
  <1>2. PutA(s, out) = [s EXCEPT !.r = r]
    BY DEF PutA, IsState
  <1> HIDE DEF v, f
  <1>3. a1 \in Registers /\ a1.pc = s.r.pc
    BY <1>1 DEF IsState, Registers
  <1> HIDE DEF a1
  <1>4. r \in Registers /\ r.pc = a1.pc
    BY <1>1, <1>3 DEF Registers
  <1> HIDE DEF r
  <1> QED BY <1>2, <1>3, <1>4, StateWithR

\* A jump,
LEMMA JumpedTyped ==
  ASSUME NEW s, IsState(s), NEW w \in Word
  PROVE  IsState(Jumped(s, w)) /\ Jumped(s, w).r.pc = w
  <1> DEFINE r == [s.r EXCEPT !.pc = w]
  <1>1. r \in Registers /\ r.pc = w
    BY DEF IsState, Registers
  <1>2. Jumped(s, w) = [s EXCEPT !.r = r]
    BY DEF Jumped
  <1> HIDE DEF r
  <1> QED BY <1>1, <1>2, StateWithR

\* a pop,
LEMMA PoppedTyped ==
  ASSUME NEW s, IsState(s)
  PROVE  IsState(Popped(s)) /\ Popped(s).r.pc = s.r.pc
  <1> DEFINE w == U16(s.r.sp + 2)  r == [s.r EXCEPT !.sp = w]
  <1>1. w \in Word
    <2>1. s.r.sp \in Int
      BY RegisterParts DEF IsState, Word
    <2> QED BY <2>1, U16IsWord
  <1>2. Popped(s) = [s EXCEPT !.r = r]
    BY DEF Popped
  <1> HIDE DEF w
  <1>3. r \in Registers /\ r.pc = s.r.pc
    BY <1>1 DEF IsState, Registers
  <1> HIDE DEF r
  <1> QED BY <1>2, <1>3, StateWithR

\* a push (Cpu::push16),
LEMMA PushTyped ==
  ASSUME NEW s, IsState(s), NEW v \in Word
  PROVE  IsState(Push(s, v)) /\ Push(s, v).r.pc = s.r.pc
  <1> DEFINE w == U16(s.r.sp - 2)  r == [s.r EXCEPT !.sp = w]
             b1 == Store(s.b, U16(s.r.sp - 1), v \div 256)
             b == Store(b1, w, v % 256)
  <1>1. s.r \in Registers /\ IsBus(s.b)
    BY DEF IsState
  <1>2. w \in Word
    <2>1. s.r.sp \in Int
      BY <1>1, RegisterParts DEF Word
    <2> QED BY <2>1, U16IsWord
  <1>3. v \div 256 \in Byte /\ v % 256 \in Byte
    BY BytesOfPair
  <1>4. IsBus(b1)
    BY <1>1, <1>3, StoreTyped
  <1>5. Push(s, v) = [r |-> r, b |-> b]
    BY DEF Push
  <1> HIDE DEF w, b1
  <1>6. IsBus(b)
    BY <1>3, <1>4, StoreTyped
  <1> HIDE DEF b
  <1>7. r \in Registers /\ r.pc = s.r.pc
    BY <1>1, <1>2 DEF Registers
  <1> HIDE DEF r
  <1> QED BY <1>5, <1>6, <1>7 DEF IsState

\* and a call.
LEMMA CallTyped ==
  ASSUME NEW s, IsState(s), NEW w \in Word
  PROVE  IsState(CallTo(s, w)) /\ CallTo(s, w).r.pc = w
  <1>1. s.r.pc \in Word
    BY RegisterParts DEF IsState
  <1>2. IsState(Push(s, s.r.pc))
    BY <1>1, PushTyped
  <1> QED BY <1>2, JumpedTyped DEF CallTo

-----------------------------------------------------------------------------
(* The instructions that run on into the next one: each keeps the types    *)
(* and moves PC by its length.                                             *)

MovedBy(n) == MachineTypeOK' /\ (~ctl.bug => regs'.pc = U16(regs.pc + n))

\* A step that ends in a state lands where its PC is.
LEMMA Lands ==
  ASSUME MachineTypeOK, NEW s, IsState(s), NEW m \in Nat, Finish(s, m)
  PROVE  MachineTypeOK' /\ regs'.pc = s.r.pc
  BY AwakeTyped, EndsTyped DEF Finish

\* A step that ends behind its n bytes has moved by n.
LEMMA EndsMoved ==
  ASSUME MachineTypeOK, NEW n \in 1 .. 3, NEW s, IsState(s), s.r.pc = After(n).r.pc,
         NEW m \in Nat, NEW c \in Controls, Ends(s, m, c)
  PROVE  MovedBy(n)
  <1>1. MachineTypeOK' /\ regs'.pc = s.r.pc
    BY EndsTyped
  <1>2. ~ctl.bug => After(n).r.pc = U16(regs.pc + n)
    BY AfterTyped
  <1> QED BY <1>1, <1>2 DEF MovedBy

\* The same for one that ends awake.
LEMMA FinishMoved ==
  ASSUME MachineTypeOK, NEW n \in 1 .. 3, NEW s, IsState(s), s.r.pc = After(n).r.pc,
         NEW m \in Nat, Finish(s, m)
  PROVE  MovedBy(n)
  BY AwakeTyped, EndsMoved DEF Finish

\* With the registers, or the memories, changed besides.
LEMMA RegistersMoved ==
  ASSUME MachineTypeOK, NEW n \in 1 .. 3, NEW r \in Registers, r.pc = After(n).r.pc,
         NEW m \in Nat, Finish([After(n) EXCEPT !.r = r], m)
  PROVE  MovedBy(n)
  <1> DEFINE s == [After(n) EXCEPT !.r = r]
  <1>1. IsState(After(n))
    BY AfterTyped
  <1>2. IsState(s) /\ s.r = r
    BY <1>1, StateWithR, Zenon
  <1>3. Finish(s, m)
    OBVIOUS
  <1> HIDE DEF s
  <1>4. s.r.pc = After(n).r.pc
    BY <1>2
  <1> QED BY <1>2, <1>3, <1>4, FinishMoved, Zenon

\* With the memories changed.
LEMMA MemoryMoved ==
  ASSUME MachineTypeOK, NEW n \in 1 .. 3, NEW b, IsBus(b),
         NEW m \in Nat, Finish([After(n) EXCEPT !.b = b], m)
  PROVE  MovedBy(n)
  <1> DEFINE s == [After(n) EXCEPT !.b = b]
  <1>1. IsState(After(n))
    BY AfterTyped
  <1>2. IsState(s) /\ s.r = After(n).r
    BY <1>1, StateWithB, Zenon
  <1>3. Finish(s, m)
    OBVIOUS
  <1> HIDE DEF s
  <1>4. s.r.pc = After(n).r.pc
    BY <1>2
  <1> QED BY <1>2, <1>3, <1>4, FinishMoved, Zenon

\* One lemma for each instruction.
LEMMA NopMoves == ASSUME MachineTypeOK, Nop PROVE MovedBy(1)
  <1>1. IsState(After(1))
    BY AfterTyped
  <1> QED BY <1>1, FinishMoved DEF Nop

LEMMA StoreSpMoves == ASSUME MachineTypeOK, StoreSp PROVE MovedBy(3)
  <1> DEFINE b1 == Store(bus, Imm16, regs.sp % 256)
             b == Store(b1, U16(Imm16 + 1), regs.sp \div 256)
  <1>1. IsBus(bus) /\ regs.sp \in Word
    BY Fetched, RegisterParts
  <1>2. regs.sp % 256 \in Byte /\ regs.sp \div 256 \in Byte
    BY <1>1, BytesOfPair
  <1>3. IsBus(b1)
    BY <1>1, <1>2, StoreTyped
  <1> HIDE DEF b1
  <1>4. IsBus(b)
    BY <1>2, <1>3, StoreTyped
  <1>5. Finish([After(3) EXCEPT !.b = b], 5)
    BY DEF StoreSp, b1
  <1> HIDE DEF b
  <1> QED BY <1>4, <1>5, MemoryMoved

LEMMA StopMoves == ASSUME MachineTypeOK, Stop PROVE MovedBy(2)
  <1>1. CASE SpeedSwitchArmed(bus)
    <2>1. IsBus(SpeedSwitched(bus))
      BY Fetched, SwitchTyped
    <2>2. Finish([After(2) EXCEPT !.b = SpeedSwitched(bus)], 2052)
      BY <1>1 DEF Stop
    <2> QED BY <2>1, <2>2, MemoryMoved
  <1>2. CASE ~SpeedSwitchArmed(bus)
    <2> DEFINE yes == TRUE
    <2>1. yes \in BOOLEAN
      BY Truths, Zenon
    <2>2. Ends(After(2), 2, [Awake EXCEPT !.stopped = yes])
      BY <1>2 DEF Stop
    <2> HIDE DEF yes
    <2>3. [Awake EXCEPT !.stopped = yes] \in Controls
      BY <2>1, AwakeTyped, ControlsWith
    <2>4. IsState(After(2))
      BY AfterTyped
    <2> QED BY <2>2, <2>3, <2>4, EndsMoved
  <1> QED BY <1>1, <1>2

LEMMA LoadPairMoves == ASSUME MachineTypeOK, LoadPair PROVE MovedBy(3)
  <1> DEFINE r == WithRp(After(3).r, Field.p, Imm16)
  <1>1. After(3).r \in Registers
    BY AfterTyped DEF IsState
  <1>2. Field.p \in 0 .. 3 /\ Imm16 \in Word
    BY FieldTyped, Fetched
  <1>3. r \in Registers /\ r.pc = After(3).r.pc
    BY <1>1, <1>2, WithPairTyped
  <1>4. Finish([After(3) EXCEPT !.r = r], 3)
    BY DEF LoadPair
  <1> HIDE DEF r
  <1> QED BY <1>3, <1>4, RegistersMoved

\* The sum of a pair, or of SP, goes to HL with its flags.
LEMMA ToHl ==
  ASSUME NEW r \in Registers, NEW out \in [v : Word, f : Flags]
  PROVE  LET t == [WithRp(r, 2, out.v) EXCEPT !.f = out.f]
         IN t \in Registers /\ t.pc = r.pc
  <1> DEFINE w == WithRp(r, 2, out.v)  f == out.f
  <1>1. out.v \in Word /\ f \in Flags
    OBVIOUS
  <1>2. w \in Registers /\ w.pc = r.pc
    BY <1>1, WithPairTyped
  <1> HIDE DEF w, f
  <1>3. [w EXCEPT !.f = f] \in Registers /\ [w EXCEPT !.f = f].pc = r.pc
    BY <1>1, <1>2 DEF Registers
  <1> QED BY <1>3 DEF w, f

LEMMA AddHlPairMoves == ASSUME MachineTypeOK, AddHlPair PROVE MovedBy(1)
  <1> DEFINE out == AddHl(HL(regs), Rp(regs, Field.p), regs.f)
             r == [WithRp(After(1).r, 2, out.v) EXCEPT !.f = out.f]
  <1>1. After(1).r \in Registers
    BY AfterTyped DEF IsState
  <1>2. out \in [v : Word, f : Flags]
    <2>1. regs \in Registers /\ Field.p \in 0 .. 3
      BY Fetched, FieldTyped
    <2>2. HL(regs) \in Word /\ Rp(regs, Field.p) \in Word /\ regs.f \in Flags
      BY <2>1, PairTyped, RegisterParts
    <2>3. 0 \in Byte
      BY DEF Byte
    <2> QED BY <2>2, <2>3, WordsTyped
  <1>3. Finish([After(1) EXCEPT !.r = r], 2)
    BY DEF AddHlPair
  <1> HIDE DEF out
  <1>4. r \in Registers /\ r.pc = After(1).r.pc
    BY <1>1, <1>2, ToHl
  <1> HIDE DEF r
  <1> QED BY <1>3, <1>4, RegistersMoved

LEMMA StepPairMoves == ASSUME MachineTypeOK, StepPair PROVE MovedBy(1)
  <1> DEFINE v == U16(Rp(regs, Field.p) + (IF Field.q = 0 THEN 1 ELSE -1))
             r == WithRp(After(1).r, Field.p, v)
  <1>1. After(1).r \in Registers
    BY AfterTyped DEF IsState
  <1>2. regs \in Registers /\ Field.p \in 0 .. 3
    BY Fetched, FieldTyped
  <1>3. Rp(regs, Field.p) \in Word
    BY <1>2, PairTyped
  <1>4. Rp(regs, Field.p) + (IF Field.q = 0 THEN 1 ELSE -1) \in Int
    BY <1>3 DEF Word
  <1>5. v \in Word
    BY <1>4, U16IsWord
  <1>6. Finish([After(1) EXCEPT !.r = r], 2)
    BY DEF StepPair
  <1> HIDE DEF v
  <1>7. r \in Registers /\ r.pc = After(1).r.pc
    BY <1>1, <1>2, <1>5, WithPairTyped
  <1> HIDE DEF r
  <1> QED BY <1>6, <1>7, RegistersMoved

\* The time of an operand.
LEMMA TouchIsNat == ASSUME NEW i PROVE Touch(i) \in {0, 1}
  BY DEF Touch

LEMMA StepByteMoves == ASSUME MachineTypeOK, StepByte PROVE MovedBy(1)
  <1> DEFINE v == GetR8(Field.y)
             out == IF Field.z = 4 THEN Inc8(v, regs.f) ELSE Dec8(v, regs.f)
             s == PutF(After(1), out.f)
             t == PutR8(s, Field.y, out.v)
             m == 1 + 2 * Touch(Field.y)
  <1>1. Field.y \in 0 .. 7 /\ regs.f \in Flags
    BY FieldTyped, Fetched, RegisterParts
  <1>2. v \in Byte
    BY <1>1, OperandTyped
  <1>3. Finish(t, m)
    BY DEF StepByte, PutF
  <1>4. m \in Nat
    BY TouchIsNat
  <1> HIDE DEF v, m
  <1>5. out \in Outcomes
    BY <1>1, <1>2, BytesTyped
  <1> HIDE DEF out
  <1>6. out.v \in Byte /\ out.f \in Flags
    BY <1>5 DEF Outcomes
  <1>a. IsState(After(1))
    BY AfterTyped
  <1>7. IsState(s) /\ s.r.pc = After(1).r.pc
    BY <1>6, <1>a, PutFTyped
  <1> HIDE DEF s
  <1>8. IsState(t) /\ t.r.pc = After(1).r.pc
    BY <1>1, <1>6, <1>7, PutTyped
  <1> HIDE DEF t
  <1> QED BY <1>3, <1>4, <1>8, FinishMoved

LEMMA LoadImmediateMoves == ASSUME MachineTypeOK, LoadImmediate PROVE MovedBy(2)
  <1> DEFINE t == PutR8(After(2), Field.y, Imm8)  m == 2 + Touch(Field.y)
  <1>1. Field.y \in 0 .. 7 /\ Imm8 \in Byte
    BY FieldTyped, Fetched
  <1>2. Finish(t, m)
    BY DEF LoadImmediate
  <1>3. m \in Nat
    BY TouchIsNat
  <1> HIDE DEF m
  <1>a. IsState(After(2))
    BY AfterTyped
  <1>4. IsState(t) /\ t.r.pc = After(2).r.pc
    BY <1>1, <1>a, PutTyped
  <1> HIDE DEF t
  <1> QED BY <1>2, <1>3, <1>4, FinishMoved

\* An outcome on the accumulator.
LEMMA AccumulatorPut ==
  ASSUME MachineTypeOK, NEW n \in 1 .. 3, NEW out \in Outcomes, NEW m \in Nat,
         Finish(PutA(After(n), out), m)
  PROVE  MovedBy(n)
  <1> DEFINE t == PutA(After(n), out)
  <1>1. IsState(After(n))
    BY AfterTyped
  <1>2. IsState(t) /\ t.r.pc = After(n).r.pc
    BY <1>1, PutATyped
  <1>3. Finish(t, m)
    OBVIOUS
  <1> HIDE DEF t
  <1> QED BY <1>2, <1>3, FinishMoved

\* The forms on the accumulator, RLCA to RRA.
RotateA(op, v, f) == Rotate(op, v, f, FALSE)

\* The rotations of the accumulator.
LEMMA RotateATyped ==
  ASSUME NEW op \in 0 .. 7, NEW v \in Byte, NEW f \in Flags
  PROVE  RotateA(op, v, f) \in Outcomes
  BY Truths, RotateTyped, Zenon DEF RotateA

LEMMA AccumulatorMoves == ASSUME MachineTypeOK, Accumulator PROVE MovedBy(1)
  <1> DEFINE f == regs.f  a == regs.a  y == Field.y
             rotated == RotateA(y, a, f)
             decimal == Daa(a, f)
             flipped == Out(255 - a, f.Z, TRUE, TRUE, f.C)
             set == Out(a, f.Z, FALSE, FALSE, TRUE)
             inverted == Out(a, f.Z, FALSE, FALSE, ~f.C)
             out == CASE y < 4 -> rotated [] y = 4 -> decimal [] y = 5 -> flipped
                      [] y = 6 -> set [] y = 7 -> inverted
  <1>1. Finish(PutA(After(1), out), 1)
    BY DEF Accumulator, RotateA
  <1>2. y \in 0 .. 7 /\ a \in Byte /\ f \in Flags
    BY FieldTyped, Fetched, RegisterParts
  <1> HIDE DEF a, f, y
  <1>3. f.Z \in BOOLEAN /\ f.C \in BOOLEAN /\ (~f.C) \in BOOLEAN
    BY <1>2, FlagFields
  <1>4. 255 - a \in Byte
    BY <1>2 DEF Byte
  <1>5. flipped \in Outcomes /\ set \in Outcomes /\ inverted \in Outcomes
    BY <1>2, <1>3, <1>4 DEF Out, Flags, Outcomes
  <1>6. decimal \in Outcomes
    BY <1>2, BytesTyped
  <1>7. rotated \in Outcomes
    BY <1>2, RotateATyped
  <1> HIDE DEF rotated, decimal, flipped, set, inverted
  <1>8. out \in Outcomes
    BY <1>2, <1>5, <1>6, <1>7
  <1> HIDE DEF out
  <1> QED BY <1>1, <1>8, AccumulatorPut

-----------------------------------------------------------------------------
(* Instructions that load, store and compute.                              *)

\* Loads and stores of the accumulator.
LEMMA ALoaded ==
  ASSUME MachineTypeOK, NEW n \in 1 .. 3, NEW v \in Byte
  PROVE  LET r == [After(n).r EXCEPT !.a = v] IN r \in Registers /\ r.pc = After(n).r.pc
  <1>1. After(n).r \in Registers
    BY AfterTyped DEF IsState
  <1> DEFINE q == After(n).r
  <1>2. q \in Registers
    BY <1>1
  <1> HIDE DEF q
  <1>3. [q EXCEPT !.a = v] \in Registers /\ [q EXCEPT !.a = v].pc = q.pc
    BY <1>2 DEF Registers
  <1> QED BY <1>3 DEF q

\* A byte loaded into the accumulator, and one stored.
LEMMA LoadMoved ==
  ASSUME MachineTypeOK, NEW n \in 1 .. 3, NEW a, NEW m \in Nat,
         Finish([After(n) EXCEPT !.r.a = Load(bus, a)], m)
  PROVE  MovedBy(n)
  <1> DEFINE v == Load(bus, a)  r == [After(n).r EXCEPT !.a = v]
  <1>1. v \in Byte
    BY Fetched, LoadTyped
  <1>2. Finish([After(n) EXCEPT !.r = r], m)
    OBVIOUS
  <1> HIDE DEF v
  <1>3. r \in Registers /\ r.pc = After(n).r.pc
    BY <1>1, ALoaded
  <1> HIDE DEF r
  <1> QED BY <1>2, <1>3, RegistersMoved

\* The same for a store.
LEMMA StoreMoved ==
  ASSUME MachineTypeOK, NEW n \in 1 .. 3, NEW a, NEW m \in Nat,
         Finish([After(n) EXCEPT !.b = Store(After(n).b, a, regs.a)], m)
  PROVE  MovedBy(n)
  <1> DEFINE b == Store(After(n).b, a, regs.a)
  <1>1. After(n).b = bus /\ IsBus(bus) /\ regs.a \in Byte
    BY AfterTyped, Fetched, RegisterParts
  <1>2. IsBus(Store(bus, a, regs.a))
    BY <1>1, StoreTyped
  <1>3. IsBus(b)
    BY <1>1, <1>2
  <1>4. Finish([After(n) EXCEPT !.b = b], m)
    OBVIOUS
  <1> HIDE DEF b
  <1> QED BY <1>3, <1>4, MemoryMoved

\* The loads and stores of 0xC0-0xFF.
LEMMA StoreHighMoves == ASSUME MachineTypeOK, StoreHigh PROVE MovedBy(2)
  BY StoreMoved DEF StoreHigh
LEMMA LoadHighMoves == ASSUME MachineTypeOK, LoadHigh PROVE MovedBy(2)
  BY LoadMoved DEF LoadHigh
LEMMA StoreCMoves == ASSUME MachineTypeOK, StoreC PROVE MovedBy(1)
  BY StoreMoved DEF StoreC
LEMMA LoadCMoves == ASSUME MachineTypeOK, LoadC PROVE MovedBy(1)
  BY LoadMoved DEF LoadC
LEMMA StoreWordMoves == ASSUME MachineTypeOK, StoreWord PROVE MovedBy(3)
  BY StoreMoved DEF StoreWord
LEMMA LoadWordMoves == ASSUME MachineTypeOK, LoadWord PROVE MovedBy(3)
  BY LoadMoved DEF LoadWord

\* Through a pair, which may step.
LEMMA LoadIndirectMoves == ASSUME MachineTypeOK, LoadIndirect PROVE MovedBy(1)
  <1> DEFINE at == Rp(regs, IF Field.p = 3 THEN 2 ELSE Field.p)
             stored == [After(1) EXCEPT !.b = Store(After(1).b, at, regs.a)]
             loaded == [After(1) EXCEPT !.r.a = Load(bus, at)]
             s1 == IF Field.q = 0 THEN stored ELSE loaded
             up == [s1 EXCEPT !.r = WithRp(s1.r, 2, U16(at + 1))]
             down == [s1 EXCEPT !.r = WithRp(s1.r, 2, U16(at - 1))]
             s2 == CASE Field.p < 2 -> s1 [] Field.p = 2 -> up [] Field.p = 3 -> down
  <1>1. Finish(s2, 2)
    BY DEF LoadIndirect
  <1>2. regs \in Registers /\ IsBus(bus) /\ Field.p \in 0 .. 3 /\ Field.q \in 0 .. 1
    BY Fetched, FieldTyped
  <1>3. at \in Word
    BY <1>2, PairTyped
  <1> HIDE DEF at
  <1>4. IsState(After(1)) /\ After(1).b = bus
    BY AfterTyped
  <1>5. IsState(stored) /\ stored.r.pc = After(1).r.pc
    <2> DEFINE b == Store(After(1).b, at, regs.a)
    <2>1. regs.a \in Byte
      BY <1>2, RegisterParts
    <2>2. IsBus(Store(bus, at, regs.a))
      BY <1>2, <2>1, StoreTyped
    <2>3. IsBus(b)
      BY <1>4, <2>2
    <2> HIDE DEF b
    <2>4. IsState([After(1) EXCEPT !.b = b]) /\ [After(1) EXCEPT !.b = b].r = After(1).r
      BY <1>4, <2>3, StateWithB, Zenon
    <2> QED BY <2>4 DEF b
  <1>6. IsState(loaded) /\ loaded.r.pc = After(1).r.pc
    <2> DEFINE v == Load(bus, at)  r == [After(1).r EXCEPT !.a = v]
    <2>1. v \in Byte
      BY <1>2, LoadTyped
    <2> HIDE DEF v
    <2>2. r \in Registers /\ r.pc = After(1).r.pc
      BY <2>1, ALoaded
    <2> HIDE DEF r
    <2>3. IsState([After(1) EXCEPT !.r = r]) /\ [After(1) EXCEPT !.r = r].r = r
      BY <1>4, <2>2, StateWithR, Zenon
    <2>4. loaded = [After(1) EXCEPT !.r = r]
      BY DEF r, v
    <2> HIDE DEF loaded
    <2> QED BY <2>2, <2>3, <2>4
  <1> HIDE DEF stored, loaded
  <1>7. IsState(s1) /\ s1.r.pc = After(1).r.pc
    BY <1>5, <1>6
  <1> HIDE DEF s1
  <1>8. ASSUME NEW w \in Word
        PROVE  /\ IsState([s1 EXCEPT !.r = WithRp(s1.r, 2, w)])
               /\ [s1 EXCEPT !.r = WithRp(s1.r, 2, w)].r.pc = After(1).r.pc
    <2> DEFINE r == WithRp(s1.r, 2, w)
    <2>1. r \in Registers /\ r.pc = s1.r.pc
      BY <1>7, WithPairTyped DEF IsState
    <2> HIDE DEF r
    <2>2. IsState([s1 EXCEPT !.r = r]) /\ [s1 EXCEPT !.r = r].r = r
      BY <1>7, <2>1, StateWithR, Zenon
    <2>3. [s1 EXCEPT !.r = r].r.pc = After(1).r.pc
      BY <1>7, <2>1, <2>2
    <2> QED BY <2>2, <2>3 DEF r
  <1>9. U16(at + 1) \in Word /\ U16(at - 1) \in Word
    <2>1. at + 1 \in Int /\ at - 1 \in Int
      BY <1>3 DEF Word
    <2> QED BY <2>1, U16IsWord
  <1>10. IsState(up) /\ up.r.pc = After(1).r.pc
    BY <1>8, <1>9, Zenon
  <1>11. IsState(down) /\ down.r.pc = After(1).r.pc
    BY <1>8, <1>9, Zenon
  <1> HIDE DEF up, down
  <1>12. s2 = s1 \/ s2 = up \/ s2 = down
    <2>1. Field.p < 2 \/ Field.p = 2 \/ Field.p = 3
      BY <1>2
    <2> QED BY <2>1
  <1> HIDE DEF s2
  <1>13. IsState(s2) /\ s2.r.pc = After(1).r.pc
    BY <1>7, <1>10, <1>11, <1>12
  <1> QED BY <1>1, <1>13, FinishMoved

LEMMA HaltMoves == ASSUME MachineTypeOK, Halt PROVE MovedBy(1)
  <1> DEFINE yes == TRUE  c1 == [Awake EXCEPT !.bug = yes]  c2 == [Awake EXCEPT !.halted = yes]
  <1>1. Ends(After(1), 1, c1) \/ Ends(After(1), 1, c2)
    BY DEF Halt
  <1>2. yes \in BOOLEAN
    BY Truths, Zenon
  <1> HIDE DEF yes
  <1>3. c1 \in Controls /\ c2 \in Controls
    BY <1>2, AwakeTyped, ControlsWith, Zenon
  <1>4. IsState(After(1))
    BY AfterTyped
  <1> HIDE DEF c1, c2
  <1> QED BY <1>1, <1>3, <1>4, EndsMoved

LEMMA MoveMoves == ASSUME MachineTypeOK, Move PROVE MovedBy(1)
  <1> DEFINE v == GetR8(Field.z)  t == PutR8(After(1), Field.y, v)
             m == 1 + Touch(Field.y) + Touch(Field.z)
  <1>1. Field.y \in 0 .. 7 /\ Field.z \in 0 .. 7
    BY FieldTyped
  <1>2. v \in Byte
    BY <1>1, OperandTyped
  <1>3. Finish(t, m)
    BY DEF Move
  <1>4. m \in Nat
    BY TouchIsNat
  <1>5. IsState(After(1))
    BY AfterTyped
  <1> HIDE DEF v, m
  <1>6. IsState(t) /\ t.r.pc = After(1).r.pc
    BY <1>1, <1>2, <1>5, PutTyped
  <1> HIDE DEF t
  <1> QED BY <1>3, <1>4, <1>6, FinishMoved

LEMMA AluRegisterMoves == ASSUME MachineTypeOK, AluRegister PROVE MovedBy(1)
  <1> DEFINE v == GetR8(Field.z)  out == AluResult(Field.y, regs.a, v, regs.f)
             m == 1 + Touch(Field.z)
  <1>1. Field.y \in 0 .. 7 /\ Field.z \in 0 .. 7 /\ regs.a \in Byte /\ regs.f \in Flags
    BY FieldTyped, Fetched, RegisterParts
  <1>2. v \in Byte
    BY <1>1, OperandTyped
  <1>3. Finish(PutA(After(1), out), m)
    BY DEF AluRegister
  <1>4. m \in Nat
    BY TouchIsNat
  <1> HIDE DEF v, m
  <1>5. out \in Outcomes
    BY <1>1, <1>2, AluTyped
  <1> HIDE DEF out
  <1> QED BY <1>3, <1>4, <1>5, AccumulatorPut

LEMMA AluImmediateMoves == ASSUME MachineTypeOK, AluImmediate PROVE MovedBy(2)
  <1> DEFINE out == AluResult(Field.y, regs.a, Imm8, regs.f)
  <1>1. Field.y \in 0 .. 7 /\ Imm8 \in Byte /\ regs.a \in Byte /\ regs.f \in Flags
    BY FieldTyped, Fetched, RegisterParts
  <1>2. Finish(PutA(After(2), out), 2)
    BY DEF AluImmediate
  <1>3. out \in Outcomes
    BY <1>1, AluTyped
  <1> HIDE DEF out
  <1> QED BY <1>2, <1>3, AccumulatorPut

\* SP with an offset.
LEMMA OffsetOutcome ==
  ASSUME MachineTypeOK PROVE AddSpSigned(regs.sp, Imm8) \in [v : Word, f : Flags]
  <1>1. regs.sp \in Word /\ Imm8 \in Byte /\ regs.f \in Flags
    BY Fetched, RegisterParts
  <1> QED BY <1>1, WordsTyped

LEMMA AddSpMoves == ASSUME MachineTypeOK, AddSp PROVE MovedBy(2)
  <1> DEFINE out == AddSpSigned(regs.sp, Imm8)  v == out.v  f == out.f
             q == After(2).r
             q1 == [q EXCEPT !.sp = v]  r == [q1 EXCEPT !.f = f]
  <1>1. v \in Word /\ f \in Flags
    BY OffsetOutcome
  <1>2. q \in Registers
    BY AfterTyped DEF IsState
  <1>3. Finish([After(2) EXCEPT !.r = r], 4)
    <2>1. IsState(After(2))
      BY AfterTyped
    <2>2. [After(2) EXCEPT !.r.sp = v, !.r.f = f] = [After(2) EXCEPT !.r = r]
      BY <2>1 DEF IsState
    <2> QED BY <2>2 DEF AddSp
  <1> HIDE DEF v, f, q
  <1>4. q1 \in Registers /\ q1.pc = q.pc
    BY <1>1, <1>2 DEF Registers
  <1> HIDE DEF q1
  <1>5. r \in Registers /\ r.pc = q.pc
    BY <1>1, <1>4 DEF Registers
  <1> HIDE DEF r
  <1>6. r.pc = After(2).r.pc
    BY <1>5 DEF q
  <1> QED BY <1>3, <1>5, <1>6, RegistersMoved

LEMMA LoadHlSpMoves == ASSUME MachineTypeOK, LoadHlSp PROVE MovedBy(2)
  <1> DEFINE out == AddSpSigned(regs.sp, Imm8)
             r == [WithRp(After(2).r, 2, out.v) EXCEPT !.f = out.f]
  <1>1. After(2).r \in Registers
    BY AfterTyped DEF IsState
  <1>2. out \in [v : Word, f : Flags]
    BY OffsetOutcome
  <1>3. Finish([After(2) EXCEPT !.r = r], 3)
    BY DEF LoadHlSp
  <1> HIDE DEF out
  <1>4. r \in Registers /\ r.pc = After(2).r.pc
    BY <1>1, <1>2, ToHl
  <1> HIDE DEF r
  <1> QED BY <1>3, <1>4, RegistersMoved

LEMMA PopMoves == ASSUME MachineTypeOK, Pop PROVE MovedBy(1)
  <1> DEFINE s == Popped(After(1))  r == WithRp2(s.r, Field.p, Top)  t == [s EXCEPT !.r = r]
  <1>1. Field.p \in 0 .. 3 /\ Top \in Word
    BY FieldTyped, Fetched
  <1>2. IsState(After(1))
    BY AfterTyped
  <1>3. IsState(s) /\ s.r.pc = After(1).r.pc
    BY <1>2, PoppedTyped
  <1>4. Finish(t, 3)
    BY DEF Pop
  <1> HIDE DEF s
  <1>5. r \in Registers /\ r.pc = s.r.pc
    BY <1>1, <1>3, StackedPairTyped DEF IsState
  <1> HIDE DEF r
  <1>6. IsState(t) /\ t.r = r
    BY <1>3, <1>5, StateWithR, Zenon
  <1> HIDE DEF t
  <1>7. t.r.pc = After(1).r.pc
    BY <1>3, <1>5, <1>6
  <1> QED BY <1>4, <1>6, <1>7, FinishMoved

LEMMA LoadSpHlMoves == ASSUME MachineTypeOK, LoadSpHl PROVE MovedBy(1)
  <1> DEFINE w == HL(regs)  q == After(1).r  r == [q EXCEPT !.sp = w]
  <1>1. w \in Word
    BY Fetched, PairTyped
  <1>2. q \in Registers
    BY AfterTyped DEF IsState
  <1>3. Finish([After(1) EXCEPT !.r = r], 2)
    BY DEF LoadSpHl
  <1> HIDE DEF w, q
  <1>4. r \in Registers /\ r.pc = q.pc
    BY <1>1, <1>2 DEF Registers
  <1> HIDE DEF r
  <1>5. r.pc = After(1).r.pc
    BY <1>4 DEF q
  <1> QED BY <1>3, <1>4, <1>5, RegistersMoved

LEMMA DisableMoves == ASSUME MachineTypeOK, DisableInterrupts PROVE MovedBy(1)
  <1> DEFINE no == FALSE  c == [Awake EXCEPT !.ime = no, !.ei = no]
  <1>1. Ends(After(1), 1, c)
    BY DEF DisableInterrupts
  <1>2. no \in BOOLEAN
    BY Truths, Zenon
  <1> HIDE DEF no
  <1>3. c \in Controls
    BY <1>2, AwakeTyped, ControlsWithTwo, Zenon
  <1>4. IsState(After(1))
    BY AfterTyped
  <1> HIDE DEF c
  <1> QED BY <1>1, <1>3, <1>4, EndsMoved

LEMMA EnableMoves == ASSUME MachineTypeOK, EnableInterrupts PROVE MovedBy(1)
  <1> DEFINE yes == TRUE  c == [Awake EXCEPT !.ei = yes]
  <1>1. Ends(After(1), 1, c)
    BY DEF EnableInterrupts
  <1>2. yes \in BOOLEAN
    BY Truths, Zenon
  <1> HIDE DEF yes
  <1>3. c \in Controls
    BY <1>2, AwakeTyped, ControlsWith, Zenon
  <1>4. IsState(After(1))
    BY AfterTyped
  <1> HIDE DEF c
  <1> QED BY <1>1, <1>3, <1>4, EndsMoved

LEMMA IllegalMoves == ASSUME MachineTypeOK, IllegalOpcode PROVE MovedBy(1)
  <1> DEFINE yes == TRUE  c == [Awake EXCEPT !.illegal = yes]
  <1>1. Ends(After(1), 1, c)
    BY DEF IllegalOpcode
  <1>2. yes \in BOOLEAN
    BY Truths, Zenon
  <1> HIDE DEF yes
  <1>3. c \in Controls
    BY <1>2, AwakeTyped, ControlsWith, Zenon
  <1>4. IsState(After(1))
    BY AfterTyped
  <1> HIDE DEF c
  <1> QED BY <1>1, <1>3, <1>4, EndsMoved

LEMMA PushPairMoves == ASSUME MachineTypeOK, PushPair PROVE MovedBy(1)
  <1> DEFINE w == Rp2(regs, Field.p)  s == Push(After(1), w)
  <1>1. regs \in Registers /\ regs.pc \in Word /\ Field.p \in 0 .. 3
    BY Fetched, FieldTyped, RegisterParts
  <1>2. w \in Word
    BY <1>1, StackedPairTyped
  <1>3. Finish(s, 4)
    BY DEF PushPair
  <1>4. IsState(After(1))
    BY AfterTyped
  <1> HIDE DEF w
  <1>5. IsState(s) /\ s.r.pc = After(1).r.pc
    BY <1>2, <1>4, PushTyped
  <1> HIDE DEF s
  <1> QED BY <1>3, <1>5, FinishMoved

\* The page behind 0xCB (Cpu::execute_cb).
LEMMA PrefixedMoves == ASSUME MachineTypeOK, Prefixed PROVE MovedBy(2)
  <1> DEFINE cb == Imm8  op == cb \div 64  y == (cb \div 8) % 8  z == cb % 8
             v == GetR8(z)  bit == Bit(v, y)
             rotated == Rotate(y, v, regs.f, TRUE)
             tested == Out(v, bit = 0, FALSE, TRUE, regs.f.C)
             reset == [v |-> v - bit * Weight(y), f |-> regs.f]
             set == [v |-> v + (1 - bit) * Weight(y), f |-> regs.f]
             out == CASE op = 0 -> rotated [] op = 1 -> tested [] op = 2 -> reset [] op = 3 -> set
             s == PutF(After(2), out.f)
             t == PutR8(s, z, out.v)
  <1>1. (op = 1 /\ Finish(s, 2 + Touch(z))) \/ (op # 1 /\ Finish(t, 2 + 2 * Touch(z)))
    <2>1. IF op = 1 THEN Finish(s, 2 + Touch(z)) ELSE Finish(t, 2 + 2 * Touch(z))
      BY Zenon DEF Prefixed, PutF
    <2> HIDE DEF cb, op, y, z, s, t
    <2> QED BY <2>1
  <1>2. cb \in Byte /\ regs.f \in Flags
    BY Fetched, RegisterParts
  <1> HIDE DEF cb
  <1>3. op \in 0 .. 3 /\ y \in 0 .. 7 /\ z \in 0 .. 7
    BY <1>2 DEF Byte
  <1> HIDE DEF op, y, z
  <1>4. v \in Byte
    BY <1>3, OperandTyped
  <1> HIDE DEF v
  <1>5. rotated \in Outcomes
    BY <1>2, <1>3, <1>4, Truths, RotateTyped, Zenon
  <1>6. tested \in Outcomes
    <2>1. regs.f.C \in BOOLEAN
      BY <1>2, FlagFields
    <2> HIDE DEF bit
    <2> QED BY <1>4, <2>1 DEF Out, Flags, Outcomes
  <1>7. reset \in Outcomes /\ set \in Outcomes
    <2> DEFINE low == v - bit * Weight(y)  high == v + (1 - bit) * Weight(y)
    <2>1. low \in Byte /\ high \in Byte
      BY <1>3, <1>4, OneBit
    <2> HIDE DEF low, high
    <2>2. [v |-> low, f |-> regs.f] \in Outcomes /\ [v |-> high, f |-> regs.f] \in Outcomes
      BY <1>2, <2>1 DEF Outcomes
    <2> QED BY <2>2 DEF low, high
  <1> HIDE DEF rotated, tested, reset, set
  <1>8. out \in Outcomes
    BY <1>3, <1>5, <1>6, <1>7
  <1> HIDE DEF out
  <1>9. out.v \in Byte /\ out.f \in Flags
    BY <1>8 DEF Outcomes
  <1>10. IsState(After(2))
    BY AfterTyped
  <1>11. IsState(s) /\ s.r.pc = After(2).r.pc
    BY <1>9, <1>10, PutFTyped
  <1> HIDE DEF s
  <1>12. IsState(t) /\ t.r.pc = After(2).r.pc
    BY <1>3, <1>9, <1>11, PutTyped
  <1> HIDE DEF t
  <1>13. 2 + Touch(z) \in Nat /\ 2 + 2 * Touch(z) \in Nat
    BY TouchIsNat
  <1> QED BY <1>1, <1>11, <1>12, <1>13, FinishMoved

-----------------------------------------------------------------------------
(* The instructions that may jump: they run on, or land at the target.     *)

MovedByOrTo(n, target) ==
  MachineTypeOK' /\ (~ctl.bug => regs'.pc = U16(regs.pc + n) \/ regs'.pc = target)

\* A jump lands at its target,
LEMMA JumpLands ==
  ASSUME MachineTypeOK, NEW s, IsState(s), NEW w \in Word, NEW m \in Nat,
         Finish(Jumped(s, w), m)
  PROVE  MachineTypeOK' /\ regs'.pc = w
  <1> DEFINE t == Jumped(s, w)
  <1>1. IsState(t) /\ t.r.pc = w
    BY JumpedTyped
  <1>2. Finish(t, m)
    OBVIOUS
  <1> HIDE DEF t
  <1> QED BY <1>1, <1>2, Lands

\* and so does a call.
LEMMA CallLands ==
  ASSUME MachineTypeOK, NEW s, IsState(s), NEW w \in Word, NEW m \in Nat,
         Finish(CallTo(s, w), m)
  PROVE  MachineTypeOK' /\ regs'.pc = w
  <1> DEFINE t == CallTo(s, w)
  <1>1. IsState(t) /\ t.r.pc = w
    BY CallTyped
  <1>2. Finish(t, m)
    OBVIOUS
  <1> HIDE DEF t
  <1> QED BY <1>1, <1>2, Lands

\* Where JR lands: relative to the instruction behind it.
RelativeTarget == U16(U16(regs.pc + 2) + Signed(Imm8))

\* The displacement of JR.
LEMMA SignedIsInt == ASSUME NEW v \in Byte PROVE Signed(v) \in -128 .. 127
  BY DEF Signed, Byte

LEMMA JumpRelativeMoves ==
  ASSUME MachineTypeOK, JumpRelative PROVE MovedByOrTo(2, RelativeTarget)
  <1> DEFINE s == After(2)  w == U16(s.r.pc + Signed(Imm8))
  <1>1. IsState(s) /\ (~ctl.bug => s.r.pc = U16(regs.pc + 2))
    BY AfterTyped
  <1>2. (3 \in Nat /\ Finish(Jumped(s, w), 3)) \/ (2 \in Nat /\ Finish(After(2), 2))
    BY DEF JumpRelative, Relative
  <1>3. w \in Word
    <2>1. s.r.pc \in Word
      BY <1>1, RegisterParts DEF IsState
    <2>2. s.r.pc + Signed(Imm8) \in Int
      BY <2>1, Fetched, SignedIsInt DEF Word
    <2> QED BY <2>2, U16IsWord
  <1>4. ~ctl.bug => w = RelativeTarget
    BY <1>1 DEF RelativeTarget
  <1> HIDE DEF w, s
  <1>5. CASE Finish(Jumped(s, w), 3)
    <2>1. MachineTypeOK' /\ regs'.pc = w
      BY <1>1, <1>3, <1>5, JumpLands
    <2> QED BY <1>4, <2>1 DEF MovedByOrTo
  <1>6. CASE Finish(After(2), 2)
    <2>1. MovedBy(2)
      BY <1>1, <1>6, FinishMoved DEF s
    <2> QED BY <2>1 DEF MovedBy, MovedByOrTo
  <1> QED BY <1>2, <1>5, <1>6

LEMMA JumpMoves ==
  ASSUME MachineTypeOK, JumpIf \/ Jump PROVE MovedByOrTo(3, Imm16)
  <1>1. IsState(After(3)) /\ Imm16 \in Word
    BY AfterTyped, Fetched
  <1>2. Finish(Jumped(After(3), Imm16), 4) \/ Finish(After(3), 3)
    BY DEF JumpIf, Jump
  <1>3. CASE Finish(Jumped(After(3), Imm16), 4)
    BY <1>1, <1>3, JumpLands DEF MovedByOrTo
  <1>4. CASE Finish(After(3), 3)
    BY <1>1, <1>4, FinishMoved DEF MovedBy, MovedByOrTo
  <1> QED BY <1>2, <1>3, <1>4

LEMMA CallMoves ==
  ASSUME MachineTypeOK, CallIf \/ Call PROVE MovedByOrTo(3, Imm16)
  <1>1. IsState(After(3)) /\ Imm16 \in Word
    BY AfterTyped, Fetched
  <1>2. Finish(CallTo(After(3), Imm16), 6) \/ Finish(After(3), 3)
    BY DEF CallIf, Call
  <1>3. CASE Finish(CallTo(After(3), Imm16), 6)
    BY <1>1, <1>3, CallLands DEF MovedByOrTo
  <1>4. CASE Finish(After(3), 3)
    BY <1>1, <1>4, FinishMoved DEF MovedBy, MovedByOrTo
  <1> QED BY <1>2, <1>3, <1>4

LEMMA RestartMoves ==
  ASSUME MachineTypeOK, Restart PROVE MovedByOrTo(1, 8 * Field.y)
  <1>1. IsState(After(1)) /\ Field.y \in 0 .. 7
    BY AfterTyped, FieldTyped
  <1>2. 8 * Field.y \in Word
    BY <1>1 DEF Word
  <1>3. Finish(CallTo(After(1), 8 * Field.y), 4)
    BY DEF Restart
  <1> QED BY <1>1, <1>2, <1>3, CallLands DEF MovedByOrTo

\* The return instructions: MachineTypeOK is kept, PC is what the stack says.
LEMMA ReturnLands ==
  ASSUME MachineTypeOK
  PROVE  /\ IsState(Popped(After(1))) /\ IsState(After(1)) /\ Top \in Word
         /\ IsState(Jumped(Popped(After(1)), Top))
  <1>1. IsState(After(1))
    BY AfterTyped
  <1>2. IsState(Popped(After(1))) /\ Top \in Word
    BY <1>1, PoppedTyped, Fetched
  <1> QED BY <1>1, <1>2, JumpedTyped

\* Returns keep the types.
LEMMA ReturnIfTyped == ASSUME MachineTypeOK, ReturnIf PROVE MachineTypeOK'
  <1>1. Finish(Jumped(Popped(After(1)), Top), 5) \/ Finish(After(1), 2)
    BY DEF ReturnIf
  <1> QED BY <1>1, ReturnLands, Lands

LEMMA ReturnTyped == ASSUME MachineTypeOK, Return PROVE MachineTypeOK'
  <1>1. Finish(Jumped(Popped(After(1)), Top), 4)
    BY DEF Return
  <1> QED BY <1>1, ReturnLands, Lands

LEMMA ReturnFromInterruptTyped == ASSUME MachineTypeOK, ReturnFromInterrupt PROVE MachineTypeOK'
  <1> DEFINE yes == TRUE  c == [Awake EXCEPT !.ime = yes]
  <1>1. Ends(Jumped(Popped(After(1)), Top), 4, c)
    BY DEF ReturnFromInterrupt
  <1>2. yes \in BOOLEAN
    BY Truths, Zenon
  <1> HIDE DEF yes
  <1>3. c \in Controls
    BY <1>2, AwakeTyped, ControlsWith, Zenon
  <1> HIDE DEF c
  <1> QED BY <1>1, <1>3, ReturnLands, EndsTyped

\* JP HL keeps the types.
LEMMA JumpHlTyped == ASSUME MachineTypeOK, JumpHl PROVE MachineTypeOK'
  <1>1. IsState(After(1)) /\ HL(regs) \in Word
    BY AfterTyped, Fetched, PairTyped
  <1>2. Finish(Jumped(After(1), HL(regs)), 1)
    BY DEF JumpHl
  <1> QED BY <1>1, <1>2, JumpLands

-----------------------------------------------------------------------------
(* Interrupts, and sleep. *)

\* Taking a bit that is set out of the five of the requests.
LEMMA RequestTaken ==
  ASSUME NEW v \in 0 .. 31, NEW i \in 0 .. 4
  PROVE  (IF Bit(v, i) = 1 THEN v - Weight(i) ELSE v) \in 0 .. 31
  <1>1. Weight(i) \in 1 .. 16 /\ Bit(v, i) = (v \div Weight(i)) % 2
    BY DEF Weight, Bit
  <1>2. ASSUME v < Weight(i) PROVE Bit(v, i) = 0
    BY <1>1, <1>2
  <1> QED BY <1>1, <1>2

\* The bus with other requests.
LEMMA BusWithRequests ==
  ASSUME NEW b, IsBus(b), NEW v \in 0 .. 31
  PROVE  IsBus([b EXCEPT !.iflag = v])
  <1>1. IsBus([b EXCEPT !.iflag = v % 32])
    <2>1. IsMemory(b.cells) /\ v \in 0 .. 255
      BY BusParts
    <2> QED BY <2>1, BusWith
  <1>2. v % 32 = v
    OBVIOUS
  <1> QED BY <1>1, <1>2

\* An interrupt taken keeps the types (Cpu::service_interrupt).
LEMMA DispatchTyped == ASSUME MachineTypeOK, Dispatch PROVE MachineTypeOK'
  <1> DEFINE no == FALSE  start == [r |-> regs, b |-> bus]  s == Push(start, regs.pc)
  <1>1. PICK i \in 0 .. 4 :
          /\ regs' = [s.r EXCEPT !.pc = 64 + 8 * i]
          /\ bus' = [s.b EXCEPT !.iflag =
                       IF Bit(s.b.iflag, i) = 1 THEN s.b.iflag - Weight(i) ELSE s.b.iflag]
    BY DEF Dispatch
  <1>2. ctl' = [ctl EXCEPT !.ime = no, !.halted = no] /\ cycles' = 20
    BY DEF Dispatch
  <1>3. no \in BOOLEAN
    BY Truths, Zenon
  <1> HIDE DEF no
  <1>4. ctl \in Controls /\ regs \in Registers /\ IsBus(bus) /\ regs.pc \in Word
    BY Fetched, RegisterParts
  <1>5. ctl' \in Controls
    BY <1>2, <1>3, <1>4, ControlsWithTwo, Zenon
  <1>6. IsState(start)
    BY <1>4 DEF IsState
  <1> HIDE DEF start
  <1>7. IsState(s)
    BY <1>4, <1>6, PushTyped
  <1> HIDE DEF s
  <1>8. regs' \in Registers
    <2> DEFINE w == 64 + 8 * i
    <2>1. w \in Word
      BY DEF Word
    <2> HIDE DEF w
    <2>2. [s.r EXCEPT !.pc = w] \in Registers
      BY <1>7, <2>1 DEF IsState, Registers
    <2> QED BY <1>1, <2>2 DEF w
  <1>9. IsBus(bus')
    <2> DEFINE b == s.b  f == b.iflag  v == IF Bit(f, i) = 1 THEN f - Weight(i) ELSE f
    <2>1. IsBus(b)
      BY <1>7 DEF IsState
    <2>2. f \in 0 .. 31
      BY <2>1, BusParts
    <2>3. bus' = [b EXCEPT !.iflag = v]
      BY <1>1
    <2> HIDE DEF f
    <2>4. v \in 0 .. 31
      BY <2>2, RequestTaken
    <2> HIDE DEF b, v
    <2>5. IsBus([b EXCEPT !.iflag = v])
      BY <2>1, <2>4, BusWithRequests
    <2> QED BY <2>3, <2>5
  <1> QED BY <1>2, <1>5, <1>8, <1>9
          DEF MachineTypeOK, IsBus, BusOver, IsMemory, Registers, Controls

\* So does a machine cycle asleep.
LEMMA IdleTyped == ASSUME MachineTypeOK, Idle PROVE MachineTypeOK'
  <1> DEFINE h == ctl.halted /\ Pending = 0  c == [ctl EXCEPT !.halted = h]
  <1>1. ctl' = c /\ cycles' = 4 /\ regs' = regs /\ bus' = bus
    BY DEF Idle
  <1>2. h \in BOOLEAN /\ ctl \in Controls /\ regs \in Registers /\ IsBus(bus)
    BY DEF MachineTypeOK
  <1> HIDE DEF h
  <1>3. c \in Controls
    BY <1>2, ControlsWith, Zenon
  <1> HIDE DEF c
  <1>4. IsBus(bus')
    BY <1>1, <1>2
  <1> QED BY <1>1, <1>2, <1>3, <1>4
          DEF MachineTypeOK, IsBus, BusOver, IsMemory, Registers, Controls

-----------------------------------------------------------------------------
(* Cpu::step keeps every register in its width.                            *)

\* Every instruction keeps the types.
LEMMA ExecuteTyped == ASSUME MachineTypeOK, Execute PROVE MachineTypeOK'
  <1>1. CASE Nop \/ StoreSp \/ Stop \/ LoadPair \/ AddHlPair \/ LoadIndirect \/ StepPair \/ StepByte
    BY <1>1, NopMoves, StoreSpMoves, StopMoves, LoadPairMoves, AddHlPairMoves, LoadIndirectMoves,
       StepPairMoves, StepByteMoves DEF MovedBy
  <1>2. CASE LoadImmediate \/ Accumulator \/ Halt \/ Move \/ AluRegister \/ AluImmediate \/ Prefixed
    BY <1>2, LoadImmediateMoves, AccumulatorMoves, HaltMoves, MoveMoves, AluRegisterMoves,
       AluImmediateMoves, PrefixedMoves DEF MovedBy
  <1>3. CASE StoreHigh \/ LoadHigh \/ StoreC \/ LoadC \/ StoreWord \/ LoadWord
    BY <1>3, StoreHighMoves, LoadHighMoves, StoreCMoves, LoadCMoves, StoreWordMoves,
       LoadWordMoves DEF MovedBy
  <1>4. CASE AddSp \/ LoadHlSp \/ LoadSpHl \/ Pop \/ PushPair
    BY <1>4, AddSpMoves, LoadHlSpMoves, LoadSpHlMoves, PopMoves, PushPairMoves DEF MovedBy
  <1>5. CASE DisableInterrupts \/ EnableInterrupts \/ IllegalOpcode
    BY <1>5, DisableMoves, EnableMoves, IllegalMoves DEF MovedBy
  <1>6. CASE JumpRelative \/ JumpIf \/ Jump \/ CallIf \/ Call \/ Restart
    BY <1>6, JumpRelativeMoves, JumpMoves, CallMoves, RestartMoves DEF MovedByOrTo
  <1>7. CASE ReturnIf \/ Return \/ ReturnFromInterrupt \/ JumpHl
    BY <1>7, ReturnIfTyped, ReturnTyped, ReturnFromInterruptTyped, JumpHlTyped
  <1> QED BY <1>1, <1>2, <1>3, <1>4, <1>5, <1>6, <1>7 DEF Execute

\* Every step does.
LEMMA StepTyped == ASSUME MachineTypeOK, Step PROVE MachineTypeOK'
  BY ExecuteTyped, DispatchTyped, IdleTyped DEF Step

\* A component that raises its line sets one of five bits (Bus::request_interrupt).
LEMMA RequestMade ==
  ASSUME NEW v \in 0 .. 31, NEW i \in 0 .. 4
  PROVE  (IF Bit(v, i) = 1 THEN v ELSE v + Weight(i)) \in 0 .. 31
  <1>1. CASE i = 0
    BY <1>1 DEF Weight, Bit
  <1>2. CASE i = 1
    BY <1>2 DEF Weight, Bit
  <1>3. CASE i = 2
    BY <1>3 DEF Weight, Bit
  <1>4. CASE i = 3
    BY <1>4 DEF Weight, Bit
  <1>5. CASE i = 4
    BY <1>5 DEF Weight, Bit
  <1> QED BY <1>1, <1>2, <1>3, <1>4, <1>5

\* A request keeps the types.
LEMMA RequestKeepsTypes == ASSUME MachineTypeOK, Request PROVE MachineTypeOK'
  <1> DEFINE f == bus.iflag
  <1>1. PICK i \in 0 .. 4 :
          bus' = [bus EXCEPT !.iflag = IF Bit(f, i) = 1 THEN f ELSE f + Weight(i)]
    BY DEF Request
  <1> DEFINE v == IF Bit(f, i) = 1 THEN f ELSE f + Weight(i)
  <1>2. regs \in Registers /\ IsBus(bus) /\ ctl \in Controls /\ cycles \in Nat
    BY DEF MachineTypeOK
  <1>3. f \in 0 .. 31
    BY <1>2, BusParts
  <1> HIDE DEF f
  <1>4. v \in 0 .. 31
    BY <1>3, RequestMade
  <1>5. bus' = [bus EXCEPT !.iflag = v]
    BY <1>1
  <1> HIDE DEF v
  <1>6. IsBus(bus')
    BY <1>2, <1>4, <1>5, BusWithRequests
  <1>7. regs' = regs /\ ctl' = ctl /\ cycles' = cycles
    BY DEF Request
  <1> QED BY <1>2, <1>6, <1>7
          DEF MachineTypeOK, IsBus, BusOver, IsMemory, Registers, Controls

\* The machine as Cpu::reset and the bus leave it.
LEMMA PowerOnTyped ==
  ASSUME NEW cgb \in BOOLEAN, NEW rom \in Roms, PowerOn(cgb, rom) PROVE MachineTypeOK
  <1>1. IsBus(bus)
    BY PowerOnBusTyped DEF PowerOn
  <1>2. FlagsOf(128) \in Flags /\ FlagsOf(176) \in Flags
    BY FlagsOfTyped
  <1>3. regs \in Registers
    <2> DEFINE f == FlagsOf(128)  g == FlagsOf(176)
    <2>1. \/ regs = [a |-> 17, f |-> f, b |-> 0, c |-> 0, d |-> 255, e |-> 86,
                     h |-> 0, l |-> 13, sp |-> 65534, pc |-> 256]
          \/ regs = [a |-> 1, f |-> g, b |-> 0, c |-> 19, d |-> 0, e |-> 216,
                     h |-> 1, l |-> 77, sp |-> 65534, pc |-> 256]
      BY DEF PowerOn, PowerOnRegs
    <2> HIDE DEF f, g
    <2>2. f \in Flags /\ g \in Flags
      BY <1>2 DEF f, g
    <2> QED BY <2>1, <2>2 DEF Registers, Byte, Word
  <1>4. ctl \in Controls
    BY DEF PowerOn, PowerOnCtl, Controls
  <1>5. cycles \in Nat
    BY DEF PowerOn
  <1> QED BY <1>1, <1>3, <1>4, <1>5 DEF MachineTypeOK

\* Whatever ROM is in it and whenever interrupts come, a machine keeps every
\* register and every cell in its width, PC and SP at addresses, the requests to
\* their five lines and the bank of work RAM to eight (Cpu::step, Bus::write): no
\* sum, shift, pair, pop or store of any instruction leaves a value uncut.
THEOREM MachineIsTyped == MachineSpec => []MachineTypeOK
  <1>1. ASSUME NEW cgb \in BOOLEAN, NEW rom \in Roms, PowerOn(cgb, rom) PROVE MachineTypeOK
    BY <1>1, PowerOnTyped
  <1>2. MachineTypeOK /\ [Step \/ Request]_machine => MachineTypeOK'
    <2>1. ASSUME MachineTypeOK, UNCHANGED machine PROVE MachineTypeOK'
      BY <2>1 DEF machine, MachineTypeOK, IsBus, BusOver, IsMemory, Registers, Controls
    <2> QED BY <2>1, StepTyped, RequestKeepsTypes
  <1>3. (\E cgb \in BOOLEAN, rom \in Roms : PowerOn(cgb, rom)) => MachineTypeOK
    BY <1>1
  <1> QED BY <1>2, <1>3, PTL DEF MachineSpec

-----------------------------------------------------------------------------
(* The lengths and the targets the disassembler prints.                    *)

\* The length of a printed instruction.
LEMMA InsLength == ASSUME NEW l, NEW t PROVE Ins(l, t).length = l
  BY DEF Ins

\* Adding the displacement to PC in two 16-bit sums, or in one.
LEMMA RelativeOnce ==
  ASSUME NEW pc \in Word, NEW v \in Byte
  PROVE  U16(U16(pc + 2) + Signed(v)) = (pc + 2 + (IF v < 128 THEN v ELSE v - 256)) % 65536
  <1> DEFINE d == IF v < 128 THEN v ELSE v - 256
  <1>1. d \in -128 .. 127 /\ Signed(v) = d
    BY DEF Signed, Byte
  <1>2. pc \in Int /\ 0 <= pc /\ pc < 65536
    BY DEF Word
  <1>3. U16(pc + 2) = pc + 2 \/ U16(pc + 2) = pc + 2 - 65536
    BY <1>2 DEF U16
  <1> HIDE DEF d
  <1>4. (pc + 2 - 65536 + d) % 65536 = (pc + 2 + d) % 65536
    BY <1>1, <1>2
  <1> QED BY <1>1, <1>2, <1>3, <1>4 DEF U16, d

\* What is printed for the instruction at PC.
LEMMA Printed ==
  ASSUME MachineTypeOK, ~ctl.bug
  PROVE  /\ Load(bus, regs.pc) = Field.op
         /\ AtPc = Disassembled(regs.pc, Field.op, Imm8, At(2))
  <1>1. regs.pc \in Word
    BY Fetched, RegisterParts
  <1>2. U16(regs.pc + 0) = regs.pc
    BY <1>1 DEF Word, U16
  <1>3. /\ At(0) = Load(bus, regs.pc) /\ At(1) = Load(bus, U16(regs.pc + 1))
        /\ At(2) = Load(bus, U16(regs.pc + 2))
    BY <1>2 DEF At
  <1>4. Field.op = At(0)
    BY FieldTyped
  <1> QED BY <1>3, <1>4 DEF AtPc, Imm8

\* The opcode space in its four quarters.
LEMMA Rows ==
  ASSUME MachineTypeOK, ~ctl.bug
  PROVE  /\ Field.x = 0 => AtPc = DisassembledLow(Field.y, Field.z, Imm8, Imm16, RelativeTarget)
         /\ Field.x \in {1, 2} => AtPc.length = 1
         /\ Field.x = 3 => AtPc = DisassembledHigh(Field.y, Field.z, Imm8, Imm16)
  <1> DEFINE op == Field.op  i == Imm8  h == At(2)  w == 256 * h + i
             t == (regs.pc + 2 + (IF i < 128 THEN i ELSE i - 256)) % 65536
  <1>1. op \in Byte /\ i \in Byte /\ h \in Byte /\ regs.pc \in Word
    BY Fetched, FieldTyped, RegisterParts
  <1>2. t = RelativeTarget
    BY <1>1, RelativeOnce DEF RelativeTarget
  <1>3. w = Imm16
    <2>1. i \in Int /\ h \in Int
      BY <1>1 DEF Byte
    <2>2. Imm16 = i + 256 * h
      BY DEF Imm16, Imm8
    <2> HIDE DEF i, h
    <2> QED BY <2>1, <2>2
  <1>4. Field.x = op \div 64 /\ Field.y = (op \div 8) % 8 /\ Field.z = op % 8
    BY DEF Field, Decoded
  <1>5. op \div 64 \in 0 .. 3
    BY <1>1 DEF Byte
  <1> DEFINE x == op \div 64  y == (op \div 8) % 8  z == op % 8
             r == Disassembled(regs.pc, op, i, h)
  <1>6. /\ x = 0 => r = DisassembledLow(y, z, i, w, t)
        /\ x \in {1, 2} => r.length = 1
        /\ x = 3 => r = DisassembledHigh(y, z, i, w)
    <2>1. r = CASE x = 0 -> DisassembledLow(y, z, i, w, t)
                [] x = 1 -> IF op = 118 THEN Ins(1, <<"HALT">>)
                            ELSE Ins(1, <<"LD", R8Name[y + 1], R8Name[z + 1]>>)
                [] x = 2 -> Ins(1, <<AluName[y + 1], R8Name[z + 1]>>)
                [] x = 3 -> DisassembledHigh(y, z, i, w)
      BY DEF Disassembled
    <2> HIDE DEF r, x, y, z, w, t
    <2> QED BY <2>1 DEF Ins
  <1>7. AtPc = r
    BY Printed
  <1> HIDE DEF r, t, w
  <1> QED BY <1>2, <1>3, <1>4, <1>6, <1>7

\* The lengths printed for 0x00-0x3F.
LEMMA LowLengths ==
  ASSUME NEW y \in 0 .. 7, NEW z \in 0 .. 7, NEW i, NEW w, NEW t
  PROVE  LET n == DisassembledLow(y, z, i, w, t).length IN
         /\ z = 0 /\ y > 1 => n = 2
         /\ z = 0 /\ y = 0 => n = 1
         /\ z = 0 /\ y = 1 => n = 3
         /\ z = 1 /\ y % 2 = 0 => n = 3
         /\ z = 1 /\ y % 2 # 0 => n = 1
         /\ z \in {2, 3, 4, 5, 7} => n = 1
         /\ z = 6 => n = 2
  <1> DEFINE n == DisassembledLow(y, z, i, w, t).length
  <1>2. CASE z = 0
    <2>1. DisassembledLow(0, 0, i, w, t).length = 1
      BY DEF DisassembledLow, Ins
    <2>2. DisassembledLow(1, 0, i, w, t).length = 3
      <3>1. DisassembledLow(1, 0, i, w, t) = Ins(3, <<"LD (nn)", w, "SP">>)
        BY DEF DisassembledLow
      <3> QED BY <3>1, InsLength
    <2>3. DisassembledLow(2, 0, i, w, t).length = 2
      BY DEF DisassembledLow, Ins
    <2>4. DisassembledLow(3, 0, i, w, t).length = 2
      BY DEF DisassembledLow, Ins
    <2>5. y > 3 => n = 2
      BY <1>2 DEF DisassembledLow, Ins
    <2> QED BY <1>2, <2>1, <2>2, <2>3, <2>4, <2>5
  <1>4. CASE z = 1
    <2>1. (y % 2) = 0 => n = 3
      BY <1>4 DEF DisassembledLow, Ins
    <2>2. (y % 2) # 0 => n = 1
      BY <1>4 DEF DisassembledLow, Ins
    <2> QED BY <1>4, <2>1, <2>2
  <1>5. z = 2 => n = 1
    BY DEF DisassembledLow, Ins
  <1>6. z = 3 => n = 1
    BY DEF DisassembledLow, Ins
  <1>7. z = 4 => n = 1
    BY DEF DisassembledLow, Ins
  <1>8. z = 5 => n = 1
    BY DEF DisassembledLow, Ins
  <1>9. z = 6 => n = 2
    BY DEF DisassembledLow, Ins
  <1>10. z = 7 => n = 1
    BY DEF DisassembledLow, Ins
  <1> QED BY <1>2, <1>4, <1>5, <1>6, <1>7, <1>8, <1>9, <1>10

\* Where the jumps of 0x00-0x3F go: the last word.
LEMMA LowTargets ==
  ASSUME NEW y \in 3 .. 7, NEW i, NEW w, NEW t
  PROVE  LET words == DisassembledLow(y, 0, i, w, t).text IN words[Len(words)] = t
  <1> DEFINE d == DisassembledLow(y, 0, i, w, t)
  <1>1. CASE y = 3
    <2>1. d = Ins(2, <<"JR", t>>)
      BY <1>1 DEF DisassembledLow
    <2> HIDE DEF d
    <2>2. d.text = <<"JR", t>>
      BY <2>1 DEF Ins
    <2>3. LET words == d.text IN words[Len(words)] = t
      BY <2>2
    <2> QED BY <2>3 DEF d
  <1>2. CASE y \in 4 .. 7
    <2> DEFINE printed(c) == Ins(2, <<"JR", c, t>>)
    <2>1. DisassembledLow(4, 0, i, w, t) = printed(CcName[1])
      BY DEF DisassembledLow
    <2>2. DisassembledLow(5, 0, i, w, t) = printed(CcName[2])
      BY DEF DisassembledLow
    <2>3. DisassembledLow(6, 0, i, w, t) = printed(CcName[3])
      BY DEF DisassembledLow
    <2>4. DisassembledLow(7, 0, i, w, t) = printed(CcName[4])
      BY DEF DisassembledLow
    <2> HIDE DEF printed
    <2>5. \E c : d = printed(c)
      BY <1>2, <2>1, <2>2, <2>3, <2>4
    <2> HIDE DEF d
    <2>6. PICK c : d = printed(c)
      BY <2>5
    <2>7. d.text = <<"JR", c, t>>
      BY <2>6 DEF Ins, printed
    <2>8. LET words == d.text IN words[Len(words)] = t
      BY <2>7
    <2> QED BY <2>8 DEF d
  <1> QED BY <1>1, <1>2

\* Two bytes behind 0xCB.
LEMMA PrefixedLength == ASSUME NEW cb \in Byte PROVE DisassembledCb(cb).length = 2
  <1> DEFINE x == cb \div 64
  <1>1. x \in 0 .. 3
    BY DEF Byte
  <1>2. x = 0 => DisassembledCb(cb).length = 2
    BY DEF DisassembledCb, Ins
  <1>3. x = 1 => DisassembledCb(cb).length = 2
    BY DEF DisassembledCb, Ins
  <1>4. x = 2 => DisassembledCb(cb).length = 2
    BY DEF DisassembledCb, Ins
  <1>5. x = 3 => DisassembledCb(cb).length = 2
    BY DEF DisassembledCb, Ins
  <1> QED BY <1>1, <1>2, <1>3, <1>4, <1>5

\* The lengths printed for 0xC0-0xFF.
LEMMA HighLengths ==
  ASSUME NEW y \in 0 .. 7, NEW z \in 0 .. 7, NEW i \in Byte, NEW w
  PROVE  LET n == DisassembledHigh(y, z, i, w).length IN
         /\ z = 0 => n = IF y < 4 THEN 1 ELSE 2
         /\ z = 1 => n = 1
         /\ z = 2 => n = IF y < 4 \/ y \in {5, 7} THEN 3 ELSE 1
         /\ z = 3 => n = IF y = 0 THEN 3 ELSE IF y = 1 THEN 2 ELSE 1
         /\ z = 4 => n = IF y < 4 THEN 3 ELSE 1
         /\ z = 5 => n = IF y = 1 THEN 3 ELSE 1
         /\ z = 6 => n = 2
         /\ z = 7 => n = 1
  <1> DEFINE n == DisassembledHigh(y, z, i, w).length
  <1>1. CASE z = 0
    <2>1. y < 4 => n = 1
      BY <1>1 DEF DisassembledHigh, Ins
    <2>2. DisassembledHigh(4, 0, i, w).length = 2
      <3>1. DisassembledHigh(4, 0, i, w) = Ins(2, <<"LDH (n)", i, "A">>)
        BY DEF DisassembledHigh
      <3> QED BY <3>1, InsLength
    <2>3. DisassembledHigh(5, 0, i, w).length = 2
      <3>1. DisassembledHigh(5, 0, i, w) = Ins(2, <<"ADD SP", IF i < 128 THEN i ELSE i - 256>>)
        BY DEF DisassembledHigh
      <3> QED BY <3>1, InsLength
    <2>4. DisassembledHigh(6, 0, i, w).length = 2
      <3>1. DisassembledHigh(6, 0, i, w) = Ins(2, <<"LDH A", i>>)
        BY DEF DisassembledHigh
      <3> QED BY <3>1, InsLength
    <2>5. DisassembledHigh(7, 0, i, w).length = 2
      <3>1. DisassembledHigh(7, 0, i, w) = Ins(2, <<"LD HL, SP", IF i < 128 THEN i ELSE i - 256>>)
        BY DEF DisassembledHigh
      <3> QED BY <3>1, InsLength
    <2> QED BY <1>1, <2>1, <2>2, <2>3, <2>4, <2>5
  <1>2. CASE z = 1
    <2>1. (y % 2) = 0 => n = 1
      BY <1>2 DEF DisassembledHigh, Ins
    <2>2. (y % 2) # 0 => n = 1
      BY <1>2 DEF DisassembledHigh, Ins
    <2> QED BY <1>2, <2>1, <2>2
  <1>3. CASE z = 2
    <2>1. y < 4 => n = 3
      BY <1>3 DEF DisassembledHigh, Ins
    <2>2. DisassembledHigh(4, 2, i, w).length = 1
      <3>1. DisassembledHigh(4, 2, i, w) = Ins(1, <<"LDH ($FF00+C), A">>)
        BY DEF DisassembledHigh
      <3> QED BY <3>1, InsLength
    <2>3. DisassembledHigh(5, 2, i, w).length = 3
      <3>1. DisassembledHigh(5, 2, i, w) = Ins(3, <<"LD (nn)", w, "A">>)
        BY DEF DisassembledHigh
      <3> QED BY <3>1, InsLength
    <2>4. DisassembledHigh(6, 2, i, w).length = 1
      <3>1. DisassembledHigh(6, 2, i, w) = Ins(1, <<"LDH A, ($FF00+C)">>)
        BY DEF DisassembledHigh
      <3> QED BY <3>1, InsLength
    <2>5. DisassembledHigh(7, 2, i, w).length = 3
      <3>1. DisassembledHigh(7, 2, i, w) = Ins(3, <<"LD A", w>>)
        BY DEF DisassembledHigh
      <3> QED BY <3>1, InsLength
    <2> QED BY <1>3, <2>1, <2>2, <2>3, <2>4, <2>5
  <1>4. CASE z = 3
    <2>1. DisassembledHigh(0, 3, i, w).length = 3
      BY DEF DisassembledHigh, Ins
    <2>2. DisassembledHigh(1, 3, i, w).length = 2
      BY PrefixedLength DEF DisassembledHigh, Ins
    <2>3. DisassembledHigh(6, 3, i, w).length = 1
      BY DEF DisassembledHigh, Ins
    <2>4. DisassembledHigh(7, 3, i, w).length = 1
      BY DEF DisassembledHigh, Ins
    <2>5. y \in 2 .. 5 => n = 1
      BY <1>4 DEF DisassembledHigh, Ins
    <2> QED BY <1>4, <2>1, <2>2, <2>3, <2>4, <2>5
  <1>5. CASE z = 4
    <2>1. y < 4 => n = 3
      BY <1>5 DEF DisassembledHigh, Ins
    <2>2. y > 3 => n = 1
      BY <1>5 DEF DisassembledHigh, Ins
    <2> QED BY <1>5, <2>1, <2>2
  <1>6. CASE z = 5
    <2>1. (y % 2) = 0 => n = 1
      BY <1>6 DEF DisassembledHigh, Ins
    <2>2. DisassembledHigh(1, 5, i, w).length = 3
      BY DEF DisassembledHigh, Ins
    <2>3. y \in {3, 5, 7} => n = 1
      BY <1>6 DEF DisassembledHigh, Ins
    <2> QED BY <1>6, <2>1, <2>2, <2>3
  <1>7. z = 6 => n = 2
    BY DEF DisassembledHigh, Ins
  <1>8. z = 7 => n = 1
    BY DEF DisassembledHigh, Ins
  <1> QED BY <1>1, <1>2, <1>3, <1>4, <1>5, <1>6, <1>7, <1>8

\* What is printed for the jumps of 0xC0-0xFF: the target last, unless it is not known.
LEMMA TextOf == ASSUME NEW l, NEW t PROVE Ins(l, t).text = t
  BY DEF Ins

\* JP cc and CALL cc.
LEMMA ConditionalTargets ==
  ASSUME NEW y \in 0 .. 3, NEW z \in {2, 4}, NEW i, NEW w
  PROVE  LET words == DisassembledHigh(y, z, i, w).text IN words[Len(words)] = w
  <1>1. CASE z = 2
    <2> DEFINE d == DisassembledHigh(y, 2, i, w)  printed(c) == Ins(3, <<"JP", c, w>>)
    <2>1. DisassembledHigh(0, 2, i, w) = printed(CcName[1])
      BY DEF DisassembledHigh
    <2>2. DisassembledHigh(1, 2, i, w) = printed(CcName[2])
      BY DEF DisassembledHigh
    <2>3. DisassembledHigh(2, 2, i, w) = printed(CcName[3])
      BY DEF DisassembledHigh
    <2>4. DisassembledHigh(3, 2, i, w) = printed(CcName[4])
      BY DEF DisassembledHigh
    <2> HIDE DEF printed
    <2>5. \E c : d = printed(c)
      BY <2>1, <2>2, <2>3, <2>4
    <2> HIDE DEF d
    <2>6. PICK c : d = printed(c)
      BY <2>5
    <2>7. d.text = <<"JP", c, w>>
      BY <2>6, TextOf DEF printed
    <2>8. LET words == d.text IN words[Len(words)] = w
      BY <2>7
    <2> QED BY <1>1, <2>8 DEF d
  <1>2. CASE z = 4
    <2> DEFINE d == DisassembledHigh(y, 4, i, w)  printed(c) == Ins(3, <<"CALL", c, w>>)
    <2>1. DisassembledHigh(0, 4, i, w) = printed(CcName[1])
      BY DEF DisassembledHigh
    <2>2. DisassembledHigh(1, 4, i, w) = printed(CcName[2])
      BY DEF DisassembledHigh
    <2>3. DisassembledHigh(2, 4, i, w) = printed(CcName[3])
      BY DEF DisassembledHigh
    <2>4. DisassembledHigh(3, 4, i, w) = printed(CcName[4])
      BY DEF DisassembledHigh
    <2> HIDE DEF printed
    <2>5. \E c : d = printed(c)
      BY <2>1, <2>2, <2>3, <2>4
    <2> HIDE DEF d
    <2>6. PICK c : d = printed(c)
      BY <2>5
    <2>7. d.text = <<"CALL", c, w>>
      BY <2>6, TextOf DEF printed
    <2>8. LET words == d.text IN words[Len(words)] = w
      BY <2>7
    <2> QED BY <1>2, <2>8 DEF d
  <1> QED BY <1>1, <1>2

\* JP and CALL.
LEMMA WordTargets ==
  ASSUME NEW i, NEW w
  PROVE  /\ DisassembledHigh(0, 3, i, w).text = <<"JP", w>>
         /\ DisassembledHigh(1, 5, i, w).text = <<"CALL", w>>
  <1>1. DisassembledHigh(0, 3, i, w) = Ins(3, <<"JP", w>>)
    BY DEF DisassembledHigh
  <1>2. DisassembledHigh(1, 5, i, w) = Ins(3, <<"CALL", w>>)
    BY DEF DisassembledHigh
  <1> QED BY <1>1, <1>2, TextOf

\* RST.
LEMMA RestartTarget ==
  ASSUME NEW y \in 0 .. 7, NEW i, NEW w
  PROVE  DisassembledHigh(y, 7, i, w).text = <<"RST", 8 * y>>
  <1>1. DisassembledHigh(y, 7, i, w) = Ins(1, <<"RST", 8 * y>>)
    BY DEF DisassembledHigh
  <1> QED BY <1>1, TextOf

\* RET cc prints no target,
LEMMA ReturnIfText ==
  ASSUME NEW y \in 0 .. 3, NEW i, NEW w
  PROVE  DisassembledHigh(y, 0, i, w).text[1] = "RET"
  <1> DEFINE d == DisassembledHigh(y, 0, i, w)  printed(c) == Ins(1, <<"RET", c>>)
  <1>1. DisassembledHigh(0, 0, i, w) = printed(CcName[1])
    BY DEF DisassembledHigh
  <1>2. DisassembledHigh(1, 0, i, w) = printed(CcName[2])
    BY DEF DisassembledHigh
  <1>3. DisassembledHigh(2, 0, i, w) = printed(CcName[3])
    BY DEF DisassembledHigh
  <1>4. DisassembledHigh(3, 0, i, w) = printed(CcName[4])
    BY DEF DisassembledHigh
  <1> HIDE DEF printed
  <1>5. \E c : d = printed(c)
    BY <1>1, <1>2, <1>3, <1>4
  <1> HIDE DEF d
  <1>6. PICK c : d = printed(c)
    BY <1>5
  <1>7. d.text = <<"RET", c>>
    BY <1>6, TextOf DEF printed
  <1>8. d.text[1] = "RET"
    BY <1>7
  <1> QED BY <1>8 DEF d

\* nor do RET, RETI and JP HL.
LEMMA ReturnTexts ==
  ASSUME NEW i, NEW w
  PROVE  /\ DisassembledHigh(1, 1, i, w).text[1] = "RET"
         /\ DisassembledHigh(3, 1, i, w).text[1] = "RETI"
         /\ DisassembledHigh(5, 1, i, w).text[1] = "JP HL"
  <1>1. ReturnName[1] = "RET" /\ ReturnName[2] = "RETI" /\ ReturnName[3] = "JP HL"
    BY DEF ReturnName
  <1>2. DisassembledHigh(1, 1, i, w).text[1] = ReturnName[1]
    <2>1. DisassembledHigh(1, 1, i, w) = Ins(1, <<ReturnName[1]>>)
      BY DEF DisassembledHigh
    <2>2. DisassembledHigh(1, 1, i, w).text = <<ReturnName[1]>>
      BY <2>1, TextOf
    <2> QED BY <2>2
  <1>3. DisassembledHigh(3, 1, i, w).text[1] = ReturnName[2]
    <2>1. DisassembledHigh(3, 1, i, w) = Ins(1, <<ReturnName[2]>>)
      BY DEF DisassembledHigh
    <2>2. DisassembledHigh(3, 1, i, w).text = <<ReturnName[2]>>
      BY <2>1, TextOf
    <2> QED BY <2>2
  <1>4. DisassembledHigh(5, 1, i, w).text[1] = ReturnName[3]
    <2>1. DisassembledHigh(5, 1, i, w) = Ins(1, <<ReturnName[3]>>)
      BY DEF DisassembledHigh
    <2>2. DisassembledHigh(5, 1, i, w).text = <<ReturnName[3]>>
      BY <2>1, TextOf
    <2> QED BY <2>2
  <1> QED BY <1>1, <1>2, <1>3, <1>4

-----------------------------------------------------------------------------
(* The ways a step agrees with what is printed. *)

\* A step agrees if it runs on by the length,
LEMMA RunsOn == ASSUME regs'.pc = NextPc PROVE StepAgrees
  BY DEF StepAgrees

\* moved by the length,
LEMMA MovedAgrees ==
  ASSUME ~ctl.bug, NEW n, MovedBy(n), AtPc.length = n PROVE StepAgrees
  BY RunsOn DEF MovedBy, NextPc

\* ran on or jumped to the target printed,
LEMMA JumpedAgrees ==
  ASSUME ~ctl.bug, NEW n, NEW t, MovedByOrTo(n, t), AtPc.length = n,
         Load(bus, regs.pc) \in ControlFlow, LET words == AtPc.text IN words[Len(words)] = t
  PROVE  StepAgrees
  BY DEF StepAgrees, MovedByOrTo, NextPc

\* or is printed without a target.
LEMMA ReturnedAgrees ==
  ASSUME Load(bus, regs.pc) \in ControlFlow, AtPc.text[1] \in {"RET", "RETI", "JP HL"}
  PROVE  StepAgrees
  BY DEF StepAgrees

-----------------------------------------------------------------------------
(* Instruction by instruction. *)

\* 0x00-0x3F but JR.
LEMMA LowAgrees ==
  ASSUME MachineTypeOK, ~ctl.bug,
         \/ Nop \/ StoreSp \/ Stop \/ LoadPair \/ AddHlPair \/ LoadIndirect \/ StepPair
         \/ StepByte \/ LoadImmediate \/ Accumulator
  PROVE  StepAgrees
  <1> DEFINE n == AtPc.length  x == Field.x  y == Field.y  z == Field.z
  <1>1. /\ Field.op = 64 * x + 8 * y + z /\ x \in 0 .. 3 /\ y \in 0 .. 7 /\ z \in 0 .. 7
        /\ Field.q \in 0 .. 1 /\ Field.p \in 0 .. 3 /\ y = 2 * Field.p + Field.q
    BY FieldTyped
  <1>2. x = 0 => LET l == n IN
         /\ z = 0 /\ y > 1 => l = 2
         /\ z = 0 /\ y = 0 => l = 1
         /\ z = 0 /\ y = 1 => l = 3
         /\ z = 1 /\ y % 2 = 0 => l = 3
         /\ z = 1 /\ y % 2 # 0 => l = 1
         /\ z \in {2, 3, 4, 5, 7} => l = 1
         /\ z = 6 => l = 2
    BY <1>1, Rows, LowLengths
  <1>q. (Field.q = 0 => y % 2 = 0) /\ (Field.q = 1 => y % 2 # 0)
    BY <1>1
  <1>f. /\ Nop => x = 0 /\ y = 0 /\ z = 0
        /\ StoreSp => x = 0 /\ y = 1 /\ z = 0
        /\ Stop => x = 0 /\ y = 2 /\ z = 0
        /\ LoadPair => x = 0 /\ z = 1 /\ Field.q = 0
        /\ AddHlPair => x = 0 /\ z = 1 /\ Field.q = 1
        /\ LoadIndirect => x = 0 /\ z = 2
        /\ StepPair => x = 0 /\ z = 3
        /\ StepByte => x = 0 /\ z \in {4, 5}
        /\ LoadImmediate => x = 0 /\ z = 6
        /\ Accumulator => x = 0 /\ z = 7
    <2> DEFINE op == Field.op
    <2>a. op = 64 * x + 8 * y + z /\ x \in 0 .. 3 /\ y \in 0 .. 7 /\ z \in 0 .. 7
      BY <1>1
    <2> HIDE DEF op, x, y, z
    <2>1. /\ op = 0 => x = 0 /\ y = 0 /\ z = 0
          /\ op = 8 => x = 0 /\ y = 1 /\ z = 0
          /\ op = 16 => x = 0 /\ y = 2 /\ z = 0
      BY <2>a
    <2> QED BY <2>1 DEF op, x, y, z, Nop, StoreSp, Stop, LoadPair, AddHlPair, LoadIndirect, StepPair,
                        StepByte, LoadImmediate, Accumulator
  <1> HIDE DEF n, x, y, z
  <1>3. CASE Nop
    BY <1>2, <1>f, <1>3, NopMoves, MovedAgrees DEF n
  <1>4. CASE StoreSp
    BY <1>2, <1>f, <1>4, StoreSpMoves, MovedAgrees DEF n
  <1>5. CASE Stop
    BY <1>2, <1>f, <1>5, StopMoves, MovedAgrees DEF n
  <1>6. CASE LoadPair
    BY <1>2, <1>q, <1>f, <1>6, LoadPairMoves, MovedAgrees DEF n
  <1>7. CASE AddHlPair
    BY <1>2, <1>q, <1>f, <1>7, AddHlPairMoves, MovedAgrees DEF n
  <1>8. CASE LoadIndirect
    BY <1>2, <1>f, <1>8, LoadIndirectMoves, MovedAgrees DEF n
  <1>9. CASE StepPair
    BY <1>2, <1>f, <1>9, StepPairMoves, MovedAgrees DEF n
  <1>10. CASE StepByte
    BY <1>2, <1>f, <1>10, StepByteMoves, MovedAgrees DEF n
  <1>11. CASE LoadImmediate
    BY <1>2, <1>f, <1>11, LoadImmediateMoves, MovedAgrees DEF n
  <1>12. CASE Accumulator
    BY <1>2, <1>f, <1>12, AccumulatorMoves, MovedAgrees DEF n
  <1> QED BY <1>3, <1>4, <1>5, <1>6, <1>7, <1>8, <1>9, <1>10, <1>11, <1>12

\* 0x40-0xBF.
LEMMA MiddleAgrees ==
  ASSUME MachineTypeOK, ~ctl.bug, Halt \/ Move \/ AluRegister PROVE StepAgrees
  <1>1. Field.x \in {1, 2}
    <2>1. CASE Halt
      <3> DEFINE op == Field.op  x == Field.x  y == Field.y  z == Field.z
      <3>1. op = 64 * x + 8 * y + z /\ x \in 0 .. 3 /\ y \in 0 .. 7 /\ z \in 0 .. 7
        BY FieldTyped
      <3>2. op = 118
        BY <2>1 DEF Halt
      <3> HIDE DEF op, x, y, z
      <3>3. x = 1
        BY <3>1, <3>2
      <3> QED BY <3>3 DEF x
    <2> QED BY <2>1 DEF Move, AluRegister
  <1>2. AtPc.length = 1
    BY <1>1, Rows
  <1>3. CASE Halt
    BY <1>2, <1>3, HaltMoves, MovedAgrees
  <1>4. CASE Move
    BY <1>2, <1>4, MoveMoves, MovedAgrees
  <1>5. CASE AluRegister
    BY <1>2, <1>5, AluRegisterMoves, MovedAgrees
  <1> QED BY <1>3, <1>4, <1>5

\* What is printed in the last quarter of the opcodes.
LEMMA HighPrinted ==
  ASSUME MachineTypeOK, ~ctl.bug, Field.x = 3
  PROVE  /\ AtPc = DisassembledHigh(Field.y, Field.z, Imm8, Imm16)
         /\ LET n == AtPc.length  y == Field.y  z == Field.z IN
            /\ z = 0 => n = IF y < 4 THEN 1 ELSE 2
            /\ z = 1 => n = 1
            /\ z = 2 => n = IF y < 4 \/ y \in {5, 7} THEN 3 ELSE 1
            /\ z = 3 => n = IF y = 0 THEN 3 ELSE IF y = 1 THEN 2 ELSE 1
            /\ z = 4 => n = IF y < 4 THEN 3 ELSE 1
            /\ z = 5 => n = IF y = 1 THEN 3 ELSE 1
            /\ z = 6 => n = 2
            /\ z = 7 => n = 1
  <1>1. AtPc = DisassembledHigh(Field.y, Field.z, Imm8, Imm16)
    BY Rows
  <1>2. Field.y \in 0 .. 7 /\ Field.z \in 0 .. 7 /\ Imm8 \in Byte
    BY FieldTyped, Fetched
  <1> QED BY <1>1, <1>2, HighLengths

\* The loads and stores of 0xC0-0xFF.
LEMMA LoadsAgree ==
  ASSUME MachineTypeOK, ~ctl.bug,
         StoreHigh \/ LoadHigh \/ StoreC \/ LoadC \/ StoreWord \/ LoadWord
  PROVE  StepAgrees
  <1>1. Field.x = 3
    BY DEF High, StoreHigh, LoadHigh, StoreC, LoadC, StoreWord, LoadWord
  <1> DEFINE n == AtPc.length  y == Field.y  z == Field.z
  <1>2. /\ z = 0 => n = IF y < 4 THEN 1 ELSE 2
        /\ z = 2 => n = IF y < 4 \/ y \in {5, 7} THEN 3 ELSE 1
    BY <1>1, HighPrinted
  <1>3. /\ StoreHigh => y = 4 /\ z = 0
        /\ LoadHigh  => y = 6 /\ z = 0
        /\ StoreC    => y = 4 /\ z = 2
        /\ LoadC     => y = 6 /\ z = 2
        /\ StoreWord => y = 5 /\ z = 2
        /\ LoadWord  => y = 7 /\ z = 2
    BY DEF High, StoreHigh, LoadHigh, StoreC, LoadC, StoreWord, LoadWord
  <1> HIDE DEF n, y, z
  <1>4. CASE StoreHigh
    BY <1>2, <1>3, <1>4, StoreHighMoves, MovedAgrees DEF n
  <1>5. CASE LoadHigh
    BY <1>2, <1>3, <1>5, LoadHighMoves, MovedAgrees DEF n
  <1>6. CASE StoreC
    BY <1>2, <1>3, <1>6, StoreCMoves, MovedAgrees DEF n
  <1>7. CASE LoadC
    BY <1>2, <1>3, <1>7, LoadCMoves, MovedAgrees DEF n
  <1>8. CASE StoreWord
    BY <1>2, <1>3, <1>8, StoreWordMoves, MovedAgrees DEF n
  <1>9. CASE LoadWord
    BY <1>2, <1>3, <1>9, LoadWordMoves, MovedAgrees DEF n
  <1> QED BY <1>4, <1>5, <1>6, <1>7, <1>8, <1>9

\* SP and the stack.
LEMMA StackAgrees ==
  ASSUME MachineTypeOK, ~ctl.bug, AddSp \/ LoadHlSp \/ LoadSpHl \/ Pop \/ PushPair
  PROVE  StepAgrees
  <1>1. Field.x = 3
    BY DEF High, AddSp, LoadHlSp, LoadSpHl, Pop, PushPair
  <1> DEFINE n == AtPc.length  y == Field.y  z == Field.z
  <1>2. /\ z = 0 => n = IF y < 4 THEN 1 ELSE 2
        /\ z = 1 => n = 1
        /\ z = 5 => n = IF y = 1 THEN 3 ELSE 1
    BY <1>1, HighPrinted
  <1>3. /\ AddSp    => y = 5 /\ z = 0
        /\ LoadHlSp => y = 7 /\ z = 0
        /\ LoadSpHl => z = 1
        /\ Pop      => z = 1
        /\ PushPair => z = 5 /\ Field.q = 0
    BY DEF High, AddSp, LoadHlSp, LoadSpHl, Pop, PushPair
  <1>4. Field.q = 0 => y # 1
    BY FieldTyped
  <1> HIDE DEF n, y, z
  <1>5. CASE AddSp
    BY <1>2, <1>3, <1>5, AddSpMoves, MovedAgrees DEF n
  <1>6. CASE LoadHlSp
    BY <1>2, <1>3, <1>6, LoadHlSpMoves, MovedAgrees DEF n
  <1>7. CASE LoadSpHl
    BY <1>2, <1>3, <1>7, LoadSpHlMoves, MovedAgrees DEF n
  <1>8. CASE Pop
    BY <1>2, <1>3, <1>8, PopMoves, MovedAgrees DEF n
  <1>9. CASE PushPair
    BY <1>2, <1>3, <1>4, <1>9, PushPairMoves, MovedAgrees DEF n
  <1> QED BY <1>5, <1>6, <1>7, <1>8, <1>9

\* DI, EI, the operations with an immediate byte, 0xCB, the illegal opcodes.
LEMMA OthersAgree ==
  ASSUME MachineTypeOK, ~ctl.bug,
         DisableInterrupts \/ EnableInterrupts \/ AluImmediate \/ Prefixed \/ IllegalOpcode
  PROVE  StepAgrees
  <1> DEFINE n == AtPc.length  op == Field.op  x == Field.x  y == Field.y  z == Field.z
  <1>1. /\ DisableInterrupts => x = 3 /\ y = 6 /\ z = 3
        /\ EnableInterrupts  => x = 3 /\ y = 7 /\ z = 3
        /\ AluImmediate      => x = 3 /\ z = 6
        /\ Prefixed          => x = 3 /\ y = 1 /\ z = 3
        /\ IllegalOpcode     => op \in {211, 219, 221, 227, 228, 235, 236, 237, 244, 252, 253}
    <2>1. /\ DisableInterrupts => x = 3 /\ y = 6 /\ z = 3
          /\ EnableInterrupts  => x = 3 /\ y = 7 /\ z = 3
      BY DEF High, DisableInterrupts, EnableInterrupts
    <2>2. AluImmediate => x = 3 /\ z = 6
      BY DEF AluImmediate
    <2>3. Prefixed => x = 3 /\ y = 1 /\ z = 3
      BY Zenon DEF High, Prefixed
    <2>4. IllegalOpcode => op \in {211, 219, 221, 227, 228, 235, 236, 237, 244, 252, 253}
      BY Zenon DEF IllegalOpcode
    <2> QED BY <2>1, <2>2, <2>3, <2>4
  <1>2. op = 64 * x + 8 * y + z /\ x \in 0 .. 3 /\ y \in 0 .. 7 /\ z \in 0 .. 7
    BY FieldTyped
  <1>3. x = 3 =>
        /\ z = 3 => n = IF y = 0 THEN 3 ELSE IF y = 1 THEN 2 ELSE 1
        /\ z = 4 => n = IF y < 4 THEN 3 ELSE 1
        /\ z = 5 => n = IF y = 1 THEN 3 ELSE 1
        /\ z = 6 => n = 2
    BY HighPrinted
  <1> HIDE DEF n, op, x, y, z
  <1>4. IllegalOpcode =>
          x = 3 /\ ((z = 3 /\ y > 1) \/ (z = 4 /\ y > 3) \/ (z = 5 /\ y # 1))
    BY <1>1, <1>2
  <1>5. CASE DisableInterrupts
    BY <1>1, <1>3, <1>5, DisableMoves, MovedAgrees DEF n
  <1>6. CASE EnableInterrupts
    BY <1>1, <1>3, <1>6, EnableMoves, MovedAgrees DEF n
  <1>7. CASE AluImmediate
    BY <1>1, <1>3, <1>7, AluImmediateMoves, MovedAgrees DEF n
  <1>8. CASE Prefixed
    BY <1>1, <1>3, <1>8, PrefixedMoves, MovedAgrees DEF n
  <1>9. CASE IllegalOpcode
    <2>1. n = 1
      BY <1>2, <1>3, <1>4, <1>9
    <2> QED BY <1>9, <2>1, IllegalMoves, MovedAgrees DEF n
  <1> QED BY <1>5, <1>6, <1>7, <1>8, <1>9

-----------------------------------------------------------------------------
(* The jumps. *)

\* JR.
LEMMA RelativeAgrees == ASSUME MachineTypeOK, ~ctl.bug, JumpRelative PROVE StepAgrees
  <1> DEFINE op == Field.op  x == Field.x  y == Field.y  z == Field.z
  <1>1. op = 64 * x + 8 * y + z /\ x \in 0 .. 3 /\ y \in 0 .. 7 /\ z \in 0 .. 7
    BY FieldTyped
  <1>2. x = 0 /\ z = 0 /\ y >= 3
    BY DEF JumpRelative
  <1>3. AtPc = DisassembledLow(y, 0, Imm8, Imm16, RelativeTarget)
    BY <1>2, Rows
  <1>4. AtPc.length = 2
    BY <1>1, <1>2, <1>3, LowLengths
  <1>5. LET words == AtPc.text IN words[Len(words)] = RelativeTarget
    BY <1>1, <1>2, <1>3, LowTargets
  <1>6. Load(bus, regs.pc) = op
    BY Printed
  <1> HIDE DEF op, x, y, z
  <1>7. op \in {24, 32, 40, 48, 56}
    BY <1>1, <1>2
  <1>8. Load(bus, regs.pc) \in ControlFlow
    BY <1>6, <1>7 DEF ControlFlow
  <1> QED BY <1>4, <1>5, <1>8, JumpRelativeMoves, JumpedAgrees

\* JP and CALL.
LEMMA WordJumpAgrees ==
  ASSUME MachineTypeOK, ~ctl.bug, JumpIf \/ Jump \/ CallIf \/ Call PROVE StepAgrees
  <1> DEFINE op == Field.op  x == Field.x  y == Field.y  z == Field.z
  <1>1. op = 64 * x + 8 * y + z /\ x \in 0 .. 3 /\ y \in 0 .. 7 /\ z \in 0 .. 7
    BY FieldTyped
  <1>2. /\ x = 3
        /\ (z \in {2, 4} /\ y < 4) \/ (z = 3 /\ y = 0) \/ (z = 5 /\ y = 1)
    BY DEF High, JumpIf, Jump, CallIf, Call
  <1>3. AtPc = DisassembledHigh(y, z, Imm8, Imm16) /\ AtPc.length = 3
    BY <1>2, HighPrinted
  <1>4. LET words == AtPc.text IN words[Len(words)] = Imm16
    <2>1. CASE z \in {2, 4} /\ y < 4
      BY <1>1, <1>3, <2>1, ConditionalTargets
    <2>2. CASE z = 3 /\ y = 0
      <3>1. AtPc.text = <<"JP", Imm16>>
        BY <1>3, <2>2, WordTargets
      <3> QED BY <3>1
    <2>3. CASE z = 5 /\ y = 1
      <3>1. AtPc.text = <<"CALL", Imm16>>
        BY <1>3, <2>3, WordTargets
      <3> QED BY <3>1
    <2> QED BY <1>2, <2>1, <2>2, <2>3
  <1>5. Load(bus, regs.pc) = op
    BY Printed
  <1> HIDE DEF op, x, y, z
  <1>6. op \in {194, 202, 210, 218, 196, 204, 212, 220, 195, 205}
    BY <1>1, <1>2
  <1>7. Load(bus, regs.pc) \in ControlFlow
    BY <1>5, <1>6 DEF ControlFlow
  <1>8. MovedByOrTo(3, Imm16)
    BY JumpMoves, CallMoves
  <1> QED BY <1>3, <1>4, <1>7, <1>8, JumpedAgrees

\* RST.
LEMMA RestartAgrees == ASSUME MachineTypeOK, ~ctl.bug, Restart PROVE StepAgrees
  <1> DEFINE op == Field.op  x == Field.x  y == Field.y  z == Field.z
  <1>1. op = 64 * x + 8 * y + z /\ x \in 0 .. 3 /\ y \in 0 .. 7 /\ z \in 0 .. 7
    BY FieldTyped
  <1>2. x = 3 /\ z = 7
    BY DEF Restart
  <1>3. AtPc = DisassembledHigh(y, 7, Imm8, Imm16) /\ AtPc.length = 1
    BY <1>2, HighPrinted
  <1>4. LET words == AtPc.text IN words[Len(words)] = 8 * Field.y
    <2>1. AtPc.text = <<"RST", 8 * y>>
      BY <1>1, <1>3, RestartTarget
    <2> QED BY <2>1
  <1>5. Load(bus, regs.pc) = op
    BY Printed
  <1> HIDE DEF op, x, y, z
  <1>6. op \in 192 .. 255 /\ op % 8 = 7
    BY <1>1, <1>2
  <1>7. Load(bus, regs.pc) \in ControlFlow
    BY <1>5, <1>6 DEF ControlFlow
  <1> QED BY <1>3, <1>4, <1>7, RestartMoves, JumpedAgrees

\* RET, RETI and JP HL.
LEMMA ReturnAgrees ==
  ASSUME MachineTypeOK, ~ctl.bug, ReturnIf \/ Return \/ ReturnFromInterrupt \/ JumpHl
  PROVE  StepAgrees
  <1> DEFINE op == Field.op  x == Field.x  y == Field.y  z == Field.z
  <1>1. op = 64 * x + 8 * y + z /\ x \in 0 .. 3 /\ y \in 0 .. 7 /\ z \in 0 .. 7
    BY FieldTyped
  <1>2. x = 3 /\ ((z = 0 /\ y < 4) \/ (z = 1 /\ y \in {1, 3, 5}))
    BY DEF High, ReturnIf, Return, ReturnFromInterrupt, JumpHl
  <1>3. AtPc = DisassembledHigh(y, z, Imm8, Imm16)
    BY <1>2, HighPrinted
  <1>4. AtPc.text[1] \in {"RET", "RETI", "JP HL"}
    <2>1. CASE z = 0 /\ y < 4
      <3>1. AtPc = DisassembledHigh(y, 0, Imm8, Imm16) /\ y \in 0 .. 3
        BY <1>1, <1>3, <2>1
      <3> HIDE DEF y
      <3>2. DisassembledHigh(y, 0, Imm8, Imm16).text[1] = "RET"
        BY <3>1, ReturnIfText
      <3> QED BY <3>1, <3>2
    <2>2. CASE z = 1 /\ y \in {1, 3, 5}
      BY <1>3, <2>2, ReturnTexts
    <2> QED BY <1>2, <2>1, <2>2
  <1>5. Load(bus, regs.pc) = op
    BY Printed
  <1> HIDE DEF op, x, y, z
  <1>6. op \in {192, 200, 208, 216, 201, 217, 233}
    BY <1>1, <1>2
  <1>7. Load(bus, regs.pc) \in ControlFlow
    BY <1>5, <1>6 DEF ControlFlow
  <1> QED BY <1>4, <1>7, ReturnedAgrees

-----------------------------------------------------------------------------

\* Every instruction agrees.
LEMMA ExecuteAgrees == ASSUME MachineTypeOK, ~ctl.bug, Execute PROVE StepAgrees
  BY LowAgrees, MiddleAgrees, LoadsAgree, StackAgrees, OthersAgree, RelativeAgrees,
     WordJumpAgrees, RestartAgrees, ReturnAgrees DEF Execute

\* The processor and the disassembler agree on all instructions, for every ROM,
\* every operand and every address the instruction may lie at, the last ones of the
\* address space included: Cpu::execute consumes the bytes Disassembler::disassemble
\* counts, and jumps where it says.
THEOREM DecodersAgree == MachineSpec => LengthsAgree
  <1> DEFINE Agrees == ~Interrupted /\ ~Asleep /\ ~ctl.bug /\ Execute => StepAgrees
  <1>1. MachineTypeOK => [Agrees]_machine
    BY ExecuteAgrees
  <1> HIDE DEF Agrees
  <1>2. MachineSpec => [][Agrees]_machine
    BY <1>1, MachineIsTyped, PTL
  <1> QED BY <1>2 DEF LengthsAgree, Agrees

-----------------------------------------------------------------------------
(* The stack: what is pushed is what is popped. *)

\* The memories a program may keep its stack in, the cartridge having none.
InRam(a) == RegionOf(Unechoed(a)) \in {"Vram", "WramBank0", "WramBankN", "Oam", "Hram"}

RamNames == {"vram", "wram", "oam", "hram"}

\* An address in RAM is a cell of one of its arrays.
LEMMA RamCell ==
  ASSUME NEW cgb, NEW x, NEW a, InRam(a)
  PROVE  ReadCell(cgb, x, a)[1] \in RamNames /\ WriteCell(cgb, x, a)[1] \in RamNames
  <1> DEFINE u == Unechoed(a)
  <1>1. ReadCell(cgb, x, a) = ReadDirect(cgb, x, u) /\ WriteCell(cgb, x, a) = WriteDirect(cgb, x, u)
    BY DEF ReadCell, WriteCell, Unechoed
  <1>2. RegionOf(u) \in {"Vram", "WramBank0", "WramBankN", "Oam", "Hram"}
    BY DEF InRam
  <1> HIDE DEF u
  <1>3. ReadDirect(cgb, x, u)[1] \in RamNames
    BY <1>2 DEF ReadDirect, RamNames
  <1>4. WriteDirect(cgb, x, u)[1] \in RamNames
    BY <1>2 DEF WriteDirect, RamNames
  <1> QED BY <1>1, <1>3, <1>4

\* A store to RAM changes its cell and no register of the bus.
LEMMA RamStore ==
  ASSUME NEW b, IsBus(b), NEW a, InRam(a), NEW v
  PROVE  Store(b, a, v) = [b EXCEPT !.cells = With(b.cells, WriteCell(b.cgb, b.svbk, a), v)]
  <1> DEFINE cell == WriteCell(b.cgb, b.svbk, a)
  <1>1. cell[1] \in RamNames
    BY RamCell
  <1> HIDE DEF cell
  <1>2. StoreTo(b, cell, v) = [b EXCEPT !.cells = With(b.cells, cell, v)]
    BY <1>1 DEF StoreTo, RamNames
  <1> QED BY <1>2 DEF Store, cell

\* A load from RAM reads its cell.
LEMMA RamLoad ==
  ASSUME NEW b, NEW a, InRam(a)
  PROVE  Load(b, a) = Holds(b, ReadCell(b.cgb, b.svbk, a))
  <1> DEFINE cell == ReadCell(b.cgb, b.svbk, a)
  <1>1. cell[1] \in RamNames
    BY RamCell
  <1> HIDE DEF cell
  <1>2. LoadFrom(b, cell) = Holds(b, cell)
    BY <1>1 DEF LoadFrom, RamNames
  <1> QED BY <1>2 DEF Load, cell

\* The map is left as it is, the byte is found again, and every other byte too.
LEMMA RamStored ==
  ASSUME NEW b, IsBus(b), NEW a \in Addr, InRam(a), NEW v \in Byte,
         NEW o \in Addr, InRam(o), Unechoed(o) # Unechoed(a)
  PROVE  LET c == Store(b, a, v) IN
         /\ c.cgb = b.cgb /\ c.svbk = b.svbk
         /\ Load(c, a) = v
         /\ Load(c, o) = Load(b, o)
  <1> DEFINE cell == WriteCell(b.cgb, b.svbk, a)  cells == With(b.cells, cell, v)
             c == [b EXCEPT !.cells = cells]
  <1>1. Store(b, a, v) = c
    BY RamStore
  <1>2. c.cgb = b.cgb /\ c.svbk = b.svbk /\ c.cells = cells
    BY DEF IsBus, BusOver
  <1>3. b.cgb \in BOOLEAN /\ b.svbk \in Nat
    BY BusParts
  <1>4. a # 65282 /\ o # 65282
    BY DEF InRam, Unechoed, RegionOf
  <1>5. ReadCell(b.cgb, b.svbk, a) = cell
    <2>1. Same(b.cgb, b.svbk, a, b.svbk, a)
      BY DEF Same
    <2> QED BY <1>3, <1>4, <2>1, CellsTogether DEF Together
  <1>6. ReadCell(b.cgb, b.svbk, o) # cell
    <2>1. Apart(b.cgb, b.svbk, a, b.svbk, o)
      BY <1>3, CellsApart
    <2> QED BY <2>1 DEF Apart, Same
  <1> HIDE DEF cell, c
  <1>7. Holds(c, cell) = v
    BY <1>2 DEF Holds, With
  <1>8. ASSUME NEW d, d # cell PROVE Holds(c, d) = Holds(b, d)
    BY <1>2, <1>8 DEF Holds, With
  <1>9. Load(c, a) = v
    BY <1>2, <1>5, <1>7, RamLoad
  <1>10. Load(c, o) = Load(b, o)
    BY <1>2, <1>6, <1>8, RamLoad
  <1> QED BY <1>1, <1>2, <1>9, <1>10

StackInRam(r) == InRam(U16(r.sp - 1)) /\ InRam(U16(r.sp - 2))

\* The word at the top of the stack of a state.
TopOf(s) == Load(s.b, s.r.sp) + 256 * Load(s.b, U16(s.r.sp + 1))

\* The two bytes of a word on the stack lie side by side, in two cells.
LEMMA Neighbours ==
  ASSUME NEW sp \in Word, InRam(U16(sp - 1)), InRam(U16(sp - 2))
  PROVE  /\ U16(sp - 1) \in Addr /\ U16(sp - 2) \in Addr
         /\ Unechoed(U16(sp - 1)) # Unechoed(U16(sp - 2))
         /\ U16(U16(sp - 2) + 1) = U16(sp - 1)
  <1> DEFINE a == U16(sp - 1)  b == U16(sp - 2)
  <1>1. sp \in Int /\ 0 <= sp /\ sp < 65536
    BY DEF Word
  <1>2. /\ sp >= 2 => a = sp - 1 /\ b = sp - 2
        /\ sp = 1 => a = 0 /\ b = 65535
        /\ sp = 0 => a = 65535 /\ b = 65534
    BY <1>1 DEF U16
  <1>3. a \in Int /\ b \in Int /\ 0 <= a /\ a < 65536 /\ 0 <= b /\ b < 65536
    BY <1>1, <1>2
  <1>4. U16(b + 1) = a
    BY <1>1, <1>2 DEF U16
  <1>5. a # 0
    BY DEF InRam, Unechoed, RegionOf
  <1> HIDE DEF a, b
  <1>6. b = a - 1
    BY <1>1, <1>2, <1>5
  <1>7. Unechoed(a) # Unechoed(b)
    BY <1>3, <1>6, UnechoedAddr
  <1>8. a \in Addr /\ b \in Addr
    BY <1>3 DEF Addr
  <1> QED BY <1>4, <1>7, <1>8 DEF a, b

\* What is pushed is what the next pop finds.
LEMMA PushedIsTop ==
  ASSUME NEW s, IsState(s), StackInRam(s.r), NEW v \in Word
  PROVE  TopOf(Push(s, v)) = v
  <1> DEFINE sp == s.r.sp  a == U16(sp - 1)  o == U16(sp - 2)
             hi == v \div 256  lo == v % 256
             b1 == Store(s.b, a, hi)  b2 == Store(b1, o, lo)  r == [s.r EXCEPT !.sp = o]
  <1>1. sp \in Word /\ IsBus(s.b) /\ s.r \in Registers
    BY RegisterParts DEF IsState
  <1>2. InRam(a) /\ InRam(o)
    BY DEF StackInRam
  <1>3. a \in Addr /\ o \in Addr /\ Unechoed(a) # Unechoed(o) /\ U16(o + 1) = a
    BY <1>1, <1>2, Neighbours
  <1>4. Push(s, v) = [r |-> r, b |-> b2]
    BY DEF Push
  <1>5. r.sp = o
    BY <1>1 DEF Registers
  <1>6. hi \in Byte /\ lo \in Byte /\ v = 256 * hi + lo
    BY BytesOfPair DEF Word, Byte
  <1> HIDE DEF hi, lo, a, o, r
  <1>7. IsBus(b1) /\ Load(b1, a) = hi
    BY <1>1, <1>2, <1>3, <1>6, StoreTyped, RamStored
  <1> HIDE DEF b1
  <1>8. Load(b2, o) = lo /\ Load(b2, a) = hi
    BY <1>2, <1>3, <1>6, <1>7, RamStored
  <1> HIDE DEF b2
  <1>9. TopOf(Push(s, v)) = lo + 256 * hi
    BY <1>3, <1>4, <1>5, <1>8 DEF TopOf
  <1> QED BY <1>6, <1>9 DEF Byte

\* Fetching leaves SP alone.
LEMMA AfterKeepsSp ==
  ASSUME MachineTypeOK, NEW n \in 1 .. 3, StackInRam(regs)
  PROVE  StackInRam(After(n).r)
  <1>1. After(n).r.sp = regs.sp
    BY Fetched DEF After, Registers
  <1> QED BY <1>1 DEF StackInRam

\* At the end of a step.
LEMMA TopEnds ==
  ASSUME NEW s, NEW m, NEW c, Ends(s, m, c)
  PROVE  Top' = TopOf(s)
  BY DEF Ends, Top, TopOf

\* PUSH leaves its word on the stack,
LEMMA PushLeaves ==
  ASSUME MachineTypeOK, NEW n \in 1 .. 3, StackInRam(regs), NEW v \in Word, NEW m,
         Finish(Push(After(n), v), m)
  PROVE  Top' = v
  <1>1. IsState(After(n)) /\ StackInRam(After(n).r)
    BY AfterTyped, AfterKeepsSp
  <1>2. TopOf(Push(After(n), v)) = v
    BY <1>1, PushedIsTop
  <1> QED BY <1>2, TopEnds DEF Finish

\* a call the address behind it.
LEMMA CallLeaves ==
  ASSUME MachineTypeOK, NEW n \in 1 .. 3, StackInRam(regs), NEW t, NEW m,
         Finish(CallTo(After(n), t), m)
  PROVE  Top' = After(n).r.pc
  <1> DEFINE v == After(n).r.pc  s == Push(After(n), v)
  <1>1. IsState(After(n)) /\ StackInRam(After(n).r)
    BY AfterTyped, AfterKeepsSp
  <1>2. v \in Word
    BY <1>1, RegisterParts DEF IsState
  <1>3. TopOf(s) = v
    BY <1>1, <1>2, PushedIsTop
  <1>4. IsState(s)
    BY <1>1, <1>2, PushTyped
  <1>5. Finish(Jumped(s, t), m)
    BY DEF CallTo
  <1> HIDE DEF v, s
  <1>6. TopOf(Jumped(s, t)) = TopOf(s)
    <2> DEFINE r == [s.r EXCEPT !.pc = t]
    <2>1. Jumped(s, t) = [s EXCEPT !.r = r]
      BY DEF Jumped
    <2>2. r.sp = s.r.sp
      BY <1>4 DEF IsState, Registers
    <2> HIDE DEF r
    <2>3. [s EXCEPT !.r = r].r = r /\ [s EXCEPT !.r = r].b = s.b
      BY <1>4 DEF IsState
    <2> QED BY <2>1, <2>2, <2>3 DEF TopOf
  <1> QED BY <1>3, <1>5, <1>6, TopEnds DEF Finish, v

\* The requests of the bus are no part of RAM.
LEMMA DispatchLeaves ==
  ASSUME MachineTypeOK, StackInRam(regs), Dispatch
  PROVE  Top' = regs.pc
  <1> DEFINE start == [r |-> regs, b |-> bus]  s == Push(start, regs.pc)
  <1>1. regs \in Registers /\ IsBus(bus) /\ regs.pc \in Word /\ regs.sp \in Word
    BY Fetched, RegisterParts
  <1>2. IsState(start) /\ StackInRam(start.r)
    BY <1>1 DEF IsState
  <1>3. PICK i \in 0 .. 4 :
          /\ regs' = [s.r EXCEPT !.pc = 64 + 8 * i]
          /\ bus' = [s.b EXCEPT !.iflag =
                       IF Bit(s.b.iflag, i) = 1 THEN s.b.iflag - Weight(i) ELSE s.b.iflag]
    BY DEF Dispatch
  <1>4. s.r.sp = U16(regs.sp - 2)
    BY <1>1 DEF Push, Registers
  <1> HIDE DEF start
  <1>5. TopOf(s) = regs.pc /\ IsState(s)
    BY <1>1, <1>2, PushedIsTop, PushTyped
  <1> HIDE DEF s
  <1> DEFINE sp == U16(regs.sp - 2)  a == U16(sp + 1)
  <1>6. InRam(sp) /\ InRam(a) /\ U16(sp + 1) = a
    BY <1>1, Neighbours DEF StackInRam
  <1>7. regs'.sp = sp
    BY <1>3, <1>4, <1>5 DEF IsState, Registers
  <1>8. bus'.cgb = s.b.cgb /\ bus'.svbk = s.b.svbk /\ bus'.cells = s.b.cells
    BY <1>3, <1>5 DEF IsState, IsBus, BusOver
  <1> HIDE DEF sp, a
  <1>9. Load(bus', sp) = Load(s.b, sp) /\ Load(bus', a) = Load(s.b, a)
    BY <1>6, <1>8, RamLoad DEF Holds
  <1>10. Top' = TopOf(s)
    BY <1>4, <1>6, <1>7, <1>9 DEF Top, TopOf, sp
  <1> QED BY <1>5, <1>10

\* What a step pushes is what the stack then shows, if it lies in RAM: the address
\* behind a call, the pair of a PUSH, the address an interrupt came at.
StackKept ==
  StackInRam(regs) =>
    /\ Call \/ (CallIf /\ Condition(Field.y)) => Top' = After(3).r.pc
    /\ Restart => Top' = After(1).r.pc
    /\ PushPair => Top' = Rp2(regs, Field.p)
    /\ Dispatch => Top' = regs.pc

\* A machine with any ROM returns from a call, a restart or an interrupt to where
\* it left off, and pops what it pushed (Cpu::push16, Cpu::pop16,
\* Cpu::service_interrupt): the two bytes it stores are the two it loads, in their
\* order, whatever RAM the stack is in (StackInRam) and whatever banks are selected.
\* No sprite copy runs here: while one does, the bus drops what is stored outside
\* HRAM (bus.cpp:106-125, see OamDma).
THEOREM StackIsKept == MachineSpec => [][StackKept]_machine
  <1>1. ASSUME MachineTypeOK PROVE StackKept
    <2>1. SUFFICES ASSUME StackInRam(regs) PROVE
            /\ Call \/ (CallIf /\ Condition(Field.y)) => Top' = After(3).r.pc
            /\ Restart => Top' = After(1).r.pc
            /\ PushPair => Top' = Rp2(regs, Field.p)
            /\ Dispatch => Top' = regs.pc
      BY DEF StackKept
    <2>2. ASSUME Call \/ (CallIf /\ Condition(Field.y)) PROVE Top' = After(3).r.pc
      <3>1. Finish(CallTo(After(3), Imm16), 6)
        BY <2>2 DEF Call, CallIf
      <3> QED BY <1>1, <2>1, <3>1, CallLeaves
    <2>3. ASSUME Restart PROVE Top' = After(1).r.pc
      <3>1. Finish(CallTo(After(1), 8 * Field.y), 4)
        BY <2>3 DEF Restart
      <3> QED BY <1>1, <2>1, <3>1, CallLeaves
    <2>4. ASSUME PushPair PROVE Top' = Rp2(regs, Field.p)
      <3> DEFINE v == Rp2(regs, Field.p)
      <3>1. regs \in Registers /\ regs.pc \in Word /\ Field.p \in 0 .. 3
        BY <1>1, Fetched, FieldTyped, RegisterParts
      <3>2. v \in Word
        BY <3>1, StackedPairTyped
      <3>3. Finish(Push(After(1), v), 4)
        BY <2>4 DEF PushPair
      <3> HIDE DEF v
      <3>4. Top' = v
        BY <1>1, <2>1, <3>2, <3>3, PushLeaves
      <3> QED BY <3>4 DEF v
    <2>5. ASSUME Dispatch PROVE Top' = regs.pc
      BY <1>1, <2>1, <2>5, DispatchLeaves
    <2> QED BY <2>2, <2>3, <2>4, <2>5
  <1>2. MachineTypeOK => [StackKept]_machine
    BY <1>1
  <1> HIDE DEF StackKept
  <1> QED BY <1>2, MachineIsTyped, PTL
==============================================================================
