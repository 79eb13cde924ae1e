--------------------------- MODULE CartridgeProofs ---------------------------
(***************************************************************************)
(* Proofs about the cartridge controllers (Mbc) for every register         *)
(* contents, every store and every size of chip, and about the cartridge   *)
(* slot and its save files (Cartridge) for any set of ROMs, controllers,   *)
(* chips and save paths, shared or not.                                    *)
(***************************************************************************)
EXTENDS Cartridge, SequenceTheorems, TLAPS

-----------------------------------------------------------------------------
(* The controllers. *)

\* The registers of an MBC1: five bits that are never 0, and two bits.
Mbc1Registers == [bank1 : 1 .. 31, bank2 : 0 .. 3, mode : {0, 1}, ramOn : BOOLEAN]

\* A store to the bank register never leaves 0 in it (mbc.cpp:66).
LEMMA Mbc1Stays ==
  ASSUME NEW c \in Mbc1Registers, NEW region \in Regions, NEW v \in Bytes
  PROVE  Mbc1Command(c, region, v) \in Mbc1Registers
<1>1. v % 32 \in 0 .. 31 /\ v % 4 \in 0 .. 3 /\ v % 2 \in {0, 1}
  BY DEF Bytes
<1>2. CASE region = "0000"
  BY <1>2, Zenon DEF Mbc1Command, Mbc1Registers, Opens
<1>3. CASE region \in {"2000", "3000"}
  <2>1. (IF v % 32 = 0 THEN 1 ELSE v % 32) \in 1 .. 31
    BY <1>1
  <2>2. Mbc1Command(c, region, v) = [c EXCEPT !.bank1 = IF v % 32 = 0 THEN 1 ELSE v % 32]
    BY <1>3 DEF Mbc1Command
  <2> QED BY <2>1, <2>2 DEF Mbc1Registers
<1>4. CASE region = "4000"
  BY <1>1, <1>4 DEF Mbc1Command, Mbc1Registers
<1>5. CASE region = "6000"
  BY <1>1, <1>5 DEF Mbc1Command, Mbc1Registers
<1> QED BY <1>2, <1>3, <1>4, <1>5 DEF Regions

(***************************************************************************)
(* "Banks 0x20, 0x40 and 0x60 are unreachable there too on a large         *)
(* cartridge" (mbc.cpp:44-45): with 32 banks or more the switchable window *)
(* of an MBC1 shows no bank that is a multiple of 0x20, bank 0 included.   *)
(***************************************************************************)
THEOREM Mbc1LargeNeverShowsBankZero ==
  ASSUME NEW c \in Mbc1Registers, NEW n \in {32, 64, 128}
  PROVE  HighBank("Mbc1", c, n) % 32 # 0
<1>1. c.bank1 \in 1 .. 31 /\ c.bank2 \in 0 .. 3
  BY DEF Mbc1Registers
<1>2. HighBank("Mbc1", c, n) = (c.bank2 * 32 + c.bank1) % n
  BY DEF HighBank
<1>3. CASE n = 32
  BY <1>1, <1>2, <1>3
<1>4. CASE n = 64
  BY <1>1, <1>2, <1>4
<1>5. CASE n = 128
  BY <1>1, <1>2, <1>5
<1> QED BY <1>3, <1>4, <1>5

(***************************************************************************)
(* A reset leaves the registers alone. The fixed window shows bank 0,      *)
(* where a cartridge starts, whatever they hold, unless it is an MBC1 left *)
(* in mode 1 whose number of banks does not divide 32 (gameboy.cpp:42-46,  *)
(* low_bank).                                                              *)
(***************************************************************************)
THEOREM RestartsInBankZero ==
  ASSUME NEW kind \in Kinds, NEW c \in Registers, NEW n \in Nat, n > 0,
         kind = "Mbc1" /\ c.mode = 1 => BanksDivide32(n)
  PROVE  LowBank(kind, c, n) = 0
<1>1. c.bank2 \in 0 .. 15
  BY DEF Registers
<1>2. CASE kind = "Mbc1" /\ c.mode = 1
  <2>1. 32 % n = 0
    BY <1>2 DEF BanksDivide32
  <2>2. n =< 32
    <3>1. n > 32 => 32 % n = 32
      BY SMTT(30)
    <3> QED BY <2>1, <3>1
  <2>3. n \in {1, 2, 4, 8, 16, 32}
    <3>1. n \in 1 .. 32
      BY <2>2
    <3> QED BY <2>1, <3>1, SMTT(60)
  <2>4. (c.bank2 * 32) % n = 0
    BY <1>1, <2>3, SMTT(60)
  <2> QED BY <2>4 DEF LowBank
<1>3. CASE ~(kind = "Mbc1" /\ c.mode = 1)
  BY <1>3, Zenon DEF LowBank
<1> QED BY <1>2, <1>3

-----------------------------------------------------------------------------

(***************************************************************************)
(* A chip of k whole banks has k banks (Mbc::ram_banks).                   *)
(***************************************************************************)
LEMMA WholeBanks ==
  ASSUME NEW k \in Nat
  PROVE  RamBanks(k * RamBankSize) = k
<1> DEFINE S == RamBankSize
<1>1. S \in Nat /\ S > 0
  BY MbcAssumption
<1>2. k * S + S - 1 = k * S + (S - 1) /\ k * S \in Nat
  BY <1>1
<1> QED BY <1>1, <1>2, SMTT(60) DEF RamBanks

\* A chip whose size is a multiple of the bank size is made of whole banks.
LEMMA WholeBanksExist ==
  ASSUME NEW size \in Nat, size % RamBankSize = 0
  PROVE  \E k \in Nat : size = k * RamBankSize
<1>1. RamBankSize \in Nat /\ RamBankSize > 0
  BY MbcAssumption
<1>2. size \div RamBankSize \in Nat
  BY <1>1, SMTT(60)
<1>3. size = (size \div RamBankSize) * RamBankSize + (size % RamBankSize)
  BY <1>1, SMTT(60)
<1>4. size = (size \div RamBankSize) * RamBankSize
  BY <1>1, <1>2, <1>3
<1> QED BY <1>2, <1>4

(***************************************************************************)
(* A bank number wrapped by the banks that exist (D51) leaves the offset   *)
(* inside the chip, for any number of banks and any size of a bank.        *)
(***************************************************************************)
LEMMA InsideChip ==
  ASSUME NEW k \in Nat, k > 0, NEW b \in 0 .. k - 1, NEW o \in Offsets
  PROVE  b * RamBankSize + o < k * RamBankSize
<1> DEFINE S == RamBankSize
<1>1. S \in Nat /\ S > 0 /\ o \in 0 .. S - 1
  BY MbcAssumption DEF Offsets
<1>2. (b + 1) * S =< k * S
  BY <1>1, b + 1 =< k, SMTT(60)
<1>3. (b + 1) * S = b * S + S
  BY <1>1
<1> QED BY <1>1, <1>2, <1>3

(***************************************************************************)
(* An open RAM window over a chip of whole banks reaches a cell at every   *)
(* offset, whatever is in the bank registers of an MBC1 or an MBC5: no     *)
(* store is lost (ram_offset).                                             *)
(***************************************************************************)
THEOREM BankedWindowReaches ==
  ASSUME NEW kind \in {"Mbc1", "Mbc5"}, NEW c \in Registers, c.ramOn,
         NEW chip \in Seq(Bytes), NEW k \in Nat, k > 0, Len(chip) = k * RamBankSize,
         NEW o \in Offsets
  PROVE  Reaches(kind, c, chip, o)
<1>1. k * RamBankSize > 0
  BY MbcAssumption
<1>2. c.bank2 \in Nat
  BY DEF Registers
<1>3. RamBank(kind, c, k * RamBankSize) \in 0 .. k - 1
  <2>1. c.bank2 % k \in 0 .. k - 1 /\ 0 \in 0 .. k - 1
    BY <1>2
  <2>2. RamBanks(k * RamBankSize) = k
    BY WholeBanks
  <2>3. RamBank(kind, c, k * RamBankSize) \in {c.bank2 % k, 0}
    BY <1>1, <2>2, Zenon DEF RamBank
  <2> QED BY <2>1, <2>3
<1>4. RamOffset(kind, c, Len(chip), o) = RamBank(kind, c, k * RamBankSize) * RamBankSize + o
  BY Zenon DEF RamOffset
<1>5. RamOffset(kind, c, Len(chip), o) < k * RamBankSize
  BY <1>3, <1>4, InsideChip
<1> QED BY <1>5 DEF Reaches, RamOpen

-----------------------------------------------------------------------------
(* What the operators of the controllers return. *)

\* A store to the ROM area leaves the registers within their widths.
LEMMA CommandTypes ==
  ASSUME NEW kind \in Kinds, NEW c \in Registers, NEW region \in Regions,
         NEW bit8 \in BOOLEAN, NEW v \in Bytes
  PROVE  Command(kind, c, region, bit8, v) \in Registers
<1>1. /\ v \in 0 .. 255 /\ v % 32 \in 0 .. 31 /\ v % 16 \in 0 .. 15
      /\ v % 4 \in 0 .. 3 /\ v % 2 \in {0, 1}
  BY DEF Bytes
<1>2. c.bank1 \in 0 .. 511 /\ c.ramOn \in BOOLEAN
  BY DEF Registers
<1>3. \A b \in 0 .. 511 : [c EXCEPT !.bank1 = b] \in Registers
  BY DEF Registers
<1>4. \A b \in 0 .. 15 : [c EXCEPT !.bank2 = b] \in Registers
  BY DEF Registers
<1>5. \A b \in {0, 1} : [c EXCEPT !.mode = b] \in Registers
  BY DEF Registers
<1>6. \A b \in BOOLEAN : [c EXCEPT !.ramOn = b] \in Registers
  BY DEF Registers
<1>7. Opens(v) \in BOOLEAN
  BY Zenon DEF Opens
<1>8. CASE kind = "None"
  BY <1>8 DEF Command
<1>9. CASE kind = "Mbc1"
  <2>1. Command(kind, c, region, bit8, v) = Mbc1Command(c, region, v)
    BY <1>9 DEF Command
  <2>2. (IF v % 32 = 0 THEN 1 ELSE v % 32) \in 0 .. 511 /\ v % 4 \in 0 .. 15
    BY <1>1
  <2>3. CASE region = "0000"
    BY <1>6, <1>7, <2>1, <2>3, Zenon DEF Mbc1Command
  <2>4. CASE region \in {"2000", "3000"}
    BY <1>3, <2>1, <2>2, <2>4, ZenonT(60) DEF Mbc1Command
  <2>5. CASE region = "4000"
    BY <1>4, <2>1, <2>2, <2>5 DEF Mbc1Command
  <2>6. CASE region = "6000"
    BY <1>1, <1>5, <2>1, <2>6 DEF Mbc1Command
  <2> QED BY <2>3, <2>4, <2>5, <2>6 DEF Regions
<1>10. CASE kind = "Mbc2"
  <2>1. Command(kind, c, region, bit8, v) = Mbc2Command(c, region, bit8, v)
    BY <1>10 DEF Command
  <2>2. (IF v % 16 = 0 THEN 1 ELSE v % 16) \in 0 .. 511
    BY <1>1
  <2>3. CASE region \in {"4000", "6000"}
    BY <2>1, <2>3 DEF Mbc2Command
  <2>4. CASE region \notin {"4000", "6000"} /\ bit8
    BY <1>3, <2>1, <2>2, <2>4, ZenonT(60) DEF Mbc2Command
  <2>5. CASE region \notin {"4000", "6000"} /\ ~bit8
    BY <1>6, <1>7, <2>1, <2>5, Zenon DEF Mbc2Command
  <2> QED BY <2>3, <2>4, <2>5
<1>11. CASE kind = "Mbc5"
  <2>1. Command(kind, c, region, bit8, v) = Mbc5Command(c, region, v)
    BY <1>11 DEF Command
  <2>2. /\ (c.bank1 \div 256) * 256 + v \in 0 .. 511
        /\ (c.bank1 % 256) + 256 * (v % 2) \in 0 .. 511
    <3>1. c.bank1 \div 256 \in {0, 1} /\ c.bank1 % 256 \in 0 .. 255
      BY <1>2
    <3>2. \A q \in {0, 1} : q * 256 + v \in 0 .. 511
      BY <1>1
    <3>3. \A q \in {0, 1}, b \in 0 .. 255 : b + 256 * q \in 0 .. 511
      OBVIOUS
    <3> QED BY <1>1, <3>1, <3>2, <3>3
  <2>3. CASE region = "0000"
    BY <1>6, <1>7, <2>1, <2>3, Zenon DEF Mbc5Command
  <2>4. CASE region = "2000"
    BY <1>3, <2>1, <2>2, <2>4, ZenonT(60) DEF Mbc5Command
  <2>5. CASE region = "3000"
    BY <1>3, <2>1, <2>2, <2>5, ZenonT(60) DEF Mbc5Command
  <2>6. CASE region = "4000"
    BY <1>1, <1>4, <2>1, <2>6 DEF Mbc5Command
  <2>7. CASE region = "6000"
    BY <2>1, <2>7 DEF Mbc5Command
  <2> QED BY <2>3, <2>4, <2>5, <2>6, <2>7 DEF Regions
<1> QED BY <1>8, <1>9, <1>10, <1>11 DEF Kinds

\* The cell an offset reaches has a number.
LEMMA OffsetIsNat ==
  ASSUME NEW kind, NEW c \in Registers, NEW size \in Nat, NEW o \in Offsets
  PROVE  RamOffset(kind, c, size, o) \in Nat
<1>1. o \in Nat /\ RamBankSize \in Nat /\ Mbc2Cells \in Nat /\ Mbc2Cells > 0 /\ RamBankSize > 0
  BY MbcAssumption DEF Offsets
<1>2. c.bank2 \in Nat
  BY DEF Registers
<1>3. o % Mbc2Cells \in Nat
  BY <1>1
<1>4. size > 0 => RamBanks(size) \in Nat /\ RamBanks(size) > 0
  BY <1>1, SMTT(60) DEF RamBanks
<1>5. size > 0 => c.bank2 % RamBanks(size) \in Nat
  BY <1>2, <1>4
<1>6. RamBank(kind, c, size) \in Nat
  BY <1>5, Zenon DEF RamBank
<1>7. RamBank(kind, c, size) * RamBankSize + o \in Nat
  BY <1>1, <1>6
<1> QED BY <1>3, <1>7, Zenon DEF RamOffset

\* A store to the RAM window changes at most a cell, for a byte.
LEMMA WriteRamTypes ==
  ASSUME NEW kind, NEW c \in Registers, NEW s \in Seq(Bytes), NEW o \in Offsets, NEW v \in Bytes
  PROVE  /\ WriteRam(kind, c, s, o, v) \in Seq(Bytes)
         /\ Len(WriteRam(kind, c, s, o, v)) = Len(s)
<1>1. Stored(kind, v) \in Bytes
  BY DEF Stored, Bytes
<1>2. CASE Reaches(kind, c, s, o)
  <2> DEFINE n == RamOffset(kind, c, Len(s), o) + 1
  <2>1. RamOffset(kind, c, Len(s), o) \in Nat /\ RamOffset(kind, c, Len(s), o) < Len(s)
    BY <1>2, OffsetIsNat DEF Reaches
  <2>2. n \in 1 .. Len(s)
    BY <2>1
  <2>3. WriteRam(kind, c, s, o, v) = [s EXCEPT ![n] = Stored(kind, v)]
    BY <1>2, Zenon DEF WriteRam
  <2> HIDE DEF n
  <2> QED BY <1>1, <2>2, <2>3, ExceptSeq
<1>3. CASE ~Reaches(kind, c, s, o)
  BY <1>3, Zenon DEF WriteRam
<1> QED BY <1>2, <1>3

-----------------------------------------------------------------------------
(* The RAM and its file. *)

\* A chip filled with one byte after another is RAM of its size.
LEMMA ChipTypes ==
  ASSUME NEW n \in Nat, NEW f \in [1 .. n -> Bytes]
  PROVE  f \in Seq(Bytes) /\ Len(f) = n
  OBVIOUS

\* A chip that was never written to.
LEMMA BlankTypes ==
  ASSUME NEW r \in Roms
  PROVE  Blank(r) \in Seq(Bytes) /\ Len(Blank(r)) = Chip[r]
<1>1. Chip[r] \in Nat
  BY CartridgeAssumption
<1>2. Blank(r) \in [1 .. Chip[r] -> Bytes]
  BY DEF Blank, Bytes
<1> QED BY <1>1, <1>2, ChipTypes

\* A file of any length, or none, gives a RAM of the size of the chip.
LEMMA FilledTypes ==
  ASSUME NEW r \in Roms, NEW file \in {NoFile} \cup Seq(Bytes)
  PROVE  Filled(r, file) \in Seq(Bytes) /\ Len(Filled(r, file)) = Chip[r]
<1>1. CASE file = NoFile
  BY <1>1, BlankTypes DEF Filled
<1>2. CASE file # NoFile
  <2>1. Chip[r] \in Nat
    BY CartridgeAssumption
  <2>2. Filled(r, file) = [i \in 1 .. Chip[r] |-> IF i <= Len(file) THEN file[i] ELSE 255]
    BY <1>2 DEF Filled
  <2>3. ASSUME NEW i \in 1 .. Chip[r]
        PROVE  (IF i <= Len(file) THEN file[i] ELSE 255) \in Bytes
    BY <1>2, <2>1, ElementOfSeq DEF Bytes
  <2>4. Filled(r, file) \in [1 .. Chip[r] -> Bytes]
    BY <2>2, <2>3
  <2> QED BY <2>1, <2>4, ChipTypes
<1> QED BY <1>1, <1>2

\* A file that holds exactly the RAM is read back as the RAM.
LEMMA FilledWithItself ==
  ASSUME NEW r \in Roms, NEW s \in Seq(Bytes), Len(s) = Chip[r]
  PROVE  Filled(r, s) = s
<1>1. s # NoFile
  BY CartridgeAssumption
<1>2. Filled(r, s) = [i \in 1 .. Len(s) |-> IF i <= Len(s) THEN s[i] ELSE 255]
  BY <1>1 DEF Filled
<1>3. s = [i \in 1 .. Len(s) |-> s[i]]
  OBVIOUS
<1> QED BY <1>2, <1>3

-----------------------------------------------------------------------------
(* The types of the slot and the disk. *)

\* What a cartridge finds when it is loaded is RAM of its size.
LEMMA RestoredTypes ==
  ASSUME TypeOK, NEW r \in Roms
  PROVE  Restored(r) \in Seq(Bytes) /\ Len(Restored(r)) = Chip[r]
<1>1. disk[SavePath[r]] \in {NoFile} \cup Seq(Bytes)
  BY DEF TypeOK, Paths
<1> QED BY <1>1, BlankTypes, FilledTypes, Zenon DEF Restored

\* What a write of n cells leaves in the file.
LEMMA PrefixTypes ==
  ASSUME TypeOK, NEW n \in 0 .. Len(ram)
  PROVE  SubSeq(ram, 1, n) \in Seq(Bytes)
<1>1. ram \in Seq(Bytes) /\ Len(ram) \in Nat
  BY DEF TypeOK
<1>2. n \in Int /\ \A i \in 1 .. n : ram[i] \in Bytes
  BY <1>1, ElementOfSeq
<1> QED BY <1>2, SubSeqProperties

\* What each cartridge kept when it was taken out is RAM.
LEMMA TakenOutTypes ==
  ASSUME TypeOK
  PROVE  TakenOut \in [Roms -> Seq(Bytes)]
  BY DEF TypeOK, TakenOut

\* The step that leaves the slot empty keeps the types.
LEMMA GoneTypes ==
  ASSUME TypeOK, Gone, mishaps' \subseteq Roms
  PROVE  TypeOK'
<1>1. PowerOn \in Registers /\ <<>> \in Seq(Bytes) /\ Len(<<>>) = 0
  BY DEF PowerOn, Registers
<1>2. held' \in [Roms -> Seq(Bytes)]
  BY TakenOutTypes DEF Gone
<1>3. cart' = NoRom /\ regs' \in Registers /\ ram' \in Seq(Bytes) /\ Len(ram') = 0
  BY <1>1 DEF Gone
<1>4. cart' \in Roms \cup {NoRom} /\ Len(ram') = (IF cart' = NoRom THEN 0 ELSE Chip[cart'])
  BY <1>3, Zenon
<1>5. /\ phase' = "off" /\ next' = "play"
      /\ ramWritten' \in BOOLEAN /\ unsaved' \in BOOLEAN /\ UNCHANGED <<disk, wrote>>
  BY Zenon DEF Gone
<1>6. /\ phase' \in {"off", "play", "save", "write", "load", "exit"}
      /\ next' \in {"play", "load", "exit"}
      /\ ~(phase' \in {"save", "write"})
  BY <1>5
<1> QED BY <1>2, <1>3, <1>4, <1>5, <1>6, Zenon DEF TypeOK

\* A battery cartridge is in the slot.
InSlot == cart # NoRom /\ Battery[cart]

\* Every step keeps the types.
LEMMA TypesKept == TypeOK /\ (unsaved => InSlot) /\ [Next]_vars => TypeOK'
<1> SUFFICES ASSUME TypeOK, unsaved => InSlot, [Next]_vars PROVE TypeOK'
  OBVIOUS
<1>1. CASE Start
  BY <1>1, Zenon DEF TypeOK, Start, slot, SaveWanted
<1>2. ASSUME NEW region \in Regions, NEW bit8 \in BOOLEAN, NEW v \in CommandBytes,
             StoreRom(region, bit8, v)
      PROVE  TypeOK'
  <2>1. cart \in Roms /\ Kind[cart] \in Kinds /\ v \in Bytes
    BY <1>2, CartridgeAssumption DEF TypeOK, StoreRom
  <2>2. regs' \in Registers
    BY <1>2, <2>1, CommandTypes DEF TypeOK, StoreRom
  <2> QED BY <1>2, <2>2, Zenon DEF TypeOK, StoreRom, SaveWanted
<1>3. ASSUME NEW o \in Offsets, NEW v \in DataBytes, StoreRam(o, v)
      PROVE  TypeOK'
  <2>1. cart \in Roms /\ v \in Bytes
    BY <1>3, CartridgeAssumption DEF TypeOK, StoreRam
  <2>2. ram' \in Seq(Bytes) /\ Len(ram') = Len(ram)
    BY <1>3, <2>1, WriteRamTypes DEF TypeOK, StoreRam
  <2>3. wrote' \subseteq Roms
    BY <1>3, <2>1 DEF TypeOK, StoreRam
  <2>4. ramWritten' \in BOOLEAN /\ unsaved' \in BOOLEAN /\ phase' = "play"
    BY <1>3, Zenon DEF StoreRam
  <2> QED BY <1>3, <2>2, <2>3, <2>4, Zenon DEF TypeOK, StoreRam
<1>4. ASSUME NEW what \in {"play", "load", "exit"}, AskSave(what) PROVE TypeOK'
  <2>1. /\ phase' \in {"off", "play", "save", "write", "load", "exit"}
        /\ next' \in {"play", "load", "exit"}
        /\ phase' \in {"save", "write"} => SaveWanted
    BY <1>4 DEF AskSave
  <2> QED BY <1>4, <2>1, Zenon DEF TypeOK, AskSave, slot, SaveWanted
<1>5. CASE SaveFails
  <2>1. cart \in Roms
    BY <1>5, Zenon DEF TypeOK, SaveFails, SaveWanted
  <2>2. mishaps' \subseteq Roms
    BY <1>5, <2>1 DEF TypeOK, SaveFails
  <2>3. phase' \in {"play", "load", "exit"} /\ next' = "play"
    BY <1>5 DEF TypeOK, SaveFails
  <2> QED BY <1>5, <2>2, <2>3, Zenon DEF TypeOK, SaveFails, slot
<1>6. CASE SaveOpens
  <2>1. mishaps' \subseteq Roms
    BY <1>6 DEF TypeOK, SaveOpens, Sharing
  <2>2. disk' \in [Paths -> {NoFile} \cup Seq(Bytes)]
    <3>1. <<>> \in Seq(Bytes)
      OBVIOUS
    <3> DEFINE empty == <<>>
    <3>2. disk' = [disk EXCEPT ![SavePath[cart]] = empty] /\ empty \in Seq(Bytes)
      BY <1>6, <3>1 DEF SaveOpens
    <3> HIDE DEF empty
    <3> QED BY <3>2 DEF TypeOK
  <2> QED BY <1>6, <2>1, <2>2, Zenon DEF TypeOK, SaveOpens, slot, SaveWanted
<1>7. ASSUME NEW n \in 0 .. Len(ram), SaveWrites(n) PROVE TypeOK'
  <2>1. mishaps' \subseteq Roms /\ unsaved' \in BOOLEAN
    BY <1>7, Zenon DEF TypeOK, SaveWrites
  <2>2. disk' \in [Paths -> {NoFile} \cup Seq(Bytes)]
    BY <1>7, PrefixTypes DEF TypeOK, SaveWrites
  <2>3. phase' \in {"play", "load", "exit"} /\ next' = "play"
    BY <1>7 DEF TypeOK, SaveWrites
  <2> QED BY <1>7, <2>1, <2>2, <2>3, Zenon DEF TypeOK, SaveWrites, slot
<1>8. CASE LoadFails
  BY <1>8, Zenon DEF TypeOK, LoadFails, slot
<1>9. ASSUME NEW r \in Roms, NEW readable \in BOOLEAN, Load(r, readable) PROVE TypeOK'
  <2>1. ram' \in Seq(Bytes) /\ Len(ram') = Chip[r] /\ r # NoRom
    BY <1>9, RestoredTypes, BlankTypes, CartridgeAssumption, Zenon DEF Load
  <2>2. held' \in [Roms -> Seq(Bytes)]
    BY <1>9, TakenOutTypes DEF Load
  <2>3. mishaps' \subseteq Roms
    BY <1>9 DEF TypeOK, Load
  <2>4. PowerOn \in Registers
    BY DEF PowerOn, Registers
  <2>5. cart' = r /\ regs' \in Registers /\ ramWritten' = FALSE /\ unsaved' = FALSE
        /\ phase' = "play" /\ UNCHANGED <<disk, next, wrote>>
    BY <1>9, <2>4, Zenon DEF Load
  <2> QED BY <2>1, <2>2, <2>3, <2>5, Zenon DEF TypeOK
<1>10. CASE Exit
  BY <1>10, GoneTypes DEF TypeOK, Exit
<1>11. CASE Killed
  <2>1. unsaved => cart \in Roms
    BY DEF TypeOK, InSlot
  <2> QED BY <1>11, <2>1, GoneTypes DEF TypeOK, Killed
<1>12. CASE UNCHANGED vars
  BY <1>12, Zenon DEF TypeOK, vars, SaveWanted
<1> QED
  BY <1>1, <1>2, <1>3, <1>4, <1>5, <1>6, <1>7, <1>8, <1>9, <1>10, <1>11, <1>12,
     Zenon DEF Next, Program

-----------------------------------------------------------------------------
(* The invariant of the slot. *)

\* The RAM differs from its file only where a save is still to come, a
\* mishap is on record, or the program stored since; a save under way has put
\* everyone who shares the file on record; who has stored is known.
SlotInv ==
  /\ InSlot /\ cart \notin mishaps /\ (~unsaved \/ ~ramWritten \/ phase \in {"load", "exit"})
       => ram = Restored(cart)
  /\ phase = "write" => Sharing(cart) \subseteq mishaps
  /\ unsaved => InSlot
  /\ InSlot /\ ramWritten => cart \in wrote

IInv == TypeOK /\ SlotInv /\ NothingForgotten /\ LookedAtLeavesNothing

\* What a cartridge finds in its RAM depends on its own file only.
LEMMA RestoredSame ==
  ASSUME NEW r \in Roms, disk'[SavePath[r]] = disk[SavePath[r]]
  PROVE  Restored(r)' = Restored(r)
  BY ZenonT(60) DEF Restored, Filled, Blank

\* A step that touches neither the slot, the disk nor the histories but
\* the phase, and that promises nothing it did not promise before.
LEMMA PhaseKeeps ==
  ASSUME IInv, UNCHANGED <<cart, ram, ramWritten, disk, held, mishaps, unsaved, wrote>>,
         phase' # "write",
         phase' \in {"load", "exit"} => phase \in {"load", "exit"} \/ ~ramWritten \/ ~InSlot
  PROVE  SlotInv' /\ NothingForgotten' /\ LookedAtLeavesNothing'
<1>1. cart \in Roms => Restored(cart)' = Restored(cart)
  BY RestoredSame
<1>2. InSlot => cart \in Roms
  BY DEF IInv, TypeOK, InSlot
<1>3. InSlot' <=> InSlot
  BY Zenon DEF InSlot
<1>4. SlotInv'
  BY <1>1, <1>2, <1>3, Zenon DEF IInv, SlotInv
<1>5. NothingForgotten'
  BY RestoredSame, Zenon DEF IInv, NothingForgotten
<1>6. LookedAtLeavesNothing'
  BY Zenon DEF IInv, LookedAtLeavesNothing
<1> QED BY <1>4, <1>5, <1>6

\* Taking a cartridge out forgets nothing when its RAM is in its file.
LEMMA TakenOutSafely ==
  ASSUME IInv, held' = TakenOut, disk' = disk,
         InSlot /\ cart \notin mishaps' \cup {cart'} => ram = Restored(cart),
         \A r \in Roms : r \notin mishaps' \cup {cart'} => r \notin mishaps
  PROVE  NothingForgotten'
<1> SUFFICES ASSUME NEW r \in Roms \ (mishaps' \cup {cart'}), Battery[r]
             PROVE  Restored(r)' = held'[r]
  BY Zenon DEF NothingForgotten
<1>1. r # NoRom
  BY CartridgeAssumption
<1>2. Restored(r)' = Restored(r)
  BY RestoredSame
<1>3. CASE r = cart
  BY <1>1, <1>2, <1>3 DEF TakenOut, InSlot
<1>4. CASE r # cart
  <2>1. held'[r] = held[r]
    BY <1>4 DEF TakenOut
  <2> QED BY <1>2, <1>4, <2>1 DEF IInv, NothingForgotten
<1> QED BY <1>3, <1>4

\* The slot is empty afterwards.
LEMMA GoneKeeps ==
  ASSUME IInv, Gone, mishaps \subseteq mishaps',
         InSlot /\ cart \notin mishaps' => ram = Restored(cart)
  PROVE  SlotInv' /\ NothingForgotten' /\ LookedAtLeavesNothing'
<1>1. cart' = NoRom /\ phase' = "off" /\ unsaved' = FALSE
  BY Zenon DEF Gone
<1>2. ~InSlot'
  BY <1>1 DEF InSlot
<1>3. SlotInv'
  BY <1>1, <1>2 DEF SlotInv
<1>4. NothingForgotten'
  BY TakenOutSafely, Zenon DEF Gone
<1>5. LookedAtLeavesNothing'
  BY Zenon DEF IInv, LookedAtLeavesNothing, Gone
<1> QED BY <1>3, <1>4, <1>5

\* A store of the program.
LEMMA StoreRamKeeps ==
  ASSUME IInv, NEW o \in Offsets, NEW v \in DataBytes, StoreRam(o, v)
  PROVE  SlotInv' /\ NothingForgotten' /\ LookedAtLeavesNothing'
<1>1. cart \in Roms /\ Restored(cart)' = Restored(cart)
  BY RestoredSame DEF IInv, TypeOK, StoreRam
<1>2. InSlot' <=> InSlot
  BY Zenon DEF InSlot, StoreRam
<1>3. SlotInv'
  <2>1. CASE Reaches(Kind[cart], regs, ram, o)
    <3>1. ramWritten' /\ (InSlot => unsaved')
      BY <2>1, Zenon DEF StoreRam, InSlot
    <3>2. InSlot => cart \in wrote'
      BY <2>1 DEF StoreRam, InSlot
    <3>3. phase' = "play" /\ (unsaved' => InSlot)
      BY Zenon DEF StoreRam, IInv, SlotInv, InSlot
    <3> QED BY <1>2, <3>1, <3>2, <3>3, Zenon DEF SlotInv, StoreRam
  <2>2. CASE ~Reaches(Kind[cart], regs, ram, o)
    <3>1. ram' = ram /\ (ramWritten' <=> ramWritten) /\ (unsaved' <=> unsaved) /\ wrote' = wrote
      BY <2>2, Zenon DEF StoreRam, WriteRam
    <3> QED BY <1>1, <1>2, <3>1, Zenon DEF IInv, SlotInv, StoreRam
  <2> QED BY <2>1, <2>2
<1>4. NothingForgotten'
  BY RestoredSame, Zenon DEF IInv, NothingForgotten, StoreRam
<1>5. LookedAtLeavesNothing'
  <2>1. wrote \subseteq wrote'
    BY Zenon DEF StoreRam
  <2> QED BY <2>1, Zenon DEF IInv, LookedAtLeavesNothing, StoreRam
<1> QED BY <1>3, <1>4, <1>5

\* What a step that rewrites the file of the cartridge leaves alone.
LEMMA OwnFileOnly ==
  ASSUME IInv, cart \in Roms, NEW contents,
         disk' = [disk EXCEPT ![SavePath[cart]] = contents]
  PROVE  /\ disk'[SavePath[cart]] = contents
         /\ \A p \in Paths : p # SavePath[cart] => disk'[p] = disk[p]
         /\ \A r \in Roms : Battery[r] /\ r \notin Sharing(cart) => Restored(r)' = Restored(r)
<1>1. disk \in [Paths -> {NoFile} \cup Seq(Bytes)] /\ SavePath[cart] \in Paths
  BY DEF IInv, TypeOK, Paths
<1>2. disk'[SavePath[cart]] = contents
  BY <1>1
<1>3. \A p \in Paths : p # SavePath[cart] => disk'[p] = disk[p]
  BY <1>1
<1>4. ASSUME NEW r \in Roms, Battery[r], r \notin Sharing(cart) PROVE Restored(r)' = Restored(r)
  <2>1. SavePath[r] \in Paths /\ SavePath[r] # SavePath[cart]
    BY <1>4 DEF Sharing, Paths
  <2> QED BY <1>3, <2>1, RestoredSame
<1> QED BY <1>2, <1>3, <1>4

\* The file is opened and truncated: everyone who shares it is on record.
LEMMA SaveOpensKeeps ==
  ASSUME IInv, SaveOpens
  PROVE  SlotInv' /\ NothingForgotten' /\ LookedAtLeavesNothing'
<1>1. SaveWanted /\ cart \in Roms /\ cart \in wrote
  BY Zenon DEF IInv, TypeOK, SaveOpens, SaveWanted, SlotInv, InSlot
<1>2. InSlot' /\ cart' = cart /\ cart \in Sharing(cart)
  BY <1>1, Zenon DEF SaveOpens, SaveWanted, slot, InSlot, Sharing
<1>3. mishaps' = mishaps \cup Sharing(cart) /\ cart \in mishaps'
  BY <1>2 DEF SaveOpens
<1>4. SlotInv'
  <2>1. Sharing(cart)' \subseteq mishaps'
    BY <1>2, <1>3 DEF Sharing
  <2> QED BY <1>1, <1>2, <1>3, <2>1, Zenon DEF SlotInv, SaveOpens
<1>5. /\ \A p \in Paths : p # SavePath[cart] => disk'[p] = disk[p]
      /\ \A r \in Roms : Battery[r] /\ r \notin Sharing(cart) => Restored(r)' = Restored(r)
  <2> DEFINE empty == <<>>
  <2>1. disk' = [disk EXCEPT ![SavePath[cart]] = empty]
    BY DEF SaveOpens
  <2> HIDE DEF empty
  <2> QED BY <1>1, <2>1, OwnFileOnly
<1>6. NothingForgotten'
  BY <1>2, <1>3, <1>5 DEF IInv, NothingForgotten, SaveOpens
<1>7. LookedAtLeavesNothing'
  BY <1>1, <1>5, Zenon DEF IInv, LookedAtLeavesNothing, SaveOpens, SaveWanted
<1> QED BY <1>4, <1>6, <1>7

\* n cells are written: all of them make the cartridge whole again.
LEMMA SaveWritesKeeps ==
  ASSUME IInv, NEW n \in 0 .. Len(ram), SaveWrites(n)
  PROVE  SlotInv' /\ NothingForgotten' /\ LookedAtLeavesNothing'
<1>1. SaveWanted /\ cart \in Roms /\ cart \in wrote /\ Sharing(cart) \subseteq mishaps
  BY Zenon DEF IInv, TypeOK, SaveWrites, SaveWanted, SlotInv, InSlot
<1>2. InSlot' /\ InSlot /\ cart' = cart /\ ram' = ram /\ cart \in Sharing(cart)
  BY <1>1, Zenon DEF SaveWrites, SaveWanted, slot, InSlot, Sharing
<1>3. /\ disk'[SavePath[cart]] = SubSeq(ram, 1, n)
      /\ \A p \in Paths : p # SavePath[cart] => disk'[p] = disk[p]
      /\ \A r \in Roms : Battery[r] /\ r \notin Sharing(cart) => Restored(r)' = Restored(r)
  <2> DEFINE contents == SubSeq(ram, 1, n)
  <2>1. disk' = [disk EXCEPT ![SavePath[cart]] = contents]
    BY DEF SaveWrites
  <2> HIDE DEF contents
  <2>2. disk'[SavePath[cart]] = contents
    BY <1>1, <2>1, OwnFileOnly
  <2>3. /\ \A p \in Paths : p # SavePath[cart] => disk'[p] = disk[p]
        /\ \A r \in Roms : Battery[r] /\ r \notin Sharing(cart) => Restored(r)' = Restored(r)
    BY <1>1, <2>1, OwnFileOnly
  <2> QED BY <2>2, <2>3 DEF contents
<1>4. phase' # "write" /\ (ramWritten' <=> ramWritten) /\ wrote' = wrote /\ held' = held
  BY DEF SaveWrites, slot, IInv, TypeOK
<1>5. ASSUME n = Len(ram) PROVE SlotInv'
  <2>1. ram \in Seq(Bytes) /\ Len(ram) = Chip[cart]
    BY <1>1, <1>2, Zenon DEF IInv, TypeOK, InSlot
  <2>2. disk'[SavePath[cart]] = ram
    BY <1>3, <1>5, <2>1, SubSeqFull
  <2>3. Restored(cart)' = ram
    <3>1. Restored(cart)' = Filled(cart, disk'[SavePath[cart]])
      BY <1>1, <1>2, Zenon DEF Restored, InSlot, Filled, Blank
    <3> QED BY <1>1, <2>1, <2>2, <3>1, FilledWithItself
  <2>4. ram' = Restored(cart)' /\ cart' \in wrote'
    BY <1>1, <1>2, <1>4, <2>3
  <2> QED BY <1>2, <1>4, <2>4, Zenon DEF SlotInv
<1>6. ASSUME n # Len(ram) PROVE SlotInv'
  <2>1. mishaps' = mishaps /\ cart \in mishaps'
    BY <1>1, <1>2, <1>6 DEF SaveWrites
  <2>2. cart' \in mishaps' /\ cart' \in wrote'
    BY <1>1, <1>2, <1>4, <2>1
  <2> QED BY <1>2, <1>4, <2>2, Zenon DEF SlotInv
<1>7. SlotInv'
  BY <1>5, <1>6
<1>8. NothingForgotten'
  <2>1. mishaps \ {cart} \subseteq mishaps'
    BY DEF SaveWrites
  <2> QED BY <1>1, <1>2, <1>3, <1>4, <2>1 DEF IInv, NothingForgotten
<1>9. LookedAtLeavesNothing'
  BY <1>1, <1>3, <1>4, Zenon DEF IInv, LookedAtLeavesNothing, SaveWanted
<1> QED BY <1>7, <1>8, <1>9

\* A cartridge is put into the slot, and the one before it is taken out.
LEMMA LoadKeeps ==
  ASSUME IInv, NEW r \in Roms, NEW readable \in BOOLEAN, Load(r, readable)
  PROVE  SlotInv' /\ NothingForgotten' /\ LookedAtLeavesNothing'
<1>1. /\ cart' = r /\ phase = "load" /\ phase' = "play" /\ disk' = disk /\ held' = TakenOut
      /\ unsaved' = FALSE /\ ramWritten' = FALSE /\ wrote' = wrote
      /\ ram' = IF readable THEN Restored(r) ELSE Blank(r)
      /\ mishaps' = IF readable THEN mishaps \ {r} ELSE mishaps \cup {r}
  BY Zenon DEF Load
<1>2. SlotInv'
  <2>1. readable => ram' = Restored(cart)'
    BY <1>1, Zenon DEF Restored, Filled, Blank
  <2>2. ~readable => cart' \in mishaps'
    BY <1>1
  <2>3. phase' # "write"
    BY <1>1
  <2> QED BY <1>1, <2>1, <2>2, <2>3, Zenon DEF SlotInv
<1>3. NothingForgotten'
  <2>1. InSlot /\ cart \notin mishaps => ram = Restored(cart)
    BY <1>1 DEF IInv, SlotInv
  <2>2. \A q : q \notin mishaps' \cup {cart'} => q \notin mishaps
    BY <1>1
  <2> QED BY <1>1, <2>1, <2>2, TakenOutSafely
<1>4. LookedAtLeavesNothing'
  BY <1>1, Zenon DEF IInv, LookedAtLeavesNothing
<1> QED BY <1>2, <1>3, <1>4

\* Every step keeps the invariant of the slot.
LEMMA SlotKept ==
  IInv /\ [Next]_vars => SlotInv' /\ NothingForgotten' /\ LookedAtLeavesNothing'
<1> DEFINE Kept == SlotInv' /\ NothingForgotten' /\ LookedAtLeavesNothing'
<1> SUFFICES ASSUME IInv, [Next]_vars PROVE Kept
  OBVIOUS
<1>1. CASE Start
  BY <1>1, PhaseKeeps DEF Start, slot
<1>2. ASSUME NEW region \in Regions, NEW bit8 \in BOOLEAN, NEW v \in CommandBytes,
             StoreRom(region, bit8, v)
      PROVE  Kept
  <2>1. phase = "play" /\ UNCHANGED <<cart, ram, ramWritten, disk, held, mishaps, unsaved, wrote, phase>>
    BY <1>2, Zenon DEF StoreRom
  <2> QED BY <2>1, PhaseKeeps
<1>3. ASSUME NEW o \in Offsets, NEW v \in DataBytes, StoreRam(o, v) PROVE Kept
  BY <1>3, StoreRamKeeps
<1>4. ASSUME NEW what \in {"play", "load", "exit"}, AskSave(what) PROVE Kept
  <2>1. phase' \in {"load", "exit"} => ~SaveWanted
    BY <1>4 DEF AskSave
  <2>2. phase' # "write"
    BY <1>4 DEF AskSave
  <2>3. UNCHANGED <<cart, ram, ramWritten, disk, held, mishaps, unsaved, wrote>>
    BY <1>4, Zenon DEF AskSave, slot
  <2> QED BY <2>1, <2>2, <2>3, PhaseKeeps, Zenon DEF SaveWanted, InSlot
<1>5. CASE SaveFails
  <2>1. phase' # "write" /\ cart \in mishaps' /\ mishaps \subseteq mishaps'
    BY <1>5 DEF SaveFails, IInv, TypeOK
  <2>2. UNCHANGED <<cart, ram, ramWritten, disk, held, unsaved, wrote>>
    BY <1>5, Zenon DEF SaveFails, slot
  <2>3. InSlot' <=> InSlot
    BY <2>2, Zenon DEF InSlot
  <2>4. SlotInv'
    BY <2>1, <2>2, <2>3, Zenon DEF IInv, SlotInv
  <2>5. NothingForgotten'
    BY <2>1, <2>2, RestoredSame, Zenon DEF IInv, NothingForgotten
  <2>6. LookedAtLeavesNothing'
    BY <2>2, Zenon DEF IInv, LookedAtLeavesNothing
  <2> QED BY <2>4, <2>5, <2>6
<1>6. CASE SaveOpens
  BY <1>6, SaveOpensKeeps
<1>7. ASSUME NEW n \in 0 .. Len(ram), SaveWrites(n) PROVE Kept
  BY <1>7, SaveWritesKeeps
<1>8. CASE LoadFails
  <2>1. UNCHANGED <<cart, ram, ramWritten, disk, held, mishaps, unsaved, wrote>> /\ phase' = "play"
    BY <1>8, Zenon DEF LoadFails, slot
  <2> QED BY <2>1, PhaseKeeps
<1>9. ASSUME NEW r \in Roms, NEW readable \in BOOLEAN, Load(r, readable) PROVE Kept
  BY <1>9, LoadKeeps
<1>10. CASE Exit
  <2>1. InSlot /\ cart \notin mishaps' => ram = Restored(cart)
    BY <1>10 DEF Exit, IInv, SlotInv
  <2> QED BY <1>10, <2>1, GoneKeeps DEF Exit
<1>11. CASE Killed
  <2>1. mishaps \subseteq mishaps' /\ (unsaved => cart \in mishaps')
    BY <1>11 DEF Killed
  <2>2. InSlot /\ cart \notin mishaps' => ram = Restored(cart)
    BY <2>1, Zenon DEF IInv, SlotInv
  <2> QED BY <1>11, <2>1, <2>2, GoneKeeps DEF Killed
<1>12. CASE UNCHANGED vars
  <2>1. UNCHANGED <<cart, ram, ramWritten, disk, held, mishaps, unsaved, wrote, phase>>
    BY <1>12, Zenon DEF vars
  <2>2. InSlot' <=> InSlot
    BY <2>1, Zenon DEF InSlot
  <2>3. Restored(cart)' = Restored(cart) /\ Sharing(cart)' = Sharing(cart)
    BY <2>1, Zenon DEF Restored, Filled, Blank, Sharing
  <2>4. SlotInv'
    BY <2>1, <2>2, <2>3, Zenon DEF IInv, SlotInv
  <2>5. NothingForgotten' /\ LookedAtLeavesNothing'
    BY <2>1, RestoredSame, Zenon DEF IInv, NothingForgotten, LookedAtLeavesNothing
  <2> QED BY <2>4, <2>5
<1> QED
  BY <1>1, <1>2, <1>3, <1>4, <1>5, <1>6, <1>7, <1>8, <1>9, <1>10, <1>11, <1>12,
     Zenon DEF Next, Program

\* The invariant is inductive.
LEMMA Invariance == Spec => []IInv
<1>1. Init => IInv
  <2> SUFFICES ASSUME Init PROVE IInv
    OBVIOUS
  <2>1. TypeOK
    <3>1. PowerOn \in Registers /\ <<>> \in Seq(Bytes) /\ Len(<<>>) = 0
      BY DEF PowerOn, Registers
    <3>2. disk \in [Paths -> {NoFile} \cup Seq(Bytes)]
      BY DEF Init
    <3>3. held \in [Roms -> Seq(Bytes)]
      BY BlankTypes DEF Init
    <3>4. /\ cart = NoRom /\ regs \in Registers /\ ram \in Seq(Bytes) /\ Len(ram) = 0
          /\ phase = "off" /\ next = "play"
      BY <3>1 DEF Init
    <3>5. /\ cart \in Roms \cup {NoRom} /\ Len(ram) = (IF cart = NoRom THEN 0 ELSE Chip[cart])
          /\ phase \in {"off", "play", "save", "write", "load", "exit"}
          /\ next \in {"play", "load", "exit"} /\ ~(phase \in {"save", "write"})
          /\ mishaps \subseteq Roms /\ wrote \subseteq Roms
      BY <3>4 DEF Init
    <3>6. ramWritten \in BOOLEAN /\ unsaved \in BOOLEAN
      BY DEF Init
    <3> QED BY <3>2, <3>3, <3>4, <3>5, <3>6, Zenon DEF TypeOK
  <2>2. SlotInv
    BY DEF Init, SlotInv, InSlot
  <2>3. NothingForgotten
    BY DEF Init, NothingForgotten, Restored, Filled, Paths
  <2>4. LookedAtLeavesNothing
    BY DEF Init, LookedAtLeavesNothing
  <2> QED BY <2>1, <2>2, <2>3, <2>4 DEF IInv
<1>2. IInv /\ [Next]_vars => IInv'
  BY TypesKept, SlotKept DEF IInv, SlotInv
<1> QED BY <1>1, <1>2, PTL DEF Spec

-----------------------------------------------------------------------------

(***************************************************************************)
(* Every part of the slot keeps its type: the RAM has the size of the chip *)
(* whatever the length of the file it was read from, every file is a       *)
(* sequence of bytes, and a save is under way only when one was wanted.    *)
(***************************************************************************)
THEOREM CartridgeTypeCorrect == Spec => []TypeOK
<1>1. IInv => TypeOK
  BY DEF IInv
<1> QED BY Invariance, <1>1, PTL

(***************************************************************************)
(* "The game finds its data where it left it" (D53): a battery cartridge   *)
(* that was taken out finds what it held then, unless a mishap of its file *)
(* is on record; for any set of ROMs and any sharing of save paths.        *)
(***************************************************************************)
THEOREM CartridgeNothingForgotten == Spec => []NothingForgotten
<1>1. IInv => NothingForgotten
  BY DEF IInv
<1> QED BY Invariance, <1>1, PTL

(***************************************************************************)
(* RAM that differs from its save file is marked as written, so that the   *)
(* save is not skipped (mbc.hpp:60-62), whatever the controller.           *)
(***************************************************************************)
THEOREM CartridgeUnsavedIsMarked == Spec => []UnsavedIsMarked
<1>1. IInv => UnsavedIsMarked
  BY Zenon DEF IInv, SlotInv, InSlot, UnsavedIsMarked
<1> QED BY Invariance, <1>1, PTL

(***************************************************************************)
(* "A cartridge that was merely looked at leaves nothing behind" (D53):    *)
(* every save file is that of a battery cartridge whose program stored to  *)
(* RAM that was open.                                                      *)
(***************************************************************************)
THEOREM CartridgeLookedAtLeavesNothing == Spec => []LookedAtLeavesNothing
<1>1. IInv => LookedAtLeavesNothing
  BY DEF IInv
<1> QED BY Invariance, <1>1, PTL

(***************************************************************************)
(* An open window reaches a cell on every cartridge of whole banks, in     *)
(* every state its program can bring the bank registers to (D51); an MBC2  *)
(* repeats its half-bytes, and a chip without a controller has one bank.   *)
(***************************************************************************)
THEOREM CartridgeOpenWindowReaches == Spec => []OpenWindowReaches
<1>1. TypeOK => OpenWindowReaches
  <2> SUFFICES ASSUME TypeOK, cart # NoRom, Chip[cart] > 0, RamOpen(Kind[cart], regs),
                      NEW o \in Offsets, o < Chip[cart] \/ Kind[cart] # "None"
               PROVE  Reaches(Kind[cart], regs, ram, o)
    BY DEF OpenWindowReaches
  <2>1. cart \in Roms /\ Kind[cart] \in Kinds /\ Chip[cart] \in Nat
    BY CartridgeAssumption DEF TypeOK
  <2>2. ram \in Seq(Bytes) /\ Len(ram) = Chip[cart] /\ regs \in Registers
    BY DEF TypeOK
  <2>3. o \in Nat
    BY MbcAssumption DEF Offsets
  <2>4. CASE Kind[cart] = "None"
    <3>1. RamOffset("None", regs, Len(ram), o) = 0 * RamBankSize + o
      BY Zenon DEF RamOffset, RamBank
    <3>2. 0 * RamBankSize + o = o
      BY <2>3, MbcAssumption
    <3> QED BY <2>2, <2>4, <3>1, <3>2 DEF Reaches
  <2>5. CASE Kind[cart] = "Mbc2"
    <3>1. Chip[cart] = Mbc2Cells
      BY <2>1, <2>5, CartridgeAssumption
    <3>2. RamOffset("Mbc2", regs, Len(ram), o) = o % Mbc2Cells
      BY DEF RamOffset
    <3>3. o % Mbc2Cells < Mbc2Cells
      BY <2>3, MbcAssumption
    <3> QED BY <2>2, <2>5, <3>1, <3>2, <3>3 DEF Reaches
  <2>6. CASE Kind[cart] \in {"Mbc1", "Mbc5"}
    <3>1. Chip[cart] % RamBankSize = 0
      BY <2>1, <2>6, CartridgeAssumption
    <3>2. PICK k \in Nat : Chip[cart] = k * RamBankSize
      BY <2>1, <3>1, WholeBanksExist
    <3>3. k > 0
      BY <3>2, MbcAssumption
    <3>4. regs.ramOn
      BY <2>6 DEF RamOpen
    <3> QED BY <2>2, <2>6, <3>2, <3>3, <3>4, BankedWindowReaches
  <2> QED BY <2>1, <2>4, <2>5, <2>6 DEF Kinds
<1> QED BY CartridgeTypeCorrect, <1>1, PTL

(***************************************************************************)
(* GameBoy::reset leaves the bank registers alone. In every state a        *)
(* program can bring them to the processor starts in bank 0, unless the    *)
(* cartridge is an MBC1 in mode 1 whose number of banks does not divide 32 *)
(* (gameboy.cpp:42-46).                                                    *)
(***************************************************************************)
THEOREM CartridgeResetFindsBankZero == Spec => []ResetFindsBankZero
<1>1. TypeOK => ResetFindsBankZero
  <2> SUFFICES ASSUME TypeOK, cart # NoRom,
                      Kind[cart] = "Mbc1" /\ regs.mode = 1 => BanksDivide32(RomBanks[cart])
               PROVE  LowBank(Kind[cart], regs, RomBanks[cart]) = 0
    BY DEF ResetFindsBankZero
  <2>1. Kind[cart] \in Kinds /\ regs \in Registers
    BY CartridgeAssumption DEF TypeOK
  <2>2. RomBanks[cart] \in Nat /\ RomBanks[cart] > 0
    BY CartridgeAssumption DEF TypeOK
  <2> QED BY <2>1, <2>2, RestartsInBankZero
<1> QED BY CartridgeTypeCorrect, <1>1, PTL
=============================================================================
