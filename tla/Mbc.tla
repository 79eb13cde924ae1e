--------------------------------- MODULE Mbc ---------------------------------
(***************************************************************************)
(* The cartridge controllers, src/core/mbc.cpp: what a store to the ROM    *)
(* area does to the bank registers, which banks the windows then show and  *)
(* which RAM cell an address reaches. Pure operators, without state.       *)
(*                                                                         *)
(* One record holds the registers of every kind of controller: bank1 is    *)
(* the ROM bank register (bank_, bank1_), bank2 the second one (bank2_ of  *)
(* an MBC1, ram_bank_ of an MBC5).                                         *)
(***************************************************************************)
EXTENDS Naturals, Sequences

CONSTANTS
  RamBankSize,  \* cells of the RAM window (kRamBankSize, 8 KiB)
  Mbc2Cells     \* half-bytes inside an MBC2 (512)

ASSUME MbcAssumption ==
  /\ RamBankSize \in Nat /\ RamBankSize > 0
  /\ Mbc2Cells \in Nat /\ Mbc2Cells > 0 /\ Mbc2Cells <= RamBankSize

Kinds == {"None", "Mbc1", "Mbc2", "Mbc5"}
Bytes == 0 .. 255
Offsets == 0 .. RamBankSize - 1

\* Where a command is stored: the first address of its part of the ROM area.
Regions == {"0000", "2000", "3000", "4000", "6000"}

Registers == [bank1 : 0 .. 511, bank2 : 0 .. 15, mode : {0, 1}, ramOn : BOOLEAN]
PowerOn == [bank1 |-> 1, bank2 |-> 0, mode |-> 0, ramOn |-> FALSE]

Opens(v) == v % 16 = 10

-----------------------------------------------------------------------------
(* write_rom: the registers after a store of v. bit8 is bit 8 of the       *)
(* address, which only an MBC2 looks at.                                   *)

Mbc1Command(c, region, v) ==
  CASE region = "0000"             -> [c EXCEPT !.ramOn = Opens(v)]
    [] region \in {"2000", "3000"} -> [c EXCEPT !.bank1 = IF v % 32 = 0 THEN 1 ELSE v % 32]
    [] region = "4000"             -> [c EXCEPT !.bank2 = v % 4]
    [] region = "6000"             -> [c EXCEPT !.mode = v % 2]

Mbc2Command(c, region, bit8, v) ==
  CASE region \in {"4000", "6000"}          -> c
    [] region \notin {"4000", "6000"} /\ bit8  -> [c EXCEPT !.bank1 = IF v % 16 = 0 THEN 1 ELSE v % 16]
    [] region \notin {"4000", "6000"} /\ ~bit8 -> [c EXCEPT !.ramOn = Opens(v)]

Mbc5Command(c, region, v) ==
  CASE region = "0000" -> [c EXCEPT !.ramOn = Opens(v)]
    [] region = "2000" -> [c EXCEPT !.bank1 = (@ \div 256) * 256 + v]
    [] region = "3000" -> [c EXCEPT !.bank1 = (@ % 256) + 256 * (v % 2)]
    [] region = "4000" -> [c EXCEPT !.bank2 = v % 16]
    [] region = "6000" -> c

Command(kind, c, region, bit8, v) ==
  CASE kind = "None" -> c
    [] kind = "Mbc1" -> Mbc1Command(c, region, v)
    [] kind = "Mbc2" -> Mbc2Command(c, region, bit8, v)
    [] kind = "Mbc5" -> Mbc5Command(c, region, v)

-----------------------------------------------------------------------------
(* read_rom: the banks of the two windows on a cartridge of n ROM banks.   *)

\* Mutant: the bank number is not wrapped by the banks that exist.
LowBankNoWrap(kind, c, n) == IF kind = "Mbc1" /\ c.mode = 1 THEN c.bank2 * 32 ELSE 0

LowBank(kind, c, n) == IF kind = "Mbc1" /\ c.mode = 1 THEN (c.bank2 * 32) % n ELSE 0

HighBank(kind, c, n) ==
  CASE kind = "None"             -> 1
    [] kind = "Mbc1"             -> (c.bank2 * 32 + c.bank1) % n
    [] kind \in {"Mbc2", "Mbc5"} -> c.bank1 % n

-----------------------------------------------------------------------------
(* read_ram, write_ram: the cell an offset in the RAM window reaches.      *)

RamBanks(size) == (size + RamBankSize - 1) \div RamBankSize

\* Mutant: the bank number is not wrapped by the banks that exist.
RamBankNoWrap(kind, c, size) ==
  CASE kind = "Mbc1" /\ c.mode = 1 -> c.bank2
    [] kind = "Mbc5"               -> c.bank2
    [] OTHER                       -> 0

\* The bank lines a chip has no wires for are not there.
RamBank(kind, c, size) ==
  CASE size > 0 /\ kind = "Mbc1" /\ c.mode = 1 -> c.bank2 % RamBanks(size)
    [] size > 0 /\ kind = "Mbc5"               -> c.bank2 % RamBanks(size)
    [] OTHER                                   -> 0

RamOffset(kind, c, size, o) ==
  IF kind = "Mbc2" THEN o % Mbc2Cells ELSE RamBank(kind, c, size) * RamBankSize + o

RamOpen(kind, c) == kind = "None" \/ c.ramOn

Reaches(kind, c, ram, o) ==
  RamOpen(kind, c) /\ RamOffset(kind, c, Len(ram), o) < Len(ram)

\* Only the low four bits of an MBC2 cell exist.
Stored(kind, v) == IF kind = "Mbc2" THEN v % 16 ELSE v

ReadRam(kind, c, ram, o) ==
  IF Reaches(kind, c, ram, o)
    THEN LET cell == ram[RamOffset(kind, c, Len(ram), o) + 1]
         IN  IF kind = "Mbc2" THEN 240 + (cell % 16) ELSE cell
    ELSE 255

WriteRam(kind, c, ram, o, v) ==
  IF Reaches(kind, c, ram, o)
    THEN [ram EXCEPT ![RamOffset(kind, c, Len(ram), o) + 1] = Stored(kind, v)]
    ELSE ram
=============================================================================
