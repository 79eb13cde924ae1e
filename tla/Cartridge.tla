------------------------------ MODULE Cartridge ------------------------------
(***************************************************************************)
(* The cartridge slot and the save files: what a program does to the RAM   *)
(* of the cartridge (src/core/mbc.cpp), and when the emulator reads and    *)
(* writes the .sav file beside the ROM (src/core/cartridge.cpp,            *)
(* src/front/frontend.cpp, src/debug/debugger.cpp).                        *)
(*                                                                         *)
(* The emulator may be killed at any moment, the file may be impossible to *)
(* open, a write may stop short, and two ROMs may share a save file        *)
(* (game.gb and game.gbc both save to game.sav).                           *)
(***************************************************************************)
EXTENDS Mbc, SequencesExt

CONSTANTS
  Roms,          \* the files the player may load
  Kind, RomBanks, Chip, Battery,  \* of each: controller, banks, RAM cells, battery
  SavePath,      \* Cartridge::save_path of each
  CommandBytes,  \* values the program stores to the ROM area
  DataBytes,     \* values the program stores to the RAM window
  NoRom, NoFile

Paths == {SavePath[r] : r \in Roms}

ASSUME CartridgeAssumption ==
  /\ NoRom \notin Roms
  /\ Kind \in [Roms -> Kinds] /\ Battery \in [Roms -> BOOLEAN]
  /\ \A r \in Roms : RomBanks[r] \in Nat /\ RomBanks[r] > 0 /\ Chip[r] \in Nat
  /\ \A r \in Roms : Battery[r] => Chip[r] > 0
  /\ \A r \in Roms : Kind[r] = "Mbc2" => Chip[r] = Mbc2Cells
  /\ \A r \in Roms : Kind[r] # "Mbc2" => Chip[r] % RamBankSize = 0
  /\ \A r \in Roms : Kind[r] = "None" => Chip[r] <= RamBankSize
  /\ CommandBytes \subseteq Bytes /\ DataBytes \subseteq Bytes
  /\ NoFile \notin Seq(Bytes)

VARIABLES
  cart,         \* the cartridge in the slot
  regs,         \* its controller's registers
  ram,          \* its RAM
  ramWritten,   \* ram_written_
  disk,         \* the save files
  phase,        \* what the emulator is doing; "off" when it is not running
  next,         \* what it does after the save in progress
  held,         \* history: what each battery kept when it was taken out
  mishaps,      \* history: cartridges whose save file something went wrong with
  unsaved,      \* history: stored to since it was loaded or last saved whole
  wrote         \* history: battery cartridges whose program stored to RAM

vars == <<cart, regs, ram, ramWritten, disk, phase, next, held, mishaps, unsaved, wrote>>
slot == <<cart, regs, ram, ramWritten>>

Blank(r) == [i \in 1 .. Chip[r] |-> 255]

\* Cartridge::load_battery: a short file fills what it can, a long one is cut.
Filled(r, file) ==
  IF file = NoFile THEN Blank(r)
  ELSE [i \in 1 .. Chip[r] |-> IF i <= Len(file) THEN file[i] ELSE 255]

\* What r finds in its RAM when it is loaded.
Restored(r) == IF Battery[r] THEN Filled(r, disk[SavePath[r]]) ELSE Blank(r)

Sharing(r) == {s \in Roms : Battery[s] /\ SavePath[s] = SavePath[r]}

Init ==
  /\ cart = NoRom /\ regs = PowerOn /\ ram = <<>> /\ ramWritten = FALSE
  /\ disk = [p \in Paths |-> NoFile]
  /\ phase = "off" /\ next = "play"
  /\ held = [r \in Roms |-> Blank(r)] /\ mishaps = {} /\ unsaved = FALSE /\ wrote = {}

-----------------------------------------------------------------------------
(* The program in the cartridge. *)

\* A store below 0x8000 is a command to the controller.
StoreRom(region, bit8, v) ==
  /\ phase = "play" /\ cart # NoRom
  /\ regs' = Command(Kind[cart], regs, region, bit8, v)
  /\ UNCHANGED <<cart, ram, ramWritten, disk, phase, next, held, mishaps, unsaved, wrote>>

\* Mutant: the controller with half-bytes does not mark its RAM as written.
StoreRamForgetsMark(o, v) ==
  /\ phase = "play" /\ cart # NoRom
  /\ ram' = WriteRam(Kind[cart], regs, ram, o, v)
  /\ ramWritten' = (ramWritten \/ (Kind[cart] # "Mbc2" /\ Reaches(Kind[cart], regs, ram, o)))
  /\ wrote' = IF Battery[cart] /\ Reaches(Kind[cart], regs, ram, o)
                THEN wrote \cup {cart} ELSE wrote
  /\ unsaved' = (unsaved \/ (Battery[cart] /\ Reaches(Kind[cart], regs, ram, o)))
  /\ UNCHANGED <<cart, regs, disk, phase, next, held, mishaps>>

\* A store to 0xA000-0xBFFF.
StoreRam(o, v) ==
  /\ phase = "play" /\ cart # NoRom
  /\ ram' = WriteRam(Kind[cart], regs, ram, o, v)
  /\ ramWritten' = (ramWritten \/ Reaches(Kind[cart], regs, ram, o))
  /\ wrote' = IF Battery[cart] /\ Reaches(Kind[cart], regs, ram, o)
                THEN wrote \cup {cart} ELSE wrote
  /\ unsaved' = (unsaved \/ (Battery[cart] /\ Reaches(Kind[cart], regs, ram, o)))
  /\ UNCHANGED <<cart, regs, disk, phase, next, held, mishaps>>

-----------------------------------------------------------------------------
(* Cartridge::save_battery, in the steps the file system sees. *)

\* Mutant: a cartridge that was merely looked at is saved too.
SaveWantedAlways == cart # NoRom /\ Battery[cart]

SaveWanted == cart # NoRom /\ Battery[cart] /\ ramWritten

\* A save is asked for before a load, before the exit, or by the debugger.
AskSave(what) ==
  /\ phase = "play"
  /\ phase' = IF SaveWanted THEN "save" ELSE what
  /\ next' = IF SaveWanted THEN what ELSE "play"
  /\ UNCHANGED <<slot, disk, held, mishaps, unsaved, wrote>>

\* The file cannot be opened: save_battery fails, and its callers go on.
SaveFails ==
  /\ phase = "save"
  /\ phase' = next /\ next' = "play"
  /\ mishaps' = mishaps \cup {cart}
  /\ UNCHANGED <<slot, disk, held, unsaved, wrote>>

\* The file is opened and truncated.
SaveOpens ==
  /\ phase = "save"
  /\ disk' = [disk EXCEPT ![SavePath[cart]] = <<>>]
  /\ phase' = "write"
  /\ mishaps' = mishaps \cup Sharing(cart)
  /\ UNCHANGED <<slot, next, held, unsaved, wrote>>

\* Mutant: the last cell is left out.
SaveWritesShort(n) ==
  /\ phase = "write"
  /\ LET k == IF n = Len(ram) THEN n - 1 ELSE n
     IN  disk' = [disk EXCEPT ![SavePath[cart]] = SubSeq(ram, 1, k)]
  /\ phase' = next /\ next' = "play"
  /\ mishaps' = IF n = Len(ram) THEN mishaps \ {cart} ELSE mishaps
  /\ unsaved' = (unsaved /\ n < Len(ram))
  /\ UNCHANGED <<slot, held, wrote>>

\* The RAM is written to it, perhaps only its first n cells.
SaveWrites(n) ==
  /\ phase = "write"
  /\ disk' = [disk EXCEPT ![SavePath[cart]] = SubSeq(ram, 1, n)]
  /\ phase' = next /\ next' = "play"
  /\ mishaps' = IF n = Len(ram) THEN mishaps \ {cart} ELSE mishaps
  /\ unsaved' = (unsaved /\ n < Len(ram))
  /\ UNCHANGED <<slot, held, wrote>>

-----------------------------------------------------------------------------
(* Loading, leaving and being killed. *)

\* The cartridge in the slot, if any, is taken out.
TakenOut == [r \in Roms |-> IF r = cart /\ Battery[r] THEN ram ELSE held[r]]

\* GameBoy::load builds the new cartridge first: a failure leaves the old one.
LoadFails ==
  /\ phase = "load"
  /\ phase' = "play"
  /\ UNCHANGED <<slot, disk, next, held, mishaps, unsaved, wrote>>

\* A save file that cannot be opened is taken for one that does not exist.
Load(r, readable) ==
  /\ phase = "load"
  /\ readable \/ (Battery[r] /\ disk[SavePath[r]] # NoFile)
  /\ cart' = r
  /\ regs' = PowerOn
  /\ ram' = IF readable THEN Restored(r) ELSE Blank(r)
  /\ ramWritten' = FALSE
  /\ phase' = "play"
  /\ held' = TakenOut
  /\ mishaps' = IF readable THEN mishaps \ {r} ELSE mishaps \cup {r}
  /\ unsaved' = FALSE
  /\ UNCHANGED <<disk, next, wrote>>

Gone ==
  /\ cart' = NoRom /\ regs' = PowerOn /\ ram' = <<>> /\ ramWritten' = FALSE
  /\ phase' = "off" /\ next' = "play"
  /\ held' = TakenOut
  /\ unsaved' = FALSE
  /\ UNCHANGED <<disk, wrote>>

Exit ==
  /\ phase = "exit"
  /\ Gone
  /\ UNCHANGED mishaps

\* The process is killed, or the debugger meets the end of its input, which
\* it leaves by without saving (debugger.cpp:175).
Killed ==
  /\ phase # "off"
  /\ Gone
  /\ mishaps' = IF unsaved THEN mishaps \cup {cart} ELSE mishaps

Start ==
  /\ phase = "off"
  /\ phase' = "play"
  /\ UNCHANGED <<slot, disk, next, held, mishaps, unsaved, wrote>>

Program ==
  \/ \E region \in Regions, bit8 \in BOOLEAN, v \in CommandBytes : StoreRom(region, bit8, v)
  \/ \E o \in Offsets, v \in DataBytes : StoreRam(o, v)

Next ==
  \/ Start \/ Program
  \/ \E what \in {"play", "load", "exit"} : AskSave(what)
  \/ SaveFails \/ SaveOpens
  \/ \E n \in 0 .. Len(ram) : SaveWrites(n)
  \/ LoadFails
  \/ \E r \in Roms, readable \in BOOLEAN : Load(r, readable)
  \/ Exit \/ Killed

Spec == Init /\ [][Next]_vars

-----------------------------------------------------------------------------

TypeOK ==
  /\ cart \in Roms \cup {NoRom}
  /\ regs \in Registers
  /\ ram \in Seq(Bytes)
  /\ Len(ram) = (IF cart = NoRom THEN 0 ELSE Chip[cart])
  /\ ramWritten \in BOOLEAN
  /\ disk \in [Paths -> {NoFile} \cup Seq(Bytes)]
  /\ phase \in {"off", "play", "save", "write", "load", "exit"}
  /\ next \in {"play", "load", "exit"}
  /\ phase \in {"save", "write"} => SaveWanted
  /\ held \in [Roms -> Seq(Bytes)]
  /\ mishaps \subseteq Roms /\ unsaved \in BOOLEAN /\ wrote \subseteq Roms

(***************************************************************************)
(* "The game finds its data where it left it" (D53): a battery cartridge   *)
(* that is loaded again holds what it held when it was taken out, unless   *)
(* its save failed, was cut short or was cut off by the process being      *)
(* killed, could not be read, or was written over by a ROM of the same     *)
(* name; and one later save that succeeds makes it whole again.            *)
(***************************************************************************)
NothingForgotten ==
  \A r \in Roms \ (mishaps \cup {cart}) : Battery[r] => Restored(r) = held[r]

(***************************************************************************)
(* While a cartridge is in the slot, RAM that differs from its save file   *)
(* is marked as written, whatever controller it went through               *)
(* (mbc.hpp:60-62); otherwise the save would be skipped without a word. A  *)
(* RAM restored from a file of any length has the length of its chip.      *)
(***************************************************************************)
UnsavedIsMarked ==
  /\ TypeOK
  /\ cart # NoRom /\ cart \notin mishaps /\ Battery[cart] /\ ram # Restored(cart)
       => ramWritten

(***************************************************************************)
(* "A cartridge that was merely looked at leaves nothing behind" (D53): a  *)
(* save file exists only if a program of one of its ROMs has stored to RAM *)
(* that was open.                                                          *)
(***************************************************************************)
LookedAtLeavesNothing ==
  \A p \in Paths : disk[p] # NoFile =>
    \E r \in wrote : SavePath[r] = p /\ Battery[r]

(***************************************************************************)
(* A bank that does not exist shows one that does (D51): over a chip of    *)
(* whole banks an open window reaches a cell, whatever the program put in  *)
(* the bank registers, so that no store is lost.                           *)
(***************************************************************************)
OpenWindowReaches ==
  cart # NoRom /\ Chip[cart] > 0 /\ RamOpen(Kind[cart], regs) =>
    \A o \in Offsets : o < Chip[cart] \/ Kind[cart] # "None" =>
      Reaches(Kind[cart], regs, ram, o)

(***************************************************************************)
(* GameBoy::reset leaves the bank registers as they are, and starts the    *)
(* processor in the fixed window (gameboy.cpp:42-46). That is the bank the *)
(* cartridge starts in, whatever its program left in the registers, with   *)
(* one exception: an MBC1 left in mode 1 whose number of banks does not    *)
(* divide 32. Those are the MBC1 of 64 banks and more, and any whose file  *)
(* has a size no header announces, since rom_banks counts what the file    *)
(* holds (mbc.hpp:71-74): of 24 banks, bank 8 is where it can restart.     *)
(***************************************************************************)
BanksDivide32(n) == 32 % n = 0

ResetFindsBankZero ==
  cart # NoRom /\ (Kind[cart] = "Mbc1" /\ regs.mode = 1 => BanksDivide32(RomBanks[cart])) =>
    LowBank(Kind[cart], regs, RomBanks[cart]) = 0

(***************************************************************************)
(* frontend.cpp:327-328: whatever the previous cartridge wrote is          *)
(* committed before it is replaced.                                        *)
(***************************************************************************)
CommittedBeforeReplaced ==
  [][cart # NoRom /\ cart' # NoRom /\ cart' # cart => ~unsaved]_vars
=============================================================================
