-------------------------------- MODULE Hdma --------------------------------
(***************************************************************************)
(* The CGB's video memory copier, registers 0xFF51-0xFF55: hdma_* in       *)
(* src/core/bus.cpp. A write to HDMA5 moves everything at once, with the   *)
(* CPU frozen (general purpose), or arms a transfer of which each HBlank   *)
(* moves one block of 16 bytes. Everything is counted in blocks.           *)
(*                                                                         *)
(* The freeze is charged by ticking the bus between two blocks, and that   *)
(* tick may itself enter HBlank: GdmaBlock and HBlank interleave.          *)
(***************************************************************************)
EXTENDS Naturals

CONSTANTS
  SourceBlocks,  \* blocks of the address space (2^16 / 16)
  VramBlocks,    \* blocks of video memory (0x2000 / 16)
  MaxBlocks,     \* the longest transfer (0x7F + 1)
  Untouched      \* a block of video memory no transfer has written

ASSUME HdmaAssumption ==
  /\ SourceBlocks \in Nat /\ VramBlocks \in Nat /\ MaxBlocks \in Nat
  /\ MaxBlocks > 0 /\ VramBlocks >= MaxBlocks /\ SourceBlocks >= VramBlocks
  /\ Untouched \notin 0 .. SourceBlocks - 1

VARIABLES
  sourceReg, destReg,  \* hdma_regs_: HDMA1-2 and HDMA3-4
  source, dest,        \* hdma_source_, hdma_dest_
  length,              \* hdma_length_: blocks still to move
  hdmaActive,          \* hdma_active_: an HBlank transfer is in progress
  frozen,              \* inside the loop of a general purpose transfer
  lcdOn,               \* the sweep runs, so HBlanks come
  vram,                \* the source block each block of video memory holds
  total,               \* history: the length this transfer was asked for
  from, to,            \* history: where it was to start
  turns                \* history: HBlanks between instructions, and frozen ticks

regs    == <<sourceReg, destReg>>
history == <<total, from, to>>
hdmaVars == <<regs, source, dest, length, hdmaActive, frozen, lcdOn, vram, history, turns>>

Sources == 0 .. SourceBlocks - 1
VramAddrs == 0 .. VramBlocks - 1

\* Bus::reset fills HDMA1-4 with 0xFF.
HdmaInit ==
  /\ sourceReg = SourceBlocks - 1 /\ destReg = VramBlocks - 1
  /\ source = 0 /\ dest = 0 /\ length = 0
  /\ hdmaActive = FALSE /\ frozen = FALSE /\ lcdOn = TRUE
  /\ vram = [b \in VramAddrs |-> Untouched]
  /\ total = 0 /\ from = 0 /\ to = 0 /\ turns = 0

\* Mutant: the last block does not end the transfer.
TransferBlockStaysActive ==
  /\ vram' = [vram EXCEPT ![dest] = source]
  /\ source' = (source + 1) % SourceBlocks
  /\ dest' = (dest + 1) % VramBlocks
  /\ length' = length - 1
  /\ UNCHANGED hdmaActive

\* Mutant: the destination is not advanced.
TransferBlockSamePlace ==
  /\ vram' = [vram EXCEPT ![dest] = source]
  /\ source' = (source + 1) % SourceBlocks
  /\ length' = length - 1
  /\ hdmaActive' = (hdmaActive /\ length' > 0)
  /\ UNCHANGED dest

(***************************************************************************)
(* Bus::hdma_transfer_block. hdma_dest_ itself is not wrapped, only its    *)
(* use is; it starts inside VRAM and never runs past 2^16.                 *)
(***************************************************************************)
TransferBlock ==
  /\ vram' = [vram EXCEPT ![dest] = source]
  /\ source' = (source + 1) % SourceBlocks
  /\ dest' = (dest + 1) % VramBlocks
  /\ length' = length - 1
  /\ hdmaActive' = (hdmaActive /\ length' > 0)

\* Mutant: whether a transfer is in progress is not looked at.
ServicesInactive == length > 0

\* Mutant: the last block is never moved.
ServicesAllButLast == hdmaActive /\ length > 1

\* Bus::hdma_service_hblank moves a block.
Services == hdmaActive /\ length > 0

\* A tick enters HBlank, whoever caused the tick.
HBlank ==
  /\ lcdOn
  /\ Services
  /\ TransferBlock
  /\ turns' = IF frozen THEN turns ELSE turns + 1
  /\ UNCHANGED <<regs, frozen, lcdOn, history>>

\* Stores to HDMA1-4. A transfer in progress has its own copy.
WriteRegs(s, d) ==
  /\ ~frozen
  /\ sourceReg' = s /\ destReg' = d
  /\ UNCHANGED <<source, dest, length, hdmaActive, frozen, lcdOn, vram, total, from, to, turns>>

\* What both kinds of transfer start with.
Latch(n) ==
  /\ source' = sourceReg /\ dest' = destReg
  /\ length' = n
  /\ total' = n /\ from' = sourceReg /\ to' = destReg /\ turns' = 0
  /\ UNCHANGED <<regs, lcdOn, vram>>

\* HDMA5 with bit 7 clear while an HBlank transfer runs: what is left stays.
Cancel ==
  /\ ~frozen /\ hdmaActive
  /\ hdmaActive' = FALSE
  /\ UNCHANGED <<regs, source, dest, length, frozen, lcdOn, vram, total, from, to, turns>>

\* Mutant: a general purpose transfer counts as active while it runs.
StartGeneralActive(n) ==
  /\ ~frozen /\ ~hdmaActive
  /\ Latch(n)
  /\ hdmaActive' = TRUE
  /\ frozen' = TRUE

\* HDMA5 with bit 7 clear otherwise: the CPU is frozen in the copy loop.
StartGeneral(n) ==
  /\ ~frozen /\ ~hdmaActive
  /\ Latch(n)
  /\ frozen' = TRUE
  /\ UNCHANGED hdmaActive

\* One turn of the loop: a block, and the tick that charges for it.
GdmaBlock ==
  /\ frozen /\ length > 0
  /\ TransferBlock
  /\ turns' = turns + 1
  /\ UNCHANGED <<regs, frozen, lcdOn, history>>

GdmaEnd ==
  /\ frozen /\ length = 0
  /\ frozen' = FALSE
  /\ hdmaActive' = FALSE
  /\ UNCHANGED <<regs, source, dest, length, lcdOn, vram, history, turns>>

\* HDMA5 with bit 7 set: armed, or armed afresh.
StartHBlank(n) ==
  /\ ~frozen
  /\ Latch(n)
  /\ hdmaActive' = TRUE
  /\ UNCHANGED frozen

\* LCDC bit 7.
SwitchLcd ==
  /\ ~frozen
  /\ lcdOn' = ~lcdOn
  /\ UNCHANGED <<regs, source, dest, length, hdmaActive, frozen, vram, history, turns>>

\* GameBoy::reset; Ppu::reset clears the video memory.
HdmaReset ==
  /\ ~frozen
  /\ sourceReg' = SourceBlocks - 1 /\ destReg' = VramBlocks - 1
  /\ source' = 0 /\ dest' = 0 /\ length' = 0
  /\ hdmaActive' = FALSE /\ frozen' = FALSE /\ lcdOn' = TRUE
  /\ vram' = [b \in VramAddrs |-> Untouched]
  /\ total' = 0 /\ from' = 0 /\ to' = 0 /\ turns' = 0

Copying == HBlank \/ GdmaBlock \/ GdmaEnd

HdmaNext ==
  \/ Copying
  \/ \E s \in Sources, d \in VramAddrs : WriteRegs(s, d)
  \/ Cancel
  \/ \E n \in 1 .. MaxBlocks : StartGeneral(n) \/ StartHBlank(n)
  \/ SwitchLcd
  \/ HdmaReset

HdmaSpec == HdmaInit /\ [][HdmaNext]_hdmaVars

\* The loop of a frozen CPU turns, and a screen that is on keeps reaching HBlank.
FairSpec == HdmaSpec /\ WF_hdmaVars(Copying)

(***************************************************************************)
(* What a read of HDMA5 returns: bit 7 (here MaxBlocks) set when nothing   *)
(* runs, and the blocks left less one.                                     *)
(***************************************************************************)
Hdma5 ==
  IF length = 0 THEN 2 * MaxBlocks - 1
  ELSE (IF hdmaActive THEN 0 ELSE MaxBlocks) + ((length - 1) % MaxBlocks)

-----------------------------------------------------------------------------

HdmaTypeOK ==
  /\ sourceReg \in Sources /\ destReg \in VramAddrs
  /\ source \in Sources /\ dest \in VramAddrs
  /\ length \in 0 .. MaxBlocks
  /\ hdmaActive \in BOOLEAN /\ frozen \in BOOLEAN /\ lcdOn \in BOOLEAN
  /\ vram \in [VramAddrs -> Sources \cup {Untouched}]
  /\ total \in 0 .. MaxBlocks
  /\ from \in Sources /\ to \in VramAddrs
  /\ turns \in Nat

(***************************************************************************)
(* A transfer moves its blocks in order to consecutive places of video     *)
(* memory, wrapping at its end, undisturbed by what the program does to    *)
(* HDMA1-4 and the screen meanwhile (bus.cpp:351-364, 402-405); source and *)
(* destination stay inside their memories.                                 *)
(***************************************************************************)
Moved == total - length

BlocksInPlace ==
  /\ HdmaTypeOK /\ length <= total
  /\ \A k \in 0 .. Moved - 1 :
       vram[(to + k) % VramBlocks] = (from + k) % SourceBlocks

(***************************************************************************)
(* Every block is paid for: by an HBlank of its own, or by a tick of the   *)
(* frozen CPU. An HBlank that falls into such a tick moves nothing extra.  *)
(***************************************************************************)
EachBlockPaidFor == Moved = turns

(***************************************************************************)
(* A program polls bit 7 of HDMA5 for the end: it is clear exactly while   *)
(* HBlanks still move blocks, and then the other bits say how many.        *)
(***************************************************************************)
StatusTruthful ==
  /\ Hdma5 < MaxBlocks <=> hdmaActive
  /\ hdmaActive => length = Hdma5 + 1

(***************************************************************************)
(* A transfer that is left alone ends, if the screen stays on.             *)
(***************************************************************************)
LeftAloneItEnds == <>[]lcdOn /\ <>[][Copying]_hdmaVars => <>[](~hdmaActive /\ ~frozen)
=============================================================================
