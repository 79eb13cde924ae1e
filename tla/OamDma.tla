------------------------------- MODULE OamDma -------------------------------
(***************************************************************************)
(* The sprite copier, src/core/dma.cpp, with the part of the bus it shares *)
(* with the CPU and the HBlank copier (src/core/bus.cpp): while a transfer *)
(* runs, the CPU reaches HRAM only. HRAM itself can be copied from: it     *)
(* lies in page 0xFF, behind the I/O registers.                            *)
(*                                                                         *)
(* A source page is one version number per byte, which a store to that     *)
(* byte changes; OAM holds the <<page, index, version>> it was given. One  *)
(* action is one machine cycle: Bus::tick(4), then the access the CPU      *)
(* makes in it. Every caller ticks whole machine cycles, so accumulator_   *)
(* is empty again after each of them, and is left out.                     *)
(***************************************************************************)
EXTENDS Naturals

CONSTANTS
  Length,      \* kOamDmaLength (160)
  Pages,       \* source pages
  VramPage,    \* a page in VRAM, which HBlank DMA also writes
  HighPage,    \* page 0xFF
  HighRam,     \* the bytes of it that are HRAM (0x80 and up); the others are registers
  None,        \* no page; an OAM entry nobody wrote
  Own,         \* an OAM entry the CPU wrote itself
  Versions     \* bound: a byte has versions 0 .. Versions - 1

ASSUME OamDmaAssumption ==
  /\ Length \in Nat /\ Length > 0
  /\ VramPage \in Pages /\ HighPage \in Pages /\ HighPage # VramPage
  /\ None \notin Pages
  /\ HighRam \subseteq 0 .. Length - 1
  /\ Versions \in Nat /\ Versions > 1

VARIABLES
  page, index,   \* page_, index_
  delay,         \* delay_
  active,        \* active_
  memory,        \* memory[p][i]: version of byte i of page p
  oam,           \* sprite memory
  requested,     \* history: the page of the last 0xFF46 store of the CPU
  snapshot,      \* history: the source page when the transfer started
  cycles,        \* history: machine cycles since then
  tainted        \* history: source bytes that changed before they were copied

vars == <<page, index, delay, active, memory, oam, requested, snapshot, cycles, tainted>>

Indexes == 0 .. Length - 1
Version == 0 .. Versions - 1
Blank == [i \in Indexes |-> 0]

Init ==
  /\ page = None /\ index = 0 /\ delay = 0 /\ active = FALSE
  /\ memory = [p \in Pages |-> Blank]
  /\ oam = [i \in Indexes |-> None]
  /\ requested = None
  /\ snapshot = Blank /\ cycles = 0 /\ tainted = {}

\* Mutant: the first byte moves in the cycle after the store.
DelayTickMovesByte == FALSE

\* The store itself occupies a machine cycle before the first byte moves.
DelayTick == active /\ delay > 0

\* Still running after one more machine cycle.
StaysActive == active /\ (DelayTick \/ index + 1 < Length)

\* Dma::tick for one machine cycle: nothing, the delay, or one byte.
OamAfterTick ==
  IF active /\ ~DelayTick /\ index < Length
    THEN [oam EXCEPT ![index] = <<page, index, memory[page][index]>>]
    ELSE oam

DmaTick ==
  /\ delay' = IF DelayTick THEN delay - 1 ELSE delay
  /\ index' = IF active /\ ~DelayTick THEN index + 1 ELSE index
  /\ active' = StaysActive
  /\ cycles' = IF active THEN cycles + 1 ELSE cycles
  /\ UNCHANGED <<page, snapshot>>

\* Mutant: the bus is never taken from the CPU.
BlockedNever == FALSE

\* Bus::cpu_blocked_by_dma for an address outside HRAM, asked after the tick.
Blocked == StaysActive

\* Byte i of page p is in HRAM.
InHram(p, i) == p = HighPage /\ i \in HighRam

\* The bytes s of page p change, when the next byte to copy is the k-th.
Changed(p, s, k) ==
  /\ memory' = [memory EXCEPT ![p] =
                 [i \in Indexes |-> IF i \in s THEN (@[i] + 1) % Versions ELSE @[i]]]
  /\ tainted' = tainted \cup {i \in s : page = p /\ i >= k}

\* The CPU touches nothing of this module.
OtherCycle ==
  /\ DmaTick
  /\ oam' = OamAfterTick
  /\ UNCHANGED <<memory, requested, tainted>>

\* A store to byte i of page p; dropped while the copier owns the bus, unless it is
\* to HRAM.
CpuStore(p, i) ==
  /\ DmaTick
  /\ oam' = OamAfterTick
  /\ IF Blocked /\ ~InHram(p, i) THEN UNCHANGED <<memory, tainted>>
                                  ELSE Changed(p, {i}, index')
  /\ UNCHANGED requested

\* A store to OAM itself.
CpuStoreOam(i) ==
  /\ DmaTick
  /\ oam' = IF Blocked THEN OamAfterTick ELSE [OamAfterTick EXCEPT ![i] = Own]
  /\ UNCHANGED <<memory, requested, tainted>>

\* A store to 0xFF46 that gets through: Dma::start.
StartDma(p) ==
  /\ ~Blocked
  /\ oam' = OamAfterTick
  /\ page' = p /\ index' = 0 /\ delay' = 1 /\ active' = TRUE
  /\ requested' = p
  /\ snapshot' = memory[p] /\ cycles' = 0 /\ tainted' = {}
  /\ UNCHANGED memory

\* The same store while a transfer goes on is dropped like any other.
StartDropped(p) ==
  /\ Blocked
  /\ DmaTick
  /\ oam' = OamAfterTick
  /\ requested' = p
  /\ UNCHANGED <<memory, tainted>>

\* HBlank DMA pokes a block into VRAM, inside the tick of a machine cycle and
\* before the sprite copier's turn in it.
HdmaStore(block) ==
  /\ Changed(VramPage, block, index)
  /\ UNCHANGED <<page, index, delay, active, oam, requested, snapshot, cycles>>

\* An I/O register reads differently: the timer, the screen or a button moved it,
\* inside the tick of a machine cycle.
RegisterMoves(i) ==
  /\ i \notin HighRam
  /\ Changed(HighPage, {i}, index)
  /\ UNCHANGED <<page, index, delay, active, oam, requested, snapshot, cycles>>

Reset ==
  /\ page' = None /\ index' = 0 /\ delay' = 0 /\ active' = FALSE
  /\ memory' = [p \in Pages |-> Blank]
  /\ oam' = [i \in Indexes |-> None]
  /\ requested' = None
  /\ snapshot' = Blank /\ cycles' = 0 /\ tainted' = {}

Next ==
  \/ OtherCycle
  \/ \E p \in Pages, i \in Indexes : CpuStore(p, i)
  \/ \E i \in Indexes : CpuStoreOam(i) \/ RegisterMoves(i)
  \/ \E block \in SUBSET Indexes : HdmaStore(block)
  \/ \E p \in Pages : StartDma(p) \/ StartDropped(p)
  \/ Reset

Spec == Init /\ [][Next]_vars

-----------------------------------------------------------------------------

TypeOK ==
  /\ page \in Pages \cup {None}
  /\ index \in 0 .. Length
  /\ delay \in {0, 1}
  /\ active \in BOOLEAN
  /\ memory \in [Pages -> [Indexes -> Version]]
  /\ oam \in [Indexes -> (Pages \X Indexes \X Version) \cup {None, Own}]
  /\ requested \in Pages \cup {None}
  /\ snapshot \in [Indexes -> Version]
  /\ cycles \in Nat
  /\ tainted \subseteq Indexes

(***************************************************************************)
(* A transfer takes one machine cycle for the store and one for each byte, *)
(* no more and no fewer: a program counts those cycles in its HRAM loop    *)
(* before it touches the bus again (dma.cpp:32-49).                        *)
(***************************************************************************)
OnSchedule ==
  /\ active => /\ page \in Pages
               /\ cycles + delay = index + 1
               /\ index < Length
               /\ delay > 0 => index = 0
  /\ ~active /\ page # None => index = Length /\ cycles = Length + 1

(***************************************************************************)
(* The copy is a snapshot. Bytes are read one by one over 160 cycles in    *)
(* which the program keeps running, yet OAM receives the page as it was    *)
(* when the transfer was started, because the stores that could disturb    *)
(* source or target are dropped (bus.cpp:106-127). What gets past that are *)
(* HBlank DMA, which pokes VRAM without asking, and in page 0xFF the CPU's *)
(* stores to HRAM and the registers that move by themselves: only the      *)
(* bytes they change ahead of the copier may be newer. Once the transfer   *)
(* is over nothing but the CPU's own stores changes an entry.              *)
(***************************************************************************)
Copied(j) == oam[j] = <<page, j, snapshot[j]>>

CopyIsSnapshot ==
  page # None =>
    /\ \A j \in (0 .. index - 1) \ tainted : Copied(j) \/ (~active /\ oam[j] = Own)
    /\ active => \A j \in (index .. Length - 1) \ tainted : memory[page][j] = snapshot[j]
    /\ page \notin {VramPage, HighPage} => tainted = {}

(***************************************************************************)
(* dma.cpp:26: a transfer requested while one is already running restarts  *)
(* it. The bus drops the store that would ask for it.                      *)
(***************************************************************************)
LastRequestWins == active => page = requested
=============================================================================
