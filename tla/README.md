# RetroEmu in TLA+

A verification development kept beside RetroEmu, a Game Boy and Game Boy Color
emulator in C++ (`src/src`, `src/include`). The modules are written from the
code; line numbers refer to the files under `src/`. `PROJECT.json` maps every
definition to the lines it stands for, and lists runs, mutants, hazards,
findings and theorems.

## 1. The system

One thread, no locks. Concurrency is that of the hardware the program imitates:
every memory access of the CPU is four clock cycles in which the PPU, the timer,
the sprite copier, the VRAM copier and the joypad all move, before the access
itself is made (`Bus::read`, `Bus::write`, `Bus::tick`). So any component can
change state between any two accesses of one instruction.

| component | code | state it keeps | operations |
|---|---|---|---|
| clock | `core/clock.hpp` | speed, system and CPU time, carry | `advance`, `set_double_speed`, `reset` |
| timer | `core/timer.cpp` | 16-bit counter, TIMA, TMA, TAC, edge memory, reload delay | `tick`, register writes, `reset` |
| PPU | `core/ppu.cpp` | line, dot, mode, STAT line, window line, signals, VRAM, OAM, palettes | `tick`, register writes, `take_*`, `reset` |
| CPU | `core/cpu.cpp` | registers, IME, pending EI, HALT, halt bug, STOP, lock-up | `step`, interrupt dispatch, instructions |
| sprite copier | `core/dma.cpp` | page, index, delay, active | `start`, `tick` |
| VRAM copier | `core/bus.cpp` | HDMA1-5, source, destination, blocks left, active | `hdma_write_control`, HBlank service |
| bus | `core/bus.cpp` | WRAM, HRAM, I/O, IE, IF, KEY1 | `read`, `write`, `tick`, speed switch |
| joypad | `core/joypad.cpp` | buttons, selected halves, request | `set`, `write`, `take_irq`, `reset` |
| controllers | `core/mbc.cpp` | bank registers, RAM, written mark | ROM-area stores, RAM accesses |
| cartridge | `core/cartridge.cpp` | header, controller, path, `.sav` file | load, save, read, write |
| machine | `core/gameboy.cpp` | bus, CPU, model | `load`, `reset`, `step`, `run_frame`, `run_system_cycles`, `save_battery` |
| window | `front/frontend.cpp` | browser, pause, loaded, running | event loop, load, reset, quit |
| debugger | `debug/debugger.cpp` | breakpoints | `f`, `t`, `reset` over the machine's loops; loops of its own for `s` and `c`; pokes |
| disassembler | `debug/disassembler.cpp` | none | text and length of an instruction |
| self-test | `debug/cpu_selftest.cpp` | none that outlives a call | benches with an expected outcome |
| tracer, drawing, command line | `debug/tracer.cpp`, `front/ui.cpp`, `main.cpp` | none that outlives a call | printing, one-shot reports |

How they meet: the CPU calls the bus; the bus ticks the others and collects
their requests into IF (`bus.cpp:134-154`), which the CPU reads at the next step
(`cpu.cpp:84`). HBlank, signalled by the PPU, moves a block of VRAM DMA in the
same tick. The machine steps the CPU until the PPU says a frame is done. The
window calls the machine once per turn of its loop, feeds the joypad between
frames, and asks for a save before it replaces a cartridge and when it ends.

Hard behaviour: registers rewritten between any two ticks; cached values (the
timer's last signal, the STAT line, the remembered IME) that several paths must
keep fresh; signals kept as plain flags; an interrupt raised in the middle of a
dispatch; two decoders, two chains of address tests and two addition rules that
must say the same thing in different words; priorities between sprites that
depend on the console and on three registers; a bus that drops stores during a transfer; a save that fails, is torn
or is cut off by the process being killed; events queued behind other events.

## 2. Modules

| module | models | abstract module it implements |
|---|---|---|
| `Timer` | `timer.cpp`, the bus cycle around an access | `MachineTimer` |
| `Ppu` | the sweep, STAT line, signals and window line of `ppu.cpp` | `Raster` |
| `Cpu` | control part of `cpu.cpp` | |
| `GameBoy` | run loops of `gameboy.cpp` and `clock.hpp` | |
| `Debugger` | loops and breakpoints of `debugger.cpp`; extends `GameBoy` | |
| `OamDma` | `dma.cpp` and the bus's block | |
| `Hdma` | VRAM DMA in `bus.cpp` | |
| `Mbc` | `mbc.cpp`, as operators | |
| `Cartridge` | slot and save files; extends `Mbc` | |
| `Window` | event loop of `frontend.cpp` with `joypad.cpp` | |
| `Alu` | arithmetic, shifts and DAA of `cpu.cpp`, as operators | |
| `Memory` | address map, banking and registers of `bus.cpp`, as operators | |
| `Processor` | every opcode of `cpu.cpp`; extends `Alu`, `Memory` | |
| `Disassembler` | `disassembler.cpp`, as operators | |
| `Picture` | video memory and `render_scanline` of `ppu.cpp`, as operators | a colour per column |
| `Scenes` | pictures to compose; extends `Memory`, `Picture` | |
| `SelfTest` | benches of `cpu_selftest.cpp`, `run_discheck` of `main.cpp`; extends `Processor`, `Disassembler`, `Scenes` | |

Each `MC*` module extends its component and gives the constants small values;
each `*Proofs` module extends its component and holds only lemmas and proofs:
`ProcessorProofs` those of `Alu`, `Memory`, `Processor`, `Disassembler` and
`SelfTest`, `CartridgeProofs` those of `Mbc` and `Cartridge`, `GameBoyProofs` those
of `GameBoy` and `Debugger`, `DmaProofs` those of both copiers, which is why the
names of `Hdma` carry its own (`HdmaInit`, `HdmaTypeOK`) where `OamDma` has the
same ones.
A definition commented "Mutant" is a plausible bug, used by nothing: each
property of a passing run is violated when the definition that follows is
replaced by its mutant.

**Timer.** `BeginTick` starts the four cycles of an access, `TickOne` is
`Timer::tick_one`, and one `Access` (`WriteDiv`, `WriteTac`, ...) may follow.
DIV and TAC writes run the same edge detector as a clock does.
`MachineTimer` says what a program can see, once per machine cycle: TIMA counts
when the watched bit falls, an overflow leaves 0 for one machine cycle, then TMA
is copied and the interrupt requested. The refinement maps the counter to a
quarter of itself and the window to "reload pending".

**Ppu.** `BeginTick(n)`, `StepDot` (one dot, with the three events of a line
and the end of line as its disjuncts) and `Collect` (the end of `Bus::tick`)
are one tick; LCDC, STAT, LYC and window writes come between. Switching the
screen off ends the sweep. `Raster` sees one beam position and two signals.
The window's registers WX, WY and the LCDC window bit are one value here, the
first line the window can show on; a write moves it anywhere.

**Cpu.** `Cpu::step` is cut where the bus ticks, since a request may be raised
there: `BeginDispatch`, `PushPc`, `TakeVector`, or `Fetch` then `Execute`, or
`Idle`. The program is open: any instruction may be found at any address.
Everything that leaves the control state alone is `Plain`. The stack is the
list of return addresses; a push that reaches 0xFFFF, 0xFF0F or 0xFF4D stores a
byte of PC to IE, IF or KEY1 (`PushToIe`, `PushToIf`, `PushToKey1`), that of a
dispatch as well as that of a call, and the same effect of a program's own PUSH is
`WriteIe`, `WriteIf` or `WriteKey1`. `RETI`, `EI`, `DI` and all else end in
`Complete`, the tail of `Cpu::step` that lets a pending EI take effect.

**GameBoy.** A step takes some cycles and may switch the screen, switch the
speed (with its pause) or be the last. Times are relative to the cap, so the
machine may run for ever. `run_seconds` is `run_system_cycles`.

**Debugger.** Its commands `f`, `t` and `reset` are the calls of `GameBoy`, made
from its prompt. `s` and `c` have loops of their own (`StepsTurn`,
`ContinueTurn`), which count instructions and CPU cycles where the machine's
loops count system cycles, end on other conditions, and leave the frame signal
alone, so that it reaches the next `f`. An instruction may lead to any address.
The user may set and delete breakpoints and poke LCDC between commands.

**OamDma.** One machine cycle per action, with what the CPU does in it: a
fetch, a store outside or inside the block, a store to OAM, an HBlank poke. HRAM
stays open to the CPU during a transfer, and page 0xFF can be the source of one:
its bytes are then registers, which move by themselves (`RegisterMoves`), and HRAM.
Memory holds versions rather than bytes, so that a stale copy is told apart
from a fresh one. `tainted` are the source bytes that changed between the start and
their turn; the copy is a snapshot but for them, and a page that is neither in VRAM
nor 0xFF has none. The pages of the echo are the pages they repeat; a transfer from
OAM itself (page 0xFE), which moves every byte onto itself, and the debugger's
untimed pokes are left out.

**Hdma.** Addresses count 16-byte blocks. `GdmaBlock` and `HBlank` interleave,
because the loop of a general purpose transfer ticks the bus. The debugger's
untimed poke of HDMA5 is left out.

**Mbc, Cartridge.** One record holds the registers of every controller. The
cartridge's RAM is a sequence of cells and so is a save file, or `NoFile`. The
save is two steps, truncation and writing, and the process may be killed
anywhere; a load may fail, keeping the old cartridge, and a save file that
cannot be opened counts as absent. The debugger's exits are among these actions:
`q` is `AskSave("exit")`, the end of its input is `Killed`. A reset of the
machine changes nothing here, since the code leaves the controller alone;
`ResetFindsBankZero` says what that costs.

**Alu, Memory, Processor.** `Cpu` cuts a step where other components may come
between and leaves the data out; `Processor` is the other half: one step is
whole, on a bus where nothing else happens meanwhile, with exact registers, flags, memory
and cycles. Its actions are the families of the decoder. Between two steps a
component may raise any request (`Request`), which `Dispatch` or the end of a HALT
then meets. `MachineSpec` is a machine switched on with any ROM of 32 KiB and no
controller, on either model, and left to run. `Memory` sends a load and a store to
a cell, or to the register of a component, by two chains of tests, each written
from its own (`ReadCell` from `dispatch_read`, `WriteCell` from `dispatch_write`);
the code's `region_of` and `wram_bank`, which both call, are all they share. The
self-test's stub of LY is left out of the first, and video memory is one bank here,
since the PPU chooses it. `Alu` is pure.

**Picture, Scenes.** `Picture` composes one line as the code does: background
and window first, then the sprites chosen in memory order, ranked, and painted
from the foremost on, each claiming its columns. Beside it stands what the rules
in the code's comments say of one column, by quantifiers and without an order of
painting; the two must agree on every pixel. `Scenes` lists what is composed: the
picture benches of the repository, sprites over each other in every combination
of priorities, more sprites than a line takes, and a program that stores to a
register between two lines.

**SelfTest.** A behaviour takes a bench, steps the processor as often as the
bench does and stops. There are the repository's own benches with the outcome
it expects, short programs in place of the ROMs `run_discheck` is given, interrupted at any
of their steps, after each instruction of which the two decoders must agree, and
sweeps over all operands. `topic` says which of these a behaviour is about.
Benches of timer, copiers, joypad and save files are not repeated here: they
state single cases of what the modules above check in general.

**Window.** SDL's queue holds presses, releases and commands; `Poll` handles
one in the order the loop does, `BeginFrame`/`Present` are the rest of a turn,
and while a frame runs the program may write JOYP. What a player does during a
frame is only looked at afterwards, so it is modelled as done then. A scripted
key is a press and a release. Moving about in the browser changes nothing here.

## 3. Runs

| run | bounds | what it shows |
|---|---|---|
| `timer` | 7-bit counter, 2-bit TIMA, watched bits 6, 3, 4, 5 | The edge memory is never stale; the reload window is one machine cycle wherever it began; the timer implements `MachineTimer`; an enabled timer left alone keeps firing. |
| `ppu` | 2+2 lines of 9 dots, ticks of 1 or 2 | The mode is the one the position calls for; the STAT line is never stale; no signal is merged with an earlier one; the window line never runs ahead; `Raster` is implemented; images keep coming, and so do the coincidence interrupts of a program that waits for nothing else. |
| `cpu` | 2 lines, 3 addresses, 2 remembered returns | A dispatch in progress has a line to serve; no request is lost but by its own dispatch, a store or a push that lands on IF; the halt bug holds back the next fetch and no other; EI takes effect one instruction later; a request wakes a halted CPU. |
| `gameboy` | 24-cycle frame, steps of 4 and 8, pause 12; two addresses, `c` bounded by 20 cycles | `run_frame` ends with the one image completed in it, unless a signal left behind by `run_system_cycles` or the debugger ends it first, and at its cap only if the screen was off; every call and every loop of the debugger returns. |
| `oam_dma` | 2 bytes, 3 pages: VRAM, 0xFF (a register and a byte of HRAM), another | Each transfer takes its exact number of cycles; what lands in OAM is the page as it was at the start, but for bytes of VRAM and of page 0xFF that changed before their turn. |
| `hdma` | 3 source and 2 target blocks, up to 2 moved | Blocks land in place in any interleaving, one per HBlank or charged turn; HDMA5 tells the truth; a transfer left alone ends. |
| `cartridge` | MBC1 and MBC2 that share a save file of two sizes, MBC5 | What a battery keeps comes back; unsaved RAM is marked; no file for a cartridge merely looked at; an open window reaches a cell; a reset finds bank 0, an MBC1 in mode 1 whose number of banks does not divide 32 excepted. |
| `window` | 2 keys for Select, Up on the same wire, one event queued | The console sees the held keys, with every exception accounted for; a falling wire and nothing else raises the request; closing the window ends the program. |
| `selftest` | the repository's benches, ten programs with requests between any two of their steps; every pair of bytes and both carries; scenes of two sprites or of twelve on a line, stores between three lines | Every bench ends as the repository expects; the two decoders agree on the length of each instruction and on where jumps lead; arithmetic is exact and DAA decimal; a byte stored in memory is found there and at its echo and changes no other load, and every register but SC is stored to where it is loaded from; every pixel is the one the rules call for. |
| `cpu_di`, `oam_dma_restart`, `cartridge_commit` | as above | Findings, section 5. |

Why the bounds are enough. The code has no case that depends on a size: a second
return address is what nesting needs, two sprite bytes give one copied and one still
ahead, two visible lines give an inner and a last one, a wrap occurs in each
counter in every run. The timer's watched bits keep the unsorted order of the
code's table and the smallest one keeps its real distance to a machine cycle.
The ticks of the PPU do not divide its modes, so that mode changes fall at every
offset within a tick. The `gameboy` frame is longer than a step and a pause
together, as the real one is. Two save files of different size exercise the
short and the long file. The queue of `window` holds one event: the player acts
between any two polls all the same, since its actions do not depend on what was
handled; the run also passes with two events queued (1.4 million states).
The bound of `c` is several steps long, so that `c` ends both at a breakpoint and
at its bound. `selftest` uses the
real sizes but for the RAM of a controller (4 cells a bank, 2 in an MBC2, which
has no case that depends on them); its operands are all there are, 256 by 256
with and without a carry. Two sprites are what a priority needs, twelve are two
more than a line takes.
The check of deadlock is off for `window`, whose program ends, and for
`selftest`, whose benches do.

The type invariant of `Ppu` is checked by name. Those of `Cpu`, `Hdma`,
`Cartridge` and `Window` are a part of `DispatchHasLine`, `BlocksInPlace`,
`UnsavedIsMarked` and `PadFollowsKeys`; those of `Timer`, `GameBoy`, `OamDma` and
`Processor` are not checked. All of them are proved (section 4), that of `Hdma` as a
part of `HdmaBlocksInPlace`.

The bounds are named: `MaxDepth` (return addresses remembered), `Versions`
(stores to one cell), `MaxBlocks`, `MaxQueue`, `CommandBytes`, `DataBytes`,
`RunCycles`, `TickLengths`, `StepCounts`, `ContinueLimit`, `BreakAt`.

Fairness. `timer`, `ppu` and `hdma`: a tick that has begun runs to its end and
another one follows, since the run loops call `Cpu::step` again and again and
every path of it ticks the bus; nothing is assumed of the program, and the
properties say what they ask of it (timer enabled, screen on, no reset). `cpu`:
a step in progress goes on. `gameboy`: an entered loop, of the machine or of the
debugger, keeps turning: each turn is one `Cpu::step`, which has no loop of its
own. `window`: the loop keeps turning, which rests on `run_frame` returning
(`CallsReturn` of `gameboy`); that the program ends also needs the player to let
the queue run dry, because SDL's queue is emptied before the flag is looked at.

Histories. Variables commented "history" appear in no guard. In `Cartridge`,
`mishaps` lists the cartridges whose file something went wrong with. A whole
save or a readable load takes a cartridge off the list again, so the promise
holds again after any mishap.

## 4. Proofs

| theorem | holds for |
|---|---|
| `TimerTypeCorrect`, `TimerDetectorFresh`, `TimerWindowAligned`, `TimerImplementsMachine` | every counter width, TIMA width and choice of watched bits whose weight is a multiple of 8 |
| `PpuTypeCorrect`, `PpuModeMatchesPosition`, `PpuStatLineFresh`, `PpuWindowBounded`, `PpuImplementsRaster` | every screen geometry and set of tick lengths |
| `PpuNoSignalMerged` | every screen geometry, with ticks no longer than a mode |
| `CpuTypeCorrect`, `CpuDispatchHasLine`, `CpuRequestsSurvive`, `CpuHaltBugNextFetch`, `CpuEiOneInstructionLater` | any lines, address space and depth of calls |
| `ArithmeticIsExact`, `DecimalIsExact`, `WordsAddByBytes`, `ShiftsAreExact`, `StepsByOne`, `OffsetsAddByBytes` | all bytes, all words, all flags |
| `CellsApart`, `CellsTogether`, `WorkRamInside`, `BytesAreKept` | every address, both consoles, every bank register, every content of the memories |
| `ArithmeticIsSound`, `DecimalIsSound`, `MemoryIsSound` | every state of `SelfTest`, without enumerating operands |
| `MachineIsTyped`, `DecodersAgree`, `StackIsKept` | either model, any ROM without a controller, requests between any two steps |
| `OamDmaTypeCorrect`, `OamDmaOnSchedule`, `OamDmaCopyIsSnapshot` | every length and set of pages, wherever HRAM begins in page 0xFF |
| `HdmaBlocksInPlace`, `HdmaEachBlockPaidFor`, `HdmaStatusTruthful` | memories of any size, transfers up to any length that fits in video memory |
| `GameBoyTypeCorrect` | every frame length and set of step lengths |
| `DebuggerImageEndsTheCall` | the same, with any addresses, breakpoints, step counts and limit |
| `RestartsInBankZero` | every controller, register contents and number of ROM banks, those of the exception aside |
| `Mbc1LargeNeverShowsBankZero`, `BankedWindowReaches` | every register contents, chips of any number of whole banks |
| `CartridgeTypeCorrect`, `CartridgeNothingForgotten`, `CartridgeUnsavedIsMarked`, `CartridgeLookedAtLeavesNothing`, `CartridgeOpenWindowReaches`, `CartridgeResetFindsBankZero` | any ROMs, controllers, chips and save paths, shared or not |
| `WindowTypeCorrect`, `WindowPadFollowsKeys`, `WindowEdgeRaisesRequest` | any keys, buttons, wires and bindings, any length of queue |

- *Timer.* The invariant has three parts: types; the edge memory equals
  the signal of the registers, which every write path must restore; and the
  counter is a multiple of four between ticks and as far into a machine cycle as
  the tick has run. The last is why the reload window is aligned: a
  watched bit falls only on a multiple of 8, so an overflow inside a tick
  happens in its last cycle and the delay of four ends with the next tick.
  Without it the window invariant is not inductive.
- *Timer to MachineTimer.* The abstract timer does not count in the cycle in
  which it reloads, the code does both independently. They agree by
  `QuietWindow`: a window the sweep opened began at a multiple of 16 (a bit of
  weight 8 falls there), where no watched bit falls one machine cycle later,
  even if TAC was made to watch another one meanwhile; a window that a store to
  DIV or TAC opened leaves the signal low, and the one access of that cycle is
  spent, so that nobody raises it before the window closes. The first three
  cycles of a tick are stutters, the fourth is the abstract cycle, a store is
  the abstract store.
- *Ppu.* Types, mode and position, and STAT freshness are proved together: the
  STAT level depends on the mode, and the mode on the dot. `WindowBounded` is
  inductive given the types: a line can end only after its HBlank began.
- *Ppu to Raster.* Line and dot map to one position, whose wrap at the end of a
  line and of a frame is a lemma (`NextPosition`); that the signals are raised
  where the beam says rests on `ModeMatchesPosition`.
- *Signals.* `NoSignalMerged` adds three facts. What is left of a tick is shorter
  than some tick; a signal of the sweep is on record only while the tick that
  raised it runs out without reaching another change of mode (`NoChangeAhead`);
  and what a register write leaves to the next tick is the STAT signal with the
  line high, after which there was no second write. It holds where no tick
  outlasts a mode (`TicksAreShort`): the ticks are 4 cycles, or 32 for a block of
  VRAM DMA, the modes 80, 172 and 204. The one tick that does not comply is the
  pause of a speed switch, of which section 5 tells.
- *Cpu.* `HaltBugNextFetch` is inductive with the types: what sets the flag leaves the
  processor awake, and every way on clears it at the fetch. `DispatchHeld` says that
  the copy of the requests exists exactly during
  a dispatch, with IME and HALT clear: the dispatch looks at its own copy, which
  is why neither the push nor the ticks under it can take its line away.
  `EiHeld` says where an EI that has not taken effect yet is at each cut of a
  step: in `imePending`, and between fetch and execution in `enableAfter` too,
  and only right after EI or the dispatch that followed it. The property alone
  is not inductive, since it forgets which of the two the dispatch left behind.
- *Alu.* An addition and its flags are written with divisions and remainders in
  the code; the lemmas turn each into an equation with a carry, and the theorems
  follow by linear arithmetic, DAA by a case for each of its two corrections.
  The theorems on words cover the operand pairs that no sweep reaches. A shift is
  a byte taken apart into its end bit and the rest; that a rotation is undone
  says at once that it loses nothing and where its carry goes.
- *Memory.* Each chain is shown to come to one form (`ReadLocated`,
  `WriteLocated`) that differs only in who owns a register, and the owners are
  compared. Once the echo is taken back, the regions tile the address space and
  an address can be read off its cell again, work RAM by its bank, the registers
  by the names of their owners; a store and a load meet in one cell only at equal
  addresses or echoes of each other under one bank. `BytesAreKept` puts a store and
  a load on top of that; it speaks of memory only (`KeepsBytes`), since HDMA1-4,
  DIV, LY, STAT, ROM and others do not give back what they are given.
- *SelfTest.* The invariants of its sweeps and tables follow from these lemmas in
  any state. They are theorems of the same `Spec` the run checks.
- *Processor.* `MachineTypeOK` says that every register, cell and flag keeps its
  width, the requests their five lines and SVBK its three bits. It is inductive as
  it stands, but for a reason per instruction: each of the 39 families of the
  decoder has a lemma that it keeps the types and, in the same proof, moves PC by
  a fixed number of bytes (`MovedBy`) or to a fixed target (`MovedByOrTo`). Both
  need to know that a store to any address leaves a bus (`StoreTyped`), which is
  one case per region of the map and per register. An instruction is whole here,
  so nothing beyond the types is needed.
- *Processor against Disassembler.* `DecodersAgree` puts these movements beside the
  lengths and targets printed: the opcode at PC is taken apart into the same
  three fields by both, a case per row of the table says what is printed, and
  the wrap of PC, once in two 16-bit sums and once in one, is a lemma
  (`RelativeOnce`). It speaks of every value of the bytes that follow, which no
  run can reach, and of any reachable state: only an opcode the halt bug fetches
  twice, an interrupt and a sleeping processor are left out, the last two as
  `run_discheck` does (section 5 has the first).
- *Stack.* `StackIsKept`: the two bytes a push stores are the two a pop would load.
  It rests on `CellsApart` for two neighbouring addresses, whose cells are
  different whatever bank or echo they are in, and on the wrap of SP. `StackInRam`
  is needed: a stack in ROM or over registers loses what it is given, in the code
  as here.
- *OamDma.* `CopyIsSnapshot` needs `OnSchedule`, because the entries below the
  index are exactly the ones copied, and "what is still to be copied and did not
  change is as it was at the start", which every store that passes the block
  preserves, because it puts the byte it changes among the tainted ones.
- *Hdma.* `Cursors` adds where the next block comes from and goes to, and
  `Exclusive` that nothing else copies while the CPU is frozen. A transfer no
  longer than video memory never comes back to a place it has written, which is
  why the blocks already in place stay there.
- *GameBoy.* The invariant adds to the types that nothing is carried from one
  `advance` to the next (`NoCarry`), every step and the pause being whole machine
  cycles. With the debugger, `OneLoop` says that its loops and the machine's never
  run together, and `ImageBeforeCap` that while the screen stays on the beam is
  nearer to the end of the image than the call is to its cap: both distances shrink
  by the same step, so an image always comes first. `ImageEndsTheCall` alone is not
  inductive: it also needs that a signal found by a call was raised in it or is
  `foreign`.
- *Mbc.* `InsideChip` is the one non-linear fact; the theorems about the banks of
  an MBC1 are a case per size, 32 having but six divisors.
- *Cartridge.* `UnsavedIsMarked` is seen to be inductive only with `SlotInv`: RAM
  and file of the cartridge in the slot agree unless a save is still to come, the
  program stored since or a mishap is on record, and a save under way has put
  everyone who shares its file on record, so that neither a crash between its two
  steps nor a file of another length can go unnoticed. `NothingForgotten` says
  the same of the cartridges that are out.
- *Window.* `PadFollowsKeys` speaks of an empty queue. The invariant speaks of any
  queue: a button no event waits for is where its keys are (`PadTells`), and the
  last event about a button, if a press, tells the truth (`QueueTells`), which is
  what makes an event a correct thing to act on when it is reached.

The assumptions are those named in the modules (`TimerAssumption`, ...), which
TLC evaluates in every run; `TicksAreShort` is a hypothesis of its theorem, true
of the constants of `ppu` as of the code's.

Only model-checked:

- liveness under fairness (`LeftAloneItFires`, `ImagesKeepComing`,
  `CoincidenceKeepsComing`, `RequestWakes`,
  `CallsReturn`, `LeftAloneItEnds`, `QuitEnds`): it needs ENABLED, which is out of
  the prover's reach;
- `ChecksPass`: it runs given benches, which is what TLC is for, and its initial
  states are laid out by folds over lists of stores;
- `PictureExact`: the picture is composed by folds over sequences, and what a
  fold computes is an induction over data.

`LengthsAgree` is checked by the run on its benches and programs and proved of
`MachineSpec`. The two overlap without one being the other: a bench may start from
registers and memory no ROM has led to yet, and `MachineSpec` runs any ROM.

## 5. Findings

Each has a run whose property quotes the code's own words and is violated.

- `cpu_di`: after `EI; DI` interrupts are enabled. DI clears both flags, but
  `Cpu::step` has copied the pending EI before (`cpu.cpp:68, 73-77, 577`).
- `oam_dma_restart`: a comment says that a second request restarts a transfer
  (`dma.cpp:26`); the bus drops the store that would ask for it (`bus.cpp:125`).
- `cartridge_commit`: the RAM of the old cartridge is said to be committed
  before it is replaced (`frontend.cpp:327`); when the save fails the new
  cartridge is loaded all the same (`frontend.cpp:329`).

Read off the code while modelling, without a run of their own:

- A comment says that a cancelled transfer can be picked up again (`bus.cpp:380`);
  the next one starts from HDMA1-4, which have not moved.
- `run_discheck` would report a mismatch of the two decoders after the halt bug,
  while the processor is stopped and during a sprite copy, where nothing is wrong
  with the disassembler (`main.cpp:527-528`). `LengthsAgree` leaves these steps out.
- `c` prints that the limit was reached when an illegal opcode ended it, and
  keeps running a stopped processor up to the limit (`debugger.cpp:272-276`).
- A reset keeps the controller's registers (`gameboy.cpp:42-46`): an MBC1 left in
  mode 1 can restart in another bank than 0 if it has 64 banks or more, or if its file
  has a size no header announces, since the banks are counted from the file
  (`mbc.hpp:71-74`, D60): of 24 banks, bank 8 with 1 in its second register. Everywhere else `ResetFindsBankZero`
  holds, by the wrap of the bank number alone.
- With SP at 0xFF10 or 0xFF11 the push of a dispatch replaces the requests with a
  byte of PC (`cpu.cpp:99, 214-217`); the line already chosen is served all the same.
- EI with IME already set, followed by a dispatch, leaves `ime_pending_` set, so
  IME is set again after the handler's first instruction (`cpu.cpp:94`).
- `EI; HALT` with a request pending sets `halt_bug_` although the dispatch comes
  first: the first byte of the handler is read twice, where the comment says the one
  after HALT (`cpu.cpp:120-122, 516`). `HaltBugNextFetch` holds of this, too: it is
  the next fetch.
- A locked-up or stopped CPU with IME set still dispatches, since the check comes
  after the dispatch (`cpu.cpp:56-63`).
- `run_system_cycles` leaves the frame signal set, and the next `run_frame`
  returns after one step without an image of its own (`gameboy.hpp:44`), the
  exception in `ImageEndsTheCall`.
- The pause of a speed switch is one tick of 8200 cycles, many lines long: its
  HBlanks are one flag and move one block of HBlank DMA (`ppu.hpp:133`). The
  tick lengths of `ppu` do not include this one, so `NoSignalMerged` speaks of
  the ticks of instructions only.
- A TMA write inside the reload window shows in TIMA at once, where D27 says
  that TIMA reads 0 there.
- On an MBC1 cartridge of fewer than 32 banks, bank register 4 of a four-bank
  cartridge shows bank 0 in the switchable window, which `mbc.cpp:43-44` and D52
  call impossible. On larger ones the claim is proved.
- `save` in the debugger says "nothing written yet" when the file could not be
  opened, and the end of its input leaves without saving, where D53 says that
  the debugger saves on quit.

## 6. Not modelled

- The cartridge header, a table lookup on read-only bytes, and the ROM itself.
- The tracer, which formats a state per line and compares two text files.
- The window's drawing, its list of files and its font: pure output. What the
  debugger and the command line print.
- Option parsing and the one-shot reports of `main.cpp` other than `run_discheck`:
  they call the facade once and keep nothing.
- The pacer, whose deadline is wall-clock time in floating point and touches no
  other state.
- All components under one bus tick. Each is checked against an environment that
  may do more than the others can: any store between any two ticks, requests at
  any time, HBlanks at any time. What depends on the order of `bus.cpp:134-154`
  alone is not checked.
- `Processor` runs on a quiet bus: no device ticks under a step and no sprite copy
  blocks its accesses; requests come between steps only. What interrupts do in the
  middle of a step is in `Cpu`, what the block does in `OamDma`.
- The serial port sends its byte at once, as in the code.

## 7. Plan

Done in this order: timer, PPU sweep, CPU control, run loops and clock, sprite
copier, VRAM copier, cartridge, window, proofs for the first group; then the data
path of the CPU, the address map, the disassembler, the picture and the self-test
over them, the debugger, and proofs about arithmetic, addresses and banks; then
the proofs of `Cpu`, `Cartridge`, `Window` and the loop of `c`, and both
refinements; last the machine of `Processor`, interrupted between its steps, and
the proofs of its types, its decoders and its stack.

1. Proofs: the variables `Debugger` adds keep their types; the operators of
   `Picture` that are not folds (colours, the choice between background and
   sprite, the wrap of the tile map); `MachineSpec` with a cartridge's controller in
   it, so that the stack may also lie in its RAM.
2. `Machine`: one bus tick over PPU, VRAM copier, timer, sprite copier and
   joypad in the order of `bus.cpp:134-154`, with `Ppu`, `Hdma`, `OamDma` and
   `Timer` as instances, and the speed switch through all of them. Properties: a
   request reaches IF in the tick that raised it; the sprite copier sees a block
   HBlank DMA moved in the same tick whole or not at all.
3. The header of a cartridge: which controller and sizes it yields, when a file
   is refused, and what a ROM of another size than it announces then shows.
