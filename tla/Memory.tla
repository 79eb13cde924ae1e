-------------------------------- MODULE Memory --------------------------------
(***************************************************************************)
(* The address map of the bus (src/core/bus.cpp): which cell of which      *)
(* memory, or which component's register, an address reaches, for a load   *)
(* and for a store. Pure operators over a record of what the bus itself    *)
(* keeps:                                                                  *)
(*   cgb    model_ = Cgb            svbk, key1, double   bank and speed    *)
(*   ie, iflag  interrupt_enable_, io_[0x0F]   serial   bytes sent         *)
(*   cells  the memories, cell by cell; a cell never stored to is 0        *)
(* The registers of the timer, the PPU, the joypad and the two copiers are *)
(* routed here and kept by the modules of those components; banks of video *)
(* memory are chosen by the PPU, and banks of ROM by the cartridge.        *)
(***************************************************************************)
EXTENDS Integers, Sequences

Addr == {n \in Nat : n < 65536}
WramBankSize == 4096   \* kWramBankSize
WramBanks == 8         \* kWramBanks

Regions == {"RomBank0", "RomBankN", "Vram", "ExternalRam", "WramBank0", "WramBankN",
            "EchoRam", "Oam", "Unusable", "IoRegisters", "Hram", "InterruptEnable"}

RegionOf(addr) ==
  IF addr < 16384 THEN "RomBank0"
  ELSE IF addr < 32768 THEN "RomBankN"
  ELSE IF addr < 40960 THEN "Vram"
  ELSE IF addr < 49152 THEN "ExternalRam"
  ELSE IF addr < 53248 THEN "WramBank0"
  ELSE IF addr < 57344 THEN "WramBankN"
  ELSE IF addr < 65024 THEN "EchoRam"
  ELSE IF addr < 65184 THEN "Oam"
  ELSE IF addr < 65280 THEN "Unusable"
  ELSE IF addr < 65408 THEN "IoRegisters"
  ELSE IF addr < 65535 THEN "Hram"
  ELSE "InterruptEnable"

WramBank(cgb, svbk) == IF ~cgb \/ svbk % 8 = 0 THEN 1 ELSE svbk % 8

-----------------------------------------------------------------------------
(* Two chains of tests, one for loads and one for stores, written one      *)
(* after the other in the code and here: nothing but the regions and the   *)
(* bank of work RAM is common to them. A cell is the memory or component   *)
(* that holds it and an index into it; registers count from 0xFF00.        *)

\* Whose register a load reaches, on a CGB once the others are ruled out.
ReadColourOwner(o) ==
  IF o = 79 THEN "vbk"
  ELSE IF o = 112 THEN "svbk"
  ELSE IF o = 77 THEN "key1"
  ELSE IF o \in 81 .. 84 THEN "hdma"
  ELSE IF o = 85 THEN "hdma"
  ELSE IF o \in 104 .. 108 THEN "ppu"
  ELSE "io"

ReadOwner(cgb, o) ==
  IF o \in 4 .. 7 THEN "timer"
  ELSE IF o = 0 THEN "joypad"
  ELSE IF o = 70 THEN "dma"
  ELSE IF o \in 64 .. 75 THEN "ppu"
  ELSE IF o = 15 THEN "if"
  ELSE IF cgb THEN ReadColourOwner(o) ELSE "io"

\* What dispatch_read reads for an address outside the echo.
ReadDirect(cgb, svbk, a) ==
  LET region == RegionOf(a) IN
  CASE region \in {"RomBank0", "RomBankN"} -> <<"rom", a>>
    [] region = "ExternalRam"     -> <<"extram", a - 40960>>
    [] region = "Vram"            -> <<"vram", a - 32768>>
    [] region = "WramBank0"       -> <<"wram", a - 49152>>
    [] region = "WramBankN"       -> <<"wram", WramBank(cgb, svbk) * WramBankSize + (a - 53248)>>
    [] region = "Oam"             -> <<"oam", a - 65024>>
    [] region = "Unusable"        -> <<"unusable", a - 65184>>
    [] region = "IoRegisters"     -> <<ReadOwner(cgb, a - 65280), a - 65280>>
    [] region = "Hram"            -> <<"hram", a - 65408>>
    [] region = "InterruptEnable" -> <<"ie", 0>>

\* dispatch_read calls itself for the echo, whose mirror is no echo.
ReadCell(cgb, svbk, addr) ==
  ReadDirect(cgb, svbk, IF RegionOf(addr) = "EchoRam" THEN addr - 8192 ELSE addr)

\* Mutant: HDMA5 is taken for a plain byte.
WriteColourOwnerWithoutHdma5(o) ==
  IF o = 79 THEN "vbk"
  ELSE IF o = 112 THEN "svbk"
  ELSE IF o = 77 THEN "key1"
  ELSE IF o \in 81 .. 84 THEN "hdma"
  ELSE IF o \in 104 .. 108 THEN "ppu"
  ELSE "io"

\* Whose register a store reaches, on a CGB once the others are ruled out.
WriteColourOwner(o) ==
  IF o = 79 THEN "vbk"
  ELSE IF o = 112 THEN "svbk"
  ELSE IF o = 77 THEN "key1"
  ELSE IF o \in 81 .. 84 THEN "hdma"
  ELSE IF o = 85 THEN "hdma"
  ELSE IF o \in 104 .. 108 THEN "ppu"
  ELSE "io"

WriteOwner(cgb, o) ==
  IF o \in 4 .. 7 THEN "timer"
  ELSE IF o = 0 THEN "joypad"
  ELSE IF o = 70 THEN "dma"
  ELSE IF o \in 64 .. 75 THEN "ppu"
  ELSE IF o = 1 THEN "io"
  ELSE IF o = 2 THEN "serial"
  ELSE IF o = 15 THEN "if"
  ELSE IF cgb THEN WriteColourOwner(o) ELSE "io"

\* What dispatch_write writes for an address outside the echo.
WriteDirect(cgb, svbk, a) ==
  LET region == RegionOf(a) IN
  CASE region \in {"RomBank0", "RomBankN"} -> <<"rom", a>>
    [] region = "ExternalRam"     -> <<"extram", a - 40960>>
    [] region = "Vram"            -> <<"vram", a - 32768>>
    [] region = "WramBank0"       -> <<"wram", a - 49152>>
    [] region = "WramBankN"       -> <<"wram", WramBank(cgb, svbk) * WramBankSize + (a - 53248)>>
    [] region = "Oam"             -> <<"oam", a - 65024>>
    [] region = "Unusable"        -> <<"unusable", a - 65184>>
    [] region = "IoRegisters"     -> <<WriteOwner(cgb, a - 65280), a - 65280>>
    [] region = "Hram"            -> <<"hram", a - 65408>>
    [] region = "InterruptEnable" -> <<"ie", 0>>

\* dispatch_write calls itself for the echo too.
WriteCell(cgb, svbk, addr) ==
  WriteDirect(cgb, svbk, IF RegionOf(addr) = "EchoRam" THEN addr - 8192 ELSE addr)

-----------------------------------------------------------------------------
(* The bus at power-on, loads and stores. *)

\* The memories with v in a cell.
With(cells, cell, v) ==
  [c \in DOMAIN cells \cup {cell} |-> IF c = cell THEN v ELSE cells[c]]

PowerOnBus(cgb, rom) ==
  [cgb |-> cgb, svbk |-> 1, key1 |-> 0, double |-> FALSE, ie |-> 0, iflag |-> 1,
   serial |-> <<>>, cells |-> With(rom, <<"io", 2>>, 126)]

Holds(bus, cell) == IF cell \in DOMAIN bus.cells THEN bus.cells[cell] ELSE 0

\* Cells with a byte in each of them.
IsMemory(cells) ==
  /\ cells = [c \in DOMAIN cells |-> cells[c]]
  /\ \A c \in DOMAIN cells : cells[c] \in 0 .. 255

\* What the bus may keep.
Sent == Seq(0 .. 255)
BusOver(cells) ==
  [cgb : BOOLEAN, svbk : 0 .. 7, key1 : 0 .. 1, double : BOOLEAN, ie : 0 .. 255,
   iflag : 0 .. 31, serial : Sent, cells : {cells}]
IsBus(bus) == bus \in BusOver(bus.cells) /\ IsMemory(bus.cells)

\* dispatch_read, for a cartridge without RAM.
LoadFrom(bus, cell) ==
  CASE cell[1] \in {"unusable", "extram"} -> 255
    [] cell[1] = "if"   -> 224 + bus.iflag
    [] cell[1] = "ie"   -> bus.ie
    [] cell[1] = "svbk" -> bus.svbk
    [] cell[1] = "hdma" /\ cell[2] # 85 -> 255
    [] cell[1] = "key1" -> 126 + (IF bus.double THEN 128 ELSE 0) + bus.key1
    [] OTHER -> Holds(bus, cell)
Load(bus, addr) == LoadFrom(bus, ReadCell(bus.cgb, bus.svbk, addr))

WithRequest(iflag, line) == IF (iflag \div line) % 2 = 1 THEN iflag ELSE iflag + line

\* A store to SC with bit 7 sends the byte of SB at once: no cable is attached.
Transfer(bus, v) ==
  IF v < 128 THEN [bus EXCEPT !.cells = With(@, <<"io", 2>>, v)]
  ELSE [bus EXCEPT !.cells = With(@, <<"io", 2>>, v - 128),
                   !.serial = Append(@, Holds(bus, <<"io", 1>>)),
                   !.iflag = WithRequest(@, 8)]

\* dispatch_write; a cartridge without controller ignores the stores to ROM.
StoreTo(bus, cell, v) ==
  CASE cell[1] \in {"rom", "unusable", "extram"} -> bus
    [] cell[1] = "if"     -> [bus EXCEPT !.iflag = v % 32]
    [] cell[1] = "ie"     -> [bus EXCEPT !.ie = v]
    [] cell[1] = "svbk"   -> [bus EXCEPT !.svbk = v % 8]
    [] cell[1] = "key1"   -> [bus EXCEPT !.key1 = v % 2]
    [] cell[1] = "serial" -> Transfer(bus, v)
    [] OTHER -> [bus EXCEPT !.cells = With(@, cell, v)]
Store(bus, addr, v) == StoreTo(bus, WriteCell(bus.cgb, bus.svbk, addr), v)

\* Bus::speed_switch_armed, Bus::perform_speed_switch.
SpeedSwitchArmed(bus) == bus.cgb /\ bus.key1 % 2 = 1
SpeedSwitched(bus) == [bus EXCEPT !.key1 = 0, !.double = ~@]

-----------------------------------------------------------------------------
(* What the map must come to. *)

\* Echo RAM mirrors the addresses 0x2000 below it.
Unechoed(addr) == IF RegionOf(addr) = "EchoRam" THEN addr - 8192 ELSE addr

\* The addresses at which the byte stored at a1 under bank x is seen under bank y.
Same(cgb, x, a1, y, a2) ==
  /\ Unechoed(a1) = Unechoed(a2)
  /\ RegionOf(Unechoed(a1)) = "WramBankN" /\ cgb
       => x % 8 = y % 8 \/ {x % 8, y % 8} = {0, 1}

\* A store and a load meet in one cell, or register, at no two addresses but these.
Apart(cgb, x, a1, y, a2) ==
  (WriteCell(cgb, x, a1) = ReadCell(cgb, y, a2)) => Same(cgb, x, a1, y, a2)
\* And there they do meet, SC excepted: a store to it goes to the transfer.
Together(cgb, x, a1, y, a2) ==
  Same(cgb, x, a1, y, a2) /\ a1 # 65282 /\ a2 # 65282
    => WriteCell(cgb, x, a1) = ReadCell(cgb, y, a2)
\* An index stays inside the array it indexes.
InsideWorkRam(cgb, x, a) ==
  LET cell == ReadCell(cgb, x, a) IN cell[1] = "wram" => cell[2] < WramBanks * WramBankSize

\* The registers that are more than a byte somebody keeps.
Registered(cgb) ==
  {0, 2, 15} \cup 4 .. 7 \cup 64 .. 75
  \cup IF cgb THEN {77, 79, 112} \cup 81 .. 85 \cup 104 .. 108 ELSE {}
\* The addresses behind which there is memory: not ROM, a chip the cartridge does not
\* have, the unusable area, or such a register.
KeepsBytes(cgb, a) ==
  LET region == RegionOf(Unechoed(a)) IN
  \/ region \in {"Vram", "WramBank0", "WramBankN", "Oam", "Hram", "InterruptEnable"}
  \/ region = "IoRegisters" /\ a - 65280 \notin Registered(cgb)
\* A byte stored there is loaded from there and from its echo, also after a change of
\* bank to y if the same bank shows, and every other load finds what it found before.
StoredIsLoaded(bus, a1, v, y, a2) ==
  KeepsBytes(bus.cgb, a1) =>
    Load([Store(bus, a1, v) EXCEPT !.svbk = y], a2) =
      IF Same(bus.cgb, bus.svbk, a1, y, a2) THEN v ELSE Load([bus EXCEPT !.svbk = y], a2)
=============================================================================
