------------------------------- MODULE Picture -------------------------------
(***************************************************************************)
(* What the PPU paints (src/core/ppu.cpp): its video memory and registers, *)
(* and render_scanline, which composes one line of the picture from them.  *)
(* Pure operators over a record v of what the PPU keeps:                   *)
(*   cgb     cgb_, FALSE too when a CGB runs a black-and-white cartridge   *)
(*   lcdc, scx, scy, wx, wy, bgp, obp0, obp1, opri     registers           *)
(*   vbk     vram_bank_    bg, obj   palette RAM: the index and the bytes  *)
(*   vram    bytes by bank and offset    oam   bytes of the sprites        *)
(*   line, windowLine   the line being swept, the window's own line        *)
(*   screen  the rows composed so far, each a function of the column       *)
(* A byte never stored to is 0, or 0xFF in palette RAM. When the sweep     *)
(* composes a line, and when it starts again, is the subject of Ppu.       *)
(***************************************************************************)
EXTENDS Integers, Sequences, FiniteSets, SequencesExt

Columns == 0 .. 159            \* kScreenWidth
SpriteCount == 40              \* kSpriteCount
SpritesPerLine == 10

BitOf(v, n) == (v \div 2^n) % 2
IsSet(v, n) == BitOf(v, n) = 1
Held(cells, at, blank) == IF at \in DOMAIN cells THEN cells[at] ELSE blank

\* Ppu::reset.
PowerOnPalettes == [index |-> 0, bytes |-> <<>>]
PowerOnVideo(cgb) ==
  [cgb |-> cgb, lcdc |-> 145, scx |-> 0, scy |-> 0, wx |-> 0, wy |-> 0,
   bgp |-> 252, obp0 |-> 255, obp1 |-> 255, opri |-> 0, vbk |-> 0,
   bg |-> PowerOnPalettes, obj |-> PowerOnPalettes,
   vram |-> <<>>, oam |-> <<>>, line |-> 0, windowLine |-> 0, screen |-> <<>>]

LcdOn(v) == IsSet(v.lcdc, 7)

-----------------------------------------------------------------------------
(* Palette RAM: 64 bytes behind a one-byte window and its index.           *)

PutIndex(p, value) == [p EXCEPT !.index = (value % 64) + 128 * (value \div 128)]

\* Only a store to the data register moves the index on.
PutColour(p, value) ==
  [p EXCEPT !.bytes = (p.index % 64) :> value @@ @,
            !.index = IF @ >= 128 THEN 128 + ((@ + 1) % 64) ELSE @]

ReadIndex(p)  == p.index + 64
ReadColour(p) == Held(p.bytes, p.index % 64, 255)

-----------------------------------------------------------------------------
(* Stores and loads. *)

WriteVram(v, offset, value) == [v EXCEPT !.vram = <<v.vbk, offset>> :> value @@ @]

\* A screen switched off or on starts again from its first line, and is dark.
WriteLcdc(v, value) ==
  IF IsSet(value, 7) = LcdOn(v) THEN [v EXCEPT !.lcdc = value]
  ELSE [v EXCEPT !.lcdc = value, !.line = 0, !.windowLine = 0, !.screen = <<>>]

\* Ppu::write, by the offset from 0xFF00; the sweep's own registers are in Ppu.
WriteRegister(v, o, value) ==
  CASE o = 64  -> WriteLcdc(v, value)
    [] o = 66  -> [v EXCEPT !.scy = value]
    [] o = 67  -> [v EXCEPT !.scx = value]
    [] o = 71  -> [v EXCEPT !.bgp = value]
    [] o = 72  -> [v EXCEPT !.obp0 = value]
    [] o = 73  -> [v EXCEPT !.obp1 = value]
    [] o = 74  -> [v EXCEPT !.wy = value]
    [] o = 75  -> [v EXCEPT !.wx = value]
    [] o = 104 -> [v EXCEPT !.bg = PutIndex(@, value)]
    [] o = 105 -> [v EXCEPT !.bg = PutColour(@, value)]
    [] o = 106 -> [v EXCEPT !.obj = PutIndex(@, value)]
    [] o = 107 -> [v EXCEPT !.obj = PutColour(@, value)]
    [] o = 108 -> [v EXCEPT !.opri = value % 2]
    [] OTHER   -> v

-----------------------------------------------------------------------------
(* Colours: red, green and blue of eight bits; the alpha channel is left out. *)

Rgb(r, g, b) == 65536 * r + 256 * g + b
DmgShades == <<Rgb(155, 188, 15), Rgb(139, 172, 15), Rgb(48, 98, 48), Rgb(15, 56, 15)>>
DmgShade(i) == DmgShades[i + 1]
ShadeOf(palette, color) == (palette \div 4^color) % 4

\* Five bits to eight: the top three are repeated at the bottom.
Widened(c) == 8 * c + c \div 4
CgbColor(bgr555) ==
  Rgb(Widened(bgr555 % 32), Widened((bgr555 \div 32) % 32), Widened((bgr555 \div 1024) % 32))

PaletteColor(p, index, color) ==
  LET at == 8 * index + 2 * color
  IN CgbColor(Held(p.bytes, at, 255) + 256 * Held(p.bytes, at + 1, 255))

-----------------------------------------------------------------------------
(* Tiles: the two bits of a pixel are in two bytes. *)

VramByte(v, bank, addr) == Held(v.vram, <<bank, addr - 32768>>, 0)
Texel(v, bank, row, bit) ==
  2 * BitOf(VramByte(v, bank, row + 1), bit) + BitOf(VramByte(v, bank, row), bit)

WindowEnabled(v) == IsSet(v.lcdc, 5) /\ v.line >= v.wy
InWindow(v, x) == WindowEnabled(v) /\ x + 7 >= v.wx

\* The place of a column on the map of tiles it is painted from.
MapSpot(v, x) ==
  IF InWindow(v, x)
    THEN [base |-> IF IsSet(v.lcdc, 6) THEN 39936 ELSE 38912,
          x |-> x + 7 - v.wx, y |-> v.windowLine]
    ELSE [base |-> IF IsSet(v.lcdc, 3) THEN 39936 ELSE 38912,
          x |-> (x + v.scx) % 256, y |-> (v.line + v.scy) % 256]

\* The address of a tile: with LCDC bit 4 clear its number is signed.
TileAddr(v, n) ==
  IF IsSet(v.lcdc, 4) THEN 32768 + 16 * n ELSE 36864 + 16 * (IF n < 128 THEN n ELSE n - 256)

\* A dot of a tile, walked backwards where its attributes say so.
Flipped(n, flip) == IF flip THEN 7 - n ELSE n
TileDot(v, attr, tile, inX, inY) ==
  [color |-> Texel(v, BitOf(attr, 3), tile + 2 * Flipped(inY, IsSet(attr, 6)),
                   7 - Flipped(inX, IsSet(attr, 5))),
   attr |-> attr]

\* One dot of the background or the window. The attributes are in the other bank,
\* at the address of the tile's number.
CellDot(v, spot, cell) ==
  TileDot(v, IF v.cgb THEN VramByte(v, 1, cell) ELSE 0, TileAddr(v, VramByte(v, 0, cell)),
          spot.x % 8, spot.y % 8)
SpotDot(v, spot) == CellDot(v, spot, spot.base + 32 * (spot.y \div 8) + spot.x \div 8)
BgDot(v, x) == SpotDot(v, MapSpot(v, x))

BgBlank(v) == ~v.cgb /\ ~IsSet(v.lcdc, 0)
BgPixel(v, dot) == IF BgBlank(v) THEN DmgShade(0)
                   ELSE IF v.cgb THEN PaletteColor(v.bg, dot.attr % 8, dot.color)
                   ELSE DmgShade(ShadeOf(v.bgp, dot.color))

\* render_background: a DMG whose LCDC bit 0 is clear paints nothing, and its
\* window does not move on.
BgDots(v) == IF BgBlank(v) THEN [x \in Columns |-> [color |-> 0, attr |-> 0]]
                           ELSE [x \in Columns |-> BgDot(v, x)]
BgRow(v, dots) == [x \in Columns |-> BgPixel(v, dots[x])]
WindowUsed(v) == ~BgBlank(v) /\ \E x \in Columns : InWindow(v, x)

-----------------------------------------------------------------------------
(* Sprites. *)

OamByte(v, i, k) == Held(v.oam, 4 * i + k, 0)
Sprite(v, i) == [index |-> i, y |-> OamByte(v, i, 0), x |-> OamByte(v, i, 1),
                 tile |-> OamByte(v, i, 2), attr |-> OamByte(v, i, 3)]
Height(v) == IF IsSet(v.lcdc, 2) THEN 16 ELSE 8
Covers(v, s) == v.line >= s.y - 16 /\ v.line < s.y - 16 + Height(v)

\* The first ten of the line, in the order of OAM.
Chosen(v) ==
  LET all == SelectSeq([i \in 1 .. SpriteCount |-> Sprite(v, i - 1)], LAMBDA s : Covers(v, s))
  IN SubSeq(all, 1, IF Len(all) < SpritesPerLine THEN Len(all) ELSE SpritesPerLine)

DmgPriority(v) == ~v.cgb \/ v.opri = 1
Ranked(v) ==
  IF DmgPriority(v)
    THEN SortSeq(Chosen(v), LAMBDA s, t : s.x < t.x \/ (s.x = t.x /\ s.index < t.index))
    ELSE Chosen(v)

\* The dot of a sprite in a row of it and a column of it; bit 0 of a tall one's tile
\* is ignored.
SpriteDot(v, s, top, px) ==
  Texel(v, IF v.cgb THEN BitOf(s.attr, 3) ELSE 0,
        32768 + 16 * (IF Height(v) = 16 THEN s.tile - (s.tile % 2) ELSE s.tile)
              + 2 * (IF IsSet(s.attr, 6) THEN Height(v) - 1 - top ELSE top),
        IF IsSet(s.attr, 5) THEN px ELSE 7 - px)
SpriteTexel(v, s, x) == SpriteDot(v, s, v.line - (s.y - 16), x - (s.x - 8))

SpritePixel(v, s, color) ==
  IF v.cgb THEN PaletteColor(v.obj, s.attr % 8, color)
           ELSE DmgShade(ShadeOf(IF IsSet(s.attr, 4) THEN v.obp1 ELSE v.obp0, color))

MasterPriority(v) == ~v.cgb \/ IsSet(v.lcdc, 0)
Vetoed(v, s, dot) ==
  MasterPriority(v) /\ dot.color # 0 /\ (IsSet(s.attr, 7) \/ (v.cgb /\ IsSet(dot.attr, 7)))

\* A column of the screen where a sprite is and is not transparent.
Opaque(v, s, x) == x \in Columns /\ x - (s.x - 8) \in 0 .. 7 /\ SpriteTexel(v, s, x) # 0
OpaqueColumns(v, s) == {x \in s.x - 8 .. s.x - 1 : Opaque(v, s, x)}

\* Mutant: a sprite behind the background lets the next one through.
PaintSpriteLeavingHidden(v, dots, row, painted, s) ==
  painted @@ [x \in {x \in OpaqueColumns(v, s) : ~Vetoed(v, s, dots[x])} |->
                SpritePixel(v, s, SpriteTexel(v, s, x))]

\* One sprite over a row of background. What is painted already is claimed, and a
\* sprite claims its columns even where it ends up hidden.
PaintSprite(v, dots, row, painted, s) ==
  painted @@ [x \in OpaqueColumns(v, s) |->
                IF Vetoed(v, s, dots[x]) THEN row[x] ELSE SpritePixel(v, s, SpriteTexel(v, s, x))]

\* render_sprites.
Painted(v, dots, row) ==
  FoldLeft(LAMBDA done, s : PaintSprite(v, dots, row, done, s), <<>>, Ranked(v))
Over(painted, row) == [x \in Columns |-> Held(painted, x, row[x])]
WithSprites(v, dots, row) ==
  IF IsSet(v.lcdc, 1) THEN Over(Painted(v, dots, row), row) ELSE row

\* render_scanline, and the beam moves on.
Composed(v, dots) ==
  [v EXCEPT !.screen = Append(@, WithSprites(v, dots, BgRow(v, dots))),
            !.windowLine = IF WindowUsed(v) THEN @ + 1 ELSE @,
            !.line = @ + 1]
RenderScanline(v) == IF LcdOn(v) THEN Composed(v, BgDots(v)) ELSE v

-----------------------------------------------------------------------------
(* What a column must show, said one column at a time and without an order *)
(* of painting.                                                            *)

SelectedSprites(v) ==
  LET on == {i \in 0 .. SpriteCount - 1 : Covers(v, Sprite(v, i))}
  IN {i \in on : Cardinality({j \in on : j < i}) < SpritesPerLine}

\* Sprite i goes before sprite j: further left on a DMG, earlier in OAM otherwise.
Before(v, i, j) ==
  LET left == Sprite(v, i).x  right == Sprite(v, j).x IN
  i = j \/ IF DmgPriority(v) THEN left < right \/ (left = right /\ i < j) ELSE i < j

\* The column shows the foremost sprite that is not transparent there, unless that
\* very sprite must stay behind the background; and the background otherwise.
Foremost(v, here) == CHOOSE i \in here : \A j \in here : Before(v, i, j)
SpriteOver(v, s, dot, x) ==
  IF Vetoed(v, s, dot) THEN BgPixel(v, dot) ELSE SpritePixel(v, s, SpriteTexel(v, s, x))
ShownAmong(v, here, dot, x) ==
  IF here = {} THEN BgPixel(v, dot) ELSE SpriteOver(v, Sprite(v, Foremost(v, here)), dot, x)
ColumnShows(v, selected, x) ==
  ShownAmong(v, {i \in selected : IsSet(v.lcdc, 1) /\ Opaque(v, Sprite(v, i), x)},
             IF BgBlank(v) THEN [color |-> 0, attr |-> 0] ELSE BgDot(v, x), x)
=============================================================================
