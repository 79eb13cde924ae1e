-------------------------------- MODULE Scenes --------------------------------
(***************************************************************************)
(* Pictures to compose: the rendering and colour benches of the            *)
(* repository's self-test (src/debug/cpu_selftest.cpp), and scenes with    *)
(* sprites over each other, sprites crowding a line, and a program that    *)
(* rewrites registers between two lines. A scene is a console, stores made *)
(* while nothing is drawn, the stores a program may make before a line,    *)
(* and how many lines to compose.                                          *)
(***************************************************************************)
EXTENDS Memory, Picture

\* A store of the bus that reaches the PPU; any other leaves the picture alone.
VideoStoreTo(v, cell, value) ==
  CASE cell[1] = "vram" -> WriteVram(v, cell[2], value)
    [] cell[1] = "oam"  -> [v EXCEPT !.oam = cell[2] :> value @@ @]
    [] cell[1] = "vbk"  -> [v EXCEPT !.vbk = value % 2]
    [] cell[1] = "ppu"  -> WriteRegister(v, cell[2], value)
    [] OTHER -> v
VideoStore(colourModel, v, s) == VideoStoreTo(v, WriteCell(colourModel, 1, s[1]), s[2])

\* A colour model with a black-and-white cartridge draws like a DMG.
Prepared(scene) ==
  FoldLeft(LAMBDA v, s : VideoStore(scene.colourModel, v, s),
           PowerOnVideo(scene.colourModel /\ scene.colourCartridge), scene.pokes)

-----------------------------------------------------------------------------
(* Stores, by what they put where. *)

LcdcIs(v) == <<65344, v>>
ScxIs(v)  == <<65347, v>>
BgpIs(v)  == <<65351, v>>
Obp0Is(v) == <<65352, v>>
Obp1Is(v) == <<65353, v>>
WyIs(v)   == <<65354, v>>
WxIs(v)   == <<65355, v>>
BankIs(v) == <<65359, v>>
OpriIs(v) == <<65388, v>>
Cell(v)   == <<38912, v>>      \* the first cell of the map at 0x9800
BgIndexIs(v)  == <<65384, v>>
BgColourIs(v) == <<65385, v>>
ObjIndexIs(v)  == <<65386, v>>
ObjColourIs(v) == <<65387, v>>

TileRow(n, low, high) == << <<32768 + 16 * n, low>>, <<32769 + 16 * n, high>> >>
Solid(n, value) == [i \in 1 .. 16 |-> <<32767 + 16 * n + i, value>>]
PutSprite(i, y, x, tile, attr) ==
  << <<65024 + 4 * i, y>>, <<65025 + 4 * i, x>>, <<65026 + 4 * i, tile>>, <<65027 + 4 * i, attr>> >>
InBank1(stores) == <<BankIs(1)>> \o stores \o <<BankIs(0)>>

\* Colours pushed through the one-byte window of palette RAM.
Pushed(register, colours) ==
  FlattenSeq([i \in DOMAIN colours |-> << <<register, colours[i] % 256>>,
                                          <<register, colours[i] \div 256>> >>])

\* Tile 1 has a first row 0 2 3 3 3 3 2 0, tile 2 a single dot, tile 3 is solid.
Grey == <<BgpIs(228), Obp0Is(228), Obp1Is(228)>> \o TileRow(1, 60, 126) \o <<Cell(1)>>
Coloured ==
  <<BgIndexIs(128)>> \o Pushed(65385, <<0, 31, 992, 31744, 0, 0, 32767, 0>>)
  \o <<ObjIndexIs(128)>> \o Pushed(65387, <<0, 0, 0, 32767, 0, 0, 0, 31>>)
  \o TileRow(1, 60, 126) \o TileRow(2, 128, 0) \o Solid(3, 255) \o <<Cell(1), LcdcIs(147)>>

White == Rgb(255, 255, 255)
Red   == Rgb(255, 0, 0)
Green == Rgb(0, 255, 0)
Blue  == Rgb(0, 0, 255)

-----------------------------------------------------------------------------
(* The repository's benches: what some dots must be, and must not be. *)

Scene(model, colour, pokes, writes, lines, is, isnt) ==
  [colourModel |-> model, colourCartridge |-> colour, pokes |-> pokes,
   writes |-> writes, lines |-> lines, is |-> is, isnt |-> isnt]
Still(model, pokes, lines, is, isnt) == Scene(model, TRUE, pokes, {}, lines, is, isnt)
GreyStill(pokes, is, isnt) == Still(FALSE, Grey \o pokes, 1, is, isnt)
ColourStill(pokes, lines, is, isnt) == Still(TRUE, Coloured \o pokes, lines, is, isnt)

\* Dots of the first line, by the shade each has.
Shades(first, list) ==
  {<<first + i - 1, 0, DmgShade(list[i])>> : i \in DOMAIN list}
Dot(x, y, colour) == <<x, y, colour>>

GreyBenches == {
  GreyStill(<<>>, Shades(0, <<0, 2, 3, 3, 3, 3, 2, 0>>), {}),
  GreyStill(<<BgpIs(0)>>, Shades(0, <<0, 0, 0, 0, 0, 0, 0, 0>>), {}),
  GreyStill(<<ScxIs(1)>>, Shades(0, <<2, 3, 3, 3, 3, 2, 0>>), {}),
  GreyStill(<<LcdcIs(144)>>, Shades(2, <<0>>), {}),
  GreyStill(<< <<39936, 1>>, WyIs(0), WxIs(7), LcdcIs(241) >>, Shades(1, <<2, 3>>), {}),
  GreyStill(<<LcdcIs(147), Cell(0)>> \o PutSprite(0, 16, 8, 1, 0), Shades(0, <<0, 2, 3>>), {}),
  GreyStill(<<LcdcIs(147), Cell(0)>> \o PutSprite(0, 16, 8, 1, 32), Shades(5, <<3, 2>>), {}),
  GreyStill(<<LcdcIs(147)>> \o PutSprite(0, 16, 8, 1, 128), Shades(2, <<3>>), {}),
  GreyStill(<<LcdcIs(147), Cell(0)>>
              \o FlattenSeq([i \in 1 .. 11 |-> PutSprite(i - 1, 16, 8 * i, 1, 0)]),
            Shades(74, <<3>>) \cup Shades(82, <<0>>), {}),
  GreyStill(<<LcdcIs(147), Cell(0)>> \o TileRow(2, 255, 255)
              \o PutSprite(0, 16, 9, 2, 0) \o PutSprite(1, 16, 8, 1, 0), Shades(0, <<0>>), {}),
  GreyStill(<<LcdcIs(151), Cell(0)>> \o TileRow(3, 255, 255) \o PutSprite(0, 16, 8, 3, 0),
            {}, Shades(2, <<3>>)) }

ColourBenches == {
  ColourStill(<<>>, 1, {Dot(1, 0, Green), Dot(2, 0, Blue)}, {}),
  ColourStill(InBank1(<<Cell(1)>>), 1, {Dot(1, 0, White)}, {}),
  ColourStill(<<Cell(2)>>, 1, {Dot(0, 0, Red)}, {Dot(7, 0, Red)}),
  ColourStill(<<Cell(2)>> \o InBank1(<<Cell(32)>>), 1, {Dot(7, 0, Red)}, {Dot(0, 0, Red)}),
  ColourStill(<<Cell(2)>> \o InBank1(<<Cell(64)>>), 8, {Dot(0, 7, Red)}, {Dot(0, 0, Red)}),
  ColourStill(InBank1(TileRow(1, 0, 255) \o <<Cell(8)>>), 1,
              {Dot(0, 0, Green), Dot(7, 0, Green)}, {}),
  ColourStill(PutSprite(0, 16, 8, 3, 0), 1, {Dot(0, 0, White)}, {}),
  ColourStill(PutSprite(0, 16, 8, 3, 8) \o InBank1(Solid(3, 0) \o TileRow(3, 0, 255))
                \o <<ObjIndexIs(132)>> \o Pushed(65387, <<992>>), 1, {Dot(0, 0, Green)}, {}),
  ColourStill(InBank1(<<Cell(128)>>) \o PutSprite(0, 16, 8, 3, 0), 1,
              {Dot(1, 0, Green), Dot(0, 0, White)}, {}),
  ColourStill(InBank1(<<Cell(128)>>) \o PutSprite(0, 16, 8, 3, 0) \o <<LcdcIs(146)>>, 1,
              {Dot(1, 0, White)}, {}),
  ColourStill(<<LcdcIs(144)>>, 1, {Dot(1, 0, Green)}, {}),
  ColourStill(PutSprite(0, 16, 12, 3, 0) \o PutSprite(1, 16, 8, 3, 1), 1, {Dot(4, 0, White)}, {}),
  ColourStill(PutSprite(0, 16, 12, 3, 0) \o PutSprite(1, 16, 8, 3, 1) \o <<OpriIs(1)>>, 1,
              {Dot(4, 0, Red)}, {}) }

\* Palette RAM through its window; a DMG has none; five bits made eight.
PalettesAsExpected ==
  LET colour(pokes) == Prepared(Still(TRUE, pokes, 0, {}, {}))
      eight == colour(<<BgIndexIs(128)>> \o [i \in 1 .. 8 |-> BgColourIs(15 + i)])
      twice == colour(<<BgIndexIs(0), BgColourIs(17), BgColourIs(34)>>)
      object == colour(<<ObjIndexIs(128), ObjColourIs(90)>>)
      grey == Prepared(Still(FALSE, <<BgIndexIs(128), BgColourIs(51)>>, 0, {}, {}))
  IN /\ \A i \in 0 .. 7 : Held(eight.bg.bytes, i, 255) = 16 + i
     /\ ReadIndex(eight.bg) % 64 = 8
     /\ Held(twice.bg.bytes, 0, 255) = 34 /\ Held(twice.bg.bytes, 1, 255) = 255
     /\ ReadColour(twice.bg) = 34
     /\ Held(object.obj.bytes, 0, 255) = 90 /\ Held(object.bg.bytes, 0, 255) = 255
     /\ Held(grey.bg.bytes, 0, 255) = 255
     /\ ~Prepared(Scene(TRUE, FALSE, <<>>, {}, 0, {}, {})).cgb /\ colour(<<>>).cgb
     /\ CgbColor(32767) = White /\ CgbColor(0) = Rgb(0, 0, 0) /\ CgbColor(31) = Red
     /\ CgbColor(31744) = Blue /\ CgbColor(32493) = Rgb(107, 189, 255)

-----------------------------------------------------------------------------
(* Further scenes. *)

\* A sprite with holes and a solid one, over a tile with holes.
Overlaps ==
  {Still(TRUE, Coloured \o InBank1(<<Cell(tile)>>)
           \o PutSprite(0, 16, x0, 1, attr0) \o PutSprite(1, 16, x1, 3, attr1)
           \o <<OpriIs(opri), LcdcIs(lcdc)>>, 1, {}, {}) :
     tile \in {0, 128}, x0 \in {4, 12}, attr0 \in {0, 128}, x1 \in {8, 163},
     attr1 \in {1, 64, 128}, opri \in {0, 1}, lcdc \in {146, 147}}
  \cup
  {GreyStill(Solid(3, 255) \o <<Obp1Is(27)>>
              \o PutSprite(0, 16, x0, 1, attr0) \o PutSprite(1, 16, x1, 3, attr1)
              \o <<LcdcIs(lcdc)>>, {}, {}) :
     x0 \in {4, 8, 12}, attr0 \in {0, 48, 128}, x1 \in {8, 163},
     attr1 \in {0, 64, 128}, lcdc \in {147, 151}}

\* Twelve sprites on a line: at one place, side by side, and some of them a line lower
\* or off the screen.
Crowd(x, step, late) ==
  FlattenSeq([i \in 1 .. 12 |->
    PutSprite(i - 1, IF i % 3 \in late THEN 17 ELSE 16, IF i = 2 THEN 0 ELSE x + step * i,
              IF i % 2 = 0 THEN 3 ELSE 1, 0)])
Crowds ==
  {Still(colour, (IF colour THEN Coloured ELSE Grey \o Solid(3, 255)) \o Crowd(x, step, late)
           \o <<OpriIs(1), LcdcIs(147)>>, 2, {}, {}) :
     colour \in BOOLEAN, x \in {40, 120}, step \in {-3, 0, 4}, late \in {{}, {0}, {1, 2}}}
  \cup {ColourStill(Crowd(40, -3, {0}), 2, {}, {})}

\* A program that moves, hides and shows the window, scrolls, and switches the
\* screen off, each in the blank before a line.
Programmed ==
  {Scene(colour, colour, (IF colour THEN Coloured ELSE Grey) \o << <<39936, 1>>, <<39937, 1>> >>,
         {LcdcIs(243), LcdcIs(242), LcdcIs(115), WxIs(7), WxIs(167), WyIs(2), ScxIs(252)},
         3, {}, {}) :
     colour \in BOOLEAN}

Scenes == GreyBenches \cup ColourBenches \cup Overlaps \cup Crowds \cup Programmed
=============================================================================
