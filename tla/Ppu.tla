--------------------------------- MODULE Ppu ---------------------------------
(***************************************************************************)
(* The sweep of the PPU, its STAT interrupt line and the signals Bus::tick *)
(* drains: src/core/ppu.cpp and src/core/bus.cpp.                          *)
(*                                                                         *)
(* Bus::tick runs the sweep for some system cycles (BeginTick, StepDot)    *)
(* and then takes the signals the dots left behind (Collect). The access   *)
(* that the tick was charged for may then write a register.                *)
(*                                                                         *)
(* Pixels are left out. Of the background, the window's own line counter   *)
(* is kept: `window` is the first line the window shows on, the one value  *)
(* LCDC, WY and WX together decide (VisibleLines when it never shows).     *)
(***************************************************************************)
EXTENDS Naturals

CONSTANTS
  DotsPerLine,   \* kDotsPerLine  (456)
  OamScanDots,   \* kOamScanDots  (80)
  DrawingDots,   \* kDrawingDots  (172)
  VisibleLines,  \* kVisibleLines (144)
  TotalLines,    \* kTotalLines   (154)
  TickLengths    \* system cycles one Bus::tick may hand to the PPU

ASSUME PpuAssumption ==
  /\ OamScanDots \in Nat /\ OamScanDots > 0
  /\ DrawingDots \in Nat /\ DrawingDots > 0
  /\ DotsPerLine \in Nat /\ DotsPerLine > OamScanDots + DrawingDots
  /\ VisibleLines \in Nat /\ VisibleLines > 0
  /\ TotalLines \in Nat /\ TotalLines > VisibleLines
  /\ TickLengths \subseteq Nat \ {0}

VARIABLES
  lcdOn,         \* LCDC bit 7
  sources,       \* the STAT sources that are enabled, bits 3-6 of stat_
  lyc,           \* lyc_
  ly, dot,       \* ly_, dot_: the position of the sweep
  mode,          \* mode_
  statLine,      \* stat_line_: the level of the STAT line
  statIrq, vblankIrq, hblankEntered, frameReady,  \* signals not taken yet
  window,        \* the first line the window shows on
  windowLine,    \* window_line_: the window's own line counter
  left,          \* dots the current tick still has to sweep
  ticking,       \* inside Bus::tick
  access         \* the CPU may still make the access this tick was paid for

sweepVars  == <<ly, dot, mode, windowLine>>
lineVars   == <<statLine, statIrq>>
configVars == <<lcdOn, sources, lyc, window>>
tickVars   == <<left, ticking, access>>
vars == <<sweepVars, lineVars, configVars, tickVars, vblankIrq, hblankEntered, frameReady>>

Sources == {"lyc", "hblank", "vblank", "oam"}
Modes == {"HBlank", "VBlank", "OamScan", "Drawing"}

\* The level of the STAT line: its sources ORed onto one line.
StatLevel(on, srcs, match, y, m) ==
  /\ on
  /\ \/ "lyc" \in srcs /\ y = match
     \/ "hblank" \in srcs /\ m = "HBlank"
     \/ "vblank" \in srcs /\ m = "VBlank"
     \/ "oam" \in srcs /\ m = "OamScan"

\* Mutant: the line is raised and never lowered.
UpdateStatLineLatched ==
  /\ statLine' = (statLine \/ StatLevel(lcdOn', sources', lyc', ly', mode'))
  /\ statIrq' = (statIrq \/ (statLine' /\ ~statLine))

\* Ppu::update_stat_line: only a rising edge of the line raises the interrupt.
UpdateStatLine ==
  /\ statLine' = StatLevel(lcdOn', sources', lyc', ly', mode')
  /\ statIrq' = (statIrq \/ (statLine' /\ ~statLine))

Init ==
  /\ lcdOn = TRUE /\ sources = {} /\ lyc = 0
  /\ ly = 0 /\ dot = 0 /\ mode = "OamScan" /\ windowLine = 0
  /\ statLine = FALSE /\ statIrq = FALSE
  /\ vblankIrq = FALSE /\ hblankEntered = FALSE /\ frameReady = FALSE
  /\ window = VisibleLines
  /\ left = 0 /\ ticking = FALSE /\ access = FALSE

\* Mutant: the sweep waits until the last image has been taken.
BeginTickWaitsForFrame(n) ==
  /\ ~ticking
  /\ ticking' = TRUE
  /\ access' = TRUE
  /\ left' = IF lcdOn /\ ~frameReady THEN n ELSE 0
  /\ UNCHANGED <<sweepVars, lineVars, configVars, vblankIrq, hblankEntered, frameReady>>

\* Bus::tick reaches the PPU; a screen that is off sweeps nothing.
BeginTick(n) ==
  /\ ~ticking
  /\ ticking' = TRUE
  /\ access' = TRUE
  /\ left' = IF lcdOn THEN n ELSE 0
  /\ UNCHANGED <<sweepVars, lineVars, configVars, vblankIrq, hblankEntered, frameReady>>

-----------------------------------------------------------------------------
(* Ppu::step_dot, one action per outcome. *)

StepsTo(d) == left > 0 /\ dot + 1 = d /\ left' = left - 1

\* Nothing happens at this dot.
PlainDot ==
  /\ left > 0 /\ left' = left - 1
  /\ dot + 1 < DotsPerLine
  /\ dot' = dot + 1
  /\ ly < VisibleLines => dot' \notin {OamScanDots, OamScanDots + DrawingDots}
  /\ UNCHANGED <<ly, mode, windowLine, lineVars, configVars, ticking, access,
                 vblankIrq, hblankEntered, frameReady>>

StartDrawing ==
  /\ ly < VisibleLines
  /\ StepsTo(OamScanDots)
  /\ dot' = OamScanDots
  /\ mode' = "Drawing"
  /\ UNCHANGED <<ly, windowLine, configVars, ticking, access,
                 vblankIrq, hblankEntered, frameReady>>
  /\ UpdateStatLine

\* The line is rendered, which advances the window if it showed on it.
StartHBlank ==
  /\ ly < VisibleLines
  /\ StepsTo(OamScanDots + DrawingDots)
  /\ dot' = OamScanDots + DrawingDots
  /\ mode' = "HBlank"
  /\ hblankEntered' = TRUE
  /\ windowLine' = IF ly >= window THEN windowLine + 1 ELSE windowLine
  /\ UNCHANGED <<ly, configVars, ticking, access, vblankIrq, frameReady>>
  /\ UpdateStatLine

\* Mutant: VBlank is only entered one line late.
EndLineLate ==
  /\ StepsTo(DotsPerLine)
  /\ dot' = 0
  /\ ly' = IF ly + 1 > TotalLines THEN 0 ELSE ly + 1
  /\ mode' = CASE ly' < VisibleLines -> "OamScan"
               [] ly' = VisibleLines -> "VBlank"
               [] OTHER -> mode
  /\ vblankIrq' = (vblankIrq \/ ly' = VisibleLines)
  /\ frameReady' = (frameReady \/ ly' = VisibleLines)
  /\ windowLine' = IF ly' = 0 THEN 0 ELSE windowLine
  /\ UNCHANGED <<configVars, ticking, access, hblankEntered>>
  /\ UpdateStatLine

\* Mutant: a line inside VBlank changes LY without rerunning the STAT line.
EndLineStaleStat ==
  /\ StepsTo(DotsPerLine)
  /\ dot' = 0
  /\ ly' = (ly + 1) % TotalLines
  /\ mode' = CASE ly' < VisibleLines -> "OamScan"
               [] ly' = VisibleLines -> "VBlank"
               [] OTHER -> mode
  /\ vblankIrq' = (vblankIrq \/ ly' = VisibleLines)
  /\ frameReady' = (frameReady \/ ly' = VisibleLines)
  /\ windowLine' = IF ly' = 0 THEN 0 ELSE windowLine
  /\ UNCHANGED <<configVars, ticking, access, hblankEntered>>
  /\ IF ly' > VisibleLines THEN UNCHANGED lineVars ELSE UpdateStatLine

\* The end of a line: the next visible one, VBlank, or back to the top.
EndLine ==
  /\ StepsTo(DotsPerLine)
  /\ dot' = 0
  /\ ly' = IF ly + 1 >= TotalLines THEN 0 ELSE ly + 1
  /\ mode' = CASE ly' < VisibleLines -> "OamScan"
               [] ly' = VisibleLines -> "VBlank"
               [] OTHER -> mode
  /\ vblankIrq' = (vblankIrq \/ ly' = VisibleLines)
  /\ frameReady' = (frameReady \/ ly' = VisibleLines)
  /\ windowLine' = IF ly' = 0 THEN 0 ELSE windowLine
  /\ UNCHANGED <<configVars, ticking, access, hblankEntered>>
  /\ UpdateStatLine

StepDot == PlainDot \/ StartDrawing \/ StartHBlank \/ EndLine

\* Mutant: nobody takes the HBlank signal while no HBlank DMA runs.
CollectKeepsHblank ==
  /\ ticking /\ left = 0
  /\ ticking' = FALSE
  /\ statIrq' = FALSE /\ vblankIrq' = FALSE
  /\ UNCHANGED <<sweepVars, statLine, configVars, left, access, hblankEntered, frameReady>>

\* Bus::tick drains what the sweep signalled.
Collect ==
  /\ ticking /\ left = 0
  /\ ticking' = FALSE
  /\ statIrq' = FALSE /\ vblankIrq' = FALSE /\ hblankEntered' = FALSE
  /\ UNCHANGED <<sweepVars, statLine, configVars, left, access, frameReady>>

-----------------------------------------------------------------------------
(* Ppu::write: the access of this machine cycle is a write to a register. *)

Access ==
  /\ ~ticking /\ access /\ access' = FALSE
  /\ UNCHANGED <<left, ticking, vblankIrq, hblankEntered, frameReady>>

\* Mutant: switching the screen off only stops the sweep.
SwitchOffInPlace ==
  /\ Access
  /\ lcdOn /\ lcdOn' = FALSE
  /\ mode' = "HBlank"
  /\ statLine' = FALSE
  /\ UNCHANGED <<ly, dot, windowLine, sources, lyc, window, statIrq>>

\* Mutant: the window's line counter survives the switch.
SwitchOffKeepsWindow ==
  /\ Access
  /\ lcdOn /\ lcdOn' = FALSE
  /\ ly' = 0 /\ dot' = 0 /\ mode' = "HBlank"
  /\ statLine' = FALSE
  /\ UNCHANGED <<windowLine, sources, lyc, window, statIrq>>

\* LCDC bit 7 falls: the sweep is parked at the top.
SwitchOff ==
  /\ Access
  /\ lcdOn /\ lcdOn' = FALSE
  /\ ly' = 0 /\ dot' = 0 /\ mode' = "HBlank" /\ windowLine' = 0
  /\ statLine' = FALSE
  /\ UNCHANGED <<sources, lyc, window, statIrq>>

\* LCDC bit 7 rises: the sweep starts again at the top.
SwitchOn ==
  /\ Access
  /\ ~lcdOn /\ lcdOn' = TRUE
  /\ ly' = 0 /\ dot' = 0 /\ mode' = "OamScan" /\ windowLine' = 0
  /\ UNCHANGED <<sources, lyc, window>>
  /\ UpdateStatLine

WriteStat(srcs) ==
  /\ Access
  /\ sources' = srcs
  /\ UNCHANGED <<sweepVars, lcdOn, lyc, window>>
  /\ UpdateStatLine

WriteLyc(y) ==
  /\ Access
  /\ lyc' = y
  /\ UNCHANGED <<sweepVars, lcdOn, sources, window>>
  /\ UpdateStatLine

\* LCDC bit 5, WY or WX: from which line on the window shows.
MoveWindow(y) ==
  /\ Access
  /\ window' = y
  /\ UNCHANGED <<sweepVars, lineVars, lcdOn, sources, lyc>>

\* GameBoy::run_frame takes the finished image, between two instructions.
TakeFrameReady ==
  /\ ~ticking /\ frameReady
  /\ frameReady' = FALSE
  /\ UNCHANGED <<sweepVars, lineVars, configVars, tickVars, vblankIrq, hblankEntered>>

\* GameBoy::reset, between two instructions.
Reset ==
  /\ ~ticking
  /\ lcdOn' = TRUE /\ sources' = {} /\ lyc' = 0
  /\ ly' = 0 /\ dot' = 0 /\ mode' = "OamScan" /\ windowLine' = 0
  /\ statLine' = FALSE /\ statIrq' = FALSE
  /\ vblankIrq' = FALSE /\ hblankEntered' = FALSE /\ frameReady' = FALSE
  /\ window' = VisibleLines
  /\ left' = 0 /\ ticking' = FALSE /\ access' = FALSE

\* Everything but a reset of the machine.
Run ==
  \/ \E n \in TickLengths : BeginTick(n)
  \/ StepDot
  \/ Collect
  \/ SwitchOff
  \/ SwitchOn
  \/ \E srcs \in SUBSET Sources : WriteStat(srcs)
  \/ \E y \in 0 .. TotalLines : WriteLyc(y)
  \/ \E y \in 0 .. VisibleLines : MoveWindow(y)
  \/ TakeFrameReady

Next == Run \/ Reset

Spec == Init /\ [][Next]_vars

\* Cpu::step always ticks the bus, and Bus::tick always runs to its end.
Fairness ==
  /\ WF_vars(\E n \in TickLengths : BeginTick(n))
  /\ WF_vars(StepDot)
  /\ WF_vars(Collect)
FairSpec == Spec /\ Fairness

-----------------------------------------------------------------------------

TypeOK ==
  /\ lcdOn \in BOOLEAN
  /\ sources \subseteq Sources
  /\ lyc \in 0 .. TotalLines
  /\ ly \in 0 .. TotalLines - 1
  /\ dot \in 0 .. DotsPerLine - 1
  /\ mode \in Modes
  /\ statLine \in BOOLEAN /\ statIrq \in BOOLEAN
  /\ vblankIrq \in BOOLEAN /\ hblankEntered \in BOOLEAN /\ frameReady \in BOOLEAN
  /\ window \in 0 .. VisibleLines
  /\ windowLine \in Nat
  /\ left \in Nat
  /\ ticking \in BOOLEAN /\ access \in BOOLEAN

(***************************************************************************)
(* The mode is always the one the position calls for, although it is only  *)
(* updated at single dots; and a screen that is off is parked, whatever it *)
(* was doing when it was switched off.                                     *)
(***************************************************************************)
ModeAt(y, d) ==
  CASE y >= VisibleLines -> "VBlank"
    [] y < VisibleLines /\ d < OamScanDots -> "OamScan"
    [] y < VisibleLines /\ d >= OamScanDots /\ d < OamScanDots + DrawingDots -> "Drawing"
    [] OTHER -> "HBlank"

ModeMatchesPosition ==
  IF lcdOn THEN mode = ModeAt(ly, dot)
           ELSE mode = "HBlank" /\ ly = 0 /\ dot = 0 /\ left = 0

(***************************************************************************)
(* The STAT line is never stale: every path that changes LY, LYC, the      *)
(* mode, the enabled sources or the screen reruns it. A path that forgot   *)
(* would lose an interrupt now and raise a spurious one later.             *)
(***************************************************************************)
StatLineFresh == statLine = StatLevel(lcdOn, sources, lyc, ly, mode)

(***************************************************************************)
(* The signals are plain flags: two of a kind inside one tick would become *)
(* one. With the ticks instructions make, none is ever raised twice        *)
(* before it is taken.                                                     *)
(***************************************************************************)
NoSignalMerged ==
  [][/\ ~statLine /\ statLine' => ~statIrq
     /\ mode # "VBlank" /\ mode' = "VBlank" => ~vblankIrq
     /\ mode = "Drawing" /\ mode' = "HBlank" /\ lcdOn' => ~hblankEntered]_vars

(***************************************************************************)
(* The window never shows a row it has not reached: it has advanced at     *)
(* most once for each line of this frame that was rendered, across every   *)
(* move of the window and every switch of the screen in mid-frame.         *)
(***************************************************************************)
RenderedLines ==
  IF ly >= VisibleLines THEN VisibleLines
  ELSE IF dot >= OamScanDots + DrawingDots THEN ly + 1 ELSE ly

WindowBounded == windowLine <= RenderedLines

(***************************************************************************)
(* A screen that stays on produces image after image, whatever the program *)
(* writes to the other registers.                                          *)
(***************************************************************************)
ImagesKeepComing ==
  <>[]lcdOn /\ <>[][Run]_vars => []<>(mode = "VBlank") /\ []<>(mode = "OamScan")

(***************************************************************************)
(* A program that waits for a line by its coincidence interrupt alone gets *)
(* one in every frame: the line falls between two coincidences, so that    *)
(* each is an edge, and no refresh of it is skipped.                       *)
(***************************************************************************)
CoincidenceKeepsComing ==
  \A y \in 0 .. TotalLines - 1 :
    <>[](lcdOn /\ sources = {"lyc"} /\ lyc = y) => []<>statIrq

(***************************************************************************)
(* Line, dot and mode together are one beam.                               *)
(***************************************************************************)
Beam == INSTANCE Raster WITH
  LineDots     <- DotsPerLine,
  HBlankDot    <- OamScanDots + DrawingDots,
  ImageLines   <- VisibleLines,
  AllLines     <- TotalLines,
  on           <- lcdOn,
  beam         <- ly * DotsPerLine + dot,
  vblankSignal <- vblankIrq,
  hblankSignal <- hblankEntered

ImplementsRaster == Beam!Spec
=============================================================================
