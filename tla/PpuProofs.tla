------------------------------ MODULE PpuProofs ------------------------------
(***************************************************************************)
(* Ppu: type correctness, the mode, the STAT line, the window's line       *)
(* counter, the implementation of Raster and the signals Bus::tick drains, *)
(* for every geometry of the screen and every set of tick lengths.         *)
(*                                                                         *)
(* ModeMatchesPosition is inductive once TypeOK gives the position its     *)
(* range: the mode is only written at the dots where it changes, so that   *)
(* what has to be shown is that no other dot is one of those. Switching    *)
(* the screen off needs IdleSweepsNothing on top: no dots of the tick just *)
(* finished may be left to sweep a parked screen.                          *)
(*                                                                         *)
(* Raster sees line and dot as one beam. Its wrap at the end of a line and *)
(* of a frame is arithmetic (NextPosition); its signals are those of the   *)
(* dots where the mode changes (HBlankStartsAt).                           *)
(***************************************************************************)
EXTENDS Ppu, TLAPS

Signals ==
  /\ statLine \in BOOLEAN /\ statIrq \in BOOLEAN
  /\ vblankIrq \in BOOLEAN /\ hblankEntered \in BOOLEAN /\ frameReady \in BOOLEAN
  /\ lcdOn \in BOOLEAN /\ ticking \in BOOLEAN /\ access \in BOOLEAN

Position ==
  /\ ly \in 0 .. TotalLines - 1
  /\ dot \in 0 .. DotsPerLine - 1
  /\ mode \in Modes
  /\ windowLine \in Nat
  /\ left \in Nat

Settings ==
  /\ sources \subseteq Sources
  /\ lyc \in 0 .. TotalLines
  /\ window \in 0 .. VisibleLines

LEMMA TypeParts == TypeOK <=> Signals /\ Position /\ Settings
BY DEF TypeOK, Signals, Position, Settings

-----------------------------------------------------------------------------
(* Type correctness. *)

LEMMA InitType == Init => TypeOK
<1> SUFFICES ASSUME Init PROVE TypeOK
  OBVIOUS
<1>1. Signals
  BY DEF Init, Signals
<1>2. Position
  BY PpuAssumption DEF Init, Position, Modes
<1>3. Settings
  BY PpuAssumption DEF Init, Settings
<1> QED
  BY <1>1, <1>2, <1>3, TypeParts

\* The line and its interrupt are levels, whatever the registers hold.
LEMMA StatLineIsLevel ==
  ASSUME UpdateStatLine
  PROVE  statLine' \in BOOLEAN /\ statIrq' \in BOOLEAN
BY DEF UpdateStatLine, StatLevel

LEMMA StepSignals == Signals /\ [Next]_vars => Signals'
<1> SUFFICES ASSUME Signals, [Next]_vars PROVE Signals'
  OBVIOUS
<1> USE DEF Signals, sweepVars, lineVars, configVars, tickVars
<1>1. ASSUME NEW n \in TickLengths, BeginTick(n) PROVE Signals'
  BY <1>1 DEF BeginTick
<1>2. CASE PlainDot
  BY <1>2 DEF PlainDot
<1>3. CASE StartDrawing
  BY <1>3, StatLineIsLevel DEF StartDrawing
<1>4. CASE StartHBlank
  BY <1>4, StatLineIsLevel DEF StartHBlank
<1>5. CASE EndLine
  BY <1>5, StatLineIsLevel DEF EndLine
<1>6. CASE Collect
  BY <1>6 DEF Collect
<1>7. CASE SwitchOff
  BY <1>7 DEF SwitchOff, Access
<1>8. CASE SwitchOn
  BY <1>8, StatLineIsLevel DEF SwitchOn, Access
<1>9. ASSUME NEW srcs \in SUBSET Sources, WriteStat(srcs) PROVE Signals'
  BY <1>9, StatLineIsLevel DEF WriteStat, Access
<1>10. ASSUME NEW y \in 0 .. TotalLines, WriteLyc(y) PROVE Signals'
  BY <1>10, StatLineIsLevel DEF WriteLyc, Access
<1>11. ASSUME NEW y \in 0 .. VisibleLines, MoveWindow(y) PROVE Signals'
  BY <1>11 DEF MoveWindow, Access
<1>12. CASE TakeFrameReady
  BY <1>12 DEF TakeFrameReady
<1>13. CASE Reset
  BY <1>13 DEF Reset
<1>14. CASE UNCHANGED vars
  BY <1>14 DEF vars
<1> QED
  BY <1>1, <1>2, <1>3, <1>4, <1>5, <1>6, <1>7, <1>8, <1>9, <1>10, <1>11, <1>12,
     <1>13, <1>14 DEF Next, Run, StepDot

LEMMA StepPosition == Position /\ [Next]_vars => Position'
<1> SUFFICES ASSUME Position, [Next]_vars PROVE Position'
  OBVIOUS
<1> USE PpuAssumption DEF Position, Modes, StepsTo, sweepVars, tickVars
<1>1. ASSUME NEW n \in TickLengths, BeginTick(n) PROVE Position'
  BY <1>1 DEF BeginTick
<1>2. CASE PlainDot
  BY <1>2 DEF PlainDot
<1>3. CASE StartDrawing
  BY <1>3 DEF StartDrawing
<1>4. CASE StartHBlank
  BY <1>4 DEF StartHBlank
<1>5. CASE EndLine
  <2>1. ly' \in 0 .. TotalLines - 1 /\ dot' \in 0 .. DotsPerLine - 1
    BY <1>5 DEF EndLine
  <2>2. mode' \in Modes
    BY <1>5, <2>1 DEF EndLine
  <2> QED
    BY <1>5, <2>1, <2>2 DEF EndLine
<1>6. CASE Collect
  BY <1>6 DEF Collect
<1>7. CASE SwitchOff
  BY <1>7 DEF SwitchOff, Access
<1>8. CASE SwitchOn
  BY <1>8 DEF SwitchOn, Access
<1>9. ASSUME NEW srcs \in SUBSET Sources, WriteStat(srcs) PROVE Position'
  BY <1>9 DEF WriteStat, Access
<1>10. ASSUME NEW y \in 0 .. TotalLines, WriteLyc(y) PROVE Position'
  BY <1>10 DEF WriteLyc, Access
<1>11. ASSUME NEW y \in 0 .. VisibleLines, MoveWindow(y) PROVE Position'
  BY <1>11 DEF MoveWindow, Access
<1>12. CASE TakeFrameReady
  BY <1>12 DEF TakeFrameReady
<1>13. CASE Reset
  BY <1>13 DEF Reset
<1>14. CASE UNCHANGED vars
  BY <1>14 DEF vars
<1> QED
  BY <1>1, <1>2, <1>3, <1>4, <1>5, <1>6, <1>7, <1>8, <1>9, <1>10, <1>11, <1>12,
     <1>13, <1>14 DEF Next, Run, StepDot

\* Only three writes and a reset reach the settings.
LEMMA StepSettings == Settings /\ [Next]_vars => Settings'
<1> SUFFICES ASSUME Settings, [Next]_vars PROVE Settings'
  OBVIOUS
<1> USE PpuAssumption DEF Settings, configVars
<1>1. ASSUME NEW srcs \in SUBSET Sources, WriteStat(srcs) PROVE Settings'
  BY <1>1 DEF WriteStat
<1>2. ASSUME NEW y \in 0 .. TotalLines, WriteLyc(y) PROVE Settings'
  BY <1>2 DEF WriteLyc
<1>3. ASSUME NEW y \in 0 .. VisibleLines, MoveWindow(y) PROVE Settings'
  BY <1>3 DEF MoveWindow
<1>4. CASE Reset
  BY <1>4 DEF Reset
<1>5. CASE StepDot \/ Collect \/ TakeFrameReady
  BY <1>5 DEF StepDot, PlainDot, StartDrawing, StartHBlank, EndLine, Collect, TakeFrameReady
<1>6. CASE SwitchOff \/ SwitchOn
  BY <1>6 DEF SwitchOff, SwitchOn
<1>7. ASSUME NEW n \in TickLengths, BeginTick(n) PROVE Settings'
  BY <1>7 DEF BeginTick
<1>8. CASE UNCHANGED vars
  BY <1>8 DEF vars
<1> QED
  BY <1>1, <1>2, <1>3, <1>4, <1>5, <1>6, <1>7, <1>8 DEF Next, Run

LEMMA StepType == TypeOK /\ [Next]_vars => TypeOK'
<1>1. Signals' /\ Position' /\ Settings' => TypeOK'
  BY DEF TypeOK, Signals, Position, Settings
<1> QED
  BY <1>1, TypeParts, StepSignals, StepPosition, StepSettings

(***************************************************************************)
(* The position of the sweep never leaves the screen and every register    *)
(* keeps its range.                                                        *)
(***************************************************************************)
THEOREM PpuTypeCorrect == Spec => []TypeOK
  BY InitType, StepType, PTL DEF Spec

-----------------------------------------------------------------------------
(* The STAT line. *)

LEMMA InitStat == Init => StatLineFresh
BY DEF Init, StatLineFresh, StatLevel

\* Rerunning the line makes it fresh, wherever the registers went.
LEMMA UpdateMakesFresh == UpdateStatLine => StatLineFresh'
BY DEF UpdateStatLine, StatLineFresh

\* A step that leaves the line and what it depends on alone keeps it fresh.
LEMMA UntouchedStaysFresh ==
  StatLineFresh /\ UNCHANGED <<statLine, lcdOn, sources, lyc, ly, mode>> => StatLineFresh'
BY DEF StatLineFresh

LEMMA StepStat == StatLineFresh /\ [Next]_vars => StatLineFresh'
<1> SUFFICES ASSUME StatLineFresh, [Next]_vars PROVE StatLineFresh'
  OBVIOUS
<1> USE DEF sweepVars, lineVars, configVars, tickVars
<1>1. ASSUME NEW n \in TickLengths, BeginTick(n) PROVE StatLineFresh'
  BY <1>1, UntouchedStaysFresh DEF BeginTick
<1>2. CASE PlainDot
  BY <1>2, UntouchedStaysFresh DEF PlainDot
<1>3. CASE StartDrawing \/ StartHBlank \/ EndLine
  BY <1>3, UpdateMakesFresh DEF StartDrawing, StartHBlank, EndLine
<1>4. CASE Collect
  BY <1>4, UntouchedStaysFresh DEF Collect
<1>5. CASE SwitchOff
  BY <1>5 DEF SwitchOff, StatLineFresh, StatLevel
<1>6. CASE SwitchOn
  BY <1>6, UpdateMakesFresh DEF SwitchOn
<1>7. ASSUME NEW srcs \in SUBSET Sources, WriteStat(srcs) PROVE StatLineFresh'
  BY <1>7, UpdateMakesFresh DEF WriteStat
<1>8. ASSUME NEW y \in 0 .. TotalLines, WriteLyc(y) PROVE StatLineFresh'
  BY <1>8, UpdateMakesFresh DEF WriteLyc
<1>9. ASSUME NEW y \in 0 .. VisibleLines, MoveWindow(y) PROVE StatLineFresh'
  BY <1>9, UntouchedStaysFresh DEF MoveWindow
<1>10. CASE TakeFrameReady
  BY <1>10, UntouchedStaysFresh DEF TakeFrameReady
<1>11. CASE Reset
  BY <1>11 DEF Reset, StatLineFresh, StatLevel
<1>12. CASE UNCHANGED vars
  BY <1>12, UntouchedStaysFresh DEF vars
<1> QED
  BY <1>1, <1>2, <1>3, <1>4, <1>5, <1>6, <1>7, <1>8, <1>9, <1>10, <1>11, <1>12
     DEF Next, Run, StepDot

(***************************************************************************)
(* No path of Ppu::write or step_dot leaves the STAT line stale.           *)
(***************************************************************************)
THEOREM PpuStatLineFresh == Spec => []StatLineFresh
  BY InitStat, StepStat, PTL DEF Spec

-----------------------------------------------------------------------------
(* The mode. *)

\* Between two ticks no dots are left over.
IdleSweepsNothing == ~ticking => left = 0

ModeInv == TypeOK /\ IdleSweepsNothing /\ ModeMatchesPosition

LEMMA InitMode == Init => IdleSweepsNothing /\ ModeMatchesPosition
BY PpuAssumption DEF Init, IdleSweepsNothing, ModeMatchesPosition, ModeAt

LEMMA StepIdle == Position /\ IdleSweepsNothing /\ [Next]_vars => IdleSweepsNothing'
<1> SUFFICES ASSUME Position, IdleSweepsNothing, [Next]_vars PROVE IdleSweepsNothing'
  OBVIOUS
<1> USE DEF Position, IdleSweepsNothing, tickVars
<1>1. ASSUME NEW n \in TickLengths, BeginTick(n) PROVE IdleSweepsNothing'
  BY <1>1 DEF BeginTick
<1>2. CASE StepDot
  <2>1. left > 0 /\ ticking' = ticking
    BY <1>2 DEF StepDot, PlainDot, StartDrawing, StartHBlank, EndLine, StepsTo
  <2> QED
    BY <2>1
<1>3. CASE Collect \/ TakeFrameReady \/ Reset
  BY <1>3 DEF Collect, TakeFrameReady, Reset
<1>4. ASSUME Access PROVE IdleSweepsNothing'
  BY <1>4 DEF Access
<1>5. CASE SwitchOff \/ SwitchOn
  BY <1>4, <1>5 DEF SwitchOff, SwitchOn
<1>6. ASSUME NEW srcs \in SUBSET Sources, WriteStat(srcs) PROVE IdleSweepsNothing'
  BY <1>4, <1>6 DEF WriteStat
<1>7. ASSUME NEW y \in 0 .. TotalLines, WriteLyc(y) PROVE IdleSweepsNothing'
  BY <1>4, <1>7 DEF WriteLyc
<1>8. ASSUME NEW y \in 0 .. VisibleLines, MoveWindow(y) PROVE IdleSweepsNothing'
  BY <1>4, <1>8 DEF MoveWindow
<1>9. CASE UNCHANGED vars
  BY <1>9 DEF vars
<1> QED
  BY <1>1, <1>2, <1>3, <1>5, <1>6, <1>7, <1>8, <1>9 DEF Next, Run

\* Only a screen that is on has dots left to sweep.
LEMMA SweepsOnlyWhenOn ==
  ASSUME ModeMatchesPosition, left > 0
  PROVE  lcdOn
BY DEF ModeMatchesPosition

\* A step that leaves the sweep and the switch alone, and plans no dots.
LEMMA ParkedStays ==
  ASSUME ModeMatchesPosition, UNCHANGED <<lcdOn, ly, dot, mode, left>>
  PROVE  ModeMatchesPosition'
BY DEF ModeMatchesPosition, ModeAt

LEMMA StepMode == ModeInv /\ [Next]_vars => ModeMatchesPosition'
<1> SUFFICES ASSUME Position, IdleSweepsNothing, ModeMatchesPosition, [Next]_vars
             PROVE  ModeMatchesPosition'
  BY TypeParts DEF ModeInv
<1> USE DEF sweepVars, lineVars, configVars, tickVars
<1>1. ASSUME NEW n \in TickLengths, BeginTick(n) PROVE ModeMatchesPosition'
  BY <1>1 DEF BeginTick, ModeMatchesPosition, ModeAt
<1>2. ASSUME StepDot PROVE ModeMatchesPosition'
  <2>1. lcdOn /\ lcdOn'
    BY <1>2, SweepsOnlyWhenOn
       DEF StepDot, PlainDot, StartDrawing, StartHBlank, EndLine, StepsTo
  <2>2. SUFFICES mode' = ModeAt(ly', dot')
    BY <2>1 DEF ModeMatchesPosition
  <2>3. mode = ModeAt(ly, dot)
    BY <2>1 DEF ModeMatchesPosition
  <2> USE PpuAssumption DEF Position, StepsTo, ModeAt
  <2>4. CASE PlainDot
    BY <2>3, <2>4 DEF PlainDot
  <2>5. CASE StartDrawing
    BY <2>5 DEF StartDrawing
  <2>6. CASE StartHBlank
    BY <2>6 DEF StartHBlank
  <2>7. CASE EndLine
    <3>1. dot' = 0 /\ ly' \in 0 .. TotalLines - 1
      BY <2>7 DEF EndLine
    <3>2. CASE ly' < VisibleLines
      BY <2>7, <3>1, <3>2 DEF EndLine
    <3>3. CASE ly' = VisibleLines
      BY <2>7, <3>1, <3>3 DEF EndLine
    <3>4. CASE ly' > VisibleLines
      <4>1. mode' = mode /\ ly' = ly + 1
        BY <2>7, <3>1, <3>4 DEF EndLine
      <4> QED
        BY <2>3, <3>1, <3>4, <4>1
    <3> QED
      BY <3>1, <3>2, <3>3, <3>4
  <2> QED
    BY <1>2, <2>4, <2>5, <2>6, <2>7 DEF StepDot
<1>3. CASE Collect \/ TakeFrameReady
  BY <1>3, ParkedStays DEF Collect, TakeFrameReady
<1>4. CASE SwitchOff
  <2>1. left = 0
    BY <1>4 DEF SwitchOff, Access, IdleSweepsNothing
  <2> QED
    BY <1>4, <2>1 DEF SwitchOff, Access, ModeMatchesPosition
<1>5. CASE SwitchOn \/ Reset
  BY <1>5, PpuAssumption DEF SwitchOn, Reset, ModeMatchesPosition, ModeAt
<1>6. ASSUME NEW srcs \in SUBSET Sources, WriteStat(srcs) PROVE ModeMatchesPosition'
  BY <1>6, ParkedStays DEF WriteStat, Access
<1>7. ASSUME NEW y \in 0 .. TotalLines, WriteLyc(y) PROVE ModeMatchesPosition'
  BY <1>7, ParkedStays DEF WriteLyc, Access
<1>8. ASSUME NEW y \in 0 .. VisibleLines, MoveWindow(y) PROVE ModeMatchesPosition'
  BY <1>8, ParkedStays DEF MoveWindow, Access
<1>9. CASE UNCHANGED vars
  BY <1>9, ParkedStays DEF vars
<1> QED
  BY <1>1, <1>2, <1>3, <1>4, <1>5, <1>6, <1>7, <1>8, <1>9 DEF Next, Run

(***************************************************************************)
(* The mode is the one the position calls for, and a screen that is off is *)
(* parked, for every geometry of the screen.                               *)
(***************************************************************************)
THEOREM PpuModeMatchesPosition == Spec => []ModeMatchesPosition
<1>1. Init => ModeInv
  BY InitType, InitMode DEF ModeInv
<1>2. ModeInv /\ [Next]_vars => ModeInv'
  BY StepType, StepIdle, StepMode, TypeParts DEF ModeInv
<1>3. ModeInv => ModeMatchesPosition
  BY DEF ModeInv
<1> QED
  BY <1>1, <1>2, <1>3, PTL DEF Spec

-----------------------------------------------------------------------------
(* The window. *)

\* A step that leaves the position and the counter alone.
LEMMA CounterStays ==
  ASSUME WindowBounded, UNCHANGED <<ly, dot, windowLine>>
  PROVE  WindowBounded'
BY DEF WindowBounded, RenderedLines

\* At the top of the image the counter starts again.
LEMMA CounterRestarts ==
  ASSUME ly' = 0, dot' = 0, windowLine' = 0
  PROVE  WindowBounded'
BY PpuAssumption DEF WindowBounded, RenderedLines

LEMMA StepWindow == Position /\ WindowBounded /\ [Next]_vars => WindowBounded'
<1> SUFFICES ASSUME Position, WindowBounded, [Next]_vars PROVE WindowBounded'
  OBVIOUS
<1> USE DEF sweepVars, lineVars, configVars, tickVars
<1>1. ASSUME NEW n \in TickLengths, BeginTick(n) PROVE WindowBounded'
  BY <1>1, CounterStays DEF BeginTick
<1>2. CASE PlainDot
  <2>1. dot' = dot + 1 /\ ly' = ly /\ windowLine' = windowLine
    BY <1>2 DEF PlainDot
  <2> QED BY <2>1, PpuAssumption DEF Position, WindowBounded, RenderedLines
<1>3. CASE StartDrawing
  <2>1. dot' = dot + 1 /\ ly' = ly /\ windowLine' = windowLine
    BY <1>3 DEF StartDrawing, StepsTo
  <2> QED BY <2>1, PpuAssumption DEF Position, WindowBounded, RenderedLines
<1>4. CASE StartHBlank
  <2>1. ly < VisibleLines /\ ly' = ly /\ dot + 1 = OamScanDots + DrawingDots
        /\ dot' = OamScanDots + DrawingDots
    BY <1>4 DEF StartHBlank, StepsTo
  <2>2. windowLine' \in {windowLine, windowLine + 1}
    BY <1>4 DEF StartHBlank
  <2>3. windowLine <= ly
    BY <2>1, PpuAssumption DEF Position, WindowBounded, RenderedLines
  <2> QED BY <2>1, <2>2, <2>3, PpuAssumption DEF Position, WindowBounded, RenderedLines
<1>5. CASE EndLine
  <2>1. dot + 1 = DotsPerLine /\ dot' = 0
    BY <1>5 DEF EndLine, StepsTo
  <2>2. CASE ly + 1 >= TotalLines
    <3>1. ly' = 0 /\ windowLine' = 0
      BY <1>5, <2>2 DEF EndLine
    <3> QED BY <2>1, <3>1, CounterRestarts
  <2>3. CASE ly + 1 < TotalLines
    <3>1. ly' = ly + 1 /\ windowLine' = windowLine
      BY <1>5, <2>3, PpuAssumption DEF EndLine, Position
    <3>2. windowLine <= ly + 1 /\ windowLine <= VisibleLines
      BY <2>1, PpuAssumption DEF Position, WindowBounded, RenderedLines
    <3> QED BY <2>1, <3>1, <3>2, PpuAssumption DEF Position, WindowBounded, RenderedLines
  <2> QED BY <2>2, <2>3, PpuAssumption DEF Position
<1>6. CASE Collect \/ TakeFrameReady
  BY <1>6, CounterStays DEF Collect, TakeFrameReady
<1>7. CASE SwitchOff \/ SwitchOn \/ Reset
  BY <1>7, CounterRestarts DEF SwitchOff, SwitchOn, Reset
<1>8. ASSUME NEW srcs \in SUBSET Sources, WriteStat(srcs) PROVE WindowBounded'
  BY <1>8, CounterStays DEF WriteStat
<1>9. ASSUME NEW y \in 0 .. TotalLines, WriteLyc(y) PROVE WindowBounded'
  BY <1>9, CounterStays DEF WriteLyc
<1>10. ASSUME NEW y \in 0 .. VisibleLines, MoveWindow(y) PROVE WindowBounded'
  BY <1>10, CounterStays DEF MoveWindow
<1>11. CASE UNCHANGED vars
  BY <1>11, CounterStays DEF vars
<1> QED
  BY <1>1, <1>2, <1>3, <1>4, <1>5, <1>6, <1>7, <1>8, <1>9, <1>10, <1>11
     DEF Next, Run, StepDot

(***************************************************************************)
(* The window never shows a row it has not reached, for every geometry and *)
(* however the program moves it (Ppu::render_background, window_line_).    *)
(***************************************************************************)
THEOREM PpuWindowBounded == Spec => []WindowBounded
<1>1. Init => WindowBounded
  BY PpuAssumption DEF Init, WindowBounded, RenderedLines
<1>2. TypeOK => Position
  BY TypeParts
<1> QED
  BY <1>1, <1>2, StepWindow, PpuTypeCorrect, PTL DEF Spec

-----------------------------------------------------------------------------
(* The beam: line and dot are one position on the screen. *)

\* A position on the screen is a line and a dot in one way only.
LEMMA PositionsApart ==
  ASSUME NEW y1 \in Nat, NEW d1 \in 0 .. DotsPerLine - 1,
         NEW y2 \in Nat, NEW d2 \in 0 .. DotsPerLine - 1,
         y1 * DotsPerLine + d1 = y2 * DotsPerLine + d2
  PROVE  y1 = y2 /\ d1 = d2
<1> DEFINE D == DotsPerLine
<1>1. D \in Nat /\ D > 0
  BY PpuAssumption
<1>2. ASSUME NEW a \in Nat, NEW b \in Nat, a < b PROVE a * D + D <= b * D
  <2>1. (a + 1) * D <= b * D
    BY <1>1, <1>2, a + 1 <= b, SMTT(60)
  <2> QED BY <1>1, <2>1
<1>3. y1 * D \in Nat /\ y2 * D \in Nat
  BY <1>1
<1>4. ~(y1 < y2)
  <2> SUFFICES ASSUME y1 < y2 PROVE FALSE
    OBVIOUS
  <2>1. y1 * D + D <= y2 * D
    BY <1>2
  <2> QED BY <1>1, <1>3, <2>1
<1>5. ~(y2 < y1)
  <2> SUFFICES ASSUME y2 < y1 PROVE FALSE
    OBVIOUS
  <2>1. y2 * D + D <= y1 * D
    BY <1>2
  <2> QED BY <1>1, <1>3, <2>1
<1>6. y1 = y2
  BY <1>4, <1>5
<1> QED BY <1>1, <1>3, <1>6

\* The positions where HBlank begins are the ones of step_dot.
LEMMA HBlankStartsAt ==
  ASSUME NEW y \in 0 .. TotalLines - 1, NEW d \in 0 .. DotsPerLine - 1
  PROVE  y * DotsPerLine + d \in Beam!HBlankStarts
           <=> y < VisibleLines /\ d = OamScanDots + DrawingDots
<1>1. OamScanDots + DrawingDots \in 0 .. DotsPerLine - 1 /\ VisibleLines \in Nat /\ TotalLines \in Nat
  BY PpuAssumption
<1>2. Beam!HBlankStarts = {l * DotsPerLine + (OamScanDots + DrawingDots) : l \in 0 .. VisibleLines - 1}
  BY DEF Beam!HBlankStarts
<1>3. ASSUME y < VisibleLines, d = OamScanDots + DrawingDots
      PROVE  y * DotsPerLine + d \in Beam!HBlankStarts
  <2>1. y \in 0 .. VisibleLines - 1
    BY <1>1, <1>3
  <2> QED BY <1>2, <1>3, <2>1
<1>4. ASSUME y * DotsPerLine + d \in Beam!HBlankStarts
      PROVE  y < VisibleLines /\ d = OamScanDots + DrawingDots
  <2>1. PICK l \in 0 .. VisibleLines - 1 :
          y * DotsPerLine + d = l * DotsPerLine + (OamScanDots + DrawingDots)
    BY <1>2, <1>4
  <2>2. y = l /\ d = OamScanDots + DrawingDots
    BY <1>1, <2>1, PositionsApart
  <2> QED BY <1>1, <2>2
<1> QED BY <1>3, <1>4

\* A position that is not past the last one is itself; the one after is the top.
LEMMA WrapsOnce ==
  ASSUME NEW n \in Nat, n > 0
  PROVE  /\ \A x \in 0 .. n - 1 : x % n = x
         /\ n % n = 0
<1>1. \A x \in 0 .. n - 1 : x % n = x
  BY SMTT(60)
<1>2. n % n = 0
  BY SMTT(60)
<1> QED BY <1>1, <1>2

\* The dot after dot d of line y: on the same line, or the first of the next.
LEMMA NextPosition ==
  ASSUME NEW y \in 0 .. TotalLines - 1, NEW d \in 0 .. DotsPerLine - 1
  PROVE  /\ d + 1 < DotsPerLine =>
              (y * DotsPerLine + d + 1) % (TotalLines * DotsPerLine) = y * DotsPerLine + (d + 1)
         /\ d + 1 = DotsPerLine /\ y + 1 < TotalLines =>
              (y * DotsPerLine + d + 1) % (TotalLines * DotsPerLine) = (y + 1) * DotsPerLine + 0
         /\ d + 1 = DotsPerLine /\ y + 1 = TotalLines =>
              (y * DotsPerLine + d + 1) % (TotalLines * DotsPerLine) = 0 * DotsPerLine + 0
<1> DEFINE D == DotsPerLine
           T == TotalLines
           N == T * D
           p == y * D
<1>1. D \in Nat /\ D > 0 /\ T \in Nat /\ T > 0
  BY PpuAssumption
<1>2. p \in Nat /\ N \in Nat /\ N > 0 /\ (y + 1) * D = p + D /\ 0 * D = 0
  BY <1>1
<1>3. p + D <= N
  <2>1. (y + 1) * D <= T * D
    BY <1>1, y + 1 <= T, SMTT(60)
  <2> QED BY <1>2, <2>1
<1>4. ASSUME y + 1 < T PROVE p + D < N
  <2>1. (y + 1 + 1) * D <= T * D
    BY <1>1, <1>4, y + 1 + 1 <= T, SMTT(60)
  <2>2. (y + 1 + 1) * D = p + D + D
    BY <1>1
  <2> QED BY <1>1, <1>2, <2>1, <2>2
<1>5. y + 1 = T => p + D = N
  BY <1>1, <1>2
<1>6. (\A x \in 0 .. N - 1 : x % N = x) /\ N % N = 0
  BY <1>2, WrapsOnce
<1> HIDE DEF N, p, D, T
<1>7. d \in 0 .. D - 1
  BY DEF D
<1>8. d + 1 < D => (p + d + 1) % N = p + (d + 1)
  <2> SUFFICES ASSUME d + 1 < D PROVE (p + d + 1) % N = p + (d + 1)
    OBVIOUS
  <2>1. p + d + 1 \in 0 .. N - 1 /\ p + d + 1 = p + (d + 1)
    BY <1>1, <1>2, <1>3, <1>7
  <2> QED BY <1>6, <2>1
<1>9. d + 1 = D /\ y + 1 < T => (p + d + 1) % N = p + D
  <2> SUFFICES ASSUME d + 1 = D, y + 1 < T PROVE (p + d + 1) % N = p + D
    OBVIOUS
  <2>1. p + d + 1 = p + D /\ p + D \in 0 .. N - 1
    BY <1>1, <1>2, <1>4, <1>7
  <2> QED BY <1>6, <2>1
<1>10. d + 1 = D /\ y + 1 = T => (p + d + 1) % N = 0
  <2> SUFFICES ASSUME d + 1 = D, y + 1 = T PROVE (p + d + 1) % N = 0
    OBVIOUS
  <2>1. p + d + 1 = N
    BY <1>1, <1>2, <1>5, <1>7
  <2> QED BY <1>6, <2>1
<1> QED BY <1>1, <1>2, <1>8, <1>9, <1>10 DEF D, T, N, p

\* A dot of the sweep is one advance of the beam, with the signals that are due.
LEMMA DotAdvances ==
  ASSUME ModeInv, StepDot
  PROVE  Beam!Advance
<1>1. /\ ly \in 0 .. TotalLines - 1 /\ dot \in 0 .. DotsPerLine - 1
      /\ ly' \in 0 .. TotalLines - 1 /\ dot' \in 0 .. DotsPerLine - 1
  <2>1. Position /\ Next
    BY TypeParts DEF ModeInv, Next, Run
  <2>2. Position'
    BY <2>1, StepPosition
  <2> QED BY <2>1, <2>2 DEF Position
<1>2. lcdOn
  BY SweepsOnlyWhenOn DEF ModeInv, StepDot, PlainDot, StartDrawing, StartHBlank, EndLine, StepsTo
<1>3. lcdOn' = lcdOn
  BY DEF StepDot, PlainDot, StartDrawing, StartHBlank, EndLine, configVars
<1>4. ly' * DotsPerLine + dot' = (ly * DotsPerLine + dot + 1) % (TotalLines * DotsPerLine)
  <2>1. CASE PlainDot \/ StartDrawing \/ StartHBlank
    <3>1. ly' = ly /\ dot' = dot + 1 /\ dot + 1 < DotsPerLine
      BY <1>1, <2>1, PpuAssumption DEF PlainDot, StartDrawing, StartHBlank, StepsTo
    <3> QED BY <1>1, <3>1, NextPosition
  <2>2. CASE EndLine
    <3>1. dot' = 0 /\ dot + 1 = DotsPerLine
      BY <2>2 DEF EndLine, StepsTo
    <3>2. CASE ly + 1 < TotalLines
      <4>1. ly' = ly + 1
        BY <1>1, <2>2, <3>2, PpuAssumption DEF EndLine
      <4> QED BY <1>1, <3>1, <3>2, <4>1, NextPosition
    <3>3. CASE ly + 1 = TotalLines
      <4>1. ly' = 0
        BY <2>2, <3>3, PpuAssumption DEF EndLine
      <4> QED BY <1>1, <3>1, <3>3, <4>1, NextPosition
    <3> QED BY <1>1, <3>2, <3>3, PpuAssumption
  <2> QED BY <2>1, <2>2 DEF StepDot
<1>5. ly' * DotsPerLine + dot' = VisibleLines * DotsPerLine <=> ly' = VisibleLines /\ dot' = 0
  <2>1. VisibleLines \in Nat /\ 0 \in 0 .. DotsPerLine - 1 /\ ly' \in Nat
    BY <1>1, PpuAssumption
  <2>2. VisibleLines * DotsPerLine = VisibleLines * DotsPerLine + 0
    BY PpuAssumption
  <2> QED BY <1>1, <2>1, <2>2, PositionsApart
<1>6. ly' * DotsPerLine + dot' \in Beam!HBlankStarts
        <=> ly' < VisibleLines /\ dot' = OamScanDots + DrawingDots
  BY <1>1, HBlankStartsAt
<1>7. vblankIrq' <=> (vblankIrq \/ (ly' = VisibleLines /\ dot' = 0))
  <2>1. CASE PlainDot \/ StartDrawing \/ StartHBlank
    <3>1. dot' = dot + 1
      BY <2>1 DEF PlainDot, StartDrawing, StartHBlank, StepsTo
    <3>2. dot' # 0
      BY <1>1, <3>1
    <3>3. vblankIrq' = vblankIrq
      BY <2>1, Zenon DEF PlainDot, StartDrawing, StartHBlank
    <3> QED BY <3>2, <3>3, Zenon
  <2>2. CASE EndLine
    BY <2>2, Zenon DEF EndLine
  <2> QED BY <2>1, <2>2 DEF StepDot
<1>8. hblankEntered' <=> (hblankEntered \/ (ly' < VisibleLines /\ dot' = OamScanDots + DrawingDots))
  <2>1. CASE PlainDot
    <3>1. ~(ly' < VisibleLines /\ dot' = OamScanDots + DrawingDots)
      BY <2>1 DEF PlainDot
    <3>2. hblankEntered' = hblankEntered
      BY <2>1, Zenon DEF PlainDot
    <3> QED BY <3>1, <3>2, Zenon
  <2>2. CASE StartDrawing
    <3>1. dot' # OamScanDots + DrawingDots
      BY <2>2, PpuAssumption DEF StartDrawing
    <3>2. hblankEntered' = hblankEntered
      BY <2>2, Zenon DEF StartDrawing
    <3> QED BY <3>1, <3>2, Zenon
  <2>3. CASE StartHBlank
    BY <2>3, Zenon DEF StartHBlank
  <2>4. CASE EndLine
    <3>1. dot' # OamScanDots + DrawingDots
      BY <2>4, PpuAssumption DEF EndLine
    <3>2. hblankEntered' = hblankEntered
      BY <2>4, Zenon DEF EndLine
    <3> QED BY <3>1, <3>2, Zenon
  <2> QED BY <2>1, <2>2, <2>3, <2>4 DEF StepDot
<1>9. vblankIrq' = (vblankIrq \/ ly' * DotsPerLine + dot' = VisibleLines * DotsPerLine)
  <2>1. vblankIrq' \in BOOLEAN
    BY StepSignals, TypeParts DEF ModeInv, Next, Run, Signals
  <2> QED BY <1>5, <1>7, <2>1, Zenon
<1>10. hblankEntered' = (hblankEntered \/ ly' * DotsPerLine + dot' \in Beam!HBlankStarts)
  <2>1. hblankEntered' \in BOOLEAN
    BY StepSignals, TypeParts DEF ModeInv, Next, Run, Signals
  <2> QED BY <1>6, <1>8, <2>1, Zenon
<1> QED BY <1>2, <1>3, <1>4, <1>9, <1>10, Zenon DEF Beam!Advance

\* Every step of the PPU is one of the beam's, or leaves it where it is.
LEMMA RasterStep == ModeInv /\ [Next]_vars => [Beam!Next]_(Beam!rasterVars)
<1> SUFFICES ASSUME ModeInv, [Next]_vars PROVE Beam!Next \/ UNCHANGED Beam!rasterVars
  OBVIOUS
<1> USE DEF sweepVars, lineVars, configVars, tickVars
<1>0. 0 * DotsPerLine + 0 = 0
  BY PpuAssumption
<1>1. ASSUME UNCHANGED <<lcdOn, ly, dot, vblankIrq, hblankEntered>>
      PROVE  UNCHANGED Beam!rasterVars
  BY <1>1, Zenon DEF Beam!rasterVars
<1>2. ASSUME NEW n \in TickLengths, BeginTick(n) PROVE UNCHANGED Beam!rasterVars
  BY <1>1, <1>2, Zenon DEF BeginTick
<1>3. CASE StepDot
  BY <1>3, DotAdvances DEF Beam!Next
<1>4. CASE Collect
  <2>1. Beam!Collect
    BY <1>4, Zenon DEF Collect, Beam!Collect
  <2> QED BY <2>1 DEF Beam!Next
<1>5. CASE SwitchOff \/ SwitchOn
  <2>1. lcdOn' = ~lcdOn /\ UNCHANGED <<vblankIrq, hblankEntered>>
    BY <1>5, Zenon DEF SwitchOff, SwitchOn, Access
  <2>2. ly' = 0 /\ dot' = 0
    BY <1>5, Zenon DEF SwitchOff, SwitchOn
  <2>3. ly' * DotsPerLine + dot' = 0
    BY <1>0, <2>2
  <2> QED BY <2>1, <2>3, Zenon DEF Beam!Switch, Beam!Next
<1>6. ASSUME NEW srcs \in SUBSET Sources, WriteStat(srcs) PROVE UNCHANGED Beam!rasterVars
  BY <1>1, <1>6, Zenon DEF WriteStat, Access
<1>7. ASSUME NEW y \in 0 .. TotalLines, WriteLyc(y) PROVE UNCHANGED Beam!rasterVars
  BY <1>1, <1>7, Zenon DEF WriteLyc, Access
<1>8. ASSUME NEW y \in 0 .. VisibleLines, MoveWindow(y) PROVE UNCHANGED Beam!rasterVars
  BY <1>1, <1>8, Zenon DEF MoveWindow, Access
<1>9. ASSUME TakeFrameReady PROVE UNCHANGED Beam!rasterVars
  BY <1>1, <1>9, Zenon DEF TakeFrameReady
<1>10. CASE Reset
  <2>1. lcdOn' = TRUE /\ vblankIrq' = FALSE /\ hblankEntered' = FALSE /\ ly' = 0 /\ dot' = 0
    BY <1>10, Zenon DEF Reset
  <2>2. ly' * DotsPerLine + dot' = 0
    BY <1>0, <2>1
  <2> QED BY <2>1, <2>2, Zenon DEF Beam!PowerOn, Beam!Next
<1>11. ASSUME UNCHANGED vars PROVE UNCHANGED Beam!rasterVars
  BY <1>1, <1>11, Zenon DEF vars
<1> QED
  BY <1>2, <1>3, <1>4, <1>5, <1>6, <1>7, <1>8, <1>9, <1>10, <1>11, Zenon DEF Next, Run

(***************************************************************************)
(* Line, dot and mode together are one beam that advances a dot per system *)
(* cycle (Raster): VBlank is signalled exactly when it leaves the last     *)
(* visible line and HBlank exactly once in each visible line, for every    *)
(* geometry of the screen and every interleaving of ticks, switches of the *)
(* screen, writes and resets.                                              *)
(***************************************************************************)
THEOREM PpuImplementsRaster == Spec => ImplementsRaster
<1>1. Init => Beam!Init
  <2> SUFFICES ASSUME Init PROVE Beam!Init
    OBVIOUS
  <2>1. ly * DotsPerLine + dot = 0
    BY PpuAssumption DEF Init
  <2> QED BY <2>1 DEF Init, Beam!Init
<1>2. Init => ModeInv
  BY InitType, InitMode DEF ModeInv
<1>3. ModeInv /\ [Next]_vars => ModeInv'
  BY StepType, StepIdle, StepMode, TypeParts DEF ModeInv
<1> QED
  BY <1>1, <1>2, <1>3, RasterStep, PTL DEF Spec, ImplementsRaster, Beam!Spec

-----------------------------------------------------------------------------
(* The signals. *)

\* No tick outlasts a mode: 4 and 32 cycles against 80, 172 and 204.
TicksAreShort ==
  \A n \in TickLengths :
    n <= OamScanDots /\ n <= DrawingDots /\ OamScanDots + DrawingDots + n <= DotsPerLine

\* The dot at which the mode, or the line, changes next.
NextChange ==
  IF ly >= VisibleLines THEN DotsPerLine
  ELSE IF dot < OamScanDots THEN OamScanDots
  ELSE IF dot < OamScanDots + DrawingDots THEN OamScanDots + DrawingDots
  ELSE DotsPerLine

NoChangeAhead == dot + left < NextChange

LeftIsShort == left > 0 => \E n \in TickLengths : left <= n

(***************************************************************************)
(* A signal of the sweep is on record only while the tick that raised it   *)
(* runs out, without reaching another change. A register write may leave   *)
(* the STAT signal to the next tick, but with the line high; and it has    *)
(* used up the only access there was.                                      *)
(***************************************************************************)
SignalsTaken ==
  /\ ticking /\ statIrq /\ ~statLine => NoChangeAhead
  /\ vblankIrq \/ hblankEntered => ticking /\ NoChangeAhead
  /\ ~ticking /\ statIrq => statLine /\ ~access

SignalInv == TypeOK /\ IdleSweepsNothing /\ LeftIsShort /\ SignalsTaken

LEMMA InitSignals == Init => LeftIsShort /\ SignalsTaken
BY DEF Init, LeftIsShort, SignalsTaken

LEMMA StepLeft == Position /\ LeftIsShort /\ [Next]_vars => LeftIsShort'
<1> SUFFICES ASSUME Position, LeftIsShort, [Next]_vars PROVE LeftIsShort'
  OBVIOUS
<1> USE DEF LeftIsShort, tickVars
<1>0. left \in Nat /\ TickLengths \subseteq Nat
  BY PpuAssumption DEF Position
<1>1. ASSUME NEW n \in TickLengths, BeginTick(n) PROVE LeftIsShort'
  <2>1. left' = n \/ left' = 0
    BY <1>1 DEF BeginTick
  <2>2. n <= n
    BY <1>0
  <2> QED
    BY <2>1, <2>2
<1>2. CASE StepDot
  <2>1. left > 0 /\ left' = left - 1
    BY <1>2 DEF StepDot, PlainDot, StartDrawing, StartHBlank, EndLine, StepsTo
  <2>2. PICK n \in TickLengths : left <= n
    BY <2>1
  <2>3. left' <= n
    BY <1>0, <2>1, <2>2
  <2> QED
    BY <2>3
<1>3. CASE Collect \/ TakeFrameReady \/ Reset
  BY <1>3 DEF Collect, TakeFrameReady, Reset
<1>4. ASSUME Access PROVE LeftIsShort'
  BY <1>4 DEF Access
<1>5. CASE SwitchOff \/ SwitchOn
  BY <1>4, <1>5 DEF SwitchOff, SwitchOn
<1>6. ASSUME NEW srcs \in SUBSET Sources, WriteStat(srcs) PROVE LeftIsShort'
  BY <1>4, <1>6 DEF WriteStat
<1>7. ASSUME NEW y \in 0 .. TotalLines, WriteLyc(y) PROVE LeftIsShort'
  BY <1>4, <1>7 DEF WriteLyc
<1>8. ASSUME NEW y \in 0 .. VisibleLines, MoveWindow(y) PROVE LeftIsShort'
  BY <1>4, <1>8 DEF MoveWindow
<1>9. CASE UNCHANGED vars
  BY <1>9 DEF vars
<1> QED
  BY <1>1, <1>2, <1>3, <1>5, <1>6, <1>7, <1>8, <1>9 DEF Next, Run

\* The dot that changes the mode or the line is the one NextChange names.
LEMMA ChangesAt ==
  ASSUME Position, StartDrawing \/ StartHBlank \/ EndLine
  PROVE  ~NoChangeAhead
<1> USE PpuAssumption DEF Position, StepsTo, NoChangeAhead, NextChange
<1>1. CASE StartDrawing
  BY <1>1 DEF StartDrawing
<1>2. CASE StartHBlank
  BY <1>2 DEF StartHBlank
<1>3. CASE EndLine
  BY <1>3 DEF EndLine
<1> QED
  BY <1>1, <1>2, <1>3

\* What is left of a tick after a change does not reach the next one.
LEMMA QuietAfterChange ==
  ASSUME TicksAreShort, Position, LeftIsShort, StartDrawing \/ StartHBlank \/ EndLine
  PROVE  NoChangeAhead'
<1>0. /\ left \in Nat /\ left > 0 /\ left' = left - 1
      /\ ly \in 0 .. TotalLines - 1
  BY DEF Position, StartDrawing, StartHBlank, EndLine, StepsTo
<1>1. PICK n \in TickLengths : left <= n
  BY <1>0 DEF LeftIsShort
<1>2. /\ left' < OamScanDots /\ left' < DrawingDots
      /\ OamScanDots + DrawingDots + left' < DotsPerLine
  BY <1>0, <1>1, PpuAssumption DEF TicksAreShort
<1>3. left' \in Nat
  BY <1>0
<1> USE <1>2, <1>3, PpuAssumption DEF NoChangeAhead, NextChange
<1>4. CASE StartDrawing
  BY <1>0, <1>4 DEF StartDrawing
<1>5. CASE StartHBlank
  BY <1>0, <1>5 DEF StartHBlank
<1>6. CASE EndLine
  BY <1>6 DEF EndLine
<1> QED
  BY <1>4, <1>5, <1>6

\* A dot at which nothing happens comes one nearer to the change.
LEMMA QuietThroughPlainDot ==
  ASSUME Position, PlainDot, NoChangeAhead
  PROVE  NoChangeAhead'
BY PpuAssumption DEF Position, PlainDot, NoChangeAhead, NextChange

\* A write may raise the STAT line: nothing was on record before it.
LEMMA AccessTaken ==
  ASSUME Signals, SignalsTaken, Access,
         UpdateStatLine \/ (statIrq' = statIrq)
  PROVE  SignalsTaken'
<1>1. ~ticking /\ ~ticking' /\ access /\ ~access'
  BY DEF Access
<1>2. ~statIrq /\ ~vblankIrq /\ ~hblankEntered
  BY <1>1 DEF SignalsTaken
<1>3. ~vblankIrq' /\ ~hblankEntered'
  BY <1>2 DEF Access
<1>4. statIrq' => statLine'
  BY <1>2, Zenon DEF UpdateStatLine
<1> QED
  BY <1>1, <1>3, <1>4 DEF SignalsTaken

LEMMA StepTaken == TicksAreShort /\ SignalInv /\ [Next]_vars => SignalsTaken'
<1> SUFFICES ASSUME TicksAreShort, Signals, Position, IdleSweepsNothing, LeftIsShort,
                    SignalsTaken, [Next]_vars
             PROVE  SignalsTaken'
  BY TypeParts DEF SignalInv
<1> USE DEF sweepVars, lineVars, configVars, tickVars
<1>1. ASSUME NEW n \in TickLengths, BeginTick(n) PROVE SignalsTaken'
  <2>1. ~ticking /\ ticking' /\ UNCHANGED <<statLine, statIrq, vblankIrq, hblankEntered>>
    BY <1>1 DEF BeginTick
  <2> QED
    BY <2>1 DEF SignalsTaken
<1>2. ASSUME PlainDot PROVE SignalsTaken'
  <2>1. UNCHANGED <<ticking, access, statLine, statIrq, vblankIrq, hblankEntered>>
    BY <1>2 DEF PlainDot
  <2> QED
    BY <1>2, <2>1, QuietThroughPlainDot DEF SignalsTaken
<1>3. ASSUME StartDrawing \/ StartHBlank \/ EndLine PROVE SignalsTaken'
  <2>1. NoChangeAhead'
    BY <1>3, QuietAfterChange
  <2>2. ticking' = ticking
    BY <1>3 DEF StartDrawing, StartHBlank, EndLine
  <2>3. left > 0 /\ left \in Nat
    BY <1>3 DEF StartDrawing, StartHBlank, EndLine, StepsTo, Position
  <2>4. ticking
    BY <2>3 DEF IdleSweepsNothing
  <2> QED
    BY <2>1, <2>2, <2>4 DEF SignalsTaken
<1>4. CASE Collect
  BY <1>4 DEF Collect, SignalsTaken
<1>5. CASE SwitchOff
  BY <1>5, AccessTaken DEF SwitchOff
<1>6. CASE SwitchOn
  BY <1>6, AccessTaken DEF SwitchOn
<1>7. ASSUME NEW srcs \in SUBSET Sources, WriteStat(srcs) PROVE SignalsTaken'
  BY <1>7, AccessTaken DEF WriteStat
<1>8. ASSUME NEW y \in 0 .. TotalLines, WriteLyc(y) PROVE SignalsTaken'
  BY <1>8, AccessTaken DEF WriteLyc
<1>9. ASSUME NEW y \in 0 .. VisibleLines, MoveWindow(y) PROVE SignalsTaken'
  BY <1>9, AccessTaken DEF MoveWindow
<1>10. CASE TakeFrameReady \/ UNCHANGED vars
  BY <1>10 DEF TakeFrameReady, vars, SignalsTaken, NoChangeAhead, NextChange
<1>11. CASE Reset
  BY <1>11 DEF Reset, SignalsTaken
<1> QED
  BY <1>1, <1>2, <1>3, <1>4, <1>5, <1>6, <1>7, <1>8, <1>9, <1>10, <1>11
     DEF Next, Run, StepDot

\* The step that raises a signal finds it taken.
LEMMA StepMergesNothing ==
  ASSUME SignalInv, [Next]_vars
  PROVE  /\ ~statLine /\ statLine' => ~statIrq
         /\ mode # "VBlank" /\ mode' = "VBlank" => ~vblankIrq
         /\ mode = "Drawing" /\ mode' = "HBlank" /\ lcdOn' => ~hblankEntered
<1> DEFINE Merged == /\ ~statLine /\ statLine' => ~statIrq
                     /\ mode # "VBlank" /\ mode' = "VBlank" => ~vblankIrq
                     /\ mode = "Drawing" /\ mode' = "HBlank" /\ lcdOn' => ~hblankEntered
<1> SUFFICES Merged
  OBVIOUS
<1>0. Signals /\ Position /\ IdleSweepsNothing /\ SignalsTaken
  BY TypeParts DEF SignalInv
<1> USE DEF sweepVars, lineVars, configVars, tickVars
<1>1. ASSUME StartDrawing \/ StartHBlank \/ EndLine PROVE Merged
  <2>1. ~NoChangeAhead
    BY <1>0, <1>1, ChangesAt
  <2>2. left > 0 /\ left \in Nat
    BY <1>0, <1>1 DEF StartDrawing, StartHBlank, EndLine, StepsTo, Position
  <2>3. ticking
    BY <1>0, <2>2 DEF IdleSweepsNothing
  <2> QED
    BY <1>0, <2>1, <2>3 DEF SignalsTaken
<1>2. ASSUME Access PROVE Merged
  <2>1. ~ticking /\ access
    BY <1>2 DEF Access
  <2> QED
    BY <1>0, <2>1 DEF SignalsTaken
<1>3. ASSUME UNCHANGED <<mode, statLine>> PROVE Merged
  BY <1>3
<1>4. ASSUME NEW n \in TickLengths, BeginTick(n) PROVE Merged
  BY <1>3, <1>4 DEF BeginTick
<1>5. CASE PlainDot \/ Collect \/ TakeFrameReady \/ UNCHANGED vars
  BY <1>3, <1>5 DEF PlainDot, Collect, TakeFrameReady, vars
<1>6. CASE SwitchOff \/ SwitchOn
  BY <1>2, <1>6 DEF SwitchOff, SwitchOn
<1>7. ASSUME NEW srcs \in SUBSET Sources, WriteStat(srcs) PROVE Merged
  BY <1>2, <1>7 DEF WriteStat
<1>8. ASSUME NEW y \in 0 .. TotalLines, WriteLyc(y) PROVE Merged
  BY <1>2, <1>8 DEF WriteLyc
<1>9. ASSUME NEW y \in 0 .. VisibleLines, MoveWindow(y) PROVE Merged
  BY <1>2, <1>9 DEF MoveWindow
<1>10. CASE Reset
  BY <1>10 DEF Reset
<1> HIDE DEF Merged
<1> QED
  BY <1>1, <1>4, <1>5, <1>6, <1>7, <1>8, <1>9, <1>10 DEF Next, Run, StepDot

(***************************************************************************)
(* Where no tick outlasts a mode, none of the plain flags Bus::tick drains *)
(* is ever raised twice before it is taken: not by the sweep, and not by a *)
(* register write followed by the sweep of the next tick. The pause of a   *)
(* speed switch is the one tick of the program this does not speak of.     *)
(***************************************************************************)
THEOREM PpuNoSignalMerged ==
  ASSUME TicksAreShort
  PROVE  Spec => NoSignalMerged
<1>1. Init => SignalInv
  BY InitType, InitMode, InitSignals DEF SignalInv
<1>2. SignalInv /\ [Next]_vars => SignalInv'
  BY StepType, StepIdle, StepLeft, StepTaken, TypeParts DEF SignalInv
<1>3. SignalInv /\ [Next]_vars
        => [/\ ~statLine /\ statLine' => ~statIrq
            /\ mode # "VBlank" /\ mode' = "VBlank" => ~vblankIrq
            /\ mode = "Drawing" /\ mode' = "HBlank" /\ lcdOn' => ~hblankEntered]_vars
  BY StepMergesNothing
<1> QED
  BY <1>1, <1>2, <1>3, PTL DEF Spec, NoSignalMerged
=============================================================================
