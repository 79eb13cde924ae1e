------------------------------- MODULE Raster -------------------------------
(***************************************************************************)
(* What the PPU promises the rest of the machine, as one position on the   *)
(* screen: while the screen is on the beam advances one dot per system     *)
(* cycle and wraps after a whole frame; VBlank is signalled when it leaves *)
(* the last visible line, HBlank at one fixed dot of each visible line.    *)
(* Switching the screen off parks the beam and signals nothing.            *)
(***************************************************************************)
EXTENDS Naturals

CONSTANTS
  LineDots,      \* dots of a line
  HBlankDot,     \* the dot of a visible line at which HBlank begins
  ImageLines,    \* visible lines
  AllLines       \* visible lines and VBlank

VARIABLES
  on,            \* the screen is on
  beam,          \* position of the beam, in dots from the top
  vblankSignal,  \* signalled and not collected yet
  hblankSignal

rasterVars == <<on, beam, vblankSignal, hblankSignal>>

HBlankStarts == {l * LineDots + HBlankDot : l \in 0 .. ImageLines - 1}

Init == on = TRUE /\ beam = 0 /\ vblankSignal = FALSE /\ hblankSignal = FALSE

Advance ==
  /\ on
  /\ beam' = (beam + 1) % (AllLines * LineDots)
  /\ vblankSignal' = (vblankSignal \/ beam' = ImageLines * LineDots)
  /\ hblankSignal' = (hblankSignal \/ beam' \in HBlankStarts)
  /\ UNCHANGED on

Collect ==
  /\ vblankSignal' = FALSE /\ hblankSignal' = FALSE
  /\ UNCHANGED <<on, beam>>

Switch ==
  /\ on' = ~on
  /\ beam' = 0
  /\ UNCHANGED <<vblankSignal, hblankSignal>>

PowerOn == on' = TRUE /\ beam' = 0 /\ vblankSignal' = FALSE /\ hblankSignal' = FALSE

Next == Advance \/ Collect \/ Switch \/ PowerOn

Spec == Init /\ [][Next]_rasterVars
=============================================================================
