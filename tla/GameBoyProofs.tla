---------------------------- MODULE GameBoyProofs ----------------------------
(***************************************************************************)
(* Proofs about the run loops and the clock, first of the machine alone    *)
(* and then with the debugger calling it and running loops of its own.     *)
(***************************************************************************)
EXTENDS Debugger, TLAPS

\* Steps and pauses are whole machine cycles, so that there is never a half system
\* cycle to carry (the comment in Clock::advance).
NoCarry == remainder = 0

\* A whole number of machine cycles is a whole number of system cycles at
\* either speed.
LEMMA AdvancedWhole ==
  ASSUME NEW t \in Nat, t % 4 = 0, NEW double \in BOOLEAN
  PROVE  Advanced(t, double, 0).sys \in Nat /\ Advanced(t, double, 0).rem = 0
<1>1. t \div 2 \in Nat /\ t % 2 = 0
  OBVIOUS
<1>2. CASE double
  BY <1>1, <1>2 DEF Advanced
<1>3. CASE ~double
  BY <1>1, <1>3 DEF Advanced
<1> QED BY <1>2, <1>3

\* So is the clock after a step, with or without a switch of the speed.
LEMMA ClockAfterWhole ==
  ASSUME NEW t \in StepCycles, NEW fast \in BOOLEAN, doubleSpeed \in BOOLEAN, NoCarry
  PROVE  ClockAfter(t, fast).sys \in Nat /\ ClockAfter(t, fast).rem = 0
<1>1. t \in Nat /\ t % 4 = 0
  BY GameBoyAssumption
<1>2. SwitchPause \in Nat /\ SwitchPause % 4 = 0
  BY GameBoyAssumption
<1> DEFINE step == Advanced(t, doubleSpeed, remainder)
           pause == Advanced(SwitchPause, fast, 0)
<1>3. step.sys \in Nat /\ step.rem = 0
  BY <1>1, AdvancedWhole DEF NoCarry
<1>4. pause.sys \in Nat /\ pause.rem = 0
  BY <1>2, AdvancedWhole
<1>5. ClockAfter(t, fast) = IF fast = doubleSpeed THEN step
                            ELSE [sys |-> step.sys + pause.sys, rem |-> pause.rem]
  BY DEF ClockAfter
<1> HIDE DEF step, pause
<1> QED BY <1>3, <1>4, <1>5

-----------------------------------------------------------------------------

\* The inductive invariant: types, and no carry.
IInv == TypeOK /\ NoCarry

\* What a step does to the machine, loop apart.
LEMMA StepMachineKeeps ==
  ASSUME IInv, NEW t \in StepCycles,
         NEW on \in BOOLEAN, NEW fast \in BOOLEAN, NEW dies \in BOOLEAN,
         StepMachine(t, on, fast, dies)
  PROVE  /\ doubleSpeed' \in BOOLEAN /\ remainder' = 0 /\ lcdOn' \in BOOLEAN
         /\ beam' \in 0 .. FrameCycles - 1
         /\ dead' \in BOOLEAN
<1>1. doubleSpeed \in BOOLEAN /\ NoCarry
  BY DEF IInv, TypeOK
<1> DEFINE n == ClockAfter(t, fast).sys
<1>2. n \in Nat /\ ClockAfter(t, fast).rem = 0
  BY <1>1, ClockAfterWhole
<1>3. beam \in Nat /\ FrameCycles \in Nat /\ FrameCycles > 0
  BY GameBoyAssumption DEF IInv, TypeOK
<1>4. (beam + n) % FrameCycles \in 0 .. FrameCycles - 1 /\ 0 \in 0 .. FrameCycles - 1
  <2> HIDE DEF n
  <2> QED BY <1>2, <1>3
<1>5. beam' = IF lcdOn /\ on THEN (beam + n) % FrameCycles ELSE 0
  BY DEF StepMachine
<1>6. beam' \in 0 .. FrameCycles - 1
  <2> HIDE DEF n
  <2>1. CASE lcdOn /\ on
    BY <2>1, <1>4, <1>5, Zenon
  <2>2. CASE ~(lcdOn /\ on)
    BY <2>2, <1>4, <1>5, Zenon
  <2> QED BY <2>1, <2>2
<1>7. remainder' = 0
  BY <1>2 DEF StepMachine
<1>8. doubleSpeed' \in BOOLEAN /\ lcdOn' \in BOOLEAN /\ dead' \in BOOLEAN
  BY Zenon DEF StepMachine
<1> QED BY <1>6, <1>7, <1>8

LEMMA RemainingNatural ==
  ASSUME budget \in Nat, NEW n \in Nat
  PROVE  Remaining(n) \in Nat
BY DEF Remaining

\* The beam starts on the screen.
LEMMA OriginOnScreen == 0 \in Nat /\ 0 \in 0 .. FrameCycles - 1
BY GameBoyAssumption

LEMMA InvInit == Init => IInv
BY OriginOnScreen, Zenon DEF Init, IInv, TypeOK, NoCarry

LEMMA InvStep == IInv /\ [Next]_vars => IInv'
<1> SUFFICES ASSUME IInv, [Next]_vars PROVE IInv'
  OBVIOUS
<1> USE DEF IInv
<1>1. ASSUME NEW name \in {"frame", "cycles"}, NEW n \in Nat, Begin(name, n) PROVE IInv'
  <2>1. foreign' \in BOOLEAN
    BY <1>1, Zenon DEF Begin
  <2> QED BY <1>1, <2>1 DEF Begin, TypeOK, NoCarry, machine
<1>2. CASE BeginFrame
  <2>1. 2 * FrameCycles \in Nat
    BY GameBoyAssumption
  <2> QED BY <2>1, <1>1, <1>2 DEF BeginFrame
<1>3. ASSUME NEW n \in RunCycles, BeginCycles(n) PROVE IInv'
  <2>1. n \in Nat
    BY GameBoyAssumption
  <2> QED BY <2>1, <1>1, <1>3 DEF BeginCycles
<1>4. ASSUME NEW t \in StepCycles, NEW on \in BOOLEAN, NEW fast \in BOOLEAN,
             NEW dies \in BOOLEAN, FrameStep(t, on, fast, dies)
      PROVE  IInv'
  <2>1. StepMachine(t, on, fast, dies)
    BY <1>4 DEF FrameStep
  <2>2. /\ doubleSpeed' \in BOOLEAN /\ remainder' = 0 /\ lcdOn' \in BOOLEAN
        /\ beam' \in 0 .. FrameCycles - 1
        /\ dead' \in BOOLEAN
    BY <2>1, StepMachineKeeps
  <2>3. budget' \in Nat
    <3>1. ClockAfter(t, fast).sys \in Nat
      BY ClockAfterWhole DEF TypeOK
    <3> QED BY <3>1, RemainingNatural, <1>4 DEF FrameStep, TypeOK
  <2>4. ended' \in {"none", "dead", "image", "cap"} /\ frameReady' \in BOOLEAN
        /\ call' \in {"none", "frame", "cycles"}
        /\ imageDone' \in BOOLEAN /\ screenOff' \in BOOLEAN /\ foreign' \in BOOLEAN
    BY <1>4, Zenon DEF FrameStep, Noted
  <2> QED BY <2>2, <2>3, <2>4 DEF TypeOK, NoCarry
<1>5. ASSUME NEW t \in StepCycles, NEW on \in BOOLEAN, NEW fast \in BOOLEAN,
             NEW dies \in BOOLEAN, CyclesStep(t, on, fast, dies)
      PROVE  IInv'
  <2>1. StepMachine(t, on, fast, dies)
    BY <1>5 DEF CyclesStep
  <2>2. /\ doubleSpeed' \in BOOLEAN /\ remainder' = 0 /\ lcdOn' \in BOOLEAN
        /\ beam' \in 0 .. FrameCycles - 1
        /\ dead' \in BOOLEAN
    BY <2>1, StepMachineKeeps
  <2>3. budget' \in Nat
    <3>1. ClockAfter(t, fast).sys \in Nat
      BY ClockAfterWhole DEF TypeOK
    <3> QED BY <3>1, RemainingNatural, <1>5 DEF CyclesStep, TypeOK
  <2>4. ended' \in {"none", "dead", "image", "cap"} /\ frameReady' \in BOOLEAN
        /\ call' \in {"none", "frame", "cycles"}
        /\ imageDone' \in BOOLEAN /\ screenOff' \in BOOLEAN /\ foreign' \in BOOLEAN
    BY <1>5, Zenon DEF CyclesStep, TypeOK
  <2> QED BY <2>2, <2>3, <2>4 DEF TypeOK, NoCarry
<1>6. CASE CyclesDone
  BY <1>6 DEF CyclesDone, TypeOK, NoCarry, machine
<1>7. CASE Reset
  BY <1>7, OriginOnScreen, Zenon DEF Reset, TypeOK, NoCarry
<1>8. CASE UNCHANGED vars
  BY <1>8 DEF vars, TypeOK, NoCarry
<1> QED BY <1>2, <1>3, <1>4, <1>5, <1>6, <1>7, <1>8 DEF Next, Turn

LEMMA Invariance == Spec => []IInv
BY InvInit, InvStep, PTL DEF Spec

-----------------------------------------------------------------------------

(***************************************************************************)
(* The state of the run loops has its type for any lengths of frames and   *)
(* steps (GameBoy::run_frame, GameBoy::run_system_cycles).                 *)
(***************************************************************************)
THEOREM GameBoyTypeCorrect == Spec => []TypeOK
<1>1. IInv => TypeOK
  BY DEF IInv
<1> QED BY <1>1, Invariance, PTL

-----------------------------------------------------------------------------
(* The machine under the debugger. *)

\* A turn of s or c steps the machine as the machine's own loops do.
LEMMA StepOnceKeeps ==
  ASSUME IInv, NEW t \in StepCycles,
         NEW on \in BOOLEAN, NEW fast \in BOOLEAN, NEW dies \in BOOLEAN,
         StepOnce(t, on, fast, dies)
  PROVE  IInv'
<1>1. StepMachine(t, on, fast, dies)
  BY DEF StepOnce
<1>2. /\ doubleSpeed' \in BOOLEAN /\ remainder' = 0 /\ lcdOn' \in BOOLEAN
      /\ beam' \in 0 .. FrameCycles - 1
      /\ dead' \in BOOLEAN
  BY <1>1, StepMachineKeeps
<1>3. /\ UNCHANGED <<call, budget, ended, imageDone, screenOff>>
      /\ frameReady' = (frameReady \/ ImageWithin(ClockAfter(t, fast).sys))
      /\ foreign' = (foreign \/ ImageWithin(ClockAfter(t, fast).sys))
  BY DEF StepOnce
<1>4. /\ call' \in {"none", "frame", "cycles"} /\ budget' \in Nat
      /\ ended' \in {"none", "dead", "image", "cap"}
      /\ imageDone' \in BOOLEAN /\ screenOff' \in BOOLEAN
  BY <1>3 DEF IInv, TypeOK
<1>5. frameReady' \in BOOLEAN /\ foreign' \in BOOLEAN
  BY <1>3, Zenon
<1> QED BY <1>2, <1>4, <1>5 DEF IInv, TypeOK, NoCarry

\* One loop at a time: the machine's or the debugger's.
OneLoop == call = "none" \/ command = "none"

LEMMA StepOneLoop == OneLoop /\ [DNext]_dvars => OneLoop'
<1> SUFFICES ASSUME OneLoop, [DNext]_dvars PROVE OneLoop'
  OBVIOUS
<1> USE DEF OneLoop
<1>1. CASE Call
  BY <1>1 DEF Call, dbg
<1>2. CASE ResetCommand
  BY <1>2 DEF ResetCommand, dbg
<1>3. CASE PokeScreen
  BY <1>3 DEF PokeScreen, dbg
<1>4. ASSUME NEW name \in {"steps", "continue"}, Loop(name) PROVE OneLoop'
  BY <1>4 DEF Loop, AtPrompt
<1>5. CASE Continue
  BY <1>4, <1>5 DEF Continue
<1>6. ASSUME NEW n \in StepCounts, Steps(n) PROVE OneLoop'
  BY <1>4, <1>6 DEF Steps
<1>7. ASSUME NEW a \in BreakAt, SetBreakpoint(a) \/ DeleteBreakpoint(a) PROVE OneLoop'
  BY <1>7 DEF SetBreakpoint, DeleteBreakpoint, vars
<1>8. ASSUME NEW t \in StepCycles, NEW on \in BOOLEAN, NEW fast \in BOOLEAN,
             NEW dies \in BOOLEAN, CallTurn(t, on, fast, dies)
      PROVE  OneLoop'
  BY <1>8 DEF CallTurn, FrameStep, CyclesStep, dbg
<1>9. ASSUME NEW t \in StepCycles, NEW on \in BOOLEAN, NEW fast \in BOOLEAN,
             NEW dies \in BOOLEAN,
             StepsTurn(t, on, fast, dies) \/ ContinueTurn(t, on, fast, dies)
      PROVE  OneLoop'
  BY <1>9 DEF StepsTurn, ContinueTurn, StepOnce
<1>10. CASE CallEnds
  BY <1>10 DEF CallEnds, CyclesDone
<1>11. CASE UNCHANGED dvars
  BY <1>11 DEF dvars, vars, dbg
<1> QED
  BY <1>1, <1>2, <1>3, <1>5, <1>6, <1>7, <1>8, <1>9, <1>10, <1>11, Zenon DEF DNext, DTurn

\* Everything else the debugger does is a step of the machine, a poke of the
\* screen, the start of a loop, or leaves the machine alone.
LEMMA DebuggerStepKinds ==
  ASSUME OneLoop, [DNext]_dvars
  PROVE  \/ [Next]_vars
         \/ PokeScreen
         \/ \E name \in {"steps", "continue"} : Loop(name)
         \/ \E t \in StepCycles, on, fast, dies \in BOOLEAN :
              StepOnce(t, on, fast, dies) /\ call = "none"
<1>1. Call => Next
  BY Zenon DEF Call, Next
<1>2. ResetCommand => Next
  BY Zenon DEF ResetCommand, Next
<1>3. Continue => Loop("continue")
  BY Zenon DEF Continue
<1>4. ASSUME NEW a \in BreakAt, SetBreakpoint(a) \/ DeleteBreakpoint(a) PROVE UNCHANGED vars
  BY <1>4 DEF SetBreakpoint, DeleteBreakpoint
<1>5. ASSUME NEW n \in StepCounts, Steps(n) PROVE Loop("steps")
  BY <1>5, Zenon DEF Steps
<1>6. CallEnds => Next
  BY Zenon DEF CallEnds, Next, Turn
<1>7. ASSUME NEW t \in StepCycles, NEW on \in BOOLEAN, NEW fast \in BOOLEAN,
             NEW dies \in BOOLEAN, CallTurn(t, on, fast, dies)
      PROVE  Next
  BY <1>7, Zenon DEF CallTurn, Next, Turn
<1>8. UNCHANGED dvars => UNCHANGED vars
  BY DEF dvars
<1>9. ASSUME NEW t \in StepCycles, NEW on \in BOOLEAN, NEW fast \in BOOLEAN,
             NEW dies \in BOOLEAN,
             StepsTurn(t, on, fast, dies) \/ ContinueTurn(t, on, fast, dies)
      PROVE  StepOnce(t, on, fast, dies) /\ call = "none"
  <2>1. command = "steps" \/ command = "continue"
    BY <1>9, Zenon DEF StepsTurn, ContinueTurn
  <2>2. call = "none"
    BY <2>1 DEF OneLoop
  <2> QED BY <1>9, <2>2, Zenon DEF StepsTurn, ContinueTurn
<1> QED
  BY <1>1, <1>2, <1>3, <1>4, <1>5, <1>6, <1>7, <1>8, <1>9, Zenon DEF DNext, DTurn

\* A poke of the screen and the start of a loop keep the machine's types.
LEMMA DebuggerStep == IInv /\ OneLoop /\ [DNext]_dvars => IInv'
<1> SUFFICES ASSUME IInv, OneLoop, [DNext]_dvars PROVE IInv'
  OBVIOUS
<1>1. CASE PokeScreen
  <2>1. lcdOn' \in BOOLEAN /\ beam' = 0
    BY <1>1, Zenon DEF PokeScreen
  <2> QED BY <1>1, <2>1, OriginOnScreen DEF PokeScreen, IInv, TypeOK, NoCarry
<1>2. ASSUME NEW name \in {"steps", "continue"}, Loop(name) PROVE IInv'
  <2>1. foreign' \in BOOLEAN
    BY <1>2, Zenon DEF Loop
  <2> QED BY <1>2, <2>1 DEF Loop, machine, IInv, TypeOK, NoCarry
<1> QED BY <1>1, <1>2, DebuggerStepKinds, InvStep, StepOnceKeeps, Zenon

-----------------------------------------------------------------------------
(* A call of run_frame ends with its image. *)

\* A remainder by a variable length, where the quotient is 0 or 1.
LEMMA OnceAround ==
  ASSUME NEW f \in Nat, f > 0, NEW a \in 0 .. 2 * f - 1
  PROVE  a % f = IF a < f THEN a ELSE a - f
<1>1. CASE a < f
  BY <1>1, SMTT(60)
<1>2. CASE a >= f
  BY <1>2, SMTT(60)
<1> QED BY <1>1, <1>2

\* How far the beam is from the end of the image.
Ahead(b) == IF b < ImageCycles THEN ImageCycles - b ELSE ImageCycles + FrameCycles - b

\* A step that leaves no image behind ends before its end.
LEMMA NotYetThere ==
  ASSUME lcdOn, beam \in 0 .. FrameCycles - 1, NEW n \in Nat, ~ImageWithin(n)
  PROVE  n < Ahead(beam)
<1>1. FrameCycles \in Nat /\ ImageCycles \in 1 .. FrameCycles - 1 /\ beam \in Nat
  BY GameBoyAssumption
<1>2. Ahead(beam) \in Nat \ {0}
  BY <1>1 DEF Ahead
<1>3. (beam + Ahead(beam)) % FrameCycles = ImageCycles
  <2>1. CASE beam < ImageCycles
    <3>1. beam + Ahead(beam) = ImageCycles
      BY <1>1, <2>1 DEF Ahead
    <3> QED BY <1>1, <3>1, OnceAround
  <2>2. CASE beam >= ImageCycles
    <3>1. beam + Ahead(beam) = ImageCycles + FrameCycles
      BY <1>1, <2>2 DEF Ahead
    <3> QED BY <1>1, <3>1, OnceAround
  <2> QED BY <1>1, <2>1, <2>2
<1>4. SUFFICES ASSUME n >= Ahead(beam) PROVE FALSE
  BY <1>2
<1>5. Ahead(beam) \in 1 .. n
  BY <1>2, <1>4
<1> QED BY <1>3, <1>5, Zenon DEF ImageWithin

\* Such a step brings the beam nearer to it.
LEMMA Nearer ==
  ASSUME NEW b \in 0 .. FrameCycles - 1, NEW n \in Nat, n < Ahead(b)
  PROVE  Ahead((b + n) % FrameCycles) = Ahead(b) - n
<1>1. FrameCycles \in Nat /\ ImageCycles \in 1 .. FrameCycles - 1 /\ b \in Nat
  BY GameBoyAssumption
<1>2. b + n \in 0 .. 2 * FrameCycles - 1
  BY <1>1 DEF Ahead
<1>3. (b + n) % FrameCycles = IF b + n < FrameCycles THEN b + n ELSE b + n - FrameCycles
  BY <1>1, <1>2, OnceAround
<1> QED BY <1>1, <1>3 DEF Ahead

\* The image comes before the cap, as long as the screen stays on.
ImageBeforeCap ==
  call = "frame" /\ ~screenOff => lcdOn /\ Ahead(beam) <= budget

\* A frame signal found by run_frame is its own or a step's outside of it; a call
\* that ended with a dead processor leaves one that no call will take.
SignalKnown == frameReady /\ ~dead => foreign

ImageInv == ImageEndsTheCall /\ ImageBeforeCap /\ SignalKnown

\* A turn of run_frame that finds no image leaves the cap further away than it.
LEMMA TurnWithoutImage ==
  ASSUME IInv, ImageBeforeCap,
         NEW t \in StepCycles, NEW on \in BOOLEAN, NEW fast \in BOOLEAN,
         NEW dies \in BOOLEAN, FrameStep(t, on, fast, dies),
         ~ImageWithin(ClockAfter(t, fast).sys), ~screenOff'
  PROVE  lcdOn' /\ Ahead(beam') <= budget' /\ budget' > 0
<1> DEFINE n == ClockAfter(t, fast).sys
<1>1. n \in Nat /\ beam \in 0 .. FrameCycles - 1 /\ budget \in Nat
  BY ClockAfterWhole DEF IInv, TypeOK
<1>2. call = "frame" /\ ~screenOff /\ on
  BY Zenon DEF FrameStep, Noted
<1>3. lcdOn /\ Ahead(beam) <= budget
  BY <1>2, Zenon DEF ImageBeforeCap
<1>4. n < Ahead(beam)
  <2>1. ~ImageWithin(n)
    OBVIOUS
  <2> HIDE DEF n
  <2> QED BY <1>1, <1>3, <2>1, NotYetThere
<1>5. lcdOn' /\ beam' = (beam + n) % FrameCycles
  BY <1>2, <1>3, Zenon DEF FrameStep, StepMachine
<1>6. budget' = IF budget > n THEN budget - n ELSE 0
  BY DEF FrameStep, Remaining
<1> HIDE DEF n
<1>7. Ahead(beam') = Ahead(beam) - n
  BY <1>1, <1>4, <1>5, Nearer
<1>8. Ahead(beam) \in Nat
  BY <1>1, GameBoyAssumption DEF Ahead
<1> QED BY <1>1, <1>3, <1>4, <1>5, <1>6, <1>7, <1>8

LEMMA FrameStepImage ==
  ASSUME IInv, ImageInv,
         NEW t \in StepCycles, NEW on \in BOOLEAN, NEW fast \in BOOLEAN,
         NEW dies \in BOOLEAN, FrameStep(t, on, fast, dies)
  PROVE  ImageInv'
<1> DEFINE found == ImageWithin(ClockAfter(t, fast).sys)
           ready == frameReady \/ found
<1>1. /\ call = "frame" /\ ~imageDone
      /\ imageDone' = (imageDone \/ found)
      /\ call' = IF ended' = "none" THEN "frame" ELSE "none"
      /\ foreign' = (foreign /\ ended' # "none")
      /\ frameReady' = (ready /\ dead')
  BY Zenon DEF FrameStep, Noted, ImageInv, ImageEndsTheCall
<1>2. SignalKnown'
  BY <1>1, Zenon DEF SignalKnown
<1>3. CASE ended' = "dead"
  <2>1. call' # "frame" /\ ended' # "cap" /\ ended' # "image"
    BY <1>1, <1>3
  <2> QED BY <1>2, <2>1, Zenon DEF ImageInv, ImageEndsTheCall, ImageBeforeCap
<1>4. CASE ended' = "image"
  <2>1. ready /\ ~dead' /\ call' # "frame" /\ ended' # "cap" /\ ended' # "none"
    BY <1>1, <1>4 DEF FrameStep
  <2>2. ~dead
    BY <2>1, Zenon DEF FrameStep, StepMachine
  <2>3. frameReady => foreign
    BY <2>2, Zenon DEF ImageInv, SignalKnown
  <2>4. imageDone' \/ foreign'
    BY <1>1, <2>1, <2>3, Zenon
  <2> QED BY <1>2, <2>1, <2>4, Zenon DEF ImageInv, ImageEndsTheCall, ImageBeforeCap
<1>5. CASE ended' = "cap"
  <2>1. ~ready /\ budget' = 0 /\ call' # "frame" /\ ended' # "image"
    BY <1>1, <1>5 DEF FrameStep
  <2>2. ~imageDone'
    BY <1>1, <2>1, Zenon
  <2>3. ASSUME ~screenOff' PROVE FALSE
    <3>1. budget' > 0
      BY <2>1, <2>3, TurnWithoutImage DEF ImageInv
    <3> QED BY <2>1, <3>1
  <2> QED BY <1>2, <2>1, <2>2, <2>3, Zenon DEF ImageInv, ImageEndsTheCall, ImageBeforeCap
<1>6. CASE ended' = "none"
  <2>1. ~ready
    BY <1>6 DEF FrameStep
  <2>2. ~imageDone' /\ ended' # "cap" /\ ended' # "image"
    BY <1>1, <1>6, <2>1
  <2>3. ASSUME ~screenOff' PROVE lcdOn' /\ Ahead(beam') <= budget'
    BY <2>1, <2>3, TurnWithoutImage, Zenon DEF ImageInv
  <2> QED BY <1>2, <2>2, <2>3, Zenon DEF ImageInv, ImageEndsTheCall, ImageBeforeCap
<1>7. ended' \in {"dead", "image", "cap", "none"}
  BY Zenon DEF FrameStep
<1> QED BY <1>3, <1>4, <1>5, <1>6, <1>7, Zenon

LEMMA ImageInit == Init => ImageInv
BY DEF Init, ImageInv, ImageEndsTheCall, ImageBeforeCap, SignalKnown

\* A step outside of a call of run_frame, which keeps or clears its histories and
\* accounts for the signal it raises.
LEMMA OutsideTheCall ==
  ASSUME ImageInv, call' # "frame", frameReady' /\ ~dead' => foreign',
         (UNCHANGED <<ended, imageDone, screenOff>> /\ (foreign => foreign')) \/ ended' = "none"
  PROVE  ImageInv'
<1>1. CASE UNCHANGED <<ended, imageDone, screenOff>> /\ (foreign => foreign')
  BY <1>1, Zenon DEF ImageInv, ImageEndsTheCall, ImageBeforeCap, SignalKnown
<1>2. CASE ended' = "none"
  <2>1. ended' # "image" /\ ended' # "cap"
    BY <1>2
  <2> QED BY <2>1, Zenon DEF ImageInv, ImageEndsTheCall, ImageBeforeCap, SignalKnown
<1> QED BY <1>1, <1>2

\* What the machine steps outside of run_frame raises is foreign.
LEMMA ForeignStep ==
  ASSUME ImageInv, NEW t \in StepCycles, NEW on \in BOOLEAN, NEW fast \in BOOLEAN,
         NEW dies \in BOOLEAN, StepMachine(t, on, fast, dies),
         frameReady' = (frameReady \/ ImageWithin(ClockAfter(t, fast).sys)),
         foreign' = (foreign \/ ImageWithin(ClockAfter(t, fast).sys))
  PROVE  (frameReady' /\ ~dead' => foreign') /\ (foreign => foreign')
BY Zenon DEF StepMachine, ImageInv, SignalKnown

LEMMA ImageStep == IInv /\ ImageInv /\ [Next]_vars => ImageInv'
<1> SUFFICES ASSUME IInv, ImageInv, [Next]_vars PROVE ImageInv'
  OBVIOUS
<1>1. CASE BeginFrame
  <2>1. /\ call' = "frame" /\ budget' = 2 * FrameCycles /\ ended' = "none"
        /\ ~imageDone' /\ screenOff' = ~lcdOn
    BY <1>1 DEF BeginFrame, Begin
  <2>2. lcdOn' = lcdOn /\ beam' = beam /\ beam \in 0 .. FrameCycles - 1
    BY <1>1 DEF BeginFrame, Begin, machine, IInv, TypeOK
  <2>3. Ahead(beam') <= budget'
    BY <2>1, <2>2, GameBoyAssumption DEF Ahead
  <2>4. ~screenOff' => lcdOn'
    BY <2>1, <2>2
  <2>5. SignalKnown'
    BY <1>1, Zenon DEF BeginFrame, Begin, machine, ImageInv, SignalKnown
  <2> QED BY <2>1, <2>3, <2>4, <2>5 DEF ImageInv, ImageEndsTheCall, ImageBeforeCap
<1>2. ASSUME NEW n \in RunCycles, BeginCycles(n) PROVE ImageInv'
  <2>1. frameReady' /\ ~dead' => foreign'
    BY <1>2, Zenon DEF BeginCycles, Begin, machine, ImageInv, SignalKnown
  <2> QED BY <1>2, <2>1, OutsideTheCall DEF BeginCycles, Begin
<1>3. ASSUME NEW t \in StepCycles, NEW on \in BOOLEAN, NEW fast \in BOOLEAN,
             NEW dies \in BOOLEAN, CyclesStep(t, on, fast, dies)
      PROVE  ImageInv'
  <2>1. (frameReady' /\ ~dead' => foreign') /\ (foreign => foreign')
    BY <1>3, ForeignStep, Zenon DEF CyclesStep
  <2>2. call' # "frame" /\ UNCHANGED <<ended, imageDone, screenOff>>
    BY <1>3 DEF CyclesStep
  <2> QED BY <2>1, <2>2, OutsideTheCall, Zenon
<1>4. CASE CyclesDone
  <2>1. (frameReady' /\ ~dead' => foreign') /\ (foreign => foreign')
    BY <1>4, Zenon DEF CyclesDone, machine, ImageInv, SignalKnown
  <2>2. call' # "frame" /\ UNCHANGED <<ended, imageDone, screenOff>>
    BY <1>4 DEF CyclesDone
  <2> QED BY <2>1, <2>2, OutsideTheCall, Zenon
<1>5. CASE Reset
  BY <1>5, OutsideTheCall DEF Reset
<1>6. CASE UNCHANGED vars
  BY <1>6 DEF vars, ImageInv, ImageEndsTheCall, ImageBeforeCap, SignalKnown, Ahead
<1> QED BY <1>1, <1>2, <1>3, <1>4, <1>5, <1>6, FrameStepImage, Zenon DEF Next, Turn

\* The inductive invariant with the debugger.
DInv == IInv /\ OneLoop /\ ImageInv

LEMMA DInvInit == DInit => DInv
<1>1. DInit => Init /\ OneLoop
  BY DEF DInit, OneLoop
<1> QED BY <1>1, InvInit, ImageInit DEF DInv

LEMMA DInvStep == DInv /\ [DNext]_dvars => DInv'
<1> SUFFICES ASSUME IInv, OneLoop, ImageInv, [DNext]_dvars PROVE DInv'
  BY DEF DInv
<1>1. ASSUME PokeScreen PROVE ImageInv'
  <2>1. (frameReady' /\ ~dead' => foreign') /\ (foreign => foreign')
    BY <1>1, Zenon DEF PokeScreen, ImageInv, SignalKnown
  <2>2. call' # "frame" /\ UNCHANGED <<ended, imageDone, screenOff>>
    BY <1>1 DEF PokeScreen, AtPrompt
  <2> QED BY <2>1, <2>2, OutsideTheCall, Zenon
<1>2. ASSUME NEW name \in {"steps", "continue"}, Loop(name) PROVE ImageInv'
  <2>1. frameReady' /\ ~dead' => foreign'
    BY <1>2, Zenon DEF Loop, machine, ImageInv, SignalKnown
  <2> QED BY <1>2, <2>1, OutsideTheCall DEF Loop, AtPrompt
<1>3. ASSUME NEW t \in StepCycles, NEW on \in BOOLEAN, NEW fast \in BOOLEAN,
             NEW dies \in BOOLEAN, StepOnce(t, on, fast, dies), call = "none"
      PROVE  ImageInv'
  <2>1. (frameReady' /\ ~dead' => foreign') /\ (foreign => foreign')
    BY <1>3, ForeignStep, Zenon DEF StepOnce
  <2>2. call' # "frame" /\ UNCHANGED <<ended, imageDone, screenOff>>
    BY <1>3 DEF StepOnce
  <2> QED BY <2>1, <2>2, OutsideTheCall, Zenon
<1>4. ImageInv'
  BY <1>1, <1>2, <1>3, ImageStep, DebuggerStepKinds, Zenon
<1> QED BY <1>4, DebuggerStep, StepOneLoop DEF DInv

LEMMA DebuggerInvariance == DSpec => []DInv
BY DInvInit, DInvStep, PTL DEF DSpec

(***************************************************************************)
(* No call of run_frame draws past an image; it ends with one completed in *)
(* it, unless the signal it found was raised by a step outside of          *)
(* run_frame; and it reaches its cap only if the screen was off. So for    *)
(* every length of a frame and of a step, wherever in the frame the        *)
(* debugger or an earlier call left the beam.                              *)
(***************************************************************************)
THEOREM DebuggerImageEndsTheCall == DSpec => []ImageEndsTheCall
<1>1. DInv => ImageEndsTheCall
  BY DEF DInv, ImageInv
<1> QED BY <1>1, DebuggerInvariance, PTL

=============================================================================
