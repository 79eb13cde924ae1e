------------------------------- MODULE GameBoy -------------------------------
(***************************************************************************)
(* The run loops of the assembled machine, src/core/gameboy.cpp: run_frame *)
(* and run_system_cycles, which the window, the debugger and the headless  *)
(* runner call in any order, over the frame signal of the PPU and the two  *)
(* time domains of the clock (clock.hpp).                                  *)
(*                                                                         *)
(* Times are kept relative (cycles to the cap, position in the frame), so  *)
(* that the machine may run for ever.                                      *)
(***************************************************************************)
EXTENDS Integers

CONSTANTS
  FrameCycles,   \* kTCyclesPerFrame (70224)
  ImageCycles,   \* where in a frame the image is complete (144 lines, 65664)
  StepCycles,    \* CPU cycles one Cpu::step may take
  SwitchPause,   \* the pause of a speed switch, in CPU cycles (8200)
  RunCycles      \* system cycles run_system_cycles may be asked for

ASSUME GameBoyAssumption ==
  /\ FrameCycles \in Nat /\ ImageCycles \in 1 .. FrameCycles - 1
  /\ StepCycles \subseteq {t \in Nat : t > 0 /\ t % 4 = 0}
  /\ SwitchPause \in Nat /\ SwitchPause % 4 = 0
  /\ \A t \in StepCycles : t + SwitchPause <= FrameCycles
  /\ RunCycles \subseteq Nat

VARIABLES
  doubleSpeed,   \* the clock's speed
  remainder,     \* sys_remainder_: CPU cycles not yet a system cycle
  lcdOn, beam,   \* the screen: on, and its position in the frame
  frameReady,    \* frame_ready_ of the PPU
  dead,          \* the CPU is stopped or met an illegal opcode
  call,          \* the loop that is running
  budget,        \* system cycles until its cap or target
  ended,         \* history: how the last call of run_frame ended
  imageDone,     \* history: an image was completed during this call
  screenOff,     \* history: the screen was off at some time during this call
  foreign        \* history: the frame signal, set or just taken, was raised by a
                 \* step outside of run_frame

vars == <<doubleSpeed, remainder, lcdOn, beam, frameReady, dead, call, budget, ended,
          imageDone, screenOff, foreign>>
machine == <<doubleSpeed, remainder, lcdOn, beam, frameReady, dead>>

Init ==
  /\ doubleSpeed = FALSE /\ remainder = 0 /\ lcdOn = TRUE /\ beam = 0
  /\ frameReady = FALSE /\ dead = FALSE
  /\ call = "none" /\ budget = 0 /\ ended = "none"
  /\ imageDone = FALSE /\ screenOff = FALSE /\ foreign = FALSE

Begin(name, cycles) ==
  /\ call = "none"
  /\ call' = name /\ budget' = cycles
  /\ imageDone' = FALSE /\ screenOff' = ~lcdOn
  /\ foreign' = (foreign /\ frameReady)
  /\ ended' = "none"
  /\ UNCHANGED machine

\* GameBoy::run_frame, with its cap of two frames.
BeginFrame == Begin("frame", 2 * FrameCycles)

\* GameBoy::run_system_cycles.
BeginCycles(n) == Begin("cycles", n)

\* Clock::advance: the system cycles in t CPU cycles, and the carry it leaves.
Advanced(t, double, rem) ==
  IF double THEN [sys |-> (t + rem) \div 2, rem |-> (t + rem) % 2]
  ELSE [sys |-> t, rem |-> rem]

\* The clock after a step of t cycles that leaves the machine at speed fast:
\* a switch clears the carry and charges its pause at the new speed
\* (Bus::perform_speed_switch, Clock::set_double_speed).
ClockAfter(t, fast) ==
  LET step  == Advanced(t, doubleSpeed, remainder)
      pause == Advanced(SwitchPause, fast, 0)
  IN  IF fast = doubleSpeed THEN step
      ELSE [sys |-> step.sys + pause.sys, rem |-> pause.rem]

\* The image is completed when the beam passes the last visible line.
ImageWithin(n) ==
  lcdOn /\ \E d \in 1 .. n : (beam + d) % FrameCycles = ImageCycles

(***************************************************************************)
(* One Cpu::step of t cycles. The instruction may switch the screen or the *)
(* speed, or be the last one the processor executes.                       *)
(***************************************************************************)
StepMachine(t, on, fast, dies) ==
  LET n == ClockAfter(t, fast).sys
  IN  /\ beam' = IF lcdOn /\ on THEN (beam + n) % FrameCycles ELSE 0
      /\ lcdOn' = on
      /\ doubleSpeed' = fast
      /\ remainder' = ClockAfter(t, fast).rem
      /\ dead' = (dead \/ dies)

\* The histories of a call of run_frame, after n more system cycles.
Noted(n, on) ==
  /\ imageDone' = (imageDone \/ ImageWithin(n))
  /\ screenOff' = (screenOff \/ ~on)

\* A processor that is dead lets time pass, and takes an interrupt if IME is set,
\* whose push may reach LCDC; the STOP that switches the speed neither writes LCDC nor
\* stops the processor.
Lives(on, fast, dies) ==
  /\ dead => fast = doubleSpeed /\ ~dies
  /\ fast # doubleSpeed => on = lcdOn /\ ~dies

Remaining(n) == IF budget > n THEN budget - n ELSE 0

\* Mutant: the cap is not looked at.
FrameStepNoCap(t, on, fast, dies) ==
  /\ call = "frame" /\ Lives(on, fast, dies)
  /\ StepMachine(t, on, fast, dies) /\ Noted(ClockAfter(t, fast).sys, on)
  /\ LET ready == frameReady \/ ImageWithin(ClockAfter(t, fast).sys)
     IN  /\ ended' = CASE dead' -> "dead" [] ~dead' /\ ready -> "image" [] OTHER -> "none"
         /\ frameReady' = (ready /\ dead')
  /\ budget' = Remaining(ClockAfter(t, fast).sys)
  /\ foreign' = (foreign /\ ended' # "none")
  /\ call' = IF ended' = "none" THEN "frame" ELSE "none"

\* Mutant: the frame signal is looked at and not taken.
FrameStepKeepsSignal(t, on, fast, dies) ==
  /\ call = "frame" /\ Lives(on, fast, dies)
  /\ StepMachine(t, on, fast, dies) /\ Noted(ClockAfter(t, fast).sys, on)
  /\ budget' = Remaining(ClockAfter(t, fast).sys)
  /\ frameReady' = (frameReady \/ ImageWithin(ClockAfter(t, fast).sys))
  /\ \/ ended' = "dead"  /\ dead'
     \/ ended' = "image" /\ ~dead' /\ frameReady'
     \/ ended' = "cap"   /\ ~dead' /\ ~frameReady' /\ budget' = 0
     \/ ended' = "none"  /\ ~dead' /\ ~frameReady' /\ budget' # 0
  /\ foreign' = (foreign /\ ended' # "none")
  /\ call' = IF ended' = "none" THEN "frame" ELSE "none"

\* One turn of run_frame: step, then three reasons to return, in this order.
FrameStep(t, on, fast, dies) ==
  /\ call = "frame" /\ Lives(on, fast, dies)
  /\ StepMachine(t, on, fast, dies) /\ Noted(ClockAfter(t, fast).sys, on)
  /\ budget' = Remaining(ClockAfter(t, fast).sys)
  /\ LET ready == frameReady \/ ImageWithin(ClockAfter(t, fast).sys)
     IN  /\ \/ ended' = "dead"  /\ dead'
            \/ ended' = "image" /\ ~dead' /\ ready
            \/ ended' = "cap"   /\ ~dead' /\ ~ready /\ budget' = 0
            \/ ended' = "none"  /\ ~dead' /\ ~ready /\ budget' # 0
         /\ frameReady' = (ready /\ dead')
  /\ foreign' = (foreign /\ ended' # "none")
  /\ call' = IF ended' = "none" THEN "frame" ELSE "none"

\* One turn of run_system_cycles, which never takes the frame signal.
CyclesStep(t, on, fast, dies) ==
  /\ call = "cycles" /\ budget > 0 /\ Lives(on, fast, dies)
  /\ StepMachine(t, on, fast, dies)
  /\ frameReady' = (frameReady \/ ImageWithin(ClockAfter(t, fast).sys))
  /\ foreign' = (foreign \/ ImageWithin(ClockAfter(t, fast).sys))
  /\ budget' = Remaining(ClockAfter(t, fast).sys)
  /\ call' = IF dead' THEN "none" ELSE call
  /\ UNCHANGED <<ended, imageDone, screenOff>>

CyclesDone ==
  /\ call = "cycles" /\ budget = 0
  /\ call' = "none"
  /\ UNCHANGED <<machine, budget, ended, imageDone, screenOff, foreign>>

Reset ==
  /\ call = "none"
  /\ doubleSpeed' = FALSE /\ remainder' = 0 /\ lcdOn' = TRUE /\ beam' = 0
  /\ frameReady' = FALSE /\ dead' = FALSE
  /\ ended' = "none" /\ imageDone' = FALSE /\ screenOff' = FALSE /\ foreign' = FALSE
  /\ UNCHANGED <<call, budget>>

Turn ==
  \/ \E t \in StepCycles, on, fast, dies \in BOOLEAN :
       FrameStep(t, on, fast, dies) \/ CyclesStep(t, on, fast, dies)
  \/ CyclesDone

Next ==
  \/ BeginFrame
  \/ \E n \in RunCycles : BeginCycles(n)
  \/ Turn
  \/ Reset

Spec == Init /\ [][Next]_vars

-----------------------------------------------------------------------------

TypeOK ==
  /\ doubleSpeed \in BOOLEAN /\ remainder \in {0, 1} /\ lcdOn \in BOOLEAN
  /\ beam \in 0 .. FrameCycles - 1
  /\ frameReady \in BOOLEAN /\ dead \in BOOLEAN
  /\ call \in {"none", "frame", "cycles"}
  /\ budget \in Nat
  /\ ended \in {"none", "dead", "image", "cap"}
  /\ imageDone \in BOOLEAN /\ screenOff \in BOOLEAN /\ foreign \in BOOLEAN

(***************************************************************************)
(* A call of run_frame ends with the one image completed in it: no image   *)
(* is drawn over before the window could show it, none is shown by two     *)
(* calls, and the cap is only a guard, which ends a call only if the       *)
(* screen was off during it (gameboy.cpp:64-67). The one exception is a    *)
(* signal that run_system_cycles or the debugger left behind: it ends the  *)
(* next call at its first step, image or not.                              *)
(***************************************************************************)
ImageEndsTheCall ==
  /\ call = "frame" => ~imageDone
  /\ ended = "image" => imageDone \/ foreign
  /\ ended = "cap" => screenOff /\ ~imageDone
=============================================================================
