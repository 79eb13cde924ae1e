------------------------------- MODULE Debugger -------------------------------
(***************************************************************************)
(* The terminal debugger, src/debug/debugger.cpp, over the run loops of    *)
(* the machine. Its f, t and reset are the calls of GameBoy, made from its *)
(* prompt; s and c have loops of their own, which count instructions and   *)
(* CPU cycles where GameBoy counts system cycles, and which leave the      *)
(* frame signal alone. Commands that only print are left out; q and the    *)
(* end of the input are in Cartridge.                                      *)
(***************************************************************************)
EXTENDS GameBoy

CONSTANTS
  Addresses,      \* where an instruction may be
  Entry,          \* where a reset starts
  BreakAt,        \* where the user may set breakpoints
  StepCounts,     \* arguments of s
  ContinueLimit   \* the bound of c, in CPU cycles (500000000)

ASSUME DebuggerAssumption ==
  Entry \in Addresses /\ BreakAt \subseteq Addresses /\ StepCounts \subseteq Nat \ {0} /\ ContinueLimit \in Nat \ {0}

VARIABLES
  pc,            \* the next instruction
  locked,        \* illegal_: a dead processor is locked up, or stopped
  breakpoints,
  command,       \* the loop of the debugger that is running
  left,          \* instructions that s has still to make
  limit          \* CPU cycles until c gives up

cpu  == <<pc, locked>>
dbg  == <<breakpoints, command, left, limit>>
dvars == <<vars, cpu, dbg>>

DInit ==
  /\ Init
  /\ pc = Entry /\ locked = FALSE
  /\ breakpoints = {} /\ command = "none" /\ left = 0 /\ limit = 0

AtPrompt == call = "none" /\ command = "none"

\* One instruction leads anywhere. The last one either stops the processor or locks
\* it up; a dead one still takes interrupts if IME is set.
CpuMoves ==
  /\ pc' \in Addresses
  /\ locked' \in {l \in BOOLEAN : (l => dead') /\ (dead => l = locked)}

-----------------------------------------------------------------------------
(* The prompt. *)

\* f and t, and the calls of any other front end.
Call == /\ command = "none"
        /\ BeginFrame \/ \E n \in RunCycles : BeginCycles(n)
        /\ UNCHANGED <<cpu, dbg>>

ResetCommand == command = "none" /\ Reset /\ pc' = Entry /\ locked' = FALSE /\ UNCHANGED dbg

SetBreakpoint(a) ==
  /\ AtPrompt
  /\ breakpoints' = breakpoints \cup {a}
  /\ UNCHANGED <<vars, cpu, command, left, limit>>

DeleteBreakpoint(a) ==
  /\ AtPrompt
  /\ breakpoints' = breakpoints \ {a}
  /\ UNCHANGED <<vars, cpu, command, left, limit>>

\* w: a store outside of time; the one that matters here switches the screen.
PokeScreen ==
  /\ AtPrompt
  /\ lcdOn' = ~lcdOn /\ beam' = 0
  /\ UNCHANGED <<doubleSpeed, remainder, frameReady, dead, call, budget, ended, imageDone,
                 screenOff, foreign, cpu, dbg>>

\* What is left of the last call is no part of a command's loop.
Loop(name) ==
  /\ AtPrompt
  /\ command' = name
  /\ budget' = 0 /\ ended' = "none" /\ imageDone' = FALSE /\ screenOff' = FALSE
  /\ foreign' = (foreign /\ frameReady)
  /\ UNCHANGED <<machine, call, cpu, breakpoints>>

Steps(n) == Loop("steps") /\ left' = n /\ UNCHANGED limit

\* c is refused without a breakpoint.
Continue ==
  breakpoints # {} /\ Loop("continue") /\ limit' = ContinueLimit /\ UNCHANGED left

-----------------------------------------------------------------------------
(* The loops. *)

\* A turn of the machine's own loops.
CallTurn(t, on, fast, dies) ==
  (FrameStep(t, on, fast, dies) \/ CyclesStep(t, on, fast, dies)) /\ CpuMoves /\ UNCHANGED dbg
CallEnds == CyclesDone /\ UNCHANGED <<cpu, dbg>>

\* step_once.
StepOnce(t, on, fast, dies) ==
  /\ Lives(on, fast, dies) /\ StepMachine(t, on, fast, dies) /\ CpuMoves
  /\ frameReady' = (frameReady \/ ImageWithin(ClockAfter(t, fast).sys))
  /\ foreign' = (foreign \/ ImageWithin(ClockAfter(t, fast).sys))
  /\ UNCHANGED <<call, budget, ended, imageDone, screenOff, breakpoints>>

StepsTurn(t, on, fast, dies) ==
  /\ command = "steps" /\ StepOnce(t, on, fast, dies)
  /\ left' = IF locked' THEN 0 ELSE left - 1
  /\ command' = IF left' = 0 THEN "none" ELSE command
  /\ UNCHANGED limit

\* CPU cycles of a step that leaves the machine at speed fast.
CpuCycles(t, fast) == IF fast = doubleSpeed THEN t ELSE t + SwitchPause

\* A breakpoint is looked for after each instruction, so that c leaves the one it
\* stands on. Only an illegal opcode ends the loop: a processor that is stopped runs
\* into the limit.
ContinueTurn(t, on, fast, dies) ==
  /\ command = "continue" /\ StepOnce(t, on, fast, dies)
  /\ IF locked' \/ pc' \in breakpoints \/ limit <= CpuCycles(t, fast)
       THEN command' = "none" /\ limit' = 0
       ELSE UNCHANGED command /\ limit' = limit - CpuCycles(t, fast)
  /\ UNCHANGED left

DTurn ==
  \/ \E t \in StepCycles, on, fast, dies \in BOOLEAN :
       \/ CallTurn(t, on, fast, dies)
       \/ StepsTurn(t, on, fast, dies)
       \/ ContinueTurn(t, on, fast, dies)
  \/ CallEnds

DNext ==
  \/ Call \/ ResetCommand \/ PokeScreen \/ Continue
  \/ \E a \in BreakAt : SetBreakpoint(a) \/ DeleteBreakpoint(a)
  \/ \E n \in StepCounts : Steps(n)
  \/ DTurn

\* A loop that has been entered keeps turning.
DSpec == DInit /\ [][DNext]_dvars /\ WF_dvars(DTurn)

-----------------------------------------------------------------------------

(***************************************************************************)
(* run_frame, run_system_cycles and the loops of s and c always return,    *)
(* with the screen off, with a program that keeps switching it, with a     *)
(* processor that is stopped and with a breakpoint that is never reached   *)
(* (gameboy.cpp:62-75, debugger.cpp:272).                                  *)
(***************************************************************************)
CallsReturn == call # "none" \/ command # "none" ~> AtPrompt
=============================================================================
