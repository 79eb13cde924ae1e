-------------------------------- MODULE Timer --------------------------------
(***************************************************************************)
(* DIV, TIMA, TMA and TAC: src/core/timer.cpp, driven by Bus::tick and by  *)
(* the bus accesses of the CPU (src/core/bus.cpp).                         *)
(*                                                                         *)
(* One internal counter advances on every T cycle; TIMA counts the falling *)
(* edges of one bit of it ANDed with the enable bit of TAC. Every access   *)
(* of the CPU is Bus::tick(4) followed by the access itself, so BeginTick  *)
(* starts the four cycles, TickOne runs one of them, and a register write  *)
(* may follow once they have run.                                          *)
(***************************************************************************)
EXTENDS Naturals

CONSTANTS
  CounterMod,    \* the internal counter counts modulo this (2^16)
  BitWeight,     \* BitWeight[s] is the weight of the bit TAC value s watches
  TimaMod,       \* TIMA and TMA count modulo this (2^8)
  ResetCounters  \* where the boot sequence of a model leaves the counter

(***************************************************************************)
(* The lowest bit TAC can watch is bit 3. A bit whose half period is one   *)
(* machine cycle would already break WindowAligned.                        *)
(***************************************************************************)
ASSUME TimerAssumption ==
  /\ CounterMod \in Nat /\ CounterMod > 0 /\ CounterMod % 4 = 0
  /\ DOMAIN BitWeight = 0 .. 3
  /\ \A s \in 0 .. 3 :
       /\ BitWeight[s] \in Nat /\ BitWeight[s] > 0
       /\ BitWeight[s] % 8 = 0 /\ CounterMod % (2 * BitWeight[s]) = 0
  /\ TimaMod \in Nat /\ TimaMod > 1
  /\ ResetCounters \subseteq {c \in 0 .. CounterMod - 1 : c % 4 = 0}

VARIABLES
  counter,       \* counter_: DIV is its upper byte
  tima, tma,     \* tima_, tma_
  tac,           \* tac_, its three writable bits
  lastSignal,    \* last_signal_: the edge detector's memory
  reloadDelay,   \* reload_delay_: cycles before TMA is copied into TIMA
  left,          \* cycles the current Bus::tick still has to run
  access,        \* the CPU may still make the access this tick was paid for
  intFlag        \* the timer's bit of IF

vars == <<counter, tima, tma, tac, lastSignal, reloadDelay, left, access, intFlag>>

\* Mutant: the reload is counted from the cycle after the overflow.
ReloadDelayOneLate == 5

ReloadDelay == 4
CyclesPerMCycle == 4

Enabled(t) == t >= 4
EdgeSignal(c, t) == Enabled(t) /\ (c \div BitWeight[t % 4]) % 2 = 1

Init ==
  /\ counter \in ResetCounters
  /\ tima = 0 /\ tma = 0 /\ tac = 0
  /\ lastSignal = EdgeSignal(counter, tac)
  /\ reloadDelay = 0
  /\ left = 0 /\ access = FALSE
  /\ intFlag = FALSE

\* Mutant: the overflow test looks at the value before the increment.
DetectEdgeOverflowOffByOne(c, t, base, delay) ==
  LET falls == lastSignal /\ ~EdgeSignal(c, t)
  IN  /\ counter' = c /\ tac' = t
      /\ lastSignal' = EdgeSignal(c, t)
      /\ tima' = IF falls THEN (base + 1) % TimaMod ELSE base
      /\ reloadDelay' = IF falls /\ base = TimaMod THEN ReloadDelay ELSE delay

(***************************************************************************)
(* The edge detector, which a cycle and a write to DIV or TAC both end in: *)
(* the counter becomes c and TAC becomes t; base is the value of TIMA and  *)
(* delay the reload delay when the detector runs.                          *)
(***************************************************************************)
DetectEdge(c, t, base, delay) ==
  LET falls == lastSignal /\ ~EdgeSignal(c, t)
  IN  /\ counter' = c
      /\ tac' = t
      /\ lastSignal' = EdgeSignal(c, t)
      /\ tima' = IF falls THEN (base + 1) % TimaMod ELSE base
      /\ reloadDelay' = IF falls /\ base = TimaMod - 1 THEN ReloadDelay ELSE delay

\* Bus::read and Bus::write pay for the access before they make it.
BeginTick ==
  /\ left = 0
  /\ left' = CyclesPerMCycle
  /\ access' = TRUE
  /\ UNCHANGED <<counter, tima, tma, tac, lastSignal, reloadDelay, intFlag>>

\* One cycle: a reload that is due comes first, then the counter, then the edge.
TickOne ==
  /\ left > 0
  /\ left' = left - 1
  /\ LET reload == reloadDelay = 1
     IN  /\ DetectEdge((counter + 1) % CounterMod, tac,
                       IF reload THEN tma ELSE tima,
                       IF reloadDelay > 0 THEN reloadDelay - 1 ELSE 0)
         /\ intFlag' = (intFlag \/ reload)
  /\ UNCHANGED <<tma, access>>

\* The access of this machine cycle is a write to a timer register.
Access == left = 0 /\ access /\ access' = FALSE /\ UNCHANGED <<left, intFlag>>

\* Mutant: DIV returns before the edge detector, as TIMA and TMA do.
WriteDivEarlyReturn ==
  /\ Access
  /\ counter' = 0
  /\ UNCHANGED <<tima, tma, tac, lastSignal, reloadDelay>>

WriteDiv ==
  /\ Access
  /\ DetectEdge(0, tac, tima, reloadDelay)
  /\ UNCHANGED tma

\* Mutant: the edge detector is only refreshed, without counting.
WriteTacNoEdge(v) ==
  /\ Access
  /\ tac' = v
  /\ lastSignal' = EdgeSignal(counter, v)
  /\ UNCHANGED <<counter, tima, tma, reloadDelay>>

WriteTac(v) ==
  /\ Access
  /\ DetectEdge(counter, v, tima, reloadDelay)
  /\ UNCHANGED tma

\* Inside the window this cancels both the reload and its interrupt.
WriteTima(v) ==
  /\ Access
  /\ tima' = v
  /\ reloadDelay' = 0
  /\ UNCHANGED <<counter, tma, tac, lastSignal>>

WriteTma(v) ==
  /\ Access
  /\ tma' = v
  /\ tima' = IF reloadDelay > 0 THEN v ELSE tima
  /\ UNCHANGED <<counter, tac, lastSignal, reloadDelay>>

\* The CPU dispatches the interrupt, or the program clears its bit of IF.
Acknowledge ==
  /\ left = 0 /\ intFlag
  /\ intFlag' = FALSE
  /\ UNCHANGED <<counter, tima, tma, tac, lastSignal, reloadDelay, left, access>>

\* GameBoy::reset, between two instructions.
Reset ==
  /\ left = 0
  /\ counter' \in ResetCounters
  /\ tima' = 0 /\ tma' = 0 /\ tac' = 0
  /\ lastSignal' = EdgeSignal(counter', tac')
  /\ reloadDelay' = 0
  /\ left' = 0 /\ access' = FALSE
  /\ intFlag' = FALSE

Next ==
  \/ BeginTick
  \/ TickOne
  \/ WriteDiv
  \/ \E v \in 0 .. 7 : WriteTac(v)
  \/ \E v \in 0 .. TimaMod - 1 : WriteTima(v) \/ WriteTma(v)
  \/ Acknowledge
  \/ Reset

Spec == Init /\ [][Next]_vars

\* The emulator never stops ticking: Cpu::step spends at least one cycle.
Fairness == WF_vars(BeginTick) /\ WF_vars(TickOne)
FairSpec == Spec /\ Fairness

-----------------------------------------------------------------------------

TypeOK ==
  /\ counter \in 0 .. CounterMod - 1
  /\ tima \in 0 .. TimaMod - 1
  /\ tma \in 0 .. TimaMod - 1
  /\ tac \in 0 .. 7
  /\ lastSignal \in BOOLEAN
  /\ reloadDelay \in 0 .. ReloadDelay
  /\ left \in 0 .. CyclesPerMCycle
  /\ access \in BOOLEAN
  /\ intFlag \in BOOLEAN

(***************************************************************************)
(* The edge detector never remembers a signal the registers no longer      *)
(* give. Timer::write returns early for TIMA and TMA and falls through to  *)
(* the detector for DIV and TAC: a register written on the wrong side of   *)
(* that split would leave a stale memory, and count an edge that never     *)
(* happened or miss one that did.                                          *)
(***************************************************************************)
DetectorFresh == lastSignal = EdgeSignal(counter, tac)

(***************************************************************************)
(* The reload window is one whole machine cycle wherever the overflow came *)
(* from: whenever the CPU can look, the window has either not been started *)
(* or is over. This rests on the phase of the internal counter surviving   *)
(* resets of DIV, and on no watched bit falling inside a machine cycle.    *)
(***************************************************************************)
WindowAligned ==
  /\ (counter + left) % 4 = 0
  /\ left = 0 => reloadDelay \in {0, ReloadDelay}
  /\ reloadDelay > 0 => (left = 0 \/ reloadDelay = left)

(***************************************************************************)
(* An enabled timer that is left alone keeps requesting its interrupt,     *)
(* whatever was done to its registers before.                              *)
(***************************************************************************)
LeftAloneItFires ==
  <>[][BeginTick \/ TickOne \/ Acknowledge]_vars /\ <>[]Enabled(tac) => []<>intFlag

(***************************************************************************)
(* The per-clock implementation is the per-machine-cycle timer.            *)
(***************************************************************************)
Machine == INSTANCE MachineTimer WITH
  mclock     <- counter \div 4,
  window     <- reloadDelay > 0,
  MachineMod <- CounterMod \div 4,
  HalfPeriod <- [s \in 0 .. 3 |-> BitWeight[s] \div 4],
  StartAt    <- {c \div 4 : c \in ResetCounters}

ImplementsMachineTimer == Machine!Spec
=============================================================================
