---------------------------- MODULE MachineTimer ----------------------------
(***************************************************************************)
(* What the timer promises to a program, which can only look at it once    *)
(* per machine cycle: the comments of timer.hpp and decision D27 stated    *)
(* without an edge detector and without a per-clock delay.                 *)
(*                                                                         *)
(*   - TIMA counts once every period of the selected bit, and once more    *)
(*     when a write to DIV or TAC makes the watched bit fall;              *)
(*   - a count past the top leaves 0x00 for exactly one machine cycle, in  *)
(*     which nothing else can count; then TMA is copied in and the         *)
(*     interrupt is requested, unless TIMA was written in between.         *)
(*                                                                         *)
(* Timer.tla, the translation of timer.cpp, implements this module.        *)
(***************************************************************************)
EXTENDS Naturals

CONSTANTS
  MachineMod,   \* machine cycles before the internal counter wraps
  HalfPeriod,   \* HalfPeriod[s]: machine cycles the bit selected by s stays high
  TimaMod,      \* TIMA counts modulo this
  StartAt       \* where the boot sequence leaves the internal counter

VARIABLES
  mclock,       \* the internal counter, in machine cycles
  tima, tma,
  tac,          \* bit 2 enables, bits 0-1 select
  window,       \* TIMA overflowed and has not been reloaded yet
  intFlag       \* the timer's bit of IF

abstractVars == <<mclock, tima, tma, tac, window, intFlag>>

Enabled(t) == t >= 4
High(m, t) == Enabled(t) /\ (m \div HalfPeriod[t % 4]) % 2 = 1

\* TIMA counts one, and opens the reload window when it passes the top.
Count ==
  /\ tima' = (tima + 1) % TimaMod
  /\ window' = (window \/ tima = TimaMod - 1)

Keep == UNCHANGED <<tima, window>>

Init ==
  /\ mclock \in StartAt
  /\ tima = 0 /\ tma = 0 /\ tac = 0
  /\ window = FALSE /\ intFlag = FALSE

\* One machine cycle. The window closes before anything can count in it.
MachineCycle ==
  /\ mclock' = (mclock + 1) % MachineMod
  /\ IF window
       THEN tima' = tma /\ intFlag' = TRUE /\ window' = FALSE
       ELSE /\ IF High(mclock, tac) /\ ~High(mclock', tac) THEN Count ELSE Keep
            /\ UNCHANGED intFlag
  /\ UNCHANGED <<tma, tac>>

WriteDiv ==
  /\ mclock' = 0
  /\ IF High(mclock, tac) THEN Count ELSE Keep
  /\ UNCHANGED <<tma, tac, intFlag>>

WriteTac(v) ==
  /\ tac' = v
  /\ IF High(mclock, tac) /\ ~High(mclock, v) THEN Count ELSE Keep
  /\ UNCHANGED <<mclock, tma, intFlag>>

WriteTima(v) ==
  /\ tima' = v /\ window' = FALSE
  /\ UNCHANGED <<mclock, tma, tac, intFlag>>

WriteTma(v) ==
  /\ tma' = v
  /\ tima' = IF window THEN v ELSE tima
  /\ UNCHANGED <<mclock, tac, window, intFlag>>

Acknowledge ==
  /\ intFlag' = FALSE
  /\ UNCHANGED <<mclock, tima, tma, tac, window>>

Reset ==
  /\ mclock' \in StartAt
  /\ tima' = 0 /\ tma' = 0 /\ tac' = 0
  /\ window' = FALSE /\ intFlag' = FALSE

Next ==
  \/ MachineCycle
  \/ WriteDiv
  \/ \E v \in 0 .. 7 : WriteTac(v)
  \/ \E v \in 0 .. TimaMod - 1 : WriteTima(v) \/ WriteTma(v)
  \/ Acknowledge
  \/ Reset

Spec == Init /\ [][Next]_abstractVars
=============================================================================
