----------------------------- MODULE TimerProofs -----------------------------
(***************************************************************************)
(* Timer: type correctness, the freshness of the edge detector, the        *)
(* alignment of the reload window, and the implementation of MachineTimer, *)
(* for every width of the counter and of TIMA and every choice of watched  *)
(* bits of at least 8 cycles' weight.                                      *)
(*                                                                         *)
(* The window starts and ends on machine cycle boundaries because a bit of *)
(* weight 8 or more only changes when the counter becomes a multiple of 4  *)
(* (SignalSteady), and because the counter is a multiple of 4 whenever the *)
(* CPU can reset it. WindowAligned states both facts and is inductive.     *)
(*                                                                         *)
(* The refinement needs one more: that no edge falls in the cycle a window *)
(* closes (QuietWindow), for the abstract timer does not count there.      *)
(***************************************************************************)
EXTENDS Timer, TLAPS

LEMMA Weights ==
  ASSUME NEW t \in 0 .. 7
  PROVE  /\ t % 4 \in 0 .. 3
         /\ BitWeight[t % 4] \in Nat /\ BitWeight[t % 4] > 0
         /\ BitWeight[t % 4] % 8 = 0
         /\ CounterMod % (2 * BitWeight[t % 4]) = 0
<1>1. t % 4 \in 0 .. 3
  OBVIOUS
<1> QED
  BY <1>1, TimerAssumption

\* A quotient only changes where the divisor is passed.
LEMMA QuotientSteady ==
  ASSUME NEW c \in Nat, NEW w \in Nat, w > 0, w % 8 = 0, (c + 1) % 4 # 0
  PROVE  (c + 1) \div w = c \div w
<1> DEFINE q == c \div w
           r == c % w
<1>1. q \in Nat /\ r \in 0 .. w - 1 /\ c = w * q + r
  OBVIOUS
<1>2. r + 1 # w
  <2> SUFFICES ASSUME r + 1 = w PROVE (c + 1) % 4 = 0
    OBVIOUS
  <2>1. PICK k \in Nat : w = 8 * k
    <3>1. w = 8 * (w \div 8) /\ w \div 8 \in Nat
      OBVIOUS
    <3> QED
      BY <3>1
  <2>2. c + 1 = w * (q + 1)
    BY <1>1
  <2>3. c + 1 = 8 * (k * (q + 1)) /\ k * (q + 1) \in Nat
    BY <1>1, <2>1, <2>2
  <2> HIDE DEF q, r
  <2>4. PICK m \in Nat : c + 1 = 8 * m
    BY <2>3
  <2> QED
    BY <2>4
<1>3. c + 1 = w * q + (r + 1) /\ r + 1 \in 0 .. w - 1
  BY <1>1, <1>2
<1> QED
  BY <1>1, <1>3

\* At the top of the counter a machine cycle ends, so no bit is passed there.
LEMMA SignalSteady ==
  ASSUME NEW c \in 0 .. CounterMod - 1, NEW t \in 0 .. 7, (c + 1) % 4 # 0
  PROVE  EdgeSignal((c + 1) % CounterMod, t) <=> EdgeSignal(c, t)
<1>1. c + 1 # CounterMod
  BY TimerAssumption
<1>2. (c + 1) % CounterMod = c + 1
  BY <1>1, TimerAssumption
<1>3. (c + 1) \div BitWeight[t % 4] = c \div BitWeight[t % 4]
  BY Weights, QuotientSteady, TimerAssumption
<1> QED
  BY <1>2, <1>3 DEF EdgeSignal

-----------------------------------------------------------------------------
(* Type correctness. *)

LEMMA SignalIsBoolean ==
  ASSUME NEW c, NEW t
  PROVE  EdgeSignal(c, t) \in BOOLEAN
BY DEF EdgeSignal, Enabled

LEMMA DetectEdgeType ==
  ASSUME NEW c \in 0 .. CounterMod - 1, NEW t \in 0 .. 7,
         NEW base \in 0 .. TimaMod - 1, NEW delay \in 0 .. ReloadDelay,
         DetectEdge(c, t, base, delay)
  PROVE  /\ counter' \in 0 .. CounterMod - 1 /\ tac' \in 0 .. 7
         /\ lastSignal' \in BOOLEAN
         /\ tima' \in 0 .. TimaMod - 1
         /\ reloadDelay' \in 0 .. ReloadDelay
<1>1. lastSignal' \in BOOLEAN
  BY SignalIsBoolean DEF DetectEdge
<1>2. counter' \in 0 .. CounterMod - 1 /\ tac' \in 0 .. 7
  BY DEF DetectEdge
<1>3. tima' \in 0 .. TimaMod - 1
  BY TimerAssumption DEF DetectEdge
<1>4. reloadDelay' \in 0 .. ReloadDelay
  BY DEF DetectEdge, ReloadDelay
<1> QED
  BY <1>1, <1>2, <1>3, <1>4

LEMMA InitType == Init => TypeOK
<1> SUFFICES ASSUME Init PROVE TypeOK
  OBVIOUS
<1>1. lastSignal \in BOOLEAN
  BY SignalIsBoolean DEF Init
<1>2. counter \in 0 .. CounterMod - 1
  BY TimerAssumption DEF Init
<1>3. /\ tima \in 0 .. TimaMod - 1 /\ tma \in 0 .. TimaMod - 1 /\ tac \in 0 .. 7
      /\ reloadDelay \in 0 .. ReloadDelay /\ left \in 0 .. CyclesPerMCycle
  BY TimerAssumption DEF Init, ReloadDelay, CyclesPerMCycle
<1>4. access \in BOOLEAN /\ intFlag \in BOOLEAN
  BY DEF Init
<1> QED
  BY <1>1, <1>2, <1>3, <1>4 DEF TypeOK

LEMMA StepType == TypeOK /\ [Next]_vars => TypeOK'
<1> SUFFICES ASSUME TypeOK, [Next]_vars PROVE TypeOK'
  OBVIOUS
<1> USE DEF TypeOK, CyclesPerMCycle, Access
<1>1. CASE BeginTick
  BY <1>1 DEF BeginTick
<1>2. CASE TickOne
  <2> DEFINE base  == IF reloadDelay = 1 THEN tma ELSE tima
             delay == IF reloadDelay > 0 THEN reloadDelay - 1 ELSE 0
  <2>1. (counter + 1) % CounterMod \in 0 .. CounterMod - 1
    BY TimerAssumption
  <2>2. base \in 0 .. TimaMod - 1 /\ delay \in 0 .. ReloadDelay
    BY DEF ReloadDelay
  <2>3. DetectEdge((counter + 1) % CounterMod, tac, base, delay)
    BY <1>2 DEF TickOne
  <2> HIDE DEF base, delay
  <2>4. /\ counter' \in 0 .. CounterMod - 1 /\ tac' \in 0 .. 7
        /\ lastSignal' \in BOOLEAN
        /\ tima' \in 0 .. TimaMod - 1 /\ reloadDelay' \in 0 .. ReloadDelay
    BY <2>1, <2>2, <2>3, DetectEdgeType
  <2>5. intFlag' \in BOOLEAN /\ access' \in BOOLEAN
    BY <1>2 DEF TickOne
  <2>6. left' \in 0 .. CyclesPerMCycle /\ tma' \in 0 .. TimaMod - 1
    BY <1>2 DEF TickOne
  <2> QED
    BY <2>4, <2>5, <2>6
<1>3. CASE WriteDiv
  <2>1. DetectEdge(0, tac, tima, reloadDelay)
    BY <1>3 DEF WriteDiv
  <2>2. 0 \in 0 .. CounterMod - 1
    BY TimerAssumption
  <2>3. /\ counter' \in 0 .. CounterMod - 1 /\ tac' \in 0 .. 7
        /\ lastSignal' \in BOOLEAN
        /\ tima' \in 0 .. TimaMod - 1 /\ reloadDelay' \in 0 .. ReloadDelay
    BY <2>1, <2>2, DetectEdgeType
  <2> QED
    BY <1>3, <2>3 DEF WriteDiv
<1>4. ASSUME NEW v \in 0 .. 7, WriteTac(v) PROVE TypeOK'
  <2>1. DetectEdge(counter, v, tima, reloadDelay)
    BY <1>4 DEF WriteTac
  <2>2. /\ counter' \in 0 .. CounterMod - 1 /\ tac' \in 0 .. 7
        /\ lastSignal' \in BOOLEAN
        /\ tima' \in 0 .. TimaMod - 1 /\ reloadDelay' \in 0 .. ReloadDelay
    BY <2>1, DetectEdgeType
  <2> QED
    BY <1>4, <2>2 DEF WriteTac
<1>5. ASSUME NEW v \in 0 .. TimaMod - 1, WriteTima(v) PROVE TypeOK'
  BY <1>5 DEF WriteTima, ReloadDelay
<1>6. ASSUME NEW v \in 0 .. TimaMod - 1, WriteTma(v) PROVE TypeOK'
  BY <1>6 DEF WriteTma
<1>7. CASE Acknowledge
  BY <1>7 DEF Acknowledge
<1>8. CASE Reset
  <2>1. counter' \in 0 .. CounterMod - 1
    BY <1>8, TimerAssumption DEF Reset
  <2>2. lastSignal' \in BOOLEAN
    BY <1>8, SignalIsBoolean DEF Reset
  <2>3. /\ tima' \in 0 .. TimaMod - 1 /\ tma' \in 0 .. TimaMod - 1 /\ tac' \in 0 .. 7
        /\ reloadDelay' \in 0 .. ReloadDelay /\ left' \in 0 .. CyclesPerMCycle
    BY <1>8, TimerAssumption DEF Reset, ReloadDelay
  <2>4. access' \in BOOLEAN /\ intFlag' \in BOOLEAN
    BY <1>8 DEF Reset
  <2> QED
    BY <2>1, <2>2, <2>3, <2>4
<1>9. CASE UNCHANGED vars
  BY <1>9 DEF vars
<1> QED
  BY <1>1, <1>2, <1>3, <1>4, <1>5, <1>6, <1>7, <1>8, <1>9 DEF Next

(***************************************************************************)
(* Every timer register keeps its width, through overflow and reload.      *)
(***************************************************************************)
THEOREM TimerTypeCorrect == Spec => []TypeOK
  BY InitType, StepType, PTL DEF Spec

-----------------------------------------------------------------------------
(* The edge detector. *)

LEMMA StepDetector == DetectorFresh /\ [Next]_vars => DetectorFresh'
<1> SUFFICES ASSUME DetectorFresh, [Next]_vars PROVE DetectorFresh'
  OBVIOUS
<1>1. ASSUME NEW c, NEW t, NEW base, NEW delay, DetectEdge(c, t, base, delay)
      PROVE  DetectorFresh'
  BY <1>1 DEF DetectEdge, DetectorFresh
<1>2. CASE TickOne
  BY <1>1, <1>2 DEF TickOne
<1>3. CASE WriteDiv
  BY <1>1, <1>3 DEF WriteDiv
<1>4. ASSUME NEW v \in 0 .. 7, WriteTac(v) PROVE DetectorFresh'
  BY <1>1, <1>4 DEF WriteTac
<1>5. ASSUME UNCHANGED <<counter, tac, lastSignal>> PROVE DetectorFresh'
  BY <1>5 DEF DetectorFresh
<1>6. CASE BeginTick \/ Acknowledge \/ UNCHANGED vars
  BY <1>5, <1>6 DEF BeginTick, Acknowledge, vars
<1>7. ASSUME NEW v \in 0 .. TimaMod - 1, WriteTima(v) \/ WriteTma(v) PROVE DetectorFresh'
  BY <1>5, <1>7 DEF WriteTima, WriteTma
<1>8. CASE Reset
  BY <1>8 DEF Reset, DetectorFresh
<1> QED
  BY <1>2, <1>3, <1>4, <1>6, <1>7, <1>8 DEF Next

(***************************************************************************)
(* The early returns of Timer::write leave no stale edge memory.           *)
(***************************************************************************)
THEOREM TimerDetectorFresh == Spec => []DetectorFresh
<1>1. Init => DetectorFresh
  BY DEF Init, DetectorFresh
<1> QED
  BY <1>1, StepDetector, PTL DEF Spec

-----------------------------------------------------------------------------
(* The reload window. *)

AlignInv == TypeOK /\ DetectorFresh /\ WindowAligned

LEMMA ResetAligned ==
  ASSUME NEW c \in ResetCounters
  PROVE  c \in Nat /\ c % 4 = 0
BY TimerAssumption

LEMMA InitAligned == Init => AlignInv
<1>0. Init => DetectorFresh
  BY DEF Init, DetectorFresh
<1> SUFFICES ASSUME Init PROVE WindowAligned
  BY <1>0, InitType DEF AlignInv
<1>1. counter \in Nat /\ counter % 4 = 0
  BY ResetAligned DEF Init
<1>2. left = 0 /\ reloadDelay = 0
  BY DEF Init
<1> QED
  BY <1>1, <1>2 DEF WindowAligned, ReloadDelay

LEMMA FreshWindow ==
  ASSUME NEW c \in Nat, c % 4 = 0, counter' = c, left' = 0, reloadDelay' = 0
  PROVE  WindowAligned'
BY DEF WindowAligned

\* The detector either keeps the delay it is given or starts a whole window.
LEMMA DetectEdgeDelay ==
  ASSUME NEW c, NEW t, NEW base, NEW delay, DetectEdge(c, t, base, delay)
  PROVE  reloadDelay' = delay \/ (reloadDelay' = ReloadDelay /\ lastSignal /\ ~EdgeSignal(c, t))
BY DEF DetectEdge

LEMMA StepAligned == AlignInv /\ [Next]_vars => WindowAligned'
<1> SUFFICES ASSUME TypeOK, DetectorFresh, WindowAligned, [Next]_vars PROVE WindowAligned'
  BY DEF AlignInv
<1> USE DEF WindowAligned, ReloadDelay, CyclesPerMCycle
<1>0. /\ counter \in 0 .. CounterMod - 1 /\ tac \in 0 .. 7
      /\ left \in 0 .. 4 /\ reloadDelay \in 0 .. 4
  BY DEF TypeOK
<1>1. CASE BeginTick
  BY <1>0, <1>1 DEF BeginTick
<1>2. CASE TickOne
  <2> DEFINE delay == IF reloadDelay > 0 THEN reloadDelay - 1 ELSE 0
             base  == IF reloadDelay = 1 THEN tma ELSE tima
  <2>1. DetectEdge((counter + 1) % CounterMod, tac, base, delay)
    BY <1>2 DEF TickOne
  <2>2. counter' = (counter + 1) % CounterMod /\ left' = left - 1 /\ left > 0
    BY <1>2 DEF TickOne, DetectEdge
  <2>3. counter' % 4 = (counter + 1) % 4
    <3>1. CASE counter + 1 = CounterMod
      BY <1>0, <2>2, <3>1, TimerAssumption
    <3>2. CASE counter + 1 < CounterMod
      BY <1>0, <2>2, <3>2, TimerAssumption
    <3> QED
      BY <1>0, <3>1, <3>2, TimerAssumption
  <2>4. counter' \in Nat
    BY <1>0, <2>2, TimerAssumption
  <2>5. (counter' + left') % 4 = 0
    BY <1>0, <2>2, <2>3, <2>4
  <2>6. delay = left' \/ delay = 0
    BY <1>0, <2>2
  <2>7. CASE reloadDelay' = delay
    BY <1>0, <2>2, <2>5, <2>6, <2>7
  <2>8. CASE reloadDelay' = ReloadDelay /\ lastSignal /\ ~EdgeSignal(counter', tac)
    <3>1. (counter + 1) % 4 = 0
      BY <1>0, <2>2, <2>8, SignalSteady DEF DetectorFresh
    <3>2. left' = 0
      BY <1>0, <2>2, <2>3, <2>4, <2>5, <3>1
    <3> QED
      BY <2>5, <2>8, <3>2
  <2> HIDE DEF delay, base
  <2> QED
    BY <2>1, <2>2, <2>7, <2>8, DetectEdgeDelay
<1>3. CASE WriteDiv
  <2>1. reloadDelay' \in {reloadDelay, ReloadDelay} /\ counter' = 0
    BY <1>3 DEF WriteDiv, DetectEdge
  <2>2. left = 0 /\ left' = 0
    BY <1>3 DEF WriteDiv, Access
  <2> QED
    BY <1>0, <2>1, <2>2
<1>4. ASSUME NEW v \in 0 .. 7, WriteTac(v) PROVE WindowAligned'
  <2>1. reloadDelay' \in {reloadDelay, ReloadDelay} /\ counter' = counter
    BY <1>4 DEF WriteTac, DetectEdge
  <2>2. left = 0 /\ left' = 0
    BY <1>4 DEF WriteTac, Access
  <2> QED
    BY <1>0, <2>1, <2>2
<1>5. ASSUME NEW v \in 0 .. TimaMod - 1, WriteTima(v) \/ WriteTma(v) PROVE WindowAligned'
  BY <1>0, <1>5 DEF WriteTima, WriteTma, Access
<1>6. CASE Acknowledge
  BY <1>6 DEF Acknowledge
<1>7. CASE Reset
  <2>1. counter' \in ResetCounters /\ left' = 0 /\ reloadDelay' = 0
    BY <1>7 DEF Reset
  <2>2. counter' \in Nat /\ counter' % 4 = 0
    BY <2>1, ResetAligned
  <2> QED
    BY <2>1, <2>2, FreshWindow
<1>8. CASE UNCHANGED vars
  BY <1>8 DEF vars
<1> QED
  BY <1>1, <1>2, <1>3, <1>4, <1>5, <1>6, <1>7, <1>8 DEF Next

(***************************************************************************)
(* Whenever the CPU can look at the timer, the reload window is closed or  *)
(* has just opened, wherever the overflow came from.                       *)
(***************************************************************************)
THEOREM TimerWindowAligned == Spec => []WindowAligned
<1>1. Init => AlignInv
  BY InitAligned
<1>2. AlignInv /\ [Next]_vars => AlignInv'
  BY StepType, StepDetector, StepAligned DEF AlignInv
<1>3. AlignInv => WindowAligned
  BY DEF AlignInv
<1> QED
  BY <1>1, <1>2, <1>3, PTL DEF Spec

-----------------------------------------------------------------------------
(* The timer a program sees. *)

\* A quotient of a quotient.
LEMMA QuotientOfQuotient ==
  ASSUME NEW c \in Nat, NEW h \in Nat, h > 0
  PROVE  (c \div 4) \div h = c \div (4 * h)
<1> DEFINE m == c \div 4
           q == m \div h
           r == m % h
<1>1. m \in Nat /\ c - 4 * m \in 0 .. 3
  OBVIOUS
<1>2. q \in Nat /\ r \in 0 .. h - 1 /\ m = h * q + r
  BY <1>1
<1>3. c = (4 * h) * q + (4 * r + (c - 4 * m))
  BY <1>1, <1>2
<1>4. 4 * r + (c - 4 * m) \in 0 .. 4 * h - 1
  BY <1>1, <1>2
<1>5. 4 * h \in Nat /\ 4 * h > 0
  OBVIOUS
<1> HIDE DEF m, q, r
<1>6. \A w, k, d \in Nat : w > 0 /\ d < w => (w * k + d) \div w = k
  OBVIOUS
<1>7. c \div (4 * h) = q
  BY <1>1, <1>2, <1>3, <1>4, <1>5, <1>6
<1> QED
  BY <1>7 DEF q, m

\* What is divisible by a multiple of 8 is divisible by 8.
LEMMA MultiplesOf16 ==
  ASSUME NEW c \in Nat, NEW w \in Nat, w > 0, w % 8 = 0, NEW q \in Nat, c = (2 * w) * q
  PROVE  c % 16 = 0
<1>1. w = 8 * (w \div 8) /\ w \div 8 \in Nat
  OBVIOUS
<1>2. c = 16 * ((w \div 8) * q) /\ (w \div 8) * q \in Nat
  BY <1>1
<1>3. \A k \in Nat : (16 * k) % 16 = 0
  OBVIOUS
<1> QED
  BY <1>2, <1>3

LEMMA CounterModBy16 == CounterMod % 16 = 0
<1> DEFINE w == BitWeight[0]
<1>1. w \in Nat /\ w > 0 /\ w % 8 = 0 /\ CounterMod % (2 * w) = 0 /\ CounterMod \in Nat
  BY TimerAssumption
<1> HIDE DEF w
<1>2. CounterMod = (2 * w) * (CounterMod \div (2 * w)) /\ CounterMod \div (2 * w) \in Nat
  BY <1>1
<1> QED
  BY <1>1, <1>2, MultiplesOf16

\* The signal as the registers give it is the one the machine cycle gives.
LEMMA SignalIsHigh ==
  ASSUME NEW c \in Nat, NEW t \in 0 .. 7
  PROVE  EdgeSignal(c, t) <=> Machine!High(c \div 4, t)
<1> DEFINE w == BitWeight[t % 4]
           h == w \div 4
<1>1. t % 4 \in 0 .. 3 /\ w \in Nat /\ w > 0 /\ w % 8 = 0
  BY Weights
<1>2. h \in Nat /\ h > 0 /\ w = 4 * h
  BY <1>1
<1>3. [s \in 0 .. 3 |-> BitWeight[s] \div 4][t % 4] = h
  BY <1>1
<1> HIDE DEF w, h
<1>4. (c \div 4) \div h = c \div w
  BY <1>2, QuotientOfQuotient
<1> QED
  BY <1>3, <1>4 DEF EdgeSignal, Enabled, Machine!High, Machine!Enabled, w

\* One cycle into a machine cycle moves the machine clock only at its end.
LEMMA MachineClock ==
  ASSUME NEW c \in 0 .. CounterMod - 1
  PROVE  ((c + 1) % CounterMod) \div 4
           = IF (c + 1) % 4 = 0 THEN ((c \div 4) + 1) % (CounterMod \div 4) ELSE c \div 4
<1>1. CounterMod = 4 * (CounterMod \div 4) /\ CounterMod \div 4 \in Nat /\ CounterMod \div 4 > 0
  BY TimerAssumption
<1> DEFINE n == CounterMod \div 4
<1>2. CounterMod = 4 * n /\ n \in Nat /\ n > 0
  BY <1>1
<1> HIDE DEF n
<1>3. CASE c + 1 = CounterMod
  <2>1. (c + 1) % CounterMod = 0 /\ (c + 1) % 4 = 0 /\ c \div 4 = n - 1
    BY <1>2, <1>3
  <2>2. n % n = 0
    BY <1>2
  <2> QED
    BY <1>2, <2>1, <2>2 DEF n
<1>4. CASE c + 1 < CounterMod
  <2>1. (c + 1) % CounterMod = c + 1
    BY <1>2, <1>4
  <2>2. CASE (c + 1) % 4 = 0
    <3>1. (c + 1) \div 4 = (c \div 4) + 1 /\ (c \div 4) + 1 \in 0 .. n - 1
      BY <1>2, <1>4, <2>2
    <3>2. ((c \div 4) + 1) % n = (c \div 4) + 1
      BY <1>2, <3>1
    <3> QED
      BY <2>1, <2>2, <3>1, <3>2 DEF n
  <2>3. CASE (c + 1) % 4 # 0
    BY <1>2, <2>1, <2>3
  <2> QED
    BY <2>2, <2>3
<1> QED
  BY <1>2, <1>3, <1>4

\* A watched bit falls only where the counter reaches a multiple of 16.
LEMMA FallsAt16 ==
  ASSUME NEW c \in 0 .. CounterMod - 1, NEW t \in 0 .. 7,
         EdgeSignal(c, t), ~EdgeSignal((c + 1) % CounterMod, t)
  PROVE  ((c + 1) % CounterMod) % 16 = 0
<1> DEFINE w == BitWeight[t % 4]
           q == c \div w
<1>1. CASE c + 1 = CounterMod
  BY <1>1, TimerAssumption
<1>2. CASE c + 1 # CounterMod
  <2>1. w \in Nat /\ w > 0 /\ w % 8 = 0 /\ c \in Nat
    BY Weights, TimerAssumption
  <2>2. (c + 1) % CounterMod = c + 1
    BY <1>2, TimerAssumption
  <2>3. q % 2 = 1 /\ ((c + 1) \div w) % 2 # 1
    BY <2>2 DEF EdgeSignal
  <2> DEFINE r == c % w
  <2> HIDE DEF w
  <2>4. q \in Nat /\ r \in 0 .. w - 1 /\ c = w * q + r
    BY <2>1
  <2> HIDE DEF q, r
  <2>5. r + 1 = w
    <3> SUFFICES ASSUME r + 1 # w PROVE FALSE
      OBVIOUS
    <3>1. c + 1 = w * q + (r + 1) /\ r + 1 \in 0 .. w - 1
      BY <2>1, <2>4
    <3>2. (c + 1) \div w = q
      BY <2>1, <2>4, <3>1
    <3> QED
      BY <2>3, <3>2
  <2>6. c + 1 = w * (q + 1)
    BY <2>1, <2>4, <2>5
  <2>7. q + 1 = 2 * ((q + 1) \div 2) /\ (q + 1) \div 2 \in Nat
    BY <2>3, <2>4
  <2> DEFINE k == (q + 1) \div 2
  <2> HIDE DEF k
  <2>8. k \in Nat /\ c + 1 = w * (2 * k)
    BY <2>6, <2>7 DEF k
  <2>9. c + 1 = (2 * w) * k
    <3>1. \A a, b \in Nat : a * (2 * b) = (2 * a) * b
      OBVIOUS
    <3>2. w * (2 * k) = (2 * w) * k
      BY <2>1, <2>8, <3>1
    <3> QED
      BY <2>8, <3>2, Zenon
  <2>10. c + 1 \in Nat
    BY <2>1
  <2>11. (c + 1) % 16 = 0
    BY <2>1, <2>8, <2>9, <2>10, MultiplesOf16
  <2> QED
    BY <2>2, <2>11, Zenon
<1> QED
  BY <1>1, <1>2

\* Four cycles past a multiple of 16 no watched bit moves.
LEMMA SignalSteadyIn4 ==
  ASSUME NEW c \in 0 .. CounterMod - 1, NEW t \in 0 .. 7, (c + 1) % 16 = 4,
         EdgeSignal(c, t)
  PROVE  EdgeSignal((c + 1) % CounterMod, t)
<1> SUFFICES ASSUME ~EdgeSignal((c + 1) % CounterMod, t) PROVE FALSE
  OBVIOUS
<1>1. ((c + 1) % CounterMod) % 16 = 0
  BY FallsAt16
<1>2. c + 1 # CounterMod
  BY CounterModBy16, TimerAssumption
<1>3. (c + 1) % CounterMod = c + 1
  BY <1>2, TimerAssumption
<1> QED
  BY <1>1, <1>3

(***************************************************************************)
(* Nothing counts as the window closes. A window the sweep opened began at *)
(* a multiple of 16, where no bit falls a machine cycle later, whatever    *)
(* TAC is made to watch in it; a window a write opened finds the signal    *)
(* low, and nobody can raise it before the window closes.                  *)
(***************************************************************************)
QuietWindow ==
  reloadDelay > 0 => \/ (counter + reloadDelay) % 16 = 4
                     \/ ~lastSignal /\ (left = 0 => ~access)

IInv == AlignInv /\ QuietWindow

LEMMA FourPast16 ==
  ASSUME NEW n \in Nat, n % 16 = 0
  PROVE  (n + 4) % 16 = 4
<1>1. n = 16 * (n \div 16) /\ n \div 16 \in Nat
  OBVIOUS
<1>2. \A k \in Nat : (16 * k + 4) % 16 = 4
  OBVIOUS
<1> QED
  BY <1>1, <1>2

LEMMA StepQuiet == IInv /\ [Next]_vars => QuietWindow'
<1> SUFFICES ASSUME AlignInv, QuietWindow, [Next]_vars PROVE QuietWindow'
  BY DEF IInv
<1>0. /\ counter \in 0 .. CounterMod - 1 /\ tac \in 0 .. 7
      /\ left \in 0 .. 4 /\ reloadDelay \in 0 .. 4
      /\ CounterMod \in Nat /\ CounterMod > 0
  BY TimerAssumption DEF AlignInv, TypeOK, ReloadDelay, CyclesPerMCycle
<1>a. /\ lastSignal <=> EdgeSignal(counter, tac)
      /\ (counter + left) % 4 = 0
      /\ left = 0 => reloadDelay \in {0, 4}
      /\ reloadDelay > 0 => (left = 0 \/ reloadDelay = left)
  BY DEF AlignInv, DetectorFresh, WindowAligned, ReloadDelay
<1>1. CASE BeginTick
  BY <1>0, <1>1 DEF BeginTick, QuietWindow, CyclesPerMCycle
<1>2. CASE TickOne
  <2> DEFINE delay == IF reloadDelay > 0 THEN reloadDelay - 1 ELSE 0
             base  == IF reloadDelay = 1 THEN tma ELSE tima
  <2>1. DetectEdge((counter + 1) % CounterMod, tac, base, delay)
    BY <1>2 DEF TickOne
  <2>2. counter' = (counter + 1) % CounterMod /\ left' = left - 1 /\ left > 0
    BY <1>2 DEF TickOne, DetectEdge
  <2>3. delay \in 0 .. 3 /\ (delay > 0 => delay = reloadDelay - 1 /\ left = reloadDelay)
    BY <1>0, <1>a, <2>2
  <2>4. reloadDelay' = delay \/ (reloadDelay' = ReloadDelay /\ lastSignal /\ ~EdgeSignal(counter', tac))
    BY <2>1, <2>2, DetectEdgeDelay
  <2>5. lastSignal' <=> EdgeSignal(counter', tac)
    BY <2>1, <2>2 DEF DetectEdge
  <2>6. CASE reloadDelay' = delay /\ delay > 0
    <3>1. counter + 1 # CounterMod
      BY <1>0, <1>a, <2>3, <2>6, CounterModBy16
    <3>2. counter' = counter + 1
      BY <1>0, <2>2, <3>1
    <3>3. (counter + 1) % 4 # 0
      BY <1>0, <1>a, <2>3, <2>6
    <3>4. lastSignal' <=> lastSignal
      BY <1>0, <1>a, <2>2, <2>5, <3>3, SignalSteady
    <3>5. counter' + reloadDelay' = counter + reloadDelay
      BY <1>0, <2>3, <2>6, <3>2
    <3>6. left # 0 /\ left' # 0 /\ reloadDelay > 0
      BY <1>0, <2>2, <2>3, <2>6
    <3> QED
      BY <3>4, <3>5, <3>6 DEF QuietWindow
  <2>7. CASE reloadDelay' = delay /\ delay = 0
    BY <2>7 DEF QuietWindow
  <2>8. CASE reloadDelay' = ReloadDelay /\ lastSignal /\ ~EdgeSignal(counter', tac)
    <3>1. counter' % 16 = 0
      BY <1>0, <1>a, <2>2, <2>8, FallsAt16
    <3>2. counter' \in Nat
      BY <1>0, <2>2
    <3>3. (counter' + 4) % 16 = 4
      BY <3>1, <3>2, FourPast16
    <3> QED
      BY <2>8, <3>3 DEF QuietWindow, ReloadDelay
  <2> HIDE DEF delay, base
  <2> QED
    BY <2>3, <2>4, <2>6, <2>7, <2>8
<1>3. CASE WriteDiv
  <2>1. reloadDelay' \in {reloadDelay, 4} /\ counter' = 0
    BY <1>3 DEF WriteDiv, DetectEdge, ReloadDelay
  <2>2. left = 0
    BY <1>3 DEF WriteDiv, Access
  <2>3. reloadDelay' \in {0, 4}
    BY <1>a, <2>1, <2>2
  <2>4. (0 + 4) % 16 = 4
    OBVIOUS
  <2>5. CASE reloadDelay' = 0
    BY <2>5 DEF QuietWindow
  <2>6. CASE reloadDelay' = 4
    BY <2>1, <2>4, <2>6 DEF QuietWindow
  <2> QED
    BY <2>3, <2>5, <2>6
<1>4. ASSUME NEW v \in 0 .. 7, WriteTac(v) PROVE QuietWindow'
  <2>1. left = 0 /\ access /\ left' = left /\ ~access' /\ counter' = counter
    BY <1>4 DEF WriteTac, Access, DetectEdge
  <2>2. DetectEdge(counter, v, tima, reloadDelay)
    BY <1>4 DEF WriteTac
  <2>3. lastSignal' <=> EdgeSignal(counter, v)
    BY <2>2 DEF DetectEdge
  <2>4. CASE reloadDelay' = ReloadDelay /\ lastSignal /\ ~EdgeSignal(counter, v)
    <3>1. ~lastSignal'
      BY <2>3, <2>4
    <3> QED
      BY <2>1, <3>1 DEF QuietWindow
  <2>5. CASE reloadDelay' = reloadDelay
    BY <2>1, <2>5 DEF QuietWindow
  <2> QED
    BY <2>2, <2>4, <2>5, DetectEdgeDelay
<1>5. ASSUME NEW v \in 0 .. TimaMod - 1, WriteTima(v) PROVE QuietWindow'
  BY <1>5 DEF WriteTima, QuietWindow
<1>6. ASSUME NEW v \in 0 .. TimaMod - 1, WriteTma(v) PROVE QuietWindow'
  <2>1. /\ reloadDelay' = reloadDelay /\ counter' = counter /\ access
        /\ left = 0
    BY <1>6 DEF WriteTma, Access
  <2> QED
    BY <2>1 DEF QuietWindow
<1>7. CASE Acknowledge
  BY <1>7 DEF Acknowledge, QuietWindow
<1>8. CASE Reset
  BY <1>8 DEF Reset, QuietWindow
<1>9. CASE UNCHANGED vars
  BY <1>9 DEF vars, QuietWindow
<1> QED
  BY <1>1, <1>2, <1>3, <1>4, <1>5, <1>6, <1>7, <1>8, <1>9 DEF Next

LEMMA TimerInvariant == Spec => []IInv
<1>1. Init => QuietWindow
  BY DEF Init, QuietWindow
<1>2. IInv /\ [Next]_vars => IInv'
  BY StepType, StepDetector, StepAligned, StepQuiet DEF IInv, AlignInv
<1>3. Init => IInv
  BY <1>1, InitAligned DEF IInv
<1> QED
  BY <1>2, <1>3, PTL DEF Spec

LEMMA InitMachine == Init => Machine!Init
<1> SUFFICES ASSUME Init PROVE Machine!Init
  OBVIOUS
<1>1. counter \div 4 \in {c \div 4 : c \in ResetCounters}
  BY DEF Init
<1>2. tima = 0 /\ tma = 0 /\ tac = 0 /\ ~(reloadDelay > 0) /\ intFlag = FALSE
  BY DEF Init
<1> QED
  BY <1>1, <1>2 DEF Machine!Init

\* The edge the detector finds is the fall that Count is taken for.
LEMMA DetectEdgeCounts ==
  ASSUME IInv, NEW c \in Nat, NEW t \in 0 .. 7,
         DetectEdge(c, t, tima, reloadDelay)
  PROVE  /\ counter' = c /\ tac' = t
         /\ IF Machine!High(counter \div 4, tac) /\ ~Machine!High(c \div 4, t)
              THEN Machine!Count ELSE Machine!Keep
<1>1. counter \in Nat /\ tac \in 0 .. 7 /\ reloadDelay \in Nat
  BY TimerAssumption DEF IInv, AlignInv, TypeOK, ReloadDelay
<1>2. lastSignal <=> Machine!High(counter \div 4, tac)
  BY <1>1, SignalIsHigh DEF IInv, AlignInv, DetectorFresh
<1>3. EdgeSignal(c, t) <=> Machine!High(c \div 4, t)
  BY SignalIsHigh
<1>4. counter' = c /\ tac' = t
  BY DEF DetectEdge
<1>5. CASE lastSignal /\ ~EdgeSignal(c, t)
  <2>1. /\ tima' = (tima + 1) % TimaMod
        /\ reloadDelay' = IF tima = TimaMod - 1 THEN ReloadDelay ELSE reloadDelay
    BY <1>5 DEF DetectEdge
  <2>2. (reloadDelay' > 0) <=> (reloadDelay > 0 \/ tima = TimaMod - 1)
    BY <1>1, <2>1 DEF ReloadDelay
  <2> QED
    BY <1>2, <1>3, <1>4, <1>5, <2>1, <2>2 DEF Machine!Count
<1>6. CASE ~(lastSignal /\ ~EdgeSignal(c, t))
  <2>1. tima' = tima /\ reloadDelay' = reloadDelay
    BY <1>6 DEF DetectEdge
  <2> QED
    BY <1>2, <1>3, <1>4, <1>6, <2>1 DEF Machine!Keep
<1> QED
  BY <1>5, <1>6

\* Only the last of the four cycles is a machine cycle of the abstract timer.
LEMMA TickOneMachine ==
  ASSUME IInv, TickOne
  PROVE  Machine!MachineCycle \/ UNCHANGED Machine!abstractVars
<1> DEFINE delay == IF reloadDelay > 0 THEN reloadDelay - 1 ELSE 0
           base  == IF reloadDelay = 1 THEN tma ELSE tima
           next  == (counter + 1) % CounterMod
<1>0. /\ counter \in 0 .. CounterMod - 1 /\ tac \in 0 .. 7
      /\ left \in 0 .. 4 /\ reloadDelay \in 0 .. 4
      /\ CounterMod \in Nat /\ CounterMod > 0
      /\ counter \in Nat /\ next \in Nat
      /\ intFlag \in BOOLEAN
  BY TimerAssumption DEF IInv, AlignInv, TypeOK, ReloadDelay, CyclesPerMCycle
<1>a. /\ lastSignal <=> EdgeSignal(counter, tac)
      /\ (counter + left) % 4 = 0
      /\ reloadDelay > 0 => (left = 0 \/ reloadDelay = left)
  BY DEF IInv, AlignInv, DetectorFresh, WindowAligned
<1>1. DetectEdge(next, tac, base, delay)
  BY DEF TickOne
<1>2. /\ left > 0 /\ tma' = tma
      /\ intFlag' = (intFlag \/ reloadDelay = 1)
  BY DEF TickOne
<1>3. counter' = next /\ tac' = tac
  BY <1>1 DEF DetectEdge
<1>4. counter' \div 4 = IF (counter + 1) % 4 = 0
                          THEN ((counter \div 4) + 1) % (CounterMod \div 4)
                          ELSE counter \div 4
  BY <1>0, <1>3, MachineClock
<1>5. /\ EdgeSignal(counter, tac) <=> Machine!High(counter \div 4, tac)
      /\ EdgeSignal(next, tac) <=> Machine!High(next \div 4, tac)
  BY <1>0, SignalIsHigh
<1> HIDE DEF next
<1>6. CASE (counter + 1) % 4 # 0
  <2>1. EdgeSignal(next, tac) <=> EdgeSignal(counter, tac)
    BY <1>0, <1>6, SignalSteady DEF next
  <2>2. left # 1
    BY <1>0, <1>a, <1>6
  <2>3. reloadDelay # 1
    BY <1>0, <1>a, <1>2, <2>2
  <2>4. base = tima
    BY <2>3
  <2>5. tima' = tima /\ reloadDelay' = delay
    BY <1>1, <1>a, <2>1, <2>4 DEF DetectEdge
  <2>6. (delay > 0) <=> (reloadDelay > 0)
    BY <1>0, <2>3
  <2>7. intFlag' = intFlag
    BY <1>0, <1>2, <2>3
  <2>8. (reloadDelay' > 0) <=> (reloadDelay > 0)
    BY <2>5, <2>6
  <2>9. counter' \div 4 = counter \div 4
    BY <1>4, <1>6
  <2> QED
    BY <1>2, <1>3, <2>5, <2>7, <2>8, <2>9 DEF Machine!abstractVars
<1>7. CASE (counter + 1) % 4 = 0 /\ reloadDelay > 0
  <2>1. left = 1 /\ reloadDelay = 1
    BY <1>0, <1>a, <1>2, <1>7
  <2>2. base = tma /\ delay = 0
    BY <2>1
  <2>3. ~(lastSignal /\ ~EdgeSignal(next, tac))
    <3>1. CASE (counter + 1) % 16 = 4
      BY <1>0, <1>a, <3>1, SignalSteadyIn4 DEF next
    <3>2. CASE ~lastSignal
      BY <3>2
    <3> QED
      BY <2>1, <3>1, <3>2 DEF IInv, QuietWindow
  <2> HIDE DEF base, delay
  <2>4. tima' = tma /\ reloadDelay' = 0
    BY <1>1, <2>2, <2>3 DEF DetectEdge
  <2>5. intFlag' = TRUE
    BY <1>0, <1>2, <2>1
  <2>6. (reloadDelay > 0) = TRUE /\ (reloadDelay' > 0) = FALSE
    BY <1>7, <2>4
  <2>7. counter' \div 4 = ((counter \div 4) + 1) % (CounterMod \div 4)
    BY <1>4, <1>7
  <2> QED
    BY <1>2, <1>3, <2>4, <2>5, <2>6, <2>7 DEF Machine!MachineCycle
<1>8. CASE (counter + 1) % 4 = 0 /\ ~(reloadDelay > 0)
  <2>1. reloadDelay = 0
    BY <1>0, <1>8
  <2>2. base = tima /\ delay = reloadDelay
    BY <2>1
  <2> HIDE DEF base, delay
  <2>3. DetectEdge(next, tac, tima, reloadDelay)
    BY <1>1, <2>2
  <2>4. /\ IF Machine!High(counter \div 4, tac) /\ ~Machine!High(counter' \div 4, tac)
             THEN Machine!Count ELSE Machine!Keep
    BY <1>0, <1>3, <2>3, DetectEdgeCounts
  <2>5. intFlag' = intFlag
    BY <1>0, <1>2, <2>1
  <2>6. counter' \div 4 = ((counter \div 4) + 1) % (CounterMod \div 4)
    BY <1>4, <1>8
  <2> QED
    BY <1>2, <1>3, <1>8, <2>4, <2>5, <2>6 DEF Machine!MachineCycle
<1> QED
  BY <1>6, <1>7, <1>8

LEMMA StepMachine == IInv /\ [Next]_vars => [Machine!Next]_Machine!abstractVars
<1> SUFFICES ASSUME IInv, [Next]_vars
             PROVE  Machine!Next \/ UNCHANGED Machine!abstractVars
  OBVIOUS
<1>0. /\ counter \in Nat /\ tac \in 0 .. 7 /\ reloadDelay \in 0 .. 4
  BY TimerAssumption DEF IInv, AlignInv, TypeOK, ReloadDelay
<1>1. CASE BeginTick
  BY <1>1 DEF BeginTick, Machine!abstractVars
<1>2. CASE TickOne
  BY <1>2, TickOneMachine DEF Machine!Next
<1>3. CASE WriteDiv
  <2>1. 0 \div 4 = 0
    OBVIOUS
  <2>2. ~Machine!High(0, tac)
    BY <1>0, Weights DEF Machine!High
  <2>3. DetectEdge(0, tac, tima, reloadDelay) /\ tma' = tma /\ intFlag' = intFlag
    BY <1>3 DEF WriteDiv, Access
  <2>4. /\ counter' = 0 /\ tac' = tac
        /\ IF Machine!High(counter \div 4, tac) /\ ~Machine!High(0 \div 4, tac)
             THEN Machine!Count ELSE Machine!Keep
    BY <1>0, <2>3, DetectEdgeCounts
  <2> QED
    BY <2>1, <2>2, <2>3, <2>4 DEF Machine!Next, Machine!WriteDiv
<1>4. ASSUME NEW v \in 0 .. 7, WriteTac(v) PROVE Machine!Next
  <2>1. DetectEdge(counter, v, tima, reloadDelay) /\ tma' = tma /\ intFlag' = intFlag
    BY <1>4 DEF WriteTac, Access
  <2>2. /\ counter' = counter /\ tac' = v
        /\ IF Machine!High(counter \div 4, tac) /\ ~Machine!High(counter \div 4, v)
             THEN Machine!Count ELSE Machine!Keep
    BY <1>0, <2>1, DetectEdgeCounts
  <2>3. Machine!WriteTac(v)
    BY <2>1, <2>2 DEF Machine!WriteTac
  <2> QED
    BY <2>3 DEF Machine!Next
<1>5. ASSUME NEW v \in 0 .. TimaMod - 1, WriteTima(v) PROVE Machine!Next
  <2>1. Machine!WriteTima(v)
    BY <1>5 DEF WriteTima, Access, Machine!WriteTima
  <2> QED
    BY <2>1 DEF Machine!Next
<1>6. ASSUME NEW v \in 0 .. TimaMod - 1, WriteTma(v) PROVE Machine!Next
  <2>1. Machine!WriteTma(v)
    BY <1>6 DEF WriteTma, Access, Machine!WriteTma
  <2> QED
    BY <2>1 DEF Machine!Next
<1>7. CASE Acknowledge
  BY <1>7 DEF Acknowledge, Machine!Next, Machine!Acknowledge
<1>8. CASE Reset
  <2>1. counter' \div 4 \in {c \div 4 : c \in ResetCounters}
    BY <1>8 DEF Reset
  <2>2. Machine!Reset
    BY <1>8, <2>1 DEF Reset, Machine!Reset
  <2> QED
    BY <2>2 DEF Machine!Next
<1>9. CASE UNCHANGED vars
  BY <1>9 DEF vars, Machine!abstractVars
<1> QED
  BY <1>1, <1>2, <1>3, <1>4, <1>5, <1>6, <1>7, <1>8, <1>9 DEF Next

(***************************************************************************)
(* The edge detector and the delay of timer.cpp are the per-machine-cycle  *)
(* timer of timer.hpp: a program that looks once per machine cycle cannot  *)
(* tell them apart, whatever it writes to DIV, TAC, TIMA and TMA.          *)
(***************************************************************************)
THEOREM TimerImplementsMachine == Spec => ImplementsMachineTimer
  BY TimerInvariant, InitMachine, StepMachine, PTL
     DEF Spec, ImplementsMachineTimer, Machine!Spec
=============================================================================
