------------------------------ MODULE CpuProofs ------------------------------
(***************************************************************************)
(* Cpu, the control of the processor: its types, the dispatch that always  *)
(* has a line to serve, the requests that survive it and the one           *)
(* instruction that EI waits for, for any number of lines, any address     *)
(* space and any depth of calls. What the instructions compute is the      *)
(* subject of ProcessorProofs.                                             *)
(***************************************************************************)
EXTENDS Cpu, SequenceTheorems, TLAPS

-----------------------------------------------------------------------------
(* The stack of return addresses. *)

\* Cpu::push16 keeps the stack within its bound, and full of addresses.
LEMMA PushedFits ==
  ASSUME NEW s \in Seq(Pcs), Len(s) <= MaxDepth, NEW a \in Pcs
  PROVE  Pushed(s, a) \in Seq(Pcs) /\ Len(Pushed(s, a)) <= MaxDepth
<1>1. MaxDepth \in Nat /\ MaxDepth > 0
  BY CpuAssumption
<1>2. CASE Len(s) = MaxDepth
  <2>1. s # <<>>
    BY <1>1, <1>2
  <2>2. Tail(s) \in Seq(Pcs) /\ Len(Tail(s)) = Len(s) - 1
    BY <2>1
  <2> QED BY <1>1, <1>2, <2>2 DEF Pushed
<1>3. CASE Len(s) # MaxDepth
  BY <1>1, <1>3 DEF Pushed
<1> QED BY <1>2, <1>3

\* Cpu::pop16 of a stack that is not empty gives an address and a shorter one.
LEMMA PoppedFits ==
  ASSUME NEW s \in Seq(Pcs), s # <<>>, Len(s) <= MaxDepth
  PROVE  /\ Last(s) \in Pcs
         /\ Front(s) \in Seq(Pcs) /\ Len(Front(s)) <= MaxDepth
<1>1. MaxDepth \in Nat
  BY CpuAssumption
<1>2. Len(s) \in Nat /\ Len(s) > 0
  OBVIOUS
<1>3. \A i \in 1 .. Len(s) : s[i] \in Pcs
  BY ElementOfSeq
<1> DEFINE n == Len(s) - 1
<1>4. n \in Int /\ \A i \in 1 .. n : s[i] \in Pcs
  BY <1>2, <1>3
<1>5. Len(SubSeq(s, 1, n)) = IF 1 <= n THEN n - 1 + 1 ELSE 0
  <2> HIDE DEF n
  <2> QED BY <1>4, SubSeqProperties
<1>6. SubSeq(s, 1, n) \in Seq(Pcs)
  <2> HIDE DEF n
  <2> QED BY <1>4, SubSeqProperties
<1> QED BY <1>1, <1>2, <1>3, <1>5, <1>6 DEF Last, Front

\* The next address, at the end of the address space the first one.
LEMMA NextPc ==
  ASSUME NEW a \in Pcs
  PROVE  (a + 1) % PcMod \in Pcs
<1>1. PcMod \in Nat /\ PcMod > 0
  BY CpuAssumption
<1>2. a + 1 \in Nat
  BY DEF Pcs
<1> QED BY <1>1, <1>2 DEF Pcs

\* The address of a handler is an address.
LEMMA VectorIsPc == \A i \in Lines : Vector(i) \in Pcs
  BY CpuAssumption DEF Lines, Pcs, Vector

-----------------------------------------------------------------------------
(* The invariant. *)

\* A copy of the requests exists exactly during a dispatch; IME and HALT are
\* clear as long as it is used, and the local enable_ime_after is not set.
DispatchHeld ==
  /\ phase \in {"push", "vector"} => pending # {} /\ ~ime /\ ~halted
  /\ phase # "execute" => ~enableAfter

\* Where an EI that has not taken effect yet is: in ime_pending_, from which
\* the fetch copies it, and only right after EI or the dispatch that followed.
EiHeld ==
  /\ phase = "execute" => (enableAfter <=> imePending)
  /\ imePending => last \in {"EI", "dispatch"}
  /\ last = "EI" /\ phase \in {"start", "execute"} => imePending \/ ime

IInv == TypeOK /\ DispatchHeld /\ EiHeld

\* What a completed instruction writes besides its own effect has its type.
LEMMA CompleteTypes ==
  ASSUME TypeOK, NEW name \in {"other", "RETI", "DI", "EI", "HALT", "WriteIf"},
         NEW i \in BOOLEAN, NEW p \in BOOLEAN, Complete(name, i, p)
  PROVE  /\ ime' \in BOOLEAN /\ imePending' \in BOOLEAN /\ enableAfter' \in BOOLEAN
         /\ phase' \in {"start", "push", "vector", "execute"}
         /\ pending' \subseteq Lines
         /\ last' \in {"none", "dispatch", "other", "RETI", "DI", "EI", "HALT", "WriteIf"}
  BY Zenon DEF TypeOK, Complete

\* Cpu::pop16 leaves an address in PC and a stack that fits.
LEMMA ReturnTypes ==
  ASSUME TypeOK, Return
  PROVE  pc' \in Pcs /\ stack' \in Seq(Pcs) /\ Len(stack') <= MaxDepth
<1>1. CASE stack = <<>>
  BY <1>1, CpuAssumption DEF TypeOK, Return
<1>2. CASE stack # <<>>
  BY <1>2, PoppedFits DEF TypeOK, Return
<1> QED BY <1>1, <1>2

\* Cpu::push16 leaves a stack that fits and registers of their types, whatever
\* it hits.
LEMMA PushTypes ==
  ASSUME TypeOK, PushToMemory \/ PushToIe \/ PushToIf \/ PushToKey1
  PROVE  /\ stack' \in Seq(Pcs) /\ Len(stack') <= MaxDepth
         /\ ie' \subseteq Lines /\ iflag' \subseteq Lines
         /\ armed' \in BOOLEAN
<1>0. <<>> \in Seq(Pcs) /\ Len(<<>>) <= MaxDepth
  BY CpuAssumption
<1>1. CASE PushToMemory
  <2>1. stack' \in Seq(Pcs) /\ Len(stack') <= MaxDepth
    BY <1>1, PushedFits DEF TypeOK, PushToMemory
  <2> QED BY <1>1, <2>1, Zenon DEF TypeOK, PushToMemory, irqVars
<1>2. CASE PushToIe
  BY <1>0, <1>2, Zenon DEF TypeOK, PushToIe
<1>3. CASE PushToIf
  BY <1>0, <1>3, Zenon DEF TypeOK, PushToIf
<1>4. CASE PushToKey1
  BY <1>0, <1>4, Zenon DEF TypeOK, PushToKey1, irqVars
<1> QED BY <1>1, <1>2, <1>3, <1>4

\* Every step keeps the types.
LEMMA TypesKept == TypeOK /\ [Next]_vars => TypeOK'
<1> SUFFICES ASSUME TypeOK, [Next]_vars PROVE TypeOK'
  OBVIOUS
<1>0. 0 \in Pcs /\ 0 \in Lines
  BY CpuAssumption DEF Pcs, Lines
<1>1. ASSUME NEW i \in Lines, Raise(i) PROVE TypeOK'
  <2>1. iflag' \subseteq Lines
    BY <1>1 DEF TypeOK, Raise
  <2> QED BY <1>1, <2>1 DEF TypeOK, Raise, haltVars, stepVars
<1>2. CASE BeginDispatch
  BY <1>2, Zenon DEF TypeOK, BeginDispatch, irqVars, Requested
<1>3. CASE PushPc
  <2>1. PushToMemory \/ PushToIe \/ PushToIf \/ PushToKey1
    BY <1>3 DEF PushPc
  <2> QED BY <1>3, <2>1, PushTypes, Zenon DEF TypeOK, PushPc, haltVars
<1>4. CASE TakeVector
  <2>1. pc' \in Pcs /\ iflag' \subseteq Lines
    BY <1>4, VectorIsPc, Zenon DEF TypeOK, TakeVector
  <2> QED BY <1>4, <2>1, Zenon DEF TypeOK, TakeVector, haltVars
<1>5. CASE Idle
  BY <1>5, Zenon DEF TypeOK, Idle, Asleep, irqVars, stepVars
<1>6. CASE Fetch
  <2>1. pc' \in Pcs
    BY <1>6, NextPc, Zenon DEF TypeOK, Fetch
  <2> QED BY <1>6, <2>1, Zenon DEF TypeOK, Fetch, irqVars
<1>7. ASSUME NEW a \in Pcs, Plain(a) PROVE TypeOK'
  BY <1>7, CompleteTypes, Zenon DEF TypeOK, Plain, haltVars, irqVars
<1>8. ASSUME NEW a \in Pcs, Call(a) PROVE TypeOK'
  <2>1. PushToMemory \/ PushToIe \/ PushToIf \/ PushToKey1
    BY <1>8, Zenon DEF Call
  <2>2. Complete("other", ime, imePending) \/ Complete("WriteIf", ime, imePending)
    BY <1>8, Zenon DEF Call
  <2>3. /\ ime' \in BOOLEAN /\ imePending' \in BOOLEAN /\ enableAfter' \in BOOLEAN
        /\ phase' \in {"start", "push", "vector", "execute"}
        /\ pending' \subseteq Lines
        /\ last' \in {"none", "dispatch", "other", "RETI", "DI", "EI", "HALT", "WriteIf"}
    BY <2>2, CompleteTypes, Zenon DEF TypeOK
  <2> QED BY <1>8, <2>1, <2>3, PushTypes, Zenon DEF TypeOK, Call, haltVars
<1>9. CASE Ret
  BY <1>9, ReturnTypes, CompleteTypes, Zenon DEF TypeOK, Ret, Return, haltVars, irqVars
<1>10. CASE Reti
  BY <1>10, ReturnTypes, CompleteTypes, Zenon DEF TypeOK, Reti, Return, haltVars, irqVars
<1>11. CASE DisableInterrupts
  BY <1>11, CompleteTypes, Zenon DEF TypeOK, DisableInterrupts, haltVars, irqVars
<1>12. CASE EnableInterrupts
  BY <1>12, CompleteTypes, Zenon DEF TypeOK, EnableInterrupts, haltVars, irqVars
<1>13. CASE Halt
  BY <1>13, CompleteTypes, Zenon DEF TypeOK, Halt, haltVars, irqVars
<1>14. CASE Stop
  <2>1. pc' \in Pcs
    BY <1>14, NextPc, Zenon DEF TypeOK, Stop
  <2> QED BY <1>14, <2>1, CompleteTypes, Zenon DEF TypeOK, Stop, haltVars, irqVars
<1>15. CASE IllegalOpcode
  BY <1>15, CompleteTypes, Zenon DEF TypeOK, IllegalOpcode, haltVars, irqVars
<1>16. ASSUME NEW lines \in SUBSET Lines, WriteIe(lines) PROVE TypeOK'
  BY <1>16, CompleteTypes, Zenon DEF TypeOK, WriteIe, haltVars, irqVars
<1>17. ASSUME NEW lines \in SUBSET Lines, WriteIf(lines) PROVE TypeOK'
  BY <1>17, CompleteTypes, Zenon DEF TypeOK, WriteIf, haltVars, irqVars
<1>18. ASSUME NEW on \in BOOLEAN, WriteKey1(on) PROVE TypeOK'
  BY <1>18, CompleteTypes, Zenon DEF TypeOK, WriteKey1, haltVars, irqVars
<1>19. CASE Reset
  <2>1. <<>> \in Seq(Pcs) /\ Len(<<>>) <= MaxDepth
    BY CpuAssumption
  <2>2. ie' \subseteq Lines /\ iflag' \subseteq Lines /\ pending' \subseteq Lines
    BY <1>0, <1>19 DEF Reset
  <2>3. pc' \in Pcs /\ stack' \in Seq(Pcs) /\ Len(stack') <= MaxDepth
    BY <1>0, <1>19, <2>1 DEF Reset
  <2> QED BY <1>19, <2>2, <2>3 DEF TypeOK, Reset
<1>20. CASE UNCHANGED vars
  BY <1>20 DEF TypeOK, vars, haltVars, irqVars, stepVars
<1> QED
  BY <1>1, <1>2, <1>3, <1>4, <1>5, <1>6, <1>7, <1>8, <1>9, <1>10, <1>11, <1>12, <1>13,
     <1>14, <1>15, <1>16, <1>17, <1>18, <1>19, <1>20, Zenon DEF Next, Step, Execute

-----------------------------------------------------------------------------
(* The dispatch and the pending EI. *)

\* Completing an instruction of the program ends the wait of an EI.
LEMMA CompleteHolds ==
  ASSUME IInv, NEW name \in {"other", "RETI", "DI", "EI", "HALT", "WriteIf"},
         NEW i \in BOOLEAN, NEW p \in BOOLEAN, Complete(name, i, p),
         name # "EI" => (p => imePending), name = "EI" => p
  PROVE  DispatchHeld' /\ EiHeld'
<1>1. phase = "execute" /\ phase' = "start" /\ ~enableAfter' /\ last' = name
  BY Zenon DEF Complete
<1>2. imePending' <=> (~enableAfter /\ p)
  BY Zenon DEF Complete
<1>3. enableAfter <=> imePending
  BY <1>1, Zenon DEF IInv, EiHeld
<1>4. ime' <=> (enableAfter \/ i)
  BY Zenon DEF Complete
<1> QED BY <1>1, <1>2, <1>3, <1>4, Zenon DEF DispatchHeld, EiHeld

\* Every step keeps both.
LEMMA HoldsKept == IInv /\ [Next]_vars => DispatchHeld' /\ EiHeld'
<1> SUFFICES ASSUME IInv, [Next]_vars PROVE DispatchHeld' /\ EiHeld'
  OBVIOUS
<1>0. TypeOK /\ DispatchHeld /\ EiHeld
  BY DEF IInv
<1>1. ASSUME NEW i \in Lines, Raise(i) PROVE DispatchHeld' /\ EiHeld'
  BY <1>0, <1>1, Zenon DEF DispatchHeld, EiHeld, Raise, haltVars, stepVars
<1>2. CASE BeginDispatch
  BY <1>0, <1>2, Zenon DEF DispatchHeld, EiHeld, BeginDispatch
<1>3. CASE PushPc
  BY <1>0, <1>3, Zenon DEF DispatchHeld, EiHeld, PushPc, haltVars
<1>4. CASE TakeVector
  BY <1>0, <1>4, Zenon DEF DispatchHeld, EiHeld, TakeVector, haltVars
<1>5. CASE Idle
  BY <1>0, <1>5, Zenon DEF DispatchHeld, EiHeld, Idle, stepVars
<1>6. CASE Fetch
  BY <1>0, <1>6, Zenon DEF DispatchHeld, EiHeld, Fetch
<1>7. ASSUME Execute PROVE DispatchHeld' /\ EiHeld'
  <2>1. ime \in BOOLEAN /\ imePending \in BOOLEAN
    BY <1>0 DEF TypeOK
  <2>2. \/ Complete("other", ime, imePending) \/ Complete("RETI", TRUE, imePending)
        \/ Complete("DI", FALSE, FALSE) \/ Complete("EI", ime, TRUE)
        \/ Complete("WriteIf", ime, imePending) \/ Complete("HALT", ime, imePending)
    BY <1>7, Zenon DEF Execute, Plain, Call, Ret, Reti, DisableInterrupts, EnableInterrupts,
      Halt, Stop, IllegalOpcode, WriteIe, WriteIf, WriteKey1
  <2> QED BY <2>1, <2>2, CompleteHolds
<1>8. CASE Reset
  BY <1>8, Zenon DEF DispatchHeld, EiHeld, Reset
<1>9. CASE UNCHANGED vars
  BY <1>0, <1>9, Zenon DEF DispatchHeld, EiHeld, vars, haltVars, stepVars
<1> QED
  BY <1>1, <1>2, <1>3, <1>4, <1>5, <1>6, <1>7, <1>8, <1>9, Zenon DEF Next, Step

\* The invariant is inductive.
LEMMA Invariance == Spec => []IInv
<1>1. Init => IInv
  <2> SUFFICES ASSUME Init PROVE IInv
    OBVIOUS
  <2>1. 0 \in Pcs /\ {0} \subseteq Lines /\ {} \subseteq Lines
    BY CpuAssumption DEF Pcs, Lines
  <2>2. <<>> \in Seq(Pcs) /\ Len(<<>>) <= MaxDepth
    BY CpuAssumption
  <2>3. TypeOK
    BY <2>1, <2>2, Zenon DEF Init, TypeOK
  <2> QED BY <2>3, Zenon DEF Init, IInv, DispatchHeld, EiHeld
<1>2. IInv /\ [Next]_vars => IInv'
  BY TypesKept, HoldsKept DEF IInv
<1> QED BY <1>1, <1>2, PTL DEF Spec

-----------------------------------------------------------------------------

(***************************************************************************)
(* Every part of the processor keeps its type: PC in the address space, a  *)
(* bounded stack of addresses, requests that name lines.                   *)
(***************************************************************************)
THEOREM CpuTypeCorrect == Spec => []TypeOK
<1>1. IInv => TypeOK
  BY DEF IInv
<1> QED BY Invariance, <1>1, PTL

(***************************************************************************)
(* A dispatch in progress has a line to serve, with IME clear and the      *)
(* processor awake, however ticks and the pushed bytes changed the request *)
(* and enable bits since it began (Cpu::service_interrupt looks at its own *)
(* copy).                                                                  *)
(***************************************************************************)
THEOREM CpuDispatchHasLine == Spec => []DispatchHasLine
<1>1. IInv => DispatchHasLine
  BY DEF IInv, DispatchHeld, DispatchHasLine
<1> QED BY Invariance, <1>1, PTL

(***************************************************************************)
(* No request is lost: what takes one away is the dispatch of its line, an *)
(* instruction that stores to IF (a CALL or RST whose push lands there     *)
(* included), a dispatch whose own push lands there, or a reset; not the   *)
(* dispatch of another line otherwise, nor any tick.                       *)
(***************************************************************************)
THEOREM CpuRequestsSurvive == Spec => RequestsSurvive
<1> DEFINE Taken(i) == \/ phase = "vector" /\ pc' = Vector(i)
                       \/ phase = "push" /\ PushToIf
                       \/ phase = "execute" /\ last' = "WriteIf"
                       \/ phase = "start" /\ last' = "none"
           A == \A i \in iflag \ iflag' : Taken(i)
<1>1. [Next]_vars => [A]_vars
  <2> SUFFICES ASSUME Next, NEW i \in iflag, i \notin iflag' PROVE Taken(i)
    OBVIOUS
  <2>1. CASE TakeVector
    BY <2>1, Zenon DEF TakeVector
  <2>2. CASE PushPc
    BY <2>2, Zenon DEF PushPc, PushToMemory, PushToIe, PushToKey1, irqVars
  <2>3. CASE Reset
    BY <2>3 DEF Reset
  <2>4. ASSUME NEW a \in Pcs, Call(a) PROVE Taken(i)
    BY <2>4, Zenon DEF Call, Complete, PushToMemory, PushToIe, PushToKey1, irqVars
  <2>5. ASSUME NEW lines \in SUBSET Lines, WriteIf(lines) PROVE Taken(i)
    BY <2>5 DEF WriteIf, Complete
  <2>6. CASE iflag' = iflag
    BY <2>6
  <2>7. ASSUME NEW j \in Lines, Raise(j) PROVE FALSE
    BY <2>7 DEF Raise
  <2> QED
    BY <2>1, <2>2, <2>3, <2>4, <2>5, <2>6, <2>7, Zenon DEF Next, Step, Execute, BeginDispatch,
      Idle, Fetch, Plain, Ret, Reti, Return, DisableInterrupts, EnableInterrupts, Halt, Stop,
      IllegalOpcode, WriteIe, WriteKey1, irqVars
<1> QED BY <1>1, PTL DEF Spec, RequestsSurvive

(***************************************************************************)
(* The halt bug holds back the very next fetch and no later one: it never  *)
(* outlives an instruction or waits through HALT, STOP or an illegal       *)
(* opcode, and those three never hold the processor together.              *)
(***************************************************************************)
THEOREM CpuHaltBugNextFetch == Spec => []HaltBugNextFetch
<1> DEFINE Awake == phase = "execute" => ~halted /\ ~stopped /\ ~illegal /\ ~haltBug
           H == HaltBugNextFetch /\ Awake
<1>1. Init => H
  BY Zenon DEF Init, HaltBugNextFetch
<1>2. IInv /\ H /\ [Next]_vars => H'
  <2> SUFFICES ASSUME IInv, H, [Next]_vars PROVE H'
    OBVIOUS
  <2>0. /\ HaltBugNextFetch /\ Awake
        /\ phase \in {"push", "vector"} => ~halted
    BY Zenon DEF IInv, DispatchHeld
  <2>1. ASSUME NEW i \in Lines, Raise(i) PROVE H'
    BY <2>0, <2>1, Zenon DEF HaltBugNextFetch, Raise, haltVars, stepVars
  <2>2. CASE BeginDispatch
    BY <2>0, <2>2, Zenon DEF HaltBugNextFetch, BeginDispatch
  <2>3. CASE PushPc
    BY <2>0, <2>3, Zenon DEF HaltBugNextFetch, PushPc, haltVars
  <2>4. CASE TakeVector
    BY <2>0, <2>4, Zenon DEF HaltBugNextFetch, TakeVector, haltVars
  <2>5. CASE Idle
    BY <2>0, <2>5, Zenon DEF HaltBugNextFetch, Idle, Asleep, stepVars
  <2>6. CASE Fetch
    BY <2>0, <2>6, Zenon DEF HaltBugNextFetch, Fetch
  <2>7. CASE Halt
    BY <2>0, <2>7, Zenon DEF HaltBugNextFetch, Halt, Complete
  <2>8. CASE Stop
    BY <2>0, <2>8, Zenon DEF HaltBugNextFetch, Stop, Complete
  <2>9. CASE IllegalOpcode
    BY <2>0, <2>9, Zenon DEF HaltBugNextFetch, IllegalOpcode, Complete
  <2>10. ASSUME phase = "execute", phase' = "start", UNCHANGED haltVars PROVE H'
    BY <2>0, <2>10, Zenon DEF HaltBugNextFetch, haltVars
  <2>11. ASSUME Execute PROVE H'
    BY <2>7, <2>8, <2>9, <2>10, <2>11, Zenon DEF Execute, Plain, Call, Ret, Reti, Return,
      DisableInterrupts, EnableInterrupts, WriteIe, WriteIf, WriteKey1, Complete
  <2>12. CASE Reset
    BY <2>12, Zenon DEF HaltBugNextFetch, Reset
  <2>13. CASE UNCHANGED vars
    BY <2>0, <2>13, Zenon DEF HaltBugNextFetch, vars, haltVars, stepVars
  <2> QED BY <2>1, <2>2, <2>3, <2>4, <2>5, <2>6, <2>11, <2>12, <2>13, Zenon DEF Next, Step
<1>3. H => HaltBugNextFetch
  OBVIOUS
<1> QED BY <1>1, <1>2, <1>3, Invariance, PTL DEF Spec

(***************************************************************************)
(* EI takes effect one instruction later (cpu_selftest.cpp:442-446), never *)
(* sooner and never not at all, whatever dispatch or reset comes between   *)
(* the two: IME is set by RETI or by what completes right after EI or the  *)
(* dispatch that followed it; and what completes after EI leaves it set    *)
(* unless it is DI.                                                        *)
(***************************************************************************)
THEOREM CpuEiOneInstructionLater == Spec => EiOneInstructionLater
<1> DEFINE A == /\ ~ime /\ ime' => last' = "RETI" \/ last \in {"EI", "dispatch"}
                /\ last = "EI" /\ phase = "execute" /\ phase' = "start" => ime' \/ last' = "DI"
<1>1. IInv /\ [Next]_vars => [A]_vars
  <2> SUFFICES ASSUME IInv, Next PROVE A
    OBVIOUS
  <2>0. EiHeld
    BY DEF IInv
  <2>1. ASSUME Execute PROVE A
    <3>1. /\ \/ last' = "RETI" \/ last' = "DI"
             \/ ime' <=> (enableAfter \/ ime)
          /\ last' = "RETI" => ime'
          /\ last' = "DI" => (ime' <=> enableAfter)
          /\ phase = "execute"
      BY <2>1, Zenon DEF Execute, Complete, Plain, Call, Ret, Reti, DisableInterrupts,
        EnableInterrupts, Halt, Stop, IllegalOpcode, WriteIe, WriteIf, WriteKey1
    <3>2. enableAfter <=> imePending
      BY <2>0, <3>1, Zenon DEF EiHeld
    <3> QED BY <2>0, <3>1, <3>2, Zenon DEF EiHeld
  <2>2. ASSUME ime' = ime \/ ~ime', phase' \in {phase, "execute", "push"} \/ phase # "execute"
        PROVE  A
    <3>1. ime \/ ~ime'
      BY <2>2, Zenon
    <3>2. phase = "execute" => phase' # "start"
      BY <2>2
    <3> QED BY <3>1, <3>2, Zenon
  <2>3. ASSUME NEW i \in Lines, Raise(i) PROVE A
    BY <2>2, <2>3, Zenon DEF Raise, stepVars
  <2>4. CASE BeginDispatch
    BY <2>2, <2>4, Zenon DEF BeginDispatch
  <2>5. CASE PushPc
    BY <2>2, <2>5 DEF PushPc
  <2>6. CASE TakeVector
    BY <2>2, <2>6 DEF TakeVector
  <2>7. CASE Idle
    BY <2>2, <2>7, Zenon DEF Idle, stepVars
  <2>8. CASE Fetch
    BY <2>2, <2>8, Zenon DEF Fetch
  <2>9. CASE Reset
    BY <2>2, <2>9 DEF Reset
  <2> QED BY <2>1, <2>3, <2>4, <2>5, <2>6, <2>7, <2>8, <2>9, Zenon DEF Next, Step
<1> QED BY Invariance, <1>1, PTL DEF Spec, EiOneInstructionLater
=============================================================================
