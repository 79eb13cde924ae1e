--------------------------------- MODULE Cpu ---------------------------------
(***************************************************************************)
(* The control of the processor: Cpu::step, Cpu::service_interrupt and the *)
(* instructions that touch IME, HALT, STOP, the stack of return addresses  *)
(* or the interrupt registers (src/core/cpu.cpp).                          *)
(*                                                                         *)
(* A step is cut where the bus ticks, because a request may be raised in   *)
(* every tick: the service check, the fetch, the instruction, and the      *)
(* three stages of a dispatch. The program is left open: any instruction   *)
(* may be found at any address.                                            *)
(***************************************************************************)
EXTENDS Naturals, SequencesExt

CONSTANTS
  NumLines,   \* interrupt lines; the lowest has priority (5)
  PcMod,      \* size of the address space (2^16)
  MaxDepth    \* bound: return addresses remembered; the oldest is forgotten

ASSUME CpuAssumption ==
  /\ NumLines \in Nat /\ NumLines > 0
  /\ PcMod \in Nat /\ PcMod >= NumLines
  /\ MaxDepth \in Nat /\ MaxDepth > 0

VARIABLES
  pc,           \* regs_.pc
  stack,        \* the return addresses SP points at
  ime,          \* ime_
  imePending,   \* ime_pending_
  halted, haltBug, stopped, illegal,
  ie, iflag,    \* the interrupt enable and request bits, as sets of lines
  armed,        \* KEY1 bit 0: STOP will switch the speed
  phase,        \* where in Cpu::step the processor is
  enableAfter,  \* Cpu::step's local enable_ime_after
  pending,      \* service_interrupt's local pending
  last          \* history: the last instruction or dispatch completed
haltVars  == <<halted, haltBug, stopped, illegal>>
irqVars   == <<ie, iflag>>
stepVars  == <<phase, enableAfter, pending>>
vars == <<pc, stack, ime, imePending, haltVars, irqVars, armed, stepVars, last>>

Lines == 0 .. NumLines - 1
Pcs == 0 .. PcMod - 1
Vector(i) == i

Requested == ie \cap iflag

Pushed(s, a) == Append(IF Len(s) = MaxDepth THEN Tail(s) ELSE s, a)

(***************************************************************************)
(* Cpu::push16 of PC, wherever SP points. In memory the address is found   *)
(* again. A byte of it may also land on IE, IF or KEY1 (0xFFFF, 0xFF0F,    *)
(* 0xFF4D), which then hold whatever bits that byte has; what is popped    *)
(* from there later is no address that was pushed.                         *)
(***************************************************************************)
PushToMemory == stack' = Pushed(stack, pc) /\ UNCHANGED <<irqVars, armed>>

PushToIe == stack' = <<>> /\ ie' \in SUBSET Lines /\ UNCHANGED <<iflag, armed>>

PushToIf == stack' = <<>> /\ iflag' \in SUBSET Lines /\ UNCHANGED <<ie, armed>>

PushToKey1 == stack' = <<>> /\ armed' \in BOOLEAN /\ UNCHANGED irqVars

Init ==
  /\ pc = 0 /\ stack = <<>>
  /\ ime = FALSE /\ imePending = FALSE
  /\ halted = FALSE /\ haltBug = FALSE /\ stopped = FALSE /\ illegal = FALSE
  /\ ie = {} /\ iflag = {0}
  /\ armed = FALSE
  /\ phase = "start" /\ enableAfter = FALSE /\ pending = {}
  /\ last = "none"

\* A tick raises the request of line i (Bus::request_interrupt).
Raise(i) ==
  /\ i \notin iflag
  /\ iflag' = iflag \cup {i}
  /\ UNCHANGED <<pc, stack, ime, imePending, haltVars, ie, armed, stepVars, last>>

-----------------------------------------------------------------------------
(* Cpu::service_interrupt with IME set: the dispatch, in three stages. *)

BeginDispatch ==
  /\ phase = "start"
  /\ Requested # {} /\ ime
  /\ pending' = Requested
  /\ halted' = FALSE
  /\ ime' = FALSE
  /\ phase' = "push"
  /\ UNCHANGED <<pc, stack, imePending, haltBug, stopped, illegal,
                 irqVars, armed, enableAfter, last>>

\* Mutant: the requests are looked at again after the push.
PushPcLooksAgain ==
  /\ phase = "push"
  /\ PushToMemory \/ PushToIe \/ PushToIf \/ PushToKey1
  /\ pending' = (ie \cap iflag)'
  /\ phase' = "vector"
  /\ UNCHANGED <<pc, ime, imePending, haltVars, enableAfter, last>>

PushPc ==
  /\ phase = "push"
  /\ PushToMemory \/ PushToIe \/ PushToIf \/ PushToKey1
  /\ phase' = "vector"
  /\ UNCHANGED <<pc, ime, imePending, haltVars, enableAfter, pending, last>>

\* Mutant: the flags are written back from the copy made before the pushes.
TakeVectorStaleFlags ==
  /\ phase = "vector"
  /\ \E i \in pending :
       /\ \A j \in pending : i <= j
       /\ iflag' = pending \ {i}
       /\ pc' = Vector(i)
  /\ phase' = "start" /\ pending' = {} /\ last' = "dispatch"
  /\ UNCHANGED <<stack, ime, imePending, haltVars, ie, armed, enableAfter>>

\* The lowest line of the copy wins, whatever was raised since.
TakeVector ==
  /\ phase = "vector"
  /\ \E i \in pending :
       /\ \A j \in pending : i <= j
       /\ iflag' = iflag \ {i}
       /\ pc' = Vector(i)
  /\ phase' = "start" /\ pending' = {} /\ last' = "dispatch"
  /\ UNCHANGED <<stack, ime, imePending, haltVars, ie, armed, enableAfter>>

-----------------------------------------------------------------------------
(* The rest of Cpu::step. *)

\* Mutant: a request only wakes the processor when IME is set.
AsleepUnlessIme == halted /\ (Requested = {} \/ ~ime)

\* A request wakes a halted processor whether or not IME is set.
Asleep == halted /\ Requested = {}

\* No dispatch: the processor is asleep, stopped or locked up; only time passes.
Idle ==
  /\ phase = "start"
  /\ ~(Requested # {} /\ ime)
  /\ Asleep \/ stopped \/ illegal
  /\ halted' = Asleep
  /\ UNCHANGED <<pc, stack, ime, imePending, haltBug, stopped, illegal,
                 irqVars, armed, stepVars, last>>

\* Mutant: the halt bug is not over with the fetch it holds back.
FetchKeepsHaltBug ==
  /\ phase = "start"
  /\ ~(Requested # {} /\ ime)
  /\ ~(Asleep \/ stopped \/ illegal)
  /\ halted' = FALSE
  /\ enableAfter' = imePending
  /\ pc' = IF haltBug THEN pc ELSE (pc + 1) % PcMod
  /\ phase' = "execute"
  /\ UNCHANGED <<stack, ime, imePending, haltBug, stopped, illegal,
                 irqVars, armed, pending, last>>

\* The opcode is read; the halt bug keeps PC from moving once.
Fetch ==
  /\ phase = "start"
  /\ ~(Requested # {} /\ ime)
  /\ ~(Asleep \/ stopped \/ illegal)
  /\ halted' = FALSE
  /\ enableAfter' = imePending
  /\ pc' = IF haltBug THEN pc ELSE (pc + 1) % PcMod
  /\ haltBug' = FALSE
  /\ phase' = "execute"
  /\ UNCHANGED <<stack, ime, imePending, stopped, illegal, irqVars, armed, pending, last>>

\* Mutant: a pending EI takes effect at the end of EI itself.
CompleteAtOnce(name, i, p) ==
  /\ phase = "execute" /\ phase' = "start"
  /\ ime' = (p \/ i)
  /\ imePending' = FALSE
  /\ enableAfter' = FALSE
  /\ last' = name
  /\ UNCHANGED pending

(***************************************************************************)
(* The end of every instruction: it leaves i in ime_ and p in              *)
(* ime_pending_, and then an EI that was pending before it takes effect.   *)
(***************************************************************************)
Complete(name, i, p) ==
  /\ phase = "execute" /\ phase' = "start"
  /\ ime' = (enableAfter \/ i)
  /\ imePending' = (~enableAfter /\ p)
  /\ enableAfter' = FALSE
  /\ last' = name
  /\ UNCHANGED pending

\* An instruction that leaves the control state alone, a jump or a call.
Plain(target) ==
  /\ Complete("other", ime, imePending)
  /\ pc' \in {pc, target}
  /\ UNCHANGED <<stack, haltVars, irqVars, armed>>

\* CALL and RST: their push may store to IF, like any other store to it.
Call(target) ==
  /\ \/ /\ Complete("other", ime, imePending)
        /\ PushToMemory \/ PushToIe \/ PushToKey1
     \/ Complete("WriteIf", ime, imePending) /\ PushToIf
  /\ pc' = target
  /\ UNCHANGED haltVars

\* Cpu::pop16 into PC; below the addresses remembered the stack holds anything.
Return ==
  /\ IF stack = <<>>
       THEN pc' \in Pcs /\ stack' = <<>>
       ELSE pc' = Last(stack) /\ stack' = Front(stack)
  /\ UNCHANGED <<haltVars, irqVars, armed>>

Ret == Complete("other", ime, imePending) /\ Return

Reti == Complete("RETI", TRUE, imePending) /\ Return

DisableInterrupts ==
  /\ Complete("DI", FALSE, FALSE)
  /\ UNCHANGED <<pc, stack, haltVars, irqVars, armed>>

EnableInterrupts ==
  /\ Complete("EI", ime, TRUE)
  /\ UNCHANGED <<pc, stack, haltVars, irqVars, armed>>

\* With IME clear and a request pending the processor does not stop.
Halt ==
  /\ Complete("HALT", ime, imePending)
  /\ LET bug == ~ime /\ Requested # {}
     IN  /\ haltBug' = bug
         /\ halted' = ~bug
  /\ UNCHANGED <<pc, stack, stopped, illegal, irqVars, armed>>

\* STOP is followed by a padding byte; an armed speed switch is made instead.
Stop ==
  /\ Complete("other", ime, imePending)
  /\ pc' = (pc + 1) % PcMod
  /\ stopped' = ~armed
  /\ armed' = FALSE
  /\ UNCHANGED <<stack, halted, haltBug, illegal, irqVars>>

IllegalOpcode ==
  /\ Complete("other", ime, imePending)
  /\ illegal' = TRUE
  /\ UNCHANGED <<pc, stack, halted, haltBug, stopped, irqVars, armed>>

\* Stores to 0xFFFF, 0xFF0F and 0xFF4D.
WriteIe(lines) ==
  /\ Complete("other", ime, imePending)
  /\ ie' = lines
  /\ UNCHANGED <<pc, stack, haltVars, iflag, armed>>

WriteIf(lines) ==
  /\ Complete("WriteIf", ime, imePending)
  /\ iflag' = lines
  /\ UNCHANGED <<pc, stack, haltVars, ie, armed>>

WriteKey1(on) ==
  /\ Complete("other", ime, imePending)
  /\ armed' = on
  /\ UNCHANGED <<pc, stack, haltVars, irqVars>>

Execute ==
  \/ \E a \in Pcs : Plain(a) \/ Call(a)
  \/ Ret \/ Reti
  \/ DisableInterrupts \/ EnableInterrupts
  \/ Halt \/ Stop \/ IllegalOpcode
  \/ \E lines \in SUBSET Lines : WriteIe(lines) \/ WriteIf(lines)
  \/ \E on \in BOOLEAN : WriteKey1(on)

-----------------------------------------------------------------------------

Step == BeginDispatch \/ PushPc \/ TakeVector \/ Idle \/ Fetch \/ Execute

\* GameBoy::reset, between two steps.
Reset ==
  /\ phase = "start"
  /\ pc' = 0 /\ stack' = <<>>
  /\ ime' = FALSE /\ imePending' = FALSE
  /\ halted' = FALSE /\ haltBug' = FALSE /\ stopped' = FALSE /\ illegal' = FALSE
  /\ ie' = {} /\ iflag' = {0}
  /\ armed' = FALSE
  /\ phase' = "start" /\ enableAfter' = FALSE /\ pending' = {}
  /\ last' = "none"

Next ==
  \/ \E i \in Lines : Raise(i)
  \/ Step
  \/ Reset

Spec == Init /\ [][Next]_vars

\* The run loops of GameBoy call Cpu::step again and again.
Fairness == WF_vars(Step)
FairSpec == Spec /\ Fairness

-----------------------------------------------------------------------------

TypeOK ==
  /\ pc \in Pcs
  /\ stack \in Seq(Pcs) /\ Len(stack) <= MaxDepth
  /\ ime \in BOOLEAN /\ imePending \in BOOLEAN
  /\ halted \in BOOLEAN /\ haltBug \in BOOLEAN
  /\ stopped \in BOOLEAN /\ illegal \in BOOLEAN
  /\ ie \subseteq Lines /\ iflag \subseteq Lines
  /\ armed \in BOOLEAN
  /\ phase \in {"start", "push", "vector", "execute"}
  /\ enableAfter \in BOOLEAN
  /\ pending \subseteq Lines
  /\ last \in {"none", "dispatch", "other", "RETI", "DI", "EI", "HALT", "WriteIf"}

(***************************************************************************)
(* A dispatch in progress has a line to serve, with IME clear, however the *)
(* requests and the enable bits changed since it began (and every part of  *)
(* the state keeps its type).                                              *)
(***************************************************************************)
DispatchHasLine ==
  /\ TypeOK
  /\ phase \in {"push", "vector"} => pending # {} /\ ~ime /\ ~halted

(***************************************************************************)
(* No request is lost but by what is meant to take it: its own line's      *)
(* dispatch, an instruction that stores to IF, or a reset; and one thing   *)
(* that is not meant to, a dispatch that pushes PC onto IF itself. One     *)
(* raised while a dispatch is under way survives the rest of it.           *)
(***************************************************************************)
RequestsSurvive ==
  [][\A i \in iflag \ iflag' :
       \/ phase = "vector" /\ pc' = Vector(i)
       \/ phase = "push" /\ PushToIf
       \/ phase = "execute" /\ last' = "WriteIf"
       \/ phase = "start" /\ last' = "none"]_vars

(***************************************************************************)
(* The halt bug repeats the byte that comes next and no other: it lasts    *)
(* from the HALT that found a request, or from a dispatch right after that *)
(* HALT, to the next fetch, with the processor awake all the while; and at *)
(* most one of HALT, STOP and an illegal opcode holds the processor.       *)
(***************************************************************************)
HaltBugNextFetch ==
  /\ haltBug => /\ last \in {"HALT", "dispatch"}
                /\ phase # "execute" /\ ~halted /\ ~stopped /\ ~illegal
  /\ ~(halted /\ stopped) /\ ~(halted /\ illegal) /\ ~(stopped /\ illegal)

(***************************************************************************)
(* EI takes effect one instruction later (cpu_selftest.cpp:442-446), never *)
(* sooner and never not at all: what sets IME is RETI or what completes    *)
(* right after EI (or after a dispatch that came in between), and that     *)
(* does set it.                                                            *)
(***************************************************************************)
EiOneInstructionLater ==
  [][/\ ~ime /\ ime' => last' = "RETI" \/ last \in {"EI", "dispatch"}
     /\ last = "EI" /\ phase = "execute" /\ phase' = "start" => ime' \/ last' = "DI"]_vars

(***************************************************************************)
(* A request wakes a halted processor even with IME clear                  *)
(* (cpu_selftest.cpp:470), whichever side of the HALT it arrives on.       *)
(***************************************************************************)
RequestWakes == halted /\ Requested # {} ~> ~halted

(***************************************************************************)
(* DI clears IME and the EI that was pending (cpu.cpp:577).                *)
(***************************************************************************)
DiDisables == last = "DI" /\ phase = "start" => ~ime
=============================================================================
