------------------------------- MODULE DmaProofs -------------------------------
(***************************************************************************)
(* The two copiers, OamDma and Hdma.                                       *)
(*                                                                         *)
(* OamDma: type correctness, the schedule of a transfer and that what it   *)
(* copies is a snapshot, for every page length, every set of pages and     *)
(* every number of versions of a byte. The copy is a snapshot because the  *)
(* part of the source not copied yet still stands, byte for byte but for   *)
(* those HBlank DMA, the CPU in HRAM or a moving register changed, which   *)
(* is what the bus protects while the transfer is active. OnSchedule ties  *)
(* the index to that activity, and the conjunction of the three is         *)
(* inductive.                                                              *)
(*                                                                         *)
(* Hdma: what a transfer has moved, what it cost and what HDMA5 says of    *)
(* it, for every size of the memories and every length of a transfer.      *)
(* BlocksInPlace is not inductive: it says nothing of where the next block *)
(* goes. Cursors adds that source and destination are as far from their    *)
(* start as the blocks moved; with a transfer no longer than video memory  *)
(* the next place is then none of those written already. That an HBlank    *)
(* cannot disturb a frozen CPU rests on Exclusive.                         *)
(***************************************************************************)
EXTENDS OamDma, Hdma, TLAPS

-----------------------------------------------------------------------------
(* OamDma. *)

Numbers ==
  /\ page \in Pages \cup {None}
  /\ index \in 0 .. Length
  /\ delay \in {0, 1}
  /\ requested \in Pages \cup {None}
  /\ cycles \in Nat

OamFlags == active \in BOOLEAN /\ tainted \subseteq Indexes

Contents ==
  /\ memory \in [Pages -> [Indexes -> Version]]
  /\ oam \in [Indexes -> (Pages \X Indexes \X Version) \cup {None, Own}]
  /\ snapshot \in [Indexes -> Version]

OamInv == TypeOK /\ OnSchedule /\ CopyIsSnapshot

LEMMA TypeParts == TypeOK <=> Numbers /\ OamFlags /\ Contents
BY DEF TypeOK, Numbers, OamFlags, Contents

LEMMA TypePartsNext == Numbers' /\ OamFlags' /\ Contents' => TypeOK'
BY DEF TypeOK, Numbers, OamFlags, Contents

\* A byte that is stored to has another version.
LEMMA NextVersion ==
  ASSUME NEW v \in Version
  PROVE  (v + 1) % Versions \in Version
BY OamDmaAssumption DEF Version

LEMMA BlankType == Blank \in [Indexes -> Version]
BY OamDmaAssumption DEF Blank, Version

-----------------------------------------------------------------------------
(* One machine cycle of the copier. *)

LEMMA StaysActiveIsBoolean == StaysActive \in BOOLEAN
BY DEF StaysActive, DelayTick

\* The schedule holds after it, whether the transfer goes on, ends or is over.
LEMMA TickSchedule ==
  ASSUME Numbers, OnSchedule, DmaTick
  PROVE  /\ index' \in 0 .. Length /\ delay' \in {0, 1} /\ cycles' \in Nat
         /\ OnSchedule'
<1>0. active' <=> StaysActive
  BY StaysActiveIsBoolean DEF DmaTick
<1> USE OamDmaAssumption DEF Numbers, OnSchedule
<1>1. CASE ~active
  <2>1. UNCHANGED <<page, index, delay, cycles>>
    BY <1>1 DEF DmaTick, DelayTick
  <2>2. ~active'
    BY <1>0, <1>1 DEF StaysActive
  <2> QED
    BY <1>1, <2>1, <2>2
<1>2. CASE active /\ delay > 0
  <2>1. delay' = delay - 1 /\ index' = index /\ cycles' = cycles + 1 /\ page' = page
    BY <1>2 DEF DmaTick, DelayTick
  <2>2. active'
    BY <1>0, <1>2 DEF StaysActive, DelayTick
  <2> QED
    BY <1>2, <2>1, <2>2
<1>3. CASE active /\ delay = 0
  <2>1. delay' = 0 /\ index' = index + 1 /\ cycles' = cycles + 1 /\ page' = page
    BY <1>3 DEF DmaTick, DelayTick
  <2>2. active' <=> index + 1 < Length
    BY <1>0, <1>3 DEF StaysActive, DelayTick
  <2> QED
    BY <1>3, <2>1, <2>2
<1> QED
  BY <1>1, <1>2, <1>3

\* The byte it moves is a well-formed entry.
LEMMA TickOamType ==
  ASSUME Numbers, Contents, OnSchedule
  PROVE  OamAfterTick \in [Indexes -> (Pages \X Indexes \X Version) \cup {None, Own}]
<1>1. CASE active /\ ~DelayTick /\ index < Length
  <2>1. page \in Pages /\ index \in Indexes
    BY <1>1, OamDmaAssumption DEF OnSchedule, Numbers, Indexes
  <2>2. memory[page][index] \in Version
    BY <2>1 DEF Contents
  <2> QED
    BY <1>1, <2>1, <2>2 DEF OamAfterTick, Contents
<1>2. CASE ~(active /\ ~DelayTick /\ index < Length)
  BY <1>2 DEF OamAfterTick, Contents
<1> QED
  BY <1>1, <1>2

\* What is known of an entry already copied, of a byte still ahead, and of the
\* pages whose bytes may change under the copier.
Behind == \A j \in (0 .. index - 1) \ tainted : Copied(j) \/ (~active /\ oam[j] = Own)
Beyond == active => \A j \in (index .. Length - 1) \ tainted : memory[page][j] = snapshot[j]
Clean == page \notin {VramPage, HighPage} => tainted = {}

LEMMA SnapshotParts == CopyIsSnapshot <=> (page # None => Behind /\ Beyond /\ Clean)
BY Zenon DEF CopyIsSnapshot, Behind, Beyond, Clean

\* A change of the bytes s of page p, behind the k-th or ahead of it: those of the
\* source that are ahead are tainted, and the others stand.
LEMMA ChangedAhead ==
  ASSUME memory \in [Pages -> [Indexes -> Version]], tainted \subseteq Indexes,
         NEW p \in Pages, NEW s \in SUBSET Indexes, NEW k \in Nat, Changed(p, s, k)
  PROVE  /\ memory' \in [Pages -> [Indexes -> Version]]
         /\ tainted' \subseteq Indexes /\ tainted \subseteq tainted'
         /\ page # p => tainted' = tainted
         /\ page \in Pages =>
              \A j \in Indexes \ tainted' : j >= k => memory'[page][j] = memory[page][j]
<1>1. memory' = [memory EXCEPT ![p] =
                   [i \in Indexes |-> IF i \in s THEN (@[i] + 1) % Versions ELSE @[i]]]
  BY DEF Changed
<1>2. tainted' = tainted \cup {i \in s : page = p /\ i >= k}
  BY DEF Changed
<1>3. memory' \in [Pages -> [Indexes -> Version]]
  <2>1. \A i \in Indexes : memory[p][i] \in Version /\ (memory[p][i] + 1) % Versions \in Version
    BY NextVersion
  <2> QED BY <1>1, <2>1
<1>4. /\ tainted' \subseteq Indexes /\ tainted \subseteq tainted'
      /\ page # p => tainted' = tainted
  BY <1>2
<1>5. ASSUME page \in Pages, NEW j \in Indexes \ tainted', j >= k
      PROVE  memory'[page][j] = memory[page][j]
  <2>1. CASE page # p
    BY <1>1, <1>5, <2>1
  <2>2. CASE page = p
    <3>1. j \notin s
      BY <1>2, <1>5, <2>2
    <3> QED BY <1>1, <1>5, <2>2, <3>1
  <2> QED BY <2>1, <2>2
<1> QED BY <1>3, <1>4, <1>5

(***************************************************************************)
(* The step on which everything rests: a cycle keeps the copy a snapshot   *)
(* if the CPU's part in it changes OAM only when the transfer is over, and *)
(* taints the bytes of the source it changes ahead of the copier.          *)
(***************************************************************************)
LEMMA TickSnapshot ==
  ASSUME Numbers, Contents, OnSchedule, CopyIsSnapshot, DmaTick,
         tainted \subseteq tainted',
         page \notin {VramPage, HighPage} => tainted' = tainted,
         active' => /\ oam' = OamAfterTick
                    /\ \A j \in Indexes \ tainted' :
                         j >= index' => memory'[page][j] = memory[page][j],
         \A j \in Indexes : oam'[j] = OamAfterTick[j] \/ (~active' /\ oam'[j] = Own)
  PROVE  CopyIsSnapshot'
<1>1. page' = page /\ snapshot' = snapshot
  BY DEF DmaTick
<1>0. SUFFICES ASSUME page # None PROVE (Behind /\ Beyond /\ Clean)'
  BY <1>1 DEF CopyIsSnapshot, Behind, Beyond, Clean
<1>a. Behind /\ Beyond /\ Clean
  BY <1>0, SnapshotParts
<1>b. Clean'
  BY <1>1, <1>a DEF Clean
<1> USE OamDmaAssumption DEF Numbers, OnSchedule, Indexes
<1>2. CASE ~active
  <2>1. ~active' /\ index' = index /\ OamAfterTick = oam
    BY <1>2 DEF DmaTick, StaysActive, OamAfterTick
  <2>2. \A j \in (0 .. index - 1) \ tainted : Copied(j) \/ oam[j] = Own
    BY <1>a, <1>2 DEF Behind
  <2>3. \A j \in 0 .. index - 1 : j \in Indexes
    OBVIOUS
  <2>4. Behind'
    BY <1>1, <2>1, <2>2, <2>3 DEF Behind, Copied
  <2> QED
    BY <1>b, <2>1, <2>4 DEF Beyond
<1>3. CASE active /\ DelayTick
  <2>1. active' /\ index' = index /\ OamAfterTick = oam
    BY <1>3 DEF DmaTick, StaysActive, OamAfterTick
  <2>2. Behind'
    BY <1>1, <1>3, <1>a, <2>1 DEF Behind, Copied
  <2>3. \A j \in (index .. Length - 1) \ tainted : memory[page][j] = snapshot[j]
    BY <1>3, <1>a DEF Beyond
  <2>4. \A j \in (index .. Length - 1) \ tainted' : memory'[page][j] = memory[page][j]
    BY <1>3, <2>1
  <2>5. Beyond'
    BY <1>1, <2>1, <2>3, <2>4 DEF Beyond
  <2> QED
    BY <1>b, <2>2, <2>5
<1>4. CASE active /\ ~DelayTick
  <2>1. index' = index + 1 /\ (active' <=> index + 1 < Length)
    BY <1>4 DEF DmaTick, StaysActive
  <2>2. /\ \A j \in (0 .. index - 1) \ tainted : Copied(j)
        /\ \A j \in (index .. Length - 1) \ tainted : memory[page][j] = snapshot[j]
    BY <1>4, <1>a DEF Behind, Beyond
  <2>3. OamAfterTick = [oam EXCEPT ![index] = <<page, index, memory[page][index]>>]
    BY <1>4 DEF OamAfterTick
  <2>4. DOMAIN oam = Indexes /\ index \in Indexes
    BY <1>4 DEF Contents
  <2>5. \A j \in (0 .. index) \ tainted : OamAfterTick[j] = <<page, j, snapshot[j]>>
    <3>1. index \notin tainted => OamAfterTick[index] = <<page, index, snapshot[index]>>
      BY <1>4, <2>2, <2>3, <2>4
    <3>2. \A j \in 0 .. index - 1 : OamAfterTick[j] = oam[j]
      BY <2>3, <2>4
    <3>3. \A j \in (0 .. index - 1) \ tainted : OamAfterTick[j] = <<page, j, snapshot[j]>>
      BY <2>2, <3>2 DEF Copied
    <3> QED
      BY <3>1, <3>3
  <2>6. Behind'
    <3> SUFFICES ASSUME NEW j \in (0 .. index) \ tainted'
                 PROVE  Copied(j)' \/ (~active' /\ oam'[j] = Own)
      BY <2>1 DEF Behind
    <3>1. j \in Indexes /\ j \notin tainted
      BY <1>4
    <3> QED
      BY <1>1, <2>5, <3>1 DEF Copied
  <2>7. Beyond'
    <3> SUFFICES ASSUME active', NEW j \in (index' .. Length - 1) \ tainted'
                 PROVE  memory'[page][j] = snapshot[j]
      BY <1>1 DEF Beyond
    <3>1. j \in Indexes /\ j \notin tainted /\ j >= index' /\ j \in index .. Length - 1
      BY <1>4, <2>1
    <3> QED
      BY <2>2, <3>1
  <2> QED
    BY <1>b, <2>6, <2>7
<1> QED
  BY <1>2, <1>3, <1>4

-----------------------------------------------------------------------------
(* The inductive invariant. *)

LEMMA InitInv == Init => OamInv
<1> SUFFICES ASSUME Init PROVE OamInv
  OBVIOUS
<1>1. TypeOK
  <2>1. Numbers
    BY OamDmaAssumption DEF Init, Numbers
  <2>2. OamFlags
    BY DEF Init, OamFlags
  <2>3. Contents
    BY BlankType DEF Init, Contents
  <2> QED
    BY <2>1, <2>2, <2>3, TypeParts
<1>2. OnSchedule /\ CopyIsSnapshot
  BY DEF Init, OnSchedule, CopyIsSnapshot
<1> QED
  BY <1>1, <1>2 DEF OamInv

\* What a cycle does whatever the CPU does in it.
LEMMA TickInv ==
  ASSUME OamInv, DmaTick, requested' \in Pages \cup {None},
         memory' \in [Pages -> [Indexes -> Version]],
         oam' \in [Indexes -> (Pages \X Indexes \X Version) \cup {None, Own}],
         tainted \subseteq tainted', tainted' \subseteq Indexes,
         page \notin {VramPage, HighPage} => tainted' = tainted,
         active' => /\ oam' = OamAfterTick
                    /\ \A j \in Indexes \ tainted' :
                         j >= index' => memory'[page][j] = memory[page][j],
         \A j \in Indexes : oam'[j] = OamAfterTick[j] \/ (~active' /\ oam'[j] = Own)
  PROVE  OamInv'
<1> USE TypeParts DEF OamInv
<1>1. Numbers' /\ OnSchedule'
  <2>1. page' \in Pages \cup {None}
    BY DEF Numbers, DmaTick
  <2> QED
    BY <2>1, TickSchedule DEF Numbers
<1>2. OamFlags'
  BY StaysActiveIsBoolean DEF OamFlags, DmaTick
<1>3. Contents'
  BY DEF Contents, DmaTick
<1>4. CopyIsSnapshot'
  BY TickSnapshot
<1> QED
  BY <1>1, <1>2, <1>3, <1>4, TypePartsNext

LEMMA StepInv == OamInv /\ [Next]_vars => OamInv'
<1> SUFFICES ASSUME OamInv, [Next]_vars PROVE OamInv'
  OBVIOUS
<1>0. Numbers /\ OamFlags /\ Contents /\ OnSchedule /\ CopyIsSnapshot
  BY TypeParts DEF OamInv
<1>a. /\ memory \in [Pages -> [Indexes -> Version]]
      /\ requested \in Pages \cup {None} /\ tainted \subseteq Indexes
      /\ index \in Nat /\ (active => page \in Pages)
      /\ OamAfterTick \in [Indexes -> (Pages \X Indexes \X Version) \cup {None, Own}]
  BY <1>0, TickOamType, OamDmaAssumption DEF Contents, Numbers, OamFlags, OnSchedule
<1>b. DmaTick => index' \in Nat /\ (active' => active) /\ page' = page
  <2>1. DmaTick => page' = page
    BY DEF DmaTick
  <2>2. DmaTick => (active' => active)
    BY ZenonT(20) DEF DmaTick, StaysActive
  <2>3. index + 1 \in Nat
    BY <1>a
  <2>4. DmaTick => index' = index \/ index' = index + 1
    BY DEF DmaTick
  <2> QED
    BY <1>a, <2>1, <2>2, <2>3, <2>4
<1>1. CASE OtherCycle
  BY <1>1, <1>a, TickInv DEF OtherCycle
<1>2. ASSUME NEW p \in Pages, NEW i \in Indexes, CpuStore(p, i) PROVE OamInv'
  <2>1. DmaTick /\ oam' = OamAfterTick /\ requested' = requested
    BY <1>2 DEF CpuStore
  <2>2. CASE memory' = memory /\ tainted' = tainted
    BY <1>a, <2>1, <2>2, TickInv
  <2>3. CASE Changed(p, {i}, index') /\ (Blocked => p = HighPage)
    <3>1. /\ memory' \in [Pages -> [Indexes -> Version]]
          /\ tainted' \subseteq Indexes /\ tainted \subseteq tainted'
          /\ page # p => tainted' = tainted
          /\ page \in Pages =>
               \A j \in Indexes \ tainted' : j >= index' => memory'[page][j] = memory[page][j]
      BY <1>a, <1>b, <2>1, <2>3, ChangedAhead
    <3>2. page \notin {VramPage, HighPage} => tainted' = tainted
      <4>1. CASE active'
        <5>1. p = HighPage
          BY <2>1, <2>3, <4>1 DEF Blocked, DmaTick
        <5> QED BY <3>1, <5>1
      <4>2. CASE ~active'
        <5>1. page # None => index' = Length
          <6>1. OnSchedule'
            BY <1>0, <2>1, TickSchedule
          <6> QED BY <1>b, <2>1, <4>2, <6>1 DEF OnSchedule
        <5>2. page = p => page # None
          BY OamDmaAssumption
        <5>3. page = p => ~(i >= index')
          BY <5>1, <5>2, OamDmaAssumption DEF Indexes
        <5> QED BY <2>3, <5>3 DEF Changed
      <4> QED BY <4>1, <4>2
    <3> QED
      BY <1>a, <1>b, <2>1, <3>1, <3>2, TickInv
  <2> QED
    BY <1>2, <2>2, <2>3 DEF CpuStore, InHram
<1>3. ASSUME NEW i \in Indexes, CpuStoreOam(i) PROVE OamInv'
  <2>1. DmaTick /\ memory' = memory /\ requested' = requested /\ tainted' = tainted
    BY <1>3 DEF CpuStoreOam
  <2>2. active' => oam' = OamAfterTick
    BY <1>3 DEF CpuStoreOam, Blocked, DmaTick
  <2>3. ~active' => oam' = [OamAfterTick EXCEPT ![i] = Own]
    BY <1>3 DEF CpuStoreOam, Blocked, DmaTick
  <2>4. oam' \in [Indexes -> (Pages \X Indexes \X Version) \cup {None, Own}]
    BY <1>a, <2>2, <2>3
  <2>5. \A j \in Indexes : oam'[j] = OamAfterTick[j] \/ (~active' /\ oam'[j] = Own)
    BY <1>a, <2>2, <2>3
  <2> QED
    BY <1>a, <2>1, <2>2, <2>4, <2>5, TickInv
<1>c. ASSUME NEW p \in {VramPage, HighPage}, NEW s \in SUBSET Indexes, Changed(p, s, index),
             UNCHANGED <<page, index, delay, active, oam, requested, snapshot, cycles>>
      PROVE  OamInv'
  <2>1. p \in Pages
    BY OamDmaAssumption
  <2>2. /\ memory' \in [Pages -> [Indexes -> Version]]
        /\ tainted' \subseteq Indexes /\ tainted \subseteq tainted'
        /\ page # p => tainted' = tainted
        /\ page \in Pages =>
             \A j \in Indexes \ tainted' : j >= index => memory'[page][j] = memory[page][j]
    BY <1>a, <1>c, <2>1, ChangedAhead
  <2>3. Numbers' /\ OamFlags' /\ Contents'
    BY <1>0, <1>c, <2>2 DEF Numbers, OamFlags, Contents
  <2>4. OnSchedule'
    BY <1>0, <1>c DEF OnSchedule
  <2>5. CopyIsSnapshot'
    <3>1. SUFFICES ASSUME page # None PROVE (Behind /\ Beyond /\ Clean)'
      BY <1>c DEF CopyIsSnapshot, Behind, Beyond, Clean
    <3>2. Behind /\ Beyond /\ Clean
      BY <1>0, <3>1, SnapshotParts
    <3>3. Behind'
      BY <1>c, <2>2, <3>2 DEF Behind, Copied
    <3>4. Clean'
      BY <1>c, <2>2, <3>2 DEF Clean
    <3>5. Beyond'
      <4> SUFFICES ASSUME active, NEW j \in (index .. Length - 1) \ tainted'
                   PROVE  memory'[page][j] = snapshot[j]
        BY <1>c DEF Beyond
      <4>1. j \in Indexes \ tainted' /\ j >= index /\ j \notin tainted
        BY <1>a, <2>2, OamDmaAssumption DEF Indexes
      <4>2. memory[page][j] = snapshot[j]
        BY <3>2, <4>1 DEF Beyond
      <4> QED BY <1>a, <2>2, <4>1, <4>2
    <3> QED BY <3>3, <3>4, <3>5
  <2> QED
    BY <2>3, <2>4, <2>5, TypePartsNext DEF OamInv
<1>4. ASSUME NEW block \in SUBSET Indexes, HdmaStore(block) PROVE OamInv'
  BY <1>4, <1>c, OamDmaAssumption DEF HdmaStore
<1>9. ASSUME NEW i \in Indexes, RegisterMoves(i) PROVE OamInv'
  <2>1. {i} \in SUBSET Indexes
    OBVIOUS
  <2> QED BY <1>9, <1>c, <2>1 DEF RegisterMoves
<1>5. ASSUME NEW p \in Pages, StartDma(p) PROVE OamInv'
  <2>1. /\ page' = p /\ index' = 0 /\ delay' = 1 /\ active' = TRUE
        /\ requested' = p /\ cycles' = 0 /\ tainted' = {}
        /\ snapshot' = memory[p] /\ memory' = memory /\ oam' = OamAfterTick
    BY <1>5 DEF StartDma
  <2>2. Numbers'
    BY <2>1, OamDmaAssumption DEF Numbers
  <2>3. OamFlags' /\ Contents'
    BY <1>a, <2>1 DEF OamFlags, Contents
  <2>4. OnSchedule' /\ CopyIsSnapshot'
    BY <2>1, OamDmaAssumption DEF OnSchedule, CopyIsSnapshot
  <2> QED
    BY <2>2, <2>3, <2>4, TypePartsNext DEF OamInv
<1>6. ASSUME NEW p \in Pages, StartDropped(p) PROVE OamInv'
  BY <1>6, <1>a, TickInv DEF StartDropped
<1>7. CASE Reset
  <2>1. Numbers'
    BY <1>7, OamDmaAssumption DEF Reset, Numbers
  <2>2. OamFlags' /\ Contents'
    BY <1>7, BlankType DEF Reset, OamFlags, Contents
  <2>3. OnSchedule' /\ CopyIsSnapshot'
    BY <1>7 DEF Reset, OnSchedule, CopyIsSnapshot
  <2> QED
    BY <2>1, <2>2, <2>3, TypePartsNext DEF OamInv
<1>8. CASE UNCHANGED vars
  BY <1>0, <1>8, TypePartsNext
     DEF vars, Numbers, OamFlags, Contents, OnSchedule, CopyIsSnapshot, Copied, OamInv
<1> QED
  BY <1>1, <1>2, <1>3, <1>4, <1>5, <1>6, <1>7, <1>8, <1>9 DEF Next

(***************************************************************************)
(* Index, delay and the entries of OAM stay in range.                      *)
(***************************************************************************)
THEOREM OamDmaTypeCorrect == Spec => []TypeOK
<1>1. OamInv => TypeOK
  BY DEF OamInv
<1> QED
  BY InitInv, StepInv, <1>1, PTL DEF Spec

(***************************************************************************)
(* A transfer takes exactly Length + 1 machine cycles.                     *)
(***************************************************************************)
THEOREM OamDmaOnSchedule == Spec => []OnSchedule
<1>1. OamInv => OnSchedule
  BY DEF OamInv
<1> QED
  BY InitInv, StepInv, <1>1, PTL DEF Spec

(***************************************************************************)
(* OAM receives the page as it was when the transfer was started, whatever *)
(* the program stored in between: all of it, if the page is neither in     *)
(* VRAM nor page 0xFF, and otherwise every byte that HBlank DMA, a store   *)
(* of the CPU to HRAM or a register's own movement did not change before   *)
(* its turn.                                                               *)
(***************************************************************************)
THEOREM OamDmaCopyIsSnapshot == Spec => []CopyIsSnapshot
<1>1. OamInv => CopyIsSnapshot
  BY DEF OamInv
<1> QED
  BY InitInv, StepInv, <1>1, PTL DEF Spec

-----------------------------------------------------------------------------
(* Hdma. *)

\* A remainder by a variable length, where the quotient is 0 or 1.
LEMMA Wrap ==
  ASSUME NEW n \in Nat, n > 0, NEW a \in 0 .. 2 * n - 1
  PROVE  a % n = IF a < n THEN a ELSE a - n
<1>1. CASE a < n
  BY <1>1, SMTT(60)
<1>2. CASE a >= n
  BY <1>2, SMTT(60)
<1> QED BY <1>1, <1>2

LEMMA Sizes ==
  /\ SourceBlocks \in Nat /\ VramBlocks \in Nat /\ MaxBlocks \in Nat
  /\ MaxBlocks > 0 /\ VramBlocks >= MaxBlocks /\ SourceBlocks >= VramBlocks
BY HdmaAssumption

-----------------------------------------------------------------------------
(* The parts of the invariant. *)

Registers ==
  /\ sourceReg \in Sources /\ destReg \in VramAddrs
  /\ source \in Sources /\ dest \in VramAddrs
  /\ from \in Sources /\ to \in VramAddrs

Counters ==
  /\ length \in 0 .. MaxBlocks /\ total \in 0 .. MaxBlocks /\ turns \in Nat
  /\ length <= total

HdmaFlags == hdmaActive \in BOOLEAN /\ frozen \in BOOLEAN /\ lcdOn \in BOOLEAN

Target == vram \in [VramAddrs -> Sources \cup {Untouched}]

\* A frozen CPU is copying by itself, and an active transfer has blocks left.
Exclusive == (frozen => ~hdmaActive) /\ (hdmaActive => length > 0)

Cursors ==
  /\ source = (from + Moved) % SourceBlocks
  /\ dest = (to + Moved) % VramBlocks

InPlace ==
  \A k \in 0 .. Moved - 1 : vram[(to + k) % VramBlocks] = (from + k) % SourceBlocks

HInv ==
  /\ Registers /\ Counters /\ HdmaFlags /\ Target
  /\ Exclusive /\ Cursors /\ InPlace /\ EachBlockPaidFor

\* A step that leaves the transfer alone.
Idle == UNCHANGED <<source, dest, length, vram, total, from, to, turns>>

LEMMA IdleKeeps ==
  ASSUME HInv, Idle, sourceReg' \in Sources, destReg' \in VramAddrs, HdmaFlags', Exclusive'
  PROVE  HInv'
BY DEF HInv, Idle, Registers, Counters, Target, Cursors, InPlace, EachBlockPaidFor, Moved

-----------------------------------------------------------------------------
(* A block. *)

\* The places and the blocks a transfer passes are all different.
LEMMA NextPlaceIsNew ==
  ASSUME NEW t \in VramAddrs, NEW m \in 0 .. VramBlocks - 1, NEW k \in 0 .. m - 1
  PROVE  (t + k) % VramBlocks # (t + m) % VramBlocks
<1>1. /\ t + k \in 0 .. 2 * VramBlocks - 1 /\ t + m \in 0 .. 2 * VramBlocks - 1
      /\ VramBlocks \in Nat /\ VramBlocks > 0 /\ t \in Nat /\ m \in Nat /\ k \in Nat
  BY Sizes DEF VramAddrs
<1>2. /\ (t + k) % VramBlocks = IF t + k < VramBlocks THEN t + k ELSE t + k - VramBlocks
      /\ (t + m) % VramBlocks = IF t + m < VramBlocks THEN t + m ELSE t + m - VramBlocks
  BY <1>1, Wrap
<1>3. k < m /\ m < VramBlocks
  BY <1>1
<1> QED BY <1>1, <1>2, <1>3

\* A cursor moves on by one and wraps.
LEMMA CursorMovesOn ==
  ASSUME NEW n \in Nat, n > 0, NEW a \in 0 .. n - 1, NEW m \in 0 .. n - 1
  PROVE  (((a + m) % n) + 1) % n = (a + (m + 1)) % n
<1>1. a + m \in 0 .. 2 * n - 1 /\ a + (m + 1) \in 0 .. 2 * n - 1
  OBVIOUS
<1> DEFINE w == (a + m) % n
<1>2. w = IF a + m < n THEN a + m ELSE a + m - n
  BY <1>1, Wrap
<1>3. (a + (m + 1)) % n = IF a + (m + 1) < n THEN a + (m + 1) ELSE a + (m + 1) - n
  BY <1>1, Wrap
<1> DEFINE z == w + 1
<1> HIDE DEF w
<1>4. w \in 0 .. n - 1 /\ z = w + 1 /\ z \in 0 .. 2 * n - 1
  BY <1>2
<1>5. z % n = IF z < n THEN z ELSE z - n
  <2> HIDE DEF z
  <2> QED BY <1>4, Wrap
<1>6. z % n = (a + (m + 1)) % n
  <2> HIDE DEF z
  <2> QED BY <1>2, <1>3, <1>4, <1>5
<1> QED BY <1>6 DEF w

LEMMA BlockKeeps ==
  ASSUME HInv, TransferBlock, length > 0, turns' = turns + 1,
         UNCHANGED <<regs, frozen, lcdOn, history>>
  PROVE  HInv'
<1>1. /\ vram' = [vram EXCEPT ![dest] = source]
      /\ source' = (source + 1) % SourceBlocks
      /\ dest' = (dest + 1) % VramBlocks
      /\ length' = length - 1
      /\ hdmaActive' = (hdmaActive /\ length' > 0)
  BY DEF TransferBlock
<1>2. /\ sourceReg' = sourceReg /\ destReg' = destReg /\ frozen' = frozen /\ lcdOn' = lcdOn
      /\ total' = total /\ from' = from /\ to' = to
  BY DEF regs, history
<1>3. /\ source \in Sources /\ dest \in VramAddrs /\ from \in Sources /\ to \in VramAddrs
      /\ source \in Nat /\ dest \in Nat /\ from \in Nat /\ to \in Nat
  BY Sizes DEF HInv, Registers, Sources, VramAddrs
<1>4. /\ length \in Nat /\ total \in Nat /\ length <= total /\ total <= MaxBlocks
      /\ turns \in Nat /\ turns = Moved /\ Moved = total - length
  BY Sizes DEF HInv, Counters, EachBlockPaidFor, Moved
<1>5. Moved' = Moved + 1 /\ Moved \in 0 .. MaxBlocks - 1
  BY <1>1, <1>2, <1>4, Sizes DEF Moved
<1>6. source' \in Sources /\ dest' \in VramAddrs
  BY <1>1, <1>3, Sizes DEF Sources, VramAddrs
<1>7. Registers'
  BY <1>2, <1>6 DEF HInv, Registers
<1>8. Counters'
  BY <1>1, <1>2, <1>4, Sizes DEF Counters
<1>9. HdmaFlags' /\ Exclusive'
  <2>1. HdmaFlags'
    BY <1>1, <1>2, Zenon DEF HInv, HdmaFlags
  <2>2. frozen' => ~hdmaActive'
    <3>1. frozen => ~hdmaActive
      BY Zenon DEF HInv, Exclusive
    <3>2. hdmaActive' => hdmaActive
      BY <1>1, Zenon
    <3> QED BY <1>2, <3>1, <3>2
  <2>3. hdmaActive' => length' > 0
    BY <1>1, Zenon
  <2> QED BY <2>1, <2>2, <2>3, Zenon DEF Exclusive
<1>10. Target'
  BY <1>1, <1>3 DEF HInv, Target
<1>11. EachBlockPaidFor'
  BY <1>4, <1>5 DEF EachBlockPaidFor
<1>12. Cursors'
  <2>1. source = (from + Moved) % SourceBlocks /\ dest = (to + Moved) % VramBlocks
    BY DEF HInv, Cursors
  <2>2. Moved \in 0 .. SourceBlocks - 1 /\ Moved \in 0 .. VramBlocks - 1
    BY <1>5, Sizes
  <2>3. (((from + Moved) % SourceBlocks) + 1) % SourceBlocks = (from + (Moved + 1)) % SourceBlocks
    BY <1>3, <2>2, Sizes, CursorMovesOn DEF Sources
  <2>4. (((to + Moved) % VramBlocks) + 1) % VramBlocks = (to + (Moved + 1)) % VramBlocks
    BY <1>3, <2>2, Sizes, CursorMovesOn DEF VramAddrs
  <2> QED BY <1>1, <1>2, <1>5, <2>1, <2>3, <2>4 DEF Cursors
<1>13. InPlace'
  <2>1. SUFFICES ASSUME NEW k \in 0 .. Moved'- 1
                 PROVE  vram'[(to + k) % VramBlocks] = (from + k) % SourceBlocks
    BY <1>2 DEF InPlace
  <2>2. k \in 0 .. Moved /\ k \in Nat
    BY <1>5, <2>1
  <2>3. (to + k) % VramBlocks \in VramAddrs
    BY <1>3, <2>2, Sizes DEF VramAddrs
  <2>4. CASE k = Moved
    <3>1. (to + k) % VramBlocks = dest /\ (from + k) % SourceBlocks = source
      BY <2>4 DEF HInv, Cursors
    <3> QED BY <1>1, <1>3, <3>1 DEF HInv, Target
  <2>5. CASE k # Moved
    <3>1. k \in 0 .. Moved - 1 /\ Moved \in 0 .. VramBlocks - 1
      BY <1>5, <2>2, <2>5, Sizes
    <3>2. (to + k) % VramBlocks # dest
      BY <1>3, <3>1, NextPlaceIsNew DEF HInv, Cursors
    <3>3. vram[(to + k) % VramBlocks] = (from + k) % SourceBlocks
      BY <3>1 DEF HInv, InPlace
    <3> QED BY <1>1, <2>3, <3>2, <3>3 DEF HInv, Target
  <2> QED BY <2>4, <2>5
<1> QED BY <1>7, <1>8, <1>9, <1>10, <1>11, <1>12, <1>13 DEF HInv

-----------------------------------------------------------------------------
(* The start of a transfer. *)

\* Nothing moved yet: the cursors stand at the start.
Fresh ==
  /\ Registers /\ Counters /\ HdmaFlags /\ Target /\ Exclusive
  /\ length = total /\ source = from /\ dest = to /\ turns = 0

LEMMA FreshTransfer == Fresh => HInv
<1> SUFFICES ASSUME Fresh PROVE HInv
  OBVIOUS
<1>1. total \in Nat /\ length = total /\ Moved = total - length
  BY Sizes DEF Fresh, Counters, Moved
<1>2. Moved = 0
  BY <1>1
<1>3. from \in 0 .. SourceBlocks - 1 /\ to \in 0 .. VramBlocks - 1
  BY DEF Fresh, Registers, Sources, VramAddrs
<1>4. from % SourceBlocks = from /\ to % VramBlocks = to
  <2>1. from \in 0 .. 2 * SourceBlocks - 1 /\ from < SourceBlocks
    BY <1>3, Sizes
  <2>2. to \in 0 .. 2 * VramBlocks - 1 /\ to < VramBlocks
    BY <1>3, Sizes
  <2> QED BY <2>1, <2>2, Sizes, Wrap
<1>5. from + Moved = from /\ to + Moved = to
  BY <1>2, <1>3, Sizes
<1>6. Cursors
  BY <1>4, <1>5 DEF Fresh, Cursors
<1>7. InPlace /\ EachBlockPaidFor
  BY <1>2 DEF Fresh, InPlace, EachBlockPaidFor
<1> QED BY <1>6, <1>7 DEF Fresh, HInv

LEMMA FreshTransferNext == Fresh' => HInv'
BY FreshTransfer, PTL

LEMMA LatchKeeps ==
  ASSUME HInv, NEW n \in 1 .. MaxBlocks, Latch(n), HdmaFlags', frozen' => ~hdmaActive'
  PROVE  HInv'
<1>1. /\ sourceReg' = sourceReg /\ destReg' = destReg /\ lcdOn' = lcdOn /\ vram' = vram
      /\ source' = sourceReg /\ dest' = destReg /\ length' = n
      /\ total' = n /\ from' = sourceReg /\ to' = destReg /\ turns' = 0
  BY DEF Latch, regs
<1>2. Registers' /\ Target'
  BY <1>1 DEF HInv, Registers, Target
<1>3. Counters' /\ length' > 0
  BY <1>1, Sizes DEF Counters
<1>4. Exclusive'
  BY <1>3, Zenon DEF Exclusive
<1>5. Fresh'
  BY <1>1, <1>2, <1>3, <1>4 DEF Fresh
<1> QED BY <1>5, FreshTransferNext

\* Power-on, which a reset returns to, is a transfer of no blocks.
LEMMA HdmaBlankType ==
  /\ SourceBlocks - 1 \in Sources /\ VramBlocks - 1 \in VramAddrs
  /\ 0 \in Sources /\ 0 \in VramAddrs /\ 0 \in 0 .. MaxBlocks /\ 0 \in Nat /\ 0 <= 0
  /\ [b \in VramAddrs |-> Untouched] \in [VramAddrs -> Sources \cup {Untouched}]
BY Sizes DEF Sources, VramAddrs

LEMMA HInvInit == HdmaInit => HInv
<1>1. HdmaInit => Fresh
  BY HdmaBlankType, Zenon DEF HdmaInit, Fresh, Registers, Counters, HdmaFlags, Target, Exclusive
<1> QED BY <1>1, FreshTransfer

LEMMA ResetKeeps == HdmaReset => HInv'
<1>1. HdmaReset => Fresh'
  BY HdmaBlankType, Zenon DEF HdmaReset, Fresh, Registers, Counters, HdmaFlags, Target, Exclusive
<1> QED BY <1>1, FreshTransferNext

LEMMA HInvStep == HInv /\ [HdmaNext]_hdmaVars => HInv'
<1> SUFFICES ASSUME HInv, [HdmaNext]_hdmaVars PROVE HInv'
  OBVIOUS
<1>1. CASE HBlank
  <2>1. ~frozen /\ length > 0
    BY <1>1 DEF HBlank, Services, HInv, Exclusive
  <2>2. turns' = turns + 1
    BY <1>1, <2>1 DEF HBlank
  <2> QED BY <1>1, <2>1, <2>2, BlockKeeps DEF HBlank
<1>2. CASE GdmaBlock
  BY <1>2, BlockKeeps DEF GdmaBlock
<1>3. CASE GdmaEnd
  <2>1. Idle /\ sourceReg' = sourceReg /\ destReg' = destReg
    BY <1>3 DEF GdmaEnd, Idle, regs, history
  <2>2. HdmaFlags' /\ Exclusive'
    BY <1>3 DEF GdmaEnd, HInv, HdmaFlags, Exclusive
  <2> QED BY <2>1, <2>2, IdleKeeps DEF HInv, Registers
<1>4. ASSUME NEW s \in Sources, NEW d \in VramAddrs, WriteRegs(s, d) PROVE HInv'
  <2>1. Idle /\ sourceReg' \in Sources /\ destReg' \in VramAddrs
    BY <1>4 DEF WriteRegs, Idle
  <2>2. HdmaFlags' /\ Exclusive'
    BY <1>4 DEF WriteRegs, HInv, HdmaFlags, Exclusive
  <2> QED BY <2>1, <2>2, IdleKeeps
<1>5. CASE Cancel
  <2>1. Idle /\ sourceReg' = sourceReg /\ destReg' = destReg
    BY <1>5 DEF Cancel, Idle, regs
  <2>2. HdmaFlags' /\ Exclusive'
    BY <1>5 DEF Cancel, HInv, HdmaFlags, Exclusive
  <2> QED BY <2>1, <2>2, IdleKeeps DEF HInv, Registers
<1>6. ASSUME NEW n \in 1 .. MaxBlocks, StartGeneral(n) PROVE HInv'
  <2>1. HdmaFlags' /\ (frozen' => ~hdmaActive')
    BY <1>6 DEF StartGeneral, Latch, HInv, HdmaFlags
  <2> QED BY <1>6, <2>1, LatchKeeps DEF StartGeneral
<1>7. ASSUME NEW n \in 1 .. MaxBlocks, StartHBlank(n) PROVE HInv'
  <2>1. HdmaFlags' /\ (frozen' => ~hdmaActive')
    BY <1>7 DEF StartHBlank, Latch, HInv, HdmaFlags
  <2> QED BY <1>7, <2>1, LatchKeeps DEF StartHBlank
<1>8. CASE SwitchLcd
  <2>1. Idle /\ sourceReg' = sourceReg /\ destReg' = destReg
    BY <1>8 DEF SwitchLcd, Idle, regs, history
  <2>2. HdmaFlags' /\ Exclusive'
    BY <1>8 DEF SwitchLcd, HInv, HdmaFlags, Exclusive
  <2> QED BY <2>1, <2>2, IdleKeeps DEF HInv, Registers
<1>9. CASE HdmaReset
  BY <1>9, ResetKeeps
<1>10. CASE UNCHANGED hdmaVars
  <2>1. Idle /\ sourceReg' = sourceReg /\ destReg' = destReg
    BY <1>10 DEF hdmaVars, Idle, regs, history
  <2>2. HdmaFlags' /\ Exclusive'
    BY <1>10 DEF hdmaVars, HInv, HdmaFlags, Exclusive
  <2> QED BY <2>1, <2>2, IdleKeeps DEF HInv, Registers
<1> QED
  BY <1>1, <1>2, <1>3, <1>4, <1>5, <1>6, <1>7, <1>8, <1>9, <1>10 DEF HdmaNext, Copying

LEMMA HdmaInvariance == HdmaSpec => []HInv
BY HInvInit, HInvStep, PTL DEF HdmaSpec

-----------------------------------------------------------------------------

(***************************************************************************)
(* A transfer puts its blocks in order at consecutive places, wrapping at  *)
(* the end of video memory, for every size of it and in every interleaving *)
(* of HBlanks, the copy loop and stores (Bus::hdma_transfer_block).        *)
(***************************************************************************)
THEOREM HdmaBlocksInPlace == HdmaSpec => []BlocksInPlace
<1>1. HInv => HdmaTypeOK
  BY DEF HInv, HdmaTypeOK, Registers, Counters, HdmaFlags, Target
<1>2. HInv => BlocksInPlace
  BY <1>1 DEF HInv, BlocksInPlace, Counters, InPlace
<1> QED BY <1>2, HdmaInvariance, PTL

(***************************************************************************)
(* No block without an HBlank of its own or a tick of the frozen CPU, and  *)
(* none of these without a block (Bus::hdma_service_hblank).               *)
(***************************************************************************)
THEOREM HdmaEachBlockPaidFor == HdmaSpec => []EachBlockPaidFor
<1>1. HInv => EachBlockPaidFor
  BY DEF HInv
<1> QED BY <1>1, HdmaInvariance, PTL

(***************************************************************************)
(* HDMA5 tells whether HBlanks still move blocks and how many are left,    *)
(* for every length of a transfer (Bus::dispatch_read).                        *)
(***************************************************************************)
THEOREM HdmaStatusTruthful == HdmaSpec => []StatusTruthful
<1>1. HInv => StatusTruthful
  <2> SUFFICES ASSUME HInv PROVE StatusTruthful
    OBVIOUS
  <2>1. length \in Nat /\ length <= MaxBlocks /\ (hdmaActive => length > 0)
    BY Sizes DEF HInv, Counters, Exclusive
  <2>2. CASE length = 0
    <3>1. ~hdmaActive /\ Hdma5 = 2 * MaxBlocks - 1
      BY <2>1, <2>2 DEF Hdma5
    <3> QED BY <3>1, Sizes DEF StatusTruthful
  <2>3. CASE length > 0
    <3>1. length - 1 \in 0 .. 2 * MaxBlocks - 1 /\ length - 1 < MaxBlocks
      BY <2>1, <2>3, Sizes
    <3>2. (length - 1) % MaxBlocks = length - 1
      BY <3>1, Sizes, Wrap
    <3>3. CASE hdmaActive
      <4>1. Hdma5 = length - 1
        BY <2>1, <2>3, <3>2, <3>3 DEF Hdma5
      <4> QED BY <2>1, <3>1, <3>3, <4>1 DEF StatusTruthful
    <3>4. CASE ~hdmaActive
      <4>1. Hdma5 = MaxBlocks + (length - 1)
        BY <2>1, <2>3, <3>2, <3>4 DEF Hdma5
      <4> QED BY <2>1, <2>3, <3>4, <4>1, Sizes DEF StatusTruthful
    <3> QED BY <3>3, <3>4
  <2> QED BY <2>1, <2>2, <2>3
<1> QED BY <1>1, HdmaInvariance, PTL
=============================================================================
