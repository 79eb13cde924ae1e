---------------------------- MODULE WindowProofs -----------------------------
(***************************************************************************)
(* Proofs about the window's event loop and the joypad: what holds of the  *)
(* pad once the queue is empty, whatever the number of keys, buttons and   *)
(* bindings and however many events wait; and the edges of its wires.      *)
(***************************************************************************)
EXTENDS Window, TLAPS

-----------------------------------------------------------------------------
(* The events. *)

\* An event about button b: a press or a release of a key bound to it.
About(e, b) == e \in KeyEvents /\ Bound[e[2]] = b

\* The loop has still to look at an event about b.
Awaited(b) == \E i \in 1 .. Len(queue) : About(queue[i], b)

\* A command is not about any button, nor is a key a command.
LEMMA CommandsApart ==
  /\ \A c \in Commands : <<c>> \notin KeyEvents
  /\ \A e \in KeyEvents : e[1] \notin Commands
<1>1. ASSUME NEW c \in Commands PROVE <<c>> \notin KeyEvents
  BY DEF KeyEvents
<1>2. ASSUME NEW e \in KeyEvents PROVE e[1] \notin Commands
  BY DEF KeyEvents, Commands
<1> QED BY <1>1, <1>2

\* What a key event is made of.
LEMMA KeyEventParts ==
  ASSUME NEW e \in KeyEvents
  PROVE  /\ e[1] \in {"press", "release"} /\ e[2] \in Keys
         /\ e = <<e[1], e[2]>> /\ Bound[e[2]] \in Buttons
  BY WindowAssumption DEF KeyEvents

-----------------------------------------------------------------------------
(* The types. *)

\* Putting an event in the queue, and taking one out of it.
LEMMA QueueTypes ==
  ASSUME NEW q \in Seq(KeyEvents \cup CommandEvents), Len(q) <= MaxQueue
  PROVE  /\ \A e \in KeyEvents \cup CommandEvents :
              Len(q) < MaxQueue =>
                /\ Append(q, e) \in Seq(KeyEvents \cup CommandEvents)
                /\ Len(Append(q, e)) <= MaxQueue
         /\ q # <<>> =>
              /\ Head(q) \in KeyEvents \cup CommandEvents
              /\ Tail(q) \in Seq(KeyEvents \cup CommandEvents) /\ Len(Tail(q)) <= MaxQueue
<1>1. MaxQueue \in Nat
  BY WindowAssumption
<1> DEFINE E == KeyEvents \cup CommandEvents
<1>2. q \in Seq(E)
  OBVIOUS
<1> HIDE DEF E
<1>3. ASSUME NEW e \in E, Len(q) < MaxQueue
      PROVE  Append(q, e) \in Seq(E) /\ Len(Append(q, e)) <= MaxQueue
  BY <1>1, <1>2, <1>3
<1>4. ASSUME q # <<>>
      PROVE  Head(q) \in E /\ Tail(q) \in Seq(E) /\ Len(Tail(q)) <= MaxQueue
  BY <1>1, <1>2, <1>4
<1> QED BY <1>3, <1>4 DEF E

\* What an event does to the pad: the browser took it, the pad was cleared,
\* nothing, or the button of a key was set.
Swallows(e) ==
  /\ e \in KeyEvents /\ swallowed' = swallowed \cup {Bound[e[2]]}
  /\ UNCHANGED <<padVars, dropped>>
Clears(e) == e \notin KeyEvents /\ ResetPad /\ UNCHANGED swallowed
Ignores(e) == e \notin KeyEvents /\ UNCHANGED <<padVars, swallowed, dropped>>
Sets(e) == e \in KeyEvents /\ BoundKey(e)

\* Every way of handling an event is one of the four.
LEMMA HandleEffects ==
  ASSUME NEW e \in KeyEvents \cup CommandEvents, NEW ok \in BOOLEAN, Handle(e, ok)
  PROVE  Swallows(e) \/ Clears(e) \/ Ignores(e) \/ Sets(e)
<1>1. <<"quit">> \notin KeyEvents /\ <<"drop">> \notin KeyEvents /\ <<"choose">> \notin KeyEvents
      /\ <<"escape">> \notin KeyEvents
  BY CommandsApart DEF Commands
<1>2. CASE e = <<"quit">> /\ Quit
  BY <1>1, <1>2, Zenon DEF Quit, Ignores
<1>3. CASE e = <<"drop">> /\ Drop(ok)
  BY <1>1, <1>3, Zenon DEF Drop, LoadCartridge, Clears, Ignores
<1>4. CASE InBrowser(e, ok)
  <2>1. CASE e = <<"choose">>
    BY <1>1, <1>4, <2>1, Zenon DEF InBrowser, LoadCartridge, Clears, Ignores
  <2>2. CASE e = <<"escape">>
    <3>1. e # <<"choose">>
      BY <2>2
    <3> QED BY <1>1, <1>4, <2>2, <3>1, Zenon DEF InBrowser, Ignores
  <2>3. CASE e # <<"choose">> /\ e # <<"escape">>
    BY <1>4, <2>3, Zenon DEF InBrowser, Ignores, Swallows
  <2> QED BY <2>1, <2>2, <2>3
<1>5. CASE e[1] \in Commands /\ Command(e[1])
  <2>1. e \notin KeyEvents
    BY <1>5, CommandsApart
  <2> QED BY <1>5, <2>1, Zenon DEF Command, Clears, Ignores
<1>6. CASE e \in KeyEvents /\ BoundKey(e)
  BY <1>6 DEF Sets
<1> QED BY <1>2, <1>3, <1>4, <1>5, <1>6, Zenon DEF Handle

\* The loop's own flags stay flags.
LEMMA HandleFlags ==
  ASSUME TypeOK, NEW e, NEW ok \in BOOLEAN, Handle(e, ok)
  PROVE  browser' \in BOOLEAN /\ paused' \in BOOLEAN /\ loaded' \in BOOLEAN /\ running' \in BOOLEAN
<1>1. /\ browser \in BOOLEAN /\ paused \in BOOLEAN /\ loaded \in BOOLEAN /\ running \in BOOLEAN
  BY DEF TypeOK
<1>2. ASSUME NEW c, Command(c)
      PROVE  browser' \in BOOLEAN /\ paused' \in BOOLEAN /\ loaded' \in BOOLEAN /\ running' \in BOOLEAN
  BY <1>1, <1>2, Zenon DEF Command
<1>3. ASSUME Quit
      PROVE  browser' \in BOOLEAN /\ paused' \in BOOLEAN /\ loaded' \in BOOLEAN /\ running' \in BOOLEAN
  BY <1>1, <1>3, Zenon DEF Quit
<1>4. ASSUME Drop(ok)
      PROVE  browser' \in BOOLEAN /\ paused' \in BOOLEAN /\ loaded' \in BOOLEAN /\ running' \in BOOLEAN
  BY <1>1, <1>4, Zenon DEF Drop, LoadCartridge
<1>5. ASSUME InBrowser(e, ok)
      PROVE  browser' \in BOOLEAN /\ paused' \in BOOLEAN /\ loaded' \in BOOLEAN /\ running' \in BOOLEAN
  BY <1>1, <1>5, Zenon DEF InBrowser, LoadCartridge
<1>6. ASSUME BoundKey(e)
      PROVE  browser' \in BOOLEAN /\ paused' \in BOOLEAN /\ loaded' \in BOOLEAN /\ running' \in BOOLEAN
  BY <1>1, <1>6, Zenon DEF BoundKey
<1> QED BY <1>2, <1>3, <1>4, <1>5, <1>6, Zenon DEF Handle

\* The pad and its histories hold buttons and halves.
LEMMA EffectTypes ==
  ASSUME TypeOK, NEW e, Swallows(e) \/ Clears(e) \/ Ignores(e) \/ Sets(e)
  PROVE  /\ buttons' \subseteq Buttons /\ selected' \subseteq Halves /\ irq' \in BOOLEAN
         /\ swallowed' \subseteq Buttons /\ dropped' \subseteq Buttons
<1>0. /\ buttons \subseteq Buttons /\ selected \subseteq Halves /\ irq \in BOOLEAN
      /\ swallowed \subseteq Buttons /\ dropped \subseteq Buttons
  BY DEF TypeOK
<1>1. CASE Swallows(e)
  <2>1. Bound[e[2]] \in Buttons
    BY <1>1, KeyEventParts DEF Swallows
  <2> QED BY <1>0, <1>1, <2>1 DEF Swallows, padVars
<1>2. CASE Clears(e)
  BY <1>0, <1>2 DEF Clears, ResetPad
<1>3. CASE Ignores(e)
  BY <1>0, <1>3 DEF Ignores, padVars
<1>4. CASE Sets(e)
  <2>1. Bound[e[2]] \in Buttons
    BY <1>4, KeyEventParts DEF Sets
  <2>2. irq' \in BOOLEAN
    BY <1>4, Zenon DEF Sets, BoundKey, Set
  <2>3. selected' = selected /\ buttons' \in {buttons \cup {Bound[e[2]]}, buttons \ {Bound[e[2]]}}
    BY <1>4, Zenon DEF Sets, BoundKey, Set
  <2>4. /\ swallowed' = swallowed \ {Bound[e[2]]}
        /\ dropped' \in {dropped, dropped \ {Bound[e[2]]}, dropped \cup {Bound[e[2]]}}
    BY <1>4, Zenon DEF Sets, BoundKey
  <2> QED BY <1>0, <2>1, <2>2, <2>3, <2>4
<1> QED BY <1>1, <1>2, <1>3, <1>4

\* Every step keeps the types.
LEMMA TypesKept == TypeOK /\ [Next]_vars => TypeOK'
<1> SUFFICES ASSUME TypeOK, [Next]_vars PROVE TypeOK'
  OBVIOUS
<1>1. ASSUME NEW e \in KeyEvents \cup CommandEvents, Happens(e), fingers' \subseteq Keys
      PROVE  TypeOK'
  <2>1. queue' \in Seq(KeyEvents \cup CommandEvents) /\ Len(queue') <= MaxQueue
    BY <1>1, QueueTypes DEF TypeOK, Happens
  <2> QED BY <1>1, <2>1, Zenon DEF TypeOK, Happens, loopVars, padVars
<1>2. ASSUME NEW k \in Keys, Press(k) \/ Release(k) PROVE TypeOK'
  <2>1. <<"press", k>> \in KeyEvents /\ <<"release", k>> \in KeyEvents
    BY DEF KeyEvents
  <2>2. fingers' \subseteq Keys
    BY <1>2 DEF TypeOK, Press, Release
  <2> QED BY <1>1, <1>2, <2>1, <2>2, Zenon DEF Press, Release
<1>3. ASSUME NEW c \in Commands, Ask(c) PROVE TypeOK'
  <2>1. <<c>> \in CommandEvents /\ fingers' \subseteq Keys
    BY <1>3 DEF TypeOK, Ask, CommandEvents
  <2> QED BY <1>1, <1>3, <2>1 DEF Ask
<1>4. ASSUME NEW ok \in BOOLEAN, Poll(ok) PROVE TypeOK'
  <2>1. /\ Head(queue) \in KeyEvents \cup CommandEvents
        /\ queue' \in Seq(KeyEvents \cup CommandEvents) /\ Len(queue') <= MaxQueue
    BY <1>4, QueueTypes DEF TypeOK, Poll
  <2>2. Handle(Head(queue), ok) /\ phase = "events" /\ phase' = phase /\ fingers' = fingers
    BY <1>4, Zenon DEF Poll
  <2>3. /\ buttons' \subseteq Buttons /\ selected' \subseteq Halves /\ irq' \in BOOLEAN
        /\ swallowed' \subseteq Buttons /\ dropped' \subseteq Buttons
    BY <2>1, <2>2, HandleEffects, EffectTypes
  <2>4. browser' \in BOOLEAN /\ paused' \in BOOLEAN /\ loaded' \in BOOLEAN /\ running' \in BOOLEAN
    BY <2>2, HandleFlags
  <2>5. phase' \in {"events", "frame", "closed"} /\ phase' # "frame" /\ fingers' \subseteq Keys
    BY <2>2 DEF TypeOK
  <2> QED BY <2>1, <2>3, <2>4, <2>5, Zenon DEF TypeOK
<1>5. CASE BeginFrame
  BY <1>5, Zenon DEF TypeOK, BeginFrame, Emulates
<1>6. ASSUME NEW stop \in BOOLEAN, Present(stop) PROVE TypeOK'
  <2>1. phase' \in {"events", "frame", "closed"} /\ phase' # "frame"
    BY <1>6 DEF Present
  <2>2. running' \in BOOLEAN
    BY <1>6, Zenon DEF TypeOK, Present
  <2> QED BY <1>6, <2>1, <2>2, Zenon DEF TypeOK, Present, padVars
<1>7. CASE Tick
  BY <1>7, Zenon DEF TypeOK, Tick, loopVars
<1>8. ASSUME NEW halves \in SUBSET Halves, WriteJoyp(halves) PROVE TypeOK'
  <2>1. irq' \in BOOLEAN
    BY <1>8, Zenon DEF WriteJoyp, Falls
  <2> QED BY <1>8, <2>1, Zenon DEF TypeOK, WriteJoyp, loopVars
<1>9. CASE UNCHANGED vars
  BY <1>9, Zenon DEF TypeOK, vars, loopVars, padVars
<1> QED
  BY <1>2, <1>3, <1>4, <1>5, <1>6, <1>7, <1>8, <1>9, Zenon DEF Next, Player, Loop, Program

-----------------------------------------------------------------------------
(* What the queue and the pad know of the keys. *)

\* The last event about a button tells the truth when it is a press.
QueueTells ==
  \A i \in 1 .. Len(queue), k \in Keys :
    queue[i] = <<"press", k>> /\ (\A j \in i + 1 .. Len(queue) : ~About(queue[j], Bound[k]))
      => HeldDown(Bound[k])

\* A button no event waits for is where its keys are, but for what the
\* browser took and what was cleared or let go.
PadTells ==
  \A b \in Buttons : ~Awaited(b) =>
    /\ b \in buttons /\ ~HeldDown(b) => b \in swallowed
    /\ b \notin buttons /\ HeldDown(b) => b \in swallowed \cup dropped

IInv == TypeOK /\ QueueTells /\ PadTells

\* An event put at the end of the queue.
LEMMA Appended ==
  ASSUME NEW S, NEW q \in Seq(S), NEW e \in S
  PROVE  /\ Len(q) \in Nat /\ Len(Append(q, e)) = Len(q) + 1
         /\ \A i \in 1 .. Len(q) : Append(q, e)[i] = q[i]
         /\ Append(q, e)[Len(q) + 1] = e
  OBVIOUS

\* An event taken from its front.
LEMMA Taken ==
  ASSUME NEW S, NEW q \in Seq(S), q # <<>>
  PROVE  /\ Len(q) \in Nat /\ Len(q) > 0 /\ Len(Tail(q)) = Len(q) - 1 /\ q[1] = Head(q)
         /\ \A i \in 1 .. Len(q) - 1 : Tail(q)[i] = q[i + 1]
  OBVIOUS

\* The player's events: what they say and what they leave alone.
LEMMA HappensKeeps ==
  ASSUME IInv, NEW e \in KeyEvents \cup CommandEvents, Happens(e),
         \A b \in Buttons : ~About(e, b) => (HeldDown(b)' <=> HeldDown(b)),
         \A k \in Keys : e = <<"press", k>> => HeldDown(Bound[k])'
  PROVE  QueueTells' /\ PadTells'
<1>1. /\ Len(queue) \in Nat /\ Len(queue') = Len(queue) + 1
      /\ \A i \in 1 .. Len(queue) : queue'[i] = queue[i]
      /\ queue'[Len(queue) + 1] = e
  BY Appended DEF IInv, TypeOK, Happens
<1>2. \A k \in Keys : Bound[k] \in Buttons
  BY WindowAssumption
<1>3. QueueTells'
  <2> SUFFICES ASSUME NEW i \in 1 .. Len(queue'), NEW k \in Keys, queue'[i] = <<"press", k>>,
                      \A j \in i + 1 .. Len(queue') : ~About(queue'[j], Bound[k])
               PROVE  HeldDown(Bound[k])'
    BY Zenon DEF QueueTells, About
  <2>1. CASE i = Len(queue) + 1
    BY <1>1, <2>1
  <2>2. CASE i # Len(queue) + 1
    <3>1. i \in 1 .. Len(queue) /\ queue[i] = <<"press", k>>
      BY <1>1, <2>2
    <3>2. \A j \in i + 1 .. Len(queue) : ~About(queue[j], Bound[k])
      BY <1>1, <3>1
    <3>3. ~About(e, Bound[k])
      BY <1>1, <3>1
    <3>4. HeldDown(Bound[k])
      BY <3>1, <3>2 DEF IInv, QueueTells
    <3> QED BY <1>2, <3>3, <3>4
  <2> QED BY <2>1, <2>2
<1>4. PadTells'
  <2> SUFFICES ASSUME NEW b \in Buttons, ~Awaited(b)'
               PROVE  /\ b \in buttons' /\ ~HeldDown(b)' => b \in swallowed'
                      /\ b \notin buttons' /\ HeldDown(b)' => b \in swallowed' \cup dropped'
    BY Zenon DEF PadTells
  <2>1. \A i \in 1 .. Len(queue') : ~About(queue'[i], b)
    BY Zenon DEF Awaited, About
  <2>2. ~About(e, b) /\ ~Awaited(b)
    BY <1>1, <2>1 DEF Awaited
  <2>3. buttons' = buttons /\ swallowed' = swallowed /\ dropped' = dropped
    BY DEF Happens, padVars
  <2> QED BY <2>2, <2>3, Zenon DEF IInv, PadTells
<1> QED BY <1>3, <1>4

\* The loop looks at an event.
LEMMA PollKeeps ==
  ASSUME IInv, NEW ok \in BOOLEAN, Poll(ok)
  PROVE  QueueTells' /\ PadTells'
<1> DEFINE e == Head(queue)
<1>1. /\ Len(queue) \in Nat /\ Len(queue) > 0 /\ Len(queue') = Len(queue) - 1 /\ queue[1] = e
      /\ \A i \in 1 .. Len(queue) - 1 : queue'[i] = queue[i + 1]
  BY Taken DEF IInv, TypeOK, Poll
<1>2. e \in KeyEvents \cup CommandEvents
  BY QueueTypes DEF IInv, TypeOK, Poll
<1>3. Swallows(e) \/ Clears(e) \/ Ignores(e) \/ Sets(e)
  BY <1>2, HandleEffects DEF Poll
<1>4. fingers' = fingers
  BY DEF Poll
<1>5. \A b : HeldDown(b)' <=> HeldDown(b)
  BY <1>4, Zenon DEF HeldDown
<1> HIDE DEF e
<1>6. QueueTells'
  <2> SUFFICES ASSUME NEW i \in 1 .. Len(queue'), NEW k \in Keys, queue'[i] = <<"press", k>>,
                      \A j \in i + 1 .. Len(queue') : ~About(queue'[j], Bound[k])
               PROVE  HeldDown(Bound[k])'
    BY Zenon DEF QueueTells, About
  <2>1. i + 1 \in 1 .. Len(queue) /\ queue[i + 1] = <<"press", k>>
    BY <1>1
  <2>2. ASSUME NEW j \in (i + 1) + 1 .. Len(queue) PROVE ~About(queue[j], Bound[k])
    <3>1. j - 1 \in i + 1 .. Len(queue') /\ j - 1 \in 1 .. Len(queue) - 1 /\ (j - 1) + 1 = j
      BY <1>1
    <3>2. queue'[j - 1] = queue[j]
      BY <1>1, <3>1
    <3> QED BY <3>1, <3>2
  <2>3. HeldDown(Bound[k])
    BY <2>1, <2>2 DEF IInv, QueueTells
  <2> QED BY <1>5, <2>3
<1>7. PadTells'
  <2> SUFFICES ASSUME NEW b \in Buttons, ~Awaited(b)'
               PROVE  /\ b \in buttons' /\ ~HeldDown(b) => b \in swallowed'
                      /\ b \notin buttons' /\ HeldDown(b) => b \in swallowed' \cup dropped'
    BY <1>5, Zenon DEF PadTells
  <2>1. \A i \in 1 .. Len(queue') : ~About(queue'[i], b)
    BY Zenon DEF Awaited, About
  <2>2. \A j \in 2 .. Len(queue) : ~About(queue[j], b)
    <3> SUFFICES ASSUME NEW j \in 2 .. Len(queue) PROVE ~About(queue[j], b)
      OBVIOUS
    <3>1. j - 1 \in 1 .. Len(queue') /\ j - 1 \in 1 .. Len(queue) - 1 /\ (j - 1) + 1 = j
      BY <1>1
    <3>2. queue'[j - 1] = queue[j]
      BY <1>1, <3>1
    <3> QED BY <2>1, <3>1, <3>2
  <2>3. CASE About(e, b)
    <3>1. e \in KeyEvents /\ e[2] \in Keys /\ Bound[e[2]] = b /\ e = <<e[1], e[2]>>
          /\ e[1] \in {"press", "release"}
      BY <2>3, KeyEventParts DEF About
    <3>2. CASE Swallows(e)
      BY <3>1, <3>2 DEF Swallows
    <3>3. CASE Sets(e)
      <4>1. CASE e[1] = "press"
        <5>1. b \in buttons'
          BY <3>1, <3>3, <4>1 DEF Sets, BoundKey, Set
        <5>2. HeldDown(b)
          <6>1. queue[1] = <<"press", e[2]>> /\ 1 \in 1 .. Len(queue)
            BY <1>1, <3>1, <4>1
          <6>2. \A j \in 1 + 1 .. Len(queue) : ~About(queue[j], Bound[e[2]])
            BY <2>2, <3>1
          <6> QED BY <3>1, <6>1, <6>2 DEF IInv, QueueTells
        <5> QED BY <5>1, <5>2
      <4>2. CASE e[1] = "release"
        <5>1. b \notin buttons'
          BY <3>1, <3>3, <4>2 DEF Sets, BoundKey, Set
        <5>2. HeldDown(b) => b \in dropped'
          BY <3>1, <3>3, <4>2 DEF Sets, BoundKey
        <5> QED BY <5>1, <5>2
      <4> QED BY <3>1, <4>1, <4>2
    <3> QED BY <1>3, <3>1, <3>2, <3>3 DEF Clears, Ignores
  <2>4. CASE ~About(e, b)
    <3>1. ~Awaited(b)
      <4> SUFFICES ASSUME NEW i \in 1 .. Len(queue) PROVE ~About(queue[i], b)
        BY Zenon DEF Awaited
      <4>1. i = 1 \/ i \in 2 .. Len(queue)
        BY <1>1
      <4> QED BY <1>1, <2>2, <2>4, <4>1
    <3>2. /\ b \in buttons /\ ~HeldDown(b) => b \in swallowed
          /\ b \notin buttons /\ HeldDown(b) => b \in swallowed \cup dropped
      BY <3>1, Zenon DEF IInv, PadTells
    <3>3. CASE Swallows(e)
      BY <3>2, <3>3 DEF Swallows, padVars
    <3>4. CASE Clears(e)
      BY <3>2, <3>4 DEF Clears, ResetPad
    <3>5. CASE Ignores(e)
      BY <3>2, <3>5 DEF Ignores, padVars
    <3>6. CASE Sets(e)
      <4>1. Bound[e[2]] # b
        BY <2>4, <3>6 DEF About, Sets
      <4>2. buttons' \in {buttons \cup {Bound[e[2]]}, buttons \ {Bound[e[2]]}}
        BY <3>6, Zenon DEF Sets, BoundKey, Set
      <4>3. /\ swallowed' = swallowed \ {Bound[e[2]]}
            /\ dropped' \in {dropped, dropped \ {Bound[e[2]]}, dropped \cup {Bound[e[2]]}}
        BY <3>6, Zenon DEF Sets, BoundKey
      <4> QED BY <3>2, <4>1, <4>2, <4>3
    <3> QED BY <1>3, <3>3, <3>4, <3>5, <3>6
  <2> QED BY <2>3, <2>4
<1> QED BY <1>6, <1>7

\* Every step keeps what they know.
LEMMA KnowledgeKept == IInv /\ [Next]_vars => QueueTells' /\ PadTells'
<1> SUFFICES ASSUME IInv, [Next]_vars PROVE QueueTells' /\ PadTells'
  OBVIOUS
<1>1. ASSUME NEW k \in Keys, Press(k) PROVE QueueTells' /\ PadTells'
  <2>1. <<"press", k>> \in KeyEvents /\ <<"press", k>>[2] = k
    BY DEF KeyEvents
  <2>2. ASSUME NEW b \in Buttons, ~About(<<"press", k>>, b) PROVE HeldDown(b)' <=> HeldDown(b)
    <3>1. Bound[k] # b
      BY <2>1, <2>2 DEF About
    <3> QED BY <1>1, <3>1 DEF Press, HeldDown
  <2>3. ASSUME NEW j \in Keys, <<"press", k>> = <<"press", j>> PROVE HeldDown(Bound[j])'
    <3>1. j = k
      BY <2>3
    <3> QED BY <1>1, <3>1 DEF Press, HeldDown
  <2>4. Happens(<<"press", k>>)
    BY <1>1 DEF Press
  <2> DEFINE e == <<"press", k>>
  <2>5. /\ e \in KeyEvents \cup CommandEvents /\ Happens(e)
        /\ \A b \in Buttons : ~About(e, b) => (HeldDown(b)' <=> HeldDown(b))
        /\ \A j \in Keys : e = <<"press", j>> => HeldDown(Bound[j])'
    BY <2>1, <2>2, <2>3, <2>4
  <2> HIDE DEF e
  <2> QED BY <2>5, HappensKeeps
<1>2. ASSUME NEW k \in Keys, Release(k) PROVE QueueTells' /\ PadTells'
  <2>1. <<"release", k>> \in KeyEvents /\ <<"release", k>>[2] = k
    BY DEF KeyEvents
  <2>2. ASSUME NEW b \in Buttons, ~About(<<"release", k>>, b) PROVE HeldDown(b)' <=> HeldDown(b)
    <3>1. Bound[k] # b
      BY <2>1, <2>2 DEF About
    <3> QED BY <1>2, <3>1 DEF Release, HeldDown
  <2>3. \A j \in Keys : <<"release", k>> # <<"press", j>>
    OBVIOUS
  <2>4. Happens(<<"release", k>>)
    BY <1>2 DEF Release
  <2> DEFINE e == <<"release", k>>
  <2>5. /\ e \in KeyEvents \cup CommandEvents /\ Happens(e)
        /\ \A b \in Buttons : ~About(e, b) => (HeldDown(b)' <=> HeldDown(b))
        /\ \A j \in Keys : e = <<"press", j>> => HeldDown(Bound[j])'
    BY <2>1, <2>2, <2>3, <2>4
  <2> HIDE DEF e
  <2> QED BY <2>5, HappensKeeps
<1>3. ASSUME NEW c \in Commands, Ask(c) PROVE QueueTells' /\ PadTells'
  <2> DEFINE e == <<c>>
  <2>1. /\ e \in KeyEvents \cup CommandEvents /\ Happens(e)
        /\ \A j \in Keys : e # <<"press", j>>
    BY <1>3 DEF Ask, CommandEvents
  <2>2. \A b : HeldDown(b)' <=> HeldDown(b)
    BY <1>3, Zenon DEF Ask, HeldDown
  <2> HIDE DEF e
  <2> QED BY <2>1, <2>2, HappensKeeps
<1>4. ASSUME NEW ok \in BOOLEAN, Poll(ok) PROVE QueueTells' /\ PadTells'
  BY <1>4, PollKeeps
<1>5. ASSUME UNCHANGED <<fingers, queue, buttons, swallowed, dropped>>
      PROVE  QueueTells' /\ PadTells'
  BY <1>5, Zenon DEF IInv, QueueTells, PadTells, Awaited, HeldDown
<1>6. CASE BeginFrame
  BY <1>5, <1>6, Zenon DEF BeginFrame
<1>7. ASSUME NEW stop \in BOOLEAN, Present(stop) PROVE QueueTells' /\ PadTells'
  BY <1>5, <1>7, Zenon DEF Present, padVars
<1>8. CASE Tick
  BY <1>5, <1>8, Zenon DEF Tick
<1>9. ASSUME NEW halves \in SUBSET Halves, WriteJoyp(halves) PROVE QueueTells' /\ PadTells'
  BY <1>5, <1>9, Zenon DEF WriteJoyp
<1>10. CASE UNCHANGED vars
  BY <1>5, <1>10, Zenon DEF vars, padVars
<1> QED
  BY <1>1, <1>2, <1>3, <1>4, <1>6, <1>7, <1>8, <1>9, <1>10, Zenon
     DEF Next, Player, Loop, Program

\* The invariant is inductive.
LEMMA Invariance == Spec => []IInv
<1>1. Init => IInv
  <2> SUFFICES ASSUME Init PROVE IInv
    OBVIOUS
  <2>1. queue \in Seq(KeyEvents \cup CommandEvents) /\ Len(queue) = 0 /\ Len(queue) <= MaxQueue
    BY WindowAssumption DEF Init
  <2>2. TypeOK
    <3>1. /\ fingers \subseteq Keys /\ buttons \subseteq Buttons /\ selected \subseteq Halves
          /\ swallowed \subseteq Buttons /\ dropped \subseteq Buttons
          /\ phase \in {"events", "frame", "closed"} /\ phase # "frame"
      BY DEF Init
    <3>2. /\ browser \in BOOLEAN /\ paused \in BOOLEAN /\ loaded \in BOOLEAN
          /\ running \in BOOLEAN /\ irq \in BOOLEAN
      BY DEF Init
    <3> QED BY <2>1, <3>1, <3>2, Zenon DEF TypeOK
  <2>3. QueueTells
    BY <2>1 DEF QueueTells
  <2>4. PadTells
    BY DEF Init, PadTells, HeldDown
  <2> QED BY <2>2, <2>3, <2>4 DEF IInv
<1>2. IInv /\ [Next]_vars => IInv'
  BY TypesKept, KnowledgeKept DEF IInv
<1> QED BY <1>1, <1>2, PTL DEF Spec

-----------------------------------------------------------------------------

(***************************************************************************)
(* The state of the loop keeps its types, and a frame is only emulated     *)
(* with a cartridge, not while paused and not behind the browser.          *)
(***************************************************************************)
THEOREM WindowTypeCorrect == Spec => []TypeOK
<1>1. IInv => TypeOK
  BY DEF IInv
<1> QED BY Invariance, <1>1, PTL

(***************************************************************************)
(* Once its events are handled the console sees the keys that are held     *)
(* (frontend.cpp:473-475): a button that is stuck or missed is one the     *)
(* browser took an event of, or one that was cleared by a reset or a load  *)
(* or let go under a second key; for any bindings and any length of queue. *)
(***************************************************************************)
THEOREM WindowPadFollowsKeys == Spec => []PadFollowsKeys
<1>1. IInv => PadFollowsKeys
  <2> SUFFICES ASSUME IInv, queue = <<>> PROVE \A b \in Buttons : ~Awaited(b)
    BY DEF IInv, PadTells, PadFollowsKeys
  <2>1. Len(queue) = 0
    OBVIOUS
  <2> QED BY <2>1 DEF Awaited
<1> QED BY Invariance, <1>1, PTL

(***************************************************************************)
(* The joypad asks for its interrupt when a wire falls, by a button or by  *)
(* the selection of a half whose button is down (joypad.cpp:77-80), and    *)
(* only then: clearing the pad, a tick and a new frame raise nothing.      *)
(***************************************************************************)
THEOREM WindowEdgeRaisesRequest == Spec => EdgeRaisesRequest
<1> DEFINE fell == Low(buttons', selected') \ Low(buttons, selected) # {}
           A == (fell => irq') /\ (irq' /\ ~irq => fell)
<1>1. [Next]_vars => [A]_vars
  <2> SUFFICES ASSUME Next PROVE A
    OBVIOUS
  <2>1. ASSUME UNCHANGED <<buttons, selected>>, irq' = irq \/ irq' = FALSE PROVE A
    <3>1. ~fell
      BY <2>1
    <3>2. irq' => irq
      BY <2>1, Zenon
    <3> QED BY <3>1, <3>2
  <2>2. ASSUME NEW b, NEW down, Set(b, down) PROVE A
    <3>1. irq' <=> (irq \/ fell)
      BY <2>2, Zenon DEF Set, Falls
    <3> QED BY <3>1, Zenon
  <2>3. ASSUME ResetPad PROVE A
    <3>1. ~fell
      BY <2>3 DEF ResetPad, Low
    <3>2. ~irq'
      BY <2>3 DEF ResetPad
    <3> QED BY <3>1, <3>2
  <2>4. ASSUME NEW halves, WriteJoyp(halves) PROVE A
    <3>1. irq' <=> fell
      BY <2>4, Zenon DEF WriteJoyp, Falls
    <3> QED BY <3>1, Zenon
  <2>5. ASSUME NEW e, NEW ok, Handle(e, ok) PROVE A
    <3>1. UNCHANGED padVars \/ ResetPad \/ \E b, down : Set(b, down)
      BY <2>5, Zenon DEF Handle, Quit, Drop, InBrowser, Command, BoundKey, LoadCartridge
    <3> QED BY <2>1, <2>2, <2>3, <3>1, Zenon DEF padVars
  <2>6. CASE Player
    BY <2>1, <2>6, Zenon DEF Player, Press, Release, Ask, Happens, padVars
  <2>7. CASE Loop
    BY <2>1, <2>5, <2>7, Zenon DEF Loop, Poll, BeginFrame, Present, padVars
  <2>8. CASE Program
    BY <2>1, <2>4, <2>8, Zenon DEF Program, Tick
  <2> QED BY <2>6, <2>7, <2>8 DEF Next
<1> QED BY <1>1, PTL DEF Spec, EdgeRaisesRequest
=============================================================================
