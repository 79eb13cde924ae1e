------------------------------- MODULE Window --------------------------------
(***************************************************************************)
(* The window's event loop (src/front/frontend.cpp) and the joypad it      *)
(* drives (src/core/joypad.cpp): the player's keys reach the console       *)
(* through a queue of events, a browser that takes every input while it is *)
(* open, and two halves of four wires that the program selects.            *)
(*                                                                         *)
(* A key that commands the window and the button of the control bar that   *)
(* does the same are one command. The menu movements of the browser change *)
(* nothing here and are left out.                                          *)
(***************************************************************************)
EXTENDS Naturals, SequencesExt

CONSTANTS
  Keys, Buttons,
  Bound,      \* kBindings: the button of each key
  Half, Wire, \* the half of the pad each button is on, and its wire there
  MaxQueue    \* bound: events waiting

Halves == {"direction", "action"}
Commands == {"quit", "drop", "escape", "pause", "load", "reset", "choose"}

ASSUME WindowAssumption ==
  /\ Bound \in [Keys -> Buttons]
  /\ Half \in [Buttons -> Halves] /\ Wire \in [Buttons -> 0 .. 3]
  /\ MaxQueue \in Nat /\ MaxQueue > 0

KeyEvents == {"press", "release"} \X Keys
CommandEvents == {<<c>> : c \in Commands}

VARIABLES
  fingers,   \* the keys the player holds down
  queue,     \* SDL's events, a key's or a command
  browser,   \* browser.open
  paused, loaded, running,
  phase,     \* where in the loop: "events", "frame" (run_frame), "closed"
  buttons,   \* buttons_
  selected,  \* the halves select_ selects (its bits at 0)
  irq,       \* irq_
  swallowed, \* history: buttons a key of which the browser took an event of
  dropped    \* history: buttons released under a key that is still down

loopVars == <<browser, paused, loaded, running, phase>>
padVars  == <<buttons, selected, irq>>
vars == <<fingers, queue, loopVars, padVars, swallowed, dropped>>

\* Joypad::wires: the wires pulled low, by either half.
Low(down, halves) == {Wire[b] : b \in {c \in down : Half[c] \in halves}}

Falls(down, halves) == Low(down, halves) \ Low(buttons, selected) # {}

HeldDown(b) == \E k \in fingers : Bound[k] = b

Init ==
  /\ fingers = {} /\ queue = <<>>
  /\ browser \in BOOLEAN /\ paused \in BOOLEAN /\ loaded \in BOOLEAN
  /\ running = TRUE /\ phase = "events"
  /\ buttons = {} /\ selected = Halves /\ irq = FALSE
  /\ swallowed = {} /\ dropped = {}

-----------------------------------------------------------------------------
(* The player. A key that is held repeats. What happens during a frame is  *)
(* only looked at after it, as if it had happened then.                    *)

Happens(event) ==
  /\ phase = "events" /\ Len(queue) < MaxQueue
  /\ queue' = Append(queue, event)
  /\ UNCHANGED <<loopVars, padVars, swallowed, dropped>>

Press(k)   == Happens(<<"press", k>>) /\ fingers' = fingers \cup {k}
Release(k) == k \in fingers /\ Happens(<<"release", k>>) /\ fingers' = fingers \ {k}
Ask(c)     == Happens(<<c>>) /\ UNCHANGED fingers

Player == (\E k \in Keys : Press(k) \/ Release(k)) \/ (\E c \in Commands : Ask(c))

-----------------------------------------------------------------------------
(* The joypad. *)

\* Joypad::set.
Set(b, down) ==
  LET after == IF down THEN buttons \cup {b} ELSE buttons \ {b}
  IN  /\ buttons' = after
      /\ irq' = (irq \/ Falls(after, selected))
      /\ UNCHANGED selected

\* Joypad::reset, by GameBoy::reset and by attaching a cartridge.
ResetPad ==
  /\ buttons' = {} /\ selected' = Halves /\ irq' = FALSE
  /\ dropped' = dropped \cup buttons

\* Mutant: only a press is an edge, not a half selected under a pressed button.
WriteJoypNoEdge(halves) ==
  /\ phase = "frame"
  /\ selected' = halves
  /\ irq' = FALSE
  /\ UNCHANGED <<fingers, queue, loopVars, buttons, swallowed, dropped>>

\* Joypad::write, by the program; the tick before it has drained irq_.
WriteJoyp(halves) ==
  /\ phase = "frame"
  /\ selected' = halves
  /\ irq' = Falls(buttons, halves)
  /\ UNCHANGED <<fingers, queue, loopVars, buttons, swallowed, dropped>>

\* Bus::tick passes the request on.
Tick ==
  /\ phase = "frame"
  /\ irq' = FALSE
  /\ UNCHANGED <<fingers, queue, loopVars, buttons, selected, swallowed, dropped>>

-----------------------------------------------------------------------------
(* One event, in the order run_frontend looks at it. *)

\* load_cartridge: a failure leaves everything as it was.
LoadCartridge(ok) ==
  IF ok THEN loaded' = TRUE /\ ResetPad
        ELSE UNCHANGED <<loaded, padVars, dropped>>

Quit ==
  /\ running' = FALSE
  /\ UNCHANGED <<browser, paused, loaded, padVars, swallowed, dropped>>

Drop(ok) ==
  /\ LoadCartridge(ok)
  /\ browser' = FALSE
  /\ UNCHANGED <<paused, running, swallowed>>

\* The browser takes what is not for it too, the release of a key included.
InBrowser(event, ok) ==
  /\ UNCHANGED running
  /\ CASE event = <<"choose">> -> LoadCartridge(ok) /\ browser' = FALSE /\ paused' = FALSE
       [] event = <<"escape">> -> browser' = FALSE /\ UNCHANGED <<paused, loaded, padVars, dropped>>
       [] OTHER            -> UNCHANGED <<browser, paused, loaded, padVars, dropped>>
  /\ swallowed' = IF event \in KeyEvents THEN swallowed \cup {Bound[event[2]]} ELSE swallowed

Command(c) ==
  /\ running' = (running /\ c # "escape")
  /\ paused' = (IF c = "pause" THEN ~paused ELSE paused)
  /\ browser' = (c = "load")
  /\ UNCHANGED <<loaded, swallowed>>
  /\ IF c = "reset" /\ loaded THEN ResetPad ELSE UNCHANGED <<padVars, dropped>>

\* Mutant: only presses are passed on.
BoundKeyPressOnly(event) ==
  LET b    == Bound[event[2]]
      down == event[1] = "press"
  IN  /\ IF down THEN Set(b, TRUE) ELSE UNCHANGED padVars
      /\ swallowed' = swallowed \ {b}
      /\ dropped' = IF down THEN dropped \ {b} ELSE dropped \cup {b}
      /\ UNCHANGED <<browser, paused, loaded, running>>

\* Two keys may be bound to one button: the release of either releases it.
BoundKey(event) ==
  LET b    == Bound[event[2]]
      down == event[1] = "press"
  IN  /\ Set(b, down)
      /\ swallowed' = swallowed \ {b}
      /\ dropped' = IF down THEN dropped \ {b}
                    ELSE IF HeldDown(b) THEN dropped \cup {b} ELSE dropped
      /\ UNCHANGED <<browser, paused, loaded, running>>

\* Mutant: the open browser takes the closing of the window too.
HandleBrowserFirst(event, ok) ==
  \/ event = <<"drop">> /\ Drop(ok)
  \/ event # <<"drop">> /\ browser /\ InBrowser(event, ok)
  \/ event = <<"quit">> /\ ~browser /\ Quit
  \/ event[1] \in Commands \ {"quit", "drop"} /\ ~browser /\ Command(event[1])
  \/ event \in KeyEvents /\ ~browser /\ BoundKey(event)

Handle(event, ok) ==
  \/ event = <<"quit">> /\ Quit
  \/ event = <<"drop">> /\ Drop(ok)
  \/ event \notin {<<"quit">>, <<"drop">>} /\ browser /\ InBrowser(event, ok)
  \/ event[1] \in Commands \ {"quit", "drop"} /\ ~browser /\ Command(event[1])
  \/ event \in KeyEvents /\ ~browser /\ BoundKey(event)

Poll(ok) ==
  /\ phase = "events" /\ queue # <<>>
  /\ Handle(Head(queue), ok)
  /\ queue' = Tail(queue)
  /\ UNCHANGED <<fingers, phase>>

Emulates == ~paused /\ ~browser /\ loaded

\* SDL_PollEvent found no more: one frame is emulated, or none.
BeginFrame ==
  /\ phase = "events" /\ queue = <<>> /\ Emulates
  /\ phase' = "frame"
  /\ irq' = FALSE
  /\ UNCHANGED <<fingers, queue, browser, paused, loaded, running, buttons,
                 selected, swallowed, dropped>>

\* The frame is presented; a limit on the frames may end the loop.
Present(stop) ==
  /\ phase = "frame" \/ (phase = "events" /\ queue = <<>> /\ ~Emulates)
  /\ running' = (running /\ ~stop)
  /\ phase' = IF running' THEN "events" ELSE "closed"
  /\ UNCHANGED <<fingers, queue, browser, paused, loaded, padVars, swallowed, dropped>>

Loop ==
  \/ \E ok \in BOOLEAN : Poll(ok)
  \/ BeginFrame
  \/ \E stop \in BOOLEAN : Present(stop)

Program == Tick \/ \E halves \in SUBSET Halves : WriteJoyp(halves)

Next == Player \/ Loop \/ Program

\* The loop never waits for the player or the program: run_frame returns
\* whatever the program does.
Spec == Init /\ [][Next]_vars
FairSpec == Spec /\ WF_vars(Loop)

-----------------------------------------------------------------------------

TypeOK ==
  /\ fingers \subseteq Keys
  /\ queue \in Seq(KeyEvents \cup CommandEvents) /\ Len(queue) <= MaxQueue
  /\ browser \in BOOLEAN /\ paused \in BOOLEAN /\ loaded \in BOOLEAN
  /\ running \in BOOLEAN
  /\ phase \in {"events", "frame", "closed"}
  /\ phase = "frame" => loaded /\ ~paused /\ ~browser
  /\ buttons \subseteq Buttons /\ selected \subseteq Halves /\ irq \in BOOLEAN
  /\ swallowed \subseteq Buttons /\ dropped \subseteq Buttons

(***************************************************************************)
(* Once its events are handled the console sees the keys that are held     *)
(* (frontend.cpp:473-475). A button is stuck only where the browser took   *)
(* the release of its key, and is missed under a key only where the        *)
(* browser took the press, a reset or a load cleared the pad, or the other *)
(* key of the same button was let go; the next event of the button that    *)
(* reaches it mends it. No frame runs without a cartridge, while paused or *)
(* behind the browser (TypeOK).                                            *)
(***************************************************************************)
PadFollowsKeys ==
  /\ TypeOK
  /\ queue = <<>> =>
       \A b \in Buttons :
         /\ b \in buttons /\ ~HeldDown(b) => b \in swallowed
         /\ b \notin buttons /\ HeldDown(b) => b \in swallowed \cup dropped

(***************************************************************************)
(* The joypad asks for its interrupt exactly when a wire falls, whether a  *)
(* button is pressed or a half is selected whose button is already down    *)
(* (joypad.cpp:77-80), and never when it was low already.                  *)
(***************************************************************************)
EdgeRaisesRequest ==
  [][LET fell == Low(buttons', selected') \ Low(buttons, selected) # {}
     IN  (fell => irq') /\ (irq' /\ ~irq => fell)]_vars

(***************************************************************************)
(* Closing the window ends the program, in whatever state it is and        *)
(* whatever events came with it, once the player lets the queue run dry.   *)
(***************************************************************************)
QuitEnds ==
  <>[][~Player]_vars =>
    ((\E i \in DOMAIN queue : queue[i] = <<"quit">>) ~> phase = "closed")
=============================================================================
