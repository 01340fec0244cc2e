----------------------------- MODULE UiOverlay -------------------------------
(***************************************************************************)
(* The menu that display_thread (src/display.c) draws over every frame,    *)
(* and the keys of ui_thread_func that change what it shows.  Display      *)
(* reads ui_arg->state without the mutex, once for each entry, once for    *)
(* the exit check, and then with the mutex at its gate.                    *)
(*                                                                         *)
(* Where the frames come from is left out: there may be one or not, and    *)
(* while the program runs there always is one at last (PipelineProgress).  *)
(***************************************************************************)
EXTENDS Integers

VARIABLES
  state,      \* ui_arg->state
  restarting, \* ui holds the mutex and has yet to leave STATE_STOPPED again
  pc,         \* where display is
  i,          \* the loop over the menu
  asleep,     \* display waits for ui_arg->cond
  menu        \* the entries on the screen

vars == <<state, restarting, pc, i, asleep, menu>>

\* The numbers of the states are the positions of their entries.
State == [STATE_STOPPED |-> 0, STATE_RUNNING |-> 1, STATE_EXIT |-> 2]
MENU_COUNT == 3
Entry == 0 .. MENU_COUNT - 1

\* The menu with the entry of state s selected.
Only(s) == [e \in Entry |-> IF e = State[s] THEN "selected" ELSE "plain"]

Init ==
  /\ state = "STATE_STOPPED" /\ restarting = FALSE
  /\ pc = "dequeue" /\ i = 0 /\ asleep = FALSE
  /\ menu = [e \in Entry |-> "none"]

-----------------------------------------------------------------------------
(* display_thread *)

\* dequeue, and fb_drawGray over the whole screen.
DrawFrame ==
  /\ pc = "dequeue"
  /\ menu' = [e \in Entry |-> "none"]
  /\ pc' = "menu" /\ i' = 0
  /\ UNCHANGED <<state, restarting, asleep>>

\* MutDrawEntry: one read of the state for the menu, when the program starts.
MutDrawEntry ==
  /\ pc = "menu" /\ i < MENU_COUNT
  /\ menu' = [menu EXCEPT ![i] = IF i = State["STATE_STOPPED"] THEN "selected" ELSE "plain"]
  /\ i' = i + 1
  /\ UNCHANGED <<state, restarting, pc, asleep>>
DrawEntry ==
  /\ pc = "menu" /\ i < MENU_COUNT
  /\ menu' = [menu EXCEPT ![i] = IF i = State[state] THEN "selected" ELSE "plain"]
  /\ i' = i + 1
  /\ UNCHANGED <<state, restarting, pc, asleep>>

ExitCheck ==
  /\ pc = "menu" /\ i = MENU_COUNT
  /\ pc' = IF state = "STATE_EXIT" THEN "done" ELSE "gate"
  /\ UNCHANGED <<state, restarting, i, asleep, menu>>

GateSleep ==
  /\ pc = "gate" /\ ~asleep /\ ~restarting
  /\ state = "STATE_STOPPED"
  /\ asleep' = TRUE
  /\ UNCHANGED <<state, restarting, pc, i, menu>>

\* Past the gate: fp_release and the pause before the next frame.
GatePass ==
  /\ pc = "gate" /\ ~asleep /\ ~restarting
  /\ state # "STATE_STOPPED"
  /\ pc' = "dequeue"
  /\ UNCHANGED <<state, restarting, i, asleep, menu>>

SpuriousWakeup ==
  /\ asleep /\ asleep' = FALSE
  /\ UNCHANGED <<state, restarting, pc, i, menu>>

DisplayStep == DrawFrame \/ DrawEntry \/ ExitCheck \/ GateSleep \/ GatePass

-----------------------------------------------------------------------------
(* ui_thread_func, each key under the mutex *)

\* Reading a key ends after 'q'.
Listens == ~restarting /\ state # "STATE_EXIT"

\* '2'; the broadcast wakes display.
PressStart ==
  /\ Listens /\ state = "STATE_STOPPED"
  /\ state' = "STATE_RUNNING" /\ asleep' = FALSE
  /\ UNCHANGED <<restarting, pc, i, menu>>

\* '1'
PressStop ==
  /\ Listens /\ state = "STATE_RUNNING"
  /\ state' = "STATE_STOPPED"
  /\ UNCHANGED <<restarting, pc, i, asleep, menu>>

\* '3': STATE_STOPPED until both files are rewound, then STATE_RUNNING.
PressRestart ==
  /\ Listens
  /\ state' = "STATE_STOPPED" /\ restarting' = TRUE
  /\ UNCHANGED <<pc, i, asleep, menu>>

\* MutFinishRestart: without its broadcast.
MutFinishRestart ==
  /\ restarting /\ restarting' = FALSE
  /\ state' = "STATE_RUNNING"
  /\ UNCHANGED <<pc, i, asleep, menu>>
FinishRestart ==
  /\ restarting /\ restarting' = FALSE
  /\ state' = "STATE_RUNNING" /\ asleep' = FALSE
  /\ UNCHANGED <<pc, i, menu>>

\* 'q'
PressQuit ==
  /\ Listens
  /\ state' = "STATE_EXIT" /\ asleep' = FALSE
  /\ UNCHANGED <<restarting, pc, i, menu>>

UiStep == PressStart \/ PressStop \/ PressRestart \/ FinishRestart \/ PressQuit

Next == DisplayStep \/ SpuriousWakeup \/ UiStep

Spec == Init /\ [][Next]_vars

\* Display goes on, and a restart ends; nobody has to press a key.
Fairness == WF_vars(DisplayStep) /\ WF_vars(FinishRestart)

-----------------------------------------------------------------------------
(* Properties *)

\* Every variable keeps its type.
TypeOK ==
  /\ state \in DOMAIN State /\ restarting \in BOOLEAN
  /\ pc \in {"dequeue", "menu", "gate", "done"}
  /\ i \in 0 .. MENU_COUNT /\ asleep \in BOOLEAN
  /\ menu \in [Entry -> {"none", "plain", "selected"}]

\* However stops and restarts fall between the reads of the state and the waits,
\* a program left running draws frame after frame, and from some frame on each
\* shows Running selected and nothing else (display.c:56-84).  Of a program left
\* stopped nothing like it holds: display sleeps with what it drew, which may be
\* Running, two entries selected, or none.
MenuSettles ==
  <>[](state = "STATE_RUNNING") =>
    /\ []<>(pc = "gate")
    /\ <>[](pc = "gate" => menu = Only("STATE_RUNNING"))

=============================================================================
