------------------------------ MODULE UiThread -------------------------------
(***************************************************************************)
(* ui_thread_func (src/ui.c): one action per key.  Keys without a case, and *)
(* a start or a stop in the wrong state, change nothing.                   *)
(***************************************************************************)
EXTENDS SharedCtx

PressKey(k) == k \in Keys /\ At("ui", "read_key") /\ CanLockUi

\* Leaving STATE_STOPPED, for which the workers wait.  MutResume: no broadcast.
MutResume == state' = "RUNNING" /\ UNCHANGED waiting
Resume == state' = "RUNNING" /\ Broadcast("ui")

\* '2': start.
PressStart ==
  /\ PressKey("2")
  /\ state = "STOPPED"
  /\ Resume
  /\ overrun' = [w \in Worker |-> 0]
  /\ UNCHANGED <<pc, fb, uiMutex, uiFreed, screen, poolVars, streamVars>>

\* '1': stop.
PressStop ==
  /\ PressKey("1")
  /\ state = "RUNNING"
  /\ state' = "STOPPED"
  /\ UNCHANGED <<threadVars, uiMutex, uiFreed, screen, poolVars, streamVars, overrun>>

\* '3': restart.  The state is STOPPED, visible to unlocked reads, while the two
\* callbacks rewind the files, and RUNNING when the mutex is unlocked.
PressRestart ==
  /\ PressKey("3")
  /\ state' = "STOPPED"
  /\ uiMutex' = "ui"
  /\ Goto("ui", "restart")
  /\ UNCHANGED <<waiting, fb, uiFreed, screen, poolVars, streamVars, overrun>>

FinishRestart ==
  /\ At("ui", "restart")
  /\ Resume
  /\ uiMutex' = "none"
  /\ overrun' = [w \in Worker |-> 0]
  /\ Goto("ui", "read_key")
  /\ UNCHANGED <<fb, uiFreed, screen, poolVars, streamVars>>

\* 'q': exit.
PressQuit ==
  /\ PressKey("q")
  /\ state' = "EXIT"
  /\ Broadcast("ui")
  /\ Goto("ui", "cleanup")
  /\ overrun' = [w \in Worker |-> 0]
  /\ UNCHANGED <<fb, uiMutex, uiFreed, screen, poolVars, streamVars>>

\* After sleep(3): destroy the mutex and the condition, free ui_arg.
Cleanup ==
  /\ At("ui", "cleanup")
  /\ uiFreed' = TRUE
  /\ Goto("ui", "done")
  /\ UNCHANGED <<waiting, fb, state, uiMutex, screen, poolVars, streamVars, overrun>>

UiStep == FinishRestart \/ Cleanup

UserStep == PressStart \/ PressStop \/ PressRestart \/ PressQuit

=============================================================================
