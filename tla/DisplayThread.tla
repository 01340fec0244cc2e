---------------------------- MODULE DisplayThread ----------------------------
(***************************************************************************)
(* display_thread (src/display.c): draws every frame of its queue, then    *)
(* waits while the program is stopped, then releases the block.  What is   *)
(* drawn is left out; the state that overlay and exit check read without   *)
(* the mutex is not.                                                       *)
(***************************************************************************)
EXTENDS SharedCtx

\* A failed fb_init returns a positive code and leaves frame_dev.fbp NULL; the
\* test is for a negative one, so display goes on.
DisplayInit ==
  /\ At("display", "open")
  /\ \/ screen' = TRUE
     \/ "fb_init" \in Faults /\ UNCHANGED screen
  /\ Goto("display", "dequeue")
  /\ UNCHANGED <<waiting, fb, state, uiMutex, uiFreed, poolVars, streamVars, overrun>>

TakeToDraw == DequeueWait("display") \/ Dequeue("display", "draw")

DrawFrame ==
  /\ At("display", "draw") /\ screen
  /\ CountOverrun("display")
  /\ Goto("display", "exit_check")
  /\ UNCHANGED <<waiting, fb, uiVars, poolVars, streamVars>>

\* A failed draw: there is no framebuffer, or not one of 16 or 32 bits.  The
\* thread ends and keeps its block.
DrawFail ==
  /\ At("display", "draw") /\ (~screen \/ "draw" \in Faults)
  /\ Goto("display", "done")
  /\ UNCHANGED <<waiting, fb, uiVars, poolVars, streamVars, overrun>>

\* The exit check, without the mutex: also this way the block is kept.
\* MutExitCheck: no check.
MutExitCheck ==
  /\ At("display", "exit_check")
  /\ Goto("display", "gate")
  /\ UNCHANGED <<waiting, fb, uiVars, poolVars, streamVars, overrun>>
ExitCheck ==
  /\ At("display", "exit_check")
  /\ \E seen \in SeenStates :
       Goto("display", IF seen = "EXIT" THEN "done" ELSE "gate")
  /\ UNCHANGED <<waiting, fb, uiVars, poolVars, streamVars, overrun>>

\* The gate of display lets STATE_EXIT pass: only the next exit check sees it.
DisplayGatePass ==
  /\ At("display", "gate") /\ CanLockUi
  /\ state # "STOPPED"
  /\ Goto("display", "release")
  /\ UNCHANGED <<waiting, fb, uiVars, poolVars, streamVars, overrun>>

DisplayGate == GateSleep("display") \/ DisplayGatePass

DisplayRelease == ReleaseSub("display") \/ ReleasePush("display")

DisplayStep ==
  \/ DisplayInit
  \/ TakeToDraw
  \/ DrawFrame
  \/ DrawFail
  \/ ExitCheck
  \/ DisplayGate
  \/ DisplayRelease

DisplayFreed ==
  /\ At("display", "gate") /\ uiFreed
  /\ Goto("display", "release")
  /\ UNCHANGED <<waiting, fb, uiVars, poolVars, streamVars, overrun>>

=============================================================================
