---------------------------- MODULE QueueShutdown ----------------------------
(***************************************************************************)
(* BoundedQueue with a history variable that remembers whom the broadcasts *)
(* of queue_set_done (src/queue.c:70-77) found asleep.                     *)
(***************************************************************************)
EXTENDS BoundedQueue

VARIABLE woken  \* history: the threads that slept when done was set

ShutdownInit == Init /\ woken = {}

ShutdownNext == Next /\ woken' = IF done' # done THEN asleep ELSE woken

ShutdownSpec == ShutdownInit /\ [][ShutdownNext]_<<vars, woken>> /\ Fairness

\* queue_set_done is to "signal shutdown, unblocking all waiting threads"
\* (queue.h:77), with done the "shutdown flag to unblock waiters" (queue.h:32):
\* a thread that waits when done is set gets out of its call.
DoneUnblocks == \A t \in Thread : (t \in woken) ~> (pc[t] = "idle")

=============================================================================
