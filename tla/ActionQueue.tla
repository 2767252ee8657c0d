----------------------------- MODULE ActionQueue -----------------------------
(***************************************************************************)
(* What usc::DBusEventLoop promises to those that enqueue() actions: each  *)
(* action is performed once, in the order of the enqueue() calls, and it   *)
(* is performed eventually unless the loop is stopped.                     *)
(***************************************************************************)
EXTENDS Sequences

CONSTANT Action

VARIABLES pending, performed, stopped

queue_vars == <<pending, performed, stopped>>

QueueInit ==
    /\ pending = <<>>
    /\ performed = <<>>
    /\ stopped = FALSE

Enqueue ==
    /\ pending' # <<>>
    /\ pending'[Len(pending')] \in Action
    /\ pending' = Append(pending, pending'[Len(pending')])
    /\ UNCHANGED <<performed, stopped>>

\* Actions that are still pending when the loop is stopped may be performed or
\* not.
Perform ==
    /\ pending # <<>>
    /\ performed' = Append(performed, Head(pending))
    /\ pending' = Tail(pending)
    /\ UNCHANGED stopped

Stop ==
    /\ stopped' = TRUE
    /\ UNCHANGED <<pending, performed>>

QueueNext == Enqueue \/ Perform \/ Stop

QueueSafety == QueueInit /\ [][QueueNext]_queue_vars

QueueSpec == QueueSafety /\ WF_queue_vars(~ stopped /\ Perform)
=============================================================================
