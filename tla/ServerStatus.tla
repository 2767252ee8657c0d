----------------------------- MODULE ServerStatus -----------------------------
(***************************************************************************)
(* The ServerStatusListener of usc::Server, next to SessionSwitcher: when  *)
(* Mir pauses (the console is switched away) it tells the session that has *)
(* the focus that it will be suspended, and when Mir resumes it tells the  *)
(* session that has the focus then that it is resumed.  The switcher moves *)
(* the focus in between, from other threads.                               *)
(***************************************************************************)
EXTENDS SessionSwitcher

VARIABLES
    paused,
    suspended,      \* connected sessions whose last lifecycle state is will_suspend
    left            \* history: those of them that lost the focus during the pause

status == <<paused, suspended, left>>
status_vars == <<vars, status>>

StatusInit == Init /\ paused = FALSE /\ suspended = {} /\ left = {}

\* weak_active_session()
active_session == {s \in connected : s = focused}

\* set_lifecycle_state(mir_lifecycle_state_will_suspend)
pause ==
    /\ ~ paused
    /\ paused' = TRUE
    /\ suspended' = suspended \cup active_session
    /\ left' = left \ active_session
    /\ UNCHANGED vars

resumes_nobody == {}
\* set_lifecycle_state(mir_lifecycle_state_resumed)
resumes == active_session

resume ==
    /\ paused
    /\ paused' = FALSE
    /\ suspended' = suspended \ resumes
    /\ left' = left \ resumes
    /\ UNCHANGED vars

\* A session that is gone is told nothing any more.
switcher_moves ==
    /\ Next
    /\ suspended' = suspended \cap connected'
    /\ left' = (left \cup {s \in suspended : paused /\ focused = s /\ focused' # s})
                   \cap connected'
    /\ UNCHANGED paused

StatusNext == pause \/ resume \/ switcher_moves

StatusSpec == StatusInit /\ [][StatusNext]_status_vars

-----------------------------------------------------------------------------
\* A session is left suspended only if the switcher took the focus from it
\* between paused() and resumed().  (Such a session stays suspended, also when
\* it is active and focused again later: resumed() tells it nothing before the
\* next resume.)
SuspendedOnlyIfLeft == ~ paused => suspended \subseteq left
=============================================================================
