--------------------------- MODULE SwitcherThreads ---------------------------
(***************************************************************************)
(* The calls of SessionSwitcher at the grain of their statements.          *)
(*                                                                         *)
(* The operations of the session monitor and of the display manager take   *)
(* the switcher's mutex, so that one of them is under way at a time: they  *)
(* are the thread "call".  The active outputs handler is called by the     *)
(* screen, under a mutex of the screen but without the switcher's: it is   *)
(* the thread "outputs", and its statements fall between those of a call.  *)
(* A lookup in the map and a call on the session found are two statements  *)
(* where the code looks the name up again for the call.                    *)
(***************************************************************************)
EXTENDS SessionSwitcher

CONSTANT Order  \* of the names, as the keys of the map: it iterates in this order

ASSUME OrderAssumption ==
    /\ Order \in [Name -> Int]
    /\ \A m, n \in Name : Order[m] = Order[n] => m = n

Thread == {"call", "outputs"}

VARIABLES
    pc,         \* the next statement of each thread
    todo,       \* names the hiding loop of each thread has still to visit
    shows,      \* the local show_active of each thread
    spinner,    \* its show_spinner and show_spinner_mode
    crashed,    \* the threads that dereferenced a null session
    overlap,    \* history: the threads that began while the other was under
                \* way, forgotten when a thread begins alone; a call counts
                \* only since the handler last began
    saved       \* history: the switcher when a thread last began

local_vars == <<pc, todo, shows, spinner>>
all_vars == <<vars, local_vars, crashed, overlap, saved>>

Idle == \A t \in Thread : pc[t] = "idle"

\* The switcher as callers of SessionSwitcher see it: an operation under way
\* has not happened yet.
Snapshot ==
    [sessions |-> sessions, ready |-> ready, active_name |-> active_name,
     next_name |-> next_name, spinner_name |-> spinner_name, booting |-> booting,
     has_active_outputs |-> has_active_outputs, spinner_pid |-> spinner_pid,
     connected |-> connected, visible |-> visible, focused |-> focused]

ThreadsInit ==
    /\ Init
    /\ pc = [t \in Thread |-> "idle"]
    /\ todo = [t \in Thread |-> {}]
    /\ shows = [t \in Thread |-> FALSE]
    /\ spinner = [t \in Thread |-> "none"]
    /\ crashed = {}
    /\ overlap = {}
    /\ saved = Snapshot

-----------------------------------------------------------------------------
\* A thread enters its operation: it changes the map, a name or the outputs.

begin(t) ==
    /\ pc[t] = "idle"
    /\ crashed = {}
    /\ overlap' = IF Idle THEN {} ELSE IF t = "call" THEN overlap \cup {t} ELSE {t}
    /\ saved' = Snapshot

enter(t) ==
    /\ begin(t)
    /\ pc' = [pc EXCEPT ![t] = "update"]
    /\ UNCHANGED <<todo, shows, spinner, crashed, booting, spinner_pid>>

call_add ==
    \E s \in Session, pid \in Pid :
        /\ MayConnect(s, pid) /\ insert(s, pid)
        /\ UNCHANGED <<visible, focused>>

call_remove ==
    \E s \in Session :
        /\ forget(s)
        /\ visible' = visible \ {s}
        /\ focused' = unfocus(s)

call_mark_ready == \E s \in Session : note_ready(s) /\ UNCHANGED <<visible, focused>>

call_set_name ==
    /\ \E name \in DMName \cup {EmptyName} : name_active(name) \/ name_next(name)
    /\ UNCHANGED <<visible, focused>>

\* The thread that holds the mutex; remove() that ignores a session it does
\* not track takes no further step.
EnterCall ==
    \/ enter("call") /\ (call_add \/ call_remove \/ call_mark_ready \/ call_set_name)
    \/ /\ begin("call")
       /\ \E s \in Session : remove_ignored(s)
       /\ UNCHANGED <<local_vars, crashed>>

EnterHandler ==
    /\ enter("outputs")
    /\ \E any_active \in BOOLEAN : note_outputs(any_active)
    /\ UNCHANGED <<visible, focused>>

-----------------------------------------------------------------------------
\* update_displayed_sessions(), statement by statement, in either thread.

\* One statement of thread t, which leaves the map, the names, the outputs
\* and the connections alone.
statement(t, at) ==
    /\ crashed = {}
    /\ pc[t] = at
    /\ UNCHANGED <<sessions, ready, active_name, next_name, spinner_name,
                   has_active_outputs, connected, overlap, saved>>

goto(t, label) == pc' = [pc EXCEPT ![t] = label]

\* The return of update_displayed_sessions(), which resets the locals.
return(t) ==
    /\ goto(t, "idle")
    /\ todo' = [todo EXCEPT ![t] = {}]
    /\ shows' = [shows EXCEPT ![t] = FALSE]
    /\ spinner' = [spinner EXCEPT ![t] = "none"]

start_hiding(t) ==
    /\ statement(t, "update")
    /\ goto(t, IF has_active_outputs THEN "hide_uninteresting" ELSE "hide_all")
    /\ todo' = [todo EXCEPT ![t] = TrackedNames]
    /\ UNCHANGED <<shows, spinner, crashed, booting, spinner_pid, visible, focused>>

\* The session of an entry that is gone is null.
dereference(t, name) == crashed' = IF name \in TrackedNames THEN {} ELSE {t}

show(name) == visible' = visible \cup ({sessions[name]} \ {NoSession})
hide(name) == visible' = visible \ {sessions[name]}
raise_and_focus(name) == focused' = sessions[name]

interesting_always(t, name) == name \in {active_name, next_name}
\* hide_uninteresting_sessions() skips the active and the next name.
interesting(t, name) ==
    pc[t] = "hide_uninteresting" /\ name \in {active_name, next_name}

comes_first(name, names) == \A n \in names : Order[name] <= Order[n]

hide_one(t) ==
    /\ pc[t] \in {"hide_uninteresting", "hide_all"}
    /\ statement(t, pc[t])
    /\ \E name \in todo[t] :
          /\ comes_first(name, todo[t])
          /\ todo' = [todo EXCEPT ![t] = @ \ {name}]
          /\ dereference(t, name)
          /\ IF interesting(t, name) THEN UNCHANGED visible ELSE hide(name)
    /\ UNCHANGED <<pc, shows, spinner, booting, spinner_pid, focused>>

hiding_done(t) ==
    /\ todo[t] = {}
    /\ \/ statement(t, "hide_uninteresting") /\ goto(t, "active")
          /\ UNCHANGED <<todo, shows, spinner>>
       \/ statement(t, "hide_all") /\ return(t)
    /\ UNCHANGED <<crashed, booting, spinner_pid, visible, focused>>

may_display_active_if_expected ==
    /\ is_session_ready_for_display(next_name) \/ ~ booting
       \/ ~ is_session_expected_to_become_ready(next_name)
    /\ is_session_expected_to_become_ready(active_name)
may_display_active ==
    /\ \/ is_session_ready_for_display(next_name)
       \/ ~ is_session_expected_to_become_ready(next_name)
       \/ ~ booting
    /\ is_session_ready_for_display(active_name)

\* allowed_to_display_active and the readiness of the active session are read
decide_active(t) ==
    /\ statement(t, "active")
    /\ goto(t, IF may_display_active THEN "show_active" ELSE "next")
    /\ spinner' = [spinner EXCEPT ![t] =
          IF ~ may_display_active /\ is_session_expected_to_become_ready(active_name)
          THEN "as_active" ELSE "none"]
    /\ UNCHANGED <<todo, shows, crashed, booting, spinner_pid, visible, focused>>

show_and_focus_active(t) ==
    /\ statement(t, "show_active")
    /\ goto(t, "next")
    /\ dereference(t, active_name)
    /\ show(active_name)
    /\ raise_and_focus(active_name)
    /\ shows' = [shows EXCEPT ![t] = TRUE]
    /\ booting' = FALSE
    /\ UNCHANGED <<todo, spinner, spinner_pid>>

\* The readiness of the next session is read.
decide_next(t) ==
    /\ statement(t, "next")
    /\ goto(t, IF ~ is_session_ready_for_display(next_name) THEN "spinner"
               ELSE IF shows[t] THEN "show_next" ELSE "hide_next")
    /\ spinner' = [spinner EXCEPT ![t] =
          IF /\ shows[t]
             /\ ~ is_session_ready_for_display(next_name)
             /\ is_session_expected_to_become_ready(next_name)
          THEN "as_next" ELSE @]
    /\ UNCHANGED <<todo, shows, crashed, booting, spinner_pid, visible, focused>>

show_or_hide_next(t) ==
    /\ \/ statement(t, "show_next") /\ show(next_name)
       \/ statement(t, "hide_next") /\ hide(next_name)
    /\ goto(t, "spinner")
    /\ dereference(t, next_name)
    /\ UNCHANGED <<todo, shows, spinner, booting, spinner_pid, focused>>

\* ensure_spinner_will_be_shown or ensure_spinner_is_not_running
settle_spinner(t) ==
    /\ statement(t, "spinner")
    /\ return(t)
    /\ IF spinner[t] # "none" /\ SpinnerTracked
       THEN /\ show(spinner_name)
            /\ IF spinner[t] = "as_active" THEN raise_and_focus(spinner_name)
               ELSE UNCHANGED focused
            /\ UNCHANGED spinner_pid
       ELSE /\ IF spinner[t] = "none" THEN kill ELSE ensure_running
            /\ UNCHANGED <<visible, focused>>
    /\ UNCHANGED <<crashed, booting>>

Step(t) ==
    \/ start_hiding(t)
    \/ hide_one(t)
    \/ hiding_done(t)
    \/ decide_active(t)
    \/ show_and_focus_active(t)
    \/ decide_next(t)
    \/ show_or_hide_next(t)
    \/ settle_spinner(t)

ThreadsNext == EnterCall \/ EnterHandler \/ \E t \in Thread : Step(t)

ThreadsSpec == ThreadsInit /\ [][ThreadsNext]_all_vars

-----------------------------------------------------------------------------
Seen == IF Idle THEN Snapshot ELSE saved

Atomic ==
    INSTANCE SessionSwitcher
    WITH sessions <- Seen.sessions, ready <- Seen.ready,
         active_name <- Seen.active_name, next_name <- Seen.next_name,
         spinner_name <- Seen.spinner_name, booting <- Seen.booting,
         has_active_outputs <- Seen.has_active_outputs,
         spinner_pid <- Seen.spinner_pid, connected <- Seen.connected,
         visible <- Seen.visible, focused <- Seen.focused

\* A step while a call and the handler are both under way, or one still is
Overlapping == ~ Idle /\ overlap' # {}

\* Calls that do not overlap do, statement by statement, what SessionSwitcher
\* says they do in one step, which is seen when they return: the same display,
\* focus and spinner.  That goes too for the calls after others that did
\* overlap, whatever display these have left.
CallsAreAtomic ==
    Atomic!Init /\ [][Overlapping \/ (Idle' /\ Atomic!Next)]_(Atomic!vars)

\* Only the outputs handler can dereference a null session, and only when a
\* call (which adds, removes or names a session) began while the handler was
\* under way.  The calls of the session monitor and of the display manager
\* never do, wherever the handler interrupts them; nor does a handler that
\* interrupts a call.
NullOnlyInHandler == crashed # {} => crashed = {"outputs"} /\ "call" \in overlap

\* Test displays_spinner_when_active_is_removed_unexpectedly: a session that is
\* removed is not shown.  Whoever shows or hides a session by its name, having
\* found it ready some statements earlier, still finds it in the map; only in
\* the loops that hide every session of the map may one be gone.
ReadySessionFound == \A t \in crashed : pc[t] \in {"hide_all", "hide_uninteresting"}

\* Test hides_all_sessions_on_inactive_display: once the handler has returned
\* from a call without active outputs, and no other call is under way, nothing
\* that is tracked is displayed.
NothingShownWithoutOutputs ==
    Idle /\ crashed = {} /\ ~ has_active_outputs => visible \cap Tracked = {}
=============================================================================
