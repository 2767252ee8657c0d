--------------------------- MODULE SessionSwitcher ---------------------------
(***************************************************************************)
(* usc::SessionSwitcher decides which client sessions are on the screen.   *)
(* The display manager names an active and a next session, Mir reports     *)
(* sessions that connect, get ready and disconnect, and the screen reports *)
(* whether any output is on.  Every such call ends in                      *)
(* update_displayed_sessions(), which hides and shows sessions and starts  *)
(* or kills the spinner process.                                           *)
(*                                                                         *)
(* Here every call is one step, which is what the switcher's mutex gives   *)
(* the callers that take it.  SwitcherThreads has the same calls at the    *)
(* grain of their statements, and the one caller that does not lock.       *)
(***************************************************************************)
EXTENDS Integers, FiniteSets

CONSTANTS
    Session,        \* Mir sessions (each connection is a session)
    NoSession,      \* the absent map entry
    Name,           \* session names
    EmptyName,      \* ""
    NameOf,         \* the name a session connects with
    DMName,         \* the names the display manager sends
    SpinnerSession, \* the sessions opened by a spinner process
    Pid,            \* process ids
    NoPid,          \* 0, the spinner_pid of a spinner that was not forked
    ForkFailed,     \* -1, the result of a failed fork
    HasExecutable   \* whether a spinner executable is configured

ASSUME ConstantsAssumption ==
    /\ NoSession \notin Session
    /\ EmptyName \in Name
    /\ NameOf \in [Session -> Name]
    /\ DMName \subseteq Name
    /\ SpinnerSession \subseteq Session
    /\ NoPid \notin Pid /\ ForkFailed \notin Pid /\ NoPid # ForkFailed
    /\ HasExecutable \in BOOLEAN

\* What the switcher silently relies on: clients have names, and the name of
\* a spinner is neither the name of another client nor one the display
\* manager uses.  The theorems and the runs are under WellNamed.  (Without it
\* a session with the empty name is displayed when no session is named, and a
\* client is displayed as the spinner.)
WellNamed ==
    /\ \A s \in Session : NameOf[s] # EmptyName
    /\ \A s \in SpinnerSession : NameOf[s] \notin DMName
    /\ \A s \in SpinnerSession, t \in Session \ SpinnerSession : NameOf[s] # NameOf[t]

VARIABLES
    \* members of SessionSwitcher
    sessions,            \* the std::map: name -> session, NoSession if absent
    ready,               \* the names whose SessionInfo has ready = true
    active_name,
    next_name,
    spinner_name,
    booting,
    has_active_outputs,
    \* ExternalSpinner::spinner_pid
    spinner_pid,
    \* the Mir side: what the calls on usc::Session and the connections did
    connected,           \* sessions Mir knows
    visible,             \* sessions that are shown
    focused              \* the session last raised and focused

switcher_vars == <<sessions, ready, active_name, next_name, spinner_name,
                   booting, has_active_outputs>>
vars == <<switcher_vars, spinner_pid, connected, visible, focused>>

TrackedNames == {n \in Name : sessions[n] # NoSession}
Tracked == {sessions[n] : n \in TrackedNames}

\* Types, and the consistency of the map that every operation relies on: an
\* entry is filed under its session's own name and goes with the session, and
\* only an entry can be ready (session_switcher.cpp add, remove, mark_ready).
TypeOK ==
    /\ sessions \in [Name -> Session \cup {NoSession}]
    /\ \A n \in TrackedNames : NameOf[sessions[n]] = n /\ sessions[n] \in connected
    /\ ready \subseteq TrackedNames
    /\ active_name \in DMName \cup {EmptyName}
    /\ next_name \in DMName \cup {EmptyName}
    /\ spinner_name \in Name
    /\ booting \in BOOLEAN
    /\ has_active_outputs \in BOOLEAN
    /\ spinner_pid \in Pid \cup {NoPid, ForkFailed}
    /\ connected \subseteq Session
    /\ visible \subseteq connected
    /\ focused \in Session \cup {NoSession}

Init ==
    /\ sessions = [n \in Name |-> NoSession]
    /\ ready = {}
    /\ active_name = EmptyName
    /\ next_name = EmptyName
    /\ spinner_name = EmptyName
    /\ booting = TRUE
    /\ has_active_outputs = TRUE
    /\ spinner_pid = NoPid
    /\ connected = {}
    /\ visible = {}
    /\ focused = NoSession

-----------------------------------------------------------------------------
\* Reading the map.

is_session_ready_for_display(name) == name \in TrackedNames /\ name \in ready

is_session_expected_to_become_ready(name) == name # EmptyName

\* The sessions hide_uninteresting_sessions() hides.
Uninteresting == {sessions[n] : n \in TrackedNames \ {active_name, next_name}}

SpinnerTracked == spinner_name \in TrackedNames

-----------------------------------------------------------------------------
\* update_displayed_sessions().  It is called at the end of an operation that
\* has already changed the map and the names, so it reads them primed;
\* `booting` is read as the operation found it.

allowed_even_if_next_is_awaited == TRUE
allowed_only_if_next_is_ready == is_session_ready_for_display(next_name)'
allowed_to_display_active ==
    \/ is_session_ready_for_display(next_name)'
    \/ ~ is_session_expected_to_become_ready(next_name)'
    \/ ~ booting

show_active ==
    allowed_to_display_active /\ is_session_ready_for_display(active_name)'

show_spinner_as_active ==
    ~ show_active /\ is_session_expected_to_become_ready(active_name)'

show_next_without_active == is_session_ready_for_display(next_name)'
\* allowed_to_display_next: show_active implies ~show_spinner
show_next == show_active /\ is_session_ready_for_display(next_name)'

show_spinner_as_next ==
    /\ show_active
    /\ ~ show_next
    /\ is_session_expected_to_become_ready(next_name)'

show_spinner_for_active_only == show_spinner_as_active
show_spinner == show_spinner_as_active \/ show_spinner_as_next

hide_next == ~ show_active /\ is_session_ready_for_display(next_name)'

\* hide_all_sessions(), with vis the sessions that were visible before it
hide_all_sessions(vis) == vis \ Tracked'

hide_uninteresting_only(vis) == vis \ Uninteresting'
\* hide_uninteresting_sessions() and the later hide_session(next_name)
hide_sessions(vis) ==
    (vis \ Uninteresting') \ {s \in Session : hide_next /\ s = sessions'[next_name']}

\* the sessions show() is called on
shown_sessions ==
    {s \in Session :
        \/ show_active /\ s = sessions'[active_name']
        \/ show_next /\ s = sessions'[next_name']
        \/ show_spinner /\ s = sessions'[spinner_name']}

focus_after_any_mode(foc) ==
    IF show_spinner /\ SpinnerTracked' THEN sessions'[spinner_name']
    ELSE IF show_active THEN sessions'[active_name'] ELSE foc
\* raise_and_focus() is called for ShowMode::as_active only
focus_after(foc) ==
    IF show_active THEN sessions'[active_name']
    ELSE IF show_spinner_as_active /\ SpinnerTracked' THEN sessions'[spinner_name']
    ELSE foc

\* ExternalSpinner::ensure_running: a no-op without an executable or while
\* spinner_pid is set; a fork otherwise, whose result is stored as it is.
ensure_running ==
    IF ~ HasExecutable \/ spinner_pid # NoPid
    THEN UNCHANGED spinner_pid
    ELSE spinner_pid' \in Pid \cup {ForkFailed}

kill_nothing == UNCHANGED spinner_pid
\* ExternalSpinner::kill, as far as the switcher can see
kill == spinner_pid' = NoPid

ensure_spinner_will_be_shown ==
    IF SpinnerTracked' THEN UNCHANGED spinner_pid ELSE ensure_running

\* vis and foc: what was visible and focused when the update starts
update_displayed_sessions(vis, foc) ==
    \/ /\ ~ has_active_outputs'
       /\ visible' = hide_all_sessions(vis)
       /\ focused' = foc
       /\ UNCHANGED <<booting, spinner_pid>>
    \/ /\ has_active_outputs'
       /\ visible' = hide_sessions(vis) \cup shown_sessions
       /\ focused' = focus_after(foc)
       /\ booting' = (booting /\ ~ show_active)
       /\ IF show_spinner THEN ensure_spinner_will_be_shown ELSE kill

-----------------------------------------------------------------------------
\* The operations, each under the mutex.

spinner_name_kept(s, pid) == spinner_name
spinner_name_after_add(s, pid) ==
    IF pid = spinner_pid THEN NameOf[s] ELSE spinner_name

\* Mir opens session s of a process with id pid.  The entry of an earlier
\* session of that name is overwritten.
insert(s, pid) ==
    /\ s \notin connected
    /\ connected' = connected \cup {s}
    /\ spinner_name' = spinner_name_after_add(s, pid)
    /\ sessions' = [sessions EXCEPT ![NameOf[s]] = s]
    /\ ready' = ready \ {NameOf[s]}
    /\ UNCHANGED <<active_name, next_name, has_active_outputs>>

\* SessionMonitor::add
add(s, pid) == insert(s, pid) /\ update_displayed_sessions(visible, focused)

\* Mir drops the session, whatever the switcher does about it.
disconnect(s) ==
    /\ s \in connected
    /\ connected' = connected \ {s}

name_is_tracked(s) == sessions[NameOf[s]] # NoSession
\* What remove() looks for: the entry of the session's name, and that it
\* corresponds to this session.
is_tracked(s) == sessions[NameOf[s]] = s

erase_nothing(s) == sessions
erase(s) == [sessions EXCEPT ![NameOf[s]] = NoSession]

unfocus(s) == IF focused = s THEN NoSession ELSE focused

\* remove() for the session its name is mapped to
forget(s) ==
    /\ disconnect(s)
    /\ is_tracked(s)
    /\ spinner_name' = IF NameOf[s] = spinner_name THEN EmptyName ELSE spinner_name
    /\ sessions' = erase(s)
    /\ ready' = ready \ {NameOf[s]}
    /\ UNCHANGED <<active_name, next_name, has_active_outputs>>

\* SessionMonitor::remove
remove(s) == forget(s) /\ update_displayed_sessions(visible \ {s}, unfocus(s))

\* remove() returns early for a session that is not tracked, or that another
\* session of the same name has replaced.
remove_ignored(s) ==
    /\ disconnect(s)
    /\ ~ is_tracked(s)
    /\ visible' = visible \ {s}
    /\ focused' = unfocus(s)
    /\ UNCHANGED <<switcher_vars, spinner_pid>>

\* mark_ready() looks for the session in every entry.
note_ready(s) ==
    /\ s \in connected
    /\ ready' = ready \cup {n \in TrackedNames : sessions[n] = s}
    /\ UNCHANGED <<sessions, active_name, next_name, spinner_name,
                   has_active_outputs, connected>>

\* SessionMonitor::mark_ready
mark_ready(s) == note_ready(s) /\ update_displayed_sessions(visible, focused)

name_active(name) ==
    /\ active_name' = name
    /\ UNCHANGED <<sessions, ready, next_name, spinner_name, has_active_outputs, connected>>

\* DMMessageHandler::set_active_session
set_active_session(name) ==
    name_active(name) /\ update_displayed_sessions(visible, focused)

name_next(name) ==
    /\ next_name' = name
    /\ UNCHANGED <<sessions, ready, active_name, spinner_name, has_active_outputs, connected>>

\* DMMessageHandler::set_next_session
set_next_session(name) ==
    name_next(name) /\ update_displayed_sessions(visible, focused)

note_outputs(any_active) ==
    /\ has_active_outputs' = any_active
    /\ UNCHANGED <<sessions, ready, active_name, next_name, spinner_name, connected>>

\* The lambda that set_screen registers with the screen.
active_outputs_handler(any_active) ==
    note_outputs(any_active) /\ update_displayed_sessions(visible, focused)

-----------------------------------------------------------------------------
\* Sessions come from processes that Mir identifies by their pid.  A client
\* that is not a spinner does not have the pid of the running spinner; that
\* of a dead one it may have, and a spinner may connect after it was killed.
MayConnect(s, pid) == s \in SpinnerSession \/ pid # spinner_pid

Connects == \E s \in Session, pid \in Pid : MayConnect(s, pid) /\ add(s, pid)

Disconnects == \E s \in Session : remove(s) \/ remove_ignored(s)
GetsReady == \E s \in Session : mark_ready(s)
DMNamesActive == \E name \in DMName \cup {EmptyName} : set_active_session(name)
DMNamesNext == \E name \in DMName \cup {EmptyName} : set_next_session(name)
OutputsChange == \E any_active \in BOOLEAN : active_outputs_handler(any_active)

Next ==
    \/ Connects
    \/ Disconnects
    \/ GetsReady
    \/ DMNamesActive
    \/ DMNamesNext
    \/ OutputsChange

Spec == Init /\ [][Next]_vars

-----------------------------------------------------------------------------
\* What is on the screen, as a function of the state alone.

\* The active session is up: it is ready and, while the system boots, nothing
\* else is still awaited.
ActiveDisplayed ==
    /\ is_session_ready_for_display(active_name)
    /\ ~ booting

NextDisplayed == ActiveDisplayed /\ is_session_ready_for_display(next_name)

\* A session that was asked for is not there yet.
SpinnerNeeded ==
    \/ is_session_expected_to_become_ready(active_name) /\ ~ ActiveDisplayed
    \/ /\ ActiveDisplayed
       /\ is_session_expected_to_become_ready(next_name)
       /\ ~ NextDisplayed

Wanted ==
    {s \in Session :
        /\ has_active_outputs
        /\ \/ ActiveDisplayed /\ s = sessions[active_name]
           \/ NextDisplayed /\ s = sessions[next_name]
           \/ SpinnerNeeded /\ s = sessions[spinner_name]}

\* Whatever the history of calls (hot-plugged outputs, sessions replaced,
\* removed or renamed), the tracked sessions on the screen are exactly those
\* the current names, readiness and outputs ask for: nothing an earlier call
\* showed is left over, nothing it hid is still missing.
DisplayMatches == visible \cap Tracked = Wanted

\* The session with the focus is one that is on the screen as active (or as
\* the spinner in its place), whenever there is such a session.
FocusMatches ==
    has_active_outputs =>
        /\ ActiveDisplayed => focused = sessions[active_name]
        /\ ~ ActiveDisplayed /\ SpinnerNeeded /\ SpinnerTracked
              => focused = sessions[spinner_name]

\* Until the boot is over nothing but a spinner is ever displayed.
BootShowsOnlySpinner == booting => visible \subseteq SpinnerSession

\* What the display manager has asked for
Named == {sessions[n] : n \in {active_name, next_name} \ {EmptyName}}

\* The boot ends in one step from the spinner to everything that was asked
\* for: the active session is never displayed first with an awaited next
\* session missing.  (A spinner whose entry another spinner has taken before is
\* no longer tracked, and stays displayed.)
BootEndsWithBoth ==
    [][ booting /\ ~ booting' =>
           /\ NextDisplayed' \/ ~ is_session_expected_to_become_ready(next_name)'
           /\ visible' \cap Tracked' = Named' ]_vars

\* With an output on, a spinner was forked or is connected whenever one is
\* needed, and none is kept once it is not.
SpinnerAccounting ==
    has_active_outputs =>
        IF SpinnerNeeded
        THEN SpinnerTracked \/ ~ HasExecutable \/ spinner_pid # NoPid
        ELSE spinner_pid = NoPid

\* The remembered name is that of a connected spinner: it is forgotten when
\* the spinner goes, and no other client can take the spinner's place.
SpinnerIsSpinner ==
    spinner_name # EmptyName =>
        SpinnerTracked /\ sessions[spinner_name] \in SpinnerSession

\* An entry is lost only when its session disconnects, or to a session that
\* connects under the same name; the late removal of a session that was
\* replaced does not take its successor with it.
EntriesKept ==
    [][ \A n \in TrackedNames :
          \/ sessions'[n] = sessions[n]
          \/ sessions[n] \notin connected'
          \/ sessions'[n] \in connected' \ connected ]_vars

\* As long as the active session, its readiness and the outputs stay as they
\* are, no call about anything else takes the active session off the screen
\* or moves the focus away from it.
ActiveKeepsScreen ==
    [][ /\ has_active_outputs /\ has_active_outputs'
        /\ ActiveDisplayed
        /\ active_name' = active_name
        /\ sessions'[active_name] = sessions[active_name]
        => /\ sessions[active_name] \in visible'
           /\ focused' = sessions[active_name] ]_vars
=============================================================================
