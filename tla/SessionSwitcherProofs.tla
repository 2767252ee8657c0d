------------------------ MODULE SessionSwitcherProofs ------------------------
(***************************************************************************)
(* Theorems about SessionSwitcher, its spinner and the lifecycle of the    *)
(* sessions, for every choice of the constants.                            *)
(*                                                                         *)
(* Every operation changes the map and the names and then updates the      *)
(* display, so each proof has two parts: what update_displayed_sessions    *)
(* establishes (one lemma per property), and what every operation keeps of *)
(* the sessions that were visible before (one step per operation).         *)
(***************************************************************************)
EXTENDS SpinnerLifecycle, ServerStatus, TLAPS

\* The first halves of the operations, which only the operations use.
USE DEF insert, forget, note_ready, name_active, name_next, note_outputs, MayConnect

\* The seven calls a step of Next may be, as the proofs split it.
LEMMA NextCases ==
    ASSUME Next
    PROVE  \/ \E s \in Session, pid \in Pid :
                 MayConnect(s, pid) /\ add(s, pid)
           \/ \E s \in Session : remove(s)
           \/ \E s \in Session : remove_ignored(s)
           \/ \E s \in Session : mark_ready(s)
           \/ \E name \in DMName \cup {EmptyName} : set_active_session(name)
           \/ \E name \in DMName \cup {EmptyName} : set_next_session(name)
           \/ \E any_active \in BOOLEAN : active_outputs_handler(any_active)
  BY DEF Next, Connects, Disconnects, GetsReady, DMNamesActive, DMNamesNext, OutputsChange

\* Any call of the switcher, also one for a client that got the spinner's pid
AnyCall ==
    \/ \E s \in Session, pid \in Pid : add(s, pid)
    \/ Disconnects \/ GetsReady \/ DMNamesActive \/ DMNamesNext \/ OutputsChange

\* A step of Next is such a call.
LEMMA NextCalls == [Next]_vars => [AnyCall]_vars
BY DEF Next, Connects, AnyCall

\* Every call but the removal of a session the switcher does not track ends
\* with an update of the display.
LEMMA CallUpdates ==
    ASSUME AnyCall, ~ \E s \in Session : remove_ignored(s)
    PROVE  \E vis, foc : update_displayed_sessions(vis, foc)
<1>1. CASE \E s \in Session, pid \in Pid : add(s, pid)
  BY <1>1 DEF add
<1>2. CASE \E s \in Session : remove(s)
  BY <1>2 DEF remove
<1>3. CASE GetsReady
  BY <1>3 DEF GetsReady, mark_ready
<1>4. CASE DMNamesActive
  BY <1>4 DEF DMNamesActive, set_active_session
<1>5. CASE DMNamesNext
  BY <1>5 DEF DMNamesNext, set_next_session
<1>6. CASE OutputsChange
  BY <1>6 DEF OutputsChange, active_outputs_handler
<1> QED BY <1>1, <1>2, <1>3, <1>4, <1>5, <1>6 DEF AnyCall, Disconnects

-----------------------------------------------------------------------------
\* The update never shows or focuses anything but tracked sessions, and it
\* leaves the other variables well typed.
LEMMA UpdateType ==
    ASSUME NEW vis, NEW foc,
           update_displayed_sessions(vis, foc),
           vis \subseteq connected',
           foc \in Session \cup {NoSession},
           booting \in BOOLEAN,
           spinner_pid \in Pid \cup {NoPid, ForkFailed},
           sessions' \in [Name -> Session \cup {NoSession}],
           spinner_name' \in Name,
           \A n \in TrackedNames' : NameOf[sessions'[n]] = n /\ sessions'[n] \in connected'
    PROVE  /\ visible' \subseteq connected'
           /\ focused' \in Session \cup {NoSession}
           /\ booting' \in BOOLEAN
           /\ spinner_pid' \in Pid \cup {NoPid, ForkFailed}
<1>1. shown_sessions \subseteq connected'
  BY ConstantsAssumption
  DEF shown_sessions, show_active, show_next, show_spinner, is_session_ready_for_display,
      TrackedNames
<1>2. focus_after(foc) \in Session \cup {NoSession}
  BY DEF focus_after, show_active, show_spinner_as_active, SpinnerTracked,
         is_session_ready_for_display, TrackedNames
<1>3. CASE ~ has_active_outputs'
  BY <1>3 DEF update_displayed_sessions, hide_all_sessions
<1>4. CASE has_active_outputs'
  BY <1>1, <1>2, <1>4
  DEF update_displayed_sessions, hide_sessions, ensure_spinner_will_be_shown,
      ensure_running, kill
<1> QED BY <1>3, <1>4

\* Every call keeps the types.
LEMMA TypeStep == TypeOK /\ [AnyCall]_vars => TypeOK'
<1> SUFFICES ASSUME TypeOK, [AnyCall]_vars PROVE TypeOK'
  OBVIOUS
<1> USE ConstantsAssumption DEF TypeOK
<1>1. CASE \E s \in Session, pid \in Pid : add(s, pid)
  <2> PICK s \in Session, pid \in Pid : add(s, pid)
    BY <1>1
  <2>1. /\ sessions' = [sessions EXCEPT ![NameOf[s]] = s]
        /\ connected' = connected \cup {s}
        /\ ready' = ready \ {NameOf[s]}
        /\ spinner_name' \in Name
    BY DEF add, spinner_name_after_add
  <2>2. \A n \in TrackedNames' : NameOf[sessions'[n]] = n /\ sessions'[n] \in connected'
    BY <2>1 DEF TrackedNames
  <2>3. ready' \subseteq TrackedNames'
    BY <2>1 DEF TrackedNames
  <2> QED BY <2>1, <2>2, <2>3, UpdateType DEF add
<1>2. CASE \E s \in Session : remove(s)
  <2> PICK s \in Session : remove(s)
    BY <1>2
  <2>1. /\ sessions' = [sessions EXCEPT ![NameOf[s]] = NoSession]
        /\ sessions[NameOf[s]] = s
        /\ connected' = connected \ {s}
        /\ ready' = ready \ {NameOf[s]}
        /\ spinner_name' \in Name
    BY DEF remove, disconnect, erase, is_tracked
  <2>2. \A n \in TrackedNames' : NameOf[sessions'[n]] = n /\ sessions'[n] \in connected'
    BY <2>1 DEF TrackedNames
  <2>3. ready' \subseteq TrackedNames'
    BY <2>1 DEF TrackedNames
  <2>4. unfocus(s) \in Session \cup {NoSession}
    BY DEF unfocus
  <2> QED BY <2>1, <2>2, <2>3, <2>4, UpdateType DEF remove
<1>3. CASE \E s \in Session : remove_ignored(s)
  BY <1>3 DEF remove_ignored, disconnect, is_tracked, unfocus, switcher_vars, TrackedNames
<1>4. CASE \E s \in Session : mark_ready(s)
  <2> PICK s \in Session : mark_ready(s)
    BY <1>4
  <2>1. ready' \subseteq TrackedNames'
    BY DEF mark_ready, TrackedNames
  <2> QED BY <2>1, UpdateType DEF mark_ready, TrackedNames
<1>5. CASE \E name \in DMName \cup {EmptyName} : set_active_session(name)
  BY <1>5, UpdateType DEF set_active_session, TrackedNames
<1>6. CASE \E name \in DMName \cup {EmptyName} : set_next_session(name)
  BY <1>6, UpdateType DEF set_next_session, TrackedNames
<1>7. CASE \E any_active \in BOOLEAN : active_outputs_handler(any_active)
  BY <1>7, UpdateType DEF active_outputs_handler, TrackedNames
<1>8. CASE UNCHANGED vars
  BY <1>8 DEF vars, switcher_vars, TrackedNames
<1> QED BY <1>1, <1>2, <1>3, <1>4, <1>5, <1>6, <1>7, <1>8
        DEF AnyCall, Disconnects, GetsReady, DMNamesActive, DMNamesNext, OutputsChange

\* TypeOK: the variables have their types, an entry of the map is filed under
\* the name of a connected session, and only entries are ready.
THEOREM TypeCorrect == Spec => []TypeOK
<1>1. Init => TypeOK
  BY ConstantsAssumption DEF Init, TypeOK, TrackedNames
<1> QED BY <1>1, TypeStep, NextCalls, PTL DEF Spec

-----------------------------------------------------------------------------
\* What the update decided is what the state afterwards says is wanted.
LEMMA UpdateDecides ==
    ASSUME NEW vis, NEW foc,
           update_displayed_sessions(vis, foc),
           has_active_outputs',
           booting \in BOOLEAN
    PROVE  /\ show_active <=> ActiveDisplayed'
           /\ show_next <=> NextDisplayed'
           /\ show_spinner <=> SpinnerNeeded'
           /\ booting' = (booting /\ ~ show_active)
  BY DEF update_displayed_sessions, show_active, show_next, show_spinner,
         show_spinner_as_active, show_spinner_as_next, allowed_to_display_active,
         ActiveDisplayed, NextDisplayed, SpinnerNeeded

\* FocusMatches and SpinnerAccounting hold after every update, from whatever
\* state it starts.
LEMMA UpdateFocuses ==
    ASSUME NEW vis, NEW foc, update_displayed_sessions(vis, foc), booting \in BOOLEAN
    PROVE  FocusMatches'
<1> SUFFICES ASSUME has_active_outputs' PROVE FocusMatches'
  BY DEF FocusMatches
<1>1. focused' = focus_after(foc)
  BY DEF update_displayed_sessions
<1>2. CASE show_active
  BY <1>1, <1>2, UpdateDecides DEF FocusMatches, focus_after
<1>3. CASE ~ show_active
  <2>1. ~ ActiveDisplayed'
    BY <1>3, UpdateDecides
  <2>2. SpinnerNeeded' => show_spinner_as_active
    BY <1>3, UpdateDecides DEF show_spinner, show_spinner_as_next
  <2> QED BY <1>1, <1>3, <2>1, <2>2 DEF FocusMatches, focus_after
<1> QED BY <1>2, <1>3

LEMMA UpdateAccounts ==
    ASSUME NEW vis, NEW foc, update_displayed_sessions(vis, foc), booting \in BOOLEAN
    PROVE  SpinnerAccounting'
  BY UpdateDecides, ConstantsAssumption
  DEF SpinnerAccounting, update_displayed_sessions, ensure_spinner_will_be_shown,
      ensure_running, kill

\* FocusMatches: with an output on, the focus is on the active session, or on
\* the spinner shown in its place.
THEOREM FocusCorrect == Spec => []FocusMatches
<1>1. Init => FocusMatches
  BY DEF Init, FocusMatches, ActiveDisplayed, SpinnerNeeded, SpinnerTracked,
         is_session_expected_to_become_ready, TrackedNames
<1>2. TypeOK /\ TypeOK' /\ FocusMatches /\ [Next]_vars => FocusMatches'
  <2> SUFFICES ASSUME TypeOK, TypeOK', FocusMatches, [Next]_vars PROVE FocusMatches'
    OBVIOUS
  <2>1. booting \in BOOLEAN
    BY DEF TypeOK
  <2>2. CASE \E s \in Session : remove_ignored(s)
    <3> PICK s \in Session : remove_ignored(s)
      BY <2>2
    <3>1. \A n \in TrackedNames : sessions[n] # s
      BY DEF remove_ignored, is_tracked, TypeOK
    <3>2. UNCHANGED switcher_vars /\ focused' = unfocus(s)
      BY DEF remove_ignored
    <3> QED BY <3>1, <3>2
            DEF FocusMatches, ActiveDisplayed, SpinnerNeeded, NextDisplayed,
                SpinnerTracked, unfocus, switcher_vars, TrackedNames,
                is_session_ready_for_display
  <2>3. CASE UNCHANGED vars
    BY <2>3 DEF vars, switcher_vars, FocusMatches, ActiveDisplayed, SpinnerNeeded,
         NextDisplayed, SpinnerTracked, TrackedNames, is_session_ready_for_display
  <2>4. CASE \E vis, foc : update_displayed_sessions(vis, foc)
    BY <2>1, <2>4, UpdateFocuses
  <2> QED BY <2>2, <2>3, <2>4, NextCases
          DEF add, remove, mark_ready, set_active_session, set_next_session,
              active_outputs_handler
<1> QED BY <1>1, <1>2, TypeCorrect, PTL DEF Spec

\* A call that updates the display accounts for the spinner, and one that does
\* not changes nothing it depends on.
LEMMA AccountStep == TypeOK /\ SpinnerAccounting /\ [AnyCall]_vars => SpinnerAccounting'
<1> SUFFICES ASSUME TypeOK, SpinnerAccounting, [AnyCall]_vars PROVE SpinnerAccounting'
  OBVIOUS
<1>1. booting \in BOOLEAN
  BY DEF TypeOK
<1>2. CASE \E s \in Session : remove_ignored(s)
  BY <1>2 DEF remove_ignored, switcher_vars, SpinnerAccounting, ActiveDisplayed,
       SpinnerNeeded, NextDisplayed, SpinnerTracked, TrackedNames,
       is_session_ready_for_display
<1>3. CASE UNCHANGED vars
  BY <1>3 DEF vars, switcher_vars, SpinnerAccounting, ActiveDisplayed, SpinnerNeeded,
       NextDisplayed, SpinnerTracked, TrackedNames, is_session_ready_for_display
<1>4. CASE \E vis, foc : update_displayed_sessions(vis, foc)
  BY <1>1, <1>4, UpdateAccounts
<1> QED BY <1>2, <1>3, <1>4
        DEF AnyCall, Disconnects, GetsReady, DMNamesActive, DMNamesNext, OutputsChange,
            add, remove, mark_ready, set_active_session, set_next_session,
            active_outputs_handler

\* Before the first call no spinner is needed and none runs.
LEMMA AccountInit == Init => SpinnerAccounting
BY DEF Init, SpinnerAccounting, ActiveDisplayed, SpinnerNeeded,
       is_session_expected_to_become_ready, is_session_ready_for_display, TrackedNames

\* SpinnerAccounting: with an output on, a spinner was forked or is connected
\* whenever one is needed, and none is kept once it is not.
THEOREM SpinnerAccounted == Spec => []SpinnerAccounting
<1> QED BY AccountInit, AccountStep, NextCalls, TypeCorrect, PTL DEF Spec

-----------------------------------------------------------------------------
\* DisplayMatches is not inductive alone: that hide_uninteresting_sessions()
\* and hide_session(next_name) hide enough depends on what may be visible
\* before, and for the spinner on who may hold its name.
IInv == TypeOK /\ SpinnerIsSpinner /\ DisplayMatches /\ BootShowsOnlySpinner

\* A visible client the display manager can name is ready, and after the boot.
DMVisible(vis) ==
    \A s \in vis : NameOf[s] \in DMName => NameOf[s] \in ready /\ ~ booting

LEMMA VisibleReady ==
    ASSUME WellNamed, IInv
    PROVE  DMVisible(visible \cap Tracked)
<1> SUFFICES ASSUME NEW s \in visible \cap Tracked, NameOf[s] \in DMName
             PROVE  NameOf[s] \in ready /\ ~ booting
  BY DEF DMVisible
<1>1. s \in Wanted
  BY DEF IInv, DisplayMatches
<1>2. PICK n \in TrackedNames : s = sessions[n]
  BY DEF Tracked
<1>3. NameOf[s] = n /\ n # EmptyName /\ s \in Session
  BY <1>2, ConstantsAssumption DEF WellNamed, IInv, TypeOK, TrackedNames
<1>4. CASE s = sessions[active_name] /\ ActiveDisplayed
  BY <1>4 DEF IInv, TypeOK, ActiveDisplayed, is_session_ready_for_display
<1>5. CASE s = sessions[next_name] /\ NextDisplayed
  BY <1>5 DEF IInv, TypeOK, NextDisplayed, ActiveDisplayed, is_session_ready_for_display
<1>6. CASE s = sessions[spinner_name]
  <2>1. spinner_name \in TrackedNames
    BY <1>2, <1>6, ConstantsAssumption DEF IInv, TypeOK, TrackedNames
  <2>2. spinner_name = n
    BY <2>1, <1>3, <1>6 DEF IInv, TypeOK
  <2> QED BY <2>2, <1>3, <1>6 DEF IInv, SpinnerIsSpinner, WellNamed
<1> QED BY <1>1, <1>4, <1>5, <1>6 DEF Wanted

\* The update leaves exactly the wanted sessions on the screen.
LEMMA UpdateMatches ==
    ASSUME NEW vis, NEW foc,
           update_displayed_sessions(vis, foc),
           WellNamed, TypeOK', booting \in BOOLEAN,
           \A s \in vis \cap Tracked' :
               NameOf[s] \in DMName => NameOf[s] \in ready' /\ ~ booting
    PROVE  DisplayMatches'
<1>1. CASE ~ has_active_outputs'
  BY <1>1 DEF update_displayed_sessions, hide_all_sessions, DisplayMatches, Wanted
<1>2. CASE has_active_outputs'
  <2>1. Wanted' = shown_sessions
    BY <1>2, UpdateDecides DEF Wanted, shown_sessions
  <2>2. shown_sessions \subseteq Tracked'
    BY ConstantsAssumption
    DEF shown_sessions, Tracked, TrackedNames, show_active, show_next,
        is_session_ready_for_display, TypeOK
  <2>3. hide_sessions(vis) \cap Tracked' \subseteq shown_sessions
    <3> SUFFICES ASSUME NEW s \in hide_sessions(vis), s \in Tracked'
                 PROVE  s \in shown_sessions
      OBVIOUS
    <3>1. PICK n \in TrackedNames' : s = sessions'[n]
      BY DEF Tracked
    <3>2. n \in {active_name', next_name'}
      BY <3>1 DEF hide_sessions, Uninteresting
    <3>3. NameOf[s] = n /\ n # EmptyName /\ s \in Session
      BY <3>1, ConstantsAssumption DEF TypeOK, WellNamed, TrackedNames
    <3>4. n \in ready' /\ ~ booting
      BY <3>1, <3>2, <3>3 DEF hide_sessions, TypeOK
    <3>5. is_session_ready_for_display(n)'
      BY <3>1, <3>4 DEF is_session_ready_for_display
    <3>6. CASE n = active_name'
      BY <3>1, <3>3, <3>4, <3>5, <3>6
      DEF shown_sessions, show_active, allowed_to_display_active
    <3>7. CASE n = next_name'
      <4>1. ~ hide_next
        BY <3>1, <3>3, <3>7 DEF hide_sessions
      <4> QED BY <4>1, <3>1, <3>3, <3>5, <3>7 DEF shown_sessions, show_next, hide_next
    <3> QED BY <3>2, <3>6, <3>7
  <2>4. visible' = hide_sessions(vis) \cup shown_sessions
    BY <1>2 DEF update_displayed_sessions
  <2> QED BY <2>1, <2>2, <2>3, <2>4 DEF DisplayMatches
<1> QED BY <1>1, <1>2

\* While the system boots the update shows no session but the spinner's.
LEMMA UpdateBoots ==
    ASSUME NEW vis, NEW foc,
           update_displayed_sessions(vis, foc),
           WellNamed, TypeOK', SpinnerIsSpinner', booting \in BOOLEAN,
           booting => vis \subseteq SpinnerSession
    PROVE  BootShowsOnlySpinner'
<1> SUFFICES ASSUME booting' PROVE visible' \subseteq SpinnerSession
  BY DEF BootShowsOnlySpinner
<1>1. CASE ~ has_active_outputs'
  BY <1>1 DEF update_displayed_sessions, hide_all_sessions
<1>2. CASE has_active_outputs'
  <2>1. booting /\ ~ show_active
    BY <1>2, UpdateDecides
  <2>2. shown_sessions \subseteq SpinnerSession
    <3> SUFFICES ASSUME NEW s \in shown_sessions PROVE s \in SpinnerSession
      OBVIOUS
    <3>1. s \in Session /\ s = sessions'[spinner_name']
      BY <2>1 DEF shown_sessions, show_next
    <3>2. spinner_name' \in TrackedNames'
      BY <3>1, ConstantsAssumption DEF TrackedNames, TypeOK
    <3>3. spinner_name' # EmptyName
      BY <3>2, ConstantsAssumption DEF TypeOK, WellNamed, TrackedNames
    <3> QED BY <3>1, <3>3 DEF SpinnerIsSpinner
  <2> QED BY <1>2, <2>1, <2>2 DEF update_displayed_sessions, hide_sessions
<1> QED BY <1>1, <1>2

\* What each operation keeps of the spinner's name.
LEMMA SpinnerKept ==
    ASSUME WellNamed, TypeOK, TypeOK', SpinnerIsSpinner, [Next]_vars
    PROVE  SpinnerIsSpinner'
<1> USE DEF SpinnerIsSpinner, SpinnerTracked
<1>1. CASE \E s \in Session, pid \in Pid :
               MayConnect(s, pid) /\ add(s, pid)
  <2> PICK s \in Session, pid \in Pid :
               MayConnect(s, pid) /\ add(s, pid)
    BY <1>1
  <2>1. /\ sessions' = [sessions EXCEPT ![NameOf[s]] = s]
        /\ spinner_name' = IF pid = spinner_pid THEN NameOf[s] ELSE spinner_name
    BY DEF add, spinner_name_after_add
  <2>2. sessions'[NameOf[s]] = s /\ NameOf[s] \in TrackedNames'
    BY <2>1, ConstantsAssumption DEF TypeOK, TrackedNames
  <2>3. CASE pid = spinner_pid
    BY <2>1, <2>2, <2>3
  <2>4. CASE pid # spinner_pid /\ spinner_name # EmptyName
    <3>1. CASE spinner_name = NameOf[s]
      <4>1. NameOf[sessions[spinner_name]] = NameOf[s]
        BY <2>4, <3>1 DEF TypeOK
      <4> QED BY <2>1, <2>2, <2>4, <3>1, <4>1 DEF WellNamed
    <3>2. CASE spinner_name # NameOf[s]
      BY <2>1, <2>4, <3>2 DEF TypeOK, TrackedNames
    <3> QED BY <3>1, <3>2
  <2>5. CASE pid # spinner_pid /\ spinner_name = EmptyName
    BY <2>1, <2>5
  <2> QED BY <2>3, <2>4, <2>5
<1>2. CASE \E s \in Session : remove(s)
  <2> PICK s \in Session : remove(s)
    BY <1>2
  <2>1. /\ sessions' = [sessions EXCEPT ![NameOf[s]] = NoSession]
        /\ spinner_name' = IF NameOf[s] = spinner_name THEN EmptyName ELSE spinner_name
    BY DEF remove, erase
  <2> QED BY <2>1 DEF TypeOK, TrackedNames
<1>3. CASE UNCHANGED <<sessions, spinner_name>>
  BY <1>3 DEF TrackedNames
<1> QED BY <1>1, <1>2, <1>3, NextCases
        DEF remove_ignored, mark_ready, set_active_session, set_next_session,
            active_outputs_handler, vars, switcher_vars

LEMMA InvariantKept ==
    ASSUME WellNamed, IInv, TypeOK', [Next]_vars
    PROVE  IInv'
<1>1. SpinnerIsSpinner'
  BY SpinnerKept DEF IInv
<1>2. DMVisible(visible \cap Tracked)
  BY VisibleReady
<1>3. booting \in BOOLEAN /\ (booting => visible \subseteq SpinnerSession)
  BY DEF IInv, TypeOK, BootShowsOnlySpinner
\* An operation that updates from vis keeps the rest of the invariant when the
\* sessions in vis that are still tracked were so before, and as ready.
<1>4. ASSUME NEW vis, NEW foc, update_displayed_sessions(vis, foc),
             vis \subseteq visible,
             vis \cap Tracked' \subseteq Tracked,
             \A s \in vis \cap Tracked' : NameOf[s] \in ready => NameOf[s] \in ready'
      PROVE  DisplayMatches' /\ BootShowsOnlySpinner'
  <2>1. \A s \in vis \cap Tracked' :
            NameOf[s] \in DMName => NameOf[s] \in ready' /\ ~ booting
    BY <1>2, <1>4 DEF DMVisible
  <2> QED BY <1>1, <1>3, <1>4, <2>1, UpdateMatches, UpdateBoots
<1>5. CASE \E s \in Session, pid \in Pid : add(s, pid)
  <2> PICK s \in Session, pid \in Pid : add(s, pid)
    BY <1>5
  <2>1. /\ s \notin visible
        /\ sessions' = [sessions EXCEPT ![NameOf[s]] = s]
        /\ ready' = ready \ {NameOf[s]}
    BY DEF add, IInv, TypeOK
  <2>2. ASSUME NEW t \in visible \cap Tracked'
        PROVE  t \in Tracked /\ NameOf[t] # NameOf[s]
    <3>1. PICK n \in TrackedNames' : t = sessions'[n]
      BY DEF Tracked
    <3>2. n # NameOf[s]
      BY <2>1, <3>1, ConstantsAssumption DEF IInv, TypeOK, TrackedNames
    <3>3. n \in TrackedNames /\ t = sessions[n]
      BY <2>1, <3>1, <3>2 DEF IInv, TypeOK, TrackedNames
    <3> QED BY <3>2, <3>3 DEF Tracked, IInv, TypeOK
  <2>3. update_displayed_sessions(visible, focused)
    BY DEF add
  <2> QED BY <1>1, <1>4, <2>1, <2>2, <2>3 DEF IInv
<1>6. CASE \E s \in Session : remove(s)
  <2> PICK s \in Session : remove(s)
    BY <1>6
  <2>1. /\ sessions[NameOf[s]] = s
        /\ sessions' = [sessions EXCEPT ![NameOf[s]] = NoSession]
        /\ ready' = ready \ {NameOf[s]}
    BY DEF remove, erase, is_tracked
  <2>2. ASSUME NEW t \in Tracked'
        PROVE  t \in Tracked /\ NameOf[t] # NameOf[s]
    <3>1. PICK n \in TrackedNames' : t = sessions'[n]
      BY DEF Tracked
    <3>2. n # NameOf[s] /\ n \in TrackedNames /\ t = sessions[n]
      BY <2>1, <3>1, ConstantsAssumption DEF IInv, TypeOK, TrackedNames
    <3> QED BY <3>2 DEF Tracked, IInv, TypeOK
  <2>3. update_displayed_sessions(visible \ {s}, unfocus(s))
    BY DEF remove
  <2> QED BY <1>1, <1>4, <2>1, <2>2, <2>3 DEF IInv
<1>7. CASE \E s \in Session : remove_ignored(s)
  <2> PICK s \in Session : remove_ignored(s)
    BY <1>7
  <2>1. /\ sessions[NameOf[s]] # s
        /\ UNCHANGED switcher_vars
        /\ visible' = visible \ {s}
    BY DEF remove_ignored, is_tracked
  <2>2. s \notin Tracked
    BY <2>1 DEF Tracked, IInv, TypeOK
  <2>3. DisplayMatches'
    BY <2>1, <2>2
    DEF IInv, DisplayMatches, Wanted, ActiveDisplayed, NextDisplayed, SpinnerNeeded,
        Tracked, TrackedNames, is_session_ready_for_display, switcher_vars
  <2>4. BootShowsOnlySpinner'
    BY <2>1 DEF IInv, BootShowsOnlySpinner, switcher_vars
  <2> QED BY <1>1, <2>3, <2>4 DEF IInv
<1>8. CASE /\ update_displayed_sessions(visible, focused)
           /\ UNCHANGED sessions
           /\ ready \subseteq ready'
  <2>1. Tracked' = Tracked
    BY <1>8 DEF Tracked, TrackedNames
  <2> QED BY <1>1, <1>4, <1>8, <2>1 DEF IInv
<1>9. CASE UNCHANGED vars
  BY <1>9
  DEF IInv, TypeOK, SpinnerIsSpinner, SpinnerTracked, BootShowsOnlySpinner, DisplayMatches,
      Wanted, ActiveDisplayed, NextDisplayed, SpinnerNeeded, Tracked, TrackedNames,
      is_session_ready_for_display, vars, switcher_vars
<1> QED BY <1>5, <1>6, <1>7, <1>8, <1>9, NextCases
        DEF mark_ready, set_active_session, set_next_session, active_outputs_handler

\* The inductive invariant holds after every call: what the handlers and the
\* calls of SessionSwitcher leave behind is what the next one relies on.
THEOREM Invariance == ASSUME WellNamed PROVE Spec => []IInv
<1>1. Init => IInv
  BY ConstantsAssumption
  DEF Init, IInv, TypeOK, SpinnerIsSpinner, DisplayMatches, BootShowsOnlySpinner, Wanted,
      ActiveDisplayed, NextDisplayed, SpinnerNeeded, Tracked, TrackedNames,
      is_session_ready_for_display, is_session_expected_to_become_ready
<1>2. TypeOK' /\ IInv /\ [Next]_vars => IInv'
  BY InvariantKept
<1> QED BY <1>1, <1>2, TypeCorrect, PTL DEF Spec

\* DisplayMatches: after any history of calls the tracked sessions on the
\* screen are exactly those the current names, readiness and outputs ask for.
THEOREM DisplayCorrect == ASSUME WellNamed PROVE Spec => []DisplayMatches
<1>1. IInv => DisplayMatches
  BY DEF IInv
<1> QED BY <1>1, Invariance, PTL

\* BootShowsOnlySpinner: no client is displayed before the boot is over.
THEOREM BootCorrect == ASSUME WellNamed PROVE Spec => []BootShowsOnlySpinner
<1>1. IInv => BootShowsOnlySpinner
  BY DEF IInv
<1> QED BY <1>1, Invariance, PTL

-----------------------------------------------------------------------------
\* An update that finds the active session ready, after the boot, shows and
\* focuses it.
LEMMA UpdateShowsActive ==
    ASSUME NEW vis, NEW foc,
           update_displayed_sessions(vis, foc),
           TypeOK', has_active_outputs', ~ booting,
           is_session_ready_for_display(active_name)'
    PROVE  sessions'[active_name'] \in visible' /\ focused' = sessions'[active_name']
<1>1. show_active
  BY DEF show_active, allowed_to_display_active
<1>2. sessions'[active_name'] \in Session
  BY DEF is_session_ready_for_display, TrackedNames, TypeOK
<1> QED BY <1>1, <1>2 DEF update_displayed_sessions, shown_sessions, focus_after

\* A name stays ready as long as it keeps its session.
LEMMA ReadyKept ==
    ASSUME TypeOK, [Next]_vars, NEW n \in TrackedNames \cap ready,
           sessions'[n] = sessions[n]
    PROVE  n \in ready'
<1>0. n \in Name /\ sessions[n] \in connected /\ NoSession \notin connected
  BY ConstantsAssumption DEF TypeOK, TrackedNames
<1>1. ASSUME NEW s \in Session, NEW pid \in Pid, add(s, pid)
      PROVE  n \in ready'
  <2>1. sessions'[NameOf[s]] = s /\ s \notin connected
    BY <1>1, ConstantsAssumption DEF add, TypeOK
  <2> QED BY <1>0, <1>1, <2>1 DEF add
<1>2. ASSUME NEW s \in Session, remove(s)
      PROVE  n \in ready'
  <2>1. sessions'[NameOf[s]] = NoSession
    BY <1>2, ConstantsAssumption DEF remove, erase, TypeOK
  <2> QED BY <1>0, <1>2, <2>1 DEF remove
<1>3. ASSUME NEW s \in Session, mark_ready(s)
      PROVE  n \in ready'
  BY <1>3 DEF mark_ready
<1>4. CASE UNCHANGED ready
  BY <1>4
<1> QED BY <1>1, <1>2, <1>3, <1>4, NextCases
        DEF remove_ignored, set_active_session, set_next_session, active_outputs_handler,
            vars, switcher_vars

\* ActiveKeepsScreen: calls about other sessions neither hide the active
\* session nor take the focus from it.
THEOREM ActiveKept == Spec => ActiveKeepsScreen
<1> DEFINE Kept == /\ sessions[active_name] \in visible'
                   /\ focused' = sessions[active_name]
           Undisturbed == /\ has_active_outputs /\ has_active_outputs'
                          /\ ActiveDisplayed
                          /\ active_name' = active_name
                          /\ sessions'[active_name] = sessions[active_name]
           Good == has_active_outputs /\ ActiveDisplayed =>
                       /\ sessions[active_name] \in visible
                       /\ focused = sessions[active_name]
<1>1. Init => Good
  BY DEF Init, ActiveDisplayed
<1>2. ASSUME TypeOK, TypeOK', [Next]_vars, Good, Undisturbed PROVE Kept
  <2>1. sessions[active_name] \in connected /\ active_name \in TrackedNames \cap ready
    BY <1>2 DEF ActiveDisplayed, is_session_ready_for_display, TypeOK
  <2>2. CASE \E s \in Session : remove_ignored(s)
    <3> PICK s \in Session : remove_ignored(s)
      BY <2>2
    <3>1. s # sessions[active_name]
      BY <1>2, <2>1 DEF remove_ignored, is_tracked, TypeOK
    <3> QED BY <1>2, <3>1 DEF remove_ignored, unfocus
  <2>3. CASE UNCHANGED vars
    BY <1>2, <2>3 DEF vars, switcher_vars
  <2>4. CASE ~ (UNCHANGED vars) /\ ~ \E s \in Session : remove_ignored(s)
    <3>1. active_name \in TrackedNames'
      BY <1>2, <2>1, ConstantsAssumption DEF TypeOK, TrackedNames
    <3>2. active_name \in ready'
      BY <1>2, <2>1, <2>4, ReadyKept DEF vars
    <3>3. is_session_ready_for_display(active_name)'
      BY <1>2, <3>1, <3>2 DEF is_session_ready_for_display
    <3>4. \E vis, foc : update_displayed_sessions(vis, foc)
      BY <1>2, <2>4, NextCalls, CallUpdates
    <3> QED BY <1>2, <3>3, <3>4, UpdateShowsActive DEF ActiveDisplayed
  <2> QED BY <2>2, <2>3, <2>4
<1>3. ASSUME TypeOK, TypeOK', [Next]_vars, Good PROVE Good'
  <2>1. CASE \E s \in Session : remove_ignored(s)
    <3> PICK s \in Session : remove_ignored(s)
      BY <2>1
    <3>1. UNCHANGED switcher_vars /\ sessions[NameOf[s]] # s
      BY DEF remove_ignored, is_tracked
    <3>2. \A n \in TrackedNames : sessions[n] # s
      BY <3>1, <1>3 DEF TypeOK
    <3> QED BY <1>3, <3>1, <3>2
            DEF remove_ignored, unfocus, switcher_vars, ActiveDisplayed,
                is_session_ready_for_display, TrackedNames
  <2>2. CASE UNCHANGED vars
    BY <1>3, <2>2 DEF vars, switcher_vars, ActiveDisplayed, is_session_ready_for_display,
         TrackedNames
  <2>3. CASE \E vis, foc : update_displayed_sessions(vis, foc)
    <3> SUFFICES ASSUME has_active_outputs', ActiveDisplayed'
                 PROVE  /\ sessions'[active_name'] \in visible'
                        /\ focused' = sessions'[active_name']
      OBVIOUS
    <3>1. PICK vis, foc : update_displayed_sessions(vis, foc)
      BY <2>3
    <3>2. show_active
      BY <1>3, <3>1, UpdateDecides DEF TypeOK
    <3>3. sessions'[active_name'] \in Session
      BY <1>3 DEF ActiveDisplayed, is_session_ready_for_display, TrackedNames, TypeOK
    <3> QED BY <3>1, <3>2, <3>3 DEF update_displayed_sessions, shown_sessions, focus_after
  <2> QED BY <1>3, <2>1, <2>2, <2>3, NextCases
          DEF add, remove, mark_ready, set_active_session, set_next_session,
              active_outputs_handler
<1> HIDE DEF Kept, Undisturbed, Good
<1>4. TypeOK /\ TypeOK' /\ Good /\ [Next]_vars => [Undisturbed => Kept]_vars
  BY <1>2
<1>5. Spec => [][Undisturbed => Kept]_vars
  BY <1>1, <1>3, <1>4, TypeCorrect, PTL DEF Spec
<1> QED BY <1>5 DEF ActiveKeepsScreen, Kept, Undisturbed
-----------------------------------------------------------------------------
\* BootEndsWithBoth: the update that ends the boot shows the active session,
\* and with it the next one if one was asked for.
THEOREM BootEndsAtOnce == ASSUME WellNamed PROVE Spec => BootEndsWithBoth
<1> DEFINE Both ==
        /\ NextDisplayed' \/ ~ is_session_expected_to_become_ready(next_name)'
        /\ visible' \cap Tracked' = Named'
<1>1. ASSUME IInv, IInv', [Next]_vars, booting, ~ booting'
      PROVE  Both
  <2>1. PICK vis, foc : update_displayed_sessions(vis, foc)
    BY <1>1, NextCases
    DEF add, remove, remove_ignored, mark_ready, set_active_session, set_next_session,
        active_outputs_handler, vars, switcher_vars
  <2>2. has_active_outputs' /\ show_active
    BY <1>1, <2>1 DEF update_displayed_sessions, IInv, TypeOK
  <2>3. ActiveDisplayed' /\ (show_next <=> NextDisplayed')
    BY <1>1, <2>1, <2>2, UpdateDecides DEF IInv, TypeOK
  <2>4. NextDisplayed' \/ ~ is_session_expected_to_become_ready(next_name)'
    BY <1>1, <2>2, <2>3 DEF show_active, allowed_to_display_active, NextDisplayed
  <2>5. ~ SpinnerNeeded'
    BY <2>3, <2>4 DEF SpinnerNeeded
  <2>6. ASSUME NEW n \in Name, is_session_ready_for_display(n)'
        PROVE  sessions'[n] \in Session /\ n # EmptyName
    BY <1>1, <2>6, ConstantsAssumption
    DEF is_session_ready_for_display, TrackedNames, IInv, TypeOK, WellNamed
  <2>7. sessions'[active_name'] \in Session /\ active_name' # EmptyName
    BY <1>1, <2>3, <2>6, ConstantsAssumption DEF ActiveDisplayed, IInv, TypeOK
  <2>8. CASE NextDisplayed'
    <3>1. sessions'[next_name'] \in Session /\ next_name' # EmptyName
      BY <1>1, <2>6, <2>8, ConstantsAssumption DEF NextDisplayed, IInv, TypeOK
    <3> QED BY <1>1, <2>2, <2>3, <2>4, <2>5, <2>7, <2>8, <3>1
            DEF IInv, DisplayMatches, Wanted, Named
  <2>9. CASE next_name' = EmptyName
    <3>1. ~ NextDisplayed'
      BY <1>1, <2>6, <2>9, ConstantsAssumption DEF NextDisplayed, IInv, TypeOK
    <3> QED BY <1>1, <2>2, <2>3, <2>4, <2>5, <2>7, <2>9, <3>1
            DEF IInv, DisplayMatches, Wanted, Named
  <2> QED BY <2>4, <2>8, <2>9 DEF is_session_expected_to_become_ready
<1> HIDE DEF Both
<1>2. IInv /\ IInv' /\ [Next]_vars => [booting /\ ~ booting' => Both]_vars
  BY <1>1
<1>3. Spec => [][booting /\ ~ booting' => Both]_vars
  BY <1>2, Invariance, PTL DEF Spec
<1> QED BY <1>3 DEF BootEndsWithBoth, Both

-----------------------------------------------------------------------------
\* EntriesKept: only the removal of its own session, or a session of the same
\* name that connects, ends an entry.
THEOREM EntriesStay == Spec => EntriesKept
<1> DEFINE Kept == \A n \in TrackedNames :
                      \/ sessions'[n] = sessions[n]
                      \/ sessions[n] \notin connected'
                      \/ sessions'[n] \in connected' \ connected
<1>1. ASSUME TypeOK, [Next]_vars
      PROVE  Kept
  <2>1. CASE \E s \in Session, pid \in Pid : add(s, pid)
    BY <1>1, <2>1 DEF add, TypeOK, TrackedNames
  <2>2. CASE \E s \in Session : remove(s)
    BY <1>1, <2>2 DEF remove, disconnect, is_tracked, erase, TypeOK, TrackedNames
  <2>3. CASE UNCHANGED sessions
    BY <2>3
  <2> QED BY <1>1, <2>1, <2>2, <2>3, NextCases
          DEF remove_ignored, mark_ready, set_active_session, set_next_session,
              active_outputs_handler, vars, switcher_vars
<1> HIDE DEF Kept
<1>2. TypeOK /\ [Next]_vars => [Kept]_vars
  BY <1>1
<1>3. Spec => [][Kept]_vars
  BY <1>2, TypeCorrect, PTL DEF Spec
<1> QED BY <1>3 DEF EntriesKept, Kept

-----------------------------------------------------------------------------
\* What surrounds the switcher: the spinner's processes, and the listener that
\* suspends and resumes sessions.

\* What a change of spinner_pid does to the processes keeps the spinner.
LEMMA SystemCallsKeep ==
    ASSUME NoSpinnerLeaks, system_calls
    PROVE  NoSpinnerLeaks'
<1> USE ConstantsAssumption DEF NoSpinnerLeaks, SpinnerProcesses, ProcessState
<1>1. CASE spinner_pid' = spinner_pid /\ UNCHANGED process
  BY <1>1
<1>2. CASE spinner_pid = NoPid /\ UNCHANGED process
  BY <1>2
<1>3. CASE /\ spinner_pid = NoPid /\ spinner_pid' \in Pid
           /\ process' = [process EXCEPT ![spinner_pid'] = "spinner"]
  BY <1>3
<1>4. CASE process' = sigterm(spinner_pid)
  <2>1. \A p \in Pid : process'[p] # "spinner"
    BY <1>4 DEF sigterm, addressed_by, Running
  <2> QED BY <1>4, <2>1 DEF sigterm
<1> QED BY <1>1, <1>2, <1>3, <1>4 DEF system_calls

\* NoSpinnerLeaks: ExternalSpinner never loses sight of a running spinner, and
\* never has two, whatever pids the system gives out and whichever die.
THEOREM SpinnerKnown == LifecycleSpec => []NoSpinnerLeaks
<1>1. LifecycleInit => NoSpinnerLeaks
  BY DEF LifecycleInit, NoSpinnerLeaks, SpinnerProcesses, ProcessState
<1>2. NoSpinnerLeaks /\ [LifecycleNext]_all_vars => NoSpinnerLeaks'
  <2> SUFFICES ASSUME NoSpinnerLeaks, [LifecycleNext]_all_vars PROVE NoSpinnerLeaks'
    OBVIOUS
  <2>1. CASE system_calls
    BY <2>1, SystemCallsKeep
  <2>2. CASE \E p \in Pid : ClientStarts(p) \/ Exit(p)
    BY <2>2
    DEF ClientStarts, Exit, vars, NoSpinnerLeaks, SpinnerProcesses, ProcessState
  <2>3. CASE UNCHANGED all_vars
    BY <2>3 DEF all_vars, vars, NoSpinnerLeaks, SpinnerProcesses
  <2> QED BY <2>1, <2>2, <2>3 DEF LifecycleNext, Connect, Disconnect, OtherCall
<1> QED BY <1>1, <1>2, PTL DEF LifecycleSpec

-----------------------------------------------------------------------------
\* The switcher serves the same calls, also for clients with recycled pids.
LEMMA SwitcherMoves == [LifecycleNext]_all_vars => [AnyCall]_vars
BY DEF LifecycleNext, Connect, Disconnect, OtherCall, ClientStarts, Exit, AnyCall,
       Disconnects, all_vars

\* NoIdleSpinner: with an output on and nobody awaited, kill() has been called
\* for the one spinner process there can be.
THEOREM IdleSpinnerKilled == LifecycleSpec => []NoIdleSpinner
<1>1. LifecycleInit => TypeOK /\ SpinnerAccounting
  BY AccountInit, ConstantsAssumption DEF LifecycleInit, Init, TypeOK, TrackedNames
<1>2. TypeOK /\ SpinnerAccounting /\ [LifecycleNext]_all_vars => (TypeOK /\ SpinnerAccounting)'
  BY SwitcherMoves, TypeStep, AccountStep
<1>3. NoSpinnerLeaks /\ SpinnerAccounting => NoIdleSpinner
  BY ConstantsAssumption DEF NoSpinnerLeaks, SpinnerAccounting, NoIdleSpinner, SpinnerProcesses
<1> QED BY <1>1, <1>2, <1>3, SpinnerKnown, PTL DEF LifecycleSpec

-----------------------------------------------------------------------------
\* During a pause the one suspended session that has not lost the focus is the
\* one that has it.
PauseInv == suspended \subseteq left \cup IF paused THEN active_session ELSE {}

\* Every step keeps it: a move of the focus records the session it leaves.
LEMMA PauseStep == PauseInv /\ [StatusNext]_status_vars => PauseInv'
<1> SUFFICES ASSUME PauseInv, [StatusNext]_status_vars
             PROVE  PauseInv'
  OBVIOUS
<1>1. CASE pause
  BY <1>1 DEF pause, PauseInv, active_session, vars
<1>2. CASE resume
  BY <1>2 DEF resume, resumes, PauseInv
<1>3. CASE switcher_moves
  BY <1>3 DEF switcher_moves, PauseInv, active_session
<1>4. CASE UNCHANGED status_vars
  BY <1>4 DEF status_vars, status, PauseInv, active_session, vars
<1> QED
  BY <1>1, <1>2, <1>3, <1>4 DEF StatusNext

\* paused() and resumed() leave a session suspended only if the switcher took
\* the focus from it in between.
THEOREM LeftSuspended == StatusSpec => []SuspendedOnlyIfLeft
<1>1. StatusInit => PauseInv
  BY DEF StatusInit, PauseInv
<1>2. PauseInv => SuspendedOnlyIfLeft
  BY DEF PauseInv, SuspendedOnlyIfLeft
<1> QED
  BY <1>1, <1>2, PauseStep, PTL DEF StatusSpec
=============================================================================
