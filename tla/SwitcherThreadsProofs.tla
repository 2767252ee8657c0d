------------------------- MODULE SwitcherThreadsProofs -------------------------
(***************************************************************************)
(* What the calls and the unlocked outputs handler do to one another, for  *)
(* any number of sessions and names.                                       *)
(*                                                                         *)
(* 1. Only the handler dereferences a null session, and only after a call  *)
(* began in its midst.  The names a thread is about to look up are in the  *)
(* map (Lookups) because it found them there and only calls take them out; *)
(* a call is never interrupted by another call.                            *)
(*                                                                         *)
(* 2. Calls that do not overlap are atomic: statement by statement they do *)
(* what SessionSwitcher does in one step.  A call is seen when it returns. *)
(* Until then `saved` is the switcher that callers see, and the invariant  *)
(* (AloneInv) says how far the call has come from there: which operation   *)
(* it is (Entered), and what the statements before pc have done to the     *)
(* display, the focus, booting and the locals (Progress).                  *)
(***************************************************************************)
EXTENDS SwitcherThreads, TLAPS

Label == {"idle", "update", "hide_all", "hide_uninteresting", "active", "show_active",
          "next", "show_next", "hide_next", "spinner"}

Typed ==
    /\ sessions \in [Name -> Session \cup {NoSession}]
    /\ active_name \in Name /\ next_name \in Name /\ spinner_name \in Name
    /\ booting \in BOOLEAN
    /\ pc \in [Thread -> Label]
    /\ todo \in [Thread -> SUBSET Name]
    /\ shows \in [Thread -> BOOLEAN]
    /\ spinner \in [Thread -> {"none", "as_active", "as_next"}]

\* One call at a time, and the locals of the others are reset.
LocalsReset == \A t \in Thread : pc[t] = "idle" => shows[t] = FALSE

OneCall ==
    /\ \A t, u \in Thread : pc[t] # "idle" /\ pc[u] # "idle" => t = u
    /\ LocalsReset

-----------------------------------------------------------------------------
\* How the operation under way has begun

AsSaved(fields) == \A f \in fields : Snapshot[f] = saved[f]

Added(s, pid) ==
    /\ s \in SpinnerSession \/ pid # saved.spinner_pid
    /\ s \notin saved.connected
    /\ connected = saved.connected \cup {s}
    /\ spinner_name = IF pid = saved.spinner_pid THEN NameOf[s] ELSE saved.spinner_name
    /\ sessions = [saved.sessions EXCEPT ![NameOf[s]] = s]
    /\ ready = saved.ready \ {NameOf[s]}
    /\ AsSaved({"active_name", "next_name", "has_active_outputs"})

Removed(s) ==
    /\ s \in saved.connected
    /\ connected = saved.connected \ {s}
    /\ saved.sessions[NameOf[s]] = s
    /\ spinner_name = IF NameOf[s] = saved.spinner_name THEN EmptyName ELSE saved.spinner_name
    /\ sessions = [saved.sessions EXCEPT ![NameOf[s]] = NoSession]
    /\ ready = saved.ready \ {NameOf[s]}
    /\ AsSaved({"active_name", "next_name", "has_active_outputs"})

MarkedReady(s) ==
    /\ s \in saved.connected
    /\ ready = saved.ready \cup {n \in TrackedNames : sessions[n] = s}
    /\ AsSaved({"sessions", "active_name", "next_name", "spinner_name",
                "has_active_outputs", "connected"})

\* The session that went is not visible and not focused when the update of
\* the display begins.
Entered(gone) ==
    \/ \E s \in Session, pid \in Pid : gone = {} /\ Added(s, pid)
    \/ \E s \in Session : gone = {s} /\ Removed(s)
    \/ \E s \in Session : gone = {} /\ MarkedReady(s)
    \/ /\ gone = {} /\ active_name \in DMName \cup {EmptyName}
       /\ AsSaved({"sessions", "ready", "next_name", "spinner_name", "has_active_outputs",
                   "connected"})
    \/ /\ gone = {} /\ next_name \in DMName \cup {EmptyName}
       /\ AsSaved({"sessions", "ready", "active_name", "spinner_name", "has_active_outputs",
                   "connected"})
    \/ /\ gone = {} /\ has_active_outputs \in BOOLEAN
       /\ AsSaved({"sessions", "ready", "active_name", "next_name", "spinner_name",
                   "connected"})

-----------------------------------------------------------------------------
\* How far update_displayed_sessions() has come

NextReady == is_session_ready_for_display(next_name)
ActiveExpected == is_session_expected_to_become_ready(active_name)
NextExpected == is_session_expected_to_become_ready(next_name)

\* The local show_active, which is computed from the booting of the beginning
ShowActive ==
    /\ NextReady \/ ~ NextExpected \/ ~ saved.booting
    /\ is_session_ready_for_display(active_name)

SpinnerAsActive == IF ~ ShowActive /\ ActiveExpected THEN "as_active" ELSE "none"
SpinnerMode ==
    IF ShowActive /\ ~ NextReady /\ NextExpected THEN "as_next" ELSE SpinnerAsActive

\* What is visible of vis after the loop, after the active session was shown,
\* and after the next one was shown or hidden
AfterHiding(vis) == vis \ Uninteresting
AfterActive(vis) ==
    AfterHiding(vis) \cup (IF ShowActive THEN {sessions[active_name]} ELSE {})
AfterNext(vis) ==
    IF ~ NextReady THEN AfterActive(vis)
    ELSE IF ShowActive THEN AfterActive(vis) \cup {sessions[next_name]}
    ELSE AfterActive(vis) \ {sessions[next_name]}

SessionsOf(names) == {sessions[n] : n \in names}

\* What the statements before `at`, the next one, have done
Begun(t, at, vis, foc) ==
    /\ at \in {"update", "hide_all", "hide_uninteresting", "active", "show_active"} =>
          /\ booting = saved.booting
          /\ focused = foc
          /\ shows[t] = FALSE
    /\ at = "update" => visible = vis
    /\ at = "hide_all" =>
          /\ ~ has_active_outputs
          /\ todo[t] \subseteq TrackedNames
          /\ visible = vis \ SessionsOf(TrackedNames \ todo[t])
    /\ at = "hide_uninteresting" =>
          /\ todo[t] \subseteq TrackedNames
          /\ visible = vis \ SessionsOf((TrackedNames \ todo[t]) \ {active_name, next_name})
    /\ at \in {"active", "show_active"} => visible = AfterHiding(vis)

Decided(t, at, vis, foc) ==
    /\ at = "show_active" => ShowActive
    /\ at \in {"show_active", "next", "show_next", "hide_next"} => spinner[t] = SpinnerAsActive
    /\ at \in {"next", "show_next", "hide_next", "spinner"} =>
          /\ shows[t] <=> ShowActive
          /\ booting <=> saved.booting /\ ~ ShowActive
          /\ focused = IF ShowActive THEN sessions[active_name] ELSE foc
    /\ at \in {"next", "show_next", "hide_next"} => visible = AfterActive(vis)
    /\ at = "show_next" => ShowActive /\ NextReady
    /\ at = "hide_next" => ~ ShowActive /\ NextReady
    /\ at = "spinner" => visible = AfterNext(vis) /\ spinner[t] = SpinnerMode

Progress(t, vis, foc) ==
    /\ spinner_pid = saved.spinner_pid
    /\ pc[t] \notin {"update", "hide_all"} => has_active_outputs
    /\ Begun(t, pc[t], vis, foc)
    /\ Decided(t, pc[t], vis, foc)

VisibleWithout(gone) == saved.visible \ gone
FocusedWithout(gone) == IF saved.focused \in gone THEN NoSession ELSE saved.focused

UnderWay(t) ==
    /\ saved.booting \in BOOLEAN
    /\ \E gone \in SUBSET Session :
          Entered(gone) /\ Progress(t, VisibleWithout(gone), FocusedWithout(gone))

\* While a thread is alone
AloneInv ==
    /\ Typed
    /\ OneCall
    /\ crashed = {}
    /\ \A t \in Thread : pc[t] # "idle" => UnderWay(t)

IInv ==
    /\ Typed
    /\ LocalsReset
    /\ overlap = {} => AloneInv

-----------------------------------------------------------------------------
\* Every call begins as one of the operations.

LEMMA TypedInit == ThreadsInit => IInv
<1> SUFFICES ASSUME ThreadsInit
             PROVE  IInv
  OBVIOUS
<1> USE ConstantsAssumption DEF ThreadsInit, Init
<1>1. Typed
  BY DEF Typed, Label
<1>2. OneCall /\ crashed = {} /\ \A t \in Thread : pc[t] = "idle"
  BY DEF OneCall, LocalsReset
<1> QED BY <1>1, <1>2 DEF IInv, AloneInv, OneCall

\* The statement that changes the map, a name or the outputs
LEMMA EnterKeeps ==
    ASSUME Idle, AloneInv, NEW t \in Thread, enter(t),
           NEW gone \in SUBSET Session,
           Entered(gone)',
           sessions' \in [Name -> Session \cup {NoSession}],
           active_name' \in Name, next_name' \in Name, spinner_name' \in Name,
           visible' = visible \ gone,
           focused' = IF focused \in gone THEN NoSession ELSE focused
    PROVE  AloneInv' /\ Seen' = Seen
<1>1. Idle /\ saved' = Snapshot /\ booting' = booting /\ spinner_pid' = spinner_pid
  BY DEF enter, begin
<1>2. pc' = [u \in Thread |-> IF u = t THEN "update" ELSE "idle"]
  BY <1>1 DEF enter, begin, Idle, AloneInv, Typed
<1>3. Typed' /\ OneCall' /\ crashed' = {}
  BY <1>1, <1>2 DEF enter, begin, AloneInv, Typed, OneCall, LocalsReset, Label, Idle
<1>4. Progress(t, VisibleWithout(gone), FocusedWithout(gone))'
  BY <1>1, <1>2 DEF enter, begin, AloneInv, OneCall, LocalsReset, Idle, Progress, Begun, Decided, VisibleWithout, FocusedWithout,
     Snapshot
<1>5. UnderWay(t)'
  BY <1>1, <1>4 DEF UnderWay, Snapshot, AloneInv, Typed
<1>6. Seen' = Seen
  BY <1>1, <1>2 DEF Seen, Idle
<1> QED BY <1>2, <1>3, <1>5, <1>6 DEF AloneInv

LEMMA EnterKeepsDisplay ==
    ASSUME Idle, AloneInv, NEW t \in Thread, enter(t), Entered({})',
           sessions' \in [Name -> Session \cup {NoSession}],
           active_name' \in Name, next_name' \in Name, spinner_name' \in Name,
           UNCHANGED <<visible, focused>>
    PROVE  AloneInv' /\ Seen' = Seen
<1>1. visible' = visible \ {} /\ focused' = IF focused \in {} THEN NoSession ELSE focused
  OBVIOUS
<1> QED BY <1>1, EnterKeeps

\* An operation that goes on begins as Entered says, and is not seen yet.
LEMMA BeginsUnseen ==
    ASSUME Idle, AloneInv, NEW t \in Thread, enter(t),
           \/ t = "call" /\ (call_add \/ call_remove \/ call_mark_ready \/ call_set_name)
           \/ t = "outputs" /\ EnterHandler
    PROVE  AloneInv' /\ Seen' = Seen
<1>1. saved' = Snapshot /\ UNCHANGED <<booting, spinner_pid>>
  BY DEF enter, begin
<1>2. Typed
  BY DEF AloneInv
<1> USE ConstantsAssumption, <1>2 DEF Typed, Entered, AsSaved, Snapshot
<1>3. CASE call_add
  <2>1. PICK s \in Session, pid \in Pid :
           MayConnect(s, pid) /\ insert(s, pid) /\ UNCHANGED <<visible, focused>>
    BY <1>3 DEF call_add
  <2>2. Added(s, pid)'
    BY <1>1, <2>1 DEF Added, insert, MayConnect, spinner_name_after_add
  <2>3. Entered({})'
    BY <2>2
  <2> QED BY <2>1, <2>3, EnterKeepsDisplay DEF insert, spinner_name_after_add
<1>4. CASE call_remove
  <2>1. PICK s \in Session : forget(s) /\ visible' = visible \ {s} /\ focused' = unfocus(s)
    BY <1>4 DEF call_remove
  <2>2. Removed(s)'
    BY <1>1, <2>1 DEF Removed, forget, disconnect, is_tracked, erase
  <2>3. Entered({s})'
    BY <2>2
  <2> QED BY <2>1, <2>3, EnterKeeps DEF forget, erase, unfocus
<1>5. CASE call_mark_ready
  <2>1. PICK s \in Session : note_ready(s) /\ UNCHANGED <<visible, focused>>
    BY <1>5 DEF call_mark_ready
  <2>2. MarkedReady(s)'
    BY <1>1, <2>1 DEF MarkedReady, note_ready, TrackedNames
  <2>3. Entered({})'
    BY <2>2
  <2> QED BY <2>1, <2>3, EnterKeepsDisplay DEF note_ready
<1>6. CASE call_set_name
  <2>1. PICK name \in DMName \cup {EmptyName} : name_active(name) \/ name_next(name)
    BY <1>6 DEF call_set_name
  <2>2. Entered({})'
    BY <1>1, <2>1 DEF name_active, name_next
  <2> QED BY <1>6, <2>1, <2>2, EnterKeepsDisplay DEF call_set_name, name_active, name_next
<1>7. CASE EnterHandler
  <2>1. Entered({})'
    BY <1>1, <1>7 DEF EnterHandler, note_outputs
  <2> QED BY <1>7, <2>1, EnterKeepsDisplay DEF EnterHandler, note_outputs
<1> QED BY <1>3, <1>4, <1>5, <1>6, <1>7

\* remove() that ignores the session is seen at once.
LEMMA IgnoredSeen ==
    ASSUME AloneInv, Idle, NEW s \in Session, remove_ignored(s),
           UNCHANGED local_vars, UNCHANGED crashed
    PROVE  AloneInv' /\ Idle' /\ Atomic!Next
<1>1. Idle'
  BY DEF Idle, local_vars
<1>2. AloneInv'
  BY <1>1 DEF AloneInv, Typed, OneCall, LocalsReset, Idle, remove_ignored, switcher_vars, local_vars
<1>3. Atomic!remove_ignored(s)
  BY <1>1
  DEF Atomic!remove_ignored, Atomic!disconnect, Atomic!is_tracked, Atomic!unfocus,
      Atomic!switcher_vars, Seen, Snapshot, remove_ignored, disconnect, is_tracked, unfocus,
      switcher_vars
<1> QED BY <1>1, <1>2, <1>3 DEF Atomic!Next, Atomic!Disconnects

-----------------------------------------------------------------------------
\* The statements of update_displayed_sessions(): none but the last is seen.

\* What a statement reads of the map, the names and the outputs is what the
\* operation left there.
LEMMA ReadsKept ==
    ASSUME UNCHANGED <<sessions, ready, active_name, next_name, spinner_name,
                       has_active_outputs, connected, saved>>
    PROVE  /\ TrackedNames' = TrackedNames /\ Uninteresting' = Uninteresting
           /\ NextReady' = NextReady /\ ShowActive' = ShowActive
           /\ SpinnerAsActive' = SpinnerAsActive /\ SpinnerMode' = SpinnerMode
           /\ \A vis : /\ AfterHiding(vis)' = AfterHiding(vis)
                       /\ AfterActive(vis)' = AfterActive(vis)
                       /\ AfterNext(vis)' = AfterNext(vis)
           /\ \A names : SessionsOf(names)' = SessionsOf(names)
           /\ \A gone \in SUBSET Session : Entered(gone) => Entered(gone)'
<1>1. TrackedNames' = TrackedNames
  BY DEF TrackedNames
<1>2. Uninteresting' = Uninteresting
  BY <1>1 DEF Uninteresting
<1>3. /\ NextReady' = NextReady /\ NextExpected' = NextExpected
      /\ ActiveExpected' = ActiveExpected /\ ShowActive' = ShowActive
  BY <1>1
  DEF NextReady, NextExpected, ActiveExpected, ShowActive, is_session_ready_for_display,
      is_session_expected_to_become_ready
<1>4. SpinnerAsActive' = SpinnerAsActive /\ SpinnerMode' = SpinnerMode
  BY <1>3 DEF SpinnerAsActive, SpinnerMode
<1>5. ASSUME NEW vis
      PROVE  /\ AfterHiding(vis)' = AfterHiding(vis)
             /\ AfterActive(vis)' = AfterActive(vis)
             /\ AfterNext(vis)' = AfterNext(vis)
  BY <1>2, <1>3 DEF AfterHiding, AfterActive, AfterNext
<1>6. ASSUME NEW names PROVE SessionsOf(names)' = SessionsOf(names)
  BY DEF SessionsOf
<1>7. ASSUME NEW gone \in SUBSET Session, Entered(gone)
      PROVE  Entered(gone)'
  <2>1. ASSUME NEW fields \in SUBSET {"sessions", "ready", "active_name", "next_name",
                                      "spinner_name", "has_active_outputs", "connected"}
        PROVE  AsSaved(fields)' <=> AsSaved(fields)
    BY <2>1 DEF AsSaved, Snapshot
  <2> QED BY <1>1, <1>7, <2>1 DEF Entered, Added, Removed, MarkedReady
<1> QED BY <1>1, <1>2, <1>3, <1>4, <1>5, <1>6, <1>7

\* The frame of the proofs about one statement: it takes thread t from a
\* label where Progress holds to the next one.
LEMMA StatementKeeps ==
    ASSUME AloneInv, NEW t \in Thread, pc[t] # "idle", statement(t, pc[t]),
           NEW label \in Label \ {"idle"}, pc' = [pc EXCEPT ![t] = label],
           booting' \in BOOLEAN,
           todo' \in [Thread -> SUBSET Name],
           shows' \in [Thread -> BOOLEAN], \A u \in Thread \ {t} : shows'[u] = shows[u],
           spinner' \in [Thread -> {"none", "as_active", "as_next"}],
           crashed' = {}, spinner_pid' = spinner_pid,
           label \notin {"update", "hide_all"} => has_active_outputs,
           \A vis, foc : Progress(t, vis, foc) =>
               Begun(t, label, vis, foc)' /\ Decided(t, label, vis, foc)'
    PROVE  AloneInv' /\ Seen' = Seen
<1>1. /\ saved' = saved
      /\ UNCHANGED <<sessions, ready, active_name, next_name, spinner_name,
                     has_active_outputs, connected, saved>>
  BY DEF statement
<1>2. pc' \in [Thread -> Label] /\ pc'[t] = label /\ \A u \in Thread \ {t} : pc'[u] = "idle"
  BY DEF AloneInv, Typed, OneCall, LocalsReset
<1>3. Typed' /\ OneCall'
  BY <1>1, <1>2 DEF AloneInv, Typed, OneCall, LocalsReset
<1>4. Seen' = Seen
  BY <1>1, <1>2 DEF Seen, Idle
<1>5. UnderWay(t)'
  <2>1. PICK gone \in SUBSET Session :
           Entered(gone) /\ Progress(t, VisibleWithout(gone), FocusedWithout(gone))
    BY DEF AloneInv, UnderWay
  <2>2. Entered(gone)'
    BY <1>1, <2>1, ReadsKept
  <2>3. VisibleWithout(gone)' = VisibleWithout(gone) /\ FocusedWithout(gone)' = FocusedWithout(gone)
    BY <1>1 DEF VisibleWithout, FocusedWithout
  <2> DEFINE vis == VisibleWithout(gone)
             foc == FocusedWithout(gone)
  <2>4. Begun(t, label, vis, foc)' /\ Decided(t, label, vis, foc)'
    BY <2>1, <2>3
  <2>5. Progress(t, VisibleWithout(gone), FocusedWithout(gone))'
    BY <1>1, <1>2, <2>1, <2>3, <2>4 DEF Progress
  <2> QED BY <1>1, <2>2, <2>5 DEF UnderWay, AloneInv
<1> QED BY <1>2, <1>3, <1>4, <1>5 DEF AloneInv

LEMMA StartHidingUnseen ==
    ASSUME AloneInv, NEW t \in Thread, start_hiding(t)
    PROVE  AloneInv' /\ Seen' = Seen
<1>1. Typed /\ crashed = {}
  BY DEF AloneInv
<1>2. PICK label \in Label \ {"idle"} :
         label = IF has_active_outputs THEN "hide_uninteresting" ELSE "hide_all"
  BY DEF Label
<1>3. /\ pc[t] = "update" /\ statement(t, pc[t]) /\ pc' = [pc EXCEPT ![t] = label]
      /\ UNCHANGED <<shows, spinner, crashed, booting, spinner_pid, visible, focused>>
  BY <1>2 DEF start_hiding, statement, goto
<1>4. todo'[t] = TrackedNames /\ todo' \in [Thread -> SUBSET Name]
  BY <1>1 DEF start_hiding, Typed, TrackedNames
<1>5. ASSUME NEW vis, NEW foc, Progress(t, vis, foc)
      PROVE  Begun(t, label, vis, foc)' /\ Decided(t, label, vis, foc)'
  <2>1. visible = vis /\ booting = saved.booting /\ focused = foc /\ shows[t] = FALSE
    BY <1>3, <1>5 DEF Progress, Begun
  <2>2. TrackedNames' = TrackedNames /\ UNCHANGED <<has_active_outputs, saved>>
    BY <1>3, ReadsKept DEF statement
  <2> QED
    BY <1>2, <1>3, <1>4, <2>1, <2>2 DEF Begun, Decided, SessionsOf
<1> QED
  BY <1>1, <1>2, <1>3, <1>4, <1>5, StatementKeeps DEF Typed

LEMMA HideOneUnseen ==
    ASSUME AloneInv, NEW t \in Thread, hide_one(t)
    PROVE  AloneInv' /\ Seen' = Seen
<1>1. PICK name \in todo[t] :
         /\ todo' = [todo EXCEPT ![t] = @ \ {name}]
         /\ dereference(t, name)
         /\ IF interesting(t, name) THEN UNCHANGED visible ELSE hide(name)
  BY DEF hide_one
<1>2. Typed /\ crashed = {}
  BY DEF AloneInv
<1>3. /\ statement(t, pc[t]) /\ pc[t] \in {"hide_uninteresting", "hide_all"}
      /\ pc' = [pc EXCEPT ![t] = pc[t]]
      /\ UNCHANGED <<shows, spinner, booting, spinner_pid, focused>>
  BY <1>2 DEF hide_one, Typed
<1>4. todo' \in [Thread -> SUBSET Name] /\ todo'[t] = todo[t] \ {name}
  BY <1>1, <1>2 DEF Typed
<1>5. ASSUME NEW vis, NEW foc, Progress(t, vis, foc)
      PROVE  /\ name \in TrackedNames
             /\ Begun(t, pc[t], vis, foc)' /\ Decided(t, pc[t], vis, foc)'
  <2>1. name \in TrackedNames /\ todo[t] \subseteq TrackedNames
    BY <1>1, <1>3, <1>5 DEF Progress, Begun
  <2>2. /\ TrackedNames' = TrackedNames
        /\ UNCHANGED <<sessions, active_name, next_name, has_active_outputs, saved>>
    BY <1>3, ReadsKept DEF statement
  <2>3. CASE pc[t] = "hide_all"
    <3>1. visible' = vis \ SessionsOf(TrackedNames \ todo'[t])
      BY <1>1, <1>3, <1>4, <1>5, <2>1, <2>3
      DEF interesting, hide, Progress, Begun, SessionsOf
    <3>2. visible' = vis \ SessionsOf(TrackedNames \ todo[t])'
      BY <2>2, <3>1 DEF SessionsOf
    <3> QED
      BY <1>3, <1>4, <1>5, <2>1, <2>2, <2>3, <3>2 DEF Progress, Begun, Decided
  <2>4. CASE pc[t] = "hide_uninteresting"
    <3>1. visible' = vis \ SessionsOf((TrackedNames \ todo'[t]) \ {active_name, next_name})
      BY <1>1, <1>3, <1>4, <1>5, <2>1, <2>4
      DEF interesting, hide, Progress, Begun, SessionsOf
    <3>2. visible' = vis \ SessionsOf((TrackedNames \ todo[t]) \ {active_name, next_name})'
      BY <2>2, <3>1 DEF SessionsOf
    <3> QED
      BY <1>3, <1>4, <1>5, <2>1, <2>2, <2>4, <3>2 DEF Progress, Begun, Decided
  <2> QED BY <1>3, <2>1, <2>3, <2>4
<1>6. name \in TrackedNames
  BY <1>3, <1>5 DEF AloneInv, UnderWay
<1>7. crashed' = {} /\ (pc[t] \notin {"update", "hide_all"} => has_active_outputs)
  BY <1>1, <1>3, <1>6 DEF dereference, AloneInv, UnderWay, Progress
<1> QED
  BY <1>2, <1>3, <1>4, <1>5, <1>7, StatementKeeps DEF Typed, Label

LEMMA HidingDoneUnseen ==
    ASSUME AloneInv, NEW t \in Thread, hiding_done(t), pc[t] # "hide_all"
    PROVE  AloneInv' /\ Seen' = Seen
<1>1. Typed /\ crashed = {}
  BY DEF AloneInv
<1>2. /\ statement(t, pc[t]) /\ pc[t] = "hide_uninteresting" /\ todo[t] = {}
      /\ pc' = [pc EXCEPT ![t] = "active"]
      /\ UNCHANGED <<todo, shows, spinner, crashed, booting, spinner_pid, visible, focused>>
  BY DEF hiding_done, statement, goto
<1>3. ASSUME NEW vis, NEW foc, Progress(t, vis, foc)
      PROVE  /\ has_active_outputs
             /\ Begun(t, "active", vis, foc)' /\ Decided(t, "active", vis, foc)'
  <2>1. visible = AfterHiding(vis) /\ AfterHiding(vis)' = AfterHiding(vis)
    BY <1>2, <1>3, ReadsKept
    DEF Progress, Begun, AfterHiding, Uninteresting, SessionsOf, statement
  <2> QED BY <1>2, <1>3, <2>1 DEF Progress, Begun, Decided, statement
<1>4. has_active_outputs
  BY <1>2, <1>3 DEF AloneInv, UnderWay
<1> QED
  BY <1>1, <1>2, <1>3, <1>4, StatementKeeps DEF Typed, Label

LEMMA DecideActiveUnseen ==
    ASSUME AloneInv, NEW t \in Thread, decide_active(t)
    PROVE  AloneInv' /\ Seen' = Seen
<1>1. Typed /\ crashed = {}
  BY DEF AloneInv
<1>2. /\ pc[t] = "active" /\ statement(t, pc[t])
      /\ UNCHANGED <<todo, shows, crashed, booting, spinner_pid, visible, focused>>
  BY DEF decide_active, statement
<1>3. ASSUME NEW vis, NEW foc, Progress(t, vis, foc)
      PROVE  may_display_active <=> ShowActive
  BY <1>2, <1>3
  DEF Progress, Begun, may_display_active, ShowActive, NextReady, NextExpected
<1>4. may_display_active <=> ShowActive
  BY <1>2, <1>3 DEF AloneInv, UnderWay
<1>5. PICK label \in Label \ {"idle"} : label = IF ShowActive THEN "show_active" ELSE "next"
  BY DEF Label
<1>6. /\ pc' = [pc EXCEPT ![t] = label]
      /\ spinner' = [spinner EXCEPT ![t] = SpinnerAsActive]
  BY <1>4, <1>5 DEF decide_active, goto, SpinnerAsActive, ActiveExpected
<1>7. ASSUME NEW vis, NEW foc, Progress(t, vis, foc)
      PROVE  /\ has_active_outputs
             /\ Begun(t, label, vis, foc)' /\ Decided(t, label, vis, foc)'
  <2>1. ShowActive' = ShowActive /\ SpinnerAsActive' = SpinnerAsActive
    BY <1>2, ReadsKept DEF statement
  <2>2. AfterHiding(vis)' = AfterHiding(vis) /\ AfterActive(vis)' = AfterActive(vis)
    BY <1>2, ReadsKept DEF statement
  <2>3. UNCHANGED <<has_active_outputs, saved, sessions, active_name>>
    BY <1>2 DEF statement
  <2>4. spinner'[t] = SpinnerAsActive
    BY <1>1, <1>6 DEF Typed
  <2>5. /\ has_active_outputs /\ visible = AfterHiding(vis) /\ booting = saved.booting
        /\ focused = foc /\ shows[t] = FALSE
    BY <1>2, <1>7 DEF Progress, Begun
  <2>6. CASE ShowActive
    BY <1>2, <1>5, <2>1, <2>2, <2>3, <2>4, <2>5, <2>6 DEF Begun, Decided
  <2>7. CASE ~ ShowActive
    <3>1. AfterActive(vis) = AfterHiding(vis)
      BY <2>7 DEF AfterActive
    <3>2. booting <=> saved.booting /\ ~ ShowActive
      BY <1>1, <2>5, <2>7 DEF Typed
    <3> QED
      BY <1>2, <1>5, <2>1, <2>2, <2>3, <2>4, <2>5, <2>7, <3>1, <3>2 DEF Begun, Decided
  <2> QED BY <2>5, <2>6, <2>7
<1>8. has_active_outputs
  BY <1>2, <1>7 DEF AloneInv, UnderWay
<1>9. spinner' \in [Thread -> {"none", "as_active", "as_next"}]
  BY <1>1, <1>6 DEF Typed, SpinnerAsActive
<1> QED
  BY <1>1, <1>2, <1>5, <1>6, <1>7, <1>8, <1>9, StatementKeeps DEF Typed

LEMMA ShowActiveUnseen ==
    ASSUME AloneInv, NEW t \in Thread, show_and_focus_active(t)
    PROVE  AloneInv' /\ Seen' = Seen
<1>1. Typed /\ crashed = {}
  BY DEF AloneInv
<1>2. /\ pc[t] = "show_active" /\ statement(t, pc[t]) /\ pc' = [pc EXCEPT ![t] = "next"]
      /\ UNCHANGED <<todo, spinner, spinner_pid>>
      /\ booting' = FALSE /\ shows' = [shows EXCEPT ![t] = TRUE]
      /\ focused' = sessions[active_name]
      /\ visible' = visible \cup ({sessions[active_name]} \ {NoSession})
  BY DEF show_and_focus_active, statement, goto, show, raise_and_focus
<1>3. ASSUME NEW vis, NEW foc, Progress(t, vis, foc)
      PROVE  /\ has_active_outputs /\ active_name \in TrackedNames
             /\ Begun(t, "next", vis, foc)' /\ Decided(t, "next", vis, foc)'
  <2>1. ShowActive /\ has_active_outputs /\ visible = AfterHiding(vis)
    BY <1>2, <1>3 DEF Progress, Begun, Decided
  <2>2. active_name \in TrackedNames /\ sessions[active_name] # NoSession
    BY <2>1 DEF ShowActive, is_session_ready_for_display, TrackedNames
  <2>3. ShowActive' = ShowActive /\ SpinnerAsActive' = SpinnerAsActive
    BY <1>2, ReadsKept DEF statement
  <2>4. visible' = AfterActive(vis)'
    <3>1. AfterActive(vis)' = AfterActive(vis)
      BY <1>2, ReadsKept DEF statement
    <3> QED BY <1>2, <2>1, <2>2, <3>1 DEF AfterActive
  <2>5. UNCHANGED <<saved, sessions, active_name>> /\ shows'[t] = TRUE
    BY <1>1, <1>2 DEF statement, Typed
  <2>6. spinner[t] = SpinnerAsActive
    BY <1>2, <1>3 DEF Progress, Decided
  <2> QED
    BY <1>2, <2>1, <2>2, <2>3, <2>4, <2>5, <2>6 DEF Begun, Decided
<1>4. has_active_outputs /\ active_name \in TrackedNames
  BY <1>2, <1>3 DEF AloneInv, UnderWay
<1>5. crashed' = {}
  BY <1>4 DEF show_and_focus_active, dereference
<1> QED
  BY <1>1, <1>2, <1>3, <1>4, <1>5, StatementKeeps DEF Typed, Label

LEMMA DecideNextUnseen ==
    ASSUME AloneInv, NEW t \in Thread, decide_next(t)
    PROVE  AloneInv' /\ Seen' = Seen
<1>1. Typed /\ crashed = {}
  BY DEF AloneInv
<1>2. /\ pc[t] = "next" /\ statement(t, pc[t])
      /\ UNCHANGED <<todo, shows, crashed, booting, spinner_pid, visible, focused>>
  BY DEF decide_next, statement
<1>3. ASSUME NEW vis, NEW foc, Progress(t, vis, foc)
      PROVE  /\ shows[t] <=> ShowActive
             /\ spinner[t] = SpinnerAsActive /\ has_active_outputs
  BY <1>2, <1>3 DEF Progress, Decided
<1>4. /\ shows[t] <=> ShowActive
      /\ spinner[t] = SpinnerAsActive /\ has_active_outputs
  BY <1>2, <1>3 DEF AloneInv, UnderWay
<1>5. PICK label \in Label \ {"idle"} :
          label = IF ~ NextReady THEN "spinner"
                  ELSE IF ShowActive THEN "show_next" ELSE "hide_next"
  BY DEF Label
<1>6. /\ pc' = [pc EXCEPT ![t] = label]
      /\ spinner'[t] = SpinnerMode
      /\ spinner' \in [Thread -> {"none", "as_active", "as_next"}]
  BY <1>1, <1>4, <1>5 DEF decide_next, goto, NextReady, NextExpected, SpinnerMode, Typed
<1>7. ASSUME NEW vis, NEW foc, Progress(t, vis, foc)
      PROVE  Begun(t, label, vis, foc)' /\ Decided(t, label, vis, foc)'
  <2>1. /\ ShowActive' = ShowActive /\ SpinnerAsActive' = SpinnerAsActive
        /\ SpinnerMode' = SpinnerMode /\ NextReady' = NextReady
    BY <1>2, ReadsKept DEF statement
  <2>2. AfterActive(vis)' = AfterActive(vis) /\ AfterNext(vis)' = AfterNext(vis)
    BY <1>2, ReadsKept DEF statement
  <2>3. UNCHANGED <<has_active_outputs, saved, sessions, active_name>>
    BY <1>2 DEF statement
  <2>4. NextReady => SpinnerMode = SpinnerAsActive
    BY DEF SpinnerMode
  <2>5. /\ visible = AfterActive(vis)
        /\ booting <=> saved.booting /\ ~ ShowActive
        /\ focused = IF ShowActive THEN sessions[active_name] ELSE foc
    BY <1>2, <1>7 DEF Progress, Decided
  <2> QED
    BY <1>2, <1>4, <1>5, <1>6, <2>1, <2>2, <2>3, <2>4, <2>5 DEF Begun, Decided, AfterNext
<1> QED
  BY <1>1, <1>2, <1>4, <1>5, <1>6, <1>7, StatementKeeps DEF Typed

LEMMA ShowOrHideNextUnseen ==
    ASSUME AloneInv, NEW t \in Thread, show_or_hide_next(t)
    PROVE  AloneInv' /\ Seen' = Seen
<1>1. Typed /\ crashed = {}
  BY DEF AloneInv
<1>2. /\ pc[t] \in {"show_next", "hide_next"} /\ statement(t, pc[t])
      /\ pc' = [pc EXCEPT ![t] = "spinner"]
      /\ UNCHANGED <<todo, shows, spinner, booting, spinner_pid, focused>>
      /\ pc[t] = "show_next" =>
            visible' = visible \cup ({sessions[next_name]} \ {NoSession})
      /\ pc[t] = "hide_next" => visible' = visible \ {sessions[next_name]}
  BY DEF show_or_hide_next, statement, goto, show, hide
<1>3. ASSUME NEW vis, NEW foc, Progress(t, vis, foc)
      PROVE  /\ has_active_outputs /\ next_name \in TrackedNames
             /\ Begun(t, "spinner", vis, foc)' /\ Decided(t, "spinner", vis, foc)'
  <2>1. /\ has_active_outputs /\ visible = AfterActive(vis)
        /\ pc[t] = "show_next" => ShowActive
        /\ pc[t] = "hide_next" => ~ ShowActive
        /\ NextReady /\ spinner[t] = SpinnerAsActive
        /\ shows[t] <=> ShowActive
        /\ booting <=> saved.booting /\ ~ ShowActive
        /\ focused = IF ShowActive THEN sessions[active_name] ELSE foc
    BY <1>2, <1>3 DEF Progress, Decided
  <2>2. next_name \in TrackedNames /\ sessions[next_name] # NoSession
    BY <2>1 DEF NextReady, is_session_ready_for_display, TrackedNames
  <2>3. visible' = AfterNext(vis)'
    <3>1. AfterNext(vis)' = AfterNext(vis)
      BY <1>2, ReadsKept DEF statement
    <3> QED BY <1>2, <2>1, <2>2, <3>1 DEF AfterNext
  <2>4. ShowActive' = ShowActive /\ SpinnerMode' = SpinnerMode
    BY <1>2, ReadsKept DEF statement
  <2>5. SpinnerMode = SpinnerAsActive
    BY <2>1 DEF SpinnerMode
  <2>6. UNCHANGED <<saved, sessions, active_name>>
    BY <1>2 DEF statement
  <2> QED
    BY <1>2, <2>1, <2>2, <2>3, <2>4, <2>5, <2>6 DEF Begun, Decided
<1>4. has_active_outputs /\ next_name \in TrackedNames
  BY <1>2, <1>3 DEF AloneInv, UnderWay
<1>5. crashed' = {}
  BY <1>4 DEF show_or_hide_next, dereference
<1> QED
  BY <1>1, <1>2, <1>3, <1>4, <1>5, StatementKeeps DEF Typed, Label

-----------------------------------------------------------------------------
\* The return of update_displayed_sessions(): the operation is seen.

\* What returns is the operation of SessionSwitcher that Entered names,
\* provided that the display is updated as SessionSwitcher says.
LEMMA ReturnSeen ==
    ASSUME AloneInv, NEW t \in Thread, pc[t] # "idle", statement(t, pc[t]), return(t),
           crashed' = {}, booting' \in BOOLEAN,
           \A vis, foc : Progress(t, vis, foc) =>
               Atomic!update_displayed_sessions(vis, foc)
    PROVE  AloneInv' /\ Idle' /\ Atomic!Next
<1>1. Typed /\ OneCall
  BY DEF AloneInv
<1>2. pc' = [u \in Thread |-> "idle"] /\ shows' = [u \in Thread |-> FALSE]
  BY <1>1 DEF return, goto, Typed, OneCall, LocalsReset
<1>3. AloneInv'
  BY <1>1, <1>2 DEF AloneInv, Typed, OneCall, LocalsReset, Label, return, statement
<1>4. Seen = saved /\ Seen' = Snapshot'
  BY <1>2 DEF Seen, Idle, Thread
<1>5. PICK gone \in SUBSET Session :
         Entered(gone) /\ Progress(t, VisibleWithout(gone), FocusedWithout(gone))
  BY DEF AloneInv, UnderWay
<1>6. Atomic!update_displayed_sessions(VisibleWithout(gone), FocusedWithout(gone))
  BY <1>5
<1>7. gone = {} => VisibleWithout(gone) = Seen.visible /\ FocusedWithout(gone) = Seen.focused
  BY <1>4 DEF VisibleWithout, FocusedWithout
<1>8. UNCHANGED <<sessions, ready, active_name, next_name, spinner_name,
                  has_active_outputs, connected>>
  BY DEF statement
<1>9. ASSUME NEW s \in Session, NEW pid \in Pid, gone = {}, Added(s, pid)
      PROVE  Atomic!Next
  <2>1. Atomic!MayConnect(s, pid) /\ Atomic!insert(s, pid)
    BY <1>4, <1>8, <1>9
    DEF Added, AsSaved, Snapshot, Atomic!MayConnect, Atomic!insert, Atomic!spinner_name_after_add
  <2> QED
    BY <1>6, <1>7, <1>9, <2>1 DEF Atomic!Next, Atomic!Connects, Atomic!add
<1>10. ASSUME NEW s \in Session, gone = {s}, Removed(s)
       PROVE  Atomic!Next
  <2>1. Atomic!forget(s)
    BY <1>4, <1>8, <1>10
    DEF Removed, AsSaved, Snapshot, Atomic!forget, Atomic!disconnect, Atomic!is_tracked, Atomic!erase
  <2>2. /\ VisibleWithout(gone) = Seen.visible \ {s}
        /\ FocusedWithout(gone) = Atomic!unfocus(s)
    BY <1>4, <1>10 DEF VisibleWithout, FocusedWithout, Atomic!unfocus
  <2> QED
    BY <1>6, <2>1, <2>2 DEF Atomic!Next, Atomic!Disconnects, Atomic!remove
<1>11. ASSUME NEW s \in Session, gone = {}, MarkedReady(s)
       PROVE  Atomic!Next
  <2>1. Atomic!note_ready(s)
    BY <1>4, <1>8, <1>11
    DEF MarkedReady, AsSaved, Snapshot, TrackedNames, Atomic!note_ready, Atomic!TrackedNames
  <2> QED
    BY <1>6, <1>7, <1>11, <2>1 DEF Atomic!Next, Atomic!GetsReady, Atomic!mark_ready
<1>12. ASSUME gone = {}, active_name \in DMName \cup {EmptyName},
              AsSaved({"sessions", "ready", "next_name", "spinner_name",
                       "has_active_outputs", "connected"})
       PROVE  Atomic!Next
  <2>1. Atomic!name_active(active_name)
    BY <1>4, <1>8, <1>12 DEF AsSaved, Snapshot, Atomic!name_active
  <2> QED
    BY <1>6, <1>7, <1>12, <2>1
    DEF Atomic!Next, Atomic!DMNamesActive, Atomic!set_active_session
<1>13. ASSUME gone = {}, next_name \in DMName \cup {EmptyName},
              AsSaved({"sessions", "ready", "active_name", "spinner_name",
                       "has_active_outputs", "connected"})
       PROVE  Atomic!Next
  <2>1. Atomic!name_next(next_name)
    BY <1>4, <1>8, <1>13 DEF AsSaved, Snapshot, Atomic!name_next
  <2> QED
    BY <1>6, <1>7, <1>13, <2>1
    DEF Atomic!Next, Atomic!DMNamesNext, Atomic!set_next_session
<1>14. ASSUME gone = {}, has_active_outputs \in BOOLEAN,
              AsSaved({"sessions", "ready", "active_name", "next_name", "spinner_name",
                       "connected"})
       PROVE  Atomic!Next
  <2>1. Atomic!note_outputs(has_active_outputs)
    BY <1>4, <1>8, <1>14 DEF AsSaved, Snapshot, Atomic!note_outputs
  <2> QED
    BY <1>6, <1>7, <1>14, <2>1
    DEF Atomic!Next, Atomic!OutputsChange, Atomic!active_outputs_handler
<1>15. Idle'
  BY <1>2 DEF Idle
<1> QED
  BY <1>3, <1>5, <1>9, <1>10, <1>11, <1>12, <1>13, <1>14, <1>15 DEF Entered

\* What SessionSwitcher reads, when the operation is seen, is what the
\* statements have read.
LEMMA SameReads ==
    ASSUME Seen = saved, Seen' = Snapshot',
           UNCHANGED <<sessions, ready, active_name, next_name, spinner_name,
                       has_active_outputs, connected>>
    PROVE  /\ Seen'.has_active_outputs = has_active_outputs
           /\ Seen'.sessions = sessions
           /\ Seen'.active_name = active_name
           /\ Seen'.next_name = next_name
           /\ Seen'.spinner_name = spinner_name
           /\ (Atomic!TrackedNames)' = TrackedNames
           /\ (Atomic!Tracked)' = SessionsOf(TrackedNames)
           /\ (Atomic!Uninteresting)' = Uninteresting
           /\ (Atomic!SpinnerTracked)' <=> SpinnerTracked
           /\ Atomic!show_active <=> ShowActive
           /\ Atomic!show_next <=> ShowActive /\ NextReady
           /\ Atomic!hide_next <=> ~ ShowActive /\ NextReady
           /\ Atomic!show_spinner_as_active <=> ~ ShowActive /\ ActiveExpected
           /\ Atomic!show_spinner_as_next <=> ShowActive /\ ~ NextReady /\ NextExpected
<1>1. /\ Seen'.has_active_outputs = has_active_outputs
      /\ Seen'.sessions = sessions
      /\ Seen'.ready = ready
      /\ Seen'.active_name = active_name
      /\ Seen'.next_name = next_name
      /\ Seen'.spinner_name = spinner_name
  BY DEF Snapshot
<1>2. (Atomic!TrackedNames)' = TrackedNames
  BY <1>1 DEF Atomic!TrackedNames, TrackedNames
<1>3. (Atomic!Tracked)' = SessionsOf(TrackedNames)
  BY <1>1, <1>2 DEF Atomic!Tracked, SessionsOf
<1>4. (Atomic!Uninteresting)' = Uninteresting
  BY <1>1, <1>2 DEF Atomic!Uninteresting, Uninteresting
<1>5. (Atomic!SpinnerTracked)' <=> SpinnerTracked
  BY <1>1, <1>2 DEF Atomic!SpinnerTracked, SpinnerTracked
<1>6. Atomic!show_active <=> ShowActive
  BY <1>1, <1>2
  DEF Atomic!show_active, Atomic!allowed_to_display_active, Atomic!is_session_ready_for_display,
      Atomic!is_session_expected_to_become_ready, ShowActive, NextReady, NextExpected,
      is_session_ready_for_display, is_session_expected_to_become_ready
<1>7. /\ Atomic!show_next <=> ShowActive /\ NextReady
      /\ Atomic!hide_next <=> ~ ShowActive /\ NextReady
  BY <1>1, <1>2, <1>6
  DEF Atomic!show_next, Atomic!hide_next, Atomic!is_session_ready_for_display, NextReady,
      is_session_ready_for_display
<1>8. /\ Atomic!show_spinner_as_active <=> ~ ShowActive /\ ActiveExpected
      /\ Atomic!show_spinner_as_next <=> ShowActive /\ ~ NextReady /\ NextExpected
  BY <1>1, <1>6, <1>7
  DEF Atomic!show_spinner_as_active, Atomic!show_spinner_as_next,
      Atomic!is_session_expected_to_become_ready, ActiveExpected, NextExpected,
      is_session_expected_to_become_ready
<1> QED BY <1>1, <1>2, <1>3, <1>4, <1>5, <1>6, <1>7, <1>8

LEMMA AllHiddenSeen ==
    ASSUME AloneInv, NEW t \in Thread, hiding_done(t), pc[t] = "hide_all"
    PROVE  AloneInv' /\ Idle' /\ Atomic!Next
<1>1. Typed /\ OneCall /\ crashed = {}
  BY DEF AloneInv
<1>2. /\ statement(t, pc[t]) /\ return(t) /\ todo[t] = {}
      /\ UNCHANGED <<crashed, booting, spinner_pid, visible, focused>>
  BY DEF hiding_done, statement
<1>3. Seen = saved /\ Seen' = Snapshot'
  BY <1>1, <1>2 DEF Seen, Idle, return, goto, Typed, OneCall, LocalsReset
<1>4. ASSUME NEW vis, NEW foc, Progress(t, vis, foc)
      PROVE  Atomic!update_displayed_sessions(vis, foc)
  <2>1. /\ ~ has_active_outputs /\ visible = vis \ SessionsOf(TrackedNames)
        /\ focused = foc /\ booting = saved.booting /\ spinner_pid = saved.spinner_pid
    BY <1>2, <1>4 DEF Progress, Begun
  <2>2. ~ Seen'.has_active_outputs /\ (Atomic!Tracked)' = SessionsOf(TrackedNames)
    BY <1>2, <1>3, <2>1, SameReads DEF statement
  <2> QED
    BY <1>2, <1>3, <2>1, <2>2
    DEF Atomic!update_displayed_sessions, Atomic!hide_all_sessions, Snapshot
<1> QED
  BY <1>1, <1>2, <1>4, ReturnSeen DEF Typed

LEMMA SettledSeen ==
    ASSUME AloneInv, NEW t \in Thread, settle_spinner(t)
    PROVE  AloneInv' /\ Idle' /\ Atomic!Next
<1>1. Typed /\ OneCall /\ crashed = {}
  BY DEF AloneInv
<1>2. /\ pc[t] = "spinner" /\ statement(t, pc[t]) /\ return(t)
      /\ UNCHANGED <<crashed, booting>>
  BY DEF settle_spinner, statement
<1>3. Seen = saved /\ Seen' = Snapshot'
  BY <1>1, <1>2 DEF Seen, Idle, return, goto, Typed, OneCall, LocalsReset
<1>4. ASSUME NEW vis, NEW foc, Progress(t, vis, foc)
      PROVE  Atomic!update_displayed_sessions(vis, foc)
  <2>1. /\ has_active_outputs /\ visible = AfterNext(vis) /\ spinner[t] = SpinnerMode
        /\ booting <=> saved.booting /\ ~ ShowActive
        /\ focused = IF ShowActive THEN sessions[active_name] ELSE foc
        /\ spinner_pid = saved.spinner_pid
    BY <1>2, <1>4 DEF Progress, Decided
  <2> USE SameReads
  <2>2. Seen'.has_active_outputs
    BY <1>2, <1>3, <2>1 DEF statement
  <2>3. Atomic!show_spinner <=> SpinnerMode # "none"
    BY <1>2, <1>3 DEF statement, Atomic!show_spinner, SpinnerMode, SpinnerAsActive
  <2> DEFINE shows_spinner == SpinnerMode # "none" /\ SpinnerTracked
  <2>4. /\ ShowActive => sessions[active_name] \in Session
        /\ NextReady => sessions[next_name] \in Session
        /\ IF SpinnerTracked THEN sessions[spinner_name] \in Session
           ELSE sessions[spinner_name] = NoSession
        /\ NoSession \notin Session
    BY <1>1, ConstantsAssumption
    DEF ShowActive, NextReady, is_session_ready_for_display, SpinnerTracked, TrackedNames, Typed
  <2>5. Seen'.visible = Atomic!hide_sessions(vis) \cup Atomic!shown_sessions
    <3>1. Atomic!hide_sessions(vis) =
             IF ~ ShowActive /\ NextReady THEN AfterHiding(vis) \ {sessions[next_name]}
             ELSE AfterHiding(vis)
      BY <1>2, <1>3, <2>4 DEF statement, Atomic!hide_sessions, AfterHiding
    <3>2. Atomic!shown_sessions =
             (IF ShowActive THEN {sessions[active_name]} ELSE {})
             \cup (IF ShowActive /\ NextReady THEN {sessions[next_name]} ELSE {})
             \cup (IF shows_spinner THEN {sessions[spinner_name]} ELSE {})
      BY <1>2, <1>3, <2>3, <2>4 DEF statement, Atomic!shown_sessions
    <3>3. visible' = visible \cup (IF shows_spinner THEN {sessions[spinner_name]} ELSE {})
      BY <2>1, <2>4 DEF settle_spinner, show
    <3> HIDE DEF shows_spinner
    <3>4. CASE ShowActive
      BY <1>3, <2>1, <3>1, <3>2, <3>3, <3>4 DEF AfterNext, AfterActive, Snapshot
    <3>5. CASE ~ ShowActive
      BY <1>3, <2>1, <3>1, <3>2, <3>3, <3>5 DEF AfterNext, AfterActive, Snapshot
    <3> QED BY <3>4, <3>5
  <2>6. Seen'.focused = Atomic!focus_after(foc)
    <3>1. focused' = IF spinner[t] = "as_active" /\ SpinnerTracked THEN sessions[spinner_name]
                     ELSE focused
      BY DEF settle_spinner, raise_and_focus
    <3>2. spinner[t] = "as_active" <=> ~ ShowActive /\ ActiveExpected
      BY <2>1 DEF SpinnerMode, SpinnerAsActive
    <3> QED
      BY <1>2, <1>3, <2>1, <3>1, <3>2 DEF statement, Atomic!focus_after, Snapshot
  <2>7. Seen'.booting = (Seen.booting /\ ~ Atomic!show_active)
    BY <1>1, <1>2, <1>3, <2>1 DEF statement, Snapshot, Typed
  <2>8. IF Atomic!show_spinner THEN Atomic!ensure_spinner_will_be_shown ELSE Atomic!kill
    BY <1>2, <1>3, <2>1, <2>3
    DEF settle_spinner, statement, Snapshot, kill, ensure_running, Atomic!kill,
        Atomic!ensure_spinner_will_be_shown, Atomic!ensure_running
  <2> QED
    BY <2>2, <2>5, <2>6, <2>7, <2>8 DEF Atomic!update_displayed_sessions
<1> QED
  BY <1>1, <1>2, <1>4, ReturnSeen DEF Typed

-----------------------------------------------------------------------------
\* A thread that begins alone leaves nothing of the ones that overlapped.
LEMMA IdleAlone ==
    ASSUME IInv, Idle, crashed = {}
    PROVE  AloneInv
BY DEF IInv, AloneInv, OneCall, Idle

LEMMA TypedKept ==
    ASSUME Typed, LocalsReset, [ThreadsNext]_all_vars
    PROVE  Typed' /\ LocalsReset'
<1> USE ConstantsAssumption DEF Typed, LocalsReset, Label, Thread
<1>1. CASE EnterCall
  <2>1. UNCHANGED <<booting, todo, shows, spinner>>
    BY <1>1 DEF EnterCall, enter, remove_ignored, switcher_vars, local_vars
  <2>2. pc' \in [Thread -> Label] /\ \A t \in Thread : pc'[t] = "idle" => pc[t] = "idle"
    BY <1>1 DEF EnterCall, enter, local_vars
  <2>3. /\ sessions' \in [Name -> Session \cup {NoSession}]
        /\ active_name' \in Name /\ next_name' \in Name /\ spinner_name' \in Name
    BY <1>1
    DEF EnterCall, call_add, insert, spinner_name_after_add, call_remove, forget, erase,
        call_mark_ready, note_ready, call_set_name, name_active, name_next, remove_ignored,
        switcher_vars
  <2> QED BY <2>1, <2>2, <2>3
<1>2. CASE EnterHandler
  BY <1>2 DEF EnterHandler, enter, note_outputs
<1>3. ASSUME NEW t \in Thread, Step(t)
      PROVE  Typed' /\ LocalsReset'
  <2>1. UNCHANGED <<sessions, active_name, next_name, spinner_name>>
    BY <1>3
    DEF Step, statement, start_hiding, hide_one, hiding_done, decide_active,
        show_and_focus_active, decide_next, show_or_hide_next, settle_spinner
  <2>2. /\ pc' \in [Thread -> Label] /\ booting' \in BOOLEAN
        /\ todo' \in [Thread -> SUBSET Name]
        /\ shows' \in [Thread -> BOOLEAN]
        /\ spinner' \in [Thread -> {"none", "as_active", "as_next"}]
        /\ LocalsReset'
    <3>1. CASE start_hiding(t)
      BY <3>1 DEF start_hiding, statement, goto, TrackedNames
    <3>2. CASE hide_one(t)
      BY <3>2 DEF hide_one
    <3>3. CASE hiding_done(t)
      <4>1. booting' = booting
        BY <3>3 DEF hiding_done
      <4>2. CASE goto(t, "active") /\ UNCHANGED <<todo, shows, spinner>> /\ pc[t] # "idle"
        BY <4>1, <4>2 DEF goto
      <4>3. CASE return(t)
        BY <4>1, <4>3 DEF return, goto
      <4> QED BY <3>3, <4>2, <4>3 DEF hiding_done, statement
    <3>4. CASE decide_active(t)
      BY <3>4 DEF decide_active, statement, goto
    <3>5. CASE show_and_focus_active(t)
      BY <3>5 DEF show_and_focus_active, statement, goto
    <3>6. CASE decide_next(t)
      BY <3>6 DEF decide_next, statement, goto
    <3>7. CASE show_or_hide_next(t)
      BY <3>7 DEF show_or_hide_next, statement, goto
    <3>8. CASE settle_spinner(t)
      BY <3>8 DEF settle_spinner, statement, return, goto
    <3> QED
      BY <1>3, <3>1, <3>2, <3>3, <3>4, <3>5, <3>6, <3>7, <3>8 DEF Step
  <2> QED BY <2>1, <2>2
<1>4. CASE UNCHANGED all_vars
  BY <1>4 DEF all_vars, vars, switcher_vars, local_vars
<1> QED
  BY <1>1, <1>2, <1>3, <1>4 DEF ThreadsNext

\* Every step of a thread alone is seen as one of SessionSwitcher, or not at
\* all.
LEMMA StepSeen ==
    ASSUME IInv, [ThreadsNext]_all_vars
    PROVE  IInv' /\ [Overlapping \/ (Idle' /\ Atomic!Next)]_(Atomic!vars)
<1>1. Seen' = Seen => UNCHANGED Atomic!vars
  BY DEF Atomic!vars, Atomic!switcher_vars
<1>2. Typed' /\ LocalsReset'
  BY TypedKept DEF IInv
<1>3. AloneInv' => IInv'
  BY <1>2 DEF IInv
<1>4. overlap' # {} => IInv'
  BY <1>2 DEF IInv
<1>5. ASSUME NEW t \in Thread, begin(t), ~ Idle
      PROVE  Overlapping
  BY <1>5 DEF begin, Overlapping
<1>6. CASE EnterCall
  <2>1. begin("call") /\ "call" \in Thread
    BY <1>6 DEF EnterCall, enter, Thread
  <2>2. CASE ~ Idle
    BY <1>4, <1>5, <2>1, <2>2 DEF Overlapping
  <2>3. CASE Idle
    <3>1. AloneInv
      BY <2>1, <2>3, IdleAlone DEF begin
    <3>2. CASE \E s \in Session : remove_ignored(s) /\ UNCHANGED <<local_vars, crashed>>
      BY <1>3, <2>3, <3>1, <3>2, IgnoredSeen
    <3> QED
      BY <1>1, <1>3, <1>6, <2>1, <2>3, <3>1, <3>2, BeginsUnseen DEF EnterCall
  <2> QED BY <2>2, <2>3
<1>7. CASE EnterHandler
  <2>1. begin("outputs") /\ enter("outputs") /\ "outputs" \in Thread
    BY <1>7 DEF EnterHandler, enter, Thread
  <2>2. CASE ~ Idle
    BY <1>4, <1>5, <2>1, <2>2 DEF Overlapping
  <2>3. CASE Idle
    BY <1>1, <1>3, <1>7, <2>1, <2>3, BeginsUnseen, IdleAlone DEF begin
  <2> QED BY <2>2, <2>3
<1>8. ASSUME NEW t \in Thread, Step(t)
      PROVE  IInv' /\ [Overlapping \/ (Idle' /\ Atomic!Next)]_(Atomic!vars)
  <2>1. overlap' = overlap /\ ~ Idle
    BY <1>8
    DEF Step, statement, start_hiding, hide_one, hiding_done, decide_active,
        show_and_focus_active, decide_next, show_or_hide_next, settle_spinner, Idle
  <2>2. CASE overlap # {}
    BY <1>4, <2>1, <2>2 DEF Overlapping
  <2>3. CASE overlap = {}
    <3>1. AloneInv
      BY <2>3 DEF IInv
    <3> QED
      BY <1>1, <1>3, <1>8, <3>1, StartHidingUnseen, HideOneUnseen, HidingDoneUnseen,
         AllHiddenSeen, DecideActiveUnseen, ShowActiveUnseen, DecideNextUnseen,
         ShowOrHideNextUnseen, SettledSeen
      DEF Step
  <2> QED BY <2>2, <2>3
<1>9. CASE UNCHANGED all_vars
  <2>1. Seen' = Seen
    BY <1>9 DEF all_vars, vars, switcher_vars, local_vars, Seen, Idle, Snapshot
  <2>2. UNCHANGED <<vars, local_vars, crashed, overlap, saved>>
    BY <1>9 DEF all_vars
  <2>3. ASSUME NEW t \in Thread, UnderWay(t)
        PROVE  UnderWay(t)'
    <3>1. PICK gone \in SUBSET Session :
             Entered(gone) /\ Progress(t, VisibleWithout(gone), FocusedWithout(gone))
      BY <2>3 DEF UnderWay
    <3>2. Entered(gone)'
      BY <2>2, <3>1, ReadsKept DEF vars, switcher_vars
    <3>3. ASSUME NEW vis, NEW foc, Progress(t, vis, foc)
          PROVE  Progress(t, vis, foc)'
      <4> USE <2>2, <3>3, ReadsKept DEF vars, switcher_vars, local_vars
      <4>1. Begun(t, pc[t], vis, foc)'
        BY DEF Progress, Begun
      <4>2. Decided(t, pc[t], vis, foc)'
        BY DEF Progress, Decided
      <4> QED BY <4>1, <4>2 DEF Progress
    <3>4. /\ VisibleWithout(gone)' = VisibleWithout(gone)
          /\ FocusedWithout(gone)' = FocusedWithout(gone)
      BY <2>2 DEF VisibleWithout, FocusedWithout
    <3>5. Progress(t, VisibleWithout(gone), FocusedWithout(gone))'
      BY <3>1, <3>3, <3>4
    <3> QED BY <2>2, <2>3, <3>2, <3>5 DEF UnderWay
  <2>4. IInv'
    BY <1>2, <2>2, <2>3 DEF IInv, AloneInv, OneCall, local_vars
  <2> QED BY <1>1, <2>1, <2>4
<1> QED
  BY <1>6, <1>7, <1>8, <1>9 DEF ThreadsNext

\* CallsAreAtomic: calls that do not overlap, statement by statement,
\* implement SessionSwitcher, also after others that did overlap.
THEOREM ThreadsImplementSwitcher == ThreadsSpec => CallsAreAtomic
<1>1. ThreadsInit => Atomic!Init
  BY DEF ThreadsInit, Init, Atomic!Init, Seen, Idle, Snapshot
<1>2. IInv /\ [ThreadsNext]_all_vars
         => IInv' /\ [Overlapping \/ (Idle' /\ Atomic!Next)]_(Atomic!vars)
  BY StepSeen
<1> QED
  BY <1>1, <1>2, TypedInit, PTL DEF ThreadsSpec, CallsAreAtomic

-----------------------------------------------------------------------------
\* Null sessions

\* The names that thread t has found in the map, or taken from it, and looks
\* up next are still there.
Lookups(t) ==
    /\ pc[t] \in {"hide_uninteresting", "hide_all"} => todo[t] \subseteq TrackedNames
    /\ pc[t] = "show_active" => active_name \in TrackedNames
    /\ pc[t] \in {"show_next", "hide_next"} => next_name \in TrackedNames

NullInv ==
    /\ Typed /\ LocalsReset
    /\ Lookups("call")
    /\ "call" \in overlap \/ Lookups("outputs")
    /\ NullOnlyInHandler

\* What a statement of thread t does to the names it looks up
LEMMA StepLooksUp ==
    ASSUME Typed, NEW t \in Thread, Step(t)
    PROVE  /\ \A u \in Thread \ {t} : Lookups(u) => Lookups(u)'
           /\ Lookups(t) => Lookups(t)' /\ crashed' = {}
           /\ crashed' \subseteq {t}
           /\ overlap' = overlap
<1>1. /\ UNCHANGED <<sessions, ready, active_name, next_name, overlap>>
      /\ crashed = {}
  BY DEF Step, statement, start_hiding, hide_one, hiding_done, decide_active,
         show_and_focus_active, decide_next, show_or_hide_next, settle_spinner
<1>2. TrackedNames' = TrackedNames
  BY <1>1 DEF TrackedNames
<1>3. \A u \in Thread \ {t} : pc'[u] = pc[u] /\ todo'[u] = todo[u]
  BY DEF Typed, Step, start_hiding, hide_one, hiding_done, decide_active, goto, return,
         show_and_focus_active, decide_next, show_or_hide_next, settle_spinner
<1>4. /\ Lookups(t) => Lookups(t)' /\ crashed' = {}
      /\ crashed' \subseteq {t}
  <2> USE <1>1, <1>2 DEF Lookups, Typed, Label
  <2>1. CASE start_hiding(t)
    BY <2>1 DEF start_hiding, statement, goto
  <2>2. CASE hide_one(t)
    BY <2>2 DEF hide_one, dereference
  <2>3. CASE hiding_done(t)
    BY <2>3 DEF hiding_done, statement, goto, return
  <2>4. CASE decide_active(t)
    BY <2>4 DEF decide_active, statement, goto, may_display_active, is_session_ready_for_display
  <2>5. CASE show_and_focus_active(t)
    BY <2>5 DEF show_and_focus_active, statement, goto, dereference
  <2>6. CASE decide_next(t)
    BY <2>6 DEF decide_next, statement, goto, is_session_ready_for_display
  <2>7. CASE show_or_hide_next(t)
    BY <2>7 DEF show_or_hide_next, statement, goto, dereference
  <2>8. CASE settle_spinner(t)
    BY <2>8 DEF settle_spinner, statement, goto, return
  <2> QED
    BY <2>1, <2>2, <2>3, <2>4, <2>5, <2>6, <2>7, <2>8 DEF Step
<1> QED BY <1>1, <1>2, <1>3, <1>4 DEF Lookups

\* NullOnlyInHandler: only the handler dereferences the session of an entry
\* that is gone, and only if a call began in its midst.
THEOREM NullSessionOnlyInHandler == ThreadsSpec => []NullOnlyInHandler
<1>1. ThreadsInit => NullInv
  BY TypedInit DEF NullInv, IInv, ThreadsInit, Lookups, NullOnlyInHandler, Thread
<1>2. ASSUME NullInv, [ThreadsNext]_all_vars
      PROVE  NullInv'
  <2>1. Typed /\ LocalsReset /\ Typed' /\ LocalsReset'
    BY <1>2, TypedKept DEF NullInv
  <2>2. CASE EnterCall
    <3>1. begin("call") /\ UNCHANGED <<todo, crashed>> /\ pc'["outputs"] = pc["outputs"]
      BY <2>1, <2>2 DEF EnterCall, enter, Typed, Thread, local_vars
    <3>2. pc'["call"] \in {"idle", "update"}
      BY <2>1, <2>2 DEF EnterCall, enter, begin, Typed, Thread, local_vars
    <3>3. Lookups("call")'
      BY <3>2 DEF Lookups
    <3>4. "call" \in overlap' \/ Lookups("outputs")'
      BY <3>1 DEF begin, Idle, Thread, Lookups
    <3>5. NullOnlyInHandler'
      BY <3>1 DEF begin, NullOnlyInHandler
    <3> QED BY <2>1, <3>3, <3>4, <3>5 DEF NullInv
  <2>3. CASE EnterHandler
    <3>1. /\ begin("outputs") /\ UNCHANGED <<todo, crashed>>
          /\ pc'["call"] = pc["call"] /\ pc'["outputs"] = "update"
          /\ UNCHANGED <<sessions, active_name, next_name>>
      BY <2>1, <2>3 DEF EnterHandler, enter, note_outputs, Typed, Thread
    <3>2. Lookups("call")' /\ Lookups("outputs")'
      BY <1>2, <3>1 DEF NullInv, Lookups, TrackedNames
    <3>3. NullOnlyInHandler'
      BY <3>1 DEF begin, NullOnlyInHandler
    <3> QED BY <2>1, <3>2, <3>3 DEF NullInv
  <2>4. CASE Step("call")
    <3>1. Lookups("call")' /\ crashed' = {} /\ overlap' = overlap
      BY <1>2, <2>1, <2>4, StepLooksUp DEF NullInv, Thread
    <3>2. Lookups("outputs") => Lookups("outputs")'
      BY <2>1, <2>4, StepLooksUp DEF Thread
    <3> QED BY <1>2, <2>1, <3>1, <3>2 DEF NullInv, NullOnlyInHandler
  <2>5. CASE Step("outputs")
    <3>1. /\ Lookups("outputs") => Lookups("outputs")' /\ crashed' = {}
          /\ crashed' \subseteq {"outputs"} /\ overlap' = overlap
      BY <2>1, <2>5, StepLooksUp DEF Thread
    <3>2. Lookups("call")'
      BY <1>2, <2>1, <2>5, StepLooksUp DEF NullInv, Thread
    <3> QED BY <1>2, <2>1, <3>1, <3>2 DEF NullInv, NullOnlyInHandler
  <2>6. CASE UNCHANGED all_vars
    BY <1>2, <2>1, <2>6
    DEF NullInv, Lookups, TrackedNames, NullOnlyInHandler, all_vars, vars, switcher_vars,
        local_vars
  <2> QED
    BY <1>2, <2>2, <2>3, <2>4, <2>5, <2>6 DEF ThreadsNext, Thread
<1>3. NullInv => NullOnlyInHandler
  BY DEF NullInv
<1> QED BY <1>1, <1>2, <1>3, PTL DEF ThreadsSpec

=============================================================================
