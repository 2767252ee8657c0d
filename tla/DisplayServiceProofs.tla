------------------------- MODULE DisplayServiceProofs -------------------------
(***************************************************************************)
(* Theorems about the screen, alone and composed with the display service, *)
(* the other handlers and the event loop, for every set of outputs and of  *)
(* owners, whatever the threads, Mir and the clients do.                   *)
(*                                                                         *)
(* Every step of the composition is a step of MirScreen (ScreenMoves), so  *)
(* that the lemmas about the steps of MirScreen serve both.                *)
(***************************************************************************)
EXTENDS DisplayService, FiniteSetTheorems, TLAPS

-----------------------------------------------------------------------------
\* MirScreen alone

\* While the loop under the lock runs, the handlers it has not reached are
\* registered, and the registered ones it has passed know the counts.
LoopInv ==
    /\ handlers \subseteq Owner
    /\ told = [h \in Owner |-> told[h]]
    /\ lock = "free" => to_call = {}
    /\ to_call \subseteq handlers
    /\ \A h \in handlers \ to_call : told[h] = active_outputs

\* The loops over the handlers are atomic enough: every step keeps LoopInv.
LEMMA LoopStep == LoopInv /\ [Next]_vars => LoopInv'
<1> SUFFICES ASSUME LoopInv, [Next]_vars
             PROVE  LoopInv'
  OBVIOUS
<1> USE DEF LoopInv
<1>1. ASSUME NEW on \in BOOLEAN, NEW filter \in OutputFilter, set_power_mode(on, filter)
      PROVE  LoopInv'
  BY <1>1 DEF set_power_mode, bookkeeping
<1>2. CASE stop_compositor
  BY <1>2 DEF stop_compositor, bookkeeping
<1>3. CASE configure_display
  BY <1>3 DEF configure_display, bookkeeping
<1>4. CASE request_throws
  BY <1>4 DEF request_throws, bookkeeping
<1>5. CASE start_compositor
  BY <1>5 DEF start_compositor, bookkeeping
<1>6. CASE report_request
  BY <1>6 DEF report_request, configuration_applied
<1>7. CASE request_done
  BY <1>7 DEF request_done, all_called
<1>8. ASSUME NEW h \in Owner, register_active_outputs_handler(h)
      PROVE  LoopInv'
  BY <1>8 DEF register_active_outputs_handler, told_at_register
<1>9. ASSUME NEW h \in Owner, unregister_active_outputs_handler(h)
      PROVE  LoopInv'
  BY <1>9 DEF unregister_active_outputs_handler, may_unregister
<1>10. ASSUME NEW h \in Owner, call_handler(h)
       PROVE  LoopInv'
  BY <1>10 DEF call_handler
<1>11. ASSUME NEW connected \in SUBSET Output, hardware_change(connected)
       PROVE  LoopInv'
  BY <1>11 DEF hardware_change, bookkeeping
<1>12. ASSUME NEW c \in report, mir_reports(c)
       PROVE  LoopInv'
  BY <1>12 DEF mir_reports, configuration_applied
<1>13. CASE mir_report_done
  BY <1>13 DEF mir_report_done, all_called
<1>14. CASE UNCHANGED vars
  BY <1>14 DEF vars, bookkeeping
<1> QED
  BY <1>1, <1>2, <1>3, <1>4, <1>5, <1>6, <1>7, <1>8, <1>9, <1>10, <1>11, <1>12, <1>13,
     <1>14
  DEF Next, Requesting, Registering, Mir

\* LoopInv is an invariant.
LEMMA LoopKept == Spec => []LoopInv
<1>1. Init => LoopInv
  BY DEF Init, ScreenInit, LoopInv
<1> QED
  BY <1>1, LoopStep, PTL DEF Spec

\* With the mutex free every registered handler was last called with the
\* counts MirScreen holds: register_active_outputs_handler() and
\* configuration_applied() leave none of them with an older value.
THEOREM HandlersInformed == Spec => []HandlersAgree
<1>1. LoopInv => HandlersAgree
  BY DEF LoopInv, HandlersAgree
<1> QED
  BY <1>1, LoopKept, PTL

\* The loop in configuration_applied() calls no handler whose owner has
\* returned from unregister_active_outputs_handler().
THEOREM UnregisteredNotCalled == Spec => []CallsOnlyRegistered
<1>1. LoopInv => CallsOnlyRegistered
  BY DEF LoopInv, CallsOnlyRegistered
<1> QED
  BY <1>1, LoopKept, PTL

-----------------------------------------------------------------------------
\* What count_active_outputs() returns is a pair of counts, within the numbers
\* of outputs of each kind.
LEMMA CountsType == \A c : count_active_outputs(c) \in Counts
<1> SUFFICES ASSUME NEW c
             PROVE  count_active_outputs(c) \in Counts
  OBVIOUS
<1>1. ASSUME NEW S, NEW T, IsFiniteSet(T), S \subseteq T
      PROVE  Cardinality(S) \in 0 .. Cardinality(T)
  BY <1>1, FS_Subset, FS_CardinalityType
<1>2. IsFiniteSet(External) /\ IsFiniteSet(Output \ External)
  BY ScreenAssumption, FS_Subset
<1> QED
  BY <1>1, <1>2 DEF count_active_outputs, Counts

\* The configurations set_power_mode() and Mir make are configurations.
LEMMA ConfigurationType ==
    /\ \A connected : policy(connected) \in Configuration
    /\ \A c \in Configuration, on \in BOOLEAN, filter \in OutputFilter :
          with_power_mode(c, on, filter) \in Configuration
    /\ \A c \in Configuration : display \in Configuration => configured(c) \in Configuration
BY DEF policy, with_power_mode, configured, Configuration

\* Before anything is counted no output is active.
LEMMA NoneActiveType == none_active \in Counts
BY ScreenAssumption, FS_Subset, FS_CardinalityType DEF none_active, Counts

\* The constructor's state, with handlers that are registered and told counts,
\* has the types.
LEMMA TypeInit ==
    ScreenInit /\ handlers \subseteq Owner /\ told \in [Owner -> Counts] => TypeOK
BY CountsType, ConfigurationType, NoneActiveType DEF ScreenInit, TypeOK, RequestAt

\* Every step keeps the types.
LEMMA TypeStep == TypeOK /\ [Next]_vars => TypeOK'
<1> SUFFICES ASSUME TypeOK, [Next]_vars
             PROVE  TypeOK'
  OBVIOUS
<1> USE DEF TypeOK, RequestAt
<1>1. CASE Requesting
  <2> USE DEF bookkeeping, mir
  <2>1. ASSUME NEW on \in BOOLEAN, NEW filter \in OutputFilter, set_power_mode(on, filter)
        PROVE  TypeOK'
    BY <2>1, ConfigurationType DEF set_power_mode
  <2>2. CASE stop_compositor
    BY <2>2 DEF stop_compositor
  <2>8. CASE request_throws
    <3>1. display' \in Configuration
      BY <2>8, ConfigurationType DEF request_throws
    <3> QED BY <2>8, <3>1 DEF request_throws
  <2>3. CASE configure_display
    BY <2>3, ConfigurationType DEF configure_display
  <2>4. CASE start_compositor
    BY <2>4 DEF start_compositor, starts_for, has_active_outputs, after_start
  <2>5. CASE report_request
    BY <2>5, CountsType DEF report_request, configuration_applied
  <2>6. CASE request_done
    BY <2>6 DEF request_done, all_called
  <2> QED
    BY <1>1, <2>1, <2>2, <2>3, <2>4, <2>5, <2>6, <2>8 DEF Requesting
<1>2. CASE Registering
  BY <1>2 DEF Registering, register_active_outputs_handler, told_at_register,
              unregister_active_outputs_handler, call_handler, mir
<1>3. CASE Mir
  BY <1>3, CountsType, ConfigurationType
  DEF Mir, hardware_change, mir_reports, mir_report_done, configuration_applied,
      all_called, mir, bookkeeping
<1>4. CASE UNCHANGED vars
  BY <1>4 DEF vars, bookkeeping, mir
<1> QED
  BY <1>1, <1>2, <1>3, <1>4 DEF Next

\* The type invariant of MirScreen.
THEOREM TypeCorrect == Spec => []TypeOK
<1>1. Init => TypeOK
  BY TypeInit, NoneActiveType DEF Init
<1> QED
  BY <1>1, TypeStep, PTL DEF Spec

-----------------------------------------------------------------------------
\* Why requests and changes that do not overlap leave the display composited
\* and counted.  The thread that reports holds the lock.  An undisturbed
\* request has Mir's thread neither reporting nor changing the hardware, so
\* that its copy agrees with the display, and becomes it; an undisturbed
\* report is that of the display.

LockInv ==
    /\ lock = "mir" => report # {}
    /\ lock = "dbus" <=> request = "reporting"

RequestInv ==
    ~ disturbed /\ request # "idle" =>
        /\ report = {}
        /\ request \in {"stop", "configure"} =>
              \A o \in Output : displayConfig[o].connected = display[o].connected
        /\ request \in {"start", "report", "reporting"} => display = displayConfig
        /\ request \in {"report", "reporting"} /\ has_active_outputs(display) => compositing
        /\ request = "reporting" => active_outputs = count_active_outputs(display)

ReportInv ==
    ~ disturbed /\ request = "idle" =>
        /\ report \subseteq {display}
        /\ has_active_outputs(display) => compositing
        /\ report = {} \/ lock = "mir" => active_outputs = count_active_outputs(display)

HealInv == TypeOK /\ LockInv /\ RequestInv /\ ReportInv

\* The constructor leaves a report of the display, or has counted it.
LEMMA HealInit == ScreenInit /\ TypeOK => HealInv
BY DEF ScreenInit, HealInv, LockInv, RequestInv, ReportInv

\* Every step keeps HealInv.
LEMMA HealStep == HealInv /\ [Next]_vars => HealInv'
<1> SUFFICES ASSUME HealInv, [Next]_vars
             PROVE  (LockInv /\ RequestInv /\ ReportInv)'
  BY TypeStep DEF HealInv
<1> USE DEF LockInv, RequestInv, ReportInv
<1>1. ASSUME NEW on \in BOOLEAN, NEW filter \in OutputFilter, set_power_mode(on, filter)
      PROVE  (LockInv /\ RequestInv /\ ReportInv)'
  <2>1. \A o \in Output : displayConfig'[o].connected = display[o].connected
    BY <1>1 DEF set_power_mode, with_power_mode, HealInv, TypeOK, Configuration
  <2> QED
    BY <1>1, <2>1 DEF set_power_mode, HealInv, bookkeeping, mir
<1>2. CASE stop_compositor
  BY <1>2 DEF stop_compositor, HealInv, bookkeeping
<1>3. CASE configure_display
  <2>1. ~ disturbed => configured(displayConfig) = displayConfig
    BY <1>3 DEF configure_display, configured, HealInv, TypeOK, Configuration
  <2> QED
    BY <1>3, <2>1 DEF configure_display, HealInv, bookkeeping
<1>4. CASE request_throws
  BY <1>4 DEF request_throws, HealInv, bookkeeping, mir
<1>5. CASE start_compositor
  BY <1>5 DEF start_compositor, starts_for, after_start, has_active_outputs, HealInv,
              bookkeeping
<1>6. CASE report_request
  BY <1>6 DEF report_request, configuration_applied, has_active_outputs, HealInv, mir
<1>7. CASE request_done
  BY <1>7 DEF request_done, all_called, has_active_outputs, HealInv, mir
<1>8. CASE Registering
  BY <1>8 DEF Registering, register_active_outputs_handler,
              unregister_active_outputs_handler, call_handler, has_active_outputs, HealInv, mir
<1>9. ASSUME NEW connected \in SUBSET Output, hardware_change(connected)
      PROVE  (LockInv /\ RequestInv /\ ReportInv)'
  BY <1>9 DEF hardware_change, HealInv, bookkeeping
<1>10. ASSUME NEW c \in report, mir_reports(c)
       PROVE  (LockInv /\ RequestInv /\ ReportInv)'
  BY <1>10 DEF mir_reports, configuration_applied, has_active_outputs, HealInv, mir
<1>11. CASE mir_report_done
  BY <1>11 DEF mir_report_done, all_called, has_active_outputs, HealInv, mir
<1>12. CASE UNCHANGED vars
  BY <1>12 DEF vars, HealInv, bookkeeping, mir, has_active_outputs
<1> QED
  BY <1>1, <1>2, <1>3, <1>4, <1>5, <1>6, <1>7, <1>8, <1>9, <1>10, <1>11, <1>12
  DEF Next, Requesting, Mir

\* HealInv says both properties of a screen that is quiet.
LEMMA HealImplies == HealInv => ActiveOutputsComposited /\ CountsMatchDisplay
BY DEF HealInv, ReportInv, ActiveOutputsComposited, CountsMatchDisplay, Quiet

\* Whatever failed or overlapped before, the last request or change, if it did
\* neither, leaves no output dark that is on: set_power_mode() starts the
\* compositor again for the configuration it has applied.
THEOREM ScreenComposited == Spec => []ActiveOutputsComposited
<1>1. Init => HealInv
  BY HealInit, TypeInit, NoneActiveType DEF Init
<1> QED
  BY <1>1, HealStep, HealImplies, PTL DEF Spec

\* It also leaves the counts those of the display.
THEOREM ScreenCounted == Spec => []CountsMatchDisplay
<1>1. Init => HealInv
  BY HealInit, TypeInit, NoneActiveType DEF Init
<1> QED
  BY <1>1, HealStep, HealImplies, PTL DEF Spec

-----------------------------------------------------------------------------
\* The service, with the screen it is registered with

\* The service has part in the screen as MirScreen describes it.
LEMMA ScreenMoves == [ServiceNext]_all_vars => [Next]_vars
<1> SUFFICES ASSUME [ServiceNext]_all_vars
             PROVE  [Next]_vars
  OBVIOUS
<1> USE DEF Next, Requesting, Registering, Mir
<1>1. CASE construct
  BY <1>1, ServiceAssumption DEF construct
<1>2. CASE destroy
  BY <1>2, ServiceAssumption DEF destroy
<1>3. CASE turn
  <2>1. \A filter_str \in FilterArgument : output_filter_from_string(filter_str) \in OutputFilter
    BY DEF FilterArgument, output_filter_from_string, OutputFilter
  <2> QED
    BY <1>3, <2>1 DEF turn
<1>4. CASE set_power_mode_step
  BY <1>4 DEF set_power_mode_step
<1>5. CASE notify \/ notify_others
  BY <1>5, ServiceAssumption DEF notify, notify_others
<1>6. CASE hot_plug \/ mir_thread_reports
  BY <1>6 DEF hot_plug, mir_thread_reports
<1>7. CASE start_thread \/ swap_actions \/ perform_action \/ serve \/ end_turn \/ join
           \/ UNCHANGED all_vars
  BY <1>7 DEF start_thread, swap_actions, perform_action, serve, end_turn, join, all_vars
<1> QED
  BY <1>1, <1>2, <1>3, <1>4, <1>5, <1>6, <1>7 DEF ServiceNext, LoopThread

\* In the beginning the other handlers are registered and were told the counts.
LEMMA ServiceInitScreen == ServiceInit => LoopInv /\ TypeOK /\ HealInv
<1> SUFFICES ASSUME ServiceInit
             PROVE  LoopInv /\ TypeOK /\ HealInv
  OBVIOUS
<1>1. active_outputs \in Counts
  BY CountsType, NoneActiveType DEF ServiceInit, ScreenInit
<1>2. TypeOK
  BY <1>1, TypeInit, NoneActiveType DEF ServiceInit
<1>3. LoopInv
  BY DEF ServiceInit, ScreenInit, LoopInv
<1> QED
  BY <1>2, <1>3, HealInit DEF ServiceInit

\* The screen's invariants hold in the composition.
LEMMA ScreenInvariants == ServiceSpec => [](LoopInv /\ TypeOK /\ HealInv)
<1>1. LoopInv /\ TypeOK /\ HealInv /\ [ServiceNext]_all_vars => (LoopInv /\ TypeOK /\ HealInv)'
  BY ScreenMoves, LoopStep, TypeStep, HealStep
<1> QED
  BY <1>1, ServiceInitScreen, PTL DEF ServiceSpec

\* The switcher's handler and the service's were last called with the screen's
\* counts, while both are registered and after one of them has gone.
THEOREM BothInformed == ServiceSpec => []HandlersAgree
<1>1. LoopInv => HandlersAgree
  BY DEF LoopInv, HandlersAgree
<1> QED
  BY <1>1, ScreenInvariants, PTL

\* The destroyed service is not called by a loop over the handlers.
THEOREM GoneNotCalled == ServiceSpec => []CallsOnlyRegistered
<1>1. LoopInv => CallsOnlyRegistered
  BY DEF LoopInv, CallsOnlyRegistered
<1> QED
  BY <1>1, ScreenInvariants, PTL

\* TurnOn and TurnOff of clients and Mir's changes leave the display
\* composited and counted, as they do without the service.
THEOREM ServedScreenHeals == ServiceSpec => [](ActiveOutputsComposited /\ CountsMatchDisplay)
BY HealImplies, ScreenInvariants, PTL

-----------------------------------------------------------------------------
\* What the clients will be told when the actions that wait are performed
latest == IF pending = << >> THEN published ELSE Last(pending)

\* The service has a handler exactly while it lives.  Its queue ends with the
\* screen's counts, but for a report that has not reached its handler yet.  The
\* batch is empty when a new one is swapped in.
QueueInv ==
    /\ actions \in Seq(Counts)
    /\ batch \in Seq(Counts)
    /\ batch # << >> => loop = "perform"
    /\ service = "alive" <=> Service \in handlers
    /\ service = "alive" /\ Service \notin to_call => active_outputs = latest

\* Appending counts makes them the latest, whatever waits in front of them.
LEMMA LatestOfAppend ==
    ASSUME NEW b \in Seq(Counts), NEW a \in Seq(Counts), NEW c \in Counts
    PROVE  b \o Append(a, c) # << >> /\ Last(b \o Append(a, c)) = c
BY DEF Last

\* Performing an action leaves the latest what it is.
LEMMA LatestOfTail ==
    ASSUME NEW b \in Seq(Counts), NEW a \in Seq(Counts), b # << >>
    PROVE  Last(b \o a) = IF Tail(b) \o a = << >> THEN Head(b) ELSE Last(Tail(b) \o a)
<1>l. /\ Len(b) \in Nat /\ Len(a) \in Nat /\ Len(b) > 0
      /\ Len(b \o a) = Len(b) + Len(a) /\ Len(Tail(b)) = Len(b) - 1
  OBVIOUS
<1>1. CASE Tail(b) = << >> /\ a = << >>
  <2>1. Len(Tail(b)) = 0 /\ Len(a) = 0
    BY <1>1
  <2>2. Len(b) = 1
    <3> DEFINE n == Len(b)  m == Len(Tail(b))
    <3>1. n \in Nat /\ m = n - 1 /\ m = 0
      BY <1>l, <2>1
    <3> HIDE DEF n, m
    <3>2. n = 1
      BY <3>1
    <3> QED
      BY <3>2 DEF n
  <2>3. Len(b \o a) = 1
    BY <1>l, <2>1, <2>2
  <2>4. (b \o a)[1] = b[1]
    BY <1>l
  <2>5. Head(b) = b[1]
    OBVIOUS
  <2>6. Tail(b) \o a = << >>
    BY <1>1
  <2> QED
    BY <2>3, <2>4, <2>5, <2>6 DEF Last
<1>2. CASE ~ (Tail(b) = << >> /\ a = << >>)
  <2>1. Len(Tail(b) \o a) = Len(b \o a) - 1 /\ Len(Tail(b) \o a) > 0
    BY <1>2
  <2>2. (b \o a)[Len(b \o a)] = (Tail(b) \o a)[Len(b \o a) - 1]
    BY <1>l, <2>1
  <2>3. Tail(b) \o a # << >>
    <3> DEFINE rest == Tail(b) \o a
    <3>1. rest \in Seq(Counts) /\ Len(rest) > 0
      BY <2>1
    <3> HIDE DEF rest
    <3>2. rest # << >>
      BY <3>1
    <3> QED
      BY <3>2 DEF rest
  <2> QED
    BY <2>1, <2>2, <2>3 DEF Last
<1> QED
  BY <1>1, <1>2

\* Every step keeps QueueInv: the handler enqueues what the screen tells it
\* behind everything older, and the loop performs from the other end.
LEMMA QueueStep ==
    LoopInv /\ TypeOK /\ QueueInv /\ [ServiceNext]_all_vars => QueueInv'
<1> SUFFICES ASSUME LoopInv, TypeOK, QueueInv, [ServiceNext]_all_vars
             PROVE  QueueInv'
  OBVIOUS
<1> USE DEF QueueInv, LoopInv
<1>t. active_outputs \in Counts /\ handlers \subseteq Owner /\ Service \in Owner
  BY ServiceAssumption DEF TypeOK
<1>1. CASE construct
  <2>1. actions' = Append(actions, active_outputs) /\ batch' = batch
    BY <1>1 DEF construct, enqueued
  <2> QED
    BY <1>1, <1>t, <2>1, LatestOfAppend
    DEF construct, register_active_outputs_handler, latest, pending
<1>2. CASE destroy
  BY <1>2 DEF destroy, unregister_active_outputs_handler
<1>3. CASE swap_actions
  <2>1. batch = << >> /\ pending' = pending
    BY <1>3 DEF swap_actions, pending
  <2> QED
    BY <1>3, <2>1 DEF swap_actions, latest, vars, bookkeeping
<1>4. CASE perform_action
  <2>1. latest' = latest
    BY <1>4, LatestOfTail DEF perform_action, latest, pending
  <2> QED
    BY <1>4, <2>1 DEF perform_action, vars, bookkeeping
<1>5. CASE notify
  <2>1. actions' = Append(actions, active_outputs) /\ batch' = batch
    BY <1>5 DEF notify, enqueued
  <2> QED
    BY <1>5, <1>t, <2>1, LatestOfAppend DEF notify, call_handler, latest, pending
<1>6. CASE notify_others
  BY <1>6 DEF notify_others, call_handler, service_vars, latest, pending
<1>7. CASE start_thread \/ serve \/ end_turn \/ join \/ UNCHANGED all_vars
  BY <1>7 DEF start_thread, serve, end_turn, join, all_vars, service_vars, vars,
              bookkeeping, latest, pending
<1>8. CASE turn
  BY <1>8 DEF turn, set_power_mode, service_vars, bookkeeping, latest, pending
<1>9. CASE set_power_mode_step
  BY <1>9 DEF set_power_mode_step, stop_compositor, configure_display, request_throws,
              start_compositor, report_request, request_done, configuration_applied,
              all_called, service_vars, bookkeeping, latest, pending
<1>10. CASE hot_plug
  BY <1>10 DEF hot_plug, hardware_change, service_vars, bookkeeping, latest, pending
<1>11. CASE mir_thread_reports
  BY <1>11 DEF mir_thread_reports, mir_reports, mir_report_done, configuration_applied,
               all_called, service_vars, latest, pending
<1> QED
  BY <1>1, <1>2, <1>3, <1>4, <1>5, <1>6, <1>7, <1>8, <1>9, <1>10, <1>11
  DEF ServiceNext, LoopThread

\* What clients will be told last is what the screen reported last: the order
\* of the reports under the screen's mutex is the order of the queue.
THEOREM LastWordKept == ServiceSpec => []LastWord
<1>1. ServiceInit => QueueInv
  BY DEF ServiceInit, QueueInv
<1>2. LoopInv /\ QueueInv => LastWord
  BY DEF LoopInv, QueueInv, LastWord, latest
<1> QED
  BY <1>1, <1>2, QueueStep, ScreenInvariants, PTL DEF ServiceSpec
=============================================================================
