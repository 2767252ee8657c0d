------------------------------ MODULE MirScreen ------------------------------
(***************************************************************************)
(* usc::MirScreen turns outputs on and off on request, and tells the       *)
(* registered handlers how many outputs are active.                        *)
(*                                                                         *)
(* Two threads use it.  The D-Bus loop thread calls turn_on and turn_off,  *)
(* whose set_power_mode() takes no lock: it reads the configuration of     *)
(* mir::graphics::Display, changes its copy, stops the compositor,         *)
(* configures the display, starts the compositor again and reports.  Mir   *)
(* changes the configuration when an output is plugged or unplugged, and   *)
(* then calls configuration_applied().  Only the bookkeeping of active     *)
(* outputs and handlers is under a mutex, which is held while the handlers *)
(* are called one after the other.                                         *)
(***************************************************************************)
EXTENDS Integers, FiniteSets

CONSTANTS
    Output,
    External,           \* the outputs with is_external(type)
    Owner,              \* owners of active outputs handlers
    DisplayConfig       \* values of the option display-config

ASSUME ScreenAssumption ==
    /\ IsFiniteSet(Output)
    /\ External \subseteq Output

VARIABLES
    \* members of MirScreen
    active_outputs,     \* [internal, external]
    handlers,           \* owners with a registered handler
    told,               \* what each owner's handler was last called with
    lock,               \* the thread that holds active_outputs_mutex, or "free"
    to_call,            \* the handlers the loop under the lock has still to call
    \* Mir
    layout,             \* the value of display-config
    display,            \* the configuration of the display
    compositing,        \* the compositor is started
    \* local state of the two threads
    request,            \* where set_power_mode() is
    displayConfig,      \* its copy of the configuration
    report,             \* configurations Mir has applied and not yet reported
    disturbed           \* history: the last request failed, or the last change of
                        \* the hardware or request overlapped with one of the other

bookkeeping == <<active_outputs, handlers, told, lock, to_call>>
mir == <<layout, display, compositing>>
vars == <<bookkeeping, mir, request, displayConfig, report, disturbed>>

Configuration == [Output -> [connected : BOOLEAN, used : BOOLEAN, on : BOOLEAN]]
Counts == [internal : 0 .. Cardinality(Output \ External),
           external : 0 .. Cardinality(External)]
RequestAt == {"idle", "stop", "configure", "start", "report", "reporting"}

TypeOK ==
    /\ active_outputs \in Counts
    /\ handlers \subseteq Owner
    /\ told \in [Owner -> Counts]
    /\ lock \in {"free", "dbus", "mir"}
    /\ to_call \subseteq Owner
    /\ layout \in DisplayConfig
    /\ display \in Configuration
    /\ compositing \in BOOLEAN
    /\ request \in RequestAt
    /\ displayConfig \in Configuration
    /\ report \subseteq Configuration
    /\ disturbed \in BOOLEAN

-----------------------------------------------------------------------------
is_active(c, o) == c[o].connected /\ c[o].used /\ c[o].on

count_without_else(c) ==
    [internal |-> Cardinality({o \in Output : is_active(c, o)}),
     external |-> Cardinality({o \in External : is_active(c, o)})]
count_active_outputs(c) ==
    [internal |-> Cardinality({o \in Output \ External : is_active(c, o)}),
     external |-> Cardinality({o \in External : is_active(c, o)})]

none_active == [internal |-> 0, external |-> 0]

has_active_outputs(c) ==
    count_active_outputs(c).internal + count_active_outputs(c).external > 0

\* The outputs a filter lets through.
filtered(filter) ==
    CASE filter = "internal" -> Output \ External
      [] filter = "external" -> External
      [] OTHER -> Output

OutputFilter == {"all", "internal", "external"}

one_of(connected) == {o \in connected : o = CHOOSE c \in connected : TRUE}

\* add_display_configuration_options_to(): "single" selects Mir's policy that
\* uses one output; "sidebyside" and any other value one that uses all.
used_of(connected) == IF layout = "single" THEN one_of(connected) ELSE connected

\* The configuration Mir's policy makes of the outputs that are connected.
policy(connected) ==
    [o \in Output |->
        [connected |-> o \in connected,
         used |-> o \in used_of(connected),
         on |-> o \in used_of(connected)]]

\* The constructor starts the compositor, and counts what is active already.
\* It ignores a configuration that is not ready; Mir then calls
\* initial_configuration() later.
ScreenInit ==
    /\ layout \in DisplayConfig
    /\ \E connected \in SUBSET Output : display = policy(connected)
    /\ \/ active_outputs = count_active_outputs(display) /\ report = {}
       \/ active_outputs = none_active /\ report = {display}
    /\ lock = "free"
    /\ to_call = {}
    /\ compositing = TRUE
    /\ request = "idle"
    /\ displayConfig = display
    /\ disturbed = FALSE

Init ==
    /\ ScreenInit
    /\ handlers = {}
    /\ told = [h \in Owner |-> none_active]

-----------------------------------------------------------------------------
\* Calls that take active_outputs_mutex.

register_without_call(h) == told
told_at_register(h) == [told EXCEPT ![h] = active_outputs]

register_active_outputs_handler(h) ==
    /\ lock = "free"
    /\ handlers' = handlers \cup {h}
    /\ told' = told_at_register(h)
    /\ UNCHANGED <<active_outputs, lock, to_call, mir, request, displayConfig, report,
                   disturbed>>

unregister_without_lock == TRUE
may_unregister == lock = "free"

unregister_active_outputs_handler(h) ==
    /\ may_unregister
    /\ handlers' = handlers \ {h}
    /\ UNCHANGED <<active_outputs, told, lock, to_call, mir, request, displayConfig,
                   report, disturbed>>

\* configuration_applied() and initial_configuration() in thread t
configuration_applied(t, c) ==
    /\ lock = "free"
    /\ lock' = t
    /\ active_outputs' = count_active_outputs(c)
    /\ to_call' = handlers
    /\ UNCHANGED <<handlers, told>>

call_handler(h) ==
    /\ h \in to_call
    /\ told' = [told EXCEPT ![h] = active_outputs]
    /\ to_call' = to_call \ {h}
    /\ UNCHANGED <<active_outputs, handlers, lock, mir, request, displayConfig, report,
                   disturbed>>

all_called(t) ==
    /\ lock = t
    /\ to_call = {}
    /\ lock' = "free"
    /\ UNCHANGED <<active_outputs, handlers, told, to_call>>

-----------------------------------------------------------------------------
\* set_power_mode(), in the thread of the D-Bus loop.

with_power_mode(c, on, filter) ==
    [o \in Output |->
        IF c[o].connected /\ c[o].used /\ o \in filtered(filter)
        THEN [c[o] EXCEPT !.on = on]
        ELSE c[o]]

\* turn_on and turn_off: display->configuration(), and the change of the copy
set_power_mode(on, filter) ==
    /\ request = "idle"
    /\ displayConfig' = with_power_mode(display, on, filter)
    /\ request' = "stop"
    /\ disturbed' = (report # {})
    /\ UNCHANGED <<bookkeeping, mir, report>>

stop_compositor ==
    /\ request = "stop"
    /\ compositing' = FALSE
    /\ request' = "configure"
    /\ UNCHANGED <<bookkeeping, layout, display, displayConfig, report, disturbed>>

\* Whether an output is connected is not the configuration's to say.
configured(c) == [o \in Output |-> [c[o] EXCEPT !.connected = display[o].connected]]

configure_display ==
    /\ request = "configure"
    /\ display' = configured(displayConfig)
    /\ request' = "start"
    /\ UNCHANGED <<bookkeeping, layout, compositing, displayConfig, report, disturbed>>

\* An exception of a call that stops or starts the compositor or configures the
\* display is logged, and nothing else of set_power_mode() is done.  The call may
\* have had its effect or not.  (An exception of display->configuration() comes
\* before anything has changed.)
request_throws ==
    /\ \/ /\ request = "stop"
          /\ compositing' \in {compositing, FALSE}
          /\ UNCHANGED display
       \/ /\ request = "configure"
          /\ display' \in {display, configured(displayConfig)}
          /\ UNCHANGED compositing
       \/ /\ request = "start" /\ has_active_outputs(displayConfig)
          /\ compositing' \in {compositing, TRUE}
          /\ UNCHANGED display
    /\ request' = "idle"
    /\ disturbed' = TRUE
    /\ UNCHANGED <<bookkeeping, layout, displayConfig, report>>

starts_only_for_internal(c) == count_active_outputs(c).internal > 0
starts_for(c) == has_active_outputs(c)

report_only_if_started(c) == IF has_active_outputs(c) THEN "report" ELSE "idle"
after_start(c) == "report"

start_compositor ==
    /\ request = "start"
    /\ compositing' = (compositing \/ starts_for(displayConfig))
    /\ request' = after_start(displayConfig)
    /\ UNCHANGED <<bookkeeping, layout, display, displayConfig, report, disturbed>>

report_request ==
    /\ request = "report"
    /\ configuration_applied("dbus", displayConfig)
    /\ request' = "reporting"
    /\ UNCHANGED <<mir, displayConfig, report, disturbed>>

request_done ==
    /\ request = "reporting"
    /\ all_called("dbus")
    /\ request' = "idle"
    /\ UNCHANGED <<mir, displayConfig, report, disturbed>>

-----------------------------------------------------------------------------
\* Mir's display thread.  Around a change of the hardware Mir stops and starts
\* the compositor, which leaves it started; the observers are told afterwards,
\* by the one thread that applies such changes.

hardware_change(connected) ==
    /\ report = {}
    /\ display' = policy(connected)
    /\ compositing' = TRUE
    /\ report' = {display'}
    /\ disturbed' = (request # "idle")
    /\ UNCHANGED <<bookkeeping, layout, request, displayConfig>>

mir_reports(c) ==
    /\ configuration_applied("mir", c)
    /\ UNCHANGED <<mir, request, displayConfig, report, disturbed>>

mir_report_done ==
    /\ all_called("mir")
    /\ report' = {}
    /\ UNCHANGED <<mir, request, displayConfig, disturbed>>

-----------------------------------------------------------------------------
Requesting ==
    \/ \E on \in BOOLEAN, filter \in OutputFilter : set_power_mode(on, filter)
    \/ stop_compositor
    \/ configure_display
    \/ request_throws
    \/ start_compositor
    \/ report_request
    \/ request_done

Registering ==
    \E h \in Owner :
        \/ register_active_outputs_handler(h)
        \/ unregister_active_outputs_handler(h)
        \/ call_handler(h)

Mir ==
    \/ \E connected \in SUBSET Output : hardware_change(connected)
    \/ \E c \in report : mir_reports(c)
    \/ mir_report_done

Next == Requesting \/ Registering \/ Mir

Spec == Init /\ [][Next]_vars

-----------------------------------------------------------------------------
Quiet == request = "idle" /\ report = {}

\* With the mutex free every handler, whenever it was registered and whichever
\* thread reported last, was last called with the counts: no report of one
\* thread is overtaken by a report of the other, or by a registration.
HandlersAgree == lock = "free" => \A h \in handlers : told[h] = active_outputs

\* What register_active_outputs_handler() holds the mutex for: after
\* unregister_active_outputs_handler() returns the handler is not called, and
\* the map of handlers does not change under the loop over it.
CallsOnlyRegistered == to_call \subseteq handlers

\* A request that succeeds and hot-plugging that falls between requests leave
\* every active output composited, whatever failed or overlapped before: the
\* display never stays dark behind outputs that are on.  (A request that fails
\* may leave the compositor stopped.  One that overlaps with a change may decide
\* from its old copy not to start the compositor again, after it has stopped
\* the one that Mir started.  The next request or change repairs both.)
ActiveOutputsComposited ==
    Quiet /\ ~ disturbed /\ has_active_outputs(display) => compositing

\* They also leave the counts those of the display.  (A request that overlaps
\* with a change may report its old copy last; the next one corrects it.)
CountsMatchDisplay ==
    Quiet /\ ~ disturbed => active_outputs = count_active_outputs(display)
=============================================================================
