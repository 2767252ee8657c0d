---------------------------- MODULE DisplayService ----------------------------
(***************************************************************************)
(* usc::UnityDisplayService publishes over D-Bus how many outputs are      *)
(* active, and forwards TurnOn and TurnOff to the screen.                  *)
(*                                                                         *)
(* Its state is touched by the thread of the D-Bus loop only: the handler  *)
(* it registers with the screen, which any thread may call, enqueues an    *)
(* action with the counts.  The loop performs the actions of a turn and    *)
(* then serves messages; a TurnOff that it serves runs set_power_mode() in *)
(* the same thread, and enqueues an action for a later turn.               *)
(*                                                                         *)
(* The service is composed with MirScreen, and with the event loop as      *)
(* ActionQueue promises it.  It is created in Mir's init callback before   *)
(* the thread of the loop is, and destroyed when that has been joined.     *)
(* The switcher's handler is registered with the same screen from before   *)
(* the service is created until after it is destroyed.                     *)
(***************************************************************************)
EXTENDS MirScreen, SequencesExt

CONSTANTS
    Service,        \* the UnityDisplayService as an owner of a handler
    MaxPending      \* bound on the actions that are enqueued

ASSUME ServiceAssumption ==
    /\ Service \in Owner
    /\ MaxPending \in Nat

VARIABLES
    service,        \* "none", "alive", "destroyed"
    loop,           \* the thread of the D-Bus loop
    actions,        \* enqueued: each the counts it captured
    batch,          \* the actions of this turn that are still to be performed
    published       \* the service's active_outputs: what Get returns and what
                    \* the last PropertiesChanged signal said

service_vars == <<service, loop, actions, batch, published>>
all_vars == <<vars, service_vars>>

LoopAt == {"not_started", "wait", "perform", "serve", "joined"}

pending == batch \o actions

ServiceTypeOK ==
    /\ TypeOK
    /\ service \in {"none", "alive", "destroyed"}
    /\ loop \in LoopAt
    /\ actions \in Seq(Counts)
    /\ batch \in Seq(Counts)
    /\ published \in Counts
    /\ request # "idle" => loop = "serve"
    /\ batch # << >> => loop = "perform"

\* the_screen() has registered the switcher's handler when it returns.
ServiceInit ==
    /\ ScreenInit
    /\ handlers = Owner \ {Service}
    /\ told = [h \in Owner |-> IF h = Service THEN none_active ELSE active_outputs]
    /\ service = "none"
    /\ loop = "not_started"
    /\ actions = << >>
    /\ batch = << >>
    /\ published = none_active

-----------------------------------------------------------------------------
\* Creation and destruction

enqueued_if_none_is(counts) ==
    IF actions = << >> THEN <<counts>> ELSE actions
enqueued_in_front(counts) == <<counts>> \o actions
\* the handler the service registers
enqueued(counts) == Append(actions, counts)

\* Registering calls the handler at once.
construct ==
    /\ service = "none"
    /\ register_active_outputs_handler(Service)
    /\ service' = "alive"
    /\ actions' = enqueued(active_outputs)
    /\ UNCHANGED <<loop, batch, published>>

\* the_dbus_connection_thread(), the last step of the init callback
start_thread ==
    /\ service = "alive"
    /\ loop = "not_started"
    /\ loop' = "wait"
    /\ UNCHANGED <<vars, service, actions, batch, published>>

\* Members are destroyed in the reverse order of their declaration, so that the
\* thread is gone when the service goes; or the thread was never created,
\* because the init callback threw.
may_destroy == loop \in {"not_started", "joined"}

destroy ==
    /\ service = "alive"
    /\ may_destroy
    /\ unregister_active_outputs_handler(Service)
    /\ service' = "destroyed"
    /\ UNCHANGED <<loop, actions, batch, published>>

-----------------------------------------------------------------------------
\* A turn of the loop

swap_actions ==
    /\ loop = "wait"
    /\ loop' = "perform"
    /\ batch' = actions
    /\ actions' = << >>
    /\ UNCHANGED <<vars, service, published>>

\* active_outputs = active_outputs_arg; dbus_emit_ActiveOutputs()
perform_action ==
    /\ loop = "perform"
    /\ batch # << >>
    /\ published' = Head(batch)
    /\ batch' = Tail(batch)
    /\ UNCHANGED <<vars, service, loop, actions>>

serve ==
    /\ loop = "perform"
    /\ batch = << >>
    /\ loop' = "serve"
    /\ UNCHANGED <<vars, service, actions, batch, published>>

\* What a client passes to TurnOn and TurnOff; "missing" stands for a call
\* with bad arguments, which is done for all outputs.
FilterArgument == {"internal", "external", "all", "unknown", "missing"}

output_filter_from_string(filter_str) ==
    IF filter_str \in {"internal", "external"} THEN filter_str ELSE "all"

\* dbus_TurnOn and dbus_TurnOff
turn ==
    /\ loop = "serve"
    /\ Len(pending) < MaxPending
    /\ \E on \in BOOLEAN, filter_str \in FilterArgument :
          set_power_mode(on, output_filter_from_string(filter_str))
    /\ UNCHANGED service_vars

set_power_mode_step ==
    /\ \/ stop_compositor
       \/ configure_display
       \/ request_throws
       \/ start_compositor
       \/ report_request
       \/ request_done
    /\ UNCHANGED service_vars

end_turn ==
    /\ loop = "serve"
    /\ request = "idle"
    /\ loop' = "wait"
    /\ UNCHANGED <<vars, service, actions, batch, published>>

\* ~DBusConnectionThread has returned.
join ==
    /\ loop = "wait"
    /\ loop' = "joined"
    /\ UNCHANGED <<vars, service, actions, batch, published>>

-----------------------------------------------------------------------------
\* The screen, in the loop's thread or in Mir's, calls the handler.
notify ==
    /\ call_handler(Service)
    /\ actions' = enqueued(active_outputs)
    /\ UNCHANGED <<service, loop, batch, published>>

notify_others ==
    /\ \E h \in Owner \ {Service} : call_handler(h)
    /\ UNCHANGED service_vars

hot_plug ==
    /\ Len(pending) < MaxPending
    /\ \E connected \in SUBSET Output : hardware_change(connected)
    /\ UNCHANGED service_vars

mir_thread_reports ==
    /\ \/ \E c \in report : mir_reports(c)
       \/ mir_report_done
    /\ UNCHANGED service_vars

-----------------------------------------------------------------------------
LoopThread ==
    \/ swap_actions
    \/ perform_action
    \/ serve
    \/ set_power_mode_step

ServiceNext ==
    \/ construct
    \/ start_thread
    \/ destroy
    \/ LoopThread
    \/ turn
    \/ end_turn
    \/ join
    \/ notify
    \/ notify_others
    \/ hot_plug
    \/ mir_thread_reports

\* The threads that can run are scheduled, and one that waits for the screen's
\* mutex, which is free again and again, gets it.  The init callback goes on.
\* The loop is not served messages for ever.
ServiceFairness ==
    /\ WF_all_vars(LoopThread)
    /\ SF_all_vars(report_request /\ UNCHANGED service_vars)
    /\ SF_all_vars(mir_thread_reports)
    /\ WF_all_vars(notify \/ notify_others)
    /\ SF_all_vars(end_turn)
    /\ WF_all_vars(start_thread)

ServiceSpec == ServiceInit /\ [][ServiceNext]_all_vars /\ ServiceFairness

-----------------------------------------------------------------------------
\* What clients will be told last is what the screen reported last: no report
\* of Mir's thread is overtaken by one of the loop's, or by the first one that
\* the registration makes, on the way through the queue.
LastWord ==
    service = "alive" /\ lock = "free" =>
        active_outputs = IF pending = << >> THEN published ELSE Last(pending)

\* Counts that stay as they are reach the clients, unless the compositor ends.
Converges ==
    \A c \in Counts :
        service = "alive" /\ active_outputs = c
            ~> \/ published = c
               \/ active_outputs # c
               \/ loop = "joined" \/ service = "destroyed"
=============================================================================
