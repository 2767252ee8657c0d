------------------------------- MODULE Lifetimes -------------------------------
(***************************************************************************)
(* How usc::SystemCompositor creates the components through the factories  *)
(* of usc::Server, and how they are destroyed.                             *)
(*                                                                         *)
(* A component is shared by those that use it.  A factory returns the one  *)
(* that is in use, of which the server keeps a weak reference (CachedPtr), *)
(* and creates a new one if there is none.  A component is destroyed when  *)
(* the last user lets it go.                                               *)
(*                                                                         *)
(* Next to the shared pointers there are plain ones, in callbacks: the     *)
(* handlers registered with the screen, the filters and watch functions of *)
(* D-Bus connections, the actions enqueued with the loop, the observer of  *)
(* Mir's device hub.  Nothing but the order of destruction, and what some  *)
(* destructors unregister, keeps them from being called too late.          *)
(***************************************************************************)
EXTENDS Naturals, Sequences

VARIABLES
    phase,          \* of SystemCompositor::run
    held,           \* by the members of SystemCompositor, or by Mir
    temporary,      \* held while a factory is at work
    alive,
    created,        \* history: how many there have been of each component
    \* plain pointers
    handlers,       \* owners of handlers that the screen calls
    connections,    \* of the services; the loop shares them
    watched,        \* connections whose watch functions lead to the loop
    filters,        \* services that the filters of their connections lead to
    queued,         \* an action that leads to the display service is enqueued
    observing       \* the observer that leads to the input configuration

vars == <<phase, held, temporary, alive, created, handlers, connections,
          watched, filters, queued, observing>>

Component ==
    {"spinner", "session_switcher", "window_manager", "dm_connection",
     "input_configuration", "screen", "screen_event_handler",
     "power_button_event_sink", "user_activity_event_sink", "clock",
     "dbus_event_loop", "dbus_connection_thread",
     "unity_display_service", "unity_input_service"}

Service == {"unity_display_service", "unity_input_service"}

\* "init": in Mir's init callback; "running": Mir's threads are; "returned":
\* server->run() has returned or thrown; the members are being destroyed.
TypeOK ==
    /\ phase \in {"construct", "init", "running", "returned"}
    /\ held \subseteq alive
    /\ temporary \subseteq alive
    /\ alive \subseteq Component
    /\ created \in [Component -> Nat]
    /\ handlers \subseteq {"session_switcher", "unity_display_service"}
    /\ connections \subseteq Service
    /\ watched \subseteq connections
    /\ filters \subseteq connections
    /\ queued \in BOOLEAN
    /\ observing \in BOOLEAN
    /\ handlers # {} => "screen" \in alive
    /\ queued => "dbus_event_loop" \in alive

Init ==
    /\ phase = "construct"
    /\ held = {} /\ temporary = {} /\ alive = {}
    /\ created = [c \in Component |-> 0]
    /\ handlers = {} /\ connections = {} /\ watched = {} /\ filters = {}
    /\ queued = FALSE
    /\ observing = FALSE

-----------------------------------------------------------------------------
\* What the factories pass to the constructors, which keep it: <<user, used>>.

window_manager_side == {<<"window_manager", "session_switcher">>}

display_manager_side ==
    {<<"session_switcher", "spinner">>,
     <<"dm_connection", "session_switcher">>}

event_side ==
    {<<"screen_event_handler", "power_button_event_sink">>,
     <<"screen_event_handler", "user_activity_event_sink">>,
     <<"screen_event_handler", "clock">>}

dbus_side ==
    {<<"dbus_connection_thread", "dbus_event_loop">>,
     <<"unity_display_service", "dbus_event_loop">>,
     <<"unity_display_service", "screen">>,
     <<"unity_input_service", "dbus_event_loop">>,
     <<"unity_input_service", "input_configuration">>}

uses(c) == {d \in Component : <<c, d>> \in
                window_manager_side \cup display_manager_side
                \cup event_side \cup dbus_side}

\* the_screen() asks for the switcher too, for set_screen(); the switcher keeps
\* a weak reference only.
asks_for(c) == uses(c) \cup (IF c = "screen" THEN {"session_switcher"} ELSE {})

\* What the init callback keeps in members, in this order.  The spinner is
\* created by the constructor and the window manager by Mir.
init_callback ==
    <<"dm_connection", "screen", "unity_display_service",
      "screen_event_handler", "unity_input_service", "dbus_connection_thread">>

members_the_other_way_round ==
    <<"dbus_connection_thread", "unity_input_service", "unity_display_service",
      "screen_event_handler", "screen", "spinner", "dm_connection">>
\* The members, in the order of their declaration
members ==
    <<"dm_connection", "spinner", "screen", "screen_event_handler",
      "unity_display_service", "unity_input_service", "dbus_connection_thread">>

-----------------------------------------------------------------------------
\* Creation

\* The component the caller of a factory waits for: the next one of its phase.
wanted ==
    CASE phase = "construct" ->
            IF "spinner" \notin held THEN {"spinner"} ELSE {"window_manager"} \ held
      [] phase = "init" ->
            {init_callback[i] : i \in
                {j \in DOMAIN init_callback :
                    /\ init_callback[j] \notin held
                    /\ \A k \in 1 .. j - 1 : init_callback[k] \in held}}
      [] OTHER -> {}

\* A factory that creates a component calls other factories first; the calls
\* nest at most three deep.
asked_by(cs) == cs \cup UNION {asks_for(c) : c \in cs \ alive}
demanded == asked_by(asked_by(asked_by(wanted)))

has_returned == demanded \subseteq alive

\* What the constructor does beyond keeping its arguments.
constructed(c) ==
    /\ handlers' = handlers \cup
          (IF c = "screen" THEN {"session_switcher"}        \* set_screen()
           ELSE {c} \cap {"unity_display_service"})
    /\ connections' = connections \cup ({c} \cap Service)   \* add_connection()
    /\ watched' = watched \cup ({c} \cap Service)
    /\ filters' = filters \cup ({c} \cap Service)
    /\ queued' = (queued \/ c = "unity_display_service")
    /\ observing' = (observing \/ c = "input_configuration")

create(c) ==
    /\ c \in demanded \ alive
    /\ uses(c) \subseteq alive
    /\ alive' = alive \cup {c}
    /\ temporary' = temporary \cup {c}
    /\ created' = [created EXCEPT ![c] = @ + 1]
    /\ constructed(c)
    /\ UNCHANGED <<phase, held>>

\* The name of the service is taken: its constructor throws between
\* add_connection() and add_filter(), and the factories with it.
request_name_throws(s) ==
    /\ phase = "init"
    /\ s \in demanded \ alive
    /\ uses(s) \subseteq alive
    /\ connections' = connections \cup {s}
    /\ watched' = watched \cup {s}
    /\ phase' = "returned"
    /\ temporary' = {}
    /\ held' = held \ {"window_manager"}
    /\ UNCHANGED <<alive, created, handlers, filters, queued, observing>>

\* Another constructor, a factory without options to go by, or the blacklist
\* throws.
throws ==
    /\ phase = "init"
    /\ ~ has_returned
    /\ phase' = "returned"
    /\ temporary' = {}
    /\ held' = held \ {"window_manager"}
    /\ UNCHANGED <<alive, created, handlers, connections, watched, filters,
                   queued, observing>>

assign ==
    /\ wanted # {}
    /\ has_returned
    /\ held' = held \cup wanted
    /\ temporary' = {}
    /\ UNCHANGED <<phase, alive, created, handlers, connections, watched,
                   filters, queued, observing>>

next_phase ==
    /\ wanted = {}
    /\ \/ phase = "construct" /\ phase' = "init" /\ UNCHANGED held
       \/ phase = "init" /\ phase' = "running" /\ UNCHANGED held
       \/ /\ phase = "running"
          /\ phase' = "returned"
          /\ held' = held \ {"window_manager"}
    /\ UNCHANGED <<temporary, alive, created, handlers, connections, watched,
                   filters, queued, observing>>

-----------------------------------------------------------------------------
\* The threads

\* Mir's display thread, or the loop's: the display service's handler.
report ==
    /\ \/ phase = "running"
       \/ "dbus_connection_thread" \in alive
    /\ "unity_display_service" \in handlers
    /\ queued' = TRUE
    /\ UNCHANGED <<phase, held, temporary, alive, created, handlers,
                   connections, watched, filters, observing>>

dispatch_actions ==
    /\ "dbus_connection_thread" \in alive
    /\ queued' = FALSE
    /\ UNCHANGED <<phase, held, temporary, alive, created, handlers,
                   connections, watched, filters, observing>>

-----------------------------------------------------------------------------
\* Destruction

weak_in_window_manager(c) == IF c = "window_manager" THEN {} ELSE uses(c)
shared_by_handlers(c) == uses(c) \cup (IF c = "screen" THEN handlers ELSE {})
\* What a component keeps alive: callbacks capture plain pointers.
keeps(c) == uses(c)

unused(c) ==
    /\ c \in alive \ (held \cup temporary)
    /\ \A d \in alive : c \notin keeps(d)

\* The handlers that go with a component: its own, which the destructor
\* unregisters; with the screen, all of them.
unregistered_by(c) == IF c = "screen" THEN handlers ELSE {c}

destroy(c) ==
    /\ unused(c)
    /\ alive' = alive \ {c}
    /\ handlers' = handlers \ unregistered_by(c)
    /\ IF c = "dbus_event_loop"
       THEN \* Its destructor resets the watch functions, then its members go.
            /\ connections' = {} /\ watched' = {} /\ filters' = {}
            /\ queued' = FALSE
       ELSE UNCHANGED <<connections, watched, filters, queued>>
    /\ UNCHANGED <<phase, held, temporary, created, observing>>

\* Members go one by one, each with all that only it used.
destroy_member ==
    /\ phase = "returned"
    /\ \A c \in Component : ~ unused(c)
    /\ \E i \in DOMAIN members :
          /\ members[i] \in held
          /\ \A j \in i + 1 .. Len(members) : members[j] \notin held
          /\ held' = held \ {members[i]}
    /\ UNCHANGED <<phase, temporary, alive, created, handlers, connections,
                   watched, filters, queued, observing>>

destroyed ==
    /\ phase = "returned"
    /\ held = {}
    /\ \A c \in Component : ~ unused(c)

terminated == destroyed /\ UNCHANGED vars

Next ==
    \/ \E c \in Component : create(c) \/ destroy(c)
    \/ \E s \in Service : request_name_throws(s)
    \/ throws
    \/ assign
    \/ next_phase
    \/ report
    \/ dispatch_actions
    \/ destroy_member
    \/ terminated

Spec == Init /\ [][Next]_vars

-----------------------------------------------------------------------------
\* No callback leads to a component that is gone, where there is somebody who
\* may call it: the screen calls its handlers, connections their watch
\* functions, the loop's thread the filters and the actions, and Mir, while it
\* runs, the observer.  Exceptions of factories included.
NoDanglingCallback ==
    /\ handlers \subseteq alive
    /\ watched # {} => "dbus_event_loop" \in alive
    /\ "dbus_connection_thread" \in alive =>
          /\ filters \subseteq alive
          /\ queued => "unity_display_service" \in alive
    /\ phase = "running" /\ observing => "input_configuration" \in alive

\* All users of a component, whenever they ask for it, share one: the switcher
\* of the window manager is that of the display manager and of the screen, and
\* the thread runs the loop that the services wait for.
OneInstance == \A c \in Component : created[c] <= 1

\* Nothing keeps itself alive: when the members are gone everything is.
NothingLeaks == destroyed => alive = {} /\ connections = {}
=============================================================================
