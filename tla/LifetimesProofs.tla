--------------------------- MODULE LifetimesProofs ---------------------------
(***************************************************************************)
(* The order in which the init callback asks for the components, and the   *)
(* order of the members, keep every callback from a component that is      *)
(* gone, whichever constructor throws.  The program has one set of         *)
(* components, so that these theorems say nothing about more of them; they *)
(* say which of their uses and which places in the two orders it rests on. *)
(***************************************************************************)
EXTENDS Lifetimes, TLAPS

\* Components the init callback creates once it has the connection to the
\* display manager
AfterConnection ==
    Component \ {"dm_connection", "session_switcher", "spinner", "window_manager"}

\* A set of components and what they use themselves
with_used(cs) == cs \cup UNION {uses(c) : c \in cs}

\* Nobody uses a component that is gone.
Closed == \A c \in alive : uses(c) \subseteq alive

\* What the order of creation and that of the members guarantee
Founded ==
    /\ alive \cap AfterConnection # {} => "dm_connection" \in held
    /\ "dbus_connection_thread" \in alive \/ phase = "running" => Service \subseteq held

\* Until the members are destroyed every component is in use.
InUse ==
    phase # "returned" =>
        \A c \in alive : c \in held \cup temporary \/ \E d \in alive : c \in uses(d)

\* A factory at work holds only what the component it is to return will use.
Temporaries == temporary \subseteq with_used(with_used(wanted))

Counted ==
    /\ OneInstance
    /\ phase # "returned" => \A c \in Component \ alive : created[c] = 0

Members ==
    /\ held \subseteq {members[i] : i \in DOMAIN members} \cup {"window_manager"}
    /\ phase = "returned" => "window_manager" \notin held

Registrations ==
    /\ connections # {} => "dbus_event_loop" \in alive
    /\ "unity_display_service" \in handlers => "unity_display_service" \in alive

IInv ==
    /\ TypeOK /\ Closed /\ Founded /\ InUse /\ Temporaries /\ Counted /\ Members
    /\ Registrations

-----------------------------------------------------------------------------
\* What each component uses, as a table.
LEMMA UsesTable ==
    /\ uses("window_manager") = {"session_switcher"}
    /\ uses("session_switcher") = {"spinner"}
    /\ uses("dm_connection") = {"session_switcher"}
    /\ uses("screen_event_handler") =
          {"power_button_event_sink", "user_activity_event_sink", "clock"}
    /\ uses("dbus_connection_thread") = {"dbus_event_loop"}
    /\ uses("unity_display_service") = {"dbus_event_loop", "screen"}
    /\ uses("unity_input_service") = {"dbus_event_loop", "input_configuration"}
    /\ \A c \in {"spinner", "screen", "dbus_event_loop", "input_configuration",
                 "power_button_event_sink", "user_activity_event_sink", "clock"} :
          uses(c) = {}
BY DEF uses, Component, window_manager_side, display_manager_side, event_side, dbus_side

\* Nobody uses these.
LEMMA Roots ==
    \A c : uses(c) \cap {"window_manager", "dm_connection", "screen_event_handler",
                         "dbus_connection_thread", "unity_display_service",
                         "unity_input_service"} = {}
BY DEF uses, Component, window_manager_side, display_manager_side, event_side, dbus_side

\* What uses a component, the other way round.
LEMMA UsersTable ==
    ASSUME NEW c, NEW d \in uses(c)
    PROVE  /\ d = "session_switcher" => c \in {"window_manager", "dm_connection"}
           /\ d = "spinner" => c = "session_switcher"
           /\ d \in {"power_button_event_sink", "user_activity_event_sink", "clock"}
                => c = "screen_event_handler"
           /\ d = "dbus_event_loop" =>
                c \in {"dbus_connection_thread", "unity_display_service",
                       "unity_input_service"}
           /\ d = "screen" => c = "unity_display_service"
           /\ d = "input_configuration" => c = "unity_input_service"
BY DEF uses, Component, window_manager_side, display_manager_side, event_side, dbus_side

\* There is no cycle: if nobody is without a user there is nobody.
LEMMA NoCycle ==
    ASSUME NEW S \in SUBSET Component,
           \A c \in S \ {"dm_connection"} : \E d \in S : c \in uses(d)
    PROVE  S \subseteq {"dm_connection", "session_switcher", "spinner"}
<1>1. S \cap {"window_manager", "screen_event_handler", "dbus_connection_thread",
              "unity_display_service", "unity_input_service"} = {}
  BY Roots
<1>2. S \cap {"power_button_event_sink", "user_activity_event_sink", "clock",
              "dbus_event_loop", "screen", "input_configuration"} = {}
  BY <1>1, UsersTable
<1> QED
  BY <1>1, <1>2 DEF Component

-----------------------------------------------------------------------------
\* The components a factory may be asked for

\* In the init callback what is wanted is the first that is missing.
LEMMA WantedByCallback ==
    ASSUME phase = "init"
    PROVE  /\ wanted \subseteq {"dm_connection", "screen", "unity_display_service",
                                "screen_event_handler", "unity_input_service",
                                "dbus_connection_thread"} \ held
           /\ wanted # {"dm_connection"} => "dm_connection" \in held
           /\ "dbus_connection_thread" \in wanted => Service \subseteq held
           /\ wanted = {} => Service \subseteq held
           /\ \A c, d \in wanted : c = d
<1> DEFINE IsNext(j) == /\ init_callback[j] \notin held
                        /\ \A k \in 1 .. j - 1 : init_callback[k] \in held
<1>1. /\ DOMAIN init_callback = 1 .. 6
      /\ init_callback[1] = "dm_connection" /\ init_callback[2] = "screen"
      /\ init_callback[3] = "unity_display_service"
      /\ init_callback[4] = "screen_event_handler"
      /\ init_callback[5] = "unity_input_service"
      /\ init_callback[6] = "dbus_connection_thread"
  BY DEF init_callback
<1>2. wanted = {init_callback[i] : i \in {j \in 1 .. 6 : IsNext(j)}}
  BY <1>1 DEF wanted
<1>3. ASSUME NEW i \in 1 .. 6, NEW j \in 1 .. 6, IsNext(i), IsNext(j)
      PROVE  i = j
  <2>1. ~ i < j /\ ~ j < i
    BY <1>3
  <2> QED BY <2>1
<1>4. CASE "dm_connection" \notin held
  <2>1. IsNext(1)
    BY <1>1, <1>4
  <2>2. wanted = {"dm_connection"}
    BY <1>1, <1>2, <1>3, <2>1
  <2> QED BY <1>4, <2>2
<1>5. CASE "dm_connection" \in held
  <2>1. wanted \subseteq {"screen", "unity_display_service", "screen_event_handler",
                          "unity_input_service", "dbus_connection_thread"} \ held
    BY <1>1, <1>2, <1>5
  <2>2. IsNext(6) => Service \subseteq held
    BY <1>1 DEF Service
  <2>3. wanted = {} => Service \subseteq held
    <3> SUFFICES ASSUME \A j \in 1 .. 6 : ~ IsNext(j)
                 PROVE  Service \subseteq held
      BY <1>2
    <3>1. init_callback[1] \in held
      BY <1>1, <1>5
    <3>2. init_callback[2] \in held
      BY <3>1
    <3>3. init_callback[3] \in held
      BY <3>1, <3>2
    <3>4. init_callback[4] \in held
      BY <3>1, <3>2, <3>3
    <3>5. init_callback[5] \in held
      BY <3>1, <3>2, <3>3, <3>4
    <3> QED BY <1>1, <3>3, <3>5 DEF Service
  <2>4. \A c, d \in wanted : c = d
    BY <1>2, <1>3
  <2>5. "dbus_connection_thread" \in wanted => IsNext(6)
    BY <1>1, <1>2
  <2> QED BY <1>5, <2>1, <2>2, <2>3, <2>4, <2>5
<1> QED BY <1>4, <1>5

\* The constructor has asked for the spinner, Mir asks for the window manager,
\* and once Mir runs nobody asks for anything.
LEMMA WantedElsewhere ==
    ASSUME TypeOK, phase # "init"
    PROVE  /\ wanted \subseteq {"spinner", "window_manager"} \ held
           /\ phase # "construct" => wanted = {}
BY DEF wanted, TypeOK

LEMMA DemandedWithin ==
    ASSUME NEW S, wanted \subseteq S, \A c \in S \ alive : asks_for(c) \subseteq S
    PROVE  demanded \subseteq S
<1>1. ASSUME NEW cs, cs \subseteq S
      PROVE  asked_by(cs) \subseteq S
  BY <1>1 DEF asked_by
<1> QED BY <1>1 DEF demanded

\* What with_used(with_used()) collects uses nothing more.
LEMMA UsedTwice ==
    ASSUME NEW cs, NEW c \in with_used(with_used(cs))
    PROVE  uses(c) \subseteq with_used(with_used(cs))
<1>1. ASSUME NEW x, NEW y \in uses(x), NEW z \in uses(y)
      PROVE  uses(z) = {}
  <2>1. y = "session_switcher"
    <3>1. y \in Component
      BY <1>1 DEF uses
    <3>2. y \notin {"spinner", "screen", "dbus_event_loop", "input_configuration",
                   "power_button_event_sink", "user_activity_event_sink", "clock"}
      BY <1>1, UsesTable
    <3>3. y \notin {"window_manager", "dm_connection", "screen_event_handler",
                   "dbus_connection_thread", "unity_display_service",
                   "unity_input_service"}
      BY <1>1, Roots
    <3> QED BY <3>1, <3>2, <3>3 DEF Component
  <2> QED BY <1>1, <2>1, UsesTable
<1>2. CASE c \in with_used(cs)
  BY <1>2 DEF with_used
<1>3. CASE c \notin with_used(cs)
  <2>1. PICK y \in with_used(cs) : c \in uses(y)
    BY <1>3 DEF with_used
  <2>2. y \notin cs
    BY <1>3, <2>1 DEF with_used
  <2>3. PICK x \in cs : y \in uses(x)
    BY <2>1, <2>2 DEF with_used
  <2> QED BY <1>1, <2>1, <2>3
<1> QED BY <1>2, <1>3

\* The window manager and the connection to the display manager do without
\* what comes after the connection.
LEMMA UsedBefore ==
    ASSUME NEW cs \in SUBSET {"dm_connection", "spinner", "window_manager"}
    PROVE  with_used(with_used(cs)) \cap AfterConnection = {}
<1> DEFINE before == {"dm_connection", "spinner", "window_manager", "session_switcher"}
<1>1. \A c \in before : uses(c) \subseteq before
  BY UsesTable
<1>2. with_used(cs) \subseteq before
  BY <1>1 DEF with_used
<1>3. with_used(with_used(cs)) \subseteq before
  BY <1>1, <1>2 DEF with_used
<1> QED BY <1>3 DEF AfterConnection

\* A factory at work creates only what is needed for what it was asked for; the
\* switcher that the screen is told of is there by then.
LEMMA DemandedIsNeeded ==
    ASSUME IInv
    PROVE  /\ demanded \ alive \subseteq with_used(with_used(wanted))
           /\ with_used(with_used(wanted)) \cap AfterConnection # {} =>
                 "dm_connection" \in held
           /\ "dbus_connection_thread" \in with_used(with_used(wanted)) =>
                 Service \subseteq held
           /\ phase \notin {"construct", "init"} => with_used(with_used(wanted)) = {}
<1> DEFINE needed == with_used(with_used(wanted))
<1>1. needed \cap AfterConnection # {} => "dm_connection" \in held
  BY UsedBefore, WantedByCallback, WantedElsewhere DEF IInv
<1>2. \A c \in needed : uses(c) \subseteq needed
  BY UsedTwice
<1>3. wanted \subseteq needed
  BY DEF with_used
<1> HIDE DEF needed
<1>4. "screen" \in needed => "session_switcher" \in alive
  <2>1. "screen" \in needed => "dm_connection" \in alive
    BY <1>1 DEF AfterConnection, Component, IInv, TypeOK
  <2> QED BY <2>1, UsesTable DEF IInv, Closed
<1>5. \A c \in needed : asks_for(c) \subseteq needed \cup alive
  BY <1>2, <1>4 DEF asks_for
<1>6. demanded \subseteq needed \cup alive
  BY <1>3, <1>5, DemandedWithin
<1>7. "dbus_connection_thread" \in needed => Service \subseteq held
  <2>1. "dbus_connection_thread" \in needed => "dbus_connection_thread" \in wanted
    BY Roots DEF needed, with_used
  <2> QED BY <2>1, WantedByCallback, WantedElsewhere DEF IInv
<1>8. phase \notin {"construct", "init"} => needed = {}
  BY WantedElsewhere DEF needed, with_used, IInv
<1> QED BY <1>1, <1>6, <1>7, <1>8 DEF needed

-----------------------------------------------------------------------------
\* One lemma per step

LEMMA CreateKeeps ==
    ASSUME IInv, NEW c \in Component, create(c)
    PROVE  IInv'
<1>1. /\ c \notin alive /\ uses(c) \subseteq alive
      /\ alive' = alive \cup {c}
      /\ temporary' = temporary \cup {c}
      /\ created' = [created EXCEPT ![c] = @ + 1]
      /\ UNCHANGED <<phase, held>>
      /\ constructed(c)
  BY DEF create
<1>2. /\ c \in with_used(with_used(wanted))
      /\ c \in AfterConnection => "dm_connection" \in held
      /\ c = "dbus_connection_thread" => Service \subseteq held
      /\ phase \in {"construct", "init"}
  <2>1. c \in demanded \ alive
    BY DEF create
  <2> QED BY <2>1, DemandedIsNeeded
<1>3. c = "unity_display_service" => "screen" \in alive
  BY <1>1, UsesTable
<1>4. c \in Service => "dbus_event_loop" \in alive
  BY <1>1, UsesTable DEF Service
<1>5. TypeOK'
  <2>1. created' \in [Component -> Nat]
    BY <1>1 DEF IInv, TypeOK
  <2>2. /\ handlers' \subseteq {"session_switcher", "unity_display_service"}
        /\ handlers' # {} => "screen" \in alive'
    BY <1>1, <1>3 DEF constructed, IInv, TypeOK
  <2>3. /\ connections' \subseteq Service
        /\ watched' \subseteq connections' /\ filters' \subseteq connections'
    BY <1>1 DEF constructed, IInv, TypeOK
  <2>4. /\ queued' \in BOOLEAN /\ observing' \in BOOLEAN
        /\ queued' => "dbus_event_loop" \in alive'
    BY <1>1, <1>4 DEF constructed, IInv, TypeOK, Service
  <2> QED BY <1>1, <2>1, <2>2, <2>3, <2>4 DEF IInv, TypeOK
<1>6. Closed'
  BY <1>1 DEF IInv, Closed
<1>7. Founded'
  BY <1>1, <1>2 DEF IInv, Founded
<1>8. InUse'
  BY <1>1 DEF IInv, InUse
<1>9. Temporaries'
  <2>1. wanted' = wanted
    BY <1>1 DEF wanted
  <2> QED BY <1>1, <1>2, <2>1 DEF IInv, Temporaries, with_used
<1>10. Counted'
  <2>1. created[c] = 0 /\ created'[c] = 1
    BY <1>1, <1>2 DEF IInv, Counted, TypeOK
  <2>2. \A d \in Component \ {c} : created'[d] = created[d]
    BY <1>1 DEF IInv, TypeOK
  <2> QED BY <1>1, <2>1, <2>2 DEF IInv, Counted, OneInstance
<1>11. Members'
  BY <1>1 DEF IInv, Members
<1>12. Registrations'
  <2>1. connections' # {} => "dbus_event_loop" \in alive'
    BY <1>1, <1>4 DEF constructed, IInv, Registrations
  <2>2. "unity_display_service" \in handlers' => "unity_display_service" \in alive'
    BY <1>1 DEF constructed, IInv, Registrations
  <2> QED BY <2>1, <2>2 DEF Registrations
<1> QED
  BY <1>5, <1>6, <1>7, <1>8, <1>9, <1>10, <1>11, <1>12 DEF IInv

\* Until the members go nothing is unused; from then on nothing is created.
LEMMA DestroyKeeps ==
    ASSUME IInv, NEW c \in Component, destroy(c)
    PROVE  IInv'
<1>1. /\ c \in alive \ (held \cup temporary)
      /\ \A d \in alive : c \notin uses(d)
      /\ alive' = alive \ {c}
      /\ handlers' = handlers \ unregistered_by(c)
      /\ UNCHANGED <<phase, held, temporary, created, observing>>
  BY DEF destroy, unused, keeps
<1>2. phase = "returned"
  BY <1>1 DEF IInv, InUse
<1>3. TypeOK' /\ Registrations'
  <2>1. CASE c = "dbus_event_loop"
    <3>1. connections' = {} /\ watched' = {} /\ filters' = {} /\ queued' = FALSE
      BY <2>1 DEF destroy
    <3> QED BY <1>1, <2>1, <3>1 DEF IInv, TypeOK, Registrations, unregistered_by
  <2>2. CASE c # "dbus_event_loop"
    <3>1. UNCHANGED <<connections, watched, filters, queued>>
      BY <2>2 DEF destroy
    <3> QED BY <1>1, <2>2, <3>1 DEF IInv, TypeOK, Registrations, unregistered_by
  <2> QED BY <2>1, <2>2
<1>4. Closed'
  BY <1>1 DEF IInv, Closed
<1>5. Founded'
  BY <1>1, <1>2 DEF IInv, Founded
<1>6. Temporaries'
  <2>1. wanted' = wanted
    BY <1>1 DEF wanted
  <2> QED BY <1>1, <2>1 DEF IInv, Temporaries, with_used
<1>7. InUse' /\ Counted' /\ Members'
  BY <1>1, <1>2 DEF IInv, InUse, Counted, OneInstance, Members
<1> QED
  BY <1>3, <1>4, <1>5, <1>6, <1>7 DEF IInv

\* The constructor of a service, or another one, throws.
LEMMA ThrowKeeps ==
    ASSUME IInv, throws \/ \E s \in Service : request_name_throws(s)
    PROVE  IInv'
<1>1. /\ phase = "init" /\ phase' = "returned"
      /\ temporary' = {}
      /\ held' = held \ {"window_manager"}
      /\ UNCHANGED <<alive, created, handlers, filters, queued, observing>>
  BY DEF throws, request_name_throws
<1>2. /\ connections \subseteq connections' /\ connections' \subseteq Service
      /\ watched' \subseteq connections'
      /\ connections' # {} => "dbus_event_loop" \in alive
  <2>1. CASE throws
    BY <2>1 DEF throws, IInv, TypeOK, Registrations
  <2>2. ASSUME NEW s \in Service, request_name_throws(s)
        PROVE  /\ connections \subseteq connections' /\ connections' \subseteq Service
               /\ watched' \subseteq connections'
               /\ connections' # {} => "dbus_event_loop" \in alive
    <3>1. "dbus_event_loop" \in uses(s)
      BY UsesTable DEF Service
    <3> QED BY <2>2, <3>1 DEF request_name_throws, IInv, TypeOK
  <2> QED BY <2>1, <2>2
<1>3. TypeOK'
  BY <1>1, <1>2 DEF IInv, TypeOK
<1>4. Closed' /\ InUse' /\ Counted'
  BY <1>1 DEF IInv, Closed, InUse, Counted, OneInstance
<1>5. Founded'
  BY <1>1 DEF IInv, Founded, Service
<1>6. Temporaries'
  BY <1>1 DEF Temporaries
<1>7. Members' /\ Registrations'
  BY <1>1, <1>2 DEF IInv, Members, Registrations
<1> QED
  BY <1>3, <1>4, <1>5, <1>6, <1>7 DEF IInv

\* What the factory held meanwhile is used by what it returns.
LEMMA AssignKeeps ==
    ASSUME IInv, assign
    PROVE  IInv'
<1>1. /\ wanted \subseteq alive /\ wanted # {}
      /\ held' = held \cup wanted
      /\ temporary' = {}
      /\ UNCHANGED <<phase, alive, created, handlers, connections, watched, filters, queued,
                     observing>>
  BY DEF assign, has_returned, demanded, asked_by
<1>2. phase \in {"construct", "init"}
  BY <1>1, WantedElsewhere DEF IInv
<1>3. TypeOK' /\ Closed' /\ Temporaries' /\ Counted' /\ Registrations'
  BY <1>1 DEF IInv, TypeOK, Closed, Temporaries, Counted, OneInstance, Registrations
<1>4. Founded'
  BY <1>1 DEF IInv, Founded
<1>5. InUse'
  <2>1. with_used(wanted) \subseteq alive
    BY <1>1 DEF with_used, IInv, Closed
  <2>2. \A c \in temporary : c \in wanted \/ \E d \in alive : c \in uses(d)
    BY <2>1 DEF with_used, IInv, Temporaries
  <2> QED BY <1>1, <1>2, <2>2 DEF IInv, InUse
<1>6. Members'
  <2>1. wanted \subseteq {members[i] : i \in DOMAIN members} \cup {"window_manager"}
    <3>1. /\ DOMAIN members = 1 .. 7
          /\ members[1] = "dm_connection" /\ members[2] = "spinner" /\ members[3] = "screen"
          /\ members[4] = "screen_event_handler" /\ members[5] = "unity_display_service"
          /\ members[6] = "unity_input_service" /\ members[7] = "dbus_connection_thread"
      BY DEF members
    <3>2. wanted \subseteq {members[1], members[2], members[3], members[4], members[5],
                           members[6], members[7], "window_manager"}
      BY <3>1, WantedByCallback, WantedElsewhere DEF IInv
    <3> QED BY <3>1, <3>2
  <2> QED BY <1>1, <1>2, <2>1 DEF IInv, Members
<1> QED
  BY <1>3, <1>4, <1>5, <1>6 DEF IInv

\* Mir's threads start when the init callback has all it wants.
LEMMA PhaseKeeps ==
    ASSUME IInv, next_phase
    PROVE  IInv'
<1>1. /\ wanted = {}
      /\ UNCHANGED <<temporary, alive, created, handlers, connections, watched, filters, queued,
                     observing>>
  BY DEF next_phase
<1>2. \/ phase = "construct" /\ phase' = "init" /\ held' = held
      \/ phase = "init" /\ phase' = "running" /\ held' = held
      \/ phase = "running" /\ phase' = "returned" /\ held' = held \ {"window_manager"}
  BY DEF next_phase
<1>3. temporary = {}
  BY <1>1 DEF IInv, Temporaries, with_used
<1>4. TypeOK'
  BY <1>1, <1>2, <1>3 DEF IInv, TypeOK
<1>5. Closed' /\ InUse' /\ Counted' /\ Registrations'
  BY <1>1, <1>2, <1>3 DEF IInv, Closed, InUse, Counted, OneInstance, Registrations
<1>6. Founded'
  <2>1. phase' = "running" => Service \subseteq held
    BY <1>1, <1>2, WantedByCallback
  <2> QED BY <1>1, <1>2, <2>1 DEF IInv, Founded, Service
<1>7. Temporaries' /\ Members'
  BY <1>1, <1>2, <1>3 DEF IInv, Temporaries, Members
<1> QED
  BY <1>4, <1>5, <1>6, <1>7 DEF IInv

\* The actions lead to the display service while it is there.
LEMMA ThreadsKeep ==
    ASSUME IInv, report \/ dispatch_actions
    PROVE  IInv'
<1>1. /\ UNCHANGED <<phase, held, temporary, alive, created, handlers, connections, watched,
                     filters, observing>>
      /\ queued' \in BOOLEAN
      /\ queued' => "unity_display_service" \in handlers
  BY DEF report, dispatch_actions
<1>2. queued' => "dbus_event_loop" \in alive
  BY <1>1, UsesTable DEF IInv, Registrations, Closed
<1>3. TypeOK'
  BY <1>1, <1>2 DEF IInv, TypeOK
<1>4. wanted' = wanted
  BY <1>1 DEF wanted
<1> QED
  BY <1>1, <1>3, <1>4
  DEF IInv, Closed, Founded, InUse, Temporaries, Counted, OneInstance, Members,
      Registrations, with_used

\* A member goes when all that only later members used is gone: the services
\* after the thread, the connection to the display manager last.
LEMMA MemberKeeps ==
    ASSUME IInv, destroy_member
    PROVE  IInv'
<1>1. /\ phase = "returned"
      /\ \A c \in Component : ~ unused(c)
      /\ UNCHANGED <<phase, temporary, alive, created, handlers, connections, watched,
                     filters, queued, observing>>
  BY DEF destroy_member
<1>2. PICK i \in DOMAIN members :
          /\ members[i] \in held
          /\ \A j \in i + 1 .. Len(members) : members[j] \notin held
          /\ held' = held \ {members[i]}
  BY DEF destroy_member
<1>3. /\ DOMAIN members = 1 .. 7 /\ Len(members) = 7
      /\ members[1] = "dm_connection" /\ members[2] = "spinner" /\ members[3] = "screen"
      /\ members[4] = "screen_event_handler" /\ members[5] = "unity_display_service"
      /\ members[6] = "unity_input_service" /\ members[7] = "dbus_connection_thread"
  BY DEF members
<1>4. wanted = {} /\ wanted' = {} /\ temporary = {}
  <2>1. wanted = {} /\ wanted' = {}
    BY <1>1 DEF wanted
  <2> QED BY <2>1 DEF IInv, Temporaries, with_used
<1>5. \A c \in alive \ held : \E d \in alive : c \in uses(d)
  BY <1>1, <1>4 DEF unused, keeps, IInv, TypeOK
<1>6. alive \cap AfterConnection # {} => "dm_connection" \in held'
  <2>1. SUFFICES ASSUME members[i] = "dm_connection"
                 PROVE  alive \cap AfterConnection = {}
    BY <1>1, <1>2 DEF IInv, Founded
  <2>2. i = 1
    BY <1>2, <1>3, <2>1
  <2>3. \A j \in 2 .. 7 : members[j] \notin held
    BY <1>2, <1>3, <2>2
  <2>4. held \subseteq {"dm_connection"}
    BY <1>1, <1>3, <2>3 DEF IInv, Members
  <2>5. \A c \in alive \ {"dm_connection"} : \E d \in alive : c \in uses(d)
    BY <1>5, <2>4
  <2>6. alive \subseteq {"dm_connection", "session_switcher", "spinner"}
    BY <2>5, NoCycle DEF IInv, TypeOK
  <2> QED BY <2>6 DEF AfterConnection
<1>7. "dbus_connection_thread" \in alive => Service \subseteq held'
  <2>1. SUFFICES ASSUME members[i] \in Service, "dbus_connection_thread" \in alive
                 PROVE  FALSE
    BY <1>2 DEF IInv, Founded
  <2>2. i # 7
    BY <1>3, <2>1 DEF Service
  <2>3. "dbus_connection_thread" \notin held
    BY <1>2, <1>3, <2>2
  <2> QED BY <1>5, <2>1, <2>3, Roots
<1>8. Founded'
  BY <1>1, <1>6, <1>7 DEF Founded
<1>9. TypeOK' /\ Members'
  BY <1>1, <1>2 DEF IInv, TypeOK, Members
<1>10. Closed' /\ InUse' /\ Temporaries' /\ Counted' /\ Registrations'
  BY <1>1, <1>4
  DEF IInv, Closed, InUse, Temporaries, Counted, OneInstance, Registrations
<1> QED
  BY <1>8, <1>9, <1>10 DEF IInv

-----------------------------------------------------------------------------
\* The components are created, used and destroyed in order, exceptions
\* included.
THEOREM Ordered == Spec => []IInv
<1>1. Init => IInv
  <2> SUFFICES ASSUME Init PROVE IInv
    OBVIOUS
  <2>1. TypeOK
    BY DEF Init, TypeOK
  <2>2. Founded /\ Counted /\ Members
    BY DEF Init, Founded, Counted, OneInstance, Members
  <2>3. Closed /\ InUse /\ Temporaries /\ Registrations
    BY DEF Init, Closed, InUse, Temporaries, Registrations
  <2> QED BY <2>1, <2>2, <2>3 DEF IInv
<1>2. IInv /\ [Next]_vars => IInv'
  <2> SUFFICES ASSUME IInv, [Next]_vars
               PROVE  IInv'
    OBVIOUS
  <2>1. CASE UNCHANGED vars
    <3>1. wanted' = wanted
      BY <2>1 DEF vars, wanted
    <3> QED
      BY <2>1, <3>1
      DEF vars, IInv, TypeOK, Closed, Founded, InUse, Temporaries, Counted, OneInstance,
          Members, Registrations, with_used
  <2>2. CASE \E c \in Component : create(c) \/ destroy(c)
    BY <2>2, CreateKeeps, DestroyKeeps
  <2>3. CASE throws \/ \E s \in Service : request_name_throws(s)
    BY <2>3, ThrowKeeps
  <2>4. CASE assign
    BY <2>4, AssignKeeps
  <2>5. CASE next_phase
    BY <2>5, PhaseKeeps
  <2>6. CASE report \/ dispatch_actions
    BY <2>6, ThreadsKeep
  <2>7. CASE destroy_member
    BY <2>7, MemberKeeps
  <2> QED
    BY <2>1, <2>2, <2>3, <2>4, <2>5, <2>6, <2>7 DEF Next, terminated
<1> QED
  BY <1>1, <1>2, PTL DEF Spec

\* NoDanglingCallback: no handler, filter, watch function, action or observer
\* that may be called leads to a component that is gone.
THEOREM CallbacksLive == Spec => []NoDanglingCallback
<1>1. IInv => NoDanglingCallback
  <2> SUFFICES ASSUME IInv
               PROVE  NoDanglingCallback
    OBVIOUS
  <2>1. handlers \subseteq alive
    <3>1. "session_switcher" \in handlers => "dm_connection" \in alive
      BY DEF IInv, TypeOK, Founded, AfterConnection, Component
    <3>2. "dm_connection" \in alive => "session_switcher" \in alive
      BY UsesTable DEF IInv, Closed
    <3> QED BY <3>1, <3>2 DEF IInv, TypeOK, Registrations
  <2>2. watched # {} => "dbus_event_loop" \in alive
    BY DEF IInv, TypeOK, Registrations
  <2>3. "dbus_connection_thread" \in alive \/ phase = "running" => Service \subseteq alive
    BY DEF IInv, TypeOK, Founded
  <2>4. "unity_input_service" \in alive => "input_configuration" \in alive
    BY UsesTable DEF IInv, Closed
  <2> QED
    BY <2>1, <2>2, <2>3, <2>4 DEF NoDanglingCallback, Service, IInv, TypeOK
<1> QED
  BY <1>1, Ordered, PTL

\* OneInstance: no factory creates a second instance of a component, for what
\* it has created is in use until the members are destroyed.
THEOREM InstancesShared == Spec => []OneInstance
<1>1. IInv => OneInstance
  BY DEF IInv, Counted
<1> QED
  BY <1>1, Ordered, PTL

\* NothingLeaks: when the last member is gone, so is everything, for no
\* component uses itself through others.
THEOREM EverythingDestroyed == Spec => []NothingLeaks
<1>1. IInv => NothingLeaks
  <2> SUFFICES ASSUME IInv, destroyed
               PROVE  alive = {} /\ connections = {}
    BY DEF NothingLeaks
  <2>1. temporary = {}
    BY WantedElsewhere DEF destroyed, IInv, Temporaries, with_used
  <2>2. \A c \in alive : \E d \in alive : c \in uses(d)
    BY <2>1 DEF destroyed, unused, keeps, IInv, TypeOK
  <2>3. alive \subseteq {"dm_connection", "session_switcher", "spinner"}
    BY <2>2, NoCycle DEF IInv, TypeOK
  <2>4. alive = {}
    BY <2>2, <2>3, Roots, UsersTable
  <2> QED
    BY <2>4 DEF IInv, Registrations
<1> QED
  BY <1>1, Ordered, PTL
================================================================================
