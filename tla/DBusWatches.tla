------------------------------ MODULE DBusWatches ------------------------------
(***************************************************************************)
(* The watches and timeouts that libdbus registers with the event loop     *)
(* usc::DBusEventLoop, and the epoll instance that the loop keeps in step  *)
(* with them.                                                              *)
(*                                                                         *)
(* A connection has two watches on its socket, which libdbus enables when  *)
(* it wants to read and when it has something to write; a pending call has *)
(* a timeout, for which the loop makes a timer.  A turn of the loop waits  *)
(* for one file descriptor, calls what is enabled for it, performs actions *)
(* and lets libdbus flush and dispatch.  libdbus calls back within these,  *)
(* and within the constructors that use the connections before the thread  *)
(* of the loop is started: its calls come in one thread at a time.         *)
(*                                                                         *)
(* Running out of file descriptors or memory, which makes add_watch and    *)
(* add_timeout fail, is not modelled.                                      *)
(***************************************************************************)
CONSTANTS
    Connection,     \* each with the descriptor of its socket
    Watch,          \* each its connection's descriptor and what it waits for
    Timeout         \* each with the descriptor of the timer it may get

ASSUME DescriptorAssumption ==
    /\ Connection \cap Timeout = {}
    /\ Watch \subseteq Connection \X {"in", "out"}
    /\ Watch \cap Timeout = {}

VARIABLES
    \* members of DBusEventLoop
    watches,
    timeouts,
    \* what dbus_watch_get_enabled and dbus_timeout_get_enabled return
    enabled,
    \* the system
    epoll,          \* descriptor -> events
    armed,          \* timers that are set
    expired,        \* timers that are readable
    condition,      \* of each socket: "in", "out", "hangup"
    \* the thread
    loop,
    event,          \* what is being handled: descriptor and events
    to_handle       \* matching_watches, those that are still to be handled

registered == <<watches, timeouts, enabled, epoll, armed>>
turn == <<loop, event, to_handle>>
vars == <<registered, expired, condition, turn>>

Descriptor == Connection \cup Timeout
Event == {"in", "out", "hangup"}
on(w, fd) == w[1] = fd

TypeOK ==
    /\ watches \subseteq Watch
    /\ timeouts \subseteq Timeout
    /\ enabled \subseteq watches \cup timeouts
    /\ DOMAIN epoll \subseteq Descriptor
    /\ \A fd \in DOMAIN epoll : epoll[fd] \subseteq {"in", "out"}
    /\ armed \subseteq timeouts
    /\ expired \subseteq armed
    /\ condition \in [Connection -> SUBSET Event]
    /\ loop \in {"start", "wait", "watch", "timeout", "serve"}
    /\ event.fd \in Descriptor /\ event.events \subseteq Event
    /\ to_handle \subseteq Watch
    /\ to_handle # {} => loop = "watch"

nothing == [fd |-> CHOOSE c \in Connection : TRUE, events |-> {}]

Init ==
    /\ watches = {} /\ timeouts = {} /\ enabled = {}
    /\ epoll = [fd \in {} |-> {}]
    /\ armed = {} /\ expired = {}
    /\ condition = [c \in Connection |-> {}]
    /\ loop = "start"
    /\ event = nothing
    /\ to_handle = {}

-----------------------------------------------------------------------------
\* epoll_ctl

add_or_modify(fd, events) ==
    epoll' = [d \in DOMAIN epoll \cup {fd} |-> IF d = fd THEN events ELSE epoll[d]]
modify(fd, events) ==
    epoll' = [d \in DOMAIN epoll |-> IF d = fd THEN events ELSE epoll[d]]
delete(fd) == epoll' = [d \in DOMAIN epoll \ {fd} |-> epoll[d]]

-----------------------------------------------------------------------------
\* Watches

is_watched(fd, ws) == \E w \in ws : on(w, fd)

without_EPOLLOUT(fd, ws, en) ==
    {w[2] : w \in {v \in ws \cap en : on(v, fd)}} \ {"out"}
\* EPOLLHUP and EPOLLERR are reported whether they are asked for or not.
epoll_events_for_watch_fd(fd, ws, en) ==
    {w[2] : w \in {v \in ws \cap en : on(v, fd)}}

add_watch(w, enable) ==
    /\ w \notin watches
    /\ watches' = watches \cup {w}
    /\ enabled' = enabled \cup IF enable THEN {w} ELSE {}
    /\ add_or_modify(w[1], epoll_events_for_watch_fd(w[1], watches', enabled'))
    /\ UNCHANGED <<timeouts, armed, expired>>

delete_always(w) == delete(w[1])
\* The descriptor stays in the epoll set as long as it has another watch.
after_remove(w) ==
    IF is_watched(w[1], watches')
    THEN modify(w[1], epoll_events_for_watch_fd(w[1], watches', enabled))
    ELSE delete(w[1])

remove_watch(w) ==
    /\ w \in watches
    /\ watches' = watches \ {w}
    /\ enabled' = enabled \ {w}
    /\ after_remove(w)
    /\ UNCHANGED <<timeouts, armed, expired>>

toggle_watch(w) ==
    /\ w \in watches
    /\ enabled' = IF w \in enabled THEN enabled \ {w} ELSE enabled \cup {w}
    /\ modify(w[1], epoll_events_for_watch_fd(w[1], watches, enabled'))
    /\ UNCHANGED <<watches, timeouts, armed, expired>>

-----------------------------------------------------------------------------
\* Timeouts

\* timerfd_settime: a timer that is set again, or disarmed, has not expired.
update_timer_fd_for(t) ==
    /\ armed' = IF t \in enabled' THEN armed \cup {t} ELSE armed \ {t}
    /\ expired' = expired \ {t}

add_timeout(t, enable) ==
    /\ t \notin timeouts
    /\ timeouts' = timeouts \cup {t}
    /\ enabled' = enabled \cup IF enable THEN {t} ELSE {}
    /\ add_or_modify(t, {"in"})
    /\ update_timer_fd_for(t)
    /\ UNCHANGED watches

\* The timer is closed.
remove_timeout(t) ==
    /\ t \in timeouts
    /\ timeouts' = timeouts \ {t}
    /\ enabled' = enabled \ {t}
    /\ delete(t)
    /\ armed' = armed \ {t}
    /\ expired' = expired \ {t}
    /\ UNCHANGED watches

toggle_timeout(t) ==
    /\ t \in timeouts
    /\ enabled' = IF t \in enabled THEN enabled \ {t} ELSE enabled \cup {t}
    /\ update_timer_fd_for(t)
    /\ UNCHANGED <<watches, timeouts, epoll>>

\* libdbus calls back when it has been called; when a watch is handled, for
\* the connection of this watch.
libdbus ==
    /\ loop \in {"start", "watch", "serve"}
    /\ \/ \E w \in Watch :
             /\ loop = "watch" => on(w, event.fd)
             /\ \/ \E enable \in BOOLEAN : add_watch(w, enable)
                \/ remove_watch(w)
                \/ toggle_watch(w)
       \/ \E t \in Timeout :
             \/ \E enable \in BOOLEAN : add_timeout(t, enable)
             \/ remove_timeout(t)
             \/ toggle_timeout(t)
    /\ UNCHANGED <<condition, turn>>

-----------------------------------------------------------------------------
\* The other ends of the sockets, and time

peer ==
    /\ \E c \in Connection : \E e \in {"hangup"} \cup {w[2] : w \in {v \in Watch : on(v, c)}} :
          condition' = [condition EXCEPT ![c] = @ \cup {e}]
    /\ UNCHANGED <<registered, expired, turn>>

expires(t) ==
    /\ t \in armed
    /\ expired' = expired \cup {t}
    /\ UNCHANGED <<registered, condition, turn>>

-----------------------------------------------------------------------------
\* run()

run_starts ==
    /\ loop = "start"
    /\ loop' = "wait"
    /\ UNCHANGED <<registered, expired, condition, event, to_handle>>

\* What epoll has to report of a descriptor.
reported(fd) ==
    IF fd \notin DOMAIN epoll THEN {}
    ELSE IF fd \in Timeout THEN IF fd \in expired THEN {"in"} ELSE {}
    ELSE condition[fd] \cap (epoll[fd] \cup {"hangup"})

enabled_watches_for(fd) == {w \in watches \cap enabled : on(w, fd)}
enabled_timeout_for(fd) == {t \in timeouts \cap enabled : t = fd}

epoll_wait(fd) ==
    /\ loop = "wait"
    /\ reported(fd) # {}
    /\ to_handle' = enabled_watches_for(fd)
    /\ loop' = IF to_handle' # {} THEN "watch"
               ELSE IF enabled_timeout_for(fd) # {} THEN "timeout" ELSE "serve"
    /\ event' = IF loop' = "serve" THEN nothing
                ELSE [fd |-> fd, events |-> reported(fd)]
    /\ UNCHANGED <<registered, expired, condition>>

\* The wake-up pipe is reported, or a signal interrupts the wait.
woken ==
    /\ loop = "wait"
    /\ loop' = "serve"
    /\ UNCHANGED <<registered, expired, condition, event, to_handle>>

\* What dbus_watch_handle does with the socket: it reads what there is, or
\* writes; it does nothing about an event that was not reported.  What it
\* calls back is a step of libdbus.
handled(w) ==
    [condition EXCEPT ![w[1]] = @ \ ({w[2]} \cap event.events)]

\* A watch that was removed when an earlier one was handled is handled as
\* well, which in libdbus is undefined; here it does nothing.
dbus_watch_handle(w) ==
    /\ w \in to_handle
    /\ to_handle' = to_handle \ {w}
    /\ condition' = IF w \in watches THEN handled(w) ELSE condition
    /\ UNCHANGED <<registered, expired, loop, event>>

watches_handled ==
    /\ loop = "watch"
    /\ to_handle = {}
    /\ loop' = "serve"
    /\ event' = nothing
    /\ UNCHANGED <<registered, expired, condition, to_handle>>

\* The call is no longer pending, and libdbus removes its timeout.
dbus_timeout_handle ==
    /\ loop = "timeout"
    /\ remove_timeout(event.fd)
    /\ loop' = "serve"
    /\ event' = nothing
    /\ UNCHANGED <<condition, to_handle>>

\* dispatch_actions(), flush and dispatch
end_of_turn ==
    /\ loop = "serve"
    /\ loop' = "wait"
    /\ UNCHANGED <<registered, expired, condition, event, to_handle>>

-----------------------------------------------------------------------------
Turn ==
    \/ run_starts
    \/ \E w \in Watch : dbus_watch_handle(w)
    \/ watches_handled
    \/ dbus_timeout_handle
    \/ end_of_turn

Next ==
    \/ Turn
    \/ \E fd \in Descriptor : epoll_wait(fd)
    \/ woken
    \/ libdbus
    \/ peer
    \/ \E t \in Timeout : expires(t)

\* The thread runs and libdbus returns; epoll reports the descriptors that are
\* ready in turn.
Spec ==
    /\ Init /\ [][Next]_vars
    /\ WF_vars(Turn)
    /\ \A fd \in Descriptor : SF_vars(epoll_wait(fd))

-----------------------------------------------------------------------------
\* Whatever libdbus adds, removes and toggles, epoll waits for what is enabled
\* and for nothing else, and the timers that run are those of the timeouts that
\* are enabled.
EpollMatches ==
    /\ DOMAIN epoll = {w[1] : w \in watches} \cup timeouts
    /\ \A c \in DOMAIN epoll \cap Connection :
          epoll[c] = {w[2] : w \in watches \cap enabled \cap ({c} \X {"in", "out"})}
    /\ armed = timeouts \cap enabled

\* What a watch waits for is handled by it, however busy the other
\* connections, the pipe and timers are, unless libdbus turns away; and a timer
\* that has expired does not wake the loop for ever, although nothing reads it.
NoEventLost ==
    /\ \A w \in Watch :
          w \in watches \cap enabled /\ w[2] \in condition[w[1]]
              ~> w \notin watches \cap enabled \/ w[2] \notin condition[w[1]]
    /\ \A t \in Timeout : t \in expired ~> t \notin expired
=============================================================================
