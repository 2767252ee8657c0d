-------------------------- MODULE ScreenEventHandler --------------------------
(***************************************************************************)
(* usc::ScreenEventHandler sees every input event and tells the power      *)
(* daemon, over D-Bus, of the power button and of two kinds of activity:   *)
(* that which may change the power state (wake the screen) and that which  *)
(* may only extend it.  Reports of activity of one kind are throttled.     *)
(*                                                                         *)
(* Mir may call handle() in several threads.  A report is made under       *)
(* event_mutex, which both kinds share, and takes time, for the sink sends *)
(* a signal and flushes the connection.  The clock is read before the      *)
(* report and once more after it.                                          *)
(***************************************************************************)
EXTENDS Integers

CONSTANTS
    Thread,         \* the threads that call handle()
    NoThread,
    event_period,
    MaxReport,      \* bound on the time a report takes
    MaxTime         \* bound on the clock

ASSUME HandlerAssumption ==
    /\ NoThread \notin Thread
    /\ event_period \in Nat \ {0}
    /\ MaxReport \in Nat
    /\ MaxTime \in Nat

VARIABLES
    last,           \* last_activity_{changing,extending}_power_state_event_time
    event_mutex,    \* the thread that is making a report, or NoThread
    handling,       \* the activity each thread has been given, or "none"
    arrived,        \* when it was given it
    now,            \* the clock
    \* history
    reported,       \* when the last report of each kind began
    missed          \* when the last activity of each kind that was not reported came

handler_vars == <<last, event_mutex, handling, arrived, now, reported, missed>>

Activity == {"changing", "extending"}
Time == 0 .. MaxTime
PastOrTime == -event_period .. MaxTime

HandlerTypeOK ==
    /\ last \in [Activity -> PastOrTime]
    /\ event_mutex \in Thread \cup {NoThread}
    /\ handling \in [Thread -> Activity \cup {"none"}]
    /\ arrived \in [Thread -> Time]
    /\ now \in Time
    /\ reported \in [Activity -> PastOrTime]
    /\ missed \in [Activity -> PastOrTime]
    /\ \A a \in Activity : reported[a] <= now /\ last[a] <= now

HandlerInit ==
    /\ last = [a \in Activity |-> -event_period]
    /\ event_mutex = NoThread
    /\ handling = [t \in Thread |-> "none"]
    /\ arrived = [t \in Thread |-> 0]
    /\ now = 0
    /\ reported = [a \in Activity |-> -event_period]
    /\ missed = [a \in Activity |-> -event_period]

-----------------------------------------------------------------------------
\* handle()

Event ==
    [type : {"key"}, code : {"power", "volume", "another"}, action : {"down", "up", "repeat"}]
    \cup [type : {"touch", "pointer", "other"}]

\* What handle() makes of an event.  The power button is reported at once,
\* without the mutex and without a change of state; that, the volume keys and
\* events of other types are no activity.
activity(e) ==
    CASE e.type = "touch" -> "extending"
      [] e.type = "pointer" -> "changing"
      [] e.type = "key" ->
            IF e.code # "another" THEN "none"
            ELSE IF e.action = "down" THEN "changing" ELSE "extending"
      [] OTHER -> "none"

handle(t, e) ==
    /\ handling[t] = "none"
    /\ activity(e) # "none"
    /\ handling' = [handling EXCEPT ![t] = activity(e)]
    /\ arrived' = [arrived EXCEPT ![t] = now]
    /\ UNCHANGED <<last, event_mutex, now, reported, missed>>

last_of_any(a) == IF last["changing"] > last["extending"] THEN last["changing"]
                  ELSE last["extending"]
last_of(a) == last[a]

without_mutex == TRUE
may_lock == event_mutex = NoThread

\* notify_activity_*_power_state(): the lock, and the first reading of the clock
begin_report(t) ==
    /\ handling[t] # "none" /\ event_mutex # t
    /\ may_lock
    /\ now >= last_of(handling[t]) + event_period
    /\ event_mutex' = t
    /\ reported' = [reported EXCEPT ![handling[t]] = now]
    /\ UNCHANGED <<last, handling, arrived, now, missed>>

do_not_report(t) ==
    /\ handling[t] # "none" /\ event_mutex # t
    /\ may_lock
    /\ now < last_of(handling[t]) + event_period
    /\ handling' = [handling EXCEPT ![t] = "none"]
    /\ missed' = [missed EXCEPT ![handling[t]] = arrived[t]]
    /\ UNCHANGED <<last, event_mutex, arrived, now, reported>>

end_of_report == now

\* The second reading of the clock, and the end of the lock's scope
end_report(t) ==
    /\ event_mutex = t
    /\ last' = [last EXCEPT ![handling[t]] = end_of_report]
    /\ handling' = [handling EXCEPT ![t] = "none"]
    /\ event_mutex' = NoThread
    /\ UNCHANGED <<arrived, now, reported, missed>>

-----------------------------------------------------------------------------
\* A report takes no longer than MaxReport.
tick ==
    /\ now < MaxTime
    /\ event_mutex # NoThread => now < reported[handling[event_mutex]] + MaxReport
    /\ now' = now + 1
    /\ UNCHANGED <<last, event_mutex, handling, arrived, reported, missed>>

HandlerNext ==
    \/ \E t \in Thread :
          \/ \E e \in Event : handle(t, e)
          \/ begin_report(t)
          \/ do_not_report(t)
          \/ end_report(t)
    \/ tick

HandlerSpec == HandlerInit /\ [][HandlerNext]_handler_vars

-----------------------------------------------------------------------------
\* Two reports of one kind, in whichever threads, begin at least a period apart.
Throttled ==
    [][ \A t \in Thread :
          event_mutex' = t /\ event_mutex # t =>
              reported'[handling[t]] >= reported[handling[t]] + event_period ]_handler_vars

\* Activity that is not reported came soon after a report of its own kind: no
\* report of the other kind, and no report that another thread was making
\* meanwhile, silences it for longer than a period after that report.
MissedSoonAfterReport ==
    \A a \in Activity :
        missed[a] >= 0 => missed[a] < reported[a] + MaxReport + event_period
=============================================================================
