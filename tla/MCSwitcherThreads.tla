-------------------------- MODULE MCSwitcherThreads --------------------------
(***************************************************************************)
(* Instances of SwitcherThreads for TLC: clients of two names, of which    *)
(* "greeter" may have several sessions, and a spinner.                     *)
(***************************************************************************)
EXTENDS SwitcherThreads, TLC

CONSTANTS
    Greeter,
    Shell,
    MaxConnected    \* bound on the sessions that are connected at a time

MCNext == ThreadsNext /\ Cardinality(connected') <= MaxConnected
MCSpec == ThreadsInit /\ [][MCNext]_all_vars

MCSession == Greeter \cup Shell \cup SpinnerSession
MCNames == {"", "greeter", "shell", "spinner"}
MCDMNames == {"greeter", "shell"}
MCNameOf ==
    [s \in MCSession |->
        IF s \in Greeter THEN "greeter" ELSE IF s \in Shell THEN "shell" ELSE "spinner"]
MCForkFailed == -1

\* Nothing tells apart the pids, or the sessions of the greeter.
Interchangeable == Permutations(Pid) \cup Permutations(Greeter)

MCOrder == [n \in MCNames |->
    CASE n = "" -> 0 [] n = "greeter" -> 1 [] n = "shell" -> 2 [] n = "spinner" -> 3]

\* History is looked at only in calls: `overlap` is forgotten when a thread
\* begins alone, and afterwards only tells whether a call began since the
\* handler did; `saved` is overwritten when a thread begins, and shows through
\* Seen only while nothing overlaps.  Nothing follows a crash.
MCView ==
    IF crashed # {} THEN <<crashed, "call" \in overlap>>
    ELSE IF Idle THEN <<vars>>
    ELSE IF overlap # {} THEN <<vars, local_vars, "call" \in overlap>>
    ELSE <<vars, local_vars, saved>>
=============================================================================
