-------------------------- MODULE MCSessionSwitcher --------------------------
(***************************************************************************)
(* An instance of SessionSwitcher, with the server's pauses, for TLC: a    *)
(* client that reconnects under its name before its old session is gone,   *)
(* another client, and spinners of which one may replace the other.        *)
(***************************************************************************)
EXTENDS ServerStatus, TLC

CONSTANT Greeter, Shell

MCSession == Greeter \cup Shell \cup SpinnerSession
MCNames == {"", "greeter", "shell", "spinner"}
MCDMNames == {"greeter", "shell"}
MCNameOf ==
    [s \in MCSession |->
        IF s \in Greeter THEN "greeter" ELSE IF s \in Shell THEN "shell" ELSE "spinner"]
MCForkFailed == -1

\* Nothing tells apart the pids, or the sessions of one name.
Interchangeable ==
    Permutations(Pid) \cup Permutations(Greeter) \cup Permutations(SpinnerSession)

ASSUME WellNamedAssumption == WellNamed
=============================================================================
