--------------------------- MODULE MCDBusEventLoop ---------------------------
(***************************************************************************)
(* Instances of DBusEventLoop for TLC: two threads enqueue two different   *)
(* actions, three times in all, into a loop that may wake itself twice.    *)
(***************************************************************************)
EXTENDS DBusEventLoop
=============================================================================
