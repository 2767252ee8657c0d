---------------------------- MODULE MCDBusWatches ----------------------------
(***************************************************************************)
(* Instances of DBusWatches for TLC: a connection with both its watches,   *)
(* one that only reads, and a timeout.                                     *)
(***************************************************************************)
EXTENDS DBusWatches

CONSTANTS display, input

MCWatch == {<<display, "in">>, <<display, "out">>, <<input, "in">>}
=============================================================================
