------------------------------- MODULE MCInput -------------------------------
(***************************************************************************)
(* Instances of the two components between Mir's input and the clients.    *)
(* They have no state in common and do not call each other, so that in a   *)
(* behaviour only one of them takes steps.                                 *)
(*                                                                         *)
(* InputConfiguration: a mouse, a touchpad that is a pointer too, a        *)
(* keyboard; speeds below, in and above the range.  ScreenEventHandler:    *)
(* two interchangeable threads, and reports that take up to half a period. *)
(***************************************************************************)
EXTENDS InputConfiguration, ScreenEventHandler, TLC

VARIABLE running    \* the component of this behaviour

MCInit == Init /\ HandlerInit /\ running \in {"configuration", "events"}

MCNext ==
    /\ \/ running = "configuration" /\ Next /\ UNCHANGED handler_vars
       \/ running = "events" /\ HandlerNext /\ UNCHANGED vars
    /\ UNCHANGED running

MCSpec == MCInit /\ [][MCNext]_<<vars, handler_vars, running>>

MCSpeeds == {-1, 1, 3}
Threads == Permutations(Thread)
=============================================================================
