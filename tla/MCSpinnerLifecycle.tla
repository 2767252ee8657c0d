------------------------- MODULE MCSpinnerLifecycle -------------------------
(***************************************************************************)
(* Instances of SpinnerLifecycle for TLC.                                  *)
(***************************************************************************)
EXTENDS SpinnerLifecycle, TLC

MCNames == {"", "greeter", "spinner"}
MCDMNames == {"greeter"}
MCNameOf ==
    [s \in Session |-> ("a" :> "greeter" @@ "sp1" :> "spinner" @@ "sp2" :> "spinner")[s]]
MCForkFailed == -1
=============================================================================
