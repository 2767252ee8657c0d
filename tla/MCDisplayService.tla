--------------------------- MODULE MCDisplayService ---------------------------
(***************************************************************************)
(* Instances of DisplayService for TLC: one internal and one external      *)
(* output.                                                                 *)
(***************************************************************************)
EXTENDS DisplayService
=============================================================================
