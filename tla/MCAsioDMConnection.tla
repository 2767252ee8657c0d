-------------------------- MODULE MCAsioDMConnection --------------------------
(***************************************************************************)
(* Instances of AsioDMConnection for TLC: names of up to two bytes, so     *)
(* that a name can be cut off or joined to another one.                    *)
(***************************************************************************)
EXTENDS AsioDMConnection
=============================================================================
