------------------------------- MODULE MCWatch -------------------------------
(***************************************************************************)
(* Instances of Watch for TLC.                                             *)
(***************************************************************************)
EXTENDS Watch

CONSTANTS page, dep
=============================================================================
