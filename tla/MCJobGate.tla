----------------------------- MODULE MCJobGate ------------------------------
(***************************************************************************)
(* JobGate for TLC: its bounds are in the configurations.                  *)
(***************************************************************************)
EXTENDS JobGate

=============================================================================
