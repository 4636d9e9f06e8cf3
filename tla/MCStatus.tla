------------------------------ MODULE MCStatus ------------------------------
(***************************************************************************)
(* StatusFanout for TLC: its bounds are in the configuration.              *)
(***************************************************************************)
EXTENDS StatusFanout

=============================================================================
