----------------------------- MODULE MCTopLayer -----------------------------
(***************************************************************************)
(* TopLayer has no parameters: its six layers are the code's own, and its  *)
(* state space is finite as it is.                                         *)
(***************************************************************************)
EXTENDS TopLayer

=============================================================================
