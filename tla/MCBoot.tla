------------------------------- MODULE MCBoot -------------------------------
(***************************************************************************)
(* BootHandshake with a bounded number of faults. Two faults are enough    *)
(* for a loss during the recovery from a loss.                             *)
(***************************************************************************)
EXTENDS BootHandshake
=============================================================================
