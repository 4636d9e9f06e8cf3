---------------------------- MODULE MCCalOverlay ----------------------------
(***************************************************************************)
(* CalOverlay for TLC: two calibration texts, so that a text can change    *)
(* under an overlay that is already up, and one text of a run.             *)
(***************************************************************************)
EXTENDS CalOverlay

CONSTANTS cal1, cal2, run1

MCCal == {cal1, cal2}
MCRun == {run1}

=============================================================================
