----------------------------- MODULE MCJsonRpc -----------------------------
(***************************************************************************)
(* Small instances of JsonRpc: two requests with a callback, one with a    *)
(* NotifyConsumer, one bare; every one of them may be made by either       *)
(* thread, so two sends always have a chance to overlap.                   *)
(***************************************************************************)
EXTENDS JsonRpc

CONSTANTS c1, c2, n1, b1, none

MCCb   == {c1, c2}
MCCons == {n1}
MCReq  == MCCb \cup MCCons \cup {b1}

=============================================================================
