---------------------------- MODULE RpcContract ----------------------------
(***************************************************************************)
(* What KWebSocketClient promises its callers about one JSON-RPC request:  *)
(* its callback runs at most once, only for its own reply, and a reply     *)
(* that reaches the screen is only ever thrown away by the loss of the     *)
(* link that carried it or because nobody asked to hear it.                *)
(*                                                                         *)
(* Requests are instances: one call of send_jsonrpc is one element of Req. *)
(***************************************************************************)
CONSTANTS Req,      \* calls of send_jsonrpc / gcode_script
          Awaited   \* those made with a callback or a consumer

VARIABLES up,       \* the websocket is open
          status    \* life of every request

cvars == <<up, status>>

Status == {"new", "sent", "answered", "handled", "closed"}

ContractInit ==
  /\ up = FALSE
  /\ status = [r \in Req |-> "new"]

\* A request made on a dead link is closed at birth: nobody will answer it.
Issue(r) ==
  /\ status[r] = "new"
  /\ status' = [status EXCEPT ![r] = IF up THEN "sent" ELSE "closed"]
  /\ UNCHANGED up

Answer(r) ==
  /\ up /\ status[r] = "sent"
  /\ status' = [status EXCEPT ![r] = "answered"]
  /\ UNCHANGED up

Handle(r) ==
  /\ r \in Awaited /\ status[r] = "answered"
  /\ status' = [status EXCEPT ![r] = "handled"]
  /\ UNCHANGED up

Discard(r) ==
  /\ r \notin Awaited /\ status[r] = "answered"
  /\ status' = [status EXCEPT ![r] = "closed"]
  /\ UNCHANGED up

\* The link dies: what was not answered never will be, and the answers not
\* read yet (the set lost) may go with it.
Drop ==
  /\ up
  /\ \E lost \in SUBSET {r \in Req : status[r] = "answered"} :
       status' = [r \in Req |-> IF status[r] = "sent" \/ r \in lost
                                THEN "closed" ELSE status[r]]
  /\ up' = FALSE

Open ==
  /\ ~up /\ up' = TRUE
  /\ UNCHANGED status

ContractNext ==
  \/ \E r \in Req : Issue(r) \/ Answer(r) \/ Handle(r) \/ Discard(r)
  \/ Drop
  \/ Open

Contract == ContractInit /\ [][ContractNext]_cvars

=============================================================================
