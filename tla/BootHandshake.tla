--------------------------- MODULE BootHandshake ---------------------------
(***************************************************************************)
(* InitPanel (init_panel.cpp) against Moonraker and Klipper: the boot      *)
(* screen gives way to the cockpit when the connect handshake              *)
(*                                                                         *)
(*     printer.objects.list  ->  printer.objects.subscribe                 *)
(*                                                                         *)
(* completes, and comes back when the link or Klipper is lost. connected() *)
(* and disconnected() are called by the websocket thread (onopen, onclose, *)
(* notify_klippy_*: websocket_client.cpp); their LVGL writes hold lv_lock, *)
(* so each handler is one step here. conn_epoch_ numbers the connections;  *)
(* a handshake carries the epoch it began in.                              *)
(*                                                                         *)
(* Moonraker and Klipper are external. A request is first evaluated, then  *)
(* its reply is put on the socket; a change of Klipper is first seen, then *)
(* notified: replies and notifications overtake each other before the      *)
(* socket, never on it.                                                    *)
(***************************************************************************)
EXTENDS Integers, Sequences

CONSTANT MaxFaults   \* bound: link drops, failed connects, Klipper losses

ASSUME FaultsAssumption == MaxFaults \in Nat

VARIABLES
  conn_epoch_,     \* bumped by disconnected()
  boot,            \* [shown, stage, revealed]: the boot container, its bar,
                   \* and the once-only reveal of the bar (progress_shown_)
  objs,            \* State holds printer_objs
  handshakes,      \* calls of connected() so far
  lostAt,          \* how many there had been at the last disconnected()
  link,            \* "closed" | "up" | "dropped" (onclose not run yet)
  inq,             \* what the socket holds for the websocket thread
  pending,         \* requests Moonraker works on
  klippy,          \* "down" | "ready" | "shutdown"
  note,            \* the Klipper change Moonraker has yet to notify
  subscribed,      \* Moonraker holds a live subscription of this socket
  faults

panel == <<conn_epoch_, boot, objs, handshakes, lostAt>>
world == <<klippy, note, subscribed, faults>>
vars  == <<panel, link, inq, pending, world>>

Stage    == {4, 22, 55, 78, 100}
Notes    == {"notify_klippy_disconnected", "notify_klippy_shutdown",
             "notify_klippy_ready"}
Verdict  == {"open", "ok", "error"}
\* one request: its method, the handshake and epoch that made it, its outcome
Request  == [m : {"list", "subscribe"}, hs : Nat, epoch : Nat, res : Verdict]
Note(n)  == [m |-> n, hs |-> 0, epoch |-> 0, res |-> "ok"]
Event    == Request \cup {Note(n) : n \in Notes}

TypeOK ==
  /\ conn_epoch_ \in Nat
  /\ boot \in [shown : BOOLEAN, stage : Stage, revealed : BOOLEAN]
  /\ objs \in BOOLEAN
  /\ handshakes \in Nat /\ lostAt \in Nat
  /\ link \in {"closed", "up", "dropped"}
  /\ inq \in Seq(Event)
  /\ pending \in SUBSET Request
  /\ klippy \in {"down", "ready", "shutdown"}
  /\ note \in Notes \cup {"none"}
  /\ subscribed \in BOOLEAN
  /\ faults \in 0 .. MaxFaults

\* The screen may start before or after Klipper does.
Init ==
  /\ conn_epoch_ = 0
  /\ boot = [shown |-> TRUE, stage |-> 4, revealed |-> FALSE]
  /\ objs = FALSE
  /\ handshakes = 0 /\ lostAt = 0
  /\ link = "closed"
  /\ inq = <<>>
  /\ pending = {}
  /\ klippy \in {"down", "ready"}
  /\ note = "none"
  /\ subscribed = FALSE
  /\ faults = 0

-----------------------------------------------------------------------------
\* InitPanel.

NewRequest(method, hs, epoch) ==
  [m |-> method, hs |-> hs, epoch |-> epoch, res |-> "open"]

\* connected(): forget the old printer state, phase the bar in, ask for the
\* object list; the request remembers the epoch. A dead socket refuses it.
ConnectedFirstEpoch ==
  /\ handshakes' = handshakes + 1
  /\ boot' = [boot EXCEPT !.stage = 22, !.revealed = TRUE]
  /\ objs' = FALSE
  /\ pending' = IF link' = "up"
                THEN pending \cup {NewRequest("list", handshakes + 1, 0)}
                ELSE pending
  /\ UNCHANGED <<conn_epoch_, lostAt>>

connected ==
  /\ handshakes' = handshakes + 1
  /\ boot' = [boot EXCEPT !.stage = 22, !.revealed = TRUE]
  /\ objs' = FALSE
  /\ pending' = IF link' = "up"
                THEN pending \cup {NewRequest("list", handshakes + 1, conn_epoch_)}
                ELSE pending
  /\ UNCHANGED <<conn_epoch_, lostAt>>

DisconnectedSameEpoch ==
  /\ conn_epoch_' = conn_epoch_
  /\ boot' = [boot EXCEPT !.shown = TRUE, !.stage = 4]
  /\ lostAt' = handshakes
  /\ UNCHANGED <<objs, handshakes>>

\* disconnected(): a new epoch, and the boot screen in front again.
disconnected ==
  /\ conn_epoch_' = conn_epoch_ + 1
  /\ boot' = [boot EXCEPT !.shown = TRUE, !.stage = 4]
  /\ lostAt' = handshakes
  /\ UNCHANGED <<objs, handshakes>>

ListReplyAdvances(e) ==
  /\ boot' = [boot EXCEPT !.stage = @ + 33]
  /\ UNCHANGED <<objs, pending, conn_epoch_, handshakes, lostAt>>

\* The printer.objects.list reply. A reply without an object list leaves the
\* boot screen waiting; a good one goes on to subscribe. Nothing here looks
\* at the epoch: a reply of a dead connection does all of this too.
list_reply(e) ==
  /\ IF e.res = "ok"
     THEN /\ objs' = TRUE
          /\ boot' = [boot EXCEPT !.stage = 78]
          /\ pending' = IF link = "up"
                        THEN pending \cup {NewRequest("subscribe", e.hs, e.epoch)}
                        ELSE pending
     ELSE /\ boot' = [boot EXCEPT !.stage = 55]
          /\ UNCHANGED <<objs, pending>>
  /\ UNCHANGED <<conn_epoch_, handshakes, lostAt>>

\* The printer.objects.subscribe reply, result or error alike: seed the
\* cockpit (MainPanel::init), then show it unless the epoch has moved on.
SubscribeReplyNoEpoch(e) ==
  /\ boot' = [boot EXCEPT !.stage = 100, !.shown = FALSE]
  /\ UNCHANGED <<conn_epoch_, objs, handshakes, lostAt, pending>>

subscribe_reply(e) ==
  /\ boot' = IF e.epoch = conn_epoch_
             THEN [boot EXCEPT !.stage = 100, !.shown = FALSE]
             ELSE boot
  /\ UNCHANGED <<conn_epoch_, objs, handshakes, lostAt, pending>>

-----------------------------------------------------------------------------
\* The websocket thread: one event of the socket at a time.

onopen ==
  /\ link = "closed"
  /\ link' = "up"
  /\ connected
  /\ UNCHANGED <<inq, world>>

\* libhv reports a failed attempt through onclose as well.
ConnectFails ==
  /\ link = "closed" /\ faults < MaxFaults
  /\ faults' = faults + 1
  /\ disconnected
  /\ UNCHANGED <<link, inq, pending, klippy, note, subscribed>>

onclose ==
  /\ link = "dropped" /\ inq = <<>>
  /\ link' = "closed"
  /\ disconnected
  /\ UNCHANGED <<inq, pending, world>>

OnMessage(m) == link # "closed" /\ inq # <<>> /\ Head(inq).m = m /\ inq' = Tail(inq)

OnList      == OnMessage("list") /\ list_reply(Head(inq)) /\ UNCHANGED <<link, world>>
OnSubscribe == OnMessage("subscribe") /\ subscribe_reply(Head(inq)) /\ UNCHANGED <<link, world>>

OnKlippyReady ==
  /\ OnMessage("notify_klippy_ready") /\ UNCHANGED <<link, world>>
  /\ connected

OnKlippyLost ==
  /\ \/ OnMessage("notify_klippy_disconnected")
     \/ OnMessage("notify_klippy_shutdown")
  /\ disconnected
  /\ UNCHANGED <<link, pending, world>>

-----------------------------------------------------------------------------
\* Moonraker, Klipper and the network (external).

\* Moonraker learns what a request comes to: an error while Klipper is away.
Evaluate(q) ==
  /\ q.res = "open"
  /\ pending' = (pending \ {q}) \cup
                {[q EXCEPT !.res = IF klippy = "down" THEN "error" ELSE "ok"]}
  /\ subscribed' = (subscribed \/ (q.m = "subscribe" /\ klippy # "down"))
  /\ UNCHANGED <<panel, link, inq, klippy, note, faults>>

Deliver(q) ==
  /\ q.res # "open" /\ link = "up"
  /\ pending' = pending \ {q}
  /\ inq' = Append(inq, q)
  /\ UNCHANGED <<panel, link, world>>

Notify ==
  /\ note # "none"
  /\ note' = "none"
  /\ inq' = IF link = "up" THEN Append(inq, Note(note)) ELSE inq
  /\ UNCHANGED <<panel, link, pending, klippy, subscribed, faults>>

KlippyReady ==
  /\ klippy = "down" /\ note = "none"
  /\ klippy' = "ready" /\ note' = "notify_klippy_ready"
  /\ UNCHANGED <<panel, link, inq, pending, subscribed, faults>>

KlippyDown ==
  /\ klippy # "down" /\ note = "none" /\ faults < MaxFaults
  /\ klippy' = "down" /\ note' = "notify_klippy_disconnected"
  /\ subscribed' = FALSE
  /\ faults' = faults + 1
  /\ UNCHANGED <<panel, link, inq, pending>>

KlippyShutdown ==
  /\ klippy = "ready" /\ note = "none" /\ faults < MaxFaults
  /\ klippy' = "shutdown" /\ note' = "notify_klippy_shutdown"
  /\ faults' = faults + 1
  /\ UNCHANGED <<panel, link, inq, pending, subscribed>>

\* The operator recovers a shut-down Klipper by restarting it.
KlippyRestart ==
  /\ klippy = "shutdown" /\ note = "none"
  /\ klippy' = "down" /\ note' = "notify_klippy_disconnected"
  /\ subscribed' = FALSE
  /\ UNCHANGED <<panel, link, inq, pending, faults>>

LinkDrop ==
  /\ link = "up" /\ faults < MaxFaults
  /\ link' = "dropped"
  /\ inq' \in {inq, <<>>}
  /\ pending' = {}
  /\ subscribed' = FALSE
  /\ faults' = faults + 1
  /\ UNCHANGED <<panel, klippy, note>>

Screen == onopen \/ onclose \/ OnList \/ OnSubscribe \/ OnKlippyReady \/ OnKlippyLost

Next ==
  \/ Screen \/ ConnectFails
  \/ \E q \in pending : Evaluate(q) \/ Deliver(q)
  \/ Notify
  \/ KlippyReady \/ KlippyDown \/ KlippyShutdown \/ KlippyRestart
  \/ LinkDrop

Spec == Init /\ [][Next]_vars

\* The websocket thread runs, libhv reconnects without end (200 to 2000 ms),
\* and a Moonraker that is up answers and notifies. Klipper owes nothing.
Fairness ==
  /\ WF_vars(Screen)
  /\ WF_vars(\E q \in pending : Evaluate(q))
  /\ WF_vars(\E q \in pending : Deliver(q))
  /\ WF_vars(Notify)

FairSpec == Spec /\ Fairness

-----------------------------------------------------------------------------
\* Properties.

\* Everything that happened has reached the screen.
Quiet == inq = <<>> /\ note = "none" /\ link # "dropped"

\* No cockpit over a dead link (init_panel.cpp:190-192): once every event has
\* been handled, a cockpit in front means the socket is open, Klipper is there
\* and Moonraker streams its state to this socket.
CockpitIsLive ==
  (~boot.shown /\ Quiet) => (link = "up" /\ klippy # "down" /\ subscribed)

\* The cockpit is only revealed by a handshake begun after the last loss the
\* screen was told of, so a stale reply never hides a boot screen that a newer
\* disconnect raised (init_panel.cpp:190-193).
RevealIsFresh ==
  [][boot.shown /\ ~boot'.shown => Head(inq).hs > lostAt]_vars

\* Once Klipper stays ready and the link stays up, the cockpit appears for
\* good, whatever was lost or overtaken before (init_panel.cpp:119-206).
CockpitComes ==
  <>[](link = "up" /\ klippy = "ready") => <>[](~boot.shown)

=============================================================================
