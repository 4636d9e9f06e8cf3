----------------------------- MODULE BootProofs -----------------------------
(***************************************************************************)
(* The epoch check of the subscribe reply is enough, for any number of     *)
(* faults: the cockpit is never revealed by a handshake that began before  *)
(* the last loss.                                                          *)
(*                                                                         *)
(* The reveal compares epochs; the property speaks of handshakes. They     *)
(* meet in Fresh: a request's epoch is never ahead of the panel's, and one *)
(* that equals it belongs to a handshake begun after the last loss.        *)
(* Then: no cockpit over a dead link (LiveOK), no handshake lost (WakeOK), *)
(* and no handshake without end (Work).                                    *)
(***************************************************************************)
EXTENDS BootHandshake, FiniteSetTheorems, SequenceTheorems, TLAPS

Fresh(q) ==
  /\ q.epoch <= conn_epoch_
  /\ q.epoch = conn_epoch_ => q.hs > lostAt

IsReply(e) == e.m \in {"list", "subscribe"}

\* Every request Moonraker works on, and every reply in the socket, is fresh.
FreshOK ==
  /\ \A q \in pending : Fresh(q)
  /\ \A i \in 1 .. Len(inq) : IsReply(inq[i]) => Fresh(inq[i])

LossOK == lostAt <= handshakes

\* TypeOK by owner: the panel, and the world around it.
PanelOK ==
  /\ conn_epoch_ \in Nat
  /\ boot \in [shown : BOOLEAN, stage : Stage, revealed : BOOLEAN]
  /\ objs \in BOOLEAN
  /\ handshakes \in Nat /\ lostAt \in Nat

WorldOK ==
  /\ link \in {"closed", "up", "dropped"}
  /\ klippy \in {"down", "ready", "shutdown"}
  /\ note \in Notes \cup {"none"}
  /\ subscribed \in BOOLEAN
  /\ faults \in 0 .. MaxFaults

QueueOK == inq \in Seq(Event) /\ pending \in SUBSET Request

LEMMA TypeParts == TypeOK <=> PanelOK /\ WorldOK /\ QueueOK
  BY DEF TypeOK, PanelOK, WorldOK, QueueOK

BootType == [shown : BOOLEAN, stage : Stage, revealed : BOOLEAN]

\* The bar moves and the screen shows or hides within the type.
LEMMA BootTypes ==
  ASSUME NEW b \in BootType, NEW s \in Stage
  PROVE  /\ [b EXCEPT !.stage = s] \in BootType
         /\ [b EXCEPT !.stage = s, !.revealed = TRUE] \in BootType
         /\ [b EXCEPT !.shown = TRUE, !.stage = s] \in BootType
  BY DEF BootType

IInv == PanelOK /\ WorldOK /\ QueueOK /\ FreshOK /\ LossOK

LEMMA EventTypes ==
  /\ \A e \in Event : /\ e.epoch \in Nat /\ e.hs \in Nat
                      /\ IsReply(e) <=> e \in Request
  /\ \A n \in Notes : Note(n) \in Event /\ ~IsReply(Note(n))
  /\ Request \subseteq Event
  BY DEF Event, Request, Note, Notes, IsReply, Verdict

LEMMA NewRequestType ==
  ASSUME NEW m \in {"list", "subscribe"}, NEW h \in Nat, NEW n \in Nat
  PROVE  /\ NewRequest(m, h, n) \in Request
         /\ NewRequest(m, h, n).epoch = n /\ NewRequest(m, h, n).hs = h
  BY DEF NewRequest, Request, Verdict

LEMMA InitIInv == Init => IInv
<1> SUFFICES ASSUME Init PROVE IInv
  OBVIOUS
<1>1. PanelOK
  BY DEF Init, PanelOK, Stage
<1>2. klippy \in {"down", "ready", "shutdown"} /\ subscribed \in BOOLEAN
  BY Zenon DEF Init
<1>3. WorldOK
  BY <1>2, FaultsAssumption DEF Init, WorldOK
<1>4. QueueOK /\ FreshOK /\ LossOK
  BY DEF Init, QueueOK, FreshOK, LossOK
<1> QED BY <1>1, <1>3, <1>4 DEF IInv

-----------------------------------------------------------------------------
\* The two ways the socket's content changes.

LEMMA Popped ==
  ASSUME IInv, inq # <<>>, inq' = Tail(inq)
  PROVE  /\ Head(inq) \in Event
         /\ inq' \in Seq(Event)
         /\ IsReply(Head(inq)) => Fresh(Head(inq))
         /\ \A i \in 1 .. Len(inq') : /\ inq'[i] \in Event
                                      /\ IsReply(inq'[i]) => Fresh(inq'[i])
<1>1. inq \in Seq(Event)
  BY DEF IInv, QueueOK
<1>2. /\ Head(inq) \in Event /\ Head(inq) = inq[1]
      /\ inq' \in Seq(Event) /\ Len(inq') = Len(inq) - 1
      /\ \A i \in 1 .. Len(inq') : inq'[i] = inq[i + 1]
      /\ Len(inq) \in Nat \ {0}
  BY <1>1, HeadTailProperties
<1>3. \A i \in 1 .. Len(inq') : inq'[i] \in Event
  BY <1>2, ElementOfSeq
<1>4. IsReply(Head(inq)) => Fresh(Head(inq))
  <2>1. 1 \in 1 .. Len(inq)
    BY <1>2
  <2> QED BY <1>2, <2>1 DEF IInv, FreshOK
<1>5. \A i \in 1 .. Len(inq') : IsReply(inq'[i]) => Fresh(inq'[i])
  <2> SUFFICES ASSUME NEW i \in 1 .. Len(inq'), IsReply(inq'[i])
               PROVE  Fresh(inq'[i])
    OBVIOUS
  <2>1. i + 1 \in 1 .. Len(inq) /\ inq'[i] = inq[i + 1]
    BY <1>2
  <2> QED BY <2>1 DEF IInv, FreshOK
<1> QED BY <1>2, <1>3, <1>4, <1>5

LEMMA Pushed ==
  ASSUME IInv, NEW e \in Event, inq' = Append(inq, e), IsReply(e) => Fresh(e)
  PROVE  /\ inq' \in Seq(Event)
         /\ \A i \in 1 .. Len(inq') : IsReply(inq'[i]) => Fresh(inq'[i])
<1>1. inq \in Seq(Event)
  BY DEF IInv, QueueOK
<1>2. /\ inq' \in Seq(Event) /\ Len(inq') = Len(inq) + 1 /\ Len(inq) \in Nat
      /\ \A i \in 1 .. Len(inq) : inq'[i] = inq[i]
      /\ inq'[Len(inq) + 1] = e
  BY <1>1, AppendProperties, LenProperties
<1> SUFFICES ASSUME NEW i \in 1 .. Len(inq'), IsReply(inq'[i])
             PROVE  Fresh(inq'[i])
  BY <1>2
<1>3. CASE i \in 1 .. Len(inq)
  BY <1>2, <1>3 DEF IInv, FreshOK
<1>4. CASE i = Len(inq) + 1
  BY <1>2, <1>4
<1> QED BY <1>2, <1>3, <1>4

-----------------------------------------------------------------------------
\* The four operators of the panel.

LEMMA Connected ==
  ASSUME IInv, connected
  PROVE  /\ PanelOK' /\ LossOK'
         /\ pending' \in SUBSET Request
         /\ \A q \in pending' : Fresh(q)'
         /\ conn_epoch_' = conn_epoch_ /\ lostAt' = lostAt
<1>0. boot' \in BootType
  <2>1. boot \in BootType /\ 22 \in Stage
    BY DEF IInv, PanelOK, BootType, Stage
  <2> QED BY <2>1, BootTypes DEF connected
<1>1. PanelOK'
  <2>1. objs' \in BOOLEAN
    BY Zenon DEF connected
  <2>2. conn_epoch_' \in Nat /\ handshakes' \in Nat /\ lostAt' \in Nat
    BY DEF IInv, PanelOK, connected
  <2> QED BY <1>0, <2>1, <2>2 DEF PanelOK, BootType
<1>2. LossOK' /\ conn_epoch_' = conn_epoch_ /\ lostAt' = lostAt
  BY DEF IInv, PanelOK, LossOK, connected
<1> DEFINE new == NewRequest("list", handshakes + 1, conn_epoch_)
<1>3. new \in Request /\ new.epoch = conn_epoch_ /\ new.hs = handshakes + 1
  <2>1. conn_epoch_ \in Nat /\ handshakes + 1 \in Nat
    BY DEF IInv, PanelOK
  <2> QED BY <2>1, NewRequestType
<1>4. Fresh(new)
  <2> HIDE DEF new
  <2> QED BY <1>3 DEF Fresh, IInv, PanelOK, LossOK
<1>5. \A q \in pending' : q \in pending \/ q = new
  BY DEF connected
<1> HIDE DEF new
<1> QED BY <1>1, <1>2, <1>3, <1>4, <1>5, SMTT(30) DEF IInv, QueueOK, FreshOK, Fresh

LEMMA Disconnected ==
  ASSUME IInv, disconnected
  PROVE  /\ PanelOK' /\ LossOK'
         /\ \A q \in Event : Fresh(q) => Fresh(q)'
<1>0. boot' \in BootType /\ objs' = objs
  <2>1. boot \in BootType /\ 4 \in Stage
    BY DEF IInv, PanelOK, BootType, Stage
  <2> QED BY <2>1, BootTypes DEF disconnected
<1>1. PanelOK' /\ LossOK'
  <2>1. conn_epoch_' \in Nat /\ handshakes' \in Nat /\ lostAt' \in Nat /\ LossOK'
    BY DEF IInv, PanelOK, LossOK, disconnected
  <2> QED BY <1>0, <2>1 DEF PanelOK, BootType, IInv
<1>2. conn_epoch_' = conn_epoch_ + 1 /\ conn_epoch_ \in Nat
  BY DEF IInv, PanelOK, disconnected
<1> QED BY <1>1, <1>2, EventTypes, SMTT(30) DEF Fresh

LEMMA ListReply ==
  ASSUME IInv, NEW e \in Request, Fresh(e), list_reply(e)
  PROVE  /\ PanelOK' /\ LossOK'
         /\ pending' \in SUBSET Request
         /\ \A q \in pending' : Fresh(q)'
         /\ conn_epoch_' = conn_epoch_ /\ lostAt' = lostAt
<1>1. conn_epoch_' = conn_epoch_ /\ lostAt' = lostAt /\ handshakes' = handshakes
  BY SMTT(30) DEF list_reply
<1>0. boot' \in BootType
  <2>1. boot \in BootType /\ 55 \in Stage /\ 78 \in Stage
    BY DEF IInv, PanelOK, BootType, Stage
  <2> QED BY <2>1, BootTypes, ZenonT(40) DEF list_reply
<1>2. PanelOK' /\ LossOK'
  <2>1. objs' \in BOOLEAN
    BY Zenon DEF list_reply, IInv, PanelOK
  <2> QED BY <1>0, <1>1, <2>1 DEF PanelOK, LossOK, BootType, IInv
<1> DEFINE new == NewRequest("subscribe", e.hs, e.epoch)
<1>3. new \in Request /\ new.epoch = e.epoch /\ new.hs = e.hs
  <2>1. e.hs \in Nat /\ e.epoch \in Nat
    BY EventTypes
  <2> QED BY <2>1, NewRequestType
<1>4. \A q \in pending' : q \in pending \/ q = new
  BY DEF list_reply
<1> HIDE DEF new
<1>5. Fresh(new)
  BY <1>3 DEF Fresh
<1> QED BY <1>1, <1>2, <1>3, <1>4, <1>5 DEF IInv, QueueOK, FreshOK, Fresh

LEMMA SubscribeReply ==
  ASSUME IInv, NEW e, subscribe_reply(e)
  PROVE  /\ PanelOK' /\ LossOK'
         /\ pending' = pending /\ conn_epoch_' = conn_epoch_ /\ lostAt' = lostAt
<1> QED BY ZenonT(40) DEF IInv, PanelOK, LossOK, subscribe_reply, Stage

-----------------------------------------------------------------------------
\* Every step keeps the invariant.

LEMMA ScreenIInv == IInv /\ (Screen \/ ConnectFails) => IInv'
<1> SUFFICES ASSUME IInv, Screen \/ ConnectFails PROVE IInv'
  OBVIOUS
<1> USE DEF IInv
<1>1. CASE onopen
  <2>1. WorldOK' /\ inq' = inq /\ connected
    BY <1>1 DEF onopen, world, WorldOK
  <2> QED BY <2>1, Connected DEF QueueOK, FreshOK, Fresh
<1>2. CASE ConnectFails
  <2>1. WorldOK' /\ inq' = inq /\ pending' = pending /\ disconnected
    BY <1>2, FaultsAssumption DEF ConnectFails, WorldOK
  <2> QED BY <2>1, Disconnected, EventTypes, ElementOfSeq DEF QueueOK, FreshOK
<1>3. CASE onclose
  <2>1. WorldOK' /\ inq' = inq /\ pending' = pending /\ disconnected
    BY <1>3 DEF onclose, world, WorldOK
  <2> QED BY <2>1, Disconnected, EventTypes, ElementOfSeq DEF QueueOK, FreshOK
<1>4. CASE OnList
  <2>1. /\ WorldOK' /\ inq # <<>> /\ inq' = Tail(inq)
        /\ list_reply(Head(inq)) /\ IsReply(Head(inq))
    BY <1>4 DEF OnList, OnMessage, world, WorldOK, IsReply
  <2>2. Head(inq) \in Request /\ Fresh(Head(inq))
    BY <2>1, Popped, EventTypes
  <2> QED BY <2>1, <2>2, Popped, ListReply DEF QueueOK, FreshOK, Fresh
<1>5. CASE OnSubscribe
  <2>1. /\ WorldOK' /\ inq # <<>> /\ inq' = Tail(inq)
        /\ subscribe_reply(Head(inq))
    BY <1>5 DEF OnSubscribe, OnMessage, world, WorldOK
  <2> QED BY <2>1, Popped, SubscribeReply DEF QueueOK, FreshOK, Fresh
<1>6. CASE OnKlippyReady
  <2>1. WorldOK' /\ inq # <<>> /\ inq' = Tail(inq) /\ connected
    BY <1>6 DEF OnKlippyReady, OnMessage, world, WorldOK
  <2> QED BY <2>1, Popped, Connected DEF QueueOK, FreshOK, Fresh
<1>7. CASE OnKlippyLost
  <2>1. WorldOK' /\ inq # <<>> /\ inq' = Tail(inq) /\ disconnected /\ pending' = pending
    BY <1>7 DEF OnKlippyLost, OnMessage, world, WorldOK
  <2> QED BY <2>1, Popped, Disconnected, EventTypes DEF QueueOK, FreshOK
<1> QED BY <1>1, <1>2, <1>3, <1>4, <1>5, <1>6, <1>7 DEF Screen

\* Moonraker, Klipper and the network leave the panel alone.
World ==
  \/ \E q \in pending : Evaluate(q) \/ Deliver(q)
  \/ Notify \/ KlippyReady \/ KlippyDown \/ KlippyShutdown \/ KlippyRestart
  \/ LinkDrop

LEMMA WorldIInv == IInv /\ World => IInv'
<1> SUFFICES ASSUME IInv, World PROVE IInv'
  OBVIOUS
<1> USE DEF IInv
<1>1. panel' = panel => PanelOK' /\ LossOK' /\ \A q : Fresh(q)' <=> Fresh(q)
  BY DEF panel, PanelOK, LossOK, Fresh
<1>2. ASSUME NEW q \in pending, Evaluate(q) PROVE IInv'
  <2>1. WorldOK' /\ inq' = inq /\ panel' = panel
    BY <1>2 DEF Evaluate, WorldOK
  <2> DEFINE done == [q EXCEPT !.res = IF klippy = "down" THEN "error" ELSE "ok"]
  <2>2. q \in Request /\ Fresh(q)
    BY DEF QueueOK, FreshOK
  <2>3. done \in Request /\ done.epoch = q.epoch /\ done.hs = q.hs
    BY <2>2 DEF Request, Verdict
  <2>4. \A r \in pending' : r \in pending \/ r = done
    BY <1>2 DEF Evaluate
  <2> HIDE DEF done
  <2>5. Fresh(done)
    BY <2>2, <2>3 DEF Fresh
  <2> QED BY <1>1, <2>1, <2>3, <2>4, <2>5 DEF QueueOK, FreshOK
<1>3. ASSUME NEW q \in pending, Deliver(q) PROVE IInv'
  <2>1. WorldOK' /\ panel' = panel /\ inq' = Append(inq, q) /\ pending' = pending \ {q}
    BY <1>3 DEF Deliver, world, WorldOK
  <2>2. q \in Event /\ Fresh(q)
    BY EventTypes DEF QueueOK, FreshOK
  <2> QED BY <1>1, <2>1, <2>2, Pushed DEF QueueOK, FreshOK
<1>4. CASE Notify
  <2>1. /\ WorldOK' /\ panel' = panel /\ pending' = pending
        /\ note \in Notes
        /\ inq' = Append(inq, Note(note)) \/ inq' = inq
    BY <1>4 DEF Notify, WorldOK
  <2>2. Note(note) \in Event /\ ~IsReply(Note(note))
    BY <2>1, EventTypes
  <2>3. CASE inq' = inq
    BY <1>1, <2>1, <2>3 DEF QueueOK, FreshOK
  <2>4. CASE inq' = Append(inq, Note(note))
    BY <1>1, <2>1, <2>2, <2>4, Pushed DEF QueueOK, FreshOK
  <2> QED BY <2>1, <2>3, <2>4
<1>5. CASE KlippyReady \/ KlippyDown \/ KlippyShutdown \/ KlippyRestart
  <2>1. panel' = panel /\ inq' = inq /\ pending' = pending
    BY <1>5 DEF KlippyReady, KlippyDown, KlippyShutdown, KlippyRestart
  <2>2. faults' \in 0 .. MaxFaults
    BY <1>5, FaultsAssumption
       DEF KlippyReady, KlippyDown, KlippyShutdown, KlippyRestart, WorldOK
  <2>3. /\ link' = link /\ subscribed' \in BOOLEAN
        /\ klippy' \in {"down", "ready", "shutdown"} /\ note' \in Notes \cup {"none"}
    BY <1>5, Zenon
       DEF KlippyReady, KlippyDown, KlippyShutdown, KlippyRestart, WorldOK, Notes
  <2>4. WorldOK'
    BY <2>2, <2>3 DEF WorldOK
  <2> QED BY <1>1, <2>1, <2>4 DEF QueueOK, FreshOK
<1>6. CASE LinkDrop
  <2>0. faults' \in 0 .. MaxFaults
    BY <1>6, FaultsAssumption DEF LinkDrop, WorldOK
  <2>1. WorldOK' /\ panel' = panel /\ pending' = {} /\ (inq' = inq \/ inq' = <<>>)
    BY <1>6, <2>0, Zenon DEF LinkDrop, WorldOK
  <2>2. CASE inq' = inq
    BY <1>1, <2>1, <2>2 DEF QueueOK, FreshOK
  <2>3. CASE inq' = <<>>
    BY <1>1, <2>1, <2>3 DEF QueueOK, FreshOK
  <2> QED BY <2>1, <2>2, <2>3
<1> QED BY <1>2, <1>3, <1>4, <1>5, <1>6 DEF World

LEMMA StepIInv == IInv /\ [Next]_vars => IInv'
<1>1. IInv /\ UNCHANGED vars => IInv'
  BY DEF vars, panel, world, IInv, PanelOK, WorldOK, QueueOK, FreshOK, LossOK, Fresh
<1> QED BY <1>1, ScreenIInv, WorldIInv DEF Next, World

LEMMA Inductive == Spec => []IInv
  BY InitIInv, StepIInv, PTL DEF Spec

\* Type correctness of the boot panel, its socket and the requests.
THEOREM TypeCorrect == Spec => []TypeOK
<1>1. IInv => TypeOK
  BY TypeParts DEF IInv
<1> QED BY Inductive, <1>1, PTL

\* Only a subscribe reply hides the boot screen, and only one of this epoch.
LEMMA StepReveals ==
  IInv /\ [Next]_vars => (boot.shown /\ ~boot'.shown => Head(inq).hs > lostAt)
<1> SUFFICES ASSUME IInv, [Next]_vars, boot.shown, ~boot'.shown
             PROVE  Head(inq).hs > lostAt
  OBVIOUS
<1>0. boot \in [shown : BOOLEAN, stage : Stage, revealed : BOOLEAN]
  BY DEF IInv, PanelOK
<1>1. CASE OnSubscribe
  <2>1. inq # <<>> /\ inq' = Tail(inq) /\ IsReply(Head(inq)) /\ subscribe_reply(Head(inq))
    BY <1>1 DEF OnSubscribe, OnMessage, IsReply
  <2>2. Head(inq).epoch = conn_epoch_
    BY <2>1 DEF subscribe_reply
  <2>3. Fresh(Head(inq))
    BY <2>1, Popped
  <2> QED BY <2>2, <2>3 DEF Fresh
<1>2. ~connected
  BY <1>0 DEF connected
<1>3. ~disconnected
  BY <1>0 DEF disconnected
<1>4. ~list_reply(Head(inq))
  BY <1>0 DEF list_reply
<1>5. ~(panel' = panel)
  BY DEF panel
<1>6. ~World
  BY <1>5 DEF World, Evaluate, Deliver, Notify, KlippyReady, KlippyDown, KlippyShutdown,
              KlippyRestart, LinkDrop
<1> QED
  BY <1>1, <1>2, <1>3, <1>4, <1>5, <1>6
     DEF Next, Screen, World, onopen, onclose, ConnectFails, OnList, OnKlippyReady,
         OnKlippyLost, vars

\* The stale-handshake guard (init_panel.cpp:190-193) is right for any number
\* of losses, overtakings and reconnects: no cockpit is revealed by a
\* handshake that began before the last loss.
THEOREM RevealsAreFresh == Spec => RevealIsFresh
<1>1. IInv /\ [Next]_vars =>
        [boot.shown /\ ~boot'.shown => Head(inq).hs > lostAt]_vars
  BY StepReveals
<1> QED BY Inductive, <1>1, PTL DEF Spec, RevealIsFresh

-----------------------------------------------------------------------------
(***************************************************************************)
(* No cockpit over a dead link. A cockpit in front, or a reply that may    *)
(* put it there, is backed by a live subscription, or a loss is still on   *)
(* its way to the screen and will take the cockpit back.                   *)
(***************************************************************************)

Queued == {inq[i] : i \in 1 .. Len(inq)}

Live == link = "up" /\ klippy # "down" /\ subscribed

LossAhead ==
  \/ link = "dropped"
  \/ note = "notify_klippy_disconnected"
  \/ \E e \in Queued : e.m = "notify_klippy_disconnected"

\* What a reply of the current epoch has behind it.
Backed(q) ==
  q.epoch = conn_epoch_ =>
    /\ q.m = "subscribe" /\ q.res # "open" => Live \/ LossAhead
    /\ (q.m = "list" /\ q.res = "ok") \/ (q.m = "subscribe" /\ q.res = "open")
       => klippy # "down" \/ LossAhead

\* Nothing survives the link it was made on; a reply has an outcome.
SocketOK ==
  /\ link # "up" => pending = {}
  /\ \A e \in Queued : e.res # "open"
  /\ link = "closed" => boot.shown /\ inq = <<>>

LiveOK ==
  /\ ~boot.shown => Live \/ LossAhead
  /\ \A q \in pending \cup Queued : Backed(q)
  /\ SocketOK

LEMMA QueuedFacts ==
  ASSUME IInv
  PROVE  \A e \in Queued : e \in Event /\ (IsReply(e) => Fresh(e))
<1>1. inq \in Seq(Event)
  BY DEF IInv, QueueOK
<1> QED BY <1>1, ElementOfSeq DEF IInv, FreshOK, Queued

\* Taking an event off the socket, and putting one on it.
LEMMA QueuedPop ==
  ASSUME IInv, inq # <<>>, inq' = Tail(inq)
  PROVE  /\ Head(inq) \in Queued
         /\ Queued' \subseteq Queued
         /\ \A e \in Queued : e \in Queued' \/ e = Head(inq)
<1>1. inq \in Seq(Event)
  BY DEF IInv, QueueOK
<1>2. /\ Head(inq) = inq[1] /\ Len(inq') = Len(inq) - 1
      /\ \A i \in 1 .. Len(inq') : inq'[i] = inq[i + 1]
      /\ Len(inq) \in Nat \ {0}
  BY <1>1, HeadTailProperties
<1>3. Head(inq) \in Queued
  <2>1. 1 \in 1 .. Len(inq)
    BY <1>2
  <2> QED BY <1>2, <2>1 DEF Queued
<1>4. Queued' \subseteq Queued
  <2> SUFFICES ASSUME NEW i \in 1 .. Len(inq') PROVE inq'[i] \in Queued
    BY DEF Queued
  <2>1. i + 1 \in 1 .. Len(inq) /\ inq'[i] = inq[i + 1]
    BY <1>2
  <2> QED BY <2>1 DEF Queued
<1>5. ASSUME NEW i \in 1 .. Len(inq) PROVE inq[i] \in Queued' \/ inq[i] = Head(inq)
  <2>1. CASE i = 1
    BY <2>1, <1>2
  <2>2. CASE i # 1
    <3>1. i - 1 \in 1 .. Len(inq') /\ inq'[i - 1] = inq[i]
      BY <2>2, <1>2
    <3> QED BY <3>1 DEF Queued
  <2> QED BY <2>1, <2>2
<1> QED BY <1>3, <1>4, <1>5 DEF Queued

LEMMA QueuedPush ==
  ASSUME IInv, NEW e \in Event, inq' = Append(inq, e)
  PROVE  Queued' = Queued \cup {e}
<1>1. inq \in Seq(Event)
  BY DEF IInv, QueueOK
<1>2. /\ Len(inq') = Len(inq) + 1 /\ Len(inq) \in Nat
      /\ \A i \in 1 .. Len(inq) : inq'[i] = inq[i]
      /\ inq'[Len(inq) + 1] = e
  BY <1>1, AppendProperties, LenProperties
<1>3. ASSUME NEW i \in 1 .. Len(inq') PROVE inq'[i] \in Queued \cup {e}
  BY <1>2 DEF Queued
<1>4. ASSUME NEW i \in 1 .. Len(inq) PROVE inq[i] \in Queued'
  <2>1. i \in 1 .. Len(inq') /\ inq'[i] = inq[i]
    BY <1>2
  <2> QED BY <2>1 DEF Queued
<1>5. e \in Queued'
  <2>1. Len(inq) + 1 \in 1 .. Len(inq')
    BY <1>2
  <2> QED BY <1>2, <2>1 DEF Queued
<1> QED BY <1>3, <1>4, <1>5 DEF Queued

\* disconnected() leaves no request of the current epoch and no cockpit.
LEMMA DisconnectedLive ==
  ASSUME IInv, disconnected, pending' = pending, Queued' \subseteq Queued
  PROVE  boot'.shown /\ \A q \in pending' \cup Queued' : Backed(q)'
<1>1. boot'.shown
  BY DEF IInv, PanelOK, disconnected
<1>2. conn_epoch_' = conn_epoch_ + 1 /\ conn_epoch_ \in Nat
  BY DEF IInv, PanelOK, disconnected
<1>3. ASSUME NEW q \in pending' \cup Queued', IsReply(q)
      PROVE  q.epoch # conn_epoch_'
  <2>1. q \in Event /\ Fresh(q)
    BY <1>3, QueuedFacts, EventTypes DEF IInv, QueueOK, FreshOK
  <2>2. q.epoch \in Nat
    BY <2>1, EventTypes
  <2> QED BY <1>2, <2>1, <2>2 DEF Fresh
<1> QED BY <1>1, <1>3 DEF Backed, IsReply

\* A step that keeps the epoch, and neither what backs a reply nor the loss
\* that is on its way, keeps every reply backed.
LEMMA BackedKeeps ==
  ASSUME conn_epoch_' = conn_epoch_,
         klippy' = "down" => klippy = "down" \/ LossAhead',
         Live => Live' \/ LossAhead', LossAhead => LossAhead',
         NEW q, Backed(q)
  PROVE  Backed(q)'
  BY DEF Backed

LEMMA ScreenLive == IInv /\ LiveOK /\ (Screen \/ ConnectFails) => LiveOK'
<1> SUFFICES ASSUME IInv, LiveOK, Screen \/ ConnectFails PROVE LiveOK'
  OBVIOUS
<1> USE DEF LiveOK, SocketOK
<1>0. boot \in [shown : BOOLEAN, stage : Stage, revealed : BOOLEAN]
  BY DEF IInv, PanelOK
<1>1. CASE onopen
  <2>1. /\ link = "closed" /\ link' = "up" /\ inq' = inq /\ inq = <<>>
        /\ pending = {} /\ boot.shown /\ connected
    BY <1>1 DEF onopen
  <2>2. boot'.shown /\ \A q \in pending' : q.m = "list" /\ q.res = "open"
    BY <1>0, <2>1 DEF connected, NewRequest
  <2>3. Queued' = {}
    BY <2>1 DEF Queued
  <2> QED BY <2>1, <2>2, <2>3 DEF Backed
<1>2. CASE ConnectFails
  <2>1. link' = link /\ inq' = inq /\ pending' = pending /\ disconnected /\ Queued' = Queued
    BY <1>2 DEF ConnectFails, Queued
  <2> QED BY <2>1, DisconnectedLive
<1>3. CASE onclose
  <2>1. /\ link' = "closed" /\ link = "dropped" /\ inq' = inq /\ inq = <<>>
        /\ pending' = pending /\ disconnected /\ Queued' = Queued
    BY <1>3 DEF onclose, Queued
  <2> QED BY <2>1, DisconnectedLive
<1>4. CASE OnKlippyLost
  <2>1. /\ link' = link /\ link # "closed" /\ inq # <<>> /\ inq' = Tail(inq)
        /\ pending' = pending /\ disconnected
    BY <1>4 DEF OnKlippyLost, OnMessage
  <2> QED BY <2>1, DisconnectedLive, QueuedPop
\* the other messages: the loss ahead stays ahead
<1>5. ASSUME link # "closed", inq # <<>>, inq' = Tail(inq), conn_epoch_' = conn_epoch_,
             Head(inq).m # "notify_klippy_disconnected", UNCHANGED <<link, world>>
      PROVE  /\ LossAhead => LossAhead'
             /\ Live <=> Live'
             /\ \A q : Backed(q) => Backed(q)'
             /\ Head(inq) \in Queued /\ Queued' \subseteq Queued
  <2>1. /\ Head(inq) \in Queued /\ Queued' \subseteq Queued
        /\ \A e \in Queued : e \in Queued' \/ e = Head(inq)
    BY <1>5, QueuedPop
  <2>2. klippy' = klippy /\ note' = note /\ subscribed' = subscribed /\ link' = link
    BY <1>5 DEF world
  <2>3. (LossAhead => LossAhead') /\ (Live <=> Live')
    BY <1>5, <2>1, <2>2 DEF LossAhead, Live
  <2> QED BY <1>5, <2>1, <2>2, <2>3, BackedKeeps
<1>6. CASE OnList
  <2>1. /\ link # "closed" /\ inq # <<>> /\ inq' = Tail(inq) /\ list_reply(Head(inq))
        /\ Head(inq).m = "list" /\ UNCHANGED <<link, world>>
    BY <1>6 DEF OnList, OnMessage
  <2>2. conn_epoch_' = conn_epoch_ /\ boot'.shown = boot.shown
    BY <1>0, <2>1 DEF list_reply
  <2>3. ASSUME NEW q \in pending'
        PROVE  q \in pending \/ (/\ q.m = "subscribe" /\ q.res = "open"
                                 /\ q.epoch = Head(inq).epoch /\ Head(inq).res = "ok"
                                 /\ link = "up")
    BY <2>1 DEF list_reply, NewRequest
  <2>4. /\ LossAhead => LossAhead'
        /\ Live <=> Live'
        /\ \A q : Backed(q) => Backed(q)'
        /\ Head(inq) \in Queued /\ Queued' \subseteq Queued
    BY <1>5, <2>1, <2>2
  <2>5. ASSUME NEW q \in pending' PROVE Backed(q)'
    <3>1. CASE q \in pending
      BY <3>1, <2>4
    <3>2. CASE q \notin pending
      <4>1. Backed(Head(inq)) /\ klippy' = klippy
        BY <2>1, <2>4 DEF world
      <4> QED BY <3>2, <4>1, <2>1, <2>2, <2>3, <2>4 DEF Backed
    <3> QED BY <3>1, <3>2
  <2>6. SocketOK'
    BY <2>1, <2>3, <2>4
  <2> QED BY <2>2, <2>4, <2>5, <2>6
<1>7. CASE OnSubscribe
  <2>1. /\ link # "closed" /\ inq # <<>> /\ inq' = Tail(inq) /\ subscribe_reply(Head(inq))
        /\ Head(inq).m = "subscribe" /\ UNCHANGED <<link, world>>
    BY <1>7 DEF OnSubscribe, OnMessage
  <2>2. conn_epoch_' = conn_epoch_ /\ pending' = pending
    BY <2>1 DEF subscribe_reply
  <2>3. /\ LossAhead => LossAhead'
        /\ Live <=> Live'
        /\ \A q : Backed(q) => Backed(q)'
        /\ Head(inq) \in Queued /\ Queued' \subseteq Queued
    BY <1>5, <2>1, <2>2
  <2>4. boot' = boot \/ Head(inq).epoch = conn_epoch_
    BY <2>1 DEF subscribe_reply
  <2>5. Head(inq).res # "open"
    BY <2>3
  <2> QED BY <2>1, <2>2, <2>3, <2>4, <2>5 DEF Backed
<1>8. CASE OnKlippyReady
  <2>1. /\ link # "closed" /\ inq # <<>> /\ inq' = Tail(inq) /\ connected
        /\ Head(inq).m = "notify_klippy_ready" /\ UNCHANGED <<link, world>>
    BY <1>8 DEF OnKlippyReady, OnMessage
  <2>2. conn_epoch_' = conn_epoch_ /\ boot'.shown = boot.shown
    BY <1>0, <2>1 DEF connected
  <2>3. \A q \in pending' : q \in pending \/ (q.m = "list" /\ q.res = "open" /\ link = "up")
    BY <2>1 DEF connected, NewRequest
  <2>4. /\ LossAhead => LossAhead'
        /\ Live <=> Live'
        /\ \A q : Backed(q) => Backed(q)'
        /\ Head(inq) \in Queued /\ Queued' \subseteq Queued
    BY <1>5, <2>1, <2>2
  <2>5. \A q \in pending' : Backed(q)'
    BY <2>3, <2>4 DEF Backed
  <2> QED BY <2>1, <2>2, <2>3, <2>4, <2>5
<1> QED BY <1>1, <1>2, <1>3, <1>4, <1>6, <1>7, <1>8 DEF Screen

LEMMA WorldLive == IInv /\ LiveOK /\ World => LiveOK'
<1> SUFFICES ASSUME IInv, LiveOK, World PROVE LiveOK'
  OBVIOUS
<1> USE DEF LiveOK, SocketOK
<1>0. panel' = panel => conn_epoch_' = conn_epoch_ /\ boot' = boot
  BY DEF panel
<1>1. inq' = inq => Queued' = Queued
  BY DEF Queued
<1>2. ASSUME NEW q \in pending, Evaluate(q) PROVE LiveOK'
  <2>1. /\ q.res = "open" /\ panel' = panel /\ link' = link /\ inq' = inq
        /\ klippy' = klippy /\ note' = note
    BY <1>2 DEF Evaluate
  <2>2. q \in Request /\ link = "up"
    BY DEF IInv, QueueOK
  <2> DEFINE done == [q EXCEPT !.res = IF klippy = "down" THEN "error" ELSE "ok"]
  <2>3. /\ done.epoch = q.epoch /\ done.m = q.m
        /\ done.res = IF klippy = "down" THEN "error" ELSE "ok"
    BY <2>2 DEF Request
  <2>4. \A r \in pending' : r \in pending \/ r = done
    BY <1>2 DEF Evaluate
  <2> HIDE DEF done
  <2>5. (LossAhead <=> LossAhead') /\ (Live => Live')
    BY <1>1, <1>2, <2>1 DEF LossAhead, Live, Evaluate
  <2>6. \A r : Backed(r) => Backed(r)'
    BY <1>0, <2>1, <2>5, BackedKeeps
  <2>7. q.m = "subscribe" /\ klippy # "down" => Live'
    BY <1>2, <2>1, <2>2 DEF Evaluate, Live
  <2>8. ASSUME NEW r, r = done PROVE Backed(r)'
    <3>1. Backed(q)
      OBVIOUS
    <3>2. r.epoch = q.epoch /\ r.m = q.m /\ (r.res = "ok" <=> klippy # "down") /\ r.res # "open"
      BY <2>3, <2>8
    <3> QED BY <3>1, <3>2, <1>0, <2>1, <2>5, <2>7 DEF Backed
  <2> QED BY <1>0, <1>1, <2>1, <2>2, <2>4, <2>5, <2>6, <2>8
<1>3. ASSUME NEW q \in pending, Deliver(q) PROVE LiveOK'
  <2>1. /\ q.res # "open" /\ link = "up" /\ link' = link /\ panel' = panel
        /\ inq' = Append(inq, q) /\ pending' = pending \ {q} /\ world' = world
    BY <1>3 DEF Deliver, world
  <2>2. q \in Request
    BY DEF IInv, QueueOK
  <2>3. Queued' = Queued \cup {q}
    BY <2>1, <2>2, QueuedPush, EventTypes
  <2>4. (LossAhead => LossAhead') /\ (Live => Live')
    BY <2>1, <2>3 DEF LossAhead, Live, world
  <2>5. \A r : Backed(r) => Backed(r)'
    BY <1>0, <2>1, <2>4, BackedKeeps DEF world
  <2> QED BY <1>0, <2>1, <2>3, <2>4, <2>5
<1>4. CASE Notify
  <2>1. /\ note \in Notes /\ note' = "none" /\ panel' = panel /\ link' = link
        /\ pending' = pending /\ klippy' = klippy /\ subscribed' = subscribed
        /\ inq' = IF link = "up" THEN Append(inq, Note(note)) ELSE inq
    BY <1>4 DEF Notify, IInv, WorldOK
  <2>2. CASE link = "up"
    <3>1. Queued' = Queued \cup {Note(note)}
      BY <2>1, <2>2, QueuedPush, EventTypes
    <3>2. (LossAhead => LossAhead') /\ (Live => Live')
      BY <2>1, <2>2, <3>1 DEF LossAhead, Live, Note
    <3>3. \A r : Backed(r) => Backed(r)'
      BY <1>0, <2>1, <3>2, BackedKeeps
    <3>4. Backed(Note(note)) /\ Note(note).res = "ok"
      BY <2>1 DEF Backed, Note, Notes
    <3> QED BY <1>0, <2>1, <2>2, <3>1, <3>2, <3>3, <3>4
  <2>3. CASE link = "dropped"
    <3>1. LossAhead' /\ Queued' = Queued /\ pending = {}
      BY <1>1, <2>1, <2>3 DEF LossAhead
    <3> QED BY <1>0, <2>1, <2>3, <3>1 DEF Backed
  <2>4. CASE link = "closed"
    <3>1. Queued' = {} /\ pending = {} /\ inq' = inq
      BY <2>1, <2>4 DEF Queued
    <3> QED BY <1>0, <2>1, <2>4, <3>1
  <2> QED BY <2>2, <2>3, <2>4 DEF IInv, WorldOK
<1>5. CASE KlippyReady \/ KlippyDown \/ KlippyShutdown \/ KlippyRestart
  <2>1. panel' = panel /\ inq' = inq /\ pending' = pending /\ link' = link /\ note = "none"
    BY <1>5 DEF KlippyReady, KlippyDown, KlippyShutdown, KlippyRestart
  <2>2. LossAhead => LossAhead'
    BY <1>1, <2>1 DEF LossAhead
  <2>3. klippy' = "down" => LossAhead'
    BY <1>5 DEF KlippyReady, KlippyDown, KlippyShutdown, KlippyRestart, LossAhead
  <2>4. Live => Live' \/ LossAhead'
    BY <1>5, <2>1 DEF Live, KlippyReady, KlippyDown, KlippyShutdown, KlippyRestart, LossAhead
  <2>5. \A r : Backed(r) => Backed(r)'
    BY <1>0, <2>1, <2>2, <2>3, <2>4, BackedKeeps
  <2> QED BY <1>0, <1>1, <2>1, <2>2, <2>4, <2>5
<1>6. CASE LinkDrop
  <2>1. /\ panel' = panel /\ pending' = {} /\ link' = "dropped"
        /\ inq' = inq \/ inq' = <<>>
    BY <1>6 DEF LinkDrop
  <2>2. LossAhead' /\ Queued' \subseteq Queued
    BY <1>1, <2>1 DEF LossAhead, Queued
  <2> QED BY <1>0, <2>1, <2>2 DEF Backed
<1> QED BY <1>2, <1>3, <1>4, <1>5, <1>6 DEF World

LEMMA LiveInductive == Spec => []LiveOK
<1>1. Init => LiveOK
  BY DEF Init, LiveOK, SocketOK, Queued
<1>2. LiveOK /\ UNCHANGED vars => LiveOK'
  BY DEF vars, panel, world, LiveOK, SocketOK, Queued, Backed, Live, LossAhead
<1>3. IInv /\ LiveOK /\ [Next]_vars => LiveOK'
  BY <1>2, ScreenLive, WorldLive DEF Next, World
<1> QED BY <1>1, <1>3, Inductive, PTL DEF Spec

\* Once every event has reached the screen, a cockpit in front means an open
\* socket, a Klipper that is there and a live subscription, for any number of
\* losses and any overtaking of replies and notifications
\* (init_panel.cpp:119-206).
THEOREM NoDeadCockpit == Spec => []CockpitIsLive
<1>1. LiveOK => CockpitIsLive
  BY DEF LiveOK, CockpitIsLive, Quiet, Live, LossAhead, Queued
<1> QED BY <1>1, LiveInductive, PTL

-----------------------------------------------------------------------------
(***************************************************************************)
(* No handshake is lost. CockpitComes in two halves that need no fairness: *)
(* where nothing is left to do the cockpit is in front of a ready Klipper, *)
(* and every step uses up a fault or lowers the work that is under way.    *)
(***************************************************************************)

IsLoss(e)  == e.m \in {"notify_klippy_disconnected", "notify_klippy_shutdown"}
IsReady(e) == e.m = "notify_klippy_ready"

\* A notify_klippy_ready behind position i of the socket.
ReadyAfter(i) ==
  \/ note = "notify_klippy_ready"
  \/ \E j \in 1 .. Len(inq) : j > i /\ IsReady(inq[j])

\* A handshake of the current epoch that Klipper has not refused.
UnderWay ==
  \E q \in pending \cup Queued :
    /\ q.epoch = conn_epoch_
    /\ q.m = "subscribe" \/ (q.m = "list" /\ q.res # "error")

WakeOK ==
  /\ klippy = "ready" => note \in {"none", "notify_klippy_ready"}
  /\ link = "up" /\ klippy = "ready" =>
       /\ \A i \in 1 .. Len(inq) : IsLoss(inq[i]) => ReadyAfter(i)
       /\ ReadyAfter(0) \/ ~boot.shown \/ UnderWay

LEMMA WakePop ==
  ASSUME IInv, WakeOK, link = "up", klippy = "ready", note' = note,
         inq # <<>>, inq' = Tail(inq)
  PROVE  /\ \A i \in 1 .. Len(inq') : IsLoss(inq'[i]) => ReadyAfter(i)'
         /\ IsLoss(Head(inq)) => ReadyAfter(0)'
         /\ ReadyAfter(0) /\ ~IsReady(Head(inq)) => ReadyAfter(0)'
<1>1. /\ Head(inq) = inq[1] /\ Len(inq') = Len(inq) - 1
      /\ \A i \in 1 .. Len(inq') : inq'[i] = inq[i + 1]
      /\ Len(inq) \in Nat \ {0}
  BY HeadTailProperties DEF IInv, QueueOK
<1>2. ASSUME NEW i \in 0 .. Len(inq'), ReadyAfter(i + 1) PROVE ReadyAfter(i)'
  <2>1. CASE note = "notify_klippy_ready"
    BY <2>1 DEF ReadyAfter
  <2>2. CASE note # "notify_klippy_ready"
    <3>1. PICK j \in 1 .. Len(inq) : j > i + 1 /\ IsReady(inq[j])
      BY <1>2, <2>2 DEF ReadyAfter
    <3>2. j - 1 \in 1 .. Len(inq') /\ j - 1 > i /\ inq'[j - 1] = inq[j]
      BY <1>1, <3>1
    <3> QED BY <3>1, <3>2 DEF ReadyAfter
  <2> QED BY <2>1, <2>2
<1>3. ASSUME NEW i \in 1 .. Len(inq'), IsLoss(inq'[i]) PROVE ReadyAfter(i)'
  <2>1. i + 1 \in 1 .. Len(inq) /\ inq'[i] = inq[i + 1] /\ i \in 0 .. Len(inq')
    BY <1>1
  <2> QED BY <1>2, <1>3, <2>1 DEF WakeOK
<1>4. 0 \in 0 .. Len(inq') /\ 1 \in 1 .. Len(inq)
  BY <1>1
<1>5. IsLoss(Head(inq)) => ReadyAfter(0)'
  BY <1>1, <1>2, <1>4 DEF WakeOK
<1>6. ASSUME ReadyAfter(0), ~IsReady(Head(inq)) PROVE ReadyAfter(0)'
  <2>1. ReadyAfter(1)
    BY <1>1, <1>6 DEF ReadyAfter
  <2> QED BY <1>2, <1>4, <2>1
<1> QED BY <1>3, <1>5, <1>6

LEMMA WakePush ==
  ASSUME IInv, WakeOK, link = "up", klippy = "ready", NEW e \in Event,
         inq' = Append(inq, e), ~IsLoss(e),
         note' = note \/ IsReady(e)
  PROVE  /\ \A i \in 1 .. Len(inq') : IsLoss(inq'[i]) => ReadyAfter(i)'
         /\ ReadyAfter(0) => ReadyAfter(0)'
         /\ IsReady(e) => ReadyAfter(0)'
<1>1. /\ Len(inq') = Len(inq) + 1 /\ Len(inq) \in Nat
      /\ \A i \in 1 .. Len(inq) : inq'[i] = inq[i]
      /\ inq'[Len(inq) + 1] = e
  BY AppendProperties, LenProperties DEF IInv, QueueOK
<1>2. ASSUME NEW i \in 0 .. Len(inq), IsReady(e) PROVE ReadyAfter(i)'
  <2>1. Len(inq) + 1 \in 1 .. Len(inq') /\ Len(inq) + 1 > i
    BY <1>1
  <2> QED BY <1>1, <1>2, <2>1 DEF ReadyAfter
<1>3. ASSUME NEW i \in 0 .. Len(inq), ReadyAfter(i) PROVE ReadyAfter(i)'
  <2>1. CASE IsReady(e)
    BY <1>2, <2>1
  <2>2. CASE note' = note /\ note = "notify_klippy_ready"
    BY <2>2 DEF ReadyAfter
  <2>3. CASE note # "notify_klippy_ready"
    <3>1. PICK j \in 1 .. Len(inq) : j > i /\ IsReady(inq[j])
      BY <1>3, <2>3 DEF ReadyAfter
    <3>2. j \in 1 .. Len(inq') /\ inq'[j] = inq[j]
      BY <1>1
    <3> QED BY <3>1, <3>2 DEF ReadyAfter
  <2> QED BY <2>1, <2>2, <2>3
<1>4. ASSUME NEW i \in 1 .. Len(inq'), IsLoss(inq'[i]) PROVE ReadyAfter(i)'
  <2>1. i # Len(inq) + 1
    BY <1>1, <1>4
  <2>2. i \in 1 .. Len(inq) /\ i \in 0 .. Len(inq) /\ inq'[i] = inq[i]
    BY <1>1, <2>1
  <2> QED BY <1>3, <1>4, <2>2 DEF WakeOK
<1>5. 0 \in 0 .. Len(inq)
  BY <1>1
<1> QED BY <1>2, <1>3, <1>4, <1>5

LEMMA ScreenWake ==
  ASSUME IInv, LiveOK, WakeOK, Screen \/ ConnectFails PROVE WakeOK'
<1>0. UNCHANGED <<klippy, note>>
  BY DEF Screen, ConnectFails, onopen, onclose, OnList, OnSubscribe, OnKlippyReady,
         OnKlippyLost, world
<1>1. SUFFICES ASSUME link' = "up", klippy = "ready"
               PROVE  /\ \A i \in 1 .. Len(inq') : IsLoss(inq'[i]) => ReadyAfter(i)'
                      /\ ReadyAfter(0)' \/ ~boot'.shown \/ UnderWay'
  BY <1>0 DEF WakeOK
<1>2. boot \in [shown : BOOLEAN, stage : Stage, revealed : BOOLEAN]
      /\ conn_epoch_ \in Nat /\ handshakes \in Nat
  BY DEF IInv, PanelOK
<1>3. ASSUME connected PROVE UnderWay'
  <2> DEFINE new == NewRequest("list", handshakes + 1, conn_epoch_)
  <2>1. new \in pending' /\ conn_epoch_' = conn_epoch_
    BY <1>1, <1>3 DEF connected
  <2>2. new.epoch = conn_epoch_ /\ new.m = "list" /\ new.res # "error"
    BY DEF NewRequest
  <2> QED BY <2>1, <2>2 DEF UnderWay
<1>4. CASE onopen
  <2>1. inq' = <<>> /\ connected
    BY <1>4 DEF onopen, LiveOK, SocketOK
  <2> QED BY <1>3, <2>1
<1>5. CASE ConnectFails \/ onclose
  BY <1>1, <1>5 DEF ConnectFails, onclose
<1>6. CASE OnKlippyLost
  <2>1. link = "up" /\ inq # <<>> /\ inq' = Tail(inq) /\ IsLoss(Head(inq))
    BY <1>1, <1>6 DEF OnKlippyLost, OnMessage, IsLoss
  <2> QED BY <1>0, <1>1, <2>1, WakePop
<1>7. CASE OnKlippyReady
  <2>1. link = "up" /\ inq # <<>> /\ inq' = Tail(inq) /\ connected
    BY <1>1, <1>7 DEF OnKlippyReady, OnMessage
  <2> QED BY <1>0, <1>1, <1>3, <2>1, WakePop
<1>8. CASE OnList
  <2>1. /\ link = "up" /\ inq # <<>> /\ inq' = Tail(inq) /\ list_reply(Head(inq))
        /\ Head(inq).m = "list"
    BY <1>1, <1>8 DEF OnList, OnMessage
  <2>2. conn_epoch_' = conn_epoch_ /\ boot'.shown = boot.shown /\ pending \subseteq pending'
    BY <1>2, <2>1 DEF list_reply
  <2>3. /\ \A i \in 1 .. Len(inq') : IsLoss(inq'[i]) => ReadyAfter(i)'
        /\ ReadyAfter(0) => ReadyAfter(0)'
    BY <1>0, <1>1, <2>1, WakePop DEF IsReady
  <2>4. /\ Head(inq) \in Queued
        /\ \A e \in Queued : e \in Queued' \/ e = Head(inq)
    BY <2>1, QueuedPop
  <2>5. Head(inq).res \in {"ok", "error"}
    <3>1. Head(inq) \in Request /\ Head(inq).res # "open"
      BY <2>1, <2>4, QueuedFacts, EventTypes DEF LiveOK, SocketOK, IsReply
    <3> QED BY <3>1 DEF Request, Verdict
  <2>6. UnderWay => UnderWay'
    <3> SUFFICES ASSUME UnderWay PROVE UnderWay'
      OBVIOUS
    <3>1. PICK q \in pending \cup Queued :
            /\ q.epoch = conn_epoch_
            /\ q.m = "subscribe" \/ (q.m = "list" /\ q.res # "error")
      BY DEF UnderWay
    <3>2. CASE q \in pending' \cup Queued'
      BY <2>2, <3>1, <3>2 DEF UnderWay
    <3>3. CASE q \notin pending' \cup Queued'
      <4>1. q = Head(inq) /\ Head(inq).res = "ok"
        BY <2>1, <2>2, <2>4, <2>5, <3>1, <3>3
      <4> DEFINE new == NewRequest("subscribe", q.hs, q.epoch)
      <4>2. new \in pending'
        BY <2>1, <4>1 DEF list_reply
      <4>3. new.epoch = q.epoch /\ new.m = "subscribe"
        BY DEF NewRequest
      <4> QED BY <2>2, <3>1, <4>2, <4>3 DEF UnderWay
    <3> QED BY <3>2, <3>3
  <2> QED BY <1>1, <2>1, <2>2, <2>3, <2>6 DEF WakeOK
<1>9. CASE OnSubscribe
  <2>1. /\ link = "up" /\ inq # <<>> /\ inq' = Tail(inq) /\ subscribe_reply(Head(inq))
        /\ Head(inq).m = "subscribe"
    BY <1>1, <1>9 DEF OnSubscribe, OnMessage
  <2>2. /\ conn_epoch_' = conn_epoch_ /\ pending' = pending
        /\ ~boot.shown => ~boot'.shown
        /\ Head(inq).epoch = conn_epoch_ => ~boot'.shown
    BY <1>2, <2>1 DEF subscribe_reply
  <2>3. /\ \A i \in 1 .. Len(inq') : IsLoss(inq'[i]) => ReadyAfter(i)'
        /\ ReadyAfter(0) => ReadyAfter(0)'
    BY <1>0, <1>1, <2>1, WakePop DEF IsReady
  <2>4. \A e \in Queued : e \in Queued' \/ e = Head(inq)
    BY <2>1, QueuedPop
  <2>5. UnderWay => UnderWay' \/ ~boot'.shown
    BY <2>2, <2>4 DEF UnderWay
  <2> QED BY <1>1, <2>1, <2>2, <2>3, <2>5 DEF WakeOK
<1> QED BY <1>4, <1>5, <1>6, <1>7, <1>8, <1>9 DEF Screen

LEMMA WorldWake ==
  ASSUME IInv, LiveOK, WakeOK, World PROVE WakeOK'
<1>1. ASSUME NEW q \in pending, Evaluate(q) PROVE WakeOK'
  <2>1. UNCHANGED <<klippy, note, link, inq, boot, conn_epoch_>> /\ q.res = "open"
    BY <1>1 DEF Evaluate, panel
  <2> DEFINE done == [q EXCEPT !.res = IF klippy = "down" THEN "error" ELSE "ok"]
  <2>2. q \in Request
    BY DEF IInv, QueueOK
  <2>3. done.epoch = q.epoch /\ done.m = q.m /\ (klippy = "ready" => done.res # "error")
    BY <2>2 DEF Request
  <2>4. done \in pending' /\ \A r \in pending : r \in pending' \/ r = q
    BY <1>1 DEF Evaluate
  <2> HIDE DEF done
  <2>5. klippy = "ready" /\ UnderWay => UnderWay'
    BY <2>1, <2>3, <2>4 DEF UnderWay, Queued
  <2> QED BY <2>1, <2>5 DEF WakeOK, ReadyAfter
<1>2. ASSUME NEW q \in pending, Deliver(q) PROVE WakeOK'
  <2>1. /\ UNCHANGED <<klippy, note, link, boot, conn_epoch_>> /\ link = "up"
        /\ inq' = Append(inq, q) /\ pending' = pending \ {q}
    BY <1>2 DEF Deliver, world, panel
  <2>2. q \in Request /\ q \in Event /\ ~IsLoss(q)
    BY EventTypes DEF IInv, QueueOK, Request, IsLoss
  <2>3. Queued' = Queued \cup {q}
    BY <2>1, <2>2, QueuedPush
  <2>4. UnderWay => UnderWay'
    BY <2>1, <2>3 DEF UnderWay
  <2>5. klippy = "ready" =>
          /\ \A i \in 1 .. Len(inq') : IsLoss(inq'[i]) => ReadyAfter(i)'
          /\ ReadyAfter(0) => ReadyAfter(0)'
    BY <2>1, <2>2, WakePush
  <2> QED BY <2>1, <2>4, <2>5 DEF WakeOK
<1>3. CASE Notify
  <2>1. /\ UNCHANGED <<klippy, link, boot, conn_epoch_>> /\ note' = "none" /\ note \in Notes
        /\ link = "up" => inq' = Append(inq, Note(note))
    BY <1>3 DEF Notify, panel, IInv, WorldOK
  <2>2. ASSUME link = "up", klippy = "ready"
        PROVE  /\ \A i \in 1 .. Len(inq') : IsLoss(inq'[i]) => ReadyAfter(i)'
               /\ ReadyAfter(0)'
    <3>1. note = "notify_klippy_ready"
      BY <2>1, <2>2 DEF WakeOK, Notes
    <3>2. Note(note) \in Event /\ ~IsLoss(Note(note)) /\ IsReady(Note(note))
      BY <2>1, <3>1, EventTypes DEF Note, IsLoss, IsReady
    <3> QED BY <2>1, <2>2, <3>2, WakePush
  <2> QED BY <2>1, <2>2 DEF WakeOK
<1>4. CASE KlippyReady
  <2>1. note' = "notify_klippy_ready"
    BY <1>4 DEF KlippyReady
  <2> QED BY <2>1 DEF WakeOK, ReadyAfter
<1>5. CASE KlippyDown \/ KlippyShutdown \/ KlippyRestart
  <2>1. klippy' # "ready"
    BY <1>5 DEF KlippyDown, KlippyShutdown, KlippyRestart
  <2> QED BY <2>1 DEF WakeOK
<1>6. CASE LinkDrop
  <2>1. link' # "up" /\ UNCHANGED <<klippy, note>>
    BY <1>6 DEF LinkDrop
  <2> QED BY <2>1 DEF WakeOK
<1> QED BY <1>1, <1>2, <1>3, <1>4, <1>5, <1>6 DEF World

LEMMA WakeInductive == Spec => []WakeOK
<1>1. Init => WakeOK
  BY DEF Init, WakeOK
<1>2. WakeOK /\ UNCHANGED vars => WakeOK'
  BY DEF vars, panel, world, WakeOK, ReadyAfter, UnderWay, Queued
<1>3. IInv /\ LiveOK /\ WakeOK /\ [Next]_vars => WakeOK'
  BY <1>2, ScreenWake, WorldWake DEF Next, World
<1> QED BY <1>1, <1>3, Inductive, LiveInductive, PTL DEF Spec

\* No fair action of FairSpec can be taken, each by its guard.
AtRest == link = "up" /\ inq = <<>> /\ note = "none" /\ pending = {}

\* No handshake is lost: wherever the websocket thread and Moonraker have
\* nothing left to do and Klipper is ready, the cockpit is in front and fed,
\* whatever order replies, notifications and losses came in. No epoch check
\* ever throws away the last handshake there is (init_panel.cpp:119-206).
THEOREM NoLostHandshake ==
  Spec => [](AtRest /\ klippy = "ready" => ~boot.shown /\ subscribed)
<1>1. WakeOK /\ AtRest /\ klippy = "ready" => ~boot.shown
  BY DEF WakeOK, AtRest, ReadyAfter, UnderWay, Queued
<1>2. AtRest => Quiet
  BY DEF AtRest, Quiet
<1>3. WakeOK /\ CockpitIsLive => (AtRest /\ klippy = "ready" => ~boot.shown /\ subscribed)
  BY <1>1, <1>2 DEF CockpitIsLive
<1> QED BY <1>3, WakeInductive, NoDeadCockpit, PTL

-----------------------------------------------------------------------------
\* The work under way.

Lists(P)  == {q \in P : q.m = "list"}
Open(P)   == {q \in P : q.res = "open"}
At(s, m)  == {i \in 1 .. Len(s) : s[i].m = m}

\* A subscribe request costs its evaluation, its delivery and its reply; a
\* list request the same and the subscribe it leads to; a notify_klippy_ready,
\* or a link that opens, the handshake it starts.
Weigh(p, l, o, n, nl, nr, w) == 2 * p + 3 * l + o + n + 3 * nl + 6 * nr + w

NoteOwed   == IF note = "none" THEN 0
              ELSE IF note = "notify_klippy_ready" THEN 8 ELSE 2
LinkOwed   == IF link = "up" THEN 0 ELSE IF link = "closed" THEN 7 ELSE 8
KlippyOwed == IF klippy = "ready" THEN 0 ELSE IF klippy = "down" THEN 9 ELSE 12
Owed == NoteOwed + LinkOwed + KlippyOwed

Reqs     == Cardinality(pending)
ListReqs == Cardinality(Lists(pending))
OpenReqs == Cardinality(Open(pending))
Events   == Len(inq)
ListEvts == Cardinality(At(inq, "list"))
Readies  == Cardinality(At(inq, "notify_klippy_ready"))

Work == Weigh(Reqs, ListReqs, OpenReqs, Events, ListEvts, Readies, Owed)

\* Every step of the handshake, of Moonraker and of Klipper lowers the work;
\* only a fault may raise it.
RunsDown == faults' > faults \/ (faults' = faults /\ Work' < Work)

FiniteOK == IsFiniteSet(pending)

LEMMA RequestAdded ==
  ASSUME NEW P, IsFiniteSet(P), NEW x
  PROVE  /\ IsFiniteSet(P \cup {x})
         /\ Cardinality(P \cup {x}) \in {Cardinality(P), Cardinality(P) + 1}
         /\ Cardinality(Lists(P \cup {x})) \in
              {Cardinality(Lists(P)), Cardinality(Lists(P)) + 1}
         /\ x.m # "list" => Cardinality(Lists(P \cup {x})) = Cardinality(Lists(P))
         /\ Cardinality(Open(P \cup {x})) \in
              {Cardinality(Open(P)), Cardinality(Open(P)) + 1}
         /\ x.res # "open" => Cardinality(Open(P \cup {x})) = Cardinality(Open(P))
<1>1. IsFiniteSet(Lists(P)) /\ IsFiniteSet(Open(P))
  <2>1. Lists(P) \subseteq P /\ Open(P) \subseteq P
    BY DEF Lists, Open
  <2> QED BY <2>1, FS_Subset
<1>2. /\ Lists(P \cup {x}) = IF x.m = "list" THEN Lists(P) \cup {x} ELSE Lists(P)
      /\ Open(P \cup {x}) = IF x.res = "open" THEN Open(P) \cup {x} ELSE Open(P)
  BY DEF Lists, Open
<1>3. /\ IsFiniteSet(P \cup {x})
      /\ Cardinality(P \cup {x}) \in {Cardinality(P), Cardinality(P) + 1}
  BY FS_AddElement
<1>4. /\ Cardinality(Lists(P) \cup {x}) \in {Cardinality(Lists(P)), Cardinality(Lists(P)) + 1}
      /\ Cardinality(Open(P) \cup {x}) \in {Cardinality(Open(P)), Cardinality(Open(P)) + 1}
  BY <1>1, FS_AddElement
<1> QED BY <1>2, <1>3, <1>4

LEMMA RequestRemoved ==
  ASSUME NEW P, IsFiniteSet(P), NEW x \in P
  PROVE  /\ IsFiniteSet(P \ {x})
         /\ Cardinality(P \ {x}) = Cardinality(P) - 1
         /\ Cardinality(Lists(P \ {x})) =
              IF x.m = "list" THEN Cardinality(Lists(P)) - 1 ELSE Cardinality(Lists(P))
         /\ Cardinality(Open(P \ {x})) =
              IF x.res = "open" THEN Cardinality(Open(P)) - 1 ELSE Cardinality(Open(P))
<1>1. IsFiniteSet(Lists(P)) /\ IsFiniteSet(Open(P))
  <2>1. Lists(P) \subseteq P /\ Open(P) \subseteq P
    BY DEF Lists, Open
  <2> QED BY <2>1, FS_Subset
<1>2. Lists(P \ {x}) = Lists(P) \ {x} /\ Open(P \ {x}) = Open(P) \ {x}
  BY DEF Lists, Open
<1>3. (x \in Lists(P) <=> x.m = "list") /\ (x \in Open(P) <=> x.res = "open")
  BY DEF Lists, Open
<1>4. /\ IsFiniteSet(P \ {x})
      /\ Cardinality(P \ {x}) = Cardinality(P) - 1
  BY FS_RemoveElement
<1>5. /\ Cardinality(Lists(P) \ {x}) =
           IF x \in Lists(P) THEN Cardinality(Lists(P)) - 1 ELSE Cardinality(Lists(P))
      /\ Cardinality(Open(P) \ {x}) =
           IF x \in Open(P) THEN Cardinality(Open(P)) - 1 ELSE Cardinality(Open(P))
  BY <1>1, FS_RemoveElement
<1> QED BY <1>2, <1>3, <1>4, <1>5

LEMMA AtFinite ==
  ASSUME NEW s \in Seq(Event), NEW m
  PROVE  IsFiniteSet(At(s, m)) /\ Cardinality(At(s, m)) \in Nat
<1>1. IsFiniteSet(1 .. Len(s))
  BY LenProperties, FS_Interval
<1>2. At(s, m) \subseteq 1 .. Len(s)
  BY DEF At
<1>3. IsFiniteSet(At(s, m))
  BY <1>1, <1>2, FS_Subset
<1> QED BY <1>3, FS_CardinalityType

LEMMA AtPushed ==
  ASSUME NEW s \in Seq(Event), NEW e \in Event, NEW m
  PROVE  Cardinality(At(Append(s, e), m)) =
           IF e.m = m THEN Cardinality(At(s, m)) + 1 ELSE Cardinality(At(s, m))
<1> DEFINE x == Append(s, e)
           n == Len(s)
<1>1. /\ Len(x) = n + 1 /\ n \in Nat /\ x[n + 1] = e
      /\ \A i \in 1 .. n : x[i] = s[i]
  BY AppendProperties, LenProperties
<1>2. IsFiniteSet(At(s, m))
  BY AtFinite
<1>3. n + 1 \notin At(s, m)
  BY <1>1 DEF At
<1>4. At(x, m) = IF e.m = m THEN At(s, m) \cup {n + 1} ELSE At(s, m)
  BY <1>1 DEF At
<1>5. Cardinality(At(s, m) \cup {n + 1}) = Cardinality(At(s, m)) + 1
  BY <1>2, <1>3, FS_AddElement
<1> QED BY <1>4, <1>5

LEMMA AtPopped ==
  ASSUME NEW s \in Seq(Event), s # <<>>, NEW m
  PROVE  Cardinality(At(s, m)) = IF Head(s).m = m THEN Cardinality(At(Tail(s), m)) + 1
                                 ELSE Cardinality(At(Tail(s), m))
<1> DEFINE t == Tail(s)
           n == Len(s)
           S == At(s, m)
           T == At(t, m)
           f == [i \in T |-> i + 1]
<1>1. /\ n \in Nat \ {0} /\ Head(s) = s[1] /\ Len(t) = n - 1 /\ t \in Seq(Event)
      /\ \A i \in 1 .. n - 1 : t[i] = s[i + 1]
  BY HeadTailProperties
<1>2. IsFiniteSet(S) /\ Cardinality(S) \in Nat /\ IsFiniteSet(T) /\ Cardinality(T) \in Nat
  BY <1>1, AtFinite
<1>3. \A i \in T : i \in 1 .. n - 1 /\ i + 1 \in S \ {1}
  BY <1>1 DEF At
<1>4. \A j \in S \ {1} : j \in Int /\ j - 1 \in T
  BY <1>1 DEF At
<1>5. 1 \in S <=> Head(s).m = m
  BY <1>1 DEF At
<1> HIDE DEF S, T
<1>6. f \in Bijection(T, S \ {1})
  <2>1. f \in [T -> S \ {1}]
    BY <1>3
  <2>2. \A i, j \in T : f[i] = f[j] => i = j
    BY <1>3
  <2>3. \A j \in S \ {1} : \E i \in T : f[i] = j
    BY <1>4
  <2> QED BY <2>1, <2>2, <2>3 DEF Bijection, Injection, Surjection, IsInjective
<1>7. Cardinality(S \ {1}) = Cardinality(T)
  BY <1>2, <1>6, FS_Bijection DEF ExistsBijection
<1>8. Cardinality(S \ {1}) = IF 1 \in S THEN Cardinality(S) - 1 ELSE Cardinality(S)
  BY <1>2, FS_RemoveElement
<1>9. Cardinality(S) = IF Head(s).m = m THEN Cardinality(T) + 1 ELSE Cardinality(T)
  BY <1>2, <1>5, <1>7, <1>8
<1> QED BY <1>9 DEF S, T

LEMMA WorkNumbers ==
  ASSUME NEW P, IsFiniteSet(P), NEW s \in Seq(Event)
  PROVE  /\ Cardinality(P) \in Nat /\ Cardinality(Lists(P)) \in Nat
         /\ Cardinality(Open(P)) \in Nat /\ Len(s) \in Nat
         /\ Cardinality(At(s, "list")) \in Nat
         /\ Cardinality(At(s, "notify_klippy_ready")) \in Nat
<1>1. Lists(P) \subseteq P /\ Open(P) \subseteq P
  BY DEF Lists, Open
<1>2. IsFiniteSet(Lists(P)) /\ IsFiniteSet(Open(P))
  BY <1>1, FS_Subset
<1> QED BY <1>2, LenProperties, AtFinite, FS_CardinalityType

\* The socket loses its first event, or gains one at the end.
LEMMA QueueRead ==
  ASSUME IInv, inq # <<>>, inq' = Tail(inq)
  PROVE  /\ inq' \in Seq(Event) /\ Events = Events' + 1
         /\ ListEvts = IF Head(inq).m = "list" THEN ListEvts' + 1 ELSE ListEvts'
         /\ Readies = IF Head(inq).m = "notify_klippy_ready" THEN Readies' + 1
                      ELSE Readies'
<1>1. inq \in Seq(Event)
  BY DEF IInv, QueueOK
<1>2. Tail(inq) \in Seq(Event) /\ Len(Tail(inq)) = Len(inq) - 1 /\ Len(inq) \in Nat
  BY <1>1, HeadTailProperties, LenProperties
<1> QED BY <1>1, <1>2, AtPopped DEF Events, ListEvts, Readies

LEMMA QueueGrown ==
  ASSUME IInv, NEW e \in Event, inq' = Append(inq, e)
  PROVE  /\ inq' \in Seq(Event) /\ Events' = Events + 1
         /\ ListEvts' = IF e.m = "list" THEN ListEvts + 1 ELSE ListEvts
         /\ Readies' = IF e.m = "notify_klippy_ready" THEN Readies + 1 ELSE Readies
<1>1. inq \in Seq(Event)
  BY DEF IInv, QueueOK
<1>2. Append(inq, e) \in Seq(Event) /\ Len(Append(inq, e)) = Len(inq) + 1
  BY <1>1, AppendProperties
<1> QED BY <1>1, <1>2, AtPushed DEF Events, ListEvts, Readies

\* The steps that lower the work: the owed part falls; an event is read; a
\* list reply, a notify_klippy_ready or an opened link adds a request; a
\* request is evaluated, or its reply put on the socket; a notification is.
Easing(p, l, o, n, nl, nr, w, p2, l2, o2, n2, nl2, nr2, w2) ==
  \/ /\ p2 = p /\ l2 = l /\ o2 = o /\ n2 = n /\ nl2 = nl /\ nr2 = nr
     /\ w2 < w
  \/ /\ p2 = p /\ l2 = l /\ o2 = o /\ w2 = w
     /\ n = n2 + 1 /\ nl2 <= nl /\ nr2 <= nr
  \/ /\ p2 <= p + 1 /\ l2 <= l + 1 /\ o2 <= o + 1 /\ w2 = w /\ n = n2 + 1
     /\ \/ l2 = l /\ nl = nl2 + 1 /\ nr2 = nr
        \/ nl2 = nl /\ nr = nr2 + 1
  \/ /\ p2 <= p + 1 /\ l2 <= l + 1 /\ o2 <= o + 1
     /\ n2 = n /\ nl2 = nl /\ nr2 = nr /\ w = w2 + 7
  \/ /\ n2 = n /\ nl2 = nl /\ nr2 = nr /\ w2 = w
     /\ p2 <= p /\ l2 <= l /\ o = o2 + 1
  \/ /\ w2 = w /\ p = p2 + 1 /\ o2 = o /\ n2 = n + 1 /\ nr2 = nr
     /\ \/ l = l2 + 1 /\ nl2 = nl + 1
        \/ l2 = l /\ nl2 = nl
  \/ /\ p2 = p /\ l2 = l /\ o2 = o /\ n2 = n + 1 /\ nl2 = nl
     /\ \/ nr2 = nr + 1 /\ w = w2 + 8
        \/ nr2 = nr /\ w = w2 + 2

LEMMA Lighter ==
  ASSUME NEW p \in Nat, NEW l \in Nat, NEW o \in Nat, NEW n \in Nat,
         NEW nl \in Nat, NEW nr \in Nat, NEW w \in Nat,
         NEW p2 \in Nat, NEW l2 \in Nat, NEW o2 \in Nat, NEW n2 \in Nat,
         NEW nl2 \in Nat, NEW nr2 \in Nat, NEW w2 \in Nat,
         Easing(p, l, o, n, nl, nr, w, p2, l2, o2, n2, nl2, nr2, w2)
  PROVE  Weigh(p2, l2, o2, n2, nl2, nr2, w2) < Weigh(p, l, o, n, nl, nr, w)
  BY DEF Weigh, Easing

Eases == Easing(Reqs, ListReqs, OpenReqs, Events, ListEvts, Readies, Owed,
                Reqs', ListReqs', OpenReqs', Events', ListEvts', Readies', Owed')

LEMMA WorkNat ==
  ASSUME IInv, FiniteOK
  PROVE  /\ Reqs \in Nat /\ ListReqs \in Nat /\ OpenReqs \in Nat
         /\ Events \in Nat /\ ListEvts \in Nat /\ Readies \in Nat /\ Owed \in Nat
         /\ Work \in Nat
<1>1. /\ Reqs \in Nat /\ ListReqs \in Nat /\ OpenReqs \in Nat
      /\ Events \in Nat /\ ListEvts \in Nat /\ Readies \in Nat
  BY WorkNumbers DEF IInv, QueueOK, FiniteOK, Reqs, ListReqs, OpenReqs, Events,
                     ListEvts, Readies
<1>2. Owed \in Nat
  BY DEF Owed, NoteOwed, LinkOwed, KlippyOwed
<1>3. \A p, l, o, n, nl, nr, w \in Nat : Weigh(p, l, o, n, nl, nr, w) \in Nat
  BY DEF Weigh
<1>4. Work \in Nat
  BY <1>1, <1>2, <1>3 DEF Work
<1> QED BY <1>1, <1>2, <1>4

LEMMA WorkFalls ==
  ASSUME IInv, FiniteOK, FiniteOK', inq' \in Seq(Event), Eases
  PROVE  Work' < Work
<1>1. /\ Reqs \in Nat /\ ListReqs \in Nat /\ OpenReqs \in Nat
      /\ Events \in Nat /\ ListEvts \in Nat /\ Readies \in Nat /\ Owed \in Nat
  BY WorkNat
<1>2. /\ Reqs' \in Nat /\ ListReqs' \in Nat /\ OpenReqs' \in Nat
      /\ Events' \in Nat /\ ListEvts' \in Nat /\ Readies' \in Nat
  BY WorkNumbers DEF FiniteOK, Reqs, ListReqs, OpenReqs, Events, ListEvts, Readies
<1>3. Owed' \in Nat
  BY DEF Owed, NoteOwed, LinkOwed, KlippyOwed
<1>4. /\ Work = Weigh(Reqs, ListReqs, OpenReqs, Events, ListEvts, Readies, Owed)
      /\ Work' = Weigh(Reqs', ListReqs', OpenReqs', Events', ListEvts', Readies', Owed')
  BY DEF Work, Weigh
<1>5. Weigh(Reqs', ListReqs', OpenReqs', Events', ListEvts', Readies', Owed')
        < Weigh(Reqs, ListReqs, OpenReqs, Events, ListEvts, Readies, Owed)
  BY <1>1, <1>2, <1>3, Lighter DEF Eases
<1> QED BY <1>4, <1>5

SameRequests == Reqs' = Reqs /\ ListReqs' = ListReqs /\ OpenReqs' = OpenReqs
SameEvents   == Events' = Events /\ ListEvts' = ListEvts /\ Readies' = Readies

LEMMA Frames ==
  /\ pending' = pending => SameRequests
  /\ inq' = inq => SameEvents
  /\ link' = link => LinkOwed' = LinkOwed
  /\ note' = note => NoteOwed' = NoteOwed
  /\ klippy' = klippy => KlippyOwed' = KlippyOwed
  /\ link' = link /\ note' = note /\ klippy' = klippy => Owed' = Owed
  BY DEF SameRequests, SameEvents, Reqs, ListReqs, OpenReqs, Events, ListEvts, Readies,
         LinkOwed, NoteOwed, KlippyOwed, Owed

\* connected() and list_reply() ask for at most one thing.
LEMMA OneRequest ==
  ASSUME IInv, FiniteOK, NEW x, pending' \in {pending, pending \cup {x}}
  PROVE  /\ FiniteOK'
         /\ Reqs' <= Reqs + 1 /\ ListReqs' <= ListReqs + 1 /\ OpenReqs' <= OpenReqs + 1
         /\ x.m # "list" => ListReqs' = ListReqs
<1>1. Reqs \in Nat /\ ListReqs \in Nat /\ OpenReqs \in Nat
  BY WorkNat
<1>2. CASE pending' = pending
  <2>1. SameRequests /\ FiniteOK'
    BY <1>2, Frames DEF FiniteOK
  <2> QED BY <1>1, <2>1 DEF SameRequests
<1>3. CASE pending' = pending \cup {x}
  <2>1. /\ FiniteOK'
        /\ Reqs' \in {Reqs, Reqs + 1}
        /\ ListReqs' \in {ListReqs, ListReqs + 1}
        /\ x.m # "list" => ListReqs' = ListReqs
        /\ OpenReqs' \in {OpenReqs, OpenReqs + 1}
    BY <1>3, RequestAdded DEF FiniteOK, Reqs, ListReqs, OpenReqs
  <2> QED BY <1>1, <2>1
<1> QED BY <1>2, <1>3

LEMMA ScreenEases ==
  ASSUME IInv, FiniteOK, Screen
  PROVE  faults' = faults /\ FiniteOK' /\ inq' \in Seq(Event) /\ Eases
<1>0. /\ Reqs \in Nat /\ ListReqs \in Nat /\ OpenReqs \in Nat
      /\ Events \in Nat /\ ListEvts \in Nat /\ Readies \in Nat /\ Owed \in Nat
  BY WorkNat
<1>1. /\ UNCHANGED <<klippy, note, faults>>
      /\ NoteOwed' = NoteOwed /\ KlippyOwed' = KlippyOwed
      /\ NoteOwed \in Nat /\ KlippyOwed \in Nat
  BY Frames DEF Screen, onopen, onclose, OnList, OnSubscribe, OnKlippyReady,
         OnKlippyLost, world, NoteOwed, KlippyOwed
<1>2. inq \in Seq(Event)
  BY DEF IInv, QueueOK
<1>3. connected => \E x : pending' \in {pending, pending \cup {x}}
  BY DEF connected
<1>4. CASE onopen
  <2>1. link = "closed" /\ link' = "up" /\ inq' = inq /\ connected
    BY <1>4 DEF onopen
  <2>2. SameEvents
    BY <2>1, Frames
  <2>3. LinkOwed = 7 /\ LinkOwed' = 0
    BY <2>1 DEF LinkOwed
  <2>4. Owed = Owed' + 7
    BY <1>1, <2>3 DEF Owed
  <2>5. FiniteOK' /\ Reqs' <= Reqs + 1 /\ ListReqs' <= ListReqs + 1 /\ OpenReqs' <= OpenReqs + 1
    BY <1>3, <2>1, OneRequest
  <2> QED BY <1>1, <1>2, <2>1, <2>2, <2>4, <2>5 DEF Eases, Easing, SameEvents
<1>5. CASE onclose
  <2>1. link = "dropped" /\ link' = "closed" /\ inq' = inq /\ pending' = pending
    BY <1>5 DEF onclose
  <2>2. SameEvents /\ SameRequests /\ FiniteOK'
    BY <2>1, Frames DEF FiniteOK
  <2>3. LinkOwed = 8 /\ LinkOwed' = 7
    BY <2>1 DEF LinkOwed
  <2>4. Owed' < Owed
    BY <1>1, <2>3 DEF Owed
  <2> QED BY <1>1, <1>2, <2>1, <2>2, <2>4 DEF Eases, Easing, SameEvents, SameRequests
<1>6. CASE OnList
  <2>1. /\ inq # <<>> /\ inq' = Tail(inq) /\ list_reply(Head(inq)) /\ link' = link
        /\ Head(inq).m = "list"
    BY <1>6 DEF OnList, OnMessage
  <2>2. \E x : x.m # "list" /\ pending' \in {pending, pending \cup {x}}
    <3>1. NewRequest("subscribe", Head(inq).hs, Head(inq).epoch).m # "list"
      BY DEF NewRequest
    <3> QED BY <2>1, <3>1 DEF list_reply
  <2>3. /\ FiniteOK' /\ Reqs' <= Reqs + 1 /\ ListReqs' = ListReqs
        /\ ListReqs' <= ListReqs + 1 /\ OpenReqs' <= OpenReqs + 1
    BY <2>2, OneRequest
  <2>4. /\ inq' \in Seq(Event) /\ Events = Events' + 1 /\ ListEvts = ListEvts' + 1
        /\ Readies = Readies'
    BY <2>1, QueueRead
  <2>5. Owed' = Owed
    BY <1>1, <2>1, Frames
  <2> QED BY <1>1, <2>3, <2>4, <2>5 DEF Eases, Easing
<1>7. CASE OnSubscribe \/ OnKlippyLost
  <2>1. /\ inq # <<>> /\ inq' = Tail(inq) /\ link' = link /\ pending' = pending
        /\ Head(inq).m \in {"subscribe", "notify_klippy_disconnected", "notify_klippy_shutdown"}
    BY <1>7 DEF OnSubscribe, OnKlippyLost, OnMessage, subscribe_reply
  <2>2. SameRequests /\ FiniteOK' /\ Owed' = Owed
    BY <1>1, <2>1, Frames DEF FiniteOK
  <2>3. /\ inq' \in Seq(Event) /\ Events = Events' + 1 /\ ListEvts = ListEvts'
        /\ Readies = Readies'
    BY <2>1, QueueRead
  <2>4. ListEvts' <= ListEvts /\ Readies' <= Readies
    BY <1>0, <2>3
  <2> QED BY <1>1, <2>2, <2>3, <2>4 DEF Eases, Easing, SameRequests
<1>8. CASE OnKlippyReady
  <2>1. /\ inq # <<>> /\ inq' = Tail(inq) /\ link' = link /\ connected
        /\ Head(inq).m = "notify_klippy_ready"
    BY <1>8 DEF OnKlippyReady, OnMessage
  <2>2. /\ FiniteOK' /\ Reqs' <= Reqs + 1 /\ ListReqs' <= ListReqs + 1
        /\ OpenReqs' <= OpenReqs + 1
    <3>1. PICK x : pending' \in {pending, pending \cup {x}}
      BY <1>3, <2>1
    <3> QED BY <3>1, OneRequest
  <2>3. /\ inq' \in Seq(Event) /\ Events = Events' + 1 /\ ListEvts = ListEvts'
        /\ Readies = Readies' + 1
    BY <2>1, QueueRead
  <2>4. Owed' = Owed
    BY <1>1, <2>1, Frames
  <2> QED BY <1>1, <2>2, <2>3, <2>4 DEF Eases, Easing
<1> QED BY <1>4, <1>5, <1>6, <1>7, <1>8 DEF Screen

LEMMA EvaluateEases ==
  ASSUME IInv, FiniteOK, NEW q \in pending, Evaluate(q)
  PROVE  faults' = faults /\ FiniteOK' /\ inq' \in Seq(Event) /\ Eases
<1> DEFINE done == [q EXCEPT !.res = IF klippy = "down" THEN "error" ELSE "ok"]
           rest == pending \ {q}
<1>0. /\ Reqs \in Nat /\ ListReqs \in Nat /\ OpenReqs \in Nat /\ inq \in Seq(Event)
  BY WorkNat DEF IInv, QueueOK
<1>1. /\ UNCHANGED <<klippy, note, link, inq, faults>> /\ q.res = "open"
      /\ pending' = rest \cup {done}
  BY DEF Evaluate
<1>2. q \in Request
  BY DEF IInv, QueueOK
<1>3. done.m = q.m /\ done.res # "open" /\ q.m \in {"list", "subscribe"}
  BY <1>2 DEF Request
<1>4. /\ IsFiniteSet(rest) /\ Cardinality(rest) = Reqs - 1
      /\ Cardinality(Lists(rest)) = IF q.m = "list" THEN ListReqs - 1 ELSE ListReqs
      /\ Cardinality(Open(rest)) = OpenReqs - 1
  BY <1>1, RequestRemoved DEF FiniteOK, Reqs, ListReqs, OpenReqs
<1> HIDE DEF done, rest
<1>5. /\ FiniteOK'
      /\ Reqs' \in {Cardinality(rest), Cardinality(rest) + 1}
      /\ ListReqs' \in {Cardinality(Lists(rest)), Cardinality(Lists(rest)) + 1}
      /\ done.m # "list" => ListReqs' = Cardinality(Lists(rest))
      /\ OpenReqs' = Cardinality(Open(rest))
  BY <1>1, <1>3, <1>4, RequestAdded DEF FiniteOK, Reqs, ListReqs, OpenReqs
<1>6. Reqs' <= Reqs /\ ListReqs' <= ListReqs /\ OpenReqs = OpenReqs' + 1
  BY <1>0, <1>3, <1>4, <1>5
<1>7. SameEvents /\ Owed' = Owed
  BY <1>1, Frames
<1> QED BY <1>0, <1>1, <1>5, <1>6, <1>7 DEF Eases, Easing, SameEvents

LEMMA DeliverEases ==
  ASSUME IInv, FiniteOK, NEW q \in pending, Deliver(q)
  PROVE  faults' = faults /\ FiniteOK' /\ inq' \in Seq(Event) /\ Eases
<1>0. Reqs \in Nat /\ ListReqs \in Nat /\ OpenReqs \in Nat
  BY WorkNat
<1>1. /\ UNCHANGED <<klippy, note, link, faults>> /\ q.res # "open"
      /\ pending' = pending \ {q} /\ inq' = Append(inq, q)
  BY DEF Deliver, world
<1>2. q \in Event /\ q.m \in {"list", "subscribe"}
  BY EventTypes DEF IInv, QueueOK, Request
<1>3. /\ FiniteOK' /\ Reqs' = Reqs - 1 /\ OpenReqs' = OpenReqs
      /\ ListReqs' = IF q.m = "list" THEN ListReqs - 1 ELSE ListReqs
  BY <1>1, RequestRemoved DEF FiniteOK, Reqs, ListReqs, OpenReqs
<1>4. /\ inq' \in Seq(Event) /\ Events' = Events + 1 /\ Readies' = Readies
      /\ ListEvts' = IF q.m = "list" THEN ListEvts + 1 ELSE ListEvts
  BY <1>1, <1>2, QueueGrown
<1>5. Owed' = Owed
  BY <1>1, Frames
<1>6. Reqs = Reqs' + 1 /\ (q.m = "list" => ListReqs = ListReqs' + 1)
  BY <1>0, <1>3
<1> QED BY <1>1, <1>3, <1>4, <1>5, <1>6 DEF Eases, Easing

LEMMA NotifyEases ==
  ASSUME IInv, FiniteOK, Notify
  PROVE  faults' = faults /\ FiniteOK' /\ inq' \in Seq(Event) /\ Eases
<1>1. /\ UNCHANGED <<klippy, link, faults, pending>> /\ note \in Notes /\ note' = "none"
      /\ inq' = IF link = "up" THEN Append(inq, Note(note)) ELSE inq
  BY DEF Notify, IInv, WorldOK
<1>2. inq \in Seq(Event) /\ Note(note) \in Event /\ Note(note).m = note
  BY <1>1, EventTypes DEF IInv, QueueOK, Note
<1>3. SameRequests /\ FiniteOK'
  BY <1>1, Frames DEF FiniteOK
<1>4. /\ NoteOwed = (IF note = "notify_klippy_ready" THEN 8 ELSE 2) /\ NoteOwed' = 0
  BY <1>1 DEF NoteOwed, Notes
<1>5. /\ LinkOwed' = LinkOwed /\ KlippyOwed' = KlippyOwed
      /\ LinkOwed \in Nat /\ KlippyOwed \in Nat
  BY <1>1, Frames DEF LinkOwed, KlippyOwed
<1>6. Owed = Owed' + (IF note = "notify_klippy_ready" THEN 8 ELSE 2) /\ Owed' < Owed
  BY <1>4, <1>5 DEF Owed
<1>7. CASE link = "up"
  <2>1. /\ inq' \in Seq(Event) /\ Events' = Events + 1 /\ ListEvts' = ListEvts
        /\ Readies' = IF note = "notify_klippy_ready" THEN Readies + 1 ELSE Readies
    BY <1>1, <1>2, <1>7, QueueGrown DEF Notes
  <2> QED BY <1>1, <1>3, <1>6, <2>1 DEF Eases, Easing, SameRequests
<1>8. CASE link # "up"
  <2>1. inq' \in Seq(Event) /\ SameEvents
    BY <1>1, <1>2, <1>8, Frames
  <2> QED BY <1>1, <1>3, <1>6, <2>1 DEF Eases, Easing, SameRequests, SameEvents
<1> QED BY <1>7, <1>8

LEMMA KlippyEases ==
  ASSUME IInv, FiniteOK, KlippyReady \/ KlippyRestart
  PROVE  faults' = faults /\ FiniteOK' /\ inq' \in Seq(Event) /\ Eases
<1>1. UNCHANGED <<link, inq, pending, faults>> /\ inq \in Seq(Event)
  BY DEF KlippyReady, KlippyRestart, IInv, QueueOK
<1>2. SameRequests /\ SameEvents /\ FiniteOK'
  BY <1>1, Frames DEF FiniteOK
<1>3. LinkOwed' = LinkOwed /\ LinkOwed \in Nat
  BY <1>1, Frames DEF LinkOwed
<1>4. \/ KlippyOwed = 9 /\ KlippyOwed' = 0 /\ NoteOwed = 0 /\ NoteOwed' = 8
      \/ KlippyOwed = 12 /\ KlippyOwed' = 9 /\ NoteOwed = 0 /\ NoteOwed' = 2
  BY DEF KlippyReady, KlippyRestart, KlippyOwed, NoteOwed
<1>5. Owed' < Owed
  BY <1>3, <1>4 DEF Owed
<1> QED BY <1>1, <1>2, <1>5 DEF Eases, Easing, SameRequests, SameEvents

LEMMA FaultCounts ==
  ASSUME IInv, FiniteOK,
         ConnectFails \/ KlippyDown \/ KlippyShutdown \/ LinkDrop
  PROVE  faults' > faults /\ FiniteOK'
<1>1. faults \in Nat
  BY FaultsAssumption DEF IInv, WorldOK
<1>2. faults' = faults + 1 /\ pending' \in {pending, {}}
  BY DEF ConnectFails, KlippyDown, KlippyShutdown, LinkDrop
<1> QED BY <1>1, <1>2, FS_EmptySet DEF FiniteOK

LEMMA StepRuns ==
  ASSUME IInv, FiniteOK, Next PROVE FiniteOK' /\ RunsDown
<1>1. CASE ConnectFails \/ KlippyDown \/ KlippyShutdown \/ LinkDrop
  BY <1>1, FaultCounts DEF RunsDown
<1>2. CASE Screen
  BY <1>2, ScreenEases, WorkFalls DEF RunsDown
<1>3. ASSUME NEW q \in pending, Evaluate(q) \/ Deliver(q) PROVE FiniteOK' /\ RunsDown
  BY <1>3, EvaluateEases, DeliverEases, WorkFalls DEF RunsDown
<1>4. CASE Notify \/ KlippyReady \/ KlippyRestart
  BY <1>4, NotifyEases, KlippyEases, WorkFalls DEF RunsDown
<1> QED BY <1>1, <1>2, <1>3, <1>4 DEF Next

\* The handshake always makes headway: every step but a fault lowers Work, a
\* natural number, and there are at most MaxFaults faults, so no exchange of
\* replies and notifications keeps screen and Moonraker busy for ever. With
\* NoLostHandshake this is CockpitComes but for the fairness that makes the
\* steps happen (init_panel.cpp:119-206).
THEOREM HandshakeRunsDown ==
  Spec => [](Work \in Nat /\ faults \in 0 .. MaxFaults) /\ [][RunsDown]_vars
<1>1. Init => FiniteOK
  BY FS_EmptySet DEF Init, FiniteOK
<1>2. IInv /\ FiniteOK /\ [Next]_vars => FiniteOK' /\ [RunsDown]_vars
  <2>1. FiniteOK /\ UNCHANGED vars => FiniteOK'
    BY DEF vars, FiniteOK
  <2> QED BY <2>1, StepRuns
<1>3. IInv /\ FiniteOK => Work \in Nat /\ faults \in 0 .. MaxFaults
  BY WorkNat DEF IInv, WorldOK
<1> QED BY <1>1, <1>2, <1>3, Inductive, PTL DEF Spec

=============================================================================
