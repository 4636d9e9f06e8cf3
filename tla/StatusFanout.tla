---------------------------- MODULE StatusFanout ----------------------------
(***************************************************************************)
(* How a printer status reaches the glass: the subscribe reply and the     *)
(* notify_status_update deltas, their fan-out to the registered consumers  *)
(* (websocket_client.cpp), the merge-patch store behind them (state.cpp),  *)
(* and the cockpit's own copy with its render shadows (main_panel.cpp).    *)
(* A delta only carries what changed, so a consumer that misses one stays  *)
(* wrong until the field moves again; an exception in one consumer takes   *)
(* the delta from every consumer after it.                                 *)
(***************************************************************************)
EXTENDS Integers, Sequences, FiniteSets

CONSTANTS MaxChanges, \* bound: status changes in Klipper
          MaxFaults,  \* bound: lost links, Klipper restarts and extra readies
          MaxGarbled, \* bound: messages with a malformed field
          MaxWire     \* bound: messages on the socket

ASSUME StatusAssumption ==
  /\ MaxChanges \in Nat /\ MaxFaults \in Nat /\ MaxGarbled \in Nat
  /\ MaxWire \in Nat \ {0}

VARIABLES
  klip,     \* Klipper's status objects
  base,     \* the values Moonraker last put in a message
  garbled,  \* the fields that were malformed in that message
  sub,      \* Moonraker has a subscription for this client
  asked,    \* subscribe requests it has not answered
  link,     \* the websocket is open
  wire,     \* messages the screen has not read
  budget,
  cur, at,  \* the message in onmessage, and the consumer it is at
  data,     \* State::data, printer_state
  seeded,   \* a subscribe reply was stored since State::reset
  home,     \* home_printing_/home_paused_, home_nozzle_, home_layer_
  rend,     \* rend_nozzle_, rend_fan_[0]: what is painted, "none" = INT_MIN
  label,    \* texts on the glass: cockpit nozzle, Temperature screen
            \* nozzle, Fans screen, cockpit layer
  lost      \* fields whose last value never reached the cockpit

world  == <<klip, base, garbled, sub, asked, link, wire, budget>>
screen == <<data, seeded, home, rend, label, lost>>
vars   == <<world, cur, at, screen>>

Field   == {"job", "temp", "fan", "layer"}
Null    == "null"                \* a JSON null
Bad     == "bad"                 \* a value of the wrong type
None    == "none"                \* no key, nothing painted
Value   == [job   |-> {"standby", "printing", "paused"},
            temp  |-> {"cold", "hot"},
            fan   |-> {"off", "on"},
            layer |-> {Null, "1"}]
Anything == (UNION {Value[f] : f \in Field}) \cup {Null, Bad, None}
Resting  == [job |-> "standby", temp |-> "cold", fan |-> "off", layer |-> Null]

(* Partial status objects. *)
Partial == UNION {[D -> Anything] : D \in SUBSET Field}
Message == [k : {"idle", "open", "lost", "refused", "snap", "delta"}, d : Partial]
Event(k)  == [k |-> k, d |-> <<>>]
Status(k, d) == [k |-> k, d |-> d]

(* notify_consumers in registration order: GuppyScreen::init registers the *)
(* State before the panels exist. "sliders" stands for the FanPanel and    *)
(* the LedPanel, which read their objects alike.                           *)
StateLast == <<"homing", "sliders", "extruder", "main", "state">>
notify_consumers == <<"state", "homing", "sliders", "extruder", "main">>

(* The subscribe reply goes to the State, then to MainPanel::init.         *)
Route(m) == IF m.k = "delta" THEN notify_consumers ELSE <<"state", "main">>

(* The fields whose get<>() a consumer's consume() runs unguarded.         *)
Reads == [state    |-> {},
          homing   |-> {"job"},
          sliders  |-> {"fan"},
          extruder |-> {"temp", "job"},
          main     |-> Field]
Throws(c, d) == \E f \in Reads[c] \cap DOMAIN d : d[f] = Bad

StatusTypeOK ==
  /\ klip \in [Field -> Anything] /\ base \in [Field -> Anything]
  /\ \A f \in Field : klip[f] \in Value[f] /\ base[f] \in Value[f]
  /\ garbled \subseteq Field /\ sub \in BOOLEAN /\ link \in BOOLEAN
  /\ asked \in 0 .. 1 + MaxFaults
  /\ wire \in Seq(Message) /\ Len(wire) <= MaxWire + 2
  /\ budget \in [changes : 0 .. MaxChanges, faults : 0 .. MaxFaults,
                 garbled : 0 .. MaxGarbled]
  /\ cur \in Message
  /\ at \in 0 .. Len(notify_consumers)
  /\ (cur = Event("idle")) <=> (at = 0)
  /\ data \in [Field -> Anything] /\ seeded \in BOOLEAN
  /\ home \in [job : Value.job, temp : Value.temp \cup {None},
               layer : Value.layer \cup {None}]
  /\ rend \in [temp : Value.temp \cup {None}, fan : Value.fan \cup {None}]
  /\ label \in [home : Value.temp \cup {None}, temps : Value.temp \cup {None},
                fan : Value.fan \cup {None}, layer : Value.layer \cup {None}]
  /\ lost \subseteq Field

StatusInit ==
  /\ klip = Resting /\ base = Resting /\ garbled = {}
  /\ sub = FALSE /\ asked = 0 /\ link = TRUE /\ wire = <<Event("open")>>
  /\ budget = [changes |-> MaxChanges, faults |-> MaxFaults,
               garbled |-> MaxGarbled]
  /\ cur = Event("idle") /\ at = 0
  /\ data = [f \in Field |-> None] /\ seeded = FALSE
  /\ home = [job |-> "standby", temp |-> None, layer |-> None]
  /\ rend = [temp |-> None, fan |-> None]
  /\ label = [home |-> None, temps |-> None, fan |-> None, layer |-> None]
  /\ lost = Field
-----------------------------------------------------------------------------
(* State::set_data("printer_state", ...): an RFC 7386 merge patch, under   *)
(* which a null removes the key.                                           *)
SetDataReplaces(d) ==
  [f \in Field |-> IF f \in DOMAIN d /\ d[f] # Null THEN d[f] ELSE None]

set_data(d) ==
  [f \in Field |-> IF f \notin DOMAIN d THEN data[f]
                   ELSE IF d[f] = Null THEN None ELSE d[f]]

(* A field of the cockpit's cache: a null or an absent key leaves it.      *)
Cached(old, d, f) == IF f \in DOMAIN d /\ d[f] # Null THEN d[f] ELSE old
Cache(d) == [job   |-> Cached(home.job, d, "job"),
             temp  |-> Cached(home.temp, d, "temp"),
             layer |-> Cached(home.layer, d, "layer")]

(* rebuild_home(): fresh labels from the cache, render shadows forgotten.  *)
(* The Temperature and Fans screens keep their texts.                      *)
RebuildKeepsShadows(h) ==
  /\ label' = [label EXCEPT !.home = h.temp,
                 !.layer = IF h.job = "standby" THEN None ELSE h.layer]
  /\ UNCHANGED rend

rebuild_home(h) ==
  /\ label' = [label EXCEPT !.home = h.temp,
                 !.layer = IF h.job = "standby" THEN None ELSE h.layer]
  /\ rend' = [temp |-> None, fan |-> None]

(* MainPanel::init on the subscribe reply. The fans are not seeded. A      *)
(* malformed value throws before the rebuild: the sensors are read first,  *)
(* then the layer, and the job last.                                       *)
Unread(d, F) == \E f \in F \cap DOMAIN d : d[f] = Bad

init(d) ==
  \/ /\ Unread(d, {"temp", "layer", "job"})
     /\ home' = [home EXCEPT
          !.temp  = IF Unread(d, {"temp"}) THEN @ ELSE Cached(@, d, "temp"),
          !.layer = IF Unread(d, {"temp", "layer"}) THEN @ ELSE Cached(@, d, "layer")]
     /\ lost' = lost \cup DOMAIN d
     /\ UNCHANGED <<rend, label>>
  \/ /\ ~Unread(d, {"temp", "layer", "job"})
     /\ home' = Cache(d)
     /\ rebuild_home(Cache(d))
     /\ lost' = (lost \ DOMAIN d) \cup {"fan"}

(* MainPanel::consume. A flip of the job rebuilds the cockpit and skips    *)
(* the repaints; otherwise the shadows decide what is repainted. A         *)
(* malformed layer throws with the temperature cached and the job not.     *)
consume(d) ==
  LET h    == Cache(d)
      flip == h.job # home.job
      fan  == "fan" \in DOMAIN d /\ d.fan # rend.fan
  IN \/ /\ Throws("main", d)
        /\ home' = [home EXCEPT !.temp = Cached(home.temp, d, "temp")]
        /\ lost' = lost \cup DOMAIN d
        /\ UNCHANGED <<rend, label>>
     \/ /\ ~Throws("main", d) /\ flip
        /\ home' = h
        /\ rebuild_home(h)
        /\ lost' = (lost \ DOMAIN d) \cup ({"fan"} \cap DOMAIN d)
     \/ /\ ~Throws("main", d) /\ ~flip
        /\ home' = h
        /\ rend' = [temp |-> h.temp,
                    fan |-> IF fan THEN d.fan ELSE rend.fan]
        /\ label' = [home  |-> IF h.temp # rend.temp THEN h.temp ELSE label.home,
                     temps |-> IF h.temp # rend.temp THEN h.temp ELSE label.temps,
                     fan   |-> IF fan THEN d.fan ELSE label.fan,
                     layer |-> IF h.job = "printing" THEN h.layer
                               ELSE label.layer]
        /\ lost' = lost \ {f \in DOMAIN d : f # "fan" \/ fan}
-----------------------------------------------------------------------------
(* The websocket thread *)

Finish == cur' = Event("idle") /\ at' = 0

(* onmessage takes the next frame; connected() and disconnected() run at   *)
(* once. connected() empties the State and asks for everything again;      *)
(* disconnected() changes none of the state here. An error instead of the  *)
(* subscribe reply gives the State nothing to merge and MainPanel::init no *)
(* field, so the cockpit is rebuilt from its cache.                        *)
ConnectedAsksTwice ==
  /\ asked' = asked + 2
  /\ data' = [f \in Field |-> None]
  /\ seeded' = FALSE

connected ==
  /\ asked' = asked + 1
  /\ data' = [f \in Field |-> None]
  /\ seeded' = FALSE

OnMessage ==
  /\ at = 0 /\ wire # <<>>
  /\ wire' = Tail(wire)
  /\ \/ /\ Head(wire).k = "open"
        /\ connected
        /\ UNCHANGED <<cur, at, home, rend, label, lost>>
     \/ /\ Head(wire).k = "lost"
        /\ UNCHANGED <<cur, at, asked, screen>>
     \/ /\ Head(wire).k = "refused"
        /\ init(Head(wire).d)
        /\ UNCHANGED <<cur, at, asked, data, seeded>>
     \/ /\ Head(wire).k \in {"snap", "delta"}
        /\ cur' = Head(wire) /\ at' = 1
        /\ UNCHANGED <<asked, screen>>
  /\ UNCHANGED <<klip, base, garbled, sub, link, budget>>

(* One consumer of the snapshot takes its lock and consumes; between two   *)
(* of them the UI thread may run. A throw ends the delivery.               *)
Deliver ==
  /\ at # 0
  /\ LET c == Route(cur)[at]
         d == cur.d
     IN /\ \/ /\ c = "state"
              /\ data' = set_data(d)
              /\ seeded' = (seeded \/ cur.k = "snap")
              /\ UNCHANGED <<home, rend, label, lost>>
           \/ /\ c = "main" /\ cur.k = "snap"
              /\ init(d)
              /\ UNCHANGED <<data, seeded>>
           \/ /\ c = "main" /\ cur.k = "delta"
              /\ consume(d)
              /\ UNCHANGED <<data, seeded>>
           \/ /\ c \in {"homing", "sliders", "extruder"}
              /\ lost' = IF Throws(c, d) THEN lost \cup DOMAIN d ELSE lost
              /\ UNCHANGED <<data, seeded, home, rend, label>>
        /\ IF Throws(c, d) \/ at = Len(Route(cur))
           THEN Finish
           ELSE at' = at + 1 /\ UNCHANGED cur
  /\ UNCHANGED world

(* The UI thread: a fan slider is let go (_fan_slider_cb). The label shows *)
(* the wish; the shadow still holds the last report.                       *)
FanSlider(v) ==
  /\ budget.changes > 0
  /\ budget' = [budget EXCEPT !.changes = @ - 1]
  /\ label' = [label EXCEPT !.fan = v]
  /\ lost' = lost \cup {"fan"}
  /\ klip' = [klip EXCEPT !.fan = IF link THEN v ELSE @]
  /\ UNCHANGED <<base, garbled, sub, asked, link, wire, cur, at,
                 data, seeded, home, rend>>
-----------------------------------------------------------------------------
(* Klipper and Moonraker *)

Room == Len(wire) < MaxWire

Change(f, v) ==
  /\ budget.changes > 0 /\ klip[f] # v
  /\ klip' = [klip EXCEPT ![f] = v]
  /\ budget' = [budget EXCEPT !.changes = @ - 1]
  /\ UNCHANGED <<base, garbled, sub, asked, link, wire, cur, at, screen>>

Changed == {f \in Field : klip[f] # base[f]}

(* A delta of everything that changed, one field of it possibly malformed. *)
Notify(bad) ==
  /\ sub /\ Room /\ Changed # {}
  /\ bad \subseteq Changed /\ Cardinality(bad) <= budget.garbled
  /\ wire' = Append(wire, Status("delta",
               [f \in Changed |-> IF f \in bad THEN Bad ELSE klip[f]]))
  /\ base' = klip
  /\ garbled' = (garbled \ Changed) \cup bad
  /\ budget' = [budget EXCEPT !.garbled = @ - Cardinality(bad)]
  /\ UNCHANGED <<klip, sub, asked, link, cur, at, screen>>

(* The subscribe reply, one field of it possibly malformed.                *)
AnswerSubscribe(bad) ==
  /\ asked > 0 /\ link /\ Room
  /\ Cardinality(bad) <= budget.garbled
  /\ asked' = asked - 1
  /\ sub' = TRUE
  /\ wire' = Append(wire, Status("snap",
               [f \in Field |-> IF f \in bad THEN Bad ELSE klip[f]]))
  /\ base' = klip /\ garbled' = bad
  /\ budget' = [budget EXCEPT !.garbled = @ - Cardinality(bad)]
  /\ UNCHANGED <<klip, link, cur, at, screen>>

Fault == budget.faults > 0 /\ budget' = [budget EXCEPT !.faults = @ - 1]

(* The link drops with what is on it; libhv reports it and reconnects.     *)
LinkDrop ==
  /\ link /\ Fault
  /\ link' = FALSE /\ sub' = FALSE /\ asked' = 0
  /\ wire' = <<Event("lost")>>
  /\ UNCHANGED <<klip, base, garbled, cur, at, screen>>

Reconnect ==
  /\ ~link
  /\ link' = TRUE
  /\ wire' = Append(wire, Event("open"))
  /\ UNCHANGED <<klip, base, garbled, sub, asked, budget, cur, at, screen>>

(* Klipper restarts: its subscriptions end, and notify_klippy_disconnected *)
(* and notify_klippy_ready are sent. A handshake under way fails: an error *)
(* answers its subscribe request (any further ones would only repeat what  *)
(* the first does), or its list request, which this module merges with it. *)
Refusals == {wire} \cup {Append(wire, Event("refused")) : n \in 1 .. asked}

KlippyRestart ==
  /\ link /\ Fault /\ Len(wire) < MaxWire
  /\ klip' = Resting /\ sub' = FALSE /\ asked' = 0
  /\ \E w \in Refusals : wire' = w \o <<Event("lost"), Event("open")>>
  /\ UNCHANGED <<base, garbled, link, cur, at, screen>>

(* notify_klippy_ready close behind onopen: a second handshake overlaps.   *)
KlippyReady ==
  /\ link /\ Fault /\ Room
  /\ wire' = Append(wire, Event("open"))
  /\ UNCHANGED <<klip, base, garbled, sub, asked, link, cur, at, screen>>

StatusNext ==
  \/ OnMessage \/ Deliver
  \/ \E v \in Value.fan : FanSlider(v)
  \/ \E f \in Field : \E v \in Value[f] : Change(f, v)
  \/ \E bad \in {{}} \cup {{f} : f \in Field} : Notify(bad) \/ AnswerSubscribe(bad)
  \/ LinkDrop \/ Reconnect \/ KlippyRestart \/ KlippyReady

(* libhv runs the callbacks of its thread, reconnects by itself, and       *)
(* Moonraker answers and notifies; changes and faults need not happen.     *)
StatusSpec ==
  /\ StatusInit /\ [][StatusNext]_vars
  /\ WF_vars(OnMessage) /\ WF_vars(Deliver)
  /\ WF_vars(Notify({})) /\ WF_vars(AnswerSubscribe({})) /\ WF_vars(Reconnect)
-----------------------------------------------------------------------------
(* Nothing of the live subscription is still under way. *)
Quiet == link /\ sub /\ seeded /\ wire = <<>> /\ at = 0

Said(f) == IF f \in garbled THEN Bad ELSE IF base[f] = Null THEN None ELSE base[f]

(***************************************************************************)
(* State is first in notify_consumers and merges: whatever the panels      *)
(* throw, whatever handshakes overlap, the store holds exactly what        *)
(* Moonraker last said once nothing is under way.                          *)
(***************************************************************************)
StateIsCurrent == Quiet => \A f \in Field : data[f] = Said(f)

(***************************************************************************)
(* The cockpit shows what Moonraker last said of every field that was not  *)
(* lost to a throw, a flip or a null: the render shadows of consume() and  *)
(* rebuild_home() never keep a stale temperature on either screen, and a   *)
(* running job shows the layer it cached unless that field was lost.       *)
(***************************************************************************)
CockpitIsCurrent ==
  Quiet =>
    /\ "job" \notin lost => home.job = base.job
    /\ "temp" \notin lost =>
         /\ label.home = base.temp
         /\ rend.temp # None => label.temps = base.temp
    /\ "layer" \notin lost /\ base.layer # Null => home.layer = base.layer
    /\ "fan" \notin lost => label.fan = base.fan
    /\ "layer" \notin lost /\ home.job = "printing" => label.layer = home.layer

(***************************************************************************)
(* When changes and faults end, the screen settles: the store and the      *)
(* cockpit agree with Klipper for good (fields that were lost excepted).   *)
(***************************************************************************)
GlassSettles == <>[](Quiet /\ Changed = {} /\ StateIsCurrent /\ CockpitIsCurrent)
=============================================================================
