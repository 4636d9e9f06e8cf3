------------------------------ MODULE TopLayer ------------------------------
(***************************************************************************)
(* lv_layer_top: the stack of objects that lie over every screen, and who  *)
(* may tap what. E-STOP is always visible but can be covered; the busy     *)
(* scrim, the confirm and notice cards and the numpad each cover the whole *)
(* glass (a modal's scrim and card move together, so each is one layer);   *)
(* the logbook is a strip at the bottom that covers none of their buttons. *)
(* The UI thread moves them on taps and timers, the websocket thread on    *)
(* status deltas and replies, the update worker when it fails, each under  *)
(* lv_lock: any order of these steps can happen.                           *)
(***************************************************************************)
EXTENDS Integers, Sequences

VARIABLES
  z,                \* the children of lv_layer_top, front last
  shown,            \* those without LV_OBJ_FLAG_HIDDEN
  pending_confirm_, \* what the confirm card's button will do
  asked,            \* an E-STOP tap has raised the card and waits for its answer
  print             \* a printer.print.start awaits its reply

vars == <<z, shown, pending_confirm_, asked, print>>

Layer      == {"numpad", "confirm", "notice", "estop", "busy", "logbook"}
FullScreen == Layer \ {"estop", "logbook"}
\* "ack" is the empty action of a refusal or an error shown on the card.
Question   == {"estop", "print", "power", "cal", "ack"}

TypeOK ==
  /\ z \in [1 .. 6 -> Layer] /\ \A l \in Layer : \E i \in 1 .. 6 : z[i] = l
  /\ shown \subseteq Layer /\ "estop" \in shown
  /\ pending_confirm_ \in Question \cup {"none"}
  /\ asked \in BOOLEAN /\ print \in BOOLEAN

\* The scrim and the logbook are made when first shown; till then they lie
\* hidden at the back.
Init ==
  /\ z = <<"busy", "logbook", "numpad", "confirm", "notice", "estop">>
  /\ shown = {"estop"}
  /\ pending_confirm_ = "none"
  /\ asked = FALSE /\ print = FALSE

-----------------------------------------------------------------------------
PosIn(s, l) == CHOOSE i \in 1 .. 6 : s[i] = l

\* lv_obj_move_foreground and lv_obj_move_background of LVGL.
ToFront(s, l) ==
  [i \in 1 .. 6 |-> IF i = 6 THEN l ELSE IF i < PosIn(s, l) THEN s[i] ELSE s[i + 1]]
ToBack(s, l) ==
  [i \in 1 .. 6 |-> IF i = 1 THEN l ELSE IF i > PosIn(s, l) THEN s[i] ELSE s[i - 1]]

RaiseTwice(l) == z' = Append(z, l) /\ shown' = shown \cup {l}

Raise(l)  == z' = ToFront(z, l) /\ shown' = shown \cup {l}
Hide(l)   == shown' = shown \ {l} /\ UNCHANGED z
Lower(l)  == shown' = shown \ {l} /\ z' = ToBack(z, l)

Pos(l)     == PosIn(z, l)
Covered(l) == \E m \in shown \cap FullScreen : m # l /\ Pos(m) > Pos(l)
\* A finger reaches l: it is visible and no full-screen layer lies over it.
Tappable(l) == l \in shown /\ ~Covered(l)
\* A finger reaches the tiles and rows of the screen below.
ScreenOpen == shown \cap FullScreen = {}

Idle == UNCHANGED <<pending_confirm_, asked, print>>

-----------------------------------------------------------------------------
\* Taps.

confirm(q) == Raise("confirm") /\ pending_confirm_' = q

\* A tile or row that asks first, or refuses on the card.
TapAsk ==
  /\ ScreenOpen
  /\ \E q \in Question \ {"estop"} : confirm(q)
  /\ UNCHANGED <<asked, print>>

TapBusy   == ScreenOpen /\ Raise("busy") /\ Idle
TapValue  == ScreenOpen /\ Raise("numpad") /\ Idle
TapNotice == ScreenOpen /\ Raise("notice") /\ Idle

NumpadDone  == Tappable("numpad") /\ Lower("numpad") /\ Idle
_notice_tap == Tappable("notice") /\ Lower("notice") /\ Idle

\* STOP on the logbook.
_callog_stop == Tappable("logbook") /\ Raise("notice") /\ Idle

_estop_tap ==
  /\ Tappable("estop")
  /\ confirm("estop")
  /\ asked' = TRUE
  /\ UNCHANGED print

Cancel ==
  /\ Tappable("confirm")
  /\ Lower("confirm")
  /\ pending_confirm_' = "none"
  /\ asked' = FALSE
  /\ UNCHANGED print

\* The confirm button: the card goes to the back, then the action runs. A
\* power action raises the scrim, a calibration the notice when a job has
\* started meanwhile; an install does either, a cancelled print neither.
ConfirmKeepsAction ==
  /\ Tappable("confirm")
  /\ Lower("confirm")
  /\ print' = (print \/ pending_confirm_ = "print")
  /\ asked' = FALSE
  /\ UNCHANGED pending_confirm_

Confirm ==
  /\ Tappable("confirm")
  /\ \/ /\ pending_confirm_ # "power"
        /\ Lower("confirm")
     \/ \E over \in CASE pending_confirm_ = "power" -> {"busy"}
                      [] pending_confirm_ = "cal"   -> {"notice"}
                      [] OTHER                      -> {} :
          /\ z' = ToFront(ToBack(z, "confirm"), over)
          /\ shown' = (shown \ {"confirm"}) \cup {over}
  /\ print' = (print \/ pending_confirm_ = "print")
  /\ pending_confirm_' = "none"
  /\ asked' = FALSE

-----------------------------------------------------------------------------
\* Status deltas, replies, timers, the worker.

DeltaBusy == Raise("busy") /\ Idle
DeltaLog  == Raise("logbook") /\ Idle
HideBusy  == "busy" \in shown /\ Hide("busy") /\ Idle
HideLog   == "logbook" \in shown /\ Hide("logbook") /\ Idle

\* check_stale() redraws the logbook, alarm or live text.
StaleLog  == "logbook" \in shown /\ Raise("logbook") /\ Idle

WorkerNotice == Raise("notice") /\ Idle

PrintStarted ==
  /\ print
  /\ print' = FALSE
  /\ UNCHANGED <<z, shown, pending_confirm_, asked>>

PrintRefused ==
  /\ print
  /\ print' = FALSE
  /\ confirm("ack")
  /\ UNCHANGED asked

\* disconnected(): reset_overlay_state() hides two layers and no others.
LinkLost ==
  /\ shown' = shown \ {"busy", "logbook"}
  /\ print' = FALSE
  /\ UNCHANGED <<z, pending_confirm_, asked>>

KeepaliveAnyModal ==
  /\ shown \cap FullScreen = {}
  /\ z[6] # "estop"
  /\ Raise("estop")
  /\ Idle

\* Every 300 ms: E-STOP to the front, unless the confirm card is up.
_estop_keepalive ==
  /\ "confirm" \notin shown
  /\ z[6] # "estop"
  /\ Raise("estop")
  /\ Idle

Taps == TapAsk \/ TapBusy \/ TapValue \/ TapNotice \/ NumpadDone \/ _notice_tap
        \/ _callog_stop \/ _estop_tap \/ Cancel \/ Confirm

Next ==
  \/ Taps
  \/ DeltaBusy \/ DeltaLog \/ HideBusy \/ HideLog \/ StaleLog \/ WorkerNotice
  \/ PrintStarted \/ PrintRefused \/ LinkLost
  \/ _estop_keepalive

Spec == Init /\ [][Next]_vars

\* The UI thread's timers run for ever: the keepalive, and the watchdog that
\* drops a scrim after 180 s (pono_anim.cpp:82-85). Nobody else owes anything.
FairSpec == Spec /\ WF_vars(_estop_keepalive) /\ WF_vars(HideBusy)

-----------------------------------------------------------------------------
\* Properties.

\* A card on the glass always has an action behind it and a dismissed one
\* never does, so no later tap can fire a question that was put before
\* (main_panel.cpp:740-745, 759-767).
NoStrayAction == ("confirm" \in shown) <=> (pending_confirm_ # "none")

\* The operator is never walled in: whatever was raised in front of it, E-STOP
\* can be tapped again, or the card or notice that holds the keepalive back or
\* covers the card can (main_panel.cpp:705-711, 726-738).
EstopComesBack ==
  []<>(Tappable("estop") \/ Tappable("confirm") \/ Tappable("notice"))

\* An E-STOP tap is gated by "one confirm, then fire Moonraker's
\* printer.emergency_stop" (main_panel.cpp:716-717): while it waits for its
\* answer, the card's button is the stop.
EstopQuestionKept == asked => pending_confirm_ = "estop"

=============================================================================
