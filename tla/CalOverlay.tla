----------------------------- MODULE CalOverlay -----------------------------
(***************************************************************************)
(* What the cockpit says of a running calibration: the busy scrim          *)
(* (pono_anim.cpp, one singleton for taps and calibrations alike, with a   *)
(* 180 s watchdog), the Make Pono logbook, and the flags by which          *)
(* MainPanel::consume() keeps both in step with the status deltas          *)
(* (main_panel.cpp). Every action that touches them holds lv_lock: UI      *)
(* timers and taps, consume() and replies on the websocket thread, the     *)
(* update worker.                                                          *)
(*                                                                         *)
(* Klipper is external: k is what it does, sent what Moonraker has told    *)
(* the screen. A delta carries only the fields that changed.               *)
(***************************************************************************)
EXTENDS Integers

CONSTANTS
  CalMsg,        \* texts "Calibrating ..."
  RunMsg,        \* texts "Make Pono X/N: ..." and "Full Cal X/N: ..."
  NoMsg,         \* no text, or one of another kind
  Action,        \* the text of an action's own scrim ("Homing all axes" ...)
  WatchdogTicks, \* the watchdog's 180 s, in ticks
  MaxChanges,    \* bound: changes of Klipper's state
  MaxTaps,       \* bound: taps that raise the scrim
  MaxLosses,     \* bound: losses of the link or of Klipper
  MaxPrompts     \* bound: prompts of a macro

ASSUME MsgAssumption ==
  /\ CalMsg \cap RunMsg = {}
  /\ NoMsg \notin CalMsg \cup RunMsg
  /\ Action \notin CalMsg \cup RunMsg \cup {NoMsg}

ASSUME BoundAssumption ==
  /\ WatchdogTicks \in Nat \ {0}
  /\ {MaxChanges, MaxTaps, MaxLosses, MaxPrompts} \subseteq Nat

VARIABLES
  busy_, home_printing_, home_paused_, cal_msg_,
  cal_overlay_,  \* cal_overlay_text_; NoMsg is cal_overlay_ = false
  callog,        \* callog_text_ (NoMsg is callog_shown_ = false), callog_fault_
  stale_shown_,
  showing_,      \* PromptPanel's flag
  scrim,         \* the text g_busy shows; NoMsg when it is hidden
  watchdog,      \* ticks g_busy_watchdog has left; 0 when there is no timer
  cockpit,       \* the boot screen is out of the way
  owed,          \* "reply": a tap's completion reply; "install": the worker;
                 \* bound: one of each at a time
  k,             \* [idle, job, op, msg, seen]: idle is idle_timeout = "Printing",
                 \* seen that the screen knew of the pause before this op
  sent,          \* the fields of k as last sent
  sub,           \* Moonraker streams status to this screen
  contact,       \* "never" a delta, "live", or "silent" for ten seconds
  lost,          \* the screen has missed part of an op: "no", "yes", "cal" when
                 \* a disconnect took a calibration's overlay away, "heard" when
                 \* a delta has come since
  budget         \* what is left of the four bounds

flags == <<busy_, home_printing_, home_paused_, cal_msg_, cal_overlay_, callog,
           stale_shown_, showing_>>
busy  == <<scrim, watchdog>>
world == <<k, sent, sub, contact, lost>>
vars  == <<flags, busy, cockpit, owed, world, budget>>

Msg  == CalMsg \cup RunMsg \cup {NoMsg}
Jobs == {"standby", "printing", "paused"}
Ops  == {"none", "manual", "cal", "run"}

TypeOK ==
  /\ {busy_, home_printing_, home_paused_, stale_shown_, showing_} \subseteq BOOLEAN
  /\ cal_msg_ \in Msg /\ cal_overlay_ \in CalMsg \cup {NoMsg}
  /\ callog \in [text : RunMsg \cup {NoMsg}, fault : BOOLEAN]
  /\ scrim \in CalMsg \cup {NoMsg, Action}
  /\ watchdog \in 0 .. WatchdogTicks
  /\ cockpit \in BOOLEAN /\ owed \in SUBSET {"reply", "install"}
  /\ k \in [idle : BOOLEAN, job : Jobs, op : Ops, msg : Msg, seen : BOOLEAN]
  /\ sent \in [idle : BOOLEAN, job : Jobs, msg : Msg]
  /\ sub \in BOOLEAN /\ contact \in {"never", "live", "silent"}
  /\ lost \in {"no", "yes", "cal", "heard"}
  /\ budget \in [changes : 0 .. MaxChanges, taps : 0 .. MaxTaps,
                 losses : 0 .. MaxLosses, prompts : 0 .. MaxPrompts]

NoLog  == [text |-> NoMsg, fault |-> FALSE]
Status == [idle |-> k.idle, job |-> k.job, msg |-> k.msg]

\* The printer is idle; it may get busy before the screen connects.
Init ==
  /\ busy_ = FALSE /\ home_printing_ = FALSE /\ home_paused_ = FALSE
  /\ cal_msg_ = NoMsg /\ cal_overlay_ = NoMsg /\ callog = NoLog
  /\ stale_shown_ = FALSE /\ showing_ = FALSE
  /\ scrim = NoMsg /\ watchdog = 0
  /\ cockpit = FALSE /\ owed = {}
  /\ k = [idle |-> FALSE, job |-> "standby", op |-> "none", msg |-> NoMsg,
          seen |-> FALSE]
  /\ sent = Status
  /\ sub = FALSE /\ contact = "never" /\ lost = "no"
  /\ budget = [changes |-> MaxChanges, taps |-> MaxTaps,
               losses |-> MaxLosses, prompts |-> MaxPrompts]

Spend(what) == /\ budget[what] > 0
               /\ budget' = [budget EXCEPT ![what] = @ - 1]

-----------------------------------------------------------------------------
\* The scrim.

BusyShowKeepsTimer(text) == scrim' = text /\ watchdog' = watchdog

busy_show(text) == scrim' = text /\ watchdog' = WatchdogTicks
busy_hide       == scrim' = NoMsg /\ watchdog' = 0

\* LVGL's one-shot timer: time passes, then the scrim is dropped.
Tick ==
  /\ watchdog > 1
  /\ watchdog' = watchdog - 1
  /\ UNCHANGED <<flags, scrim, cockpit, owed, world, budget>>

busy_watchdog_cb ==
  /\ watchdog = 1
  /\ busy_hide
  /\ UNCHANGED <<flags, cockpit, owed, world, budget>>

hide_busy_overlay == busy_hide /\ cal_overlay_' = NoMsg

-----------------------------------------------------------------------------
\* The websocket thread.

\* consume(): fold the changed fields in, then redraw the two overlays where
\* their condition or their text has moved.
ConsumeOverlaysAlwaysStores(nb, printing, msg) ==
  LET cal_active == nb /\ ~printing /\ msg \in CalMsg /\ ~showing_
  IN
  /\ cal_overlay_' = msg
  /\ IF cal_active THEN busy_show(msg) ELSE UNCHANGED busy
  /\ callog' = NoLog

ConsumeOverlays(nb, printing, msg) ==
  LET cal_active == nb /\ ~printing /\ msg \in CalMsg /\ ~showing_
      cal_run    == (nb \/ printing) /\ msg \in RunMsg
  IN
  /\ cal_overlay_' = IF cal_active THEN msg ELSE NoMsg
  /\ CASE cal_active /\ msg # cal_overlay_       -> busy_show(msg)
       [] ~cal_active /\ cal_overlay_ # NoMsg    -> busy_hide
       [] OTHER                                  -> UNCHANGED busy
  /\ callog' = CASE cal_run /\ msg # callog.text -> [text |-> msg, fault |-> FALSE]
                 [] cal_run /\ msg = callog.text -> callog
                 [] OTHER                        -> NoLog

New(field, old) == IF k[field] # sent[field] THEN k[field] ELSE old

ConsumeFolds(nb, msg) ==
  /\ stale_shown_' = FALSE
  /\ busy_' = nb
  /\ cal_msg_' = msg
  /\ IF k.job # sent.job
     THEN /\ home_printing_' = (k.job = "printing")
          /\ home_paused_' = (k.job = "paused")
     ELSE UNCHANGED <<home_printing_, home_paused_>>
  /\ ConsumeOverlays(nb, home_printing_', msg)
  /\ sent' = Status /\ contact' = "live"
  /\ lost' = IF lost = "cal" /\ cockpit THEN "heard" ELSE lost
  /\ UNCHANGED <<showing_, cockpit, owed, k, sub, budget>>

ConsumeKeepsText ==
  /\ sub
  /\ LET nb == New("idle", busy_) IN ConsumeFolds(nb, New("msg", cal_msg_))

consume ==
  /\ sub
  /\ LET nb == New("idle", busy_)
     IN  ConsumeFolds(nb, New("msg", IF busy_ /\ ~nb THEN NoMsg ELSE cal_msg_))

\* The subscribe reply, of any handshake: MainPanel::init() seeds only the print
\* state of these fields. A change the reply carries comes in no later delta, so
\* one it does not fold in is missed. With a loss since that handshake began
\* (epoch # conn_epoch_) the boot screen stays.
init ==
  /\ sub' = TRUE
  /\ cockpit' = TRUE \/ (budget.losses < MaxLosses /\ cockpit' = cockpit)
  /\ home_printing_' = (k.job = "printing")
  /\ home_paused_' = (k.job = "paused")
  /\ sent' = Status
  /\ LET missed == k.idle # busy_ \/ (cockpit /\ k.msg # sent.msg)
     IN  lost' = IF lost = "no" /\ (missed \/ ~cockpit') THEN "yes" ELSE lost
  /\ UNCHANGED <<busy_, cal_msg_, cal_overlay_, callog, stale_shown_, showing_,
                 busy, owed, k, contact, budget>>

\* disconnected() and its reset_overlay_state(): the link is gone, or Klipper
\* is and the socket lives on (its replies and a shut-down Klipper's deltas
\* still come).
ResetKeepsLogbook ==
  /\ hide_busy_overlay
  /\ callog' = callog
  /\ showing_' = FALSE
  /\ busy_' = FALSE

reset_overlay_state ==
  /\ hide_busy_overlay
  /\ callog' = NoLog
  /\ showing_' = FALSE
  /\ busy_' = FALSE

disconnected ==
  /\ Spend("losses")
  /\ cockpit' = FALSE
  /\ lost' = CASE ~cockpit -> lost [] cal_overlay_ # NoMsg -> "cal" [] OTHER -> "yes"
  /\ \/ sub' = FALSE /\ owed' = owed \ {"reply"}
     \/ UNCHANGED <<sub, owed>>
  /\ reset_overlay_state
  /\ UNCHANGED <<home_printing_, home_paused_, cal_msg_, stale_shown_, k, sent, contact>>

\* The completion reply of a tap's gcode.
Reply ==
  /\ "reply" \in owed
  /\ owed' = owed \ {"reply"}
  /\ hide_busy_overlay
  /\ UNCHANGED <<busy_, home_printing_, home_paused_, cal_msg_, callog, stale_shown_,
                 showing_, cockpit, world, budget>>

\* PromptPanel::handle_macro_response.
prompt_show ==
  /\ Spend("prompts")
  /\ showing_' = TRUE
  /\ busy_hide
  /\ UNCHANGED <<busy_, home_printing_, home_paused_, cal_msg_, cal_overlay_, callog,
                 stale_shown_, cockpit, owed, world>>

prompt_end ==
  /\ showing_
  /\ showing_' = FALSE
  /\ UNCHANGED <<busy_, home_printing_, home_paused_, cal_msg_, cal_overlay_, callog,
                 stale_shown_, busy, cockpit, owed, world, budget>>

-----------------------------------------------------------------------------
\* The operator, the update worker, the five-second timer.

\* An action with a completion reply. The scrim swallows the taps behind it.
TapAction ==
  /\ cockpit /\ scrim = NoMsg /\ "reply" \notin owed
  /\ Spend("taps")
  /\ busy_show(Action)
  /\ owed' = owed \cup {"reply"}
  /\ UNCHANGED <<flags, cockpit, world>>

\* "Starting calibration..." from the Tune screen, refused with a job loaded.
TapCal ==
  /\ cockpit /\ scrim = NoMsg
  /\ ~home_printing_ /\ ~home_paused_
  /\ Spend("taps")
  /\ busy_show(Action)
  /\ UNCHANGED <<flags, cockpit, owed, world>>

\* A confirmed power action; the card may be answered over the boot screen.
ConfirmPower ==
  /\ scrim = NoMsg
  /\ Spend("taps")
  /\ busy_show(Action)
  /\ UNCHANGED <<flags, cockpit, owed, world>>

ConfirmInstall ==
  /\ scrim = NoMsg /\ "install" \notin owed
  /\ ~home_printing_ /\ ~home_paused_
  /\ Spend("taps")
  /\ busy_show(Action)
  /\ owed' = owed \cup {"install"}
  /\ UNCHANGED <<flags, cockpit, world>>

InstallReturns ==
  /\ "install" \in owed
  /\ owed' = owed \ {"install"}
  /\ busy_hide
  /\ UNCHANGED <<flags, cockpit, world, budget>>

\* check_stale(): the cockpit's stale mark, and the logbook's alarm.
CheckStaleMarkOnly ==
  /\ stale_shown_' = (contact = "silent" /\ (home_printing_ \/ home_paused_ \/ busy_))
  /\ UNCHANGED <<busy_, home_printing_, home_paused_, cal_msg_, cal_overlay_, callog,
                 showing_, busy, cockpit, owed, world, budget>>

check_stale ==
  /\ stale_shown_' = (contact = "silent" /\ (home_printing_ \/ home_paused_ \/ busy_))
  /\ callog' = [callog EXCEPT !.fault = callog.text # NoMsg /\ contact = "silent"]
  /\ UNCHANGED <<busy_, home_printing_, home_paused_, cal_msg_, cal_overlay_, showing_,
                 busy, cockpit, owed, world, budget>>

-----------------------------------------------------------------------------
\* Klipper and Moonraker (external).

Change(new) ==
  /\ Spend("changes")
  /\ k' = new
  /\ UNCHANGED <<flags, busy, cockpit, owed, sent, sub, contact, lost>>

Seen == sub /\ ~sent.idle

\* A macro starts and announces its first step; a manual move says nothing.
StartOp ==
  /\ k.op = "none" /\ k.job = "standby"
  /\ \E o \in {"manual", "cal", "run"} :
       \E m \in CASE o = "cal" -> CalMsg [] o = "run" -> RunMsg [] OTHER -> {k.msg} :
         Change([k EXCEPT !.idle = TRUE, !.op = o, !.msg = m,
                          !.seen = Seen])

Announce ==
  /\ k.idle
  /\ \E m \in CASE k.op = "cal" -> CalMsg [] k.op = "run" -> RunMsg [] OTHER -> {} :
       m # k.msg /\ Change([k EXCEPT !.msg = m])

\* idle_timeout turns "Ready" half a second after the last command, by which
\* time a live subscription (four a second) has carried the last text.
OpEnds ==
  /\ k.op # "none" /\ k.job = "standby"
  /\ sub => sent.msg = k.msg
  /\ \E m \in {k.msg, NoMsg} :
       Change([k EXCEPT !.idle = FALSE, !.op = "none", !.msg = m])

\* A print by itself, or a test print of a Make Pono run.
PrintStarts ==
  /\ k.job = "standby" /\ k.op \in {"none", "run"}
  /\ Change([k EXCEPT !.job = "printing", !.idle = TRUE,
                      !.seen = IF k.op = "run" THEN @ ELSE Seen])

PrintPauses ==
  /\ k.job = "printing"
  /\ sub => sent.msg = k.msg
  /\ Change([k EXCEPT !.job = "paused", !.idle = FALSE])

PrintResumes ==
  /\ k.job = "paused"
  /\ Change([k EXCEPT !.job = "printing", !.idle = TRUE])

PrintEnds ==
  /\ k.job # "standby"
  /\ sub => sent.msg = k.msg
  /\ Change([k EXCEPT !.job = "standby", !.idle = (k.op = "run")])

\* ms_since_status_update() passes ten seconds; before a first delta it is -1.
Silence ==
  /\ contact = "live"
  /\ contact' = "silent"
  /\ UNCHANGED <<flags, busy, cockpit, owed, k, sent, sub, lost, budget>>

Klipper == StartOp \/ Announce \/ OpEnds \/ PrintStarts \/ PrintPauses
           \/ PrintResumes \/ PrintEnds

Next ==
  \/ Tick \/ busy_watchdog_cb
  \/ consume \/ init \/ disconnected \/ Reply \/ prompt_show \/ prompt_end
  \/ TapAction \/ TapCal \/ ConfirmPower \/ ConfirmInstall \/ InstallReturns
  \/ check_stale
  \/ Klipper \/ Silence

Spec == Init /\ [][Next]_vars

\* The UI thread runs its timers for ever (guppyscreen.cpp's loop). Nothing is
\* assumed of Klipper, of Moonraker or of the operator.
Fairness == WF_vars(Tick) /\ WF_vars(busy_watchdog_cb) /\ WF_vars(check_stale)

FairSpec == Spec /\ Fairness

-----------------------------------------------------------------------------
\* Properties.

\* Whatever Klipper did has been told to the screen.
CaughtUp == cockpit /\ sub /\ sent = Status

\* A scrim that is up has its watchdog running, and no timer outlives its
\* scrim to drop the next one early (pono_anim.cpp:75-86, 111-123).
ScrimIsArmed == (scrim # NoMsg) <=> (watchdog > 0)

\* On a link that has held, the glass never shows a calibration or a run that
\* is not going on: no leftover text raises an overlay on a later manual move
\* or print (main_panel.cpp:291, 432-480). Two things escape this: an op that
\* follows the last one too closely for a delta in between, and a change that
\* only the reply of a second, overlapping handshake carried: init() does not
\* clear busy_ or cal_overlay_, so a calibration that ended in it stays shown.
OverlayIsHonest ==
  (CaughtUp /\ lost = "no" /\ (k.idle => k.seen)) =>
    /\ cal_overlay_ # NoMsg => k.op = "cal"
    /\ callog.text # NoMsg => k.op = "run"

\* A lost link strands nothing: with the boot screen up and no status coming,
\* neither the logbook nor a calibration's scrim is left over it
\* (main_panel.cpp:559-571).
LossStrandsNothing ==
  (~cockpit /\ ~sub) => callog = NoLog /\ cal_overlay_ = NoMsg /\ scrim \notin CalMsg

\* No scrim stays for good, reply or no reply (pono_anim.cpp:75-78).
ScrimGoes == scrim # NoMsg ~> scrim = NoMsg

\* Silence during a run lights the logbook's alarm (main_panel.cpp:188-203).
AlarmLights ==
  (callog.text # NoMsg /\ contact = "silent") ~>
    (callog.text = NoMsg \/ callog.fault \/ contact = "live")

\* The cal overlay "re-shows on reconnect if the cal is still running"
\* (main_panel.cpp:559-562): at the latest with the first delta after it.
CalReShows ==
  (CaughtUp /\ lost = "heard" /\ k.op = "cal" /\ ~showing_)
    => cal_overlay_ # NoMsg

\* The watchdog "only fires on a genuine hang and never cuts a healthy op
\* short" (pono_anim.cpp:111-113): it leaves a calibration under way alone.
WatchdogSparesHealthyOps ==
  [][(CaughtUp /\ k.op = "cal" /\ k.idle /\ scrim = k.msg /\ scrim' = NoMsg)
       => ~(watchdog = 1 /\ UNCHANGED flags)]_vars

=============================================================================
