-------------------------- MODULE CalOverlayProofs --------------------------
(***************************************************************************)
(* For any texts, any number of taps, losses and prompts, and any length   *)
(* of the watchdog: the scrim and its timer come and go together, a lost   *)
(* link leaves no calibration on the glass, and what the overlay tells is  *)
(* what Klipper does.                                                      *)
(***************************************************************************)
EXTENDS CalOverlay, TLAPS

WatchdogOK == watchdog \in 0 .. WatchdogTicks

\* The scrim and its timer, and nothing else.
BusyOK == WatchdogOK /\ ScrimIsArmed

LEMMA ShowKeepsBusyOK ==
  ASSUME BusyOK, NEW text, text # NoMsg, busy_show(text) PROVE BusyOK'
  BY BoundAssumption DEF BusyOK, WatchdogOK, ScrimIsArmed, busy_show

LEMMA HideKeepsBusyOK == ASSUME BusyOK, busy_hide PROVE BusyOK'
  BY BoundAssumption DEF BusyOK, WatchdogOK, ScrimIsArmed, busy_hide

LEMMA UnchangedKeepsBusyOK == ASSUME BusyOK, UNCHANGED busy PROVE BusyOK'
  BY DEF BusyOK, WatchdogOK, ScrimIsArmed, busy

LEMMA StepBusyOK == BusyOK /\ [Next]_vars => BusyOK'
<1> SUFFICES ASSUME BusyOK, [Next]_vars PROVE BusyOK'
  OBVIOUS
<1>1. CASE Tick
  BY <1>1, BoundAssumption DEF Tick, BusyOK, WatchdogOK, ScrimIsArmed
<1>2. CASE busy_watchdog_cb \/ prompt_show \/ InstallReturns
  BY <1>2, HideKeepsBusyOK DEF busy_watchdog_cb, prompt_show, InstallReturns
<1>3. CASE disconnected \/ Reply
  BY <1>3, HideKeepsBusyOK
     DEF disconnected, reset_overlay_state, Reply, hide_busy_overlay
<1>4. CASE TapAction \/ TapCal \/ ConfirmPower \/ ConfirmInstall
  <2>1. Action # NoMsg /\ busy_show(Action)
    BY <1>4, MsgAssumption DEF TapAction, TapCal, ConfirmPower, ConfirmInstall
  <2> QED BY <2>1, ShowKeepsBusyOK
<1>5. CASE consume
  <2>1. PICK nb, printing, msg : ConsumeOverlays(nb, printing, msg)
    BY <1>5 DEF consume, ConsumeFolds
  <2>2. \/ msg \in CalMsg /\ busy_show(msg)
        \/ busy_hide
        \/ UNCHANGED busy
    BY <2>1 DEF ConsumeOverlays
  <2> QED
    BY <2>2, MsgAssumption, ShowKeepsBusyOK, HideKeepsBusyOK, UnchangedKeepsBusyOK
<1>6. CASE init \/ prompt_end \/ check_stale \/ Silence \/ Klipper \/ UNCHANGED vars
  <2>1. UNCHANGED busy
    BY <1>6 DEF init, prompt_end, check_stale, Silence, Klipper, StartOp, Announce, OpEnds,
                PrintStarts, PrintPauses, PrintResumes, PrintEnds, Change, vars
  <2> QED BY <2>1, UnchangedKeepsBusyOK
<1> QED BY <1>1, <1>2, <1>3, <1>4, <1>5, <1>6 DEF Next

\* Every way of raising the scrim arms the watchdog and every way of dropping
\* it cancels it (pono_anim.cpp:75-124), so a scrim can always time out.
THEOREM ScrimCanTimeOut == Spec => []ScrimIsArmed
<1>1. Init => BusyOK
  BY BoundAssumption DEF Init, BusyOK, WatchdogOK, ScrimIsArmed
<1>2. BusyOK => ScrimIsArmed
  BY DEF BusyOK
<1> QED BY <1>1, <1>2, StepBusyOK, PTL DEF Spec

-----------------------------------------------------------------------------
\* LossStrandsNothing is inductive: only init() and disconnected() move
\* cockpit and sub, and without a subscription nothing raises an overlay.
LEMMA StepStrandsNothing == LossStrandsNothing /\ [Next]_vars => LossStrandsNothing'
<1> SUFFICES ASSUME LossStrandsNothing, [Next]_vars, ~cockpit', ~sub'
             PROVE  callog' = NoLog /\ cal_overlay_' = NoMsg /\ scrim' \notin CalMsg
  BY DEF LossStrandsNothing, NoLog
<1> DEFINE Clean == callog = NoLog /\ cal_overlay_ = NoMsg /\ scrim \notin CalMsg
<1>0. NoMsg \notin CalMsg /\ Action \notin CalMsg
  BY MsgAssumption
<1>1. CASE disconnected
  BY <1>0, <1>1
     DEF disconnected, reset_overlay_state, hide_busy_overlay, busy_hide, NoLog
<1>2. CASE init
  BY <1>2 DEF init
<1>3. CASE consume
  BY <1>3 DEF consume, ConsumeFolds
<1>4. CASE Tick \/ busy_watchdog_cb \/ prompt_show \/ prompt_end \/ Reply
  <2>1. Clean
    BY <1>4 DEF LossStrandsNothing, Tick, busy_watchdog_cb, prompt_show, prompt_end, Reply,
                world
  <2> QED
    BY <1>0, <1>4, <2>1
       DEF Tick, busy_watchdog_cb, prompt_show, prompt_end, Reply, flags, busy,
           hide_busy_overlay, busy_hide, NoLog
<1>5. CASE TapAction \/ TapCal \/ ConfirmPower \/ ConfirmInstall \/ InstallReturns
  <2>1. Clean
    BY <1>5 DEF LossStrandsNothing, TapAction, TapCal, ConfirmPower, ConfirmInstall,
                InstallReturns, world
  <2> QED
    BY <1>0, <1>5, <2>1
       DEF TapAction, TapCal, ConfirmPower, ConfirmInstall, InstallReturns, flags,
           busy_show, busy_hide, NoLog
<1>6. CASE check_stale
  <2>1. Clean
    BY <1>6 DEF LossStrandsNothing, check_stale, world
  <2>2. callog' = NoLog
    BY <1>6, <2>1 DEF check_stale, NoLog
  <2> QED BY <1>6, <2>1, <2>2 DEF check_stale, busy
<1>7. CASE Silence \/ Klipper \/ UNCHANGED vars
  <2>1. UNCHANGED <<flags, busy, cockpit, sub>>
    BY <1>7 DEF Silence, Klipper, StartOp, Announce, OpEnds, PrintStarts, PrintPauses,
                PrintResumes, PrintEnds, Change, vars, world
  <2> QED BY <2>1 DEF LossStrandsNothing, flags, busy, NoLog
<1> QED BY <1>1, <1>2, <1>3, <1>4, <1>5, <1>6, <1>7 DEF Next

\* reset_overlay_state() (main_panel.cpp:563-571) is complete: after a loss,
\* until status streams again, no logbook and no calibration scrim is up.
THEOREM NothingStranded == Spec => []LossStrandsNothing
<1>1. Init => LossStrandsNothing
  BY MsgAssumption DEF Init, LossStrandsNothing, NoLog
<1> QED BY <1>1, StepStrandsNothing, PTL DEF Spec

-----------------------------------------------------------------------------
\* Type correctness, by owner: the panel's flags, the texts, the world.

FlagsOK ==
  /\ busy_ \in BOOLEAN /\ home_printing_ \in BOOLEAN /\ home_paused_ \in BOOLEAN
  /\ stale_shown_ \in BOOLEAN /\ showing_ \in BOOLEAN
  /\ cockpit \in BOOLEAN /\ sub \in BOOLEAN

TextsOK ==
  /\ cal_msg_ \in Msg /\ cal_overlay_ \in CalMsg \cup {NoMsg}
  /\ callog \in [text : RunMsg \cup {NoMsg}, fault : BOOLEAN]
  /\ scrim \in CalMsg \cup {NoMsg, Action}
  /\ watchdog \in 0 .. WatchdogTicks

KType    == [idle : BOOLEAN, job : Jobs, op : Ops, msg : Msg, seen : BOOLEAN]
SentType == [idle : BOOLEAN, job : Jobs, msg : Msg]

WorldOK ==
  /\ k \in KType /\ sent \in SentType
  /\ contact \in {"never", "live", "silent"}
  /\ lost \in {"no", "yes", "cal", "heard"}
  /\ owed \in SUBSET {"reply", "install"}

BudgetOK ==
  budget \in [changes : 0 .. MaxChanges, taps : 0 .. MaxTaps,
              losses : 0 .. MaxLosses, prompts : 0 .. MaxPrompts]

LEMMA TypeParts == TypeOK <=> FlagsOK /\ TextsOK /\ WorldOK /\ BudgetOK
  BY DEF TypeOK, FlagsOK, TextsOK, WorldOK, BudgetOK, KType, SentType

LEMMA SpendKeepsBudget ==
  ASSUME BudgetOK, NEW what \in {"changes", "taps", "losses", "prompts"}, Spend(what)
  PROVE  BudgetOK'
  BY BoundAssumption DEF BudgetOK, Spend

\* busy_show() and busy_hide() keep the scrim's type.
LEMMA ScrimTypes ==
  /\ \A text \in CalMsg \cup {Action} :
       busy_show(text) => scrim' \in CalMsg \cup {NoMsg, Action}
                          /\ watchdog' \in 0 .. WatchdogTicks
  /\ busy_hide => scrim' \in CalMsg \cup {NoMsg, Action}
                  /\ watchdog' \in 0 .. WatchdogTicks
  BY BoundAssumption DEF busy_show, busy_hide

LEMMA StatusType == ASSUME WorldOK PROVE Status \in SentType
  BY DEF WorldOK, Status, KType, SentType

LEMMA ConsumeTypes ==
  ASSUME FlagsOK, TextsOK, WorldOK, BudgetOK, consume
  PROVE  (FlagsOK /\ TextsOK /\ WorldOK /\ BudgetOK)'
<1> DEFINE nb  == New("idle", busy_)
           msg == New("msg", IF busy_ /\ ~nb THEN NoMsg ELSE cal_msg_)
<1>1. ConsumeFolds(nb, msg)
  BY DEF consume
<1>2. nb \in BOOLEAN
  BY DEF New, FlagsOK, WorldOK, KType
<1>3. msg \in Msg
  BY DEF New, TextsOK, WorldOK, KType, Msg
<1> HIDE DEF nb, msg
<1>4. home_printing_' \in BOOLEAN /\ home_paused_' \in BOOLEAN /\ stale_shown_' \in BOOLEAN
  BY <1>1, Zenon DEF ConsumeFolds, FlagsOK
<1>5. FlagsOK'
  BY <1>1, <1>2, <1>4 DEF ConsumeFolds, FlagsOK
<1>6. ConsumeOverlays(nb, home_printing_', msg)
  BY <1>1 DEF ConsumeFolds
<1>7. /\ cal_overlay_' \in CalMsg \cup {NoMsg}
      /\ callog' \in [text : RunMsg \cup {NoMsg}, fault : BOOLEAN]
  BY <1>6 DEF ConsumeOverlays, TextsOK, NoLog
<1>8. (\E t \in CalMsg : busy_show(t)) \/ busy_hide \/ UNCHANGED busy
  BY <1>6 DEF ConsumeOverlays
<1>9. TextsOK'
  BY <1>1, <1>3, <1>7, <1>8, ScrimTypes DEF TextsOK, ConsumeFolds, busy
<1>10. WorldOK' /\ BudgetOK'
  BY <1>1, StatusType DEF ConsumeFolds, WorldOK, BudgetOK
<1> QED BY <1>5, <1>9, <1>10

LEMMA KlipperTypes ==
  ASSUME FlagsOK, TextsOK, WorldOK, BudgetOK, Klipper
  PROVE  (FlagsOK /\ TextsOK /\ WorldOK /\ BudgetOK)'
<1> USE DEF WorldOK
<1>1. ASSUME NEW new \in KType, Change(new)
      PROVE  (FlagsOK /\ TextsOK /\ WorldOK /\ BudgetOK)'
  BY <1>1, SpendKeepsBudget DEF Change, FlagsOK, TextsOK, flags, busy
<1>2. Seen \in BOOLEAN /\ (k.op = "run") \in BOOLEAN
  BY DEF Seen
<1>3. CASE StartOp
  <2>1. PICK o \in {"manual", "cal", "run"} :
          \E m \in CASE o = "cal" -> CalMsg [] o = "run" -> RunMsg [] OTHER -> {k.msg} :
            Change([k EXCEPT !.idle = TRUE, !.op = o, !.msg = m, !.seen = Seen])
    BY <1>3 DEF StartOp
  <2>2. PICK m \in CASE o = "cal" -> CalMsg [] o = "run" -> RunMsg [] OTHER -> {k.msg} :
            Change([k EXCEPT !.idle = TRUE, !.op = o, !.msg = m, !.seen = Seen])
    BY <2>1
  <2>3. m \in Msg
    BY DEF KType, Msg
  <2>4. [k EXCEPT !.idle = TRUE, !.op = o, !.msg = m, !.seen = Seen] \in KType
    BY <1>2, <2>3 DEF KType, Ops
  <2> QED BY <1>1, <2>2, <2>4
<1>4. CASE Announce
  <2>1. PICK m \in CASE k.op = "cal" -> CalMsg [] k.op = "run" -> RunMsg [] OTHER -> {} :
          Change([k EXCEPT !.msg = m])
    BY <1>4 DEF Announce
  <2>2. m \in Msg
    BY DEF Msg
  <2>3. [k EXCEPT !.msg = m] \in KType
    BY <2>2 DEF KType
  <2> QED BY <1>1, <2>1, <2>3
<1>5. CASE OpEnds
  <2>1. PICK m \in {k.msg, NoMsg} :
          Change([k EXCEPT !.idle = FALSE, !.op = "none", !.msg = m])
    BY <1>5 DEF OpEnds
  <2>2. [k EXCEPT !.idle = FALSE, !.op = "none", !.msg = m] \in KType
    BY DEF KType, Ops, Msg
  <2> QED BY <1>1, <2>1, <2>2
<1>6. CASE PrintStarts
  <2>1. [k EXCEPT !.job = "printing", !.idle = TRUE,
                  !.seen = IF k.op = "run" THEN @ ELSE Seen] \in KType
    BY <1>2 DEF KType, Jobs
  <2> QED BY <1>1, <1>6, <2>1 DEF PrintStarts
<1>7. CASE PrintPauses
  <2>1. [k EXCEPT !.job = "paused", !.idle = FALSE] \in KType
    BY DEF KType, Jobs
  <2> QED BY <1>1, <1>7, <2>1 DEF PrintPauses
<1>8. CASE PrintResumes
  <2>1. [k EXCEPT !.job = "printing", !.idle = TRUE] \in KType
    BY DEF KType, Jobs
  <2> QED BY <1>1, <1>8, <2>1 DEF PrintResumes
<1>9. CASE PrintEnds
  <2>1. [k EXCEPT !.job = "standby", !.idle = (k.op = "run")] \in KType
    BY <1>2 DEF KType, Jobs
  <2> QED BY <1>1, <1>9, <2>1 DEF PrintEnds
<1> QED BY <1>3, <1>4, <1>5, <1>6, <1>7, <1>8, <1>9 DEF Klipper

LEMMA StepTypes ==
  FlagsOK /\ TextsOK /\ WorldOK /\ BudgetOK /\ [Next]_vars
    => (FlagsOK /\ TextsOK /\ WorldOK /\ BudgetOK)'
<1> SUFFICES ASSUME FlagsOK, TextsOK, WorldOK, BudgetOK, [Next]_vars
             PROVE  (FlagsOK /\ TextsOK /\ WorldOK /\ BudgetOK)'
  OBVIOUS
<1>1. CASE Tick \/ busy_watchdog_cb
  <2>1. TextsOK'
    BY <1>1, ScrimTypes, BoundAssumption DEF Tick, busy_watchdog_cb, TextsOK, flags
  <2>2. UNCHANGED flags /\ UNCHANGED <<cockpit, owed, world, budget>>
    BY <1>1 DEF Tick, busy_watchdog_cb
  <2>3. FlagsOK'
    BY <2>2, Zenon DEF FlagsOK, flags, world
  <2>4. WorldOK'
    BY <2>2, Zenon DEF WorldOK, world
  <2>5. BudgetOK'
    BY <2>2, Zenon DEF BudgetOK, world
  <2> QED BY <2>1, <2>3, <2>4, <2>5
<1>2. CASE init
  <2>1. cockpit' \in BOOLEAN
    BY <1>2, Zenon DEF init, FlagsOK
  <2>2. FlagsOK'
    BY <1>2, <2>1, Zenon DEF init, FlagsOK
  <2> QED BY <1>2, <2>2, StatusType DEF init, TextsOK, WorldOK, BudgetOK, busy
<1>3. CASE disconnected
  <2>1. sub' \in BOOLEAN /\ owed' \in SUBSET {"reply", "install"}
    BY <1>3 DEF disconnected, FlagsOK, WorldOK
  <2>2. lost' \in {"no", "yes", "cal", "heard"}
    BY <1>3 DEF disconnected, WorldOK
  <2>3. FlagsOK'
    BY <1>3, <2>1, Zenon DEF disconnected, reset_overlay_state, FlagsOK
  <2>4. TextsOK'
    BY <1>3, ScrimTypes DEF disconnected, reset_overlay_state, hide_busy_overlay, TextsOK, NoLog
  <2>5. BudgetOK' /\ WorldOK'
    BY <1>3, <2>1, <2>2, SpendKeepsBudget DEF disconnected, WorldOK
  <2> QED BY <2>3, <2>4, <2>5
<1>4. CASE Reply \/ prompt_show \/ prompt_end
  <2>1. TextsOK'
    BY <1>4, ScrimTypes DEF Reply, prompt_show, prompt_end, hide_busy_overlay, TextsOK, busy
  <2>2. FlagsOK'
    BY <1>4, Zenon DEF Reply, prompt_show, prompt_end, FlagsOK, world
  <2>3. WorldOK' /\ BudgetOK'
    BY <1>4, SpendKeepsBudget DEF Reply, prompt_show, prompt_end, WorldOK, BudgetOK, world
  <2> QED BY <2>1, <2>2, <2>3
<1>5. CASE TapAction \/ TapCal \/ ConfirmPower \/ ConfirmInstall \/ InstallReturns
  <2> USE DEF TapAction, TapCal, ConfirmPower, ConfirmInstall, InstallReturns
  <2>1. TextsOK'
    BY <1>5, ScrimTypes DEF TextsOK, flags
  <2>2. UNCHANGED <<flags, cockpit, world>> /\ owed' \in SUBSET {"reply", "install"}
    BY <1>5 DEF WorldOK
  <2>3. FlagsOK'
    BY <2>2, Zenon DEF FlagsOK, flags, world
  <2>4. WorldOK'
    BY <2>2 DEF WorldOK, world
  <2>5. BudgetOK'
    BY <1>5, SpendKeepsBudget DEF BudgetOK
  <2> QED BY <2>1, <2>3, <2>4, <2>5
<1>6. CASE check_stale
  <2>1. FlagsOK'
    BY <1>6, Zenon DEF check_stale, FlagsOK, world
  <2>2. TextsOK'
    BY <1>6 DEF check_stale, TextsOK, busy
  <2> QED BY <1>6, <2>1, <2>2 DEF check_stale, WorldOK, BudgetOK, world
<1>7. CASE Silence \/ UNCHANGED vars
  <2>1. /\ UNCHANGED <<flags, busy, cockpit, owed, k, sent, sub, lost, budget>>
        /\ contact' \in {"never", "live", "silent"}
    BY <1>7 DEF Silence, vars, world, WorldOK
  <2>2. FlagsOK'
    BY <2>1, Zenon DEF FlagsOK, flags
  <2> QED BY <2>1, <2>2 DEF TextsOK, WorldOK, BudgetOK, flags, busy
<1> QED BY <1>1, <1>2, <1>3, <1>4, <1>5, <1>6, <1>7, ConsumeTypes, KlipperTypes DEF Next

LEMMA InitTypes == Init => FlagsOK /\ TextsOK /\ WorldOK /\ BudgetOK
<1> SUFFICES ASSUME Init PROVE FlagsOK /\ TextsOK /\ WorldOK /\ BudgetOK
  OBVIOUS
<1>1. FlagsOK
  BY Zenon DEF Init, FlagsOK
<1>2. k \in KType /\ sent \in SentType
  BY DEF Init, Status, KType, SentType, Jobs, Ops, Msg
<1>3. TextsOK /\ BudgetOK
  BY BoundAssumption DEF Init, TextsOK, BudgetOK, NoLog, Msg
<1> QED BY <1>1, <1>2, <1>3 DEF Init, WorldOK

\* Type correctness of the overlay flags, the scrim, the logbook and the bounds.
THEOREM TypeCorrect == Spec => []TypeOK
  BY InitTypes, StepTypes, TypeParts, PTL DEF Spec

-----------------------------------------------------------------------------
(***************************************************************************)
(* No leftover text on the glass. While the screen has missed nothing, its *)
(* flags are those of the status last sent; the text it holds is gone once *)
(* it knows of a pause; so a text it holds during an op that began after   *)
(* that pause was announced by this op.                                    *)
(***************************************************************************)

Active == k.op # "none" \/ k.job # "standby"

\* Texts belong to what Klipper does.
KlipperOK ==
  /\ k.idle => Active
  /\ k.job = "printing" => k.idle
  /\ k.job # "standby" => k.op \in {"none", "run"}
  /\ k.op = "cal" => k.msg \in CalMsg
  /\ k.op = "run" => k.msg \in RunMsg

OwnText(m) ==
  /\ m \in CalMsg => k.op = "cal"
  /\ m \in RunMsg => k.op = "run"

\* Before the first connection nothing has reached the glass.
FreshGlass ==
  /\ ~sub /\ ~k.seen /\ ~busy_
  /\ cal_msg_ = NoMsg /\ cal_overlay_ = NoMsg /\ callog.text = NoMsg

\* On a link that has held, the glass follows the status last sent.
GlassFollows ==
  /\ sub
  /\ busy_ <=> sent.idle
  /\ home_printing_ <=> sent.job = "printing"
  /\ sent.job = "printing" => sent.idle
  /\ cal_overlay_ # NoMsg => busy_ /\ cal_overlay_ = cal_msg_
  /\ callog.text # NoMsg => (busy_ \/ home_printing_) /\ callog.text = cal_msg_

\* A pause the screen was told of has cleared the text; a text not sent yet
\* is this op's own.
TextsAreOwn ==
  /\ ~k.idle => k.msg \in {sent.msg, NoMsg}
  /\ ~sent.idle => cal_msg_ = NoMsg
  /\ k.seen /\ Active => OwnText(cal_msg_)
  /\ k.seen /\ Active /\ k.msg # sent.msg => OwnText(k.msg)

HonestOK ==
  lost = "no" => IF cockpit THEN GlassFollows /\ TextsAreOwn ELSE FreshGlass

TypesOK == FlagsOK /\ TextsOK /\ WorldOK /\ BudgetOK

\* Klipper announces texts of its own, and goes idle only after its last text
\* has been sent.
LEMMA KlipperHonest ==
  ASSUME TypesOK, KlipperOK, HonestOK, Klipper
  PROVE  KlipperOK' /\ HonestOK'
<1>0. /\ UNCHANGED <<flags, busy, cockpit, owed, sent, sub, contact, lost>>
      /\ k \in KType /\ sent.idle \in BOOLEAN
  BY DEF Klipper, StartOp, Announce, OpEnds, PrintStarts, PrintPauses, PrintResumes,
         PrintEnds, Change, TypesOK, WorldOK, SentType
<1>1. UNCHANGED <<busy_, home_printing_, cal_msg_, cal_overlay_, callog, cockpit, sent, sub, lost>>
  BY <1>0 DEF flags
\* It is enough to look at k.
<1>2. ASSUME KlipperOK', lost = "no" /\ ~cockpit => ~k'.seen,
             lost = "no" /\ cockpit => TextsAreOwn'
      PROVE  KlipperOK' /\ HonestOK'
  BY <1>1, <1>2 DEF HonestOK, FreshGlass, GlassFollows
<1>3. lost = "no" /\ ~cockpit => ~Seen /\ ~k.seen
  BY DEF HonestOK, FreshGlass, Seen
<1>4. lost = "no" /\ cockpit => sub /\ TextsAreOwn
  BY DEF HonestOK, GlassFollows
<1>5. CASE StartOp
  <2>1. PICK o \in {"manual", "cal", "run"} :
          \E m \in CASE o = "cal" -> CalMsg [] o = "run" -> RunMsg [] OTHER -> {k.msg} :
            Change([k EXCEPT !.idle = TRUE, !.op = o, !.msg = m, !.seen = Seen])
    BY <1>5 DEF StartOp
  <2>2. PICK m \in CASE o = "cal" -> CalMsg [] o = "run" -> RunMsg [] OTHER -> {k.msg} :
            Change([k EXCEPT !.idle = TRUE, !.op = o, !.msg = m, !.seen = Seen])
    BY <2>1
  <2>3. k' = [k EXCEPT !.idle = TRUE, !.op = o, !.msg = m, !.seen = Seen]
    BY <2>2 DEF Change
  <2>4. /\ k'.idle = TRUE /\ k'.op = o /\ k'.msg = m /\ k'.seen = Seen
        /\ k'.job = k.job /\ k.op = "none" /\ k.job = "standby"
    BY <1>0, <1>5, <2>3 DEF KType, StartOp
  <2>5. /\ o = "cal" => m \in CalMsg
        /\ o = "run" => m \in RunMsg
        /\ o = "manual" => m = k.msg
    OBVIOUS
  <2>6. KlipperOK'
    BY <2>4, <2>5 DEF KlipperOK, Active
  <2>7. ~k.idle
    BY <2>4 DEF KlipperOK, Active
  <2>8. ASSUME lost = "no", cockpit PROVE TextsAreOwn'
    <3>1. k.msg \in {sent.msg, NoMsg} /\ (~sent.idle => cal_msg_ = NoMsg)
      BY <1>4, <2>7, <2>8 DEF TextsAreOwn
    <3>2. k'.seen => ~sent.idle
      BY <2>4 DEF Seen
    <3> QED BY <1>1, <2>4, <2>5, <3>1, <3>2, MsgAssumption DEF TextsAreOwn, OwnText
  <2> QED BY <1>2, <1>3, <2>4, <2>6, <2>8
<1>6. CASE Announce
  <2>1. PICK m \in CASE k.op = "cal" -> CalMsg [] k.op = "run" -> RunMsg [] OTHER -> {} :
          Change([k EXCEPT !.msg = m])
    BY <1>6 DEF Announce
  <2>2. k' = [k EXCEPT !.msg = m]
    BY <2>1 DEF Change
  <2>3. /\ k'.idle = k.idle /\ k'.op = k.op /\ k'.msg = m /\ k'.seen = k.seen
        /\ k'.job = k.job /\ k.idle
    BY <1>0, <1>6, <2>2 DEF KType, Announce
  <2>4. (k.op = "cal" /\ m \in CalMsg) \/ (k.op = "run" /\ m \in RunMsg)
    OBVIOUS
  <2>5. KlipperOK'
    BY <2>3, <2>4 DEF KlipperOK, Active
  <2>6. ASSUME lost = "no", cockpit PROVE TextsAreOwn'
    BY <1>1, <1>4, <2>3, <2>4, <2>6, MsgAssumption DEF TextsAreOwn, OwnText, Active
  <2> QED BY <1>2, <1>3, <2>3, <2>5, <2>6
<1>7. CASE OpEnds
  <2>1. PICK m \in {k.msg, NoMsg} :
          Change([k EXCEPT !.idle = FALSE, !.op = "none", !.msg = m])
    BY <1>7 DEF OpEnds
  <2>2. k' = [k EXCEPT !.idle = FALSE, !.op = "none", !.msg = m]
    BY <2>1 DEF Change
  <2>3. /\ k'.idle = FALSE /\ k'.op = "none" /\ k'.msg = m /\ k'.seen = k.seen
        /\ k'.job = "standby" /\ (sub => sent.msg = k.msg)
    BY <1>0, <1>7, <2>2 DEF KType, OpEnds
  <2>4. KlipperOK'
    BY <2>3 DEF KlipperOK
  <2>5. ASSUME lost = "no", cockpit PROVE TextsAreOwn'
    BY <1>1, <1>4, <2>3, <2>5 DEF TextsAreOwn, Active
  <2> QED BY <1>2, <1>3, <2>3, <2>4, <2>5
<1>8. CASE PrintStarts
  <2>1. /\ k'.idle = TRUE /\ k'.op = k.op /\ k'.msg = k.msg /\ k'.job = "printing"
        /\ k'.seen = IF k.op = "run" THEN k.seen ELSE Seen
        /\ k.job = "standby" /\ k.op \in {"none", "run"}
    BY <1>0, <1>8 DEF PrintStarts, Change, KType
  <2>2. KlipperOK'
    BY <2>1 DEF KlipperOK, Active
  <2>3. ASSUME lost = "no", cockpit PROVE TextsAreOwn'
    <3>1. CASE k.op = "run"
      BY <1>1, <1>4, <2>1, <2>3, <3>1 DEF TextsAreOwn, OwnText, Active
    <3>2. CASE k.op = "none"
      <4>1. ~k.idle
        BY <2>1, <3>2 DEF KlipperOK, Active
      <4>2. k.msg \in {sent.msg, NoMsg} /\ (~sent.idle => cal_msg_ = NoMsg)
        BY <1>4, <2>3, <4>1 DEF TextsAreOwn
      <4>3. k'.seen => ~sent.idle
        BY <2>1, <3>2 DEF Seen
      <4> QED BY <1>1, <2>1, <4>2, <4>3, MsgAssumption DEF TextsAreOwn, OwnText
    <3> QED BY <2>1, <3>1, <3>2
  <2> QED BY <1>2, <1>3, <2>1, <2>2, <2>3
<1>9. CASE PrintPauses
  <2>1. /\ k'.idle = FALSE /\ k'.op = k.op /\ k'.msg = k.msg /\ k'.job = "paused"
        /\ k'.seen = k.seen /\ k.job = "printing" /\ (sub => sent.msg = k.msg)
    BY <1>0, <1>9 DEF PrintPauses, Change, KType
  <2>2. KlipperOK'
    BY <2>1 DEF KlipperOK
  <2>3. ASSUME lost = "no", cockpit PROVE TextsAreOwn'
    BY <1>1, <1>4, <2>1, <2>3 DEF TextsAreOwn, OwnText, Active
  <2> QED BY <1>2, <1>3, <2>1, <2>2, <2>3
<1>10. CASE PrintResumes
  <2>1. /\ k'.idle = TRUE /\ k'.op = k.op /\ k'.msg = k.msg /\ k'.job = "printing"
        /\ k'.seen = k.seen /\ k.job = "paused"
    BY <1>0, <1>10 DEF PrintResumes, Change, KType
  <2>2. KlipperOK'
    BY <2>1 DEF KlipperOK, Active
  <2>3. ASSUME lost = "no", cockpit PROVE TextsAreOwn'
    BY <1>1, <1>4, <2>1, <2>3 DEF TextsAreOwn, OwnText, Active
  <2> QED BY <1>2, <1>3, <2>1, <2>2, <2>3
<1>11. CASE PrintEnds
  <2>1. /\ k'.idle = (k.op = "run") /\ k'.op = k.op /\ k'.msg = k.msg
        /\ k'.job = "standby" /\ k'.seen = k.seen /\ k.job # "standby"
        /\ sub => sent.msg = k.msg
    BY <1>0, <1>11 DEF PrintEnds, Change, KType
  <2>2. KlipperOK'
    BY <2>1 DEF KlipperOK, Active
  <2>3. ASSUME lost = "no", cockpit PROVE TextsAreOwn'
    BY <1>1, <1>4, <2>1, <2>3 DEF TextsAreOwn, OwnText, Active
  <2> QED BY <1>2, <1>3, <2>1, <2>2, <2>3
<1> QED BY <1>5, <1>6, <1>7, <1>8, <1>9, <1>10, <1>11 DEF Klipper

\* consume() drops the text with the pause and takes the new one over.
LEMMA ConsumeHonest ==
  ASSUME TypesOK, KlipperOK, HonestOK, consume
  PROVE  KlipperOK' /\ HonestOK'
<1> DEFINE nb  == New("idle", busy_)
           msg == New("msg", IF busy_ /\ ~nb THEN NoMsg ELSE cal_msg_)
<1>1. ConsumeFolds(nb, msg) /\ sub
  BY DEF consume
<1>2. /\ k' = k /\ sent' = Status /\ cockpit' = cockpit /\ sub' = sub
      /\ busy_' = nb /\ cal_msg_' = msg /\ (lost' = "no" => lost = "no")
  BY <1>1 DEF ConsumeFolds
<1>3. KlipperOK'
  BY <1>2 DEF KlipperOK, Active
<1> SUFFICES ASSUME lost = "no" PROVE (cockpit /\ GlassFollows /\ TextsAreOwn)'
  BY <1>2, <1>3 DEF HonestOK
<1>4. cockpit /\ GlassFollows /\ TextsAreOwn
  BY <1>1 DEF HonestOK, FreshGlass
<1>5. /\ busy_ \in BOOLEAN /\ k.idle \in BOOLEAN /\ sent.idle \in BOOLEAN
      /\ k.job \in Jobs /\ k.msg \in Msg /\ sent.msg \in Msg
      /\ callog \in [text : RunMsg \cup {NoMsg}, fault : BOOLEAN]
  BY DEF TypesOK, FlagsOK, TextsOK, WorldOK, KType, SentType
<1>6. nb <=> k.idle
  BY <1>4, <1>5 DEF GlassFollows, New
<1>7. /\ sent'.idle = k.idle /\ sent'.job = k.job /\ sent'.msg = k.msg
  BY <1>2 DEF Status
<1>8. home_printing_' <=> k.job = "printing"
  BY <1>1, <1>4 DEF ConsumeFolds, GlassFollows
<1>9. msg = IF k.msg # sent.msg THEN k.msg ELSE IF busy_ /\ ~nb THEN NoMsg ELSE cal_msg_
  BY DEF New
<1>10. ConsumeOverlays(nb, home_printing_', msg)
  BY <1>1 DEF ConsumeFolds
<1> HIDE DEF nb, msg
<1>11. /\ cal_overlay_' # NoMsg => nb /\ cal_overlay_' = msg
       /\ callog'.text # NoMsg => (nb \/ home_printing_') /\ callog'.text = msg
  BY <1>5, <1>10, MsgAssumption DEF ConsumeOverlays, NoLog
<1>12. GlassFollows'
  BY <1>1, <1>2, <1>6, <1>7, <1>8, <1>11 DEF GlassFollows, KlipperOK
<1>13. ~k.idle => msg = NoMsg
  BY <1>4, <1>6, <1>9 DEF TextsAreOwn, GlassFollows
<1>14. k.seen /\ Active => OwnText(msg)
  <2>1. OwnText(NoMsg)
    BY MsgAssumption DEF OwnText
  <2> QED BY <1>4, <1>9, <2>1 DEF TextsAreOwn
<1>15. TextsAreOwn'
  BY <1>2, <1>7, <1>13, <1>14 DEF TextsAreOwn, Active, OwnText
<1> QED BY <1>2, <1>4, <1>12, <1>15

\* A first connection to an idle printer starts from a fresh glass, a later
\* reply that missed nothing leaves it true; a loss is remembered.
LEMMA LinkHonest ==
  ASSUME TypesOK, KlipperOK, HonestOK, init \/ disconnected
  PROVE  KlipperOK' /\ HonestOK'
<1>1. KlipperOK'
  BY DEF init, disconnected, KlipperOK, Active
<1>2. CASE disconnected
  <2> SUFFICES ASSUME lost' = "no" PROVE FreshGlass'
    BY <1>1, <1>2 DEF HonestOK, disconnected
  <2>1. ~cockpit /\ lost = "no"
    BY <1>2 DEF disconnected
  <2>2. FreshGlass
    BY <2>1 DEF HonestOK
  <2> QED BY <1>2, <2>2 DEF FreshGlass, disconnected, reset_overlay_state,
                            hide_busy_overlay, NoLog
<1>3. CASE init
  <2> SUFFICES ASSUME lost' = "no" PROVE GlassFollows' /\ TextsAreOwn'
    BY <1>1, <1>3 DEF HonestOK, init
  <2>1. /\ lost = "no" /\ k.idle = busy_
        /\ cockpit => k.msg = sent.msg
    BY <1>3 DEF init
  <2>2. /\ sub' = TRUE /\ sent' = Status /\ k' = k
        /\ UNCHANGED <<busy_, cal_msg_, cal_overlay_, callog>>
        /\ home_printing_' = (k.job = "printing")
    BY <1>3 DEF init
  <2>3. sent'.idle = k.idle /\ sent'.job = k.job /\ sent'.msg = k.msg
    BY <2>2 DEF Status
  <2>4. CASE ~cockpit
    <3>1. FreshGlass
      BY <2>1, <2>4 DEF HonestOK
    <3>2. GlassFollows'
      BY <2>1, <2>2, <2>3, <3>1 DEF GlassFollows, FreshGlass, KlipperOK
    <3>3. TextsAreOwn'
      BY <2>1, <2>2, <2>3, <3>1 DEF TextsAreOwn, FreshGlass
    <3> QED BY <3>2, <3>3
  <2>5. CASE cockpit
    <3>1. GlassFollows /\ TextsAreOwn
      BY <2>1, <2>5 DEF HonestOK
    <3>2. GlassFollows'
      BY <2>1, <2>2, <2>3, <3>1 DEF GlassFollows, KlipperOK
    <3>3. TextsAreOwn'
      BY <2>1, <2>2, <2>3, <2>5, <3>1 DEF TextsAreOwn, GlassFollows, OwnText, Active
    <3> QED BY <3>2, <3>3
  <2> QED BY <2>4, <2>5
<1> QED BY <1>2, <1>3

\* The other steps leave what the glass says alone, or take the overlay down.
LEMMA OtherHonest ==
  ASSUME KlipperOK, HonestOK, TypesOK,
         \/ Tick \/ busy_watchdog_cb \/ Reply \/ prompt_show \/ prompt_end
         \/ TapAction \/ TapCal \/ ConfirmPower \/ ConfirmInstall \/ InstallReturns
         \/ check_stale \/ Silence \/ UNCHANGED vars
  PROVE  KlipperOK' /\ HonestOK'
<1>1. UNCHANGED <<busy_, home_printing_, cal_msg_, cockpit, k, sent, sub, lost>>
  BY DEF Tick, busy_watchdog_cb, Reply, prompt_show, prompt_end, TapAction, TapCal,
         ConfirmPower, ConfirmInstall, InstallReturns, check_stale, Silence, vars, flags, world
<1>2. cal_overlay_' \in {cal_overlay_, NoMsg}
  BY DEF Tick, busy_watchdog_cb, Reply, prompt_show, prompt_end, TapAction, TapCal,
         ConfirmPower, ConfirmInstall, InstallReturns, check_stale, Silence, vars, flags,
         hide_busy_overlay
<1>3. callog'.text = callog.text
  <2>1. CASE check_stale
    BY <2>1 DEF check_stale, TypesOK, TextsOK
  <2>2. CASE ~check_stale
    BY <2>2 DEF Tick, busy_watchdog_cb, Reply, prompt_show, prompt_end, TapAction, TapCal,
         ConfirmPower, ConfirmInstall, InstallReturns, Silence, vars, flags
  <2> QED BY <2>1, <2>2
<1>4. KlipperOK' /\ (TextsAreOwn' <=> TextsAreOwn)
  BY <1>1 DEF KlipperOK, TextsAreOwn, OwnText, Active
<1> QED BY <1>1, <1>2, <1>3, <1>4 DEF HonestOK, GlassFollows, FreshGlass

\* On a link that has held, the glass never shows a calibration or a run that
\* is not going on, however the deltas are batched (main_panel.cpp:291,
\* 432-480).
THEOREM HonestOverlay == Spec => []OverlayIsHonest
<1>1. Init => TypesOK /\ KlipperOK /\ HonestOK
  <2> SUFFICES ASSUME Init PROVE TypesOK /\ KlipperOK /\ HonestOK
    OBVIOUS
  <2>1. TypesOK
    BY InitTypes DEF TypesOK
  <2>2. KlipperOK /\ HonestOK
    BY DEF Init, KlipperOK, HonestOK, FreshGlass, NoLog
  <2> QED BY <2>1, <2>2
<1>2. TypesOK /\ KlipperOK /\ HonestOK /\ [Next]_vars => (TypesOK /\ KlipperOK /\ HonestOK)'
  BY StepTypes, KlipperHonest, ConsumeHonest, LinkHonest, OtherHonest DEF Next, TypesOK
<1>3. TypesOK /\ KlipperOK /\ HonestOK => OverlayIsHonest
  <2> SUFFICES ASSUME KlipperOK, GlassFollows, TextsAreOwn, TypesOK,
                      sent = Status, k.idle => k.seen
               PROVE  /\ cal_overlay_ # NoMsg => k.op = "cal"
                      /\ callog.text # NoMsg => k.op = "run"
    BY DEF OverlayIsHonest, CaughtUp, HonestOK
  <2>1. sent.idle = k.idle /\ sent.job = k.job
    BY DEF Status
  <2>2. busy_ \/ home_printing_ => k.idle /\ k.seen /\ Active
    BY <2>1 DEF GlassFollows, KlipperOK
  <2>3. /\ cal_overlay_ \in CalMsg \cup {NoMsg}
        /\ callog.text \in RunMsg \cup {NoMsg}
    BY DEF TypesOK, TextsOK
  <2> QED BY <2>2, <2>3 DEF GlassFollows, TextsAreOwn, OwnText
<1> QED BY <1>1, <1>2, <1>3, PTL DEF Spec

=============================================================================
