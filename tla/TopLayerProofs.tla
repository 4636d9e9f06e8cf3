--------------------------- MODULE TopLayerProofs ---------------------------
(***************************************************************************)
(* The confirm card and its action live and die together, and no layer is  *)
(* ever lost from the stack.                                               *)
(***************************************************************************)
EXTENDS TopLayer, TLAPS

LEMMA StepNoStray == NoStrayAction /\ [Next]_vars => NoStrayAction'
<1> SUFFICES ASSUME NoStrayAction, [Next]_vars PROVE NoStrayAction'
  OBVIOUS
<1> USE DEF NoStrayAction
<1>1. CASE TapAsk \/ _estop_tap \/ PrintRefused
  BY <1>1 DEF TapAsk, _estop_tap, PrintRefused, confirm, Raise, Question
<1>2. CASE Cancel
  BY <1>2 DEF Cancel, Lower
<1>3. CASE Confirm
  <2>1. "confirm" \notin shown' /\ pending_confirm_' = "none"
    BY <1>3 DEF Confirm, Lower
  <2> QED BY <2>1
<1>4. CASE TapBusy \/ TapValue \/ TapNotice \/ _callog_stop \/ _estop_keepalive
  BY <1>4 DEF TapBusy, TapValue, TapNotice, _callog_stop, _estop_keepalive, Raise, Idle
<1>5. CASE DeltaBusy \/ DeltaLog \/ StaleLog \/ WorkerNotice
  BY <1>5 DEF DeltaBusy, DeltaLog, StaleLog, WorkerNotice, Raise, Idle
<1>6. CASE NumpadDone \/ _notice_tap \/ HideBusy \/ HideLog
  BY <1>6 DEF NumpadDone, _notice_tap, HideBusy, HideLog, Lower, Hide, Idle
<1>7. CASE PrintStarted \/ LinkLost \/ UNCHANGED vars
  BY <1>7 DEF PrintStarted, LinkLost, vars
<1> QED BY <1>1, <1>2, <1>3, <1>4, <1>5, <1>6, <1>7 DEF Next, Taps

\* confirm() and _confirm_tap (main_panel.cpp:740-745, 759-767) never leave an
\* action behind a hidden card, nor a card without one, whoever raises it.
THEOREM CardAndAction == Spec => []NoStrayAction
<1>1. Init => NoStrayAction
  BY DEF Init, NoStrayAction
<1> QED BY <1>1, StepNoStray, PTL DEF Spec

-----------------------------------------------------------------------------
\* The children of lv_layer_top: each layer once.

Stack == {s \in [1 .. 6 -> Layer] : \A l \in Layer : \E i \in 1 .. 6 : s[i] = l}

LEMMA PosInFacts ==
  ASSUME NEW s \in Stack, NEW l \in Layer
  PROVE  PosIn(s, l) \in 1 .. 6 /\ s[PosIn(s, l)] = l
<1>1. \E i \in 1 .. 6 : s[i] = l
  BY DEF Stack
<1> QED BY <1>1 DEF PosIn

\* lv_obj_move_foreground loses no layer.
LEMMA ToFrontStack ==
  ASSUME NEW s \in Stack, NEW l \in Layer
  PROVE  ToFront(s, l) \in Stack
<1> DEFINE p == PosIn(s, l)
           f == ToFront(s, l)
<1>1. p \in 1 .. 6 /\ s[p] = l
  BY PosInFacts
<1> HIDE DEF p
<1>2. f = [i \in 1 .. 6 |-> IF i = 6 THEN l ELSE IF i < p THEN s[i] ELSE s[i + 1]]
  BY DEF ToFront, p
<1> HIDE DEF f
<1>3. f \in [1 .. 6 -> Layer]
  BY <1>1, <1>2 DEF Stack
<1>4. ASSUME NEW m \in Layer PROVE \E i \in 1 .. 6 : f[i] = m
  <2>1. PICK j \in 1 .. 6 : s[j] = m
    BY DEF Stack
  <2>2. CASE m = l
    <3>1. f[6] = l
      BY <1>2
    <3> QED BY <2>2, <3>1
  <2>3. CASE m # l /\ j < p
    <3>1. f[j] = m
      BY <1>1, <1>2, <2>1, <2>3
    <3> QED BY <3>1
  <2>4. CASE m # l /\ ~(j < p)
    <3>1. j > p /\ j - 1 \in 1 .. 5
      BY <1>1, <2>1, <2>4
    <3>2. f[j - 1] = m
      BY <1>1, <1>2, <2>1, <3>1
    <3> QED BY <3>1, <3>2
  <2> QED BY <2>2, <2>3, <2>4
<1>5. f \in Stack
  BY <1>3, <1>4 DEF Stack
<1> QED BY <1>5 DEF f

\* Nor does lv_obj_move_background.
LEMMA ToBackStack ==
  ASSUME NEW s \in Stack, NEW l \in Layer
  PROVE  ToBack(s, l) \in Stack
<1> DEFINE p == PosIn(s, l)
           f == ToBack(s, l)
<1>1. p \in 1 .. 6 /\ s[p] = l
  BY PosInFacts
<1> HIDE DEF p
<1>2. f = [i \in 1 .. 6 |-> IF i = 1 THEN l ELSE IF i > p THEN s[i] ELSE s[i - 1]]
  BY DEF ToBack, p
<1> HIDE DEF f
<1>3. f \in [1 .. 6 -> Layer]
  BY <1>1, <1>2 DEF Stack
<1>4. ASSUME NEW m \in Layer PROVE \E i \in 1 .. 6 : f[i] = m
  <2>1. PICK j \in 1 .. 6 : s[j] = m
    BY DEF Stack
  <2>2. CASE m = l
    <3>1. f[1] = l
      BY <1>2
    <3> QED BY <2>2, <3>1
  <2>3. CASE m # l /\ j > p
    <3>1. f[j] = m
      BY <1>1, <1>2, <2>1, <2>3
    <3> QED BY <3>1
  <2>4. CASE m # l /\ ~(j > p)
    <3>1. j < p /\ j + 1 \in 2 .. 6
      BY <1>1, <2>1, <2>4
    <3>2. f[j + 1] = m
      BY <1>1, <1>2, <2>1, <3>1
    <3> QED BY <3>1, <3>2
  <2> QED BY <2>2, <2>3, <2>4
<1>5. f \in Stack
  BY <1>3, <1>4 DEF Stack
<1> QED BY <1>5 DEF f

LayersOK == z \in Stack /\ shown \subseteq Layer /\ "estop" \in shown
CardOK   == pending_confirm_ \in Question \cup {"none"}
BoolsOK  == asked \in BOOLEAN /\ print \in BOOLEAN

LEMMA RaiseLayers == ASSUME LayersOK, NEW l \in Layer, Raise(l) PROVE LayersOK'
  BY ToFrontStack DEF LayersOK, Raise

LEMMA LowerLayers ==
  ASSUME LayersOK, NEW l \in Layer \ {"estop"}, Lower(l) \/ Hide(l) PROVE LayersOK'
  BY ToBackStack DEF LayersOK, Lower, Hide

LEMMA StepTypes == LayersOK /\ CardOK /\ BoolsOK /\ [Next]_vars => (LayersOK /\ CardOK /\ BoolsOK)'
<1> SUFFICES ASSUME LayersOK, CardOK, BoolsOK, [Next]_vars
             PROVE  LayersOK' /\ CardOK' /\ BoolsOK'
  OBVIOUS
<1>0. Layer = {"numpad", "confirm", "notice", "estop", "busy", "logbook"}
  BY DEF Layer
<1>1. CASE TapAsk \/ _estop_tap \/ PrintRefused
  <2>1. Raise("confirm") /\ pending_confirm_' \in Question
    BY <1>1 DEF TapAsk, _estop_tap, PrintRefused, confirm, Question
  <2>2. BoolsOK'
    BY <1>1, Zenon DEF TapAsk, _estop_tap, PrintRefused, BoolsOK
  <2> QED BY <1>0, <2>1, <2>2, RaiseLayers DEF CardOK
<1>2. CASE Cancel
  <2>1. BoolsOK'
    BY <1>2, Zenon DEF Cancel, BoolsOK
  <2> QED BY <1>0, <1>2, <2>1, LowerLayers DEF Cancel, CardOK
<1>3. CASE Confirm
  <2>1. BoolsOK' /\ CardOK'
    BY <1>3, Zenon DEF Confirm, BoolsOK, CardOK
  <2>2. CASE Lower("confirm")
    BY <1>0, <2>1, <2>2, LowerLayers
  <2>3. ASSUME NEW over \in {"busy", "notice"},
               z' = ToFront(ToBack(z, "confirm"), over),
               shown' = (shown \ {"confirm"}) \cup {over}
        PROVE  LayersOK'
    <3>1. ToBack(z, "confirm") \in Stack
      BY <1>0, ToBackStack DEF LayersOK
    <3>2. z' \in Stack
      BY <1>0, <2>3, <3>1, ToFrontStack
    <3> QED BY <1>0, <2>3, <3>2 DEF LayersOK
  <2>4. \/ Lower("confirm")
        \/ \E over \in {"busy", "notice"} :
             /\ z' = ToFront(ToBack(z, "confirm"), over)
             /\ shown' = (shown \ {"confirm"}) \cup {over}
    BY <1>3 DEF Confirm
  <2> QED BY <2>1, <2>2, <2>3, <2>4
<1>4. CASE Idle /\ \E l \in Layer : Raise(l)
  BY <1>4, RaiseLayers DEF Idle, CardOK, BoolsOK
<1>5. CASE Idle /\ \E l \in Layer \ {"estop"} : Lower(l) \/ Hide(l)
  BY <1>5, LowerLayers DEF Idle, CardOK, BoolsOK
<1>6. CASE PrintStarted \/ LinkLost \/ UNCHANGED vars
  <2>1. BoolsOK'
    BY <1>6, Zenon DEF PrintStarted, LinkLost, vars, BoolsOK
  <2> QED BY <1>6, <2>1 DEF PrintStarted, LinkLost, vars, LayersOK, CardOK
<1>7. TapBusy \/ TapValue \/ TapNotice \/ _callog_stop \/ _estop_keepalive
      \/ DeltaBusy \/ DeltaLog \/ StaleLog \/ WorkerNotice
      => Idle /\ \E l \in Layer : Raise(l)
  BY <1>0 DEF TapBusy, TapValue, TapNotice, _callog_stop, _estop_keepalive, DeltaBusy,
              DeltaLog, StaleLog, WorkerNotice
<1>8. NumpadDone \/ _notice_tap \/ HideBusy \/ HideLog
      => Idle /\ \E l \in Layer \ {"estop"} : Lower(l) \/ Hide(l)
  BY <1>0 DEF NumpadDone, _notice_tap, HideBusy, HideLog
<1> QED BY <1>1, <1>2, <1>3, <1>4, <1>5, <1>6, <1>7, <1>8 DEF Next, Taps

\* No move of a layer by any thread loses or doubles one, and E-STOP is never
\* hidden (main_panel.cpp:705-767).
THEOREM TypeCorrect == Spec => []TypeOK
<1>1. Init => LayersOK /\ CardOK /\ BoolsOK
  <2> SUFFICES ASSUME Init PROVE LayersOK /\ CardOK /\ BoolsOK
    OBVIOUS
  <2>1. z = <<"busy", "logbook", "numpad", "confirm", "notice", "estop">>
    BY DEF Init
  <2>2. z \in [1 .. 6 -> Layer]
    BY <2>1 DEF Layer
  <2>3. /\ z[1] = "busy" /\ z[2] = "logbook" /\ z[3] = "numpad" /\ z[4] = "confirm"
        /\ z[5] = "notice" /\ z[6] = "estop"
    BY <2>1
  <2>4. z \in Stack
    BY <2>2, <2>3 DEF Stack, Layer
  <2>5. BoolsOK
    BY Zenon DEF Init, BoolsOK
  <2> QED BY <2>4, <2>5 DEF Init, LayersOK, CardOK, Layer
<1>2. LayersOK /\ CardOK /\ BoolsOK => TypeOK
  BY DEF LayersOK, CardOK, BoolsOK, TypeOK, Stack
<1> QED BY <1>1, <1>2, StepTypes, PTL DEF Spec

=============================================================================
