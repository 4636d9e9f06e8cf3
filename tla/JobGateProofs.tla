---------------------------- MODULE JobGateProofs ---------------------------
(***************************************************************************)
(* For every number of jobs, losses and installs: no tap sends a command,  *)
(* or starts a flash, against the job state the screen was last told.      *)
(*                                                                         *)
(* What makes it inductive is that the two flags are, at every step, the   *)
(* image of told: init() and consume() move them together, and nothing     *)
(* else writes either.                                                     *)
(***************************************************************************)
EXTENDS JobGate, TLAPS

\* The flags the interlocks read say what the screen was told.
ToldOK ==
  /\ home_printing_ <=> told = "printing"
  /\ home_paused_ <=> told = "paused"

\* GateTypeOK in two halves, numbers and the rest: the provers take one each.
NumOK ==
  /\ installing \in 0 .. MaxInstalls
  /\ budget \in [jobs : 0 .. MaxJobs, losses : 0 .. MaxLosses]

KindOK ==
  /\ home_printing_ \in BOOLEAN /\ home_paused_ \in BOOLEAN
  /\ gate \subseteq Buttons
  /\ card \in {"none", "mesh", "install", "refused"}
  /\ update_avail_ \in BOOLEAN /\ update_checking_ \in BOOLEAN
  /\ chip \in BOOLEAN /\ scrim \in BOOLEAN
  /\ wire \subseteq Commands
  /\ job \in State /\ told \in State /\ linked \in BOOLEAN

LEMMA TypeHalves == GateTypeOK <=> NumOK /\ KindOK
  BY DEF GateTypeOK, NumOK, KindOK

IInv == NumOK /\ KindOK /\ ToldOK /\ ChipMeansUpdate

LEMMA InitIInv == GateInit => IInv
<1> SUFFICES ASSUME GateInit PROVE IInv
  OBVIOUS
<1>1. NumOK
  BY BoundAssumption DEF GateInit, NumOK
<1>2. KindOK
  BY Zenon DEF GateInit, KindOK, State
<1>3. ToldOK /\ ChipMeansUpdate
  BY DEF GateInit, ToldOK, ChipMeansUpdate
<1> QED BY <1>1, <1>2, <1>3 DEF IInv

\* The steps of the websocket thread.
LEMMA SocketIInv == IInv /\ (init \/ consume \/ disconnected) => IInv'
<1> SUFFICES ASSUME IInv, init \/ consume \/ disconnected PROVE IInv'
  OBVIOUS
<1> USE DEF IInv
<1>1. CASE init
  <2>1. NumOK'
    BY <1>1 DEF init, update, NumOK
  <2>2. KindOK'
    BY <1>1 DEF init, SetJob, apply_move_gates, update, KindOK, State
  <2>3. ToldOK' /\ ChipMeansUpdate'
    BY <1>1 DEF init, SetJob, update, KindOK, State, ToldOK, ChipMeansUpdate
  <2> QED BY <2>1, <2>2, <2>3
<1>2. CASE consume
  <2>1. NumOK'
    BY <1>2 DEF consume, NumOK
  <2>2. KindOK'
    BY <1>2 DEF consume, SetJob, apply_move_gates, KindOK, State
  <2>3. ToldOK' /\ ChipMeansUpdate'
    BY <1>2 DEF consume, SetJob, KindOK, State, ToldOK, ChipMeansUpdate
  <2> QED BY <2>1, <2>2, <2>3
<1>3. CASE disconnected
  <2>1. NumOK'
    BY <1>3, BoundAssumption DEF disconnected, NumOK
  <2>2. KindOK' /\ ToldOK' /\ ChipMeansUpdate'
    BY <1>3, Zenon DEF disconnected, screen, KindOK, ToldOK, ChipMeansUpdate
  <2> QED BY <2>1, <2>2
<1> QED BY <1>1, <1>2, <1>3

\* Taps write neither the flags nor what the screen was told.
LEMMA TapIInv ==
  IInv /\ (TapMotion \/ TapMotorsOff \/ TapCal \/ TapInstall \/ Cancel
           \/ ConfirmMesh \/ ConfirmInstall) => IInv'
<1> SUFFICES ASSUME IInv,
                    TapMotion \/ TapMotorsOff \/ TapCal \/ TapInstall \/ Cancel
                      \/ ConfirmMesh \/ ConfirmInstall
             PROVE  IInv'
  OBVIOUS
<1> USE DEF IInv, NumOK, KindOK, Commands, screen, update, world, Send, ToldOK,
             ChipMeansUpdate
<1>1. CASE TapMotion
  BY <1>1 DEF TapMotion
<1>2. CASE TapMotorsOff
  BY <1>2 DEF TapMotorsOff
<1>3. CASE TapCal
  BY <1>3 DEF TapCal
<1>4. CASE TapInstall
  BY <1>4 DEF TapInstall
<1>5. CASE Cancel
  BY <1>5 DEF Cancel
<1>6. CASE ConfirmMesh
  BY <1>6 DEF ConfirmMesh
<1>7. CASE ConfirmInstall
  <2>1. NumOK'
    BY <1>7, BoundAssumption DEF ConfirmInstall
  <2>2. KindOK' /\ ToldOK' /\ ChipMeansUpdate'
    BY <1>7, Zenon DEF ConfirmInstall
  <2> QED BY <2>1, <2>2
<1> QED BY <1>1, <1>2, <1>3, <1>4, <1>5, <1>6, <1>7

\* The workers, the scrim's timer and Klipper.
LEMMA WorkerIInv ==
  IInv /\ (check_update \/ CheckDone \/ InstallReturns \/ busy_hide \/ JobChanges
           \/ \E c \in Commands : Execute(c)) => IInv'
<1> SUFFICES ASSUME IInv,
                    check_update \/ CheckDone \/ InstallReturns \/ busy_hide
                      \/ JobChanges \/ \E c \in Commands : Execute(c)
             PROVE  IInv'
  OBVIOUS
<1> USE DEF IInv, NumOK, KindOK, Commands, screen, update, world, ToldOK,
             ChipMeansUpdate
<1>1. CASE check_update
  BY <1>1 DEF check_update
<1>2. CASE CheckDone
  <2>1. PICK avail \in BOOLEAN : update_avail_' = avail /\ chip' = (avail /\ ~held)
    BY <1>2, Zenon DEF CheckDone
  <2>2. chip' \in BOOLEAN /\ update_avail_' \in BOOLEAN /\ update_checking_' = FALSE
    BY <1>2, <2>1, Zenon DEF CheckDone
  <2>3. ChipMeansUpdate'
    BY <2>1, <2>2, Zenon
  <2>4. NumOK' /\ KindOK' /\ ToldOK'
    BY <1>2, <2>2, Zenon DEF CheckDone
  <2> QED BY <2>3, <2>4
<1>3. CASE InstallReturns
  <2>1. NumOK'
    BY <1>3, BoundAssumption DEF InstallReturns
  <2>2. (chip' = FALSE \/ chip' = chip) /\ scrim' = FALSE
        /\ update_avail_' = update_avail_ /\ update_checking_' = update_checking_
    BY <1>3, Zenon DEF InstallReturns
  <2>3. ChipMeansUpdate' /\ chip' \in BOOLEAN
    <3>1. CASE chip' = FALSE
      BY <3>1
    <3>2. CASE chip' = chip
      BY <2>2, <3>2
    <3> QED BY <2>2, <3>1, <3>2
  <2>4. KindOK' /\ ToldOK'
    BY <1>3, <2>2, <2>3, Zenon DEF InstallReturns
  <2> QED BY <2>1, <2>3, <2>4
<1>4. CASE busy_hide
  BY <1>4 DEF busy_hide
<1>5. CASE JobChanges
  <2>1. NumOK'
    BY <1>5, BoundAssumption DEF JobChanges
  <2>2. KindOK' /\ ToldOK' /\ ChipMeansUpdate'
    BY <1>5 DEF JobChanges, State
  <2> QED BY <2>1, <2>2
<1>6. CASE \E c \in Commands : Execute(c)
  BY <1>6 DEF Execute
<1> QED BY <1>1, <1>2, <1>3, <1>4, <1>5, <1>6

LEMMA StepIInv == IInv /\ [GateNext]_gateVars => IInv'
<1>1. IInv /\ UNCHANGED gateVars => IInv'
  BY DEF gateVars, screen, update, world, IInv, NumOK, KindOK, ToldOK, ChipMeansUpdate
<1> QED BY <1>1, SocketIInv, TapIInv, WorkerIInv DEF GateNext

LEMMA Inductive == GateSpec => []IInv
  BY InitIInv, StepIInv, PTL DEF GateSpec

\* Type correctness of the interlock's state.
THEOREM TypeCorrect == GateSpec => []GateTypeOK
<1>1. IInv => GateTypeOK
  BY TypeHalves DEF IInv
<1> QED BY Inductive, <1>1, PTL

\* The INSTALL chip is only ever offered on a finished check that found a
\* newer build, whatever the three threads do (check_update, consume, the
\* install worker).
THEOREM ChipIsEarned == GateSpec => []ChipMeansUpdate
<1>1. IInv => ChipMeansUpdate
  BY DEF IInv
<1> QED BY Inductive, <1>1, PTL

\* One step of the machine sends nothing the known job state forbids.
LEMMA StepRespectsJob ==
  IInv /\ [GateNext]_gateVars =>
    /\ Sent("motion") => told # "printing"
    /\ Sent("motors") \/ Sent("cal") \/ Sent("mesh") => told = "standby"
<1> SUFFICES ASSUME IInv, [GateNext]_gateVars, NEW c \in Commands, Sent(c)
             PROVE  IF c = "motion" THEN told # "printing" ELSE told = "standby"
  BY DEF Commands
<1> USE DEF Sent, Commands, world, update
<1>1. CASE TapMotion
  BY <1>1 DEF TapMotion, Send, IInv, ToldOK
<1>2. CASE TapMotorsOff
  BY <1>2 DEF TapMotorsOff, Send, held, IInv, KindOK, State, ToldOK
<1>3. CASE TapCal
  BY <1>3 DEF TapCal, Send, held, IInv, KindOK, State, ToldOK
<1>4. CASE ConfirmMesh
  BY <1>4 DEF ConfirmMesh, Send, held, IInv, KindOK, State, ToldOK
<1>5. ~(init \/ consume \/ disconnected \/ JobChanges)
  BY DEF init, consume, disconnected, JobChanges
<1>6. ~(TapInstall \/ Cancel \/ ConfirmInstall)
  BY DEF TapInstall, Cancel, ConfirmInstall
<1>7. ~(check_update \/ CheckDone \/ InstallReturns \/ busy_hide)
  BY DEF check_update, CheckDone, InstallReturns, busy_hide
<1>8. ~(\E d \in Commands : Execute(d))
  BY DEF Execute
<1>9. ~(UNCHANGED gateVars)
  BY DEF gateVars
<1> QED BY <1>1, <1>2, <1>3, <1>4, <1>5, <1>6, <1>7, <1>8, <1>9 DEF GateNext

\* The job interlocks of the Move and Tune screens (_sub_tap, the confirmed
\* bed mesh) hold against the last state told, for any number of jobs.
THEOREM InterlocksHold == GateSpec => DispatchRespectsJob
<1>1. IInv /\ [GateNext]_gateVars =>
        [/\ Sent("motion") => told # "printing"
         /\ Sent("motors") \/ Sent("cal") \/ Sent("mesh") => told = "standby"]_gateVars
  BY StepRespectsJob
<1> QED BY Inductive, <1>1, PTL DEF GateSpec, DispatchRespectsJob

\* One step starts a flash only when the flags say there is no job.
LEMMA StepFlash ==
  IInv /\ [GateNext]_gateVars => (installing' > installing => told = "standby")
<1> SUFFICES ASSUME IInv, [GateNext]_gateVars, installing' > installing
             PROVE  told = "standby"
  OBVIOUS
<1>0. installing \in Int
  BY BoundAssumption DEF IInv, NumOK
<1> USE <1>0 DEF update
<1>1. CASE ConfirmInstall
  BY <1>1 DEF ConfirmInstall, held, IInv, KindOK, State, ToldOK
<1>2. ~(init \/ consume \/ disconnected)
  BY DEF init, consume, disconnected
<1>3. ~(TapMotion \/ TapMotorsOff \/ TapCal)
  BY DEF TapMotion, TapMotorsOff, TapCal
<1>4. ~(TapInstall \/ Cancel \/ ConfirmMesh)
  BY DEF TapInstall, Cancel, ConfirmMesh
<1>5. ~(check_update \/ CheckDone \/ busy_hide)
  BY DEF check_update, CheckDone, busy_hide
<1>8. ~InstallReturns
  <2>1. InstallReturns => installing' = installing - 1
    BY Zenon DEF InstallReturns
  <2> QED BY <2>1
<1>6. ~(JobChanges \/ \E c \in Commands : Execute(c))
  BY DEF JobChanges, Execute
<1>7. ~(UNCHANGED gateVars)
  BY DEF gateVars
<1> QED BY <1>1, <1>2, <1>3, <1>4, <1>5, <1>6, <1>7, <1>8 DEF GateNext

\* The re-check behind the install card (main_panel.cpp:1166-1170) suffices:
\* no flash begins under a job the screen knows of.
THEOREM FlashIsGated == GateSpec => NoFlashUnderJob
<1>1. IInv /\ [GateNext]_gateVars => [installing' > installing => told = "standby"]_gateVars
  BY StepFlash
<1> QED BY Inductive, <1>1, PTL DEF GateSpec, NoFlashUnderJob

=============================================================================
