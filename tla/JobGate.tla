------------------------------ MODULE JobGate -------------------------------
(***************************************************************************)
(* The interlocks between a print job and the taps that would wreck it     *)
(* (main_panel.cpp): jogging and homing, motors off, calibrations, and the *)
(* firmware update, which flashes a slot and reboots. All of them read     *)
(* home_printing_ and home_paused_, the screen's copy of print_stats,      *)
(* which lags behind Klipper by a delta and, over a lost link, by more.    *)
(* Three threads meet here under lv_lock: the UI, the websocket thread,    *)
(* and the detached workers of check_update() and of the install.          *)
(***************************************************************************)
EXTENDS Integers, FiniteSets

CONSTANTS MaxJobs,    \* bound: changes of the print job
          MaxLosses,  \* bound: lost links
          MaxInstalls \* bound: update processes at a time

ASSUME BoundAssumption ==
  MaxJobs \in Nat /\ MaxLosses \in Nat /\ MaxInstalls \in Nat

VARIABLES
  home_printing_, home_paused_,
  gate,            \* Move-screen buttons that are enabled
  card,            \* the question on the confirm card; "refused" is a refusal
                   \* or notice waiting to be dismissed
  update_avail_,   \* a newer build is known
  update_checking_,
  chip,            \* the INSTALL chip is visible
  scrim,           \* the busy scrim is up
  installing,      \* update-pono-print processes the screen has started
  wire,            \* gcode sent and not yet executed
  job,             \* Klipper's print_stats.state
  told,            \* the state last told to the screen
  linked,          \* the cockpit is up on a live subscription
  budget           \* what is left of the bounds

screen == <<home_printing_, home_paused_, gate>>
update == <<update_avail_, update_checking_, chip, scrim, installing>>
world  == <<wire, job, told, linked, budget>>
gateVars   == <<screen, card, update, world>>

State    == {"standby", "printing", "paused"}
Buttons  == {"motion", "motors"}
Commands == {"motion", "motors", "cal", "mesh"}

GateTypeOK ==
  /\ home_printing_ \in BOOLEAN /\ home_paused_ \in BOOLEAN
  /\ gate \subseteq Buttons
  /\ card \in {"none", "mesh", "install", "refused"}
  /\ update_avail_ \in BOOLEAN /\ update_checking_ \in BOOLEAN
  /\ chip \in BOOLEAN /\ scrim \in BOOLEAN
  /\ installing \in 0 .. MaxInstalls
  /\ wire \subseteq Commands
  /\ job \in State /\ told \in State /\ linked \in BOOLEAN
  /\ budget \in [jobs : 0 .. MaxJobs, losses : 0 .. MaxLosses]

GateInit ==
  /\ home_printing_ = FALSE /\ home_paused_ = FALSE /\ gate = Buttons
  /\ card = "none"
  /\ update_avail_ = FALSE /\ update_checking_ = FALSE /\ chip = FALSE
  /\ scrim = FALSE /\ installing = 0
  /\ wire = {}
  /\ job \in State /\ told = "standby" /\ linked = FALSE
  /\ budget = [jobs |-> MaxJobs, losses |-> MaxLosses]

-----------------------------------------------------------------------------
\* The websocket thread.

held == home_printing_ \/ home_paused_

apply_move_gates(s) ==
  gate' = {b \in Buttons : \/ b = "motion" /\ s # "printing"
                           \/ b = "motors" /\ s = "standby"}

SetJob(s) ==
  /\ home_printing_' = (s = "printing")
  /\ home_paused_' = (s = "paused")
  /\ apply_move_gates(s)

\* MainPanel::init(): the snapshot of a subscribe reply, the second one too
\* where two handshakes overlap; unlike a delta it leaves the chip alone.
init ==
  /\ linked' = TRUE /\ told' = job
  /\ SetJob(job)
  /\ UNCHANGED <<card, update, wire, job, budget>>

\* consume(): print_stats.state has changed; a job takes the chip away.
consume ==
  /\ linked /\ told # job
  /\ told' = job
  /\ SetJob(job)
  /\ chip' = (chip /\ job = "standby")
  /\ UNCHANGED <<card, update_avail_, update_checking_, scrim, installing,
                 wire, job, linked, budget>>

\* disconnected(): the overlays go; what the screen knew of the job stays.
disconnected ==
  /\ linked /\ budget.losses > 0
  /\ budget' = [budget EXCEPT !.losses = @ - 1]
  /\ linked' = FALSE /\ wire' = {}
  /\ scrim' = FALSE
  /\ UNCHANGED <<screen, card, update_avail_, update_checking_, chip, installing,
                 job, told>>

-----------------------------------------------------------------------------
\* Taps. The scrim and the card swallow what lies under them.

Open == linked /\ ~scrim /\ card = "none"

Send(c) == wire' = wire \cup {c} /\ UNCHANGED <<job, told, linked, budget>>

\* Jog or home; homing raises the scrim until its reply (busy_hide below).
TapMotion ==
  /\ Open /\ "motion" \in gate
  /\ ~(home_printing_ /\ ~home_paused_)
  /\ Send("motion")
  /\ scrim' \in BOOLEAN
  /\ UNCHANGED <<screen, card, update_avail_, update_checking_, chip, installing>>

TapMotorsOff ==
  /\ Open /\ "motors" \in gate
  /\ ~held
  /\ Send("motors")
  /\ UNCHANGED <<screen, card, update>>

\* The Tune tiles: Standard and Make Pono start at once, Bed Mesh and Input
\* Shaper ask first; all are refused with a job loaded.
TapCal ==
  /\ Open
  /\ IF held
     THEN card' = "refused" /\ UNCHANGED <<scrim, world>>
     ELSE \/ card' = card /\ scrim' = TRUE /\ Send("cal")
          \/ card' = "mesh" /\ UNCHANGED <<scrim, world>>
  /\ UNCHANGED <<screen, update_avail_, update_checking_, chip, installing>>

TapInstall ==
  /\ Open /\ chip
  /\ update_avail_ /\ ~held
  /\ card' = "install"
  /\ UNCHANGED <<screen, update, world>>

Cancel ==
  /\ card # "none" /\ ~scrim
  /\ card' = "none"
  /\ UNCHANGED <<screen, update, world>>

\* The confirm button. The job is looked at again before anything is sent, and
\* a notice says so when one has come; a card may be answered over the boot
\* screen, where the send is refused.
ConfirmMeshUnchecked ==
  /\ card = "mesh" /\ ~scrim
  /\ card' = "none"
  /\ IF linked THEN Send("mesh") ELSE UNCHANGED world
  /\ UNCHANGED <<screen, update>>

ConfirmMesh ==
  /\ card = "mesh" /\ ~scrim
  /\ card' = IF held THEN "refused" ELSE "none"
  /\ IF linked /\ ~held THEN Send("mesh") ELSE UNCHANGED world
  /\ UNCHANGED <<screen, update>>

ConfirmInstallUnchecked ==
  /\ card = "install" /\ ~scrim /\ installing < MaxInstalls
  /\ card' = "none"
  /\ scrim' = TRUE /\ installing' = installing + 1
  /\ UNCHANGED <<screen, update_avail_, update_checking_, chip, world>>

ConfirmInstall ==
  /\ card = "install" /\ ~scrim /\ installing < MaxInstalls
  /\ card' = IF held THEN "refused" ELSE "none"
  /\ IF held THEN UNCHANGED <<scrim, installing>>
     ELSE scrim' = TRUE /\ installing' = installing + 1
  /\ UNCHANGED <<screen, update_avail_, update_checking_, chip, world>>

-----------------------------------------------------------------------------
\* Workers and timers.

\* check_update(), when the System screen opens.
check_update ==
  /\ Open /\ ~update_checking_
  /\ update_checking_' = TRUE
  /\ chip' = FALSE
  /\ UNCHANGED <<screen, card, update_avail_, scrim, installing, world>>

\* Its worker: up to date, failed or pinned, or a newer build.
CheckDone ==
  /\ update_checking_
  /\ update_checking_' = FALSE
  /\ \E avail \in BOOLEAN :
       /\ update_avail_' = avail
       /\ chip' = (avail /\ ~held)
  /\ UNCHANGED <<screen, card, scrim, installing, world>>

\* update-pono-print comes back: after a failure, or with 0 while the reboot
\* is on its way.
InstallReturns ==
  /\ installing > 0
  /\ installing' = installing - 1
  /\ scrim' = FALSE
  /\ chip' = FALSE \/ UNCHANGED chip
  /\ UNCHANGED <<screen, card, update_avail_, update_checking_, world>>

\* The scrim goes: by the watchdog, or at the end of what raised it.
busy_hide ==
  /\ scrim
  /\ scrim' = FALSE
  /\ UNCHANGED <<screen, card, update_avail_, update_checking_, chip, installing, world>>

-----------------------------------------------------------------------------
\* Klipper (external): jobs come and go from any client; gcode is executed.

JobChanges ==
  /\ budget.jobs > 0
  /\ budget' = [budget EXCEPT !.jobs = @ - 1]
  /\ job' \in State \ {job}
  /\ UNCHANGED <<screen, card, update, wire, told, linked>>

Execute(c) ==
  /\ c \in wire
  /\ wire' = wire \ {c}
  /\ UNCHANGED <<screen, card, update, job, told, linked, budget>>

GateNext ==
  \/ init \/ consume \/ disconnected
  \/ TapMotion \/ TapMotorsOff \/ TapCal \/ TapInstall
  \/ Cancel \/ ConfirmMesh \/ ConfirmInstall
  \/ check_update \/ CheckDone \/ InstallReturns \/ busy_hide
  \/ JobChanges \/ \E c \in Commands : Execute(c)

GateSpec == GateInit /\ [][GateNext]_gateVars

-----------------------------------------------------------------------------
\* Properties.

Sent(c) == c \in wire' /\ c \notin wire

\* No command leaves the screen against the last job state it was told: none
\* of motion while printing, none of motors-off or calibration while a job is
\* loaded, however long a card was open (main_panel.cpp:992-1003, 1089-1123).
DispatchRespectsJob ==
  [][/\ Sent("motion") => told # "printing"
     /\ Sent("motors") \/ Sent("cal") \/ Sent("mesh") => told = "standby"]_gateVars

\* No flash and reboot begins under a job the screen knows of, although the
\* job may have come while the card was open (main_panel.cpp:1166-1170).
NoFlashUnderJob == [][installing' > installing => told = "standby"]_gateVars

\* INSTALL is offered only on the word of a finished check that found a newer
\* build: no chip survives into the next check (main_panel.cpp:906-976).
ChipMeansUpdate == chip => (update_avail_ /\ ~update_checking_)

\* "the busy overlay is honestly the last thing this boot shows"
\* (main_panel.cpp:1157-1159): it stays while the update runs.
OverlayOutlastsUpdate == installing > 0 => scrim

=============================================================================
