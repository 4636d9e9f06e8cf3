# A TLA+ model of the Pono Print touch screen

The repository is a touch UI for a 3D printer: an LVGL program that talks
JSON-RPC over one websocket to Moonraker, which in turn drives Klipper. It is
small, but several threads act on one screen, everything it knows of the
printer arrives as deltas over a link that may fail, and some of its taps can
wreck a print or reboot the machine. This project models that program, checks
it with TLC and proves its safety properties with TLAPS.

## The system

### Threads and locks

| Thread | Runs | Source |
|---|---|---|
| UI | `GuppyScreen::loop`: `lv_lock` around `lv_timer_handler` (taps, timers), then the screen saver outside the lock | `guppyscreen.cpp:145-179` |
| websocket | libhv's loop: `onopen`, `onmessage`, `onclose`; replies, status deltas, `notify_*` | `websocket_client.cpp:38-139` |
| workers | detached: update check, update install | `main_panel.cpp:918-976, 1172-1195` |
| wpa | events of wpa_supplicant | `wpa_event.cpp` |

| Mutex | Guards |
|---|---|
| `lv_lock` | every LVGL object and the `MainPanel` flags |
| `rpc_mutex_` (recursive) | request id, reply tables, consumer lists |
| `State::lock` | the merged printer state |
| `WpaEvent::cmd_mutex_` | the wpa control socket |

### Components

| Component | State | Operations | Hard because | Correct when |
|---|---|---|---|---|
| `KWebSocketClient` | `id`, `callbacks`, `consumers`, `notify_consumers`, `method_resp_cbs`, time of the last status | seven send variants, dispatch, (un)register | two threads send; callbacks re-enter; two mutexes; lost links | a reply runs its own callback, once; no deadlock |
| `InitPanel` | `conn_epoch_`, boot screen, bar | `connected`, two replies, `disconnected` | handshakes overlap each other and losses | no cockpit over a dead link; it comes once the printer is there |
| `MainPanel` overlays | `busy_`, `cal_msg_`, `cal_overlay_`, `callog_*`, `stale_shown_`; scrim and watchdog in `pono_anim.cpp` | `consume`, `init`, `reset_overlay_state`, completion replies, `check_stale` | deltas carry only changes; one scrim for many users | the glass tells what goes on, and never stays blocked |
| top layer | z-order and visibility of six layers, `pending_confirm_` | raise, hide, confirm, keepalive | three threads reorder it | E-STOP reachable; the card does what it says |
| job interlocks, update | `home_printing_`, `home_paused_`, Move gates, `update_avail_`, `update_checking_`, chip | taps, two-step confirmations, two workers | cached state, open cards, slow workers | nothing dispatched against the known job |
| Files list | `files_names_`, `files_gen_` | `populate_files`, metadata replies, row tap | replies of an earlier list | no stale row touched; the tapped file is printed |
| `PromptPanel` | prompt under construction, `showing_` | `// action:prompt_*` protocol | macro restarts, losses, burying | a shown prompt can be answered |
| `State` | merged JSON | `set_data`, merge, getters | references used after the unlock | snapshot then deltas equals Klipper's state |
| cockpit values | last values, what is painted (`rend_*`) | `init`, `consume`, `rebuild_home` | a consumer before it may throw; layouts are rebuilt | the glass shows what Moonraker last said |
| `WifiPanel`, `WpaEvent` | scan results, known networks, selection | scan, connect, forget | own thread, lists rebuilt under the operator | commands go to the selected network |
| `SpoolmanPanel`, `ConsolePanel` | spools; a text log | replies, taps | behind the cockpit | - |
| configuration, command line, path guard, temperature filter | none | pure functions | edge cases | equal to a reference definition |
| drawing, themes, widgets, legacy panels | last value shown | one gcode per tap | - | - |

The components meet in four places: `onmessage` calls into every panel;
`InitPanel` calls `MainPanel::init` and `reset_overlay_state`; `MainPanel`,
`PromptPanel` and the workers share the one busy scrim; and every tap goes back
through `send_jsonrpc`.

The list of hazards, each at its line with the properties that watch it, is
`hazards` in `PROJECT.json`.

## The modules

| Module | Models | Source |
|---|---|---|
| `RpcContract` | what a caller of `send_jsonrpc` may rely on (abstract) | `websocket_client.h` |
| `JsonRpc` | two threads, two mutexes, the reply tables | `websocket_client.cpp` |
| `BootHandshake` | `InitPanel` against Moonraker and Klipper | `init_panel.cpp` |
| `CalOverlay` | scrim, watchdog, logbook and the flags of `consume()` | `main_panel.cpp`, `pono_anim.cpp` |
| `TopLayer` | who covers whom on `lv_layer_top` | `main_panel.cpp`, `pono_anim.cpp`, `numpad.cpp` |
| `JobGate` | interlocks, update check and install | `main_panel.cpp` |
| `StatusFanout` | a status from Moonraker through the consumers to the store and the glass | `websocket_client.cpp`, `state.cpp`, `main_panel.cpp` |
| `FilesList` | the Files screen: list and metadata replies, row taps | `main_panel.cpp` |
| `WifiPanel` | the Wi-Fi panel on two threads, and wpa_supplicant | `wifi_panel.cpp`, `wpa_event.cpp` |
| `PromptPanel` | the prompt protocol, and what lies in front of the card | `prompt_panel.cpp`, `prompt_layout.cpp` |
| `ThumbPath` | the path of a thumbnail and its guard | `path_guard.h`, `utils.cpp` |
| `ConfigIni` | the configuration file, line by line | `config.h` |
| `*Proofs` | theorems about the module they extend; `FilesProofs` is about `FilesList`, `ScreensProofs` about the other modules of `MCScreens` and the composition | |
| `MC*` | instances for TLC | |

The operators that model code keep the code's names where they can; `map` in
`PROJECT.json` gives the lines of each. Definitions placed before an action and
named for a slip (`RegisterUnlocked`, `ConsumeKeepsText`, ...) are deliberate
mistakes: each is used to see that a property notices it, and none is part of
a specification.

### JsonRpc and RpcContract

A request is one call of `send_jsonrpc`, made with a callback, with a
`NotifyConsumer`, or bare, by either thread. Because `rpc_mutex_` is recursive
and the callback variants hold it around the bare one, a call is two steps,
`Register` and `Send`, with the mutex held between them. `Lookup` is the locked
part of the dispatch, `Invoke` and what follows the unlocked part; a handler
may take `lv_lock` (`WantLv`, `TakeLv`, `DropLv`) and send. `Reply` and
`LinkDrop` are Moonraker and the network: replies in any order, a dying link
takes the unanswered requests and perhaps the unread replies.

`RpcContract` says of each request that it is new, sent, answered, then handled
or closed, that only a lost link closes what somebody waits for, and that
nothing is handled twice. `ImplementsContract` maps `JsonRpc` onto it.

### BootHandshake

Each handler is one step (its LVGL writes hold `lv_lock`). A request carries the
handshake and the epoch it began in; `Evaluate` decides its outcome at
Moonraker, `Deliver` puts the reply on the socket, and `Notify` does so for a
change of Klipper: so a reply may be older than a notification it follows. The
requests for roots, printer and server info that the list reply also sends feed
the `State` store only and are left out.

### CalOverlay

`k` is what Klipper does, `sent` what Moonraker has told the screen; `consume`
folds in the fields that differ and then redraws, all in one step, as the code
does under `lv_lock`. A disconnect either takes the socket or, for a Klipper
shutdown, leaves it (deltas and replies still come). Texts are members of two
sets, the ones that begin with "Calibrating" and the ones of a run. The 180 s
of the watchdog are `WatchdogTicks` ticks. `init` runs on every subscribe reply:
also the one of a handshake that a loss has overtaken, which does not reveal the
cockpit, and the one of a second handshake on a link that has held. What changed
since the last delta comes to the screen with that snapshot and with nothing
else.

### TopLayer

`z` is the child list of `lv_layer_top`, `shown` the children not hidden.
A layer can be tapped when it is shown and no full-screen layer lies in front
of it. The scrim and the card of a dialog are raised and lowered together and
count as one layer. What a delta or a reply is about does not matter here, only
what it raises or hides, so each of those is free to happen at any time.

### JobGate

`job` is Klipper's print state, `told` the state last told to the screen, the
flags what the code keeps of it. A card stays open as long as the operator
likes. The two workers are the steps that end them. A refusal or notice is the
card `"refused"`; the notice a failed install may raise over another card only
delays taps and is left out. The module shares no state with the sub-screens
and is checked in one run with them (`MCScreens`); `MCJobGate` serves the run
`gate_overlay`.

### StatusFanout

`klip` is Klipper's status, `base` what Moonraker last put in a message. A
status has four fields, one for each way the code treats a value: the job, the
nozzle temperature (cached and painted through a shadow, on two screens), a fan
(painted through a shadow, never cached) and the layer (may be null, painted
while a job runs). `Deliver` is one consumer of one message, under its own lock;
between two of them the UI thread may run. The order of the consumers is the
order of registration, and `Reads` says which fields each of them converts
without a guard: a malformed one ends the delivery there. `Notify(bad)` is a
delta of everything that changed, with one field possibly malformed. The list
and subscribe requests of a handshake are one request here (they are apart in
`BootHandshake`). Its answer may be a snapshot, one with a malformed field, at
which `init` throws before it rebuilds the cockpit, or, from a Klipper that went
away first, an error, which `init` takes as a snapshot without fields. The ghost
`lost` holds the fields whose last value never
reached the cockpit: thrown away, dropped by a job flip, or overwritten by a
slider.

### FilesList

A row is named by its place in the list, since a freed row's address may be
given to another. A list reply may hold entries without a path, and more entries
than the list takes (`RowCap`, 40 in the code). The card remembers, as a ghost,
the text of the row that was tapped. The card's z-order is `TopLayer`'s matter.

### WifiPanel

The UI thread holds `lv_lock` for all of a handler, also through its blocking
call to wpa_supplicant (`uiPc`); the wpa thread reads and reloads without it and
takes it to draw, so the two meet in `list_networks`, which nothing guards. The
reload of the wpa thread is three steps: it empties the map, reads the reply of
LIST_NETWORKS (`WpaList`, `wpaNets`) and inserts it (`WpaFill`); a tap, a removal
or a new profile may come between any two. The UI thread's own reply, insert and
lookup are one step: only that thread adds and removes profiles, so the reply
cannot age before it is used. The model does not give two threads inside the
`std::map` at once, which is undefined. A SCAN may be refused (its answer is
discarded, line 161) and a scan may fail. wpa_supplicant scans by itself as well
as on request, gives a new profile the id after its highest, and reports in any
order. The ghost `outdated` holds the ids that were removed since the map, or the
reply in the wpa thread's hand, was read. Profiles edited by another client while
the panel is open are left out.

### PromptPanel

Klipper sends the responses of its dialogs in order; which of them a macro sends
is free, so groups may stay open, shows may come without a begin, and a begin
without a title throws. Those sent while the link is down are lost. `over` holds
the screens in front of the card: it is a child of `lv_scr_act()` like them.

### ThumbPath and ConfigIni

Two pure readers, each checked against a definition of what it should compute.
`ThumbPath` spells paths out, because its property is about characters: all
relative paths of up to four characters from a letter, the dot, both slashes and
NUL, joined to five shapes of gcode path. A piece between separators is the pair
of positions the guard's loop has in `start` and `end`, so that guard and
operating system, which cut at different characters, can be compared piece by
piece; the depth is a count of names against parent steps. `ConfigIni` reads files of up to four
lines; a header opens a section or a group, a key is one of three texts.

`MCScreens` puts these five modules and `JobGate` into one run: a behaviour picks one of them
and leaves the others in their initial state, so their states add up.

## What the runs check

A passing run checks safety and liveness of its component together, or of
several that share no state (`screens`); each of
its properties has a mutant in `PROJECT.json` that breaks it. The longest run
takes two to three minutes.

| Run | Checks | Bounds, and why they are enough |
|---|---|---|
| `rpc` | types, `RepliesGoHome`, `EntriesAreOutstanding`, `NoLockInversion`, `ImplementsContract`, `RepliesAreHandled` | 4 requests of all three kinds: two sends overlap while a third reply is dispatched and a fourth is lost |
| `boot` | types, `CockpitIsLive`, `RevealIsFresh`, `CockpitComes` | 2 faults: a loss during the recovery from a loss |
| `overlay` | types, `ScrimIsArmed`, `OverlayIsHonest`, `LossStrandsNothing`, `ScrimGoes`, `AlarmLights` | 4 changes of Klipper (two operations from start to end), a tap, a loss, a prompt; 2 ticks, so that a timer can be caught half-way |
| `top` | types, `NoStrayAction`, `EstopComesBack` | none: the state space is finite |
| `status` | types, `StateIsCurrent`, `CockpitIsCurrent`, `GlassSettles` | 3 changes, 1 fault, 1 malformed field (of a delta or of a snapshot), 2 messages in the socket: a delta between two snapshots, a value that moves and comes back, a field lost and repeated, a subscription refused by a Klipper that restarts |
| `screens` | types, `MetaOnOwnRow`, `StartsWhatWasTapped`, `SelectsWhatWasTapped`, `RemovesWhatWasNamed`, `SpinnerWillStop`, `PromptIsWhole`, `ThumbStaysInside`, `IniReadsBack`; `DispatchRespectsJob`, `NoFlashUnderJob` | 3 lists of up to 4 entries for 3 rows: two lists overlap while a third is asked for, one is cut off and one has a gap; 2 networks (symmetric) and 2 ids, so that an id is given out again, and 1 event in the monitor socket while another is handled; 2 dialogs and 1 row address, so that a row gets the address of a deleted one; 4 characters, enough for `..` between, before or after a separator; 4 lines: two blocks with a key each, in every order; 3 job changes, 2 losses, 2 installs at a time: a job that comes, goes and comes under one card |

Deadlock is checked except in `boot`, where a printer that stays away, with the
fault budget spent, leaves the screen nothing to do, in `status`, where the
bounded changes end, and in `screens`, where a reader stops at the end of its
input.

Fairness. `rpc`: threads keep running; strong fairness for taking `lv_lock` and
for the dispatcher, because the UI loop frees the mutex on every pass and sleeps
5 ms before it takes it again (`guppyscreen.cpp:152-177`), and for the return of
a handler, which is straight-line code. `boot`: the websocket thread runs, libhv
reconnects without end (`websocket_client.cpp:131-136`), Moonraker answers and
notifies; nothing is assumed of Klipper, and the property speaks only of runs in
which it stays ready. `overlay`: the LVGL timers of the UI loop. `top`: the same
timers, the keepalive and the watchdog that drops a scrim; nothing is assumed of
the operator. `status`: the websocket thread runs, libhv reconnects, Moonraker
answers a subscription and reports a change; changes, faults and malformed
fields need not happen, and the property speaks of the end of them.

### Where the code does not do what it says

Six runs state a promise made in a comment or in the build and show, by a
violation, an execution that breaks it. The findings in `PROJECT.json` quote the promise.

| Run | The promise | What happens |
|---|---|---|
| `overlay_reconnect` | the calibration overlay comes back after a reconnect | `init()` does not seed `busy_` and the text, and no delta repeats them |
| `overlay_watchdog` | the watchdog never cuts a healthy operation short | a bed mesh is one text for some twenty minutes |
| `top_estop` | an E-STOP tap is one confirm away from the stop | a refused print start replaces the question |
| `prompt_buried` | the prompt lives on `lv_layer_top` and so can be seen and tapped | it is built on the active screen: an accepted print start, a tap beside the card or the end of a handshake raises another screen over it, while `showing_` keeps the calibration overlay away too |
| `gate_overlay` | the update overlay is the last thing shown | a lost link, or the watchdog, takes it away, and a second install can be confirmed |
| `ini_integer` | an integer setting reads back: `build.sh:132` writes `display_rotate: 1`, `main.cpp:104-107` takes 1 to 3 | `set_typed` tries booleans first (`config.h:76`), so 1 is stored as `true` and an integer read of it is the default: the screen is not rotated |

The models also contain these executions, which a reader of the comments might
not expect; they have no run of their own:

- `init_panel.cpp:210` invalidates connect callbacks in flight, but only the
  subscribe reply checks the epoch: a stale list reply still moves the bar and
  subscribes (`list_reply` in `BootHandshake`);
- a step text that arrives while `busy_` is false (a screen started during a
  calibration) is not dropped at its end (`main_panel.cpp:291`), and a second
  calibration with the text of the first is not announced by a delta. This is
  why `OverlayIsHonest` speaks of a link that has held; both need a macro that
  leaves its text in place, and the macros are not in the repository;
- a calibration delta raises the scrim over an open confirm card
  (`main_panel.cpp:709-710` wants it on top) and over the logbook with its STOP
  (line 461). This is why `EstopComesBack` needs the watchdog;
- a job found by `init()` leaves the INSTALL chip visible (line 1162 takes it as
  hidden); the tap is refused all the same;
- the interlocks read a copy of the job that lags by a delta (lines 1121-1122).
  This is why `DispatchRespectsJob` speaks of the state last told;
- `rebuild_home()` forgets the shadows so that "the next consume()" repaints
  temperatures and fans (line 1394), but the delta that flips the job skips its
  own fan values (lines 323-331), and a fan does not report again until it
  moves. `init()` does not seed the fans at all. This is why `CockpitIsCurrent`
  excepts the fields in `lost`;
- a fan slider writes the wish on the glass; if the fan then reports the value
  it had before, the shadow says that nothing changed (line 395);
- a malformed field costs the cockpit the whole delta, the store nothing
  (`StateIsCurrent` against `CockpitIsCurrent`);
- `PromptPanel::reset()` clears the header and leaves lines, buttons and the open
  group: a `prompt_show` whose `prompt_begin` fell into the gap shows them;
- with an adapter but no control socket (`init_wpa` runs once, `wpa_event.cpp:49`)
  the Wi-Fi panel spins for good. This is why `SpinnerWillStop` asks for `conn`;
- a wrong password leaves its profile behind, and the retry adds a second one of
  the same name; a later tap selects the first (`wifi_panel.cpp:406-433`). A
  password typed after another row was tapped goes to that row's network
  (line 409);
- a SCAN that is refused, or a scan that fails, leaves the spinner turning until
  wpa_supplicant scans by itself: the answer is discarded
  (`wifi_panel.cpp:161`) and CTRL-EVENT-SCAN-FAILED is not among the events
  handled. `SpinnerWillStop` excepts them;
- `remove_network` does not reload the map, before or after (lines 182-196): the
  removed name keeps its id there, and when that id has been given to a new
  profile, "Delete ...?" of the old name removes the new network. In the same
  way a reply the wpa thread read before a removal is inserted after it
  (lines 419-434), and a tap on that name sends the id. `RemovesWhatWasNamed`
  and `SelectsWhatWasTapped` except the ids in `outdated`;
- a second handshake on a link that has held (`onopen`, then
  `notify_klippy_ready`) runs `init()` again. If a calibration ended in between,
  its end came with that snapshot, no delta repeats it, and `busy_` and
  `cal_overlay_` stay as they were. `OverlayIsHonest` counts such a snapshot as
  a loss;
- an error in reply to the subscription is handled like a snapshot without
  fields: the cockpit is rebuilt and, if the epoch is still right, revealed.
  The `notify_klippy_disconnected` that came with it puts the boot screen back;
- a malformed field in a snapshot throws out of `init()` (`init_panel.cpp:187`),
  before the cockpit is rebuilt: it goes on showing the values of the layout
  before.

## What is proved

TLAPS proves the following for every value of the constants, under the named
assumptions of each module. These say that the bounds are natural numbers and
that what stands for "nothing" is not a value; the ones that say more are
`IdAssumption` (the ids stay below the wrap of the 32-bit key, see below) and
`IniAssumption` (a header has a name: `[]` opens no block, and `load_ini` drops
its keys).

| Module | Theorems | Inductive invariant |
|---|---|---|
| `JsonRpcProofs` | `TypeCorrect`, `ReplyRouting`, `NoStaleEntries`, `LockOrder`, `LocksNeverCircle`; `Implementation`, the refinement of `RpcContract` | `IInv`: `rpc_mutex_` is held exactly from `Register` to `Send`, so an entry sits at the id its request carries or is about to carry; ids differ; messages carry their request's id. For the refinement, `RefInv` adds where each request is while it is under way; `LvOK`: `lv_lock` is held by exactly the thread inside a section of it |
| `BootProofs` | `TypeCorrect`, `RevealsAreFresh`, `NoDeadCockpit`; `NoLostHandshake`, `HandshakeRunsDown` | `IInv`: a request of the present epoch belongs to a handshake begun after the last loss (`FreshOK`), also while its reply is in the socket; for the cockpit, a loss the screen has not been told of is still ahead of it (`LossAhead`, `LiveOK`); for the handshake, behind every loss in the socket of a ready Klipper comes a `notify_klippy_ready`, and a boot screen has one coming or a handshake of its own epoch under way (`WakeOK`) |
| `CalOverlayProofs` | `TypeCorrect`, `ScrimCanTimeOut`, `NothingStranded`, `HonestOverlay` | scrim and timer together; a calibration's scrim only with `cal_overlay_` and a subscription; on a link that has held, the texts on the glass are those of the operation that is going on (`GlassFollows`, `TextsAreOwn`) |
| `TopLayerProofs` | `TypeCorrect`, `CardAndAction` | inductive as they stand; raising and lowering a child keeps each child once |
| `JobGateProofs` | `TypeCorrect`, `ChipIsEarned`, `InterlocksHold`, `FlashIsGated` | `IInv`: the two flags are the image of what was told (`ToldOK`), and the chip is earned |
| `StatusProofs` | `StatusTypeCorrect`, `StoreIsCurrent`, `GlassIsCurrent`; `RestIsSettled`, `WorkRunsDown` | `IInv`: the last message under way that names a field carries what Moonraker last said of it (`LastSaid`); a consumer is right about every field that nothing under way to it names (`StoreOK`, `CockpitOK`); the texts follow the cache and the shadows (`GlassOK`); past a consumer that reads a field, the field is not malformed (`CurOK`); handshakes are paid for by faults (`CountOK`); a subscription that is missing, or a store not yet seeded, has the message that will bring it on its way (`HandshakeOK`) |
| `FilesProofs` | `FilesTypeCorrect`, `OwnRow`, `TappedFile` | `FilesInv`: the k-th row is of the k-th path of `files_names_` (`EntryRank`: the rows of a reply are numbered without gaps), and a metadata request of the present generation names a row of the present list |
| `ScreensProofs` | `WholePrompt`; `TappedNetwork`, `NamedNetwork`, `SpinnerStops`; `IniRoundTrip`; `ThumbContainment`; `ScreensTypeCorrect`, `ScreensAreRight` | `PromptInv` (nothing lost since `prompt_begin`: the dialogs agree), `WifiInv` (an entry of the map, and of the reply the wpa thread holds, names a profile of its network unless its id is in `outdated`: `ListedOK`; the reply is held only between `WpaList` and `WpaFill`: `InHand`; the message box names the row touched last: `BoxOK`), `IniInv` (of the lines read so far, what the property says of the file), `ThumbInv` (a path that was read is what `get_thumbnail` says of the inputs; the rest are lemmas on pieces: `ParentIsMet`, `GuardContains`, `GuardTakesPlain`); `ScreensInv` is their conjunction |

The invariant is needed in each case because the property alone says nothing of
the state in between: `RepliesGoHome` of the tables, `RevealIsFresh` of the
replies still on their way, the interlocks of how the flags came about,
`StateIsCurrent` of the moments at which a message is under way, `IniReadsBack`
of a file half read. Each of these invariants was first checked by TLC on the
run of its module.

`JsonRpc` is proved up to the wrap of the 32-bit key (`MaxId <= IdSpan`): past
2^32 requests an entry whose reply was lost with its link can meet a new one.

### The safety halves of two liveness properties

Liveness under fairness is out of the prover's reach, but what makes
`CockpitComes` and `GlassSettles` true is not the fairness. Each is split into
two statements of safety, proved for every value of the bounds:

- *rest is right*: where no step is left that the fairness speaks of, the
  promise is kept. `NoLostHandshake` says so of the boot screen, `RestIsSettled`
  of the store and the cockpit. Both spell `AtRest` out by the guards of the
  actions; that it is exactly "no fair action is enabled" was checked by TLC on
  the runs' instances (ENABLED cannot be proved about);
- *work runs down*: every step is one of the bounded disturbances or lowers
  `Work`, a natural number (`HandshakeRunsDown`, `WorkRunsDown`). `Work` weighs
  each thing under way by what it can still set off: a `list` request outweighs
  the `subscribe` it leads to, a `notify_klippy_ready` the handshake it starts,
  a closed link the `onopen` to come.

What remains to be taken from TLC is the last step from these to the temporal
formula, which needs well-founded induction over `Work` and WF.

### Only model-checked

The liveness properties themselves (`RepliesAreHandled`, `CockpitComes`,
`ScrimGoes`, `AlarmLights`, `EstopComesBack`, `GlassSettles`), which need
fairness and ENABLED. Every invariant and every action property that a passing
run checks is also stated by a theorem. The converse holds but for `ChipIsEarned`
(INSTALL is only offered on the word of a finished check), which is proved and
needs no run, and the lemmas on rest and measure above.

## Not modelled

- Drawing, themes, fonts, the sizing of cards: layout without state.
- The taps of the legacy panels, `SpoolmanPanel` and `ConsolePanel`: the tabview
  that holds them stays behind the cockpit "as a safety net"
  (`main_panel.cpp:525-526`); the spool panel is also only initialised for a
  Moonraker with a spoolman component (`spoolman_panel.cpp:20-23`). Their
  `consume()` is modelled, as they can withhold a delta from the cockpit.
- Taps of the sub-screens that send one gcode and keep nothing another step
  reads (presets, steppers, lights, expert tune).
- The command line: a pure function with mutation tests of its own in the
  repository (`tests/mutate_cli.py`). The temperature filter: log text.
- The data races on LVGL's child list (`guppyscreen.cpp:163`) and inside the
  `std::map` of the Wi-Fi panel: undefined behaviour of a library.
- Klipper, its macros, Moonraker and wpa_supplicant, beyond what the screen sees
  of them.
- By far the most lines of the tree are not the program's own: the vendored
  wpa_supplicant, subprocess and touch calibration, and image data generated as C
  arrays. The program itself is some eleven thousand lines, of which layout is
  the larger part.

## Plan

Modelled, in this order: `JsonRpc` and its contract; `BootHandshake`;
`CalOverlay`; `TopLayer`; `JobGate`; their first theorems; `StatusFanout`;
`FilesList`, `WifiPanel`, `PromptPanel`, `ThumbPath`, `ConfigIni`.

Proved, in this order: types and routing of `JsonRpc`, `BootHandshake`,
`CalOverlay`, `JobGate`; the refinement `ImplementsContract`; `CockpitIsLive` and
`OverlayIsHonest`; `FilesList`; the prompt, the Wi-Fi panel; the status fan-out;
the configuration reader; the thumbnail path, restated over positions; the rest
and the measure behind `CockpitComes` and `GlassSettles`; the two mutexes of
`JsonRpc` together.

Left to prove: the measure behind `ScrimGoes` and `EstopComesBack`, which rest on
the watchdog alone, and that `RepliesAreHandled` follows from `LocksNeverCircle`
and the fairness of the two mutexes.

Worth modelling if the code grows that way: `LockOrder`, all four mutexes and
the screen saver's unlocked move; the legacy panels, should the cockpit ever give
way to them.
