---------------------------- MODULE PromptPanel -----------------------------
(***************************************************************************)
(* Klipper's dialogs (prompt_panel.cpp, prompt_layout.cpp). A macro builds *)
(* one line by line with "// action:prompt_..." responses; lines sent      *)
(* while the link is down are lost. The card is a child of the active      *)
(* screen, among the cockpit, its sub-screens, the Wi-Fi panel, the boot   *)
(* screen and the screen saver, each of which is brought to the front by   *)
(* other code. Row objects are named by their address, which a later row   *)
(* may be given again.                                                     *)
(***************************************************************************)
EXTENDS Integers, FiniteSets

CONSTANTS RowAddrs,   \* addresses the allocator gives to button rows
          MaxPrompts  \* bound: dialogs Klipper begins

ASSUME PromptAssumption == MaxPrompts \in Nat /\ RowAddrs # {}

VARIABLES
  promptLink,        \* the websocket: "down", "boot" (its handshake), "up"
  dialog,            \* Klipper: the number of the dialog its macro is building
  lines,             \* children of the card: texts, rows, and buttons with the
                     \* place they are in
  button_group_cont,
  header,            \* the dialog the header names; 0 is empty
  showing_,
  over,              \* screens that lie in front of the card
  latest,            \* the dialog whose response came last
  cut,               \* responses were lost since the last prompt_begin
  astray             \* a button ran a command of another dialog than latest

promptVars == <<promptLink, dialog, lines, button_group_cont, header, showing_,
                over, latest, cut, astray>>

NULL   == "NULL"
Body   == "body"
Footer == "footer"
Screen == {"home", "sub", "wifi", "boot", "saver"}
Line   == [kind : {"text", "row", "button"}, of : 0 .. MaxPrompts,
           at : RowAddrs \cup {Body, Footer}]

PromptTypeOK ==
  /\ promptLink \in {"down", "boot", "up"} /\ dialog \in 0 .. MaxPrompts
  /\ lines \subseteq Line /\ button_group_cont \in RowAddrs \cup {NULL}
  /\ header \in 0 .. MaxPrompts /\ showing_ \in BOOLEAN
  /\ over \subseteq Screen /\ latest \in 0 .. MaxPrompts
  /\ cut \in BOOLEAN /\ astray \in BOOLEAN

(* The cockpit is up. The card starts behind it.                           *)
PromptInit ==
  /\ promptLink = "up" /\ dialog = 0 /\ lines = {}
  /\ button_group_cont = NULL /\ header = 0 /\ showing_ = FALSE
  /\ over = {"home"} /\ latest = 0 /\ cut = FALSE /\ astray = FALSE
-----------------------------------------------------------------------------
(* handle_macro_response, on the websocket thread under lv_lock *)

Received == promptLink # "down" /\ latest' = dialog

(* prompt_layout_reset() deletes every line; the group went with them.     *)
BeginKeepsGroup ==
  /\ lines' = {} /\ UNCHANGED button_group_cont

ResetLayout ==
  /\ lines' = {} /\ button_group_cont' = NULL

(* A macro begins its next dialog, whether or not the screen hears of it.  *)
prompt_begin ==
  /\ dialog < MaxPrompts /\ promptLink # "down"
  /\ dialog' = dialog + 1 /\ latest' = dialog'
  /\ ResetLayout
  /\ header' = dialog' /\ cut' = FALSE
  /\ UNCHANGED <<promptLink, showing_, over, astray>>

(* It is lost with the link, or has no title: substr() throws before       *)
(* anything is done.                                                       *)
prompt_begin_missed ==
  /\ dialog < MaxPrompts
  /\ dialog' = dialog + 1 /\ cut' = TRUE
  /\ latest' = IF promptLink = "down" THEN latest ELSE dialog'
  /\ UNCHANGED <<promptLink, lines, button_group_cont, header, showing_, over,
                 astray>>

(* One without a text adds no line: its substr() throws too.               *)
prompt_text ==
  /\ Received
  /\ lines' \in {lines, lines \cup {[kind |-> "text", of |-> dialog, at |-> Body]}}
  /\ UNCHANGED <<promptLink, dialog, button_group_cont, header, showing_, over,
                 cut, astray>>

LiveRows == {l.at : l \in {x \in lines : x.kind = "row"}}

prompt_button_group_start(a) ==
  /\ Received /\ a \notin LiveRows
  /\ lines' = lines \cup {[kind |-> "row", of |-> dialog, at |-> a]}
  /\ button_group_cont' = a
  /\ UNCHANGED <<promptLink, dialog, header, showing_, over, cut, astray>>

prompt_button_group_end ==
  /\ Received
  /\ button_group_cont' = NULL
  /\ UNCHANGED <<promptLink, dialog, lines, header, showing_, over, cut, astray>>

(* prompt_button and prompt_footer_button; one without a '|' is skipped.   *)
prompt_button(footer) ==
  /\ Received
  /\ lines' = lines \cup
       {[kind |-> "button", of |-> dialog,
         at |-> CASE footer -> Footer
                  [] ~footer /\ button_group_cont # NULL -> button_group_cont
                  [] OTHER -> Body]}
  /\ UNCHANGED <<promptLink, dialog, button_group_cont, header, showing_, over,
                 cut, astray>>

prompt_show ==
  /\ Received
  /\ showing_' = TRUE /\ over' = {}
  /\ UNCHANGED <<promptLink, dialog, lines, button_group_cont, header, cut,
                 astray>>

prompt_end ==
  /\ Received
  /\ showing_' = FALSE /\ over' = over \cup {"home"}
  /\ header' = 0
  /\ ResetLayout
  /\ UNCHANGED <<promptLink, dialog, cut, astray>>
-----------------------------------------------------------------------------
(* handle_callback: a finger on a button that nothing covers.              *)
Press(b) ==
  /\ showing_ /\ over = {} /\ b.kind = "button"
  /\ astray' = (astray \/ (b.of # latest /\ ~cut))
  /\ UNCHANGED <<promptLink, dialog, lines, button_group_cont, header,
                 showing_, over, latest, cut>>

(* disconnected(): PromptPanel::reset() through reset_overlay_state(), and *)
(* the boot screen in front. The lines and the group stay.                 *)
PromptLinkLost ==
  /\ promptLink # "down"
  /\ promptLink' = "down" /\ cut' = TRUE
  /\ showing_' = FALSE /\ header' = 0
  /\ over' = over \cup {"home", "boot"}
  /\ UNCHANGED <<dialog, lines, button_group_cont, latest, astray>>

Relinked ==
  /\ promptLink = "down" /\ promptLink' = "boot"
  /\ UNCHANGED <<dialog, lines, button_group_cont, header, showing_, over,
                 latest, cut, astray>>

(* The screens are moved by the boot handshake (its last step raises the   *)
(* cockpit), by taps, by the print-start reply and by the sleep timer.     *)
Raised(s, hidden) ==
  /\ over' = (over \ hidden) \cup {s}
  /\ UNCHANGED <<dialog, lines, button_group_cont, header, showing_, latest,
                 cut, astray>>

Lowered(s) ==
  /\ s \in over
  /\ over' = over \ {s}
  /\ UNCHANGED <<promptLink, dialog, lines, button_group_cont, header,
                 showing_, latest, cut, astray>>

show_home ==
  promptLink = "boot" /\ promptLink' = "up" /\ Raised("home", {"boot"})
Used          == promptLink = "up" /\ UNCHANGED promptLink
show_pono     == Used /\ Raised("sub", {"home"})
back_to_home  == Used /\ Raised("home", {"sub"})
wifi_forward  == Used /\ Raised("wifi", {})
wifi_back     == Lowered("wifi")
display_sleep == Raised("saver", {}) /\ UNCHANGED promptLink
display_wake  == Lowered("saver")

PromptNext ==
  \/ prompt_begin \/ prompt_begin_missed \/ prompt_text
  \/ \E a \in RowAddrs : prompt_button_group_start(a)
  \/ prompt_button_group_end
  \/ \E footer \in BOOLEAN : prompt_button(footer)
  \/ prompt_show \/ prompt_end
  \/ \E b \in lines : Press(b)
  \/ PromptLinkLost \/ Relinked
  \/ show_home \/ show_pono \/ back_to_home
  \/ wifi_forward \/ wifi_back \/ display_sleep \/ display_wake

PromptSpec == PromptInit /\ [][PromptNext]_promptVars
-----------------------------------------------------------------------------
(***************************************************************************)
(* handle_macro_response never puts a button into a row that is gone:      *)
(* button_group_cont is NULL or a row on the card. And a card whose        *)
(* responses all arrived is of one dialog: its header, lines, rows and     *)
(* buttons, and whatever a press runs.                                     *)
(***************************************************************************)
PromptIsWhole ==
  /\ button_group_cont # NULL => button_group_cont \in LiveRows
  /\ \A l \in lines : l.at \in LiveRows \cup {Body, Footer}
  /\ ~cut => \A l \in lines : l.of = latest
  /\ ~cut => header \in {0, latest}
  /\ ~astray

(***************************************************************************)
(* prompt_show takes the busy overlay down because the prompt lies on      *)
(* lv_layer_top with it, "so the dialog is visible/tappable": nothing but  *)
(* the screen saver may lie in front of a dialog that is_showing().        *)
(***************************************************************************)
PromptIsInFront == showing_ => over \subseteq {"saver"}
=============================================================================
