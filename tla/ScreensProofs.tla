--------------------------- MODULE ScreensProofs ----------------------------
(***************************************************************************)
(* Proofs about the prompt, the Wi-Fi panel, the configuration reader and  *)
(* the thumbnail guard, and that what is proved of each screen holds of    *)
(* their composition. The reader's loop invariant (IniInv) says of the     *)
(* lines read so far what the property says of the file.                   *)
(***************************************************************************)
EXTENDS MCScreens, FilesProofs, JobGateProofs, WellFoundedInduction

-----------------------------------------------------------------------------
(* The prompt *)

\* Nothing lost since prompt_begin: the dialog Klipper builds is the one
\* whose responses arrive.
InStep == ~cut => latest = dialog

PromptInv == PromptTypeOK /\ PromptIsWhole /\ InStep

LEMMA PromptStart == PromptInit => PromptInv
<1> SUFFICES ASSUME PromptInit PROVE PromptInv
  OBVIOUS
<1>1. showing_ \in BOOLEAN /\ cut \in BOOLEAN /\ astray \in BOOLEAN
  BY Zenon DEF PromptInit
<1>2. PromptTypeOK
  BY <1>1, PromptAssumption DEF PromptInit, PromptTypeOK, Screen
<1>3. PromptIsWhole /\ InStep
  BY DEF PromptInit, PromptIsWhole, InStep
<1> QED BY <1>2, <1>3 DEF PromptInv

\* A line that goes on the card is of the dialog that sent it, in the body,
\* the footer or a row that is there.
LEMMA LineAdded ==
  ASSUME PromptInv, Received, UNCHANGED <<promptLink, dialog, header, showing_,
                                          over, cut, astray>>,
         NEW kind \in {"text", "row", "button"},
         NEW at \in RowAddrs \cup {Body, Footer},
         lines' = lines \cup {[kind |-> kind, of |-> dialog, at |-> at]},
         button_group_cont' \in {NULL, button_group_cont} \/
           (kind = "row" /\ button_group_cont' = at /\ at \in RowAddrs),
         at \in LiveRows \cup {Body, Footer} \/ kind = "row"
  PROVE  PromptInv'
<1> DEFINE new == [kind |-> kind, of |-> dialog, at |-> at]
<1>1. new \in Line /\ new.of = dialog /\ new.at = at /\ new.kind = kind
  BY DEF PromptInv, PromptTypeOK, Line
<1> HIDE DEF new
<1>2. lines' = lines \cup {new} /\ latest' = dialog
  BY DEF new, Received
<1>3. PromptTypeOK'
  BY <1>1, <1>2 DEF PromptInv, PromptTypeOK
<1>4. LiveRows \subseteq LiveRows' /\ (kind = "row" => at \in LiveRows')
  BY <1>1, <1>2 DEF LiveRows
<1>5. PromptIsWhole'
  <2>1. button_group_cont' # NULL => button_group_cont' \in LiveRows'
    BY <1>4 DEF PromptInv, PromptIsWhole
  <2>2. \A l \in lines' : l.at \in LiveRows' \cup {Body, Footer}
    BY <1>1, <1>2, <1>4 DEF PromptInv, PromptIsWhole
  <2>3. ~cut' => \A l \in lines' : l.of = latest'
    BY <1>1, <1>2 DEF PromptInv, PromptIsWhole, InStep
  <2>4. (~cut' => header' \in {0, latest'}) /\ ~astray'
    BY <1>2 DEF PromptInv, PromptIsWhole, InStep
  <2> QED BY <2>1, <2>2, <2>3, <2>4 DEF PromptIsWhole
<1>6. InStep'
  BY <1>2 DEF InStep
<1> QED BY <1>3, <1>5, <1>6 DEF PromptInv

\* Steps that leave the card alone: only who lies in front of it changes.
LEMMA CardKept ==
  ASSUME PromptInv, UNCHANGED <<dialog, lines, button_group_cont, header,
                                latest, cut, astray>>,
         promptLink' \in {"down", "boot", "up"}, showing_' \in BOOLEAN,
         over' \subseteq Screen
  PROVE  PromptInv'
  BY DEF PromptInv, PromptTypeOK, PromptIsWhole, InStep, LiveRows

LEMMA PromptStep == PromptInv /\ [PromptNext]_promptVars => PromptInv'
<1> SUFFICES ASSUME PromptInv, [PromptNext]_promptVars PROVE PromptInv'
  OBVIOUS
<1>0. /\ PromptTypeOK /\ PromptIsWhole /\ InStep
      /\ showing_ \in BOOLEAN /\ cut \in BOOLEAN /\ astray \in BOOLEAN
  BY DEF PromptInv, PromptTypeOK
<1>1. CASE prompt_begin
  <2>1. cut' \in BOOLEAN /\ showing_' \in BOOLEAN /\ astray' \in BOOLEAN
    BY <1>0, <1>1, Zenon DEF prompt_begin
  <2>2. PromptTypeOK'
    BY <1>0, <1>1, <2>1, PromptAssumption
    DEF prompt_begin, ResetLayout, PromptTypeOK
  <2>3. PromptIsWhole' /\ InStep'
    BY <1>0, <1>1 DEF prompt_begin, ResetLayout, PromptIsWhole, InStep
  <2> QED BY <2>2, <2>3 DEF PromptInv
<1>2. CASE prompt_begin_missed
  <2>1. cut' \in BOOLEAN /\ showing_' \in BOOLEAN /\ astray' \in BOOLEAN
    BY <1>0, <1>2, Zenon DEF prompt_begin_missed
  <2>2. PromptTypeOK'
    BY <1>0, <1>2, <2>1, PromptAssumption DEF prompt_begin_missed, PromptTypeOK
  <2>3. PromptIsWhole' /\ InStep'
    BY <1>0, <1>2 DEF prompt_begin_missed, PromptIsWhole, InStep, LiveRows
  <2> QED BY <2>2, <2>3 DEF PromptInv
<1>3. CASE prompt_text
  <2>1. CASE lines' = lines
    <3>1. PromptTypeOK'
      BY <1>0, <1>3, <2>1 DEF prompt_text, Received, PromptTypeOK
    <3>2. PromptIsWhole' /\ InStep'
      BY <1>0, <1>3, <2>1 DEF prompt_text, Received, PromptIsWhole, InStep, LiveRows
    <3> QED BY <3>1, <3>2 DEF PromptInv
  <2>2. CASE lines' # lines
    BY <1>3, <2>2, LineAdded DEF prompt_text
  <2> QED BY <2>1, <2>2
<1>4. ASSUME NEW a \in RowAddrs, prompt_button_group_start(a) PROVE PromptInv'
  BY <1>4, LineAdded DEF prompt_button_group_start
<1>5. CASE prompt_button_group_end
  <2>1. PromptTypeOK'
    BY <1>0, <1>5 DEF prompt_button_group_end, Received, PromptTypeOK
  <2>2. PromptIsWhole' /\ InStep'
    BY <1>0, <1>5
    DEF prompt_button_group_end, Received, PromptIsWhole, InStep, LiveRows
  <2> QED BY <2>1, <2>2 DEF PromptInv
<1>6. ASSUME NEW footer \in BOOLEAN, prompt_button(footer) PROVE PromptInv'
  <2> DEFINE at == CASE footer -> Footer
                     [] ~footer /\ button_group_cont # NULL -> button_group_cont
                     [] OTHER -> Body
  <2>1. at \in {Footer, Body} \/ (at = button_group_cont /\ button_group_cont # NULL)
    BY <1>6
  <2> HIDE DEF at
  <2>2. at \in RowAddrs \cup {Body, Footer} /\ at \in LiveRows \cup {Body, Footer}
    BY <1>0, <2>1 DEF PromptTypeOK, PromptIsWhole
  <2>3. /\ Received /\ button_group_cont' = button_group_cont
        /\ lines' = lines \cup {[kind |-> "button", of |-> dialog, at |-> at]}
        /\ UNCHANGED <<promptLink, dialog, header, showing_, over, cut, astray>>
    BY <1>6 DEF prompt_button, at
  <2> QED BY <2>2, <2>3, LineAdded
<1>7. CASE prompt_show
  <2>1. showing_' \in BOOLEAN
    BY <1>7, Zenon DEF prompt_show
  <2>2. PromptTypeOK'
    BY <1>0, <1>7, <2>1 DEF prompt_show, Received, PromptTypeOK
  <2>3. PromptIsWhole' /\ InStep'
    BY <1>0, <1>7 DEF prompt_show, Received, PromptIsWhole, InStep, LiveRows
  <2> QED BY <2>2, <2>3 DEF PromptInv
<1>8. CASE prompt_end
  <2>1. showing_' \in BOOLEAN
    BY <1>8, Zenon DEF prompt_end
  <2>2. PromptTypeOK'
    BY <1>0, <1>8, <2>1, PromptAssumption
    DEF prompt_end, Received, ResetLayout, PromptTypeOK, Screen
  <2>3. PromptIsWhole' /\ InStep'
    BY <1>0, <1>8 DEF prompt_end, Received, ResetLayout, PromptIsWhole, InStep
  <2> QED BY <2>2, <2>3 DEF PromptInv
<1>9. ASSUME NEW b \in lines, Press(b) PROVE PromptInv'
  <2>1. b.of # latest /\ ~cut => FALSE
    BY <1>0 DEF PromptIsWhole
  <2>2. astray' = FALSE
    BY <1>0, <1>9, <2>1 DEF Press, PromptIsWhole
  <2>3. astray' = astray
    BY <1>0, <2>2 DEF PromptIsWhole
  <2> QED BY <1>0, <1>9, <2>3, CardKept DEF Press, PromptTypeOK
<1>10. CASE PromptLinkLost
  <2>1. cut' = TRUE /\ cut' \in BOOLEAN /\ showing_' \in BOOLEAN
    BY <1>10, Zenon DEF PromptLinkLost
  <2>2. PromptTypeOK'
    BY <1>0, <1>10, <2>1, PromptAssumption DEF PromptLinkLost, PromptTypeOK, Screen
  <2>3. PromptIsWhole' /\ InStep'
    BY <1>0, <1>10, <2>1 DEF PromptLinkLost, PromptIsWhole, InStep, LiveRows
  <2> QED BY <2>2, <2>3 DEF PromptInv
<1>11. CASE Relinked
  BY <1>0, <1>11, CardKept DEF Relinked, PromptTypeOK
<1>12. ASSUME NEW s \in Screen, NEW hidden, Raised(s, hidden),
              promptLink' \in {"down", "boot", "up"}
       PROVE  PromptInv'
  BY <1>0, <1>12, CardKept DEF Raised, PromptTypeOK
<1>13. ASSUME NEW s \in Screen, Lowered(s) PROVE PromptInv'
  BY <1>0, <1>13, CardKept DEF Lowered, PromptTypeOK
<1>14. CASE show_home \/ show_pono \/ back_to_home \/ wifi_forward \/ display_sleep
  BY <1>0, <1>12, <1>14 DEF show_home, show_pono, back_to_home, wifi_forward,
                            display_sleep, Used, Screen, PromptTypeOK
<1>15. CASE wifi_back \/ display_wake
  BY <1>13, <1>15 DEF wifi_back, display_wake, Screen
<1>16. CASE UNCHANGED promptVars
  BY <1>0, <1>16, CardKept DEF promptVars, PromptTypeOK
<1> QED BY <1>1, <1>2, <1>3, <1>4, <1>5, <1>6, <1>7, <1>8, <1>9, <1>10, <1>11,
           <1>14, <1>15, <1>16 DEF PromptNext

\* A card whose responses all arrived is of one dialog, its buttons lie in
\* rows that are there, and a press runs no command of another dialog.
THEOREM WholePrompt == PromptSpec => []PromptIsWhole
<1>1. PromptInv => PromptIsWhole
  BY DEF PromptInv
<1> QED BY <1>1, PromptStart, PromptStep, PTL DEF PromptSpec
-----------------------------------------------------------------------------
(* The Wi-Fi panel *)

LEMMA LeastIn ==
  ASSUME NEW S \in SUBSET Nat, S # {}
  PROVE  Min(S) \in S
<1>1. PICK x \in S : \A y \in S : <<y, x>> \notin OpToRel(<, Nat)
  BY NatLessThanWellFounded, WFMin, Zenon
<1>2. \A y \in S : ~(y < x)
  BY <1>1, Zenon DEF OpToRel
<1>3. \A y \in S : x <= y
  BY <1>2
<1> QED BY <1>3 DEF Min

LEMMA GreatestIn ==
  ASSUME NEW m \in Nat, NEW S \in SUBSET (-1 .. m), S # {}
  PROVE  Max(S) \in S /\ \A y \in S : Max(S) >= y
<1> DEFINE T == {m - x : x \in S}
<1>1. T \in SUBSET Nat /\ T # {}
  <2>1. \A x \in S : m - x \in Nat
    OBVIOUS
  <2> QED BY <2>1
<1>2. PICK t \in T : \A y \in T : <<y, t>> \notin OpToRel(<, Nat)
  BY <1>1, NatLessThanWellFounded, WFMin, Zenon
<1>3. \A y \in T : ~(y < t)
  BY <1>1, <1>2, Zenon DEF OpToRel
<1>4. PICK x \in S : t = m - x
  BY Zenon
<1>5. \A y \in S : ~(m - y < m - x)
  BY <1>3, <1>4, Zenon
<1>6. \A y \in S : x >= y
  BY <1>5
<1> QED BY <1>6 DEF Max

\* An entry of the map, or of a reply not yet inserted, is a profile of its
\* name, unless that id has been removed since it was read.
EntryOK(s, id) ==
  id \in outdated \/ (id \in DOMAIN profiles /\ profiles[id] = s)

ListedOK ==
  /\ \A s \in DOMAIN list_networks : EntryOK(s, list_networks[s])
  /\ \A id \in DOMAIN wpaNets : EntryOK(wpaNets[id], id)

\* The wpa thread holds a reply only between reading and inserting it.
InHand == wpaPc \notin {"scan_fill", "conn_fill", "none_fill"} => wpaNets = <<>>

\* The message box names the row that was touched last.
BoxOK == msgbox # NoSsid => selected_network = msgbox

\* WifiTypeOK by owner: wpa_supplicant, the two threads, the panel.
ProfilesOK ==
  /\ DOMAIN profiles \subseteq 0 .. MaxId
  /\ \A i \in DOMAIN profiles : profiles[i] \in Ssids \cup {NoSsid}
  /\ current \in DOMAIN profiles \cup {NoId}
  /\ trying \in DOMAIN profiles \cup {NoId}

FlagsOK == adapter \in BOOLEAN /\ conn \in BOOLEAN

MapOK ==
  /\ DOMAIN list_networks \subseteq Ssids \cup {NoSsid}
  /\ \A s \in DOMAIN list_networks : list_networks[s] \in 0 .. MaxId
  /\ DOMAIN wpaNets \subseteq 0 .. MaxId
  /\ \A i \in DOMAIN wpaNets : wpaNets[i] \in Ssids \cup {NoSsid}
  /\ outdated \subseteq 0 .. MaxId

PanelOK ==
  /\ scan \in {"none", "running", "failed"}
  /\ events \subseteq {"scan", "connected", "failed"}
  /\ wpaPc \in {"idle", "scan_list", "scan_fill", "scan_draw",
                "conn_list", "conn_fill", "none_fill", "conn_draw"}
  /\ uiPc \in {"idle", "list"}
  /\ wpaGot \subseteq Ssids /\ wifi_name_db \subseteq Ssids
  /\ selected_network \in Ssids \cup {NoSsid}
  /\ wifi_table \subseteq Ssids /\ glass \subseteq Parts
  /\ msgbox \in Ssids \cup {NoSsid}

\* What is right of the map, of the box and of the spinner.
WifiOK == ListedOK /\ InHand /\ BoxOK /\ SpinnerWillStop

WifiInv == ProfilesOK /\ FlagsOK /\ MapOK /\ PanelOK /\ WifiOK

LEMMA WifiParts == WifiTypeOK <=> ProfilesOK /\ FlagsOK /\ MapOK /\ PanelOK
<1>1. Range(profiles) \subseteq Ssids \cup {NoSsid}
        <=> \A i \in DOMAIN profiles : profiles[i] \in Ssids \cup {NoSsid}
  BY DEF Range
<1>2. Range(list_networks) \subseteq 0 .. MaxId
        <=> \A s \in DOMAIN list_networks : list_networks[s] \in 0 .. MaxId
  BY DEF Range
<1>3. Range(wpaNets) \subseteq Ssids \cup {NoSsid}
        <=> \A i \in DOMAIN wpaNets : wpaNets[i] \in Ssids \cup {NoSsid}
  BY DEF Range
<1> QED BY <1>1, <1>2, <1>3 DEF WifiTypeOK, ProfilesOK, FlagsOK, MapOK, PanelOK

LEMMA WifiStart == WifiInit => WifiInv
<1> SUFFICES ASSUME WifiInit PROVE WifiInv
  OBVIOUS
<1>1. FlagsOK
  <2>1. adapter \in BOOLEAN /\ conn \in {FALSE, adapter}
    BY DEF WifiInit
  <2> QED BY <2>1, Zenon DEF FlagsOK
<1>2. ProfilesOK
  <2>1. PICK n \in 0 .. 1 : profiles \in [0 .. n - 1 -> Ssids]
    BY DEF WifiInit
  <2>2. DOMAIN profiles \subseteq 0 .. MaxId /\ \A i \in DOMAIN profiles : profiles[i] \in Ssids
    BY <2>1, WifiAssumption
  <2> QED BY <2>2 DEF WifiInit, ProfilesOK
<1>3. MapOK /\ PanelOK
  BY DEF WifiInit, MapOK, PanelOK, Parts
<1>4. WifiOK
  BY DEF WifiInit, WifiOK, ListedOK, InHand, BoxOK, SpinnerWillStop
<1> QED BY <1>1, <1>2, <1>3, <1>4 DEF WifiInv

\* A reply of LIST_NETWORKS adds to the map: a name it lacks gets the lowest
\* id of its profiles.
LEMMA RefilledIs ==
  ASSUME MapOK, NEW nets, DOMAIN nets \subseteq 0 .. MaxId,
         \A i \in DOMAIN nets : nets[i] \in Ssids \cup {NoSsid}
  PROVE  /\ DOMAIN Refilled(nets) \subseteq Ssids \cup {NoSsid}
         /\ \A s \in DOMAIN Refilled(nets) :
              \/ s \in DOMAIN list_networks /\ Refilled(nets)[s] = list_networks[s]
              \/ Refilled(nets)[s] \in DOMAIN nets /\ nets[Refilled(nets)[s]] = s
         /\ \A s \in DOMAIN Refilled(nets) : Refilled(nets)[s] \in 0 .. MaxId
<1>1. DOMAIN Refilled(nets) = DOMAIN list_networks \cup {nets[i] : i \in DOMAIN nets}
  BY DEF Refilled, Range
<1>2. ASSUME NEW s \in DOMAIN Refilled(nets), s \notin DOMAIN list_networks
      PROVE  Refilled(nets)[s] \in DOMAIN nets /\ nets[Refilled(nets)[s]] = s
  <2> DEFINE ids == {id \in DOMAIN nets : nets[id] = s}
  <2>1. ids \in SUBSET Nat /\ ids # {}
    BY <1>1, <1>2, WifiAssumption
  <2>2. Min(ids) \in ids
    BY <2>1, LeastIn
  <2>3. Refilled(nets)[s] = Min(ids)
    BY <1>1, <1>2 DEF Refilled, Range
  <2> QED BY <2>2, <2>3
<1>3. ASSUME NEW s \in DOMAIN list_networks PROVE Refilled(nets)[s] = list_networks[s]
  BY <1>1, <1>3 DEF Refilled, Range
<1> QED BY <1>1, <1>2, <1>3 DEF MapOK

\* Inserting a reply whose entries are right keeps the map right.
LEMMA RefillKeeps ==
  ASSUME WifiInv, NEW nets, DOMAIN nets \subseteq 0 .. MaxId,
         \A i \in DOMAIN nets : nets[i] \in Ssids \cup {NoSsid},
         \A i \in DOMAIN nets : EntryOK(nets[i], i)
  PROVE  /\ DOMAIN Refilled(nets) \subseteq Ssids \cup {NoSsid}
         /\ \A s \in DOMAIN Refilled(nets) :
              /\ Refilled(nets)[s] \in 0 .. MaxId
              /\ EntryOK(s, Refilled(nets)[s])
<1>1. MapOK /\ ListedOK
  BY DEF WifiInv, WifiOK
<1>2. DOMAIN Refilled(nets) \subseteq Ssids \cup {NoSsid}
  BY <1>1, RefilledIs
<1>3. ASSUME NEW s \in DOMAIN Refilled(nets)
      PROVE  /\ Refilled(nets)[s] \in 0 .. MaxId
             /\ EntryOK(s, Refilled(nets)[s])
  <2>1. /\ Refilled(nets)[s] \in 0 .. MaxId
        /\ \/ s \in DOMAIN list_networks /\ Refilled(nets)[s] = list_networks[s]
           \/ Refilled(nets)[s] \in DOMAIN nets /\ nets[Refilled(nets)[s]] = s
    BY <1>1, <1>3, RefilledIs
  <2> QED BY <1>1, <2>1 DEF ListedOK
<1> QED BY <1>2, <1>3

\* What a tap finds in the map is a profile of the network on the row.
LEMMA TapFinds == WifiInv => SelectsWhatWasTapped
<1> SUFFICES ASSUME WifiInv PROVE SelectsWhatWasTapped
  OBVIOUS
<1>1. /\ DOMAIN profiles \subseteq 0 .. MaxId
      /\ \A i \in DOMAIN profiles : profiles[i] \in Ssids \cup {NoSsid}
      /\ \A i \in DOMAIN profiles : EntryOK(profiles[i], i)
  BY DEF WifiInv, ProfilesOK, EntryOK
<1>2. \A s \in DOMAIN Refilled(profiles) : EntryOK(s, Refilled(profiles)[s])
  BY <1>1, RefillKeeps
<1> QED BY <1>2 DEF SelectsWhatWasTapped, EntryOK

\* The steps of the UI thread.
LEMMA WifiTouch ==
  ASSUME WifiInv,
         \/ foreground \/ handle_back_btn \/ TapReply \/ connect \/ Defocus
         \/ \E s \in Ssids : Tap(s) \/ LongPress(s)
         \/ \E ok \in BOOLEAN : remove_network(ok)
  PROVE  WifiInv'
<1>0. /\ ProfilesOK /\ FlagsOK /\ MapOK /\ PanelOK /\ WifiOK
      /\ ListedOK /\ InHand /\ BoxOK /\ SpinnerWillStop
  BY DEF WifiInv, WifiOK
<1> USE DEF supplicant, wpaHolds
<1>1. CASE foreground
  <2>1. FlagsOK' /\ ProfilesOK' /\ MapOK' /\ ListedOK' /\ InHand' /\ BoxOK'
    BY <1>0, <1>1 DEF foreground, FlagsOK, ProfilesOK, MapOK, ListedOK, EntryOK,
                      InHand, BoxOK
  <2>2. PanelOK'
    BY <1>0, <1>1 DEF foreground, PanelOK, Parts
  <2>3. SpinnerWillStop'
    BY <1>0, <1>1 DEF foreground, PanelOK, SpinnerWillStop
  <2> QED BY <2>1, <2>2, <2>3 DEF WifiInv, WifiOK
<1>2. CASE handle_back_btn \/ Defocus
  <2>1. FlagsOK' /\ ProfilesOK' /\ MapOK' /\ ListedOK' /\ InHand' /\ BoxOK'
    BY <1>0, <1>2 DEF handle_back_btn, Defocus, FlagsOK, ProfilesOK, MapOK, ListedOK,
                      EntryOK, InHand, BoxOK
  <2>2. PanelOK'
    BY <1>0, <1>2 DEF handle_back_btn, Defocus, PanelOK
  <2>3. SpinnerWillStop'
    BY <1>0, <1>2 DEF handle_back_btn, Defocus, SpinnerWillStop
  <2> QED BY <2>1, <2>2, <2>3 DEF WifiInv, WifiOK
<1>3. CASE TapReply
  <2>1. /\ uiPc' = "idle" /\ list_networks' = Refilled(profiles)
        /\ UNCHANGED <<adapter, conn, profiles, scan, events, wpaPc, wpaGot, wpaNets,
                       wifi_name_db, selected_network, wifi_table, msgbox, outdated>>
        /\ glass' \in {glass, glass \cup {"keyboard"}}
    BY <1>3 DEF TapReply
  <2>2. /\ DOMAIN profiles \subseteq 0 .. MaxId
        /\ \A i \in DOMAIN profiles : profiles[i] \in Ssids \cup {NoSsid}
        /\ \A i \in DOMAIN profiles : EntryOK(profiles[i], i)
    BY <1>0 DEF ProfilesOK, EntryOK
  <2>3. /\ DOMAIN Refilled(profiles) \subseteq Ssids \cup {NoSsid}
        /\ \A s \in DOMAIN Refilled(profiles) :
             /\ Refilled(profiles)[s] \in 0 .. MaxId
             /\ EntryOK(s, Refilled(profiles)[s])
    BY <2>2, RefillKeeps
  <2>4. MapOK' /\ ListedOK'
    BY <1>0, <2>1, <2>3 DEF MapOK, ListedOK, EntryOK
  <2>5. ProfilesOK'
    BY <1>0, <1>3 DEF TapReply, ProfilesOK
  <2>6. FlagsOK' /\ PanelOK' /\ InHand' /\ BoxOK' /\ SpinnerWillStop'
    BY <1>0, <2>1 DEF FlagsOK, PanelOK, Parts, InHand, BoxOK, SpinnerWillStop
  <2> QED BY <2>4, <2>5, <2>6 DEF WifiInv, WifiOK
<1>4. CASE connect
  <2> DEFINE ids == DOMAIN profiles \cup {NoId}
             id  == Max(ids) + 1
  <2>1. uiPc = "idle" /\ glass' = glass \ {"keyboard"}
        /\ UNCHANGED <<adapter, conn, scan, events, wpaPc, wpaGot, wpaNets, uiPc,
                       list_networks, wifi_name_db, selected_network, wifi_table,
                       msgbox, outdated>>
    BY <1>4 DEF connect
  <2>2. FlagsOK' /\ PanelOK' /\ SpinnerWillStop' /\ MapOK' /\ InHand' /\ BoxOK'
    BY <1>0, <2>1 DEF FlagsOK, PanelOK, Parts, SpinnerWillStop, MapOK, InHand, BoxOK
  <2>3. ProfilesOK' /\ ListedOK'
    <3>1. CASE UNCHANGED <<profiles, trying, current>>
      BY <1>0, <2>1, <3>1 DEF ProfilesOK, ListedOK, EntryOK
    <3>2. CASE /\ id <= MaxId
               /\ profiles' = [i \in DOMAIN profiles \cup {id} |->
                                 IF i = id THEN selected_network ELSE profiles[i]]
               /\ trying' = id /\ current' = NoId
      <4>1. ids \in SUBSET (-1 .. MaxId) /\ ids # {}
        BY <1>0, WifiAssumption DEF ProfilesOK, NoId
      <4>2. \A x \in DOMAIN profiles : x \in ids
        OBVIOUS
      <4> HIDE DEF ids
      <4>3. Max(ids) \in -1 .. MaxId /\ \A x \in ids : Max(ids) >= x
        BY <4>1, GreatestIn, WifiAssumption
      <4>4. id \in 0 .. MaxId
        BY <3>2, <4>3, WifiAssumption
      <4>5. id \notin ids
        BY <4>1, <4>3
      <4>6. selected_network \in Ssids \cup {NoSsid}
        BY <1>0 DEF PanelOK
      <4> HIDE DEF id
      <4>7. ProfilesOK'
        BY <1>0, <3>2, <4>4, <4>6 DEF ProfilesOK
      <4>8. \A x \in DOMAIN profiles : x \in DOMAIN profiles' /\ profiles'[x] = profiles[x]
        BY <3>2, <4>2, <4>5
      <4>9. ListedOK'
        BY <1>0, <2>1, <4>8 DEF ListedOK, EntryOK
      <4> QED BY <4>7, <4>9
    <3> QED BY <1>4, <3>1, <3>2 DEF connect
  <2> QED BY <2>2, <2>3 DEF WifiInv, WifiOK
<1>5. ASSUME NEW s \in Ssids, Tap(s) PROVE WifiInv'
  <2>1. FlagsOK' /\ ProfilesOK' /\ PanelOK' /\ SpinnerWillStop' /\ InHand' /\ BoxOK'
    BY <1>0, <1>5 DEF Tap, FlagsOK, ProfilesOK, PanelOK, SpinnerWillStop, InHand, BoxOK
  <2>2. MapOK' /\ ListedOK'
    BY <1>0, <1>5 DEF Tap, Emptied, MapOK, ListedOK, EntryOK
  <2> QED BY <2>1, <2>2 DEF WifiInv, WifiOK
<1>6. ASSUME NEW s \in Ssids, LongPress(s) PROVE WifiInv'
  <2>1. FlagsOK' /\ ProfilesOK' /\ MapOK' /\ ListedOK' /\ InHand' /\ SpinnerWillStop'
    BY <1>0, <1>6 DEF LongPress, FlagsOK, ProfilesOK, MapOK, ListedOK, EntryOK, InHand,
                      SpinnerWillStop
  <2>2. PanelOK' /\ BoxOK'
    BY <1>0, <1>6 DEF LongPress, PanelOK, BoxOK
  <2> QED BY <2>1, <2>2 DEF WifiInv, WifiOK
<1>7. ASSUME NEW ok \in BOOLEAN, remove_network(ok) PROVE WifiInv'
  <2>1. FlagsOK' /\ PanelOK' /\ InHand' /\ BoxOK' /\ SpinnerWillStop'
    BY <1>0, <1>7
    DEF remove_network, FlagsOK, PanelOK, InHand, BoxOK, SpinnerWillStop
  <2>2. ProfilesOK'
    BY <1>0, <1>7 DEF remove_network, ProfilesOK, Restrict
  <2>3. MapOK' /\ ListedOK'
    BY <1>0, <1>7 DEF remove_network, MapOK, ListedOK, EntryOK, Restrict
  <2> QED BY <2>1, <2>2, <2>3 DEF WifiInv, WifiOK
<1> QED BY <1>1, <1>2, <1>3, <1>4, <1>5, <1>6, <1>7

\* The steps of the wpa event thread.
LEMMA WifiEvent ==
  ASSUME WifiInv,
         \/ \E found \in Scans : ScanResults(found)
         \/ ConnectedEvent \/ WpaList \/ WpaFill \/ WpaDraw \/ FailedEvent
  PROVE  WifiInv'
<1>0. /\ ProfilesOK /\ FlagsOK /\ MapOK /\ PanelOK /\ WifiOK
      /\ ListedOK /\ InHand /\ BoxOK /\ SpinnerWillStop
  BY DEF WifiInv, WifiOK
<1> USE DEF supplicant, wpaHolds
<1>1. ASSUME NEW found \in Scans, ScanResults(found) PROVE WifiInv'
  <2>1. wpaNets = <<>>
    BY <1>0, <1>1 DEF ScanResults, InHand
  <2>2. FlagsOK' /\ ProfilesOK' /\ MapOK' /\ ListedOK' /\ InHand' /\ BoxOK'
    BY <1>0, <1>1, <2>1 DEF ScanResults, Emptied, FlagsOK, ProfilesOK, MapOK, ListedOK,
                            InHand, BoxOK
  <2>3. PanelOK' /\ SpinnerWillStop'
    BY <1>0, <1>1, WifiAssumption DEF ScanResults, PanelOK, SpinnerWillStop
  <2> QED BY <2>2, <2>3 DEF WifiInv, WifiOK
<1>2. CASE ConnectedEvent
  <2>1. wpaNets = <<>>
    BY <1>0, <1>2 DEF ConnectedEvent, InHand
  <2>2. FlagsOK' /\ ProfilesOK' /\ MapOK' /\ ListedOK' /\ InHand' /\ BoxOK'
    BY <1>0, <1>2, <2>1 DEF ConnectedEvent, Emptied, FlagsOK, ProfilesOK, MapOK,
                            ListedOK, InHand, BoxOK
  <2>3. PanelOK' /\ SpinnerWillStop'
    BY <1>0, <1>2 DEF ConnectedEvent, PanelOK, SpinnerWillStop
  <2> QED BY <2>2, <2>3 DEF WifiInv, WifiOK
<1>3. CASE WpaList
  <2>1. FlagsOK' /\ ProfilesOK' /\ MapOK' /\ BoxOK'
    BY <1>0, <1>3 DEF WpaList, FlagsOK, ProfilesOK, MapOK, BoxOK
  <2>2. ListedOK' /\ InHand'
    BY <1>0, <1>3 DEF WpaList, ListedOK, EntryOK, InHand
  <2>3. PanelOK' /\ SpinnerWillStop'
    BY <1>0, <1>3 DEF WpaList, PanelOK, SpinnerWillStop
  <2> QED BY <2>1, <2>2, <2>3 DEF WifiInv, WifiOK
<1>4. CASE WpaFill
  <2>1. /\ list_networks' = Refilled(wpaNets) /\ wpaNets' = <<>>
        /\ UNCHANGED <<profiles, outdated>>
    BY <1>4 DEF WpaFill
  <2>2. /\ DOMAIN Refilled(wpaNets) \subseteq Ssids \cup {NoSsid}
        /\ \A s \in DOMAIN Refilled(wpaNets) :
             /\ Refilled(wpaNets)[s] \in 0 .. MaxId
             /\ EntryOK(s, Refilled(wpaNets)[s])
    BY <1>0, RefillKeeps DEF MapOK, ListedOK
  <2>3. MapOK' /\ ListedOK'
    BY <1>0, <2>1, <2>2 DEF MapOK, ListedOK, EntryOK
  <2>4. FlagsOK' /\ ProfilesOK' /\ InHand' /\ BoxOK'
    BY <1>0, <1>4 DEF WpaFill, FlagsOK, ProfilesOK, InHand, BoxOK
  <2>5. PanelOK' /\ SpinnerWillStop'
    BY <1>0, <1>4 DEF WpaFill, PanelOK, SpinnerWillStop
  <2> QED BY <2>3, <2>4, <2>5 DEF WifiInv, WifiOK
<1>5. CASE WpaDraw
  <2>1. FlagsOK' /\ ProfilesOK' /\ MapOK' /\ ListedOK' /\ InHand' /\ BoxOK'
    BY <1>0, <1>5 DEF WpaDraw, FlagsOK, ProfilesOK, MapOK, ListedOK, EntryOK, InHand,
                      BoxOK
  <2>2. PanelOK'
    BY <1>0, <1>5 DEF WpaDraw, Draw, PanelOK, Parts
  <2>3. SpinnerWillStop'
    BY <1>5 DEF WpaDraw, Draw, SpinnerWillStop
  <2> QED BY <2>1, <2>2, <2>3 DEF WifiInv, WifiOK
<1>6. CASE FailedEvent
  <2>1. FlagsOK' /\ ProfilesOK' /\ MapOK' /\ ListedOK' /\ InHand' /\ BoxOK'
    BY <1>0, <1>6 DEF FailedEvent, FlagsOK, ProfilesOK, MapOK, ListedOK, EntryOK,
                      InHand, BoxOK
  <2>2. PanelOK' /\ SpinnerWillStop'
    BY <1>0, <1>6 DEF FailedEvent, PanelOK, Parts, SpinnerWillStop
  <2> QED BY <2>1, <2>2 DEF WifiInv, WifiOK
<1> QED BY <1>1, <1>2, <1>3, <1>4, <1>5, <1>6

\* The steps of wpa_supplicant.
LEMMA WifiSupplicant ==
  ASSUME WifiInv, WpaScanned \/ WpaScanFailed \/ WpaAssociated \/ WpaRefused
  PROVE  WifiInv'
<1>0. /\ ProfilesOK /\ FlagsOK /\ MapOK /\ PanelOK /\ WifiOK
      /\ ListedOK /\ InHand /\ BoxOK /\ SpinnerWillStop
  BY DEF WifiInv, WifiOK
<1>1. UNCHANGED <<Beyond, profiles>>
  BY DEF WpaScanned, WpaScanFailed, WpaAssociated, WpaRefused
<1>2. FlagsOK' /\ MapOK' /\ ListedOK' /\ InHand' /\ BoxOK'
  BY <1>0, <1>1 DEF Beyond, wpaHolds, FlagsOK, MapOK, ListedOK, EntryOK, InHand, BoxOK
<1>3. ProfilesOK'
  BY <1>0, <1>1 DEF WpaScanned, WpaScanFailed, WpaAssociated, WpaRefused, ProfilesOK
<1>4. PanelOK'
  BY <1>0, <1>1 DEF WpaScanned, WpaScanFailed, WpaAssociated, WpaRefused, Announce,
                    Beyond, wpaHolds, PanelOK
<1>5. SpinnerWillStop'
  BY <1>0, <1>1 DEF WpaScanned, WpaScanFailed, WpaAssociated, WpaRefused, Announce,
                    Beyond, SpinnerWillStop
<1> QED BY <1>2, <1>3, <1>4, <1>5 DEF WifiInv, WifiOK

LEMMA WifiStep == WifiInv /\ [WifiNext]_wifiVars => WifiInv'
<1> SUFFICES ASSUME WifiInv, [WifiNext]_wifiVars PROVE WifiInv'
  OBVIOUS
<1>1. CASE UNCHANGED wifiVars
  BY <1>1 DEF wifiVars, WifiInv, FlagsOK, ProfilesOK, MapOK, PanelOK, WifiOK, ListedOK,
              EntryOK, InHand, BoxOK, SpinnerWillStop
<1>2. CASE WifiNext
  BY <1>2, WifiTouch, WifiEvent, WifiSupplicant DEF WifiNext
<1> QED BY <1>1, <1>2

\* SELECT_NETWORK gets the id of a profile of the network that was tapped,
\* unless it was removed while the wpa thread held an older reply.
THEOREM TappedNetwork == WifiSpec => []SelectsWhatWasTapped
  BY WifiStart, WifiStep, TapFinds, PTL DEF WifiSpec

\* A step that takes a profile away is the confirm of its own message box.
LEMMA RemovalIsNamed ==
  WifiInv /\ [WifiNext]_wifiVars =>
    \A id \in DOMAIN profiles \ DOMAIN profiles' :
      id \in outdated \/ profiles[id] = msgbox
<1> SUFFICES ASSUME WifiInv, [WifiNext]_wifiVars,
                    NEW id \in DOMAIN profiles, id \notin DOMAIN profiles'
             PROVE  id \in outdated \/ profiles[id] = msgbox
  OBVIOUS
<1>1. ~(UNCHANGED profiles)
  OBVIOUS
<1>2. ~connect
  BY DEF connect
<1>3. PICK ok \in BOOLEAN : remove_network(ok)
  BY <1>1, <1>2
  DEF WifiNext, wifiVars, foreground, handle_back_btn, Tap, LongPress, TapReply, Defocus,
      ScanResults, ConnectedEvent, WpaList, WpaFill, WpaDraw, FailedEvent, WpaScanned,
      WpaScanFailed, WpaAssociated, WpaRefused, supplicant
<1>4. /\ msgbox # NoSsid /\ selected_network \in DOMAIN list_networks
      /\ id = list_networks[selected_network]
  BY <1>3 DEF remove_network, Restrict
<1>5. selected_network = msgbox /\ EntryOK(selected_network, id)
  BY <1>4 DEF WifiInv, WifiOK, BoxOK, ListedOK
<1> QED BY <1>5 DEF EntryOK

\* OK under "Delete ...?" removes a profile of the network it names or none,
\* whatever the wpa thread reloads between the long press and the confirm,
\* unless the id was removed since the map was read.
THEOREM NamedNetwork == WifiSpec => RemovesWhatWasNamed
<1>1. WifiInv /\ [WifiNext]_wifiVars =>
        [\A id \in DOMAIN profiles \ DOMAIN profiles' :
           id \in outdated \/ profiles[id] = msgbox]_wifiVars
  BY RemovalIsNamed
<1> QED BY <1>1, WifiStart, WifiStep, PTL DEF WifiSpec, RemovesWhatWasNamed

\* With the control socket open, the spinner of foreground() turns only
\* while a scan that will take it down is under way, or has failed.
THEOREM SpinnerStops == WifiSpec => []SpinnerWillStop
<1>1. WifiInv => SpinnerWillStop
  BY DEF WifiInv, WifiOK
<1> QED BY <1>1, WifiStart, WifiStep, PTL DEF WifiSpec
-----------------------------------------------------------------------------
(* The configuration reader *)

LEMMA LineIs ==
  ASSUME IniTypeOK, line <= Len(file)
  PROVE  /\ file[line].kind = "header" => file[line] \in Header
         /\ file[line].kind = "key" => file[line] \in Key
         /\ line + 1 \in 1 .. Len(file) + 1
<1>1. line \in 1 .. Len(file) /\ file[line] \in IniLine
  BY ElementOfSeq, LenProperties DEF IniTypeOK
<1>2. \A x \in Header : x.kind # "key"
  BY DEF Header
<1>3. \A x \in Key : x.kind # "header"
  BY DEF Key
<1>4. file[line].kind = "header" => file[line] \in Header
  BY <1>1, <1>3 DEF IniLine
<1>5. file[line].kind = "key" => file[line] \in Key
  BY <1>1, <1>2 DEF IniLine
<1>6. line + 1 \in 1 .. Len(file) + 1
  BY <1>1, LenProperties DEF IniTypeOK
<1> QED BY <1>4, <1>5, <1>6

LEMMA TypedValue == \A val \in Text : set_typed(val) \in Value1
  BY DEF set_typed, Value1, Text

LEMMA IniStart ==
  ASSUME NEW files, files \subseteq Seq(IniLine), IniInit(files)
  PROVE  IniTypeOK
<1>1. file \in Seq(IniLine) /\ Len(file) \in Nat
  BY LenProperties DEF IniInit
<1> QED BY <1>1 DEF IniInit, IniTypeOK, Value1

LEMMA IniFilesAreSeqs == IniFiles \subseteq Seq(IniLine)
<1>1. MaxLines \in Nat
  BY IniAssumption
<1>2. ASSUME NEW n \in 0 .. MaxLines PROVE [1 .. n -> IniLine] \subseteq Seq(IniLine)
  BY ONLY <1>1, <1>2, SeqDef
<1> QED BY <1>2 DEF IniFiles

LEMMA IniStep == IniTypeOK /\ [IniNext]_iniVars => IniTypeOK'
<1> SUFFICES ASSUME IniTypeOK, [IniNext]_iniVars PROVE IniTypeOK'
  OBVIOUS
<1>1. flush_group => DOMAIN out' = Names /\ cur_obj' \in Value1
  BY DEF IniTypeOK, flush_group, Value1
<1>2. CASE ReadHeader
  <2>1. /\ file[line] \in Header /\ line + 1 \in 1 .. Len(file) + 1
        /\ flush_group /\ OpenBlock(file[line])
        /\ loaded' \in {"threw", "reading"} /\ line' = line + 1 /\ file' = file
    BY <1>2, LineIs DEF ReadHeader
  <2>2. /\ file[line].name \in Names /\ file[line].id \in {Blank, "x"}
    BY <2>1 DEF Header
  <2>3. /\ cur_section' \in Names \cup {Blank} /\ cur_group' \in Names \cup {Blank}
        /\ cur_id' \in {Blank, "x"}
    BY <2>1, <2>2 DEF OpenBlock
  <2> QED BY <1>1, <2>1, <2>3 DEF IniTypeOK
<1>3. CASE ReadKey
  <2>1. /\ file[line] \in Key /\ line + 1 \in 1 .. Len(file) + 1
        /\ line' = line + 1
        /\ UNCHANGED <<file, cur_section, cur_group, cur_id>>
        /\ cur_obj' \in {cur_obj, set_typed(file[line].val)}
        /\ loaded' \in {"threw", loaded}
    BY <1>3, LineIs DEF ReadKey
  <2>2. set_typed(file[line].val) \in Value1
    BY <2>1, TypedValue DEF Key
  <2>3. DOMAIN out' = Names
    BY <1>3 DEF ReadKey, IniTypeOK
  <2> QED BY <2>1, <2>2, <2>3 DEF IniTypeOK
<1>4. CASE EndOfFile
  BY <1>1, <1>4 DEF EndOfFile, IniTypeOK
<1>5. CASE UNCHANGED iniVars
  BY <1>5 DEF iniVars, IniTypeOK
<1> QED BY <1>2, <1>3, <1>4, <1>5 DEF IniNext

\* The value of a block whose keys are the lines in s: the last of them sets it.
LastSets(s, v) ==
  \/ s = {} /\ v = Unset
  \/ \E i \in s : (\A j \in s : j <= i) /\ v = set_typed(file[i].val)

\* The keys of section n on the lines before l, and the members of group n
\* whose headers are before h.
KeysAbove(n, l)    == {i \in KeysOf(n) : i < l}
MembersAbove(n, h) == {i \in Members(n) : i < h}

\* The array of a group whose closed members are M: one item per header, in
\* file order, with the value of its own keys.
ItemsOK(q, M) ==
  /\ q \in Seq(Object) /\ Len(q) = Cardinality(M)
  /\ \A m \in M : LastSets(Under(m), q[Cardinality({i \in M : i <= m})].key)

\* The member n of out when the lines before l are read and the groups opened
\* before h are closed.
OutIs(o, n, h, l) ==
  LET K == KeysAbove(n, l)
      M == MembersAbove(n, h)
  IN \/ K = {} /\ M = {} /\ o = Nothing
     \/ M = {} /\ K # {} /\ \E v \in Value1 : LastSets(K, v) /\ o = Section(v)
     \/ /\ K = {} /\ M # {}
        /\ o.type = "array" /\ o = Group(o.items) /\ ItemsOK(o.items, M)

\* The block being read, opened at line h, or none.
BlockOK(h) ==
  /\ h \in Headers \cup {0} /\ h < line
  /\ \A j \in Headers : j < line => j <= h
  /\ h = 0 => cur_section = Blank /\ cur_group = Blank /\ cur_id = Blank
  /\ h # 0 =>
       /\ cur_section = IF file[h].group THEN Blank ELSE file[h].name
       /\ cur_group = IF file[h].group THEN file[h].name ELSE Blank
       /\ cur_id = file[h].id
       /\ InGroup => LastSets({i \in Under(h) : i < line}, cur_obj)

Clash == \E n \in Names : KeysOf(n) # {} /\ Members(n) # {}

IniInv ==
  /\ IniTypeOK
  /\ loaded = "reading" =>
       \E h \in 0 .. Len(file) :
         BlockOK(h) /\ \A n \in Names : OutIs(out[n], n, h, line)
  /\ loaded = "threw" => Clash
  /\ loaded = "done" =>
       /\ line = Len(file) + 1
       /\ \A n \in Names : OutIs(out[n], n, Len(file) + 1, line)

LEMMA FileKept ==
  ASSUME file' = file
  PROVE  /\ Headers' = Headers /\ \A n : KeysOf(n)' = KeysOf(n) /\ Members(n)' = Members(n)
         /\ \A h : Under(h)' = Under(h)
         /\ \A o, n, h, l : OutIs(o, n, h, l)' <=> OutIs(o, n, h, l)
<1>1. Headers' = Headers
  BY DEF Headers
<1>2. \A h : Under(h)' = Under(h)
  BY <1>1 DEF Under
<1>3. \A n : KeysOf(n)' = KeysOf(n) /\ Members(n)' = Members(n)
  BY <1>1, <1>2 DEF KeysOf, Members
<1>4. \A s, v : LastSets(s, v)' <=> LastSets(s, v)
  BY DEF LastSets
<1>5. \A q, M : ItemsOK(q, M)' <=> ItemsOK(q, M)
  BY <1>2, <1>4 DEF ItemsOK
<1>6. \A o, n, h, l : OutIs(o, n, h, l)' <=> OutIs(o, n, h, l)
  BY <1>3, <1>4, <1>5 DEF OutIs, KeysAbove, MembersAbove
<1> QED BY <1>1, <1>2, <1>3, <1>6

LEMMA FileIs ==
  ASSUME IniTypeOK
  PROVE  /\ Len(file) \in Nat /\ DOMAIN file = 1 .. Len(file)
         /\ line \in 1 .. Len(file) + 1
         /\ Headers \subseteq 1 .. Len(file) /\ IsFiniteSet(Headers)
         /\ \A h \in Headers : /\ file[h].name \in Names /\ file[h].name # Blank
                               /\ file[h].id \in {Blank, "x"}
                               /\ file[h].group \in BOOLEAN
         /\ \A i \in 1 .. Len(file) : file[i].kind = "key" => set_typed(file[i].val) \in Value1
<1>1. file \in Seq(IniLine) /\ Len(file) \in Nat /\ DOMAIN file = 1 .. Len(file)
      /\ line \in 1 .. Len(file) + 1
  BY LenProperties DEF IniTypeOK
<1>2. \A i \in 1 .. Len(file) : file[i] \in IniLine
  BY <1>1, ElementOfSeq
<1>3. \A x \in Header : x.kind # "key" /\ x.name \in Names /\ x.id \in {Blank, "x"}
  BY DEF Header
<1>4. \A x \in Header : x.group \in BOOLEAN
  BY Zenon DEF Header
<1>5. \A x \in Key : x.kind # "header" /\ x.val \in Text
  BY DEF Key
<1>6. \A x \in IniLine : /\ x.kind = "header" => x \in Header
                         /\ x.kind = "key" => x \in Key
  BY <1>3, <1>5 DEF IniLine
<1>7. Headers \subseteq 1 .. Len(file)
  BY <1>1 DEF Headers
<1>8. IsFiniteSet(Headers)
  <2>1. IsFiniteSet(1 .. Len(file))
    BY <1>1, FS_Interval
  <2> QED BY <1>7, <2>1, FS_Subset
<1>9. \A h \in Headers : file[h] \in Header
  BY <1>1, <1>2, <1>6 DEF Headers
<1>10. \A h \in Headers : file[h].group \in BOOLEAN
  BY <1>4, <1>9
<1>11. \A h \in Headers : /\ file[h].name \in Names /\ file[h].name # Blank
                          /\ file[h].id \in {Blank, "x"}
  BY <1>3, <1>9, IniAssumption DEF Blank
<1>12. \A i \in 1 .. Len(file) : file[i].kind = "key" => set_typed(file[i].val) \in Value1
  BY <1>2, <1>5, <1>6, TypedValue
<1> QED BY <1>1, <1>7, <1>8, <1>10, <1>11, <1>12

LEMMA KeyText ==
  ASSUME IniTypeOK, NEW h, NEW i \in Under(h)
  PROVE  file[i].val \in Text
<1>1. i \in 1 .. Len(file) /\ file[i].kind = "key"
  BY FileIs DEF Under
<1>2. file[i] \in IniLine
  BY <1>1, ElementOfSeq DEF IniTypeOK
<1>3. \A x \in Header : x.kind # "key"
  BY DEF Header
<1> QED BY <1>1, <1>2, <1>3 DEF IniLine, Key

\* A key line belongs to the one header above it.
LEMMA UnderIs ==
  ASSUME IniTypeOK, NEW h \in Headers
  PROVE  /\ Under(h) \subseteq 1 .. Len(file)
         /\ \A i \in Under(h) : i > h /\ i \notin Headers /\ file[i].kind = "key"
         /\ \A g \in Headers, i \in Under(h) : g > h => g > i
         /\ \A g \in Headers : Under(g) \cap Under(h) # {} => g = h
<1>1. Headers \subseteq 1 .. Len(file) /\ DOMAIN file = 1 .. Len(file) /\ Len(file) \in Nat
  BY FileIs
<1>2. /\ Under(h) \subseteq 1 .. Len(file)
      /\ \A i \in Under(h) : i > h /\ i \notin Headers /\ file[i].kind = "key"
  BY <1>1 DEF Under, Headers
<1>3. \A g \in Headers, i \in Under(h) : g > h => g > i
  BY <1>1 DEF Under
<1>4. ASSUME NEW g \in Headers, NEW i \in Under(g) \cap Under(h) PROVE g = h
  <2>1. i > g /\ i > h /\ (g <= h \/ g > i) /\ (h <= g \/ h > i)
    BY DEF Under
  <2> QED BY <1>1, <1>2, <2>1
<1> QED BY <1>2, <1>3, <1>4

\* Closing the open block before line l, a header or the end of the file:
\* a group with an id becomes the last item of its array.
LEMMA ItemAdded ==
  ASSUME IniTypeOK, NEW M, M \subseteq Headers, NEW h \in Headers, NEW q, ItemsOK(q, M),
         \A m \in M : m < h, NEW o \in Object, LastSets(Under(h), o.key)
  PROVE  ItemsOK(Append(q, o), M \cup {h})
<1> DEFINE N == M \cup {h}
           x == Append(q, o)
<1>1. Headers \subseteq 1 .. Len(file) /\ IsFiniteSet(Headers) /\ Len(file) \in Nat
  BY FileIs
<1>2. /\ IsFiniteSet(M) /\ h \notin M /\ M \subseteq Int /\ h \in Int
      /\ \A m \in N : m <= h
  <2>1. IsFiniteSet(M)
    BY <1>1, FS_Subset
  <2>2. M \subseteq Int /\ h \in Int
    BY <1>1
  <2>3. h \notin M /\ \A m \in N : m <= h
    BY <2>2
  <2> QED BY <2>1, <2>2, <2>3
<1>3. Cardinality(M) \in Nat /\ Cardinality(N) = Cardinality(M) + 1
  BY <1>2, FS_CardinalityType, FS_AddElement
<1>4. q \in Seq(Object) /\ Len(q) = Cardinality(M)
  BY DEF ItemsOK
<1>5. /\ x \in Seq(Object) /\ Len(x) = Cardinality(M) + 1
      /\ x[Cardinality(M) + 1] = o
      /\ \A i \in 1 .. Cardinality(M) : x[i] = q[i]
  BY <1>4, AppendProperties
<1>6. ASSUME NEW m \in M
      PROVE  LastSets(Under(m), x[Cardinality({i \in N : i <= m})].key)
  <2> DEFINE R == {i \in M : i <= m}
  <2>1. {i \in N : i <= m} = R
    BY <1>2
  <2>2. R \subseteq M /\ m \in R
    BY <1>2
  <2>3. IsFiniteSet(R) /\ Cardinality(R) <= Cardinality(M)
    BY <1>2, <2>2, FS_Subset
  <2>4. Cardinality(R) \in Nat /\ Cardinality(R) # 0
    BY <2>2, <2>3, FS_CardinalityType, FS_EmptySet
  <2>5. LastSets(Under(m), q[Cardinality(R)].key)
    BY DEF ItemsOK
  <2> HIDE DEF R, x, N
  <2>6. Cardinality(R) \in 1 .. Cardinality(M)
    BY <1>3, <2>3, <2>4
  <2>7. x[Cardinality(R)] = q[Cardinality(R)]
    BY <1>5, <2>6
  <2> QED BY <2>1, <2>5, <2>7
<1>7. {i \in N : i <= h} = N
  BY <1>2
<1> HIDE DEF N, x
<1>8. LastSets(Under(h), x[Cardinality({i \in N : i <= h})].key)
  BY <1>3, <1>5, <1>7
<1>9. \A m \in N : m \in M \/ m = h
  BY DEF N
<1>10. Len(x) = Cardinality(N) /\ x \in Seq(Object)
  BY <1>3, <1>5
<1> QED BY <1>6, <1>8, <1>9, <1>10 DEF ItemsOK, N, x

LEMMA OpenGroup ==
  ASSUME IniTypeOK, NEW h, BlockOK(h), InGroup
  PROVE  h # 0 /\ h \in Headers /\ cur_group \in Names /\ file[h].group
  BY FileIs DEF BlockOK, InGroup

\* The members of a group before this line, when the open block is at h.
LEMMA BlockCloses ==
  ASSUME IniTypeOK, NEW h, BlockOK(h), NEW n \in Names
  PROVE  /\ h # 0 /\ InGroup /\ n = cur_group =>
              MembersAbove(n, line) = MembersAbove(n, h) \cup {h} /\ h \in Members(n)
         /\ ~(h # 0 /\ InGroup /\ n = cur_group) =>
              MembersAbove(n, line) = MembersAbove(n, h)
<1>1. Headers \subseteq 1 .. Len(file) /\ Len(file) \in Nat /\ line \in 1 .. Len(file) + 1
  BY FileIs
<1>2. h \in Headers \cup {0} /\ h < line /\ \A j \in Headers : j < line => j <= h
  BY DEF BlockOK
<1>3. Members(n) \subseteq Headers
  BY DEF Members
<1>4. \A i \in Members(n) : i < line <=> i < h \/ i = h
  <2>0. \A i \in 1 .. Len(file) + 1 : i \in Int
    BY <1>1
  <2>1. h \in Int /\ line \in Int /\ \A i \in Members(n) : i \in Int
    <3>1. \A i \in Headers : i \in Int
      BY <1>1
    <3>2. line \in Int
      BY <1>1, <2>0
    <3>3. h \in Int
      BY ONLY <1>2, <3>1
    <3> QED BY <1>3, <3>1, <3>2, <3>3
  <2>2. \A i \in Members(n) : i < line => i <= h
    BY <1>2, <1>3
  <2> QED BY ONLY <1>2, <2>1, <2>2
<1>6. h # 0 => (h \in Members(n) <=> InGroup /\ n = cur_group)
  BY <1>2, FileIs DEF BlockOK, InGroup, Members
<1>7. 0 \notin Members(n)
  BY <1>1, <1>3
<1> QED BY <1>4, <1>6, <1>7 DEF MembersAbove

\* Nothing closes, but the lines up to l hold no more keys.
LEMMA SameOut ==
  ASSUME NEW o, NEW n, NEW h, NEW g, NEW k, NEW l, OutIs(o, n, h, k),
         MembersAbove(n, g) = MembersAbove(n, h), KeysAbove(n, l) = KeysAbove(n, k)
  PROVE  OutIs(o, n, g, l)
  BY DEF OutIs

\* flush_group at line l, which is a header or the end of the file.
LEMMA Flushed ==
  ASSUME IniTypeOK, NEW h, BlockOK(h), flush_group,
         line \in Headers \/ line = Len(file) + 1,
         \A n \in Names : OutIs(out[n], n, h, line)
  PROVE  /\ FlushThrows => Clash
         /\ ~FlushThrows => \A n \in Names : OutIs(out'[n], n, line, line)
<1>1. Headers \subseteq 1 .. Len(file) /\ Len(file) \in Nat /\ line \in 1 .. Len(file) + 1
  BY FileIs
<1>2. h \in Headers \cup {0} /\ h < line /\ \A j \in Headers : j < line => j <= h
  BY DEF BlockOK
<1>3. ASSUME FlushThrows PROVE Clash
  <2>1. InGroup /\ h # 0 /\ cur_group \in Names /\ h \in Members(cur_group)
        /\ out[cur_group].type = "object"
    BY <1>3, OpenGroup, BlockCloses DEF FlushThrows
  <2>2. OutIs(out[cur_group], cur_group, h, line)
    BY <2>1
  <2>3. KeysAbove(cur_group, line) # {}
    BY <2>1, <2>2 DEF OutIs, Nothing
  <2> QED BY <2>1, <2>3 DEF Clash, KeysAbove
<1>4. ASSUME ~FlushThrows, NEW n \in Names PROVE OutIs(out'[n], n, line, line)
  <2>1. CASE ~(InGroup /\ n = cur_group)
    <3>1. MembersAbove(n, line) = MembersAbove(n, h)
      BY <2>1, BlockCloses
    <3>2. out'[n] = out[n]
      BY <2>1 DEF flush_group, IniTypeOK
    <3> QED BY <3>1, <3>2, SameOut
  <2>2. CASE InGroup /\ n = cur_group
    <3> DEFINE o == [id |-> cur_id, key |-> cur_obj]
               M == MembersAbove(n, h)
               N == MembersAbove(n, line)
    <3>1. /\ h # 0 /\ N = M \cup {h} /\ h \in Headers /\ M \subseteq Headers
          /\ \A m \in M : m < h
      BY <1>2, <2>2, OpenGroup, BlockCloses DEF MembersAbove, Members
    <3>2. o \in Object
      BY DEF IniTypeOK, Object
    <3>3. LastSets(Under(h), o.key)
      <4>1. LastSets({i \in Under(h) : i < line}, cur_obj)
        BY <2>2, <3>1 DEF BlockOK
      <4>2. \A i \in Under(h) : i < line
        BY <1>1, <1>2, <3>1, UnderIs
      <4>3. {i \in Under(h) : i < line} = Under(h)
        BY <4>2
      <4> QED BY <4>1, <4>3
    <3>4. OutIs(out[n], n, h, line) /\ out[n].type # "object"
      BY <1>4, <2>2 DEF FlushThrows
    <3>5. KeysAbove(n, line) = {}
      <4>1. \A v : Section(v).type = "object"
        BY DEF Section
      <4> QED BY <3>4, <4>1 DEF OutIs
    <3>6. CASE M = {}
      <4>1. out[n] = Nothing
        BY <3>4, <3>5, <3>6 DEF OutIs
      <4>2. out'[n] = Group(<<o>>)
        BY <2>2, <3>4, <4>1 DEF flush_group, IniTypeOK
      <4>3. ItemsOK(<<>>, M)
        <5>1. Cardinality({}) = 0
          BY FS_EmptySet, Zenon
        <5> QED BY <3>6, <5>1 DEF ItemsOK
      <4>4. ItemsOK(Append(<<>>, o), N)
        <5> HIDE DEF M, N, o
        <5>1. ItemsOK(Append(<<>>, o), M \cup {h})
          BY <3>1, <3>2, <3>3, <4>3, ItemAdded
        <5> QED BY <3>1, <5>1
      <4>5. Append(<<>>, o) = <<o>>
        OBVIOUS
      <4>6. out'[n].type = "array" /\ out'[n].items = <<o>>
        BY <4>2 DEF Group
      <4> QED BY <3>1, <3>5, <4>2, <4>4, <4>5, <4>6 DEF OutIs
    <3>7. CASE M # {}
      <4>1. out[n].type = "array" /\ out[n] = Group(out[n].items) /\ ItemsOK(out[n].items, M)
        BY <3>4, <3>5, <3>7 DEF OutIs
      <4>2. out[n] # Nothing
        BY <4>1 DEF Nothing
      <4>3. out'[n] = Group(Append(out[n].items, o))
        BY <2>2, <3>4, <4>2 DEF flush_group, IniTypeOK
      <4>4. ItemsOK(Append(out[n].items, o), N)
        BY <3>1, <3>2, <3>3, <4>1, ItemAdded
      <4>5. out'[n].type = "array" /\ out'[n].items = Append(out[n].items, o)
        BY <4>3 DEF Group
      <4> QED BY <3>1, <3>5, <4>3, <4>4, <4>5 DEF OutIs
    <3> QED BY <3>6, <3>7
  <2> QED BY <2>1, <2>2
<1> QED BY <1>3, <1>4

\* The state after a line, seen from the state before it.
LEMMA NowReading ==
  ASSUME IniTypeOK', file' = file, loaded' = "reading",
         NEW g \in 0 .. Len(file), g \in Headers \cup {0}, g < line',
         \A j \in Headers : j < line' => j <= g,
         g = 0 => cur_section' = Blank /\ cur_group' = Blank /\ cur_id' = Blank,
         g # 0 => /\ cur_section' = IF file[g].group THEN Blank ELSE file[g].name
                  /\ cur_group' = IF file[g].group THEN file[g].name ELSE Blank
                  /\ cur_id' = file[g].id
                  /\ InGroup' => LastSets({i \in Under(g) : i < line'}, cur_obj'),
         \A n \in Names : OutIs(out'[n], n, g, line')
  PROVE  IniInv'
<1>1. \A n \in Names : OutIs(out[n], n, g, line)'
  BY FileKept
<1>2. Headers' = Headers /\ Under(g)' = Under(g)
  BY FileKept
<1>3. g # 0 /\ InGroup' => LastSets({i \in Under(g) : i < line}, cur_obj)'
  BY <1>2 DEF LastSets
<1>4. BlockOK(g)'
  BY <1>2, <1>3 DEF BlockOK
<1> QED BY <1>1, <1>4 DEF IniInv

\* Where the open block is.
LEMMA BlockFacts ==
  ASSUME IniTypeOK, NEW h, BlockOK(h)
  PROVE  /\ h \in Int /\ line \in Int /\ line >= 1 /\ h < line /\ h >= 0
         /\ h # 0 => h \in Headers
         /\ \A j \in Headers : j \in Int /\ j >= 1 /\ (j < line => j <= h)
<1>1. Headers \subseteq 1 .. Len(file) /\ Len(file) \in Nat /\ line \in 1 .. Len(file) + 1
  BY FileIs
<1>2. h \in Headers \cup {0} /\ h < line /\ \A j \in Headers : j < line => j <= h
  BY DEF BlockOK
<1>3. \A j \in Headers : j \in Int /\ j >= 1
  BY <1>1
<1>4. line \in Int /\ line >= 1
  BY <1>1
<1>5. h \in Int /\ h >= 0
  BY ONLY <1>2, <1>3
<1> QED BY <1>2, <1>3, <1>4, <1>5

\* A header line is no key.
LEMMA HeaderKeys ==
  ASSUME IniTypeOK, line \in Headers, NEW n
  PROVE  KeysAbove(n, line + 1) = KeysAbove(n, line)
<1>1. Headers \subseteq 1 .. Len(file) /\ Len(file) \in Nat
  BY FileIs
<1>2. KeysOf(n) \subseteq 1 .. Len(file) /\ line \notin KeysOf(n)
  BY UnderIs DEF KeysOf
<1>3. \A i \in KeysOf(n) : i < line + 1 <=> i < line
  BY <1>1, <1>2
<1> QED BY <1>3 DEF KeysAbove

LEMMA ReadHeaderStep ==
  ASSUME IniInv, ReadHeader PROVE IniInv'
<1>0. IniTypeOK /\ IniTypeOK'
  BY IniStep DEF IniInv, IniNext
<1>1. /\ loaded = "reading" /\ line \in Headers /\ flush_group /\ OpenBlock(file[line])
      /\ loaded' = IF FlushThrows THEN "threw" ELSE "reading"
      /\ line' = line + 1 /\ file' = file /\ cur_obj' = Unset
  BY <1>0, FileIs DEF ReadHeader, Headers, flush_group
<1>2. PICK h \in 0 .. Len(file) : BlockOK(h) /\ \A n \in Names : OutIs(out[n], n, h, line)
  BY <1>1 DEF IniInv
<1>3. /\ FlushThrows => Clash
      /\ ~FlushThrows => \A n \in Names : OutIs(out'[n], n, line, line)
  BY <1>0, <1>1, <1>2, Flushed
<1>4. Clash' <=> Clash
  BY <1>1, FileKept DEF Clash
<1>5. CASE FlushThrows
  BY <1>0, <1>1, <1>3, <1>4, <1>5 DEF IniInv
<1>6. CASE ~FlushThrows
  <2>1. \A n \in Names : OutIs(out'[n], n, line, line + 1)
    BY <1>0, <1>1, <1>3, <1>6, HeaderKeys, SameOut
  <2>3. Headers \subseteq 1 .. Len(file) /\ Len(file) \in Nat
    BY <1>0, FileIs
  <2>4. line \in Int /\ line \in 1 .. Len(file) /\ line # 0
    BY <1>1, <2>3
  <2>5. \A j \in Headers : j < line + 1 => j <= line
    BY <2>3, <2>4
  <2>6. {i \in Under(line) : i < line + 1} = {}
    <3>1. \A i \in Under(line) : i > line /\ i \in 1 .. Len(file)
      BY <1>0, <1>1, UnderIs
    <3>2. \A i \in Under(line) : ~(i < line + 1)
      BY <2>3, <2>4, <3>1
    <3> QED BY <3>2
  <2>7. LastSets({i \in Under(line) : i < line + 1}, Unset)
    BY <2>6 DEF LastSets
  <2>8. InGroup' => LastSets({i \in Under(line) : i < line'}, cur_obj')
    BY <1>1, <2>7
  <2>9. /\ line \in 0 .. Len(file) /\ line < line' /\ loaded' = "reading"
        /\ \A j \in Headers : j < line' => j <= line
        /\ \A n \in Names : OutIs(out'[n], n, line, line')
    BY <1>1, <1>6, <2>1, <2>3, <2>4, <2>5
  <2>10. /\ cur_section' = IF file[line].group THEN Blank ELSE file[line].name
         /\ cur_group' = IF file[line].group THEN file[line].name ELSE Blank
         /\ cur_id' = file[line].id
    BY <1>1 DEF OpenBlock
  <2> QED BY <1>0, <1>1, <2>4, <2>8, <2>9, <2>10, NowReading
<1> QED BY <1>5, <1>6

\* A key line belongs to the open block and to no other.
LEMMA KeyBelongs ==
  ASSUME IniTypeOK, NEW h, BlockOK(h), line <= Len(file), file[line].kind = "key"
  PROVE  /\ line \notin Headers
         /\ h # 0 => line \in Under(h)
         /\ \A g \in Headers : line \in Under(g) => g = h
         /\ h # 0 => {i \in Under(h) : i < line + 1} = {i \in Under(h) : i < line} \cup {line}
<1>1. Len(file) \in Nat /\ DOMAIN file = 1 .. Len(file)
  BY FileIs
<1>2. /\ h \in Int /\ line \in Int /\ line >= 1 /\ h < line /\ h >= 0
      /\ h # 0 => h \in Headers
      /\ \A j \in Headers : j \in Int /\ j >= 1 /\ (j < line => j <= h)
  BY BlockFacts
<1>3. line \in DOMAIN file
  BY <1>1, <1>2
<1>4. line \notin Headers
  BY DEF Headers
<1>5. \A j \in Headers : j <= h \/ j > line
  BY ONLY <1>2, <1>4
<1>6. h # 0 => line \in Under(h)
  BY <1>2, <1>3, <1>5 DEF Under
<1>7. ASSUME NEW g \in Headers, line \in Under(g) PROVE g = h
  <2>1. line > g /\ \A j \in Headers : j <= g \/ j > line
    BY <1>7 DEF Under
  <2>2. g \in Int /\ g >= 1 /\ g <= h /\ h # 0 /\ h \in Headers
    BY <1>2, <2>1
  <2>3. h <= g \/ h > line
    BY <2>1, <2>2
  <2> QED BY ONLY <1>2, <2>2, <2>3
<1>8. ASSUME h # 0
      PROVE  {i \in Under(h) : i < line + 1} = {i \in Under(h) : i < line} \cup {line}
  <2>1. \A i \in Under(h) : i \in Int
    BY <1>1 DEF Under
  <2>2. \A i \in Under(h) : i < line + 1 <=> i < line \/ i = line
    BY ONLY <1>2, <2>1
  <2>3. line \in Under(h)
    BY <1>6, <1>8
  <2> QED BY <2>2, <2>3
<1> QED BY <1>4, <1>6, <1>7, <1>8

\* The keys of a section, one line on.
LEMMA KeysGrow ==
  ASSUME IniTypeOK, NEW h, BlockOK(h), line <= Len(file), file[line].kind = "key",
         NEW n \in Names
  PROVE  /\ h # 0 /\ ~file[h].group /\ file[h].name = n =>
              KeysAbove(n, line + 1) = KeysAbove(n, line) \cup {line} /\ line \in KeysOf(n)
         /\ ~(h # 0 /\ ~file[h].group /\ file[h].name = n) =>
              KeysAbove(n, line + 1) = KeysAbove(n, line)
<1>1. Len(file) \in Nat /\ DOMAIN file = 1 .. Len(file) /\ line \in Int
  BY FileIs, BlockFacts
<1>2. /\ h # 0 => line \in Under(h) /\ h \in Headers
      /\ \A g \in Headers : line \in Under(g) => g = h
  BY KeyBelongs, BlockFacts
<1>3. 0 \notin Headers
  BY BlockFacts
<1>4. line \in KeysOf(n) <=> h # 0 /\ ~file[h].group /\ file[h].name = n
  BY <1>2, <1>3 DEF KeysOf
<1>5. \A i \in KeysOf(n) : i \in Int
  BY <1>1 DEF KeysOf, Under
<1>6. \A i \in KeysOf(n) : i < line + 1 <=> i < line \/ i = line
  BY ONLY <1>1, <1>5
<1> QED BY <1>4, <1>6 DEF KeysAbove

\* The line just read is the last one.
LEMMA LastIsNew ==
  ASSUME NEW s, \A i \in s : i \in Int /\ i < line, line \in Int
  PROVE  LastSets(s \cup {line}, set_typed(file[line].val))
<1>1. \A j \in s \cup {line} : j <= line
  OBVIOUS
<1> QED BY <1>1 DEF LastSets

LEMMA ReadKeyStep ==
  ASSUME IniInv, ReadKey PROVE IniInv'
<1>0. IniTypeOK /\ IniTypeOK'
  BY IniStep DEF IniInv, IniNext
<1> DEFINE v == set_typed(file[line].val)
<1>1. /\ loaded = "reading" /\ line <= Len(file) /\ file[line].kind = "key"
      /\ line' = line + 1 /\ UNCHANGED <<file, cur_section, cur_group, cur_id>>
  BY DEF ReadKey
<1>2. PICK h \in 0 .. Len(file) : BlockOK(h) /\ \A n \in Names : OutIs(out[n], n, h, line)
  BY <1>1 DEF IniInv
<1>3. /\ h \in Int /\ line \in Int /\ line >= 1 /\ h < line /\ h >= 0
      /\ h # 0 => h \in Headers
      /\ \A j \in Headers : j \in Int /\ j >= 1 /\ (j < line => j <= h)
  BY <1>0, <1>2, BlockFacts
<1>4. line \notin Headers
  BY <1>0, <1>1, <1>2, KeyBelongs
<1>5. h < line' /\ \A j \in Headers : j < line' => j <= h
  <2>1. \A j \in Headers : j # line
    BY <1>4
  <2> QED BY ONLY <1>1, <1>3, <2>1
<1>6. /\ h = 0 => cur_section' = Blank /\ cur_group' = Blank /\ cur_id' = Blank
      /\ h # 0 => /\ cur_section' = IF file[h].group THEN Blank ELSE file[h].name
                  /\ cur_group' = IF file[h].group THEN file[h].name ELSE Blank
                  /\ cur_id' = file[h].id
      /\ InGroup' <=> InGroup
  BY <1>1, <1>2 DEF BlockOK, InGroup
<1>7. v \in Value1
  BY <1>0, <1>1, <1>3, FileIs
<1>8. h # 0 => file[h].name \in Names /\ file[h].name # Blank
  BY <1>0, <1>3, FileIs
<1>9. CASE InGroup
  <2>1. cur_obj' = v /\ UNCHANGED <<out, loaded>>
    BY <1>9 DEF ReadKey
  <2>2. h # 0 /\ h \in Headers /\ file[h].group
    BY <1>0, <1>2, <1>9, OpenGroup
  <2>3. LastSets({i \in Under(h) : i < line}  \cup {line}, v)
    <3>1. \A i \in Under(h) : i \in Int
      BY <1>0, <2>2, UnderIs
    <3> QED BY <1>3, <3>1, LastIsNew
  <2>4. LastSets({i \in Under(h) : i < line'}, cur_obj')
    BY <1>0, <1>1, <1>2, <2>1, <2>2, <2>3, KeyBelongs
  <2>5. \A n \in Names : OutIs(out'[n], n, h, line')
    BY <1>0, <1>1, <1>2, <2>1, <2>2, KeysGrow, SameOut
  <2> QED BY <1>0, <1>1, <1>2, <1>3, <1>5, <1>6, <2>1, <2>4, <2>5, NowReading
<1>10. CASE ~InGroup /\ cur_section = Blank
  <2>1. UNCHANGED <<out, loaded>>
    BY <1>10 DEF ReadKey
  <2>2. h # 0 => file[h].group
    BY <1>1, <1>6, <1>8, <1>10
  <2>3. \A n \in Names : OutIs(out'[n], n, h, line')
    BY <1>0, <1>1, <1>2, <2>1, <2>2, KeysGrow, SameOut
  <2> QED BY <1>0, <1>1, <1>2, <1>3, <1>5, <1>6, <1>10, <2>1, <2>3, NowReading
<1>11. CASE ~InGroup /\ cur_section # Blank
  <2> DEFINE c == cur_section
  <2>1. h # 0 /\ ~file[h].group /\ file[h].name = c /\ c \in Names
    BY <1>1, <1>6, <1>8, <1>11
  <2>2. KeysAbove(c, line + 1) = KeysAbove(c, line) \cup {line} /\ line \in KeysOf(c)
    BY <1>0, <1>1, <1>2, <2>1, KeysGrow
  <2>3. OutIs(out[c], c, h, line)
    BY <1>2, <2>1
  <2>4. \A w : Section(w).type = "object"
    BY DEF Section
  <2>5. CASE out[c].type = "array"
    <3>1. loaded' = "threw"
      BY <1>11, <2>5 DEF ReadKey
    <3>2. MembersAbove(c, h) # {}
      BY <2>3, <2>4, <2>5 DEF OutIs, Nothing
    <3>3. Clash
      BY <2>1, <2>2, <3>2 DEF Clash, MembersAbove
    <3>4. Clash'
      BY <1>1, <3>3, FileKept DEF Clash
    <3> QED BY <1>0, <3>1, <3>4 DEF IniInv
  <2>6. CASE out[c].type # "array"
    <3>1. out' = [out EXCEPT ![c] = Section(v)] /\ loaded' = loaded
      BY <1>11, <2>6 DEF ReadKey
    <3>2. MembersAbove(c, h) = {}
      BY <2>3, <2>6 DEF OutIs
    <3>3. LastSets(KeysAbove(c, line + 1), v)
      <4>1. \A i \in KeysAbove(c, line) : i \in Int /\ i < line
        <5>1. KeysOf(c) \subseteq 1 .. Len(file)
          BY <1>0, UnderIs DEF KeysOf
        <5> QED BY <1>0, <5>1, FileIs DEF KeysAbove
      <4> QED BY <1>3, <2>2, <4>1, LastIsNew
    <3>4. out'[c] = Section(v) /\ \A n \in Names \ {c} : out'[n] = out[n]
      BY <1>0, <2>1, <3>1 DEF IniTypeOK
    <3>5. OutIs(out'[c], c, h, line')
      BY <1>1, <1>7, <2>2, <3>2, <3>3, <3>4 DEF OutIs
    <3>6. \A n \in Names \ {c} : OutIs(out'[n], n, h, line')
      BY <1>0, <1>1, <1>2, <2>1, <3>4, KeysGrow, SameOut
    <3>7. \A n \in Names : OutIs(out'[n], n, h, line')
      BY <3>5, <3>6
    <3> QED BY <1>0, <1>1, <1>2, <1>3, <1>5, <1>6, <1>11, <3>1, <3>7, NowReading
  <2> QED BY <2>5, <2>6
<1> QED BY <1>9, <1>10, <1>11

LEMMA EndOfFileStep ==
  ASSUME IniInv, EndOfFile PROVE IniInv'
<1>0. IniTypeOK /\ IniTypeOK'
  BY IniStep DEF IniInv, IniNext
<1>1. /\ loaded = "reading" /\ line = Len(file) + 1 /\ flush_group
      /\ loaded' = IF FlushThrows THEN "threw" ELSE "done"
      /\ line' = line /\ file' = file
  BY DEF EndOfFile
<1>2. PICK h \in 0 .. Len(file) : BlockOK(h) /\ \A n \in Names : OutIs(out[n], n, h, line)
  BY <1>1 DEF IniInv
<1>3. /\ FlushThrows => Clash
      /\ ~FlushThrows => \A n \in Names : OutIs(out'[n], n, line, line)
  BY <1>0, <1>1, <1>2, Flushed
<1>4. CASE FlushThrows
  <2>1. Clash'
    BY <1>1, <1>3, <1>4, FileKept DEF Clash
  <2> QED BY <1>0, <1>1, <1>4, <2>1 DEF IniInv
<1>5. CASE ~FlushThrows
  <2>1. \A n \in Names : OutIs(out'[n], n, Len(file') + 1, line')
    BY <1>1, <1>3, <1>5
  <2>2. \A n \in Names : OutIs(out[n], n, Len(file) + 1, line)'
    BY <1>1, <2>1, FileKept
  <2> QED BY <1>0, <1>1, <1>5, <2>2 DEF IniInv
<1> QED BY <1>4, <1>5

LEMMA IniInvStart ==
  ASSUME NEW files, files \subseteq Seq(IniLine), IniInit(files)
  PROVE  IniInv
<1>1. IniTypeOK
  BY IniStart
<1>2. Headers \subseteq 1 .. Len(file) /\ Len(file) \in Nat
  BY <1>1, FileIs
<1>3. /\ line = 1 /\ cur_section = Blank /\ cur_group = Blank /\ cur_id = Blank
      /\ loaded = "reading" /\ \A n \in Names : out[n] = Nothing
  BY DEF IniInit
<1>4. BlockOK(0)
  BY <1>2, <1>3 DEF BlockOK
<1>5. ASSUME NEW n \in Names PROVE OutIs(out[n], n, 0, line)
  <2>1. KeysOf(n) \subseteq 1 .. Len(file) /\ Members(n) \subseteq 1 .. Len(file)
    BY <1>1, <1>2, UnderIs DEF KeysOf, Members
  <2>2. KeysAbove(n, line) = {} /\ MembersAbove(n, 0) = {}
    BY <1>2, <1>3, <2>1 DEF KeysAbove, MembersAbove
  <2> QED BY <1>3, <2>2 DEF OutIs
<1>6. 0 \in 0 .. Len(file)
  BY <1>2
<1> QED BY <1>1, <1>3, <1>4, <1>5, <1>6 DEF IniInv

LEMMA IniInvStep == IniInv /\ [IniNext]_iniVars => IniInv'
<1> SUFFICES ASSUME IniInv, [IniNext]_iniVars PROVE IniInv'
  OBVIOUS
<1>1. CASE UNCHANGED iniVars
  <2>1. /\ file' = file /\ line' = line /\ out' = out /\ loaded' = loaded
        /\ cur_section' = cur_section /\ cur_group' = cur_group
        /\ cur_id' = cur_id /\ cur_obj' = cur_obj
    BY <1>1 DEF iniVars
  <2>2. IniTypeOK'
    BY IniStep DEF IniInv
  <2>3. CASE loaded = "reading"
    <3>1. PICK h \in 0 .. Len(file) : BlockOK(h) /\ \A n \in Names : OutIs(out[n], n, h, line)
      BY <2>3 DEF IniInv
    <3>2. \A n \in Names : OutIs(out'[n], n, h, line')
      BY <2>1, <3>1
    <3>3. h # 0 /\ InGroup' => LastSets({i \in Under(h) : i < line'}, cur_obj')
      BY <2>1, <3>1 DEF BlockOK, InGroup
    <3> QED BY <2>1, <2>2, <2>3, <3>1, <3>2, <3>3, NowReading DEF BlockOK
  <2>4. CASE loaded = "threw"
    <3>1. Clash'
      BY <2>1, <2>4, FileKept DEF IniInv, Clash
    <3> QED BY <2>1, <2>2, <2>4, <3>1 DEF IniInv
  <2>5. CASE loaded = "done"
    <3>1. line = Len(file) + 1 /\ \A n \in Names : OutIs(out'[n], n, Len(file') + 1, line')
      BY <2>1, <2>5 DEF IniInv
    <3>2. \A n \in Names : OutIs(out[n], n, Len(file) + 1, line)'
      BY <2>1, <3>1, FileKept
    <3> QED BY <2>1, <2>2, <2>5, <3>1, <3>2 DEF IniInv
  <2> QED BY <2>3, <2>4, <2>5 DEF IniInv, IniTypeOK
<1> QED BY <1>1, ReadHeaderStep, ReadKeyStep, EndOfFileStep DEF IniNext

\* The largest line of a set is its Latest.
LEMMA LatestIs ==
  ASSUME NEW s, s \subseteq Int, NEW i \in s, \A j \in s : j <= i
  PROVE  Latest(s) = i
<1>1. \A x \in s : (\A j \in s : j <= x) => x = i
  OBVIOUS
<1> QED BY <1>1 DEF Latest

LEMMA LastSetsLatest ==
  ASSUME NEW s, s \subseteq Int, NEW v, LastSets(s, v)
  PROVE  v = IF s = {} THEN Unset ELSE set_typed(file[Latest(s)].val)
<1>1. CASE s = {}
  BY <1>1 DEF LastSets
<1>2. CASE s # {}
  <2>1. PICK i \in s : (\A j \in s : j <= i) /\ v = set_typed(file[i].val)
    BY <1>2 DEF LastSets
  <2>2. Latest(s) = i
    BY <2>1, LatestIs
  <2> QED BY <1>2, <2>1, <2>2
<1> QED BY <1>1, <1>2

\* When all is read, out is the document.
LEMMA DocumentRead ==
  ASSUME IniInv, loaded = "done", NEW n \in Names
  PROVE  /\ KeysOf(n) = {} \/ Members(n) = {}
         /\ KeysOf(n) # {} =>
              LET val == file[Latest(KeysOf(n))].val IN
                /\ out[n].type = "object" /\ out[n].key.is = val
                /\ val = "txt" => get("string", n) = val /\ get("int", n) = "default"
                /\ val = "7" => get("int", n) = val /\ get("string", n) = "default"
         /\ KeysOf(n) = {} => \A type \in {"int", "string"} : get(type, n) = "default"
         /\ Members(n) # {} =>
              /\ Len(out[n].items) = Cardinality(Members(n))
              /\ \A h \in Members(n) :
                   LET o == out[n].items[Cardinality({i \in Members(n) : i <= h})]
                   IN o.key.is = IF Under(h) = {} THEN Blank
                                 ELSE file[Latest(Under(h))].val
<1>1. IniTypeOK /\ line = Len(file) + 1 /\ OutIs(out[n], n, Len(file) + 1, line)
  BY DEF IniInv
<1>2. Headers \subseteq 1 .. Len(file) /\ Len(file) \in Nat
  BY <1>1, FileIs
<1>3. KeysOf(n) \subseteq 1 .. Len(file) /\ Members(n) \subseteq Headers
  BY <1>1, UnderIs DEF KeysOf, Members
<1>4. KeysAbove(n, line) = KeysOf(n) /\ MembersAbove(n, Len(file) + 1) = Members(n)
  <2>1. \A i \in 1 .. Len(file) : i < Len(file) + 1
    BY <1>2
  <2>2. \A i \in KeysOf(n) : i < line
    BY <1>1, <1>3, <2>1
  <2>3. \A i \in Members(n) : i < Len(file) + 1
    BY <1>2, <1>3, <2>1
  <2> QED BY <2>2, <2>3 DEF KeysAbove, MembersAbove
<1>5. KeysOf(n) = {} \/ Members(n) = {}
  BY <1>1, <1>4 DEF OutIs
<1>6. ASSUME KeysOf(n) # {}
      PROVE  LET val == file[Latest(KeysOf(n))].val IN
               /\ out[n].type = "object" /\ out[n].key.is = val
               /\ val = "txt" => get("string", n) = val /\ get("int", n) = "default"
               /\ val = "7" => get("int", n) = val /\ get("string", n) = "default"
  <2>1. PICK v \in Value1 : LastSets(KeysOf(n), v) /\ out[n] = Section(v)
    BY <1>1, <1>4, <1>6 DEF OutIs
  <2> DEFINE k == Latest(KeysOf(n))
             val == file[k].val
  <2>2. PICK i \in KeysOf(n) : \A j \in KeysOf(n) : j <= i
    BY <1>6, <2>1 DEF LastSets
  <2>3. k \in KeysOf(n)
    BY <1>3, <2>2, LatestIs
  <2>4. v = set_typed(val)
    BY <1>3, <1>6, <2>1, LastSetsLatest
  <2> HIDE DEF k
  <2>6. out[n].type = "object" /\ out[n].key = set_typed(val)
    BY <2>1, <2>4 DEF Section
  <2>7. /\ val = "7" => set_typed(val).type = "int"
        /\ val = "txt" => set_typed(val).type = "string"
        /\ set_typed(val).is = val
    BY DEF set_typed
  <2>8. /\ out[n].type = "object" /\ out[n].key.is = val
        /\ val = "txt" => get("string", n) = val /\ get("int", n) = "default"
        /\ val = "7" => get("int", n) = val /\ get("string", n) = "default"
    BY <2>6, <2>7 DEF get
  <2> QED BY <2>8 DEF k
<1>7. ASSUME KeysOf(n) = {}
      PROVE  \A type \in {"int", "string"} : get(type, n) = "default"
  BY <1>1, <1>4, <1>7 DEF OutIs, get, Nothing
<1>8. ASSUME Members(n) # {}
      PROVE  /\ Len(out[n].items) = Cardinality(Members(n))
             /\ \A h \in Members(n) :
                  LET o == out[n].items[Cardinality({i \in Members(n) : i <= h})]
                  IN o.key.is = IF Under(h) = {} THEN Blank
                                ELSE file[Latest(Under(h))].val
  <2>1. ItemsOK(out[n].items, Members(n))
    BY <1>1, <1>4, <1>5, <1>8 DEF OutIs
  <2>2. ASSUME NEW h \in Members(n)
        PROVE  out[n].items[Cardinality({i \in Members(n) : i <= h})].key.is =
                 IF Under(h) = {} THEN Blank ELSE file[Latest(Under(h))].val
    <3>1. LastSets(Under(h), out[n].items[Cardinality({i \in Members(n) : i <= h})].key)
      BY <2>1 DEF ItemsOK
    <3>2. Under(h) \subseteq Int
      BY <1>1, <1>3, UnderIs
    <3>3. out[n].items[Cardinality({i \in Members(n) : i <= h})].key =
            IF Under(h) = {} THEN Unset ELSE set_typed(file[Latest(Under(h))].val)
      BY <3>1, <3>2, LastSetsLatest
    <3>4. Unset.is = Blank /\ \A val : set_typed(val).is = val
      BY DEF Unset, set_typed
    <3> QED BY <3>3, <3>4
  <2> QED BY <2>1, <2>2 DEF ItemsOK
<1> QED BY <1>5, <1>6, <1>7, <1>8

LEMMA IniReads == IniInv => IniReadsBack
  BY DocumentRead DEF IniInv, IniReadsBack, Clash

\* load_ini keeps every line in its own block, for files of any length: a
\* section key reads back as the last line that sets it, a group header with an
\* id is one member of its array with its own keys, in file order, and only a
\* name used both as a section and as a group throws. How 0 and 1 are typed is
\* left open.
THEOREM IniRoundTrip == IniSpec => []IniReadsBack
<1>1. IniInit(IniFiles) => IniInv
  BY IniFilesAreSeqs, IniInvStart
<1> QED BY <1>1, IniReads, IniInvStep, PTL DEF IniSpec
-----------------------------------------------------------------------------
(* The thumbnail path *)

\* The picture is what get_thumbnail made of the names the row was given.
ThumbInv ==
  /\ gcode_file \in Seq(Chars) /\ relative_path \in Seq(Chars)
  /\ thumb \in {Unread, get_thumbnail}

LEMMA JoinedIs ==
  ASSUME gcode_file \in Seq(Chars), relative_path \in Seq(Chars)
  PROVE  Joined \in Seq(Chars) /\ Len(Joined) >= Len(relative_path)
<1> DEFINE cuts == {i \in DOMAIN gcode_file : gcode_file[i] \in Slash}
<1>1. Directory(gcode_file) \in Seq(Chars)
  <2>1. CASE cuts = {}
    BY <2>1 DEF Directory
  <2>2. CASE cuts # {}
    <3>1. Len(gcode_file) \in Nat /\ cuts \subseteq -1 .. Len(gcode_file)
      OBVIOUS
    <3>2. Max(cuts) \in cuts
      BY <2>2, <3>1, GreatestIn
    <3>3. Max(cuts) \in 1 .. Len(gcode_file)
      BY <3>2
    <3> DEFINE last == Max(cuts)
    <3> HIDE DEF last
    <3>4. last \in 1 .. Len(gcode_file) /\ 1 \in 1 .. Len(gcode_file) + 1
      BY <3>3 DEF last
    <3>5. SubSeq(gcode_file, 1, last) \in Seq(Chars)
      BY <3>4, SubSeqProperties
    <3> QED BY <2>2, <3>5 DEF Directory, last
  <2> QED BY <2>1, <2>2
<1>2. Len(Joined) = Len(Directory(gcode_file)) + Len(relative_path)
  BY <1>1 DEF Joined
<1>3. Len(Directory(gcode_file)) \in Nat /\ Len(relative_path) \in Nat
  BY <1>1
<1> QED BY <1>1, <1>2, <1>3 DEF Joined

\* Every piece between slashes that is ".." is one between separators of
\* either kind, so the guard's loop has met it.
LEMMA ParentIsMet ==
  ASSUME NEW p \in Seq(Chars), NEW b \in Pieces(p, {"/"}), IsParent(p, b)
  PROVE  b \in Pieces(p, Slash)
<1>1. b[1] \in Int /\ b[2] = b[1] + 1 /\ p[b[1]] = "." /\ p[b[2]] = "."
  BY DEF Pieces, IsParent
<1>2. \A i \in b[1] .. b[2] : i = b[1] \/ i = b[2]
  BY <1>1
<1>3. \A i \in b[1] .. b[2] : p[i] \notin Slash
  BY <1>1, <1>2 DEF Slash
<1> QED BY <1>3 DEF Pieces, Slash

\* A path the guard takes has no way up, so no prefix of it leaves the root.
LEMMA GuardContains ==
  ASSUME NEW p \in Seq(Chars), safe_thumb_path(p)
  PROVE  StaysBelow(p)
<1>1. Opened(p) = p
  <2>1. {i \in DOMAIN p : p[i] = NUL} = {}
    BY DEF safe_thumb_path, Range
  <2> QED BY <2>1 DEF Opened
<1>2. ASSUME NEW k \in 1 .. Len(p)
      PROVE  Cardinality({b \in Pieces(p, {"/"}) : IsParent(p, b) /\ b[2] <= k})
               <= Cardinality({b \in Pieces(p, {"/"}) : IsName(p, b) /\ b[2] <= k})
  <2> DEFINE ups == {b \in Pieces(p, {"/"}) : IsParent(p, b) /\ b[2] <= k}
             names == {b \in Pieces(p, {"/"}) : IsName(p, b) /\ b[2] <= k}
             spans == (1 .. Len(p) + 1) \X (0 .. Len(p))
  <2>1. ups = {}
    BY ParentIsMet DEF safe_thumb_path
  <2>2. Cardinality({}) = 0
    BY FS_EmptySet, Zenon
  <2>3. IsFiniteSet(1 .. Len(p) + 1) /\ IsFiniteSet(0 .. Len(p))
    BY FS_Interval
  <2>4. IsFiniteSet(spans)
    BY <2>3, FS_Product
  <2>5. names \subseteq spans
    BY DEF Pieces
  <2>6. IsFiniteSet(names)
    BY <2>4, <2>5, FS_Subset
  <2>7. Cardinality(names) \in Nat
    BY <2>6, FS_CardinalityType
  <2> HIDE DEF ups, names
  <2>8. Cardinality(ups) <= Cardinality(names)
    BY ONLY <2>1, <2>2, <2>7
  <2> QED BY <2>8 DEF ups, names
<1> QED BY <1>1, <1>2 DEF StaysBelow

LEMMA GuardTakesPlain ==
  ASSUME NEW p \in Seq(Chars), p # <<>>, Plain(p)
  PROVE  safe_thumb_path(p)
<1>1. \A i \in 1 .. Len(p) : p[i] \in {"a", "/"}
  BY DEF Plain, Range
<1>2. Head(p) = "a" /\ Len(p) <= PathCap
  BY <1>1 DEF Plain
<1>3. NUL \notin Range(p)
  BY DEF Plain, NUL
<1>4. \A b \in Pieces(p, Slash) : ~IsParent(p, b)
  <2> SUFFICES ASSUME NEW b \in Pieces(p, Slash), IsParent(p, b) PROVE FALSE
    OBVIOUS
  <2>1. b[1] \in 1 .. Len(p) /\ p[b[1]] = "."
    BY DEF Pieces, IsParent
  <2> QED BY <1>1, <2>1
<1> QED BY <1>2, <1>3, <1>4 DEF safe_thumb_path, Slash

LEMMA ThumbStart ==
  ASSUME NEW gs \in SUBSET Seq(Chars), NEW rs \in SUBSET Seq(Chars)
  PROVE  ThumbInit(gs, rs) => ThumbInv
  BY DEF ThumbInit, ThumbInv

LEMMA RelativesAreSeqs == Relative \subseteq Seq(Chars)
<1> SUFFICES ASSUME NEW r \in Relative PROVE r \in Seq(Chars)
  OBVIOUS
<1>1. PICK n \in 0 .. MaxRelative : r \in [1 .. n -> Chars]
  BY DEF Relative
<1> QED BY <1>1, ThumbAssumption

LEMMA ThumbStep == ThumbInv /\ [ThumbNext]_thumbVars => ThumbInv'
<1> SUFFICES ASSUME ThumbInv, [ThumbNext]_thumbVars PROVE ThumbInv'
  OBVIOUS
<1>1. UNCHANGED <<gcode_file, relative_path>> /\ thumb' \in {thumb, get_thumbnail}
  BY DEF ThumbNext, ShowThumb, thumbVars
<1>2. get_thumbnail' = get_thumbnail
  BY <1>1 DEF get_thumbnail, Joined
<1> QED BY <1>1, <1>2 DEF ThumbInv

LEMMA ThumbContained == ThumbInv => ThumbStaysInside
<1> SUFFICES ASSUME ThumbInv, thumb = get_thumbnail PROVE ThumbStaysInside
  BY DEF ThumbInv, ThumbStaysInside
<1>1. Joined \in Seq(Chars) /\ (relative_path # <<>> => Joined # <<>>)
  BY JoinedIs DEF ThumbInv
<1>2. StaysBelow(thumb)
  <2>1. CASE thumb = NoThumb
    <3>1. Opened(<<>>) = <<>>
      BY DEF Opened
    <3> QED BY <2>1, <3>1 DEF StaysBelow, NoThumb
  <2>2. CASE thumb # NoThumb
    BY <1>1, <2>2, GuardContains DEF get_thumbnail
  <2> QED BY <2>1, <2>2
<1>3. relative_path # <<>> /\ Plain(Joined) => thumb = Joined
  BY <1>1, GuardTakesPlain DEF get_thumbnail
<1> QED BY <1>2, <1>3 DEF ThumbStaysInside

\* Lexical containment for paths of any length: whatever the metadata and the
\* gcode path say, what get_thumbnail hands to LVGL lies below the gcodes root
\* (safe_thumb_path, path_guard.h), and a plain relative path keeps its picture.
THEOREM ThumbContainment == ThumbSpec => []ThumbStaysInside
<1>1. ThumbInit(GcodeFiles, Relative) => ThumbInv
  BY ThumbAssumption, RelativesAreSeqs, ThumbStart
<1> QED BY <1>1, ThumbContained, ThumbStep, PTL DEF ThumbSpec
-----------------------------------------------------------------------------
(* The composition *)

ScreensInv ==
  /\ part \in {"files", "wifi", "prompt", "thumb", "ini", "gate"}
  /\ FilesInv /\ WifiInv /\ PromptInv /\ IniInv /\ ThumbInv /\ IInv
  /\ part = "thumb" => ThumbTypeOK

LEMMA ScreensStart == ScreensInit => ScreensInv
<1> SUFFICES ASSUME ScreensInit PROVE ScreensInv
  OBVIOUS
<1>1. FilesInv /\ WifiInv /\ PromptInv /\ IInv
  BY FilesStart, WifiStart, PromptStart, InitIInv DEF ScreensInit
<1>2. IniInv
  <2>1. {<<>>} \subseteq Seq(IniLine)
    OBVIOUS
  <2>2. IniInit(IniFiles) \/ IniInit({<<>>})
    BY DEF ScreensInit
  <2> QED BY <2>1, <2>2, IniFilesAreSeqs, IniInvStart
<1>3. part = "thumb" => ThumbTypeOK
  BY DEF ScreensInit, ThumbInit, ThumbTypeOK
<1>4. ThumbInv
  <2>1. {<<"a">>} \subseteq Seq(Chars) /\ {<<>>} \subseteq Seq(Chars)
    BY DEF Chars
  <2>2. ThumbInit(GcodeFiles, Relative) \/ ThumbInit({<<"a">>}, {<<>>})
    BY DEF ScreensInit
  <2> QED BY <2>1, <2>2, ThumbAssumption, RelativesAreSeqs, ThumbStart
<1> QED BY <1>1, <1>2, <1>3, <1>4 DEF ScreensInit, ScreensInv

\* Each screen takes one of its own steps or none.
LEMMA ScreensStep == ScreensInv /\ [ScreensNext]_screensVars => ScreensInv'
<1> SUFFICES ASSUME ScreensInv, [ScreensNext]_screensVars PROVE ScreensInv'
  OBVIOUS
<1>1. /\ [FilesNext]_filesVars /\ [WifiNext]_wifiVars /\ [PromptNext]_promptVars
      /\ [IniNext]_iniVars /\ [ThumbNext]_thumbVars /\ [GateNext]_gateVars
      /\ part' = part
  BY DEF ScreensNext, screensVars
<1>2. FilesInv' /\ WifiInv' /\ PromptInv' /\ IniInv' /\ ThumbInv' /\ IInv'
  BY <1>1, FilesStep, WifiStep, PromptStep, IniInvStep, ThumbStep, StepIInv
  DEF ScreensInv
<1>3. UNCHANGED <<gcode_file, relative_path>>
  BY DEF ScreensNext, screensVars, thumbVars, ThumbNext, ShowThumb
<1>4. ThumbTypeOK => ThumbTypeOK'
  BY <1>3 DEF ThumbTypeOK
<1> QED BY <1>1, <1>2, <1>4 DEF ScreensInv

\* The members of the screens keep their types, whichever of them runs.
THEOREM ScreensTypeCorrect == ScreensSpec => []ScreensTypeOK
<1>1. ScreensInv => FilesTypeOK /\ WifiTypeOK /\ PromptTypeOK /\ GateTypeOK
  BY TypeParts, WifiParts, TypeHalves DEF ScreensInv, FilesInv, WifiInv, PromptInv, IInv
<1>2. ScreensInv => ScreensTypeOK
  BY <1>1 DEF ScreensInv, IniInv, ScreensTypeOK
<1> QED BY <1>2, ScreensStart, ScreensStep, PTL DEF ScreensSpec

\* What is proved of each screen holds in the composition that TLC runs.
THEOREM ScreensAreRight ==
  ScreensSpec => [](/\ MetaOnOwnRow /\ StartsWhatWasTapped
                    /\ SelectsWhatWasTapped /\ SpinnerWillStop /\ PromptIsWhole
                    /\ IniReadsBack /\ ThumbStaysInside)
<1>1. ScreensInv => /\ MetaOnOwnRow /\ StartsWhatWasTapped
                    /\ SelectsWhatWasTapped /\ SpinnerWillStop /\ PromptIsWhole
  BY TapFinds DEF ScreensInv, FilesInv, WifiInv, WifiOK, PromptInv
<1>2. ScreensInv => IniReadsBack /\ ThumbStaysInside
  BY IniReads, ThumbContained DEF ScreensInv
<1> QED BY <1>1, <1>2, ScreensStart, ScreensStep, PTL DEF ScreensSpec
=============================================================================
