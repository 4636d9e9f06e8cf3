----------------------------- MODULE WifiPanel ------------------------------
(***************************************************************************)
(* The Wi-Fi panel (wifi_panel.cpp) on the UI thread and on the wpa event  *)
(* thread (wpa_event.cpp), and the wpa_supplicant both talk to. The two    *)
(* threads share list_networks without a lock: find_current_network()      *)
(* empties the map, waits for the reply of LIST_NETWORKS, and inserts what *)
(* it says. On the wpa thread these are three steps, with the UI thread    *)
(* free to run between any two. The UI thread's own reply, insert and      *)
(* lookup are one: only that thread adds and removes profiles. The wpa     *)
(* thread draws under lv_lock, which the UI thread holds for the whole of  *)
(* a handler. cur_network is read right after it is refilled and needs no  *)
(* variable.                                                               *)
(***************************************************************************)
EXTENDS Integers, FiniteSets, Functions, FiniteSetsExt

CONSTANTS Ssids,  \* the networks of the neighbourhood
          Scans,  \* the sets of them that a scan may find
          MaxId,  \* bound: network ids of wpa_supplicant
          MaxEvents \* bound: events waiting on the monitor socket

ASSUME WifiAssumption ==
  MaxId \in Nat /\ MaxEvents \in Nat /\ Scans \subseteq SUBSET Ssids

VARIABLES
  adapter,       \* there is a control socket (get_wifi_interface)
  conn,          \* init_wpa opened it and attached to its events
  profiles,      \* wpa_supplicant: configured networks, id -> ssid
  current,       \* wpa_supplicant: the id marked [CURRENT]
  trying,        \* wpa_supplicant: the id it is to associate with
  scan,          \* wpa_supplicant: a scan is "running", the last one asked for
                 \* "failed" (or SCAN was refused), or "none" of these
  events,        \* its events on the monitor socket
  wpaPc, wpaGot, \* the wpa thread: where it is, the scan results it holds
  wpaNets,       \* and the reply of LIST_NETWORKS it has yet to insert
  uiPc,          \* the UI thread: in handle_callback, waiting for LIST_NETWORKS
  list_networks, wifi_name_db, selected_network,
  wifi_table,    \* the names on its rows
  glass,         \* what of the panel is not hidden
  msgbox,        \* the network named by "Delete ...?", or NoSsid
  outdated       \* ids removed since the map, or wpaNets, was read

wifiVars == <<adapter, conn, profiles, current, trying, scan, events, wpaPc,
              wpaGot, wpaNets, uiPc, list_networks, wifi_name_db,
              selected_network, wifi_table, glass, msgbox, outdated>>
supplicant == <<profiles, current, trying, scan, events>>
wpaHolds   == <<wpaGot, wpaNets>>

NoSsid == "none"
NoId   == -1
Parts  == {"panel", "spinner", "table", "keyboard"}

WifiTypeOK ==
  /\ adapter \in BOOLEAN /\ conn \in BOOLEAN
  /\ DOMAIN profiles \subseteq 0 .. MaxId
  /\ Range(profiles) \subseteq Ssids \cup {NoSsid}
  /\ current \in DOMAIN profiles \cup {NoId}
  /\ trying \in DOMAIN profiles \cup {NoId}
  /\ scan \in {"none", "running", "failed"}
  /\ events \subseteq {"scan", "connected", "failed"}
  /\ wpaPc \in {"idle", "scan_list", "scan_fill", "scan_draw",
                "conn_list", "conn_fill", "none_fill", "conn_draw"}
  /\ uiPc \in {"idle", "list"}
  /\ wpaGot \subseteq Ssids /\ wifi_name_db \subseteq Ssids
  /\ DOMAIN wpaNets \subseteq 0 .. MaxId
  /\ Range(wpaNets) \subseteq Ssids \cup {NoSsid}
  /\ DOMAIN list_networks \subseteq Ssids \cup {NoSsid}
  /\ Range(list_networks) \subseteq 0 .. MaxId
  /\ selected_network \in Ssids \cup {NoSsid}
  /\ wifi_table \subseteq Ssids /\ glass \subseteq Parts
  /\ msgbox \in Ssids \cup {NoSsid} /\ outdated \subseteq 0 .. MaxId

(* wpa_supplicant may come with profiles and a connection; init_wpa is     *)
(* tried once, and may have been too early.                                *)
WifiInit ==
  /\ adapter \in BOOLEAN /\ conn \in {FALSE, adapter}
  /\ profiles \in UNION {[0 .. n - 1 -> Ssids] : n \in 0 .. 1}
  /\ current \in DOMAIN profiles \cup {NoId} /\ trying = NoId
  /\ scan = "none" /\ events = {} /\ wpaPc = "idle" /\ wpaGot = {}
  /\ wpaNets = <<>> /\ uiPc = "idle" /\ list_networks = <<>>
  /\ wifi_name_db = {} /\ selected_network = NoSsid /\ wifi_table = {}
  /\ glass = {"spinner"} /\ msgbox = NoSsid /\ outdated = {}
-----------------------------------------------------------------------------
(* find_current_network(): the map is emptied, then filled from the reply, *)
(* an ssid it has by then keeping its id. LIST_NETWORKS is in id order.    *)
KeptEntries == list_networks

Emptied == <<>>

Refilled(nets) ==
  [s \in DOMAIN list_networks \cup Range(nets) |->
     IF s \in DOMAIN list_networks THEN list_networks[s]
     ELSE Min({id \in DOMAIN nets : nets[id] = s})]

CurrentSsid == IF current = NoId THEN NoSsid ELSE profiles[current]

(* foreground(), of the More menu or of the Refresh button: an adapter is  *)
(* asked to scan, else the panel says there is none. The answer to SCAN is *)
(* discarded: it may be a refusal.                                         *)
foreground ==
  /\ uiPc = "idle" /\ msgbox = NoSsid
  /\ IF adapter
     THEN /\ glass' = glass \cup {"panel", "spinner"}
          /\ scan' \in IF conn /\ scan # "running" THEN {"running", "failed"}
                      ELSE {scan}
     ELSE /\ glass' = (glass \ {"spinner", "table"}) \cup {"panel"}
          /\ UNCHANGED scan
  /\ UNCHANGED <<adapter, conn, profiles, current, trying, events, wpaPc,
                 wpaHolds, uiPc, list_networks, wifi_name_db, selected_network,
                 wifi_table, msgbox, outdated>>

handle_back_btn ==
  /\ uiPc = "idle" /\ msgbox = NoSsid /\ "panel" \in glass
  /\ glass' = glass \ {"panel", "table"}
  /\ UNCHANGED <<adapter, conn, supplicant, wpaPc, wpaHolds, uiPc,
                 list_networks, wifi_name_db, selected_network, wifi_table,
                 msgbox, outdated>>

Touchable(s) == uiPc = "idle" /\ {"panel", "table"} \subseteq glass /\ s \in wifi_table

(* handle_callback, LV_EVENT_VALUE_CHANGED: as far as LIST_NETWORKS. The   *)
(* finger that raised the message box still ends its touch on the row.     *)
Tap(s) ==
  /\ Touchable(s) /\ msgbox \in {NoSsid, s}
  /\ selected_network' = s
  /\ list_networks' = Emptied
  /\ outdated' = outdated \cap DOMAIN wpaNets
  /\ uiPc' = "list"
  /\ UNCHANGED <<adapter, conn, supplicant, wpaPc, wpaHolds, wifi_name_db,
                 wifi_table, glass, msgbox>>

(* The rest of it: the network in use is described, a known one selected,  *)
(* the password of any other asked for.                                    *)
TapReply ==
  /\ uiPc = "list"
  /\ uiPc' = "idle"
  /\ list_networks' = Refilled(profiles)
  /\ \/ /\ CurrentSsid = selected_network
        /\ UNCHANGED <<supplicant, glass>>
     \/ /\ CurrentSsid # selected_network
        /\ selected_network \in DOMAIN Refilled(profiles)
        /\ LET id == Refilled(profiles)[selected_network] IN
             /\ trying' = IF id \in DOMAIN profiles THEN id ELSE trying
             /\ current' = IF id \in DOMAIN profiles THEN NoId ELSE current
        /\ UNCHANGED <<profiles, scan, events, glass>>
     \/ /\ CurrentSsid # selected_network
        /\ selected_network \notin DOMAIN Refilled(profiles)
        /\ glass' = glass \cup {"keyboard"}
        /\ UNCHANGED supplicant
  /\ UNCHANGED <<adapter, conn, wpaPc, wpaHolds, wifi_name_db, selected_network,
                 wifi_table, msgbox, outdated>>

(* handle_callback, LV_EVENT_LONG_PRESSED.                                 *)
LongPress(s) ==
  /\ Touchable(s) /\ msgbox = NoSsid
  /\ selected_network' = s
  /\ msgbox' = IF s \in DOMAIN list_networks THEN s ELSE NoSsid
  /\ UNCHANGED <<adapter, conn, supplicant, wpaPc, wpaHolds, uiPc,
                 list_networks, wifi_name_db, wifi_table, glass, outdated>>

(* The message box is answered; the id is looked up now, and a map that a  *)
(* rescan has emptied has none. The map is not reloaded, before or after.  *)
remove_network(ok) ==
  /\ uiPc = "idle" /\ msgbox # NoSsid
  /\ msgbox' = NoSsid
  /\ IF ok /\ selected_network \in DOMAIN list_networks
     THEN LET id == list_networks[selected_network] IN
          /\ profiles' = Restrict(profiles, DOMAIN profiles \ {id})
          /\ current' = IF current = id THEN NoId ELSE current
          /\ trying' = IF trying = id THEN NoId ELSE trying
          /\ outdated' = outdated \cup {id}
     ELSE UNCHANGED <<profiles, current, trying, outdated>>
  /\ UNCHANGED <<adapter, conn, scan, events, wpaPc, wpaHolds, uiPc,
                 list_networks, wifi_name_db, selected_network, wifi_table,
                 glass>>

(* handle_kb_input, LV_EVENT_READY with a password typed, and connect().   *)
(* wpa_supplicant gives a new profile the id after its highest.            *)
connect ==
  /\ uiPc = "idle" /\ msgbox = NoSsid /\ {"panel", "keyboard"} \subseteq glass
  /\ glass' = glass \ {"keyboard"}
  /\ LET id == Max(DOMAIN profiles \cup {NoId}) + 1 IN
       IF conn
       THEN /\ id <= MaxId
            /\ profiles' = [i \in DOMAIN profiles \cup {id} |->
                              IF i = id THEN selected_network ELSE profiles[i]]
            /\ trying' = id /\ current' = NoId
       ELSE UNCHANGED <<profiles, trying, current>>
  /\ UNCHANGED <<adapter, conn, scan, events, wpaPc, wpaHolds, uiPc,
                 list_networks, wifi_name_db, selected_network, wifi_table,
                 msgbox, outdated>>

(* A touch beside the keyboard takes it down (LV_EVENT_CLICKED, DEFOCUSED).*)
Defocus ==
  /\ uiPc = "idle" /\ msgbox = NoSsid /\ {"panel", "keyboard"} \subseteq glass
  /\ glass' = glass \ {"keyboard"}
  /\ UNCHANGED <<adapter, conn, supplicant, wpaPc, wpaHolds, uiPc,
                 list_networks, wifi_name_db, selected_network, wifi_table,
                 msgbox, outdated>>
-----------------------------------------------------------------------------
(* The wpa thread: handle_wpa_event *)

(* SCAN_RESULTS is read, the name table and the map are emptied.           *)
ScanResults(found) ==
  /\ wpaPc = "idle" /\ "scan" \in events
  /\ events' = events \ {"scan"}
  /\ wpaGot' = found /\ wifi_name_db' = {}
  /\ list_networks' = Emptied
  /\ outdated' = {}
  /\ wpaPc' = "scan_list"
  /\ UNCHANGED <<adapter, conn, profiles, current, trying, scan, wpaNets, uiPc,
                 selected_network, wifi_table, glass, msgbox>>

ConnectedEvent ==
  /\ wpaPc = "idle" /\ "connected" \in events
  /\ events' = events \ {"connected"}
  /\ list_networks' = Emptied
  /\ outdated' = {}
  /\ wpaPc' = "conn_list"
  /\ UNCHANGED <<adapter, conn, profiles, current, trying, scan, wpaHolds,
                 uiPc, wifi_name_db, selected_network, wifi_table, glass,
                 msgbox>>

(* find_current_network(): the reply comes, and is inserted later. Without *)
(* a current network a CONNECTED event only empties the label.             *)
WpaList ==
  /\ wpaPc \in {"scan_list", "conn_list"}
  /\ wpaNets' = profiles
  /\ wpaPc' = IF wpaPc = "scan_list" THEN "scan_fill"
              ELSE IF current # NoId THEN "conn_fill" ELSE "none_fill"
  /\ UNCHANGED <<adapter, conn, supplicant, wpaGot, uiPc, list_networks,
                 wifi_name_db, selected_network, wifi_table, glass, msgbox,
                 outdated>>

WpaFill ==
  /\ wpaPc \in {"scan_fill", "conn_fill", "none_fill"}
  /\ list_networks' = Refilled(wpaNets) /\ wpaNets' = <<>>
  /\ wpaPc' = IF wpaPc = "scan_fill" THEN "scan_draw"
              ELSE IF wpaPc = "conn_fill" THEN "conn_draw" ELSE "idle"
  /\ UNCHANGED <<adapter, conn, supplicant, wpaGot, uiPc, wifi_name_db,
                 selected_network, wifi_table, glass, msgbox, outdated>>

(* Rows from a set of names; an empty one leaves the old rows, and after a *)
(* scan it hides them.                                                     *)
EmptyScanSpins(names) ==
  /\ wifi_table' = IF names = {} THEN wifi_table ELSE names
  /\ glass' = IF names = {} /\ wpaPc = "scan_draw" THEN glass \ {"table"}
              ELSE (glass \ {"spinner"}) \cup {"table"}

Draw(names) ==
  /\ wifi_table' = IF names = {} THEN wifi_table ELSE names
  /\ glass' = IF names = {} /\ wpaPc = "scan_draw" THEN glass \ {"spinner", "table"}
              ELSE (glass \ {"spinner"}) \cup {"table"}

WpaDraw ==
  /\ wpaPc \in {"scan_draw", "conn_draw"} /\ uiPc = "idle"
  /\ LET names == IF wpaPc = "scan_draw" THEN wpaGot ELSE wifi_name_db IN
       /\ Draw(names)
       /\ wifi_name_db' = names
  /\ wpaPc' = "idle" /\ wpaGot' = {}
  /\ UNCHANGED <<adapter, conn, supplicant, wpaNets, uiPc, list_networks,
                 selected_network, msgbox, outdated>>

(* Wrong key, failed handshake: the field and the keyboard come back.      *)
FailedEvent ==
  /\ wpaPc = "idle" /\ "failed" \in events /\ uiPc = "idle"
  /\ events' = events \ {"failed"}
  /\ glass' = (glass \ {"spinner"}) \cup {"keyboard"}
  /\ UNCHANGED <<adapter, conn, profiles, current, trying, scan, wpaPc,
                 wpaHolds, uiPc, list_networks, wifi_name_db, selected_network,
                 wifi_table, msgbox, outdated>>
-----------------------------------------------------------------------------
(* wpa_supplicant *)

Beyond == <<adapter, conn, wpaPc, wpaHolds, uiPc, list_networks, wifi_name_db,
            selected_network, wifi_table, glass, msgbox, outdated>>

Announce(e) == Cardinality(events) < MaxEvents /\ events' = events \cup {e}

(* A scan, the panel's or one of its own, ends and is announced.           *)
WpaScanned ==
  /\ conn /\ scan' = "none"
  /\ Announce("scan")
  /\ UNCHANGED <<profiles, current, trying, Beyond>>

(* CTRL-EVENT-SCAN-FAILED, which handle_wpa_event passes over.             *)
WpaScanFailed ==
  /\ scan = "running" /\ scan' = "failed"
  /\ UNCHANGED <<profiles, current, trying, events, Beyond>>

WpaAssociated ==
  /\ trying # NoId
  /\ current' = trying /\ trying' = NoId
  /\ Announce("connected")
  /\ UNCHANGED <<profiles, scan, Beyond>>

WpaRefused ==
  /\ trying # NoId
  /\ trying' = NoId
  /\ Announce("failed")
  /\ UNCHANGED <<profiles, current, scan, Beyond>>

WifiNext ==
  \/ foreground \/ handle_back_btn
  \/ \E s \in Ssids : Tap(s) \/ LongPress(s)
  \/ TapReply
  \/ \E ok \in BOOLEAN : remove_network(ok)
  \/ connect \/ Defocus
  \/ \E found \in Scans : ScanResults(found)
  \/ ConnectedEvent \/ WpaList \/ WpaFill \/ WpaDraw \/ FailedEvent
  \/ WpaScanned \/ WpaScanFailed \/ WpaAssociated \/ WpaRefused

WifiSpec == WifiInit /\ [][WifiNext]_wifiVars
-----------------------------------------------------------------------------
(***************************************************************************)
(* handle_callback reloads the list "so we have the right state to         *)
(* compare": the id a tap sends with SELECT_NETWORK is a profile of the    *)
(* network on the row, whatever was removed and added before (ids are      *)
(* given out again) and wherever the wpa thread is in its own reload. Only *)
(* an id that was removed while the wpa thread held an older reply, to be  *)
(* inserted over the reload, escapes this.                                 *)
(***************************************************************************)
SelectsWhatWasTapped ==
  uiPc = "list" /\ selected_network \in DOMAIN Refilled(profiles) =>
    LET id == Refilled(profiles)[selected_network]
    IN \/ id \in outdated
       \/ id \in DOMAIN profiles /\ profiles[id] = selected_network

(***************************************************************************)
(* OK under "Delete ...?" removes a profile of the network it names, or    *)
(* nothing, although the wpa thread may empty and refill the map between   *)
(* the long press and the confirm, and the finger's release taps the row.  *)
(* Only an id removed since the map was read escapes this: the map keeps   *)
(* it, and the next network added is given it.                             *)
(***************************************************************************)
RemovesWhatWasNamed ==
  [][\A id \in DOMAIN profiles \ DOMAIN profiles' :
       id \in outdated \/ profiles[id] = msgbox]_wifiVars

(***************************************************************************)
(* "say so instead of spinning forever": with the control socket open, an  *)
(* open panel only shows the spinner of foreground() while a scan that     *)
(* will take it down is under way, announced or being drawn; one that      *)
(* finds nothing takes it down too. Only a SCAN that was refused, or a     *)
(* scan that failed, leaves it turning.                                    *)
(***************************************************************************)
SpinnerWillStop ==
  conn /\ {"panel", "spinner"} \subseteq glass =>
    \/ scan # "none" \/ "scan" \in events
    \/ wpaPc \in {"scan_list", "scan_fill", "scan_draw"}
=============================================================================
