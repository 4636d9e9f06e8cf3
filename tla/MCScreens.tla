----------------------------- MODULE MCScreens ------------------------------
(***************************************************************************)
(* The sub-screens, the job interlocks and the helpers, modelled with no   *)
(* shared state, for TLC: a behaviour runs one of them, chosen in          *)
(* ScreensInit, and leaves the others in one initial state, so that their  *)
(* states add up and do not multiply.                                      *)
(***************************************************************************)
EXTENDS FilesList, WifiPanel, PromptPanel, ThumbPath, ConfigIni, JobGate

VARIABLE part

screensVars == <<part, filesVars, wifiVars, promptVars, thumbVars, iniVars,
                 gateVars>>

MCGcodeFiles == {<<"a">>, <<"a", "/", "a">>, <<".", ".", "/", "a">>,
                 <<"/", "a">>, <<"a", "\\", "a">>}
MCScans      == {{}, Ssids}
MCSymmetry   == Permutations(Ssids)

ScreensInit ==
  /\ part \in {"files", "wifi", "prompt", "thumb", "ini", "gate"}
  /\ FilesInit /\ PromptInit
  /\ WifiInit /\ (part = "wifi" \/ (~adapter /\ profiles = <<>>))
  /\ IF part = "thumb" THEN ThumbInit(GcodeFiles, Relative)
     ELSE ThumbInit({<<"a">>}, {<<>>})
  /\ IF part = "ini" THEN IniInit(IniFiles) ELSE IniInit({<<>>})
  /\ GateInit /\ (part = "gate" \/ job = "standby")

ScreensNext ==
  /\ UNCHANGED part
  /\ \/ /\ part = "files" /\ FilesNext
        /\ UNCHANGED <<wifiVars, promptVars, thumbVars, iniVars, gateVars>>
     \/ /\ part = "wifi" /\ WifiNext
        /\ UNCHANGED <<filesVars, promptVars, thumbVars, iniVars, gateVars>>
     \/ /\ part = "prompt" /\ PromptNext
        /\ UNCHANGED <<filesVars, wifiVars, thumbVars, iniVars, gateVars>>
     \/ /\ part = "thumb" /\ ThumbNext
        /\ UNCHANGED <<filesVars, wifiVars, promptVars, iniVars, gateVars>>
     \/ /\ part = "ini" /\ IniNext
        /\ UNCHANGED <<filesVars, wifiVars, promptVars, thumbVars, gateVars>>
     \/ /\ part = "gate" /\ GateNext
        /\ UNCHANGED <<filesVars, wifiVars, promptVars, thumbVars, iniVars>>

ScreensSpec == ScreensInit /\ [][ScreensNext]_screensVars

(***************************************************************************)
(* The state of the Files screen, the Wi-Fi panel, the prompt, the         *)
(* thumbnail path, the configuration reader and the interlocks has the     *)
(* type of the members it models.                                          *)
(***************************************************************************)
ScreensTypeOK ==
  CASE part = "files"  -> FilesTypeOK
    [] part = "wifi"   -> WifiTypeOK
    [] part = "prompt" -> PromptTypeOK
    [] part = "thumb"  -> ThumbTypeOK
    [] part = "ini"    -> IniTypeOK
    [] part = "gate"   -> GateTypeOK
=============================================================================
