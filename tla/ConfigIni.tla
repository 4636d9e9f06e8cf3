----------------------------- MODULE ConfigIni ------------------------------
(***************************************************************************)
(* Config::load_ini (config.h), the loop over the lines of                 *)
(* grumpyscreen.cfg, one step per line: [section] and [group "id"] headers *)
(* and their keys, every value typed by its text. The file is chosen in    *)
(* IniInit; comments and lines without '=' or ':' are passed over and left *)
(* out.                                                                    *)
(***************************************************************************)
EXTENDS Integers, Sequences, FiniteSets

CONSTANTS Names,    \* names of sections and groups; [] opens no block
          MaxLines  \* bound: lines of the file

ASSUME IniAssumption == MaxLines \in Nat /\ "" \notin Names

VARIABLES
  file, line,                               \* the lines, the next one
  cur_section, cur_group, cur_id, cur_obj,
  out,                                      \* the JSON object being built
  loaded                                    \* "reading", "done" or "threw"

iniVars == <<file, line, cur_section, cur_group, cur_id, cur_obj, out, loaded>>

Blank == ""
Text  == {"1", "7", "txt"}
Unset == [type |-> "unset", is |-> Blank]

(* set_typed: a boolean if it reads as one, and 1 and 0 do; else an        *)
(* integer, else a string.                                                 *)
set_typed(val) ==
  [type |-> CASE val = "1" -> "bool" [] val = "7" -> "int" [] OTHER -> "string",
   is |-> val]

Header  == [kind : {"header"}, name : Names, group : BOOLEAN, id : {Blank, "x"}]
Key     == [kind : {"key"}, val : Text]
IniLine == {h \in Header : ~h.group => h.id = Blank} \cup Key
Value1  == [type : {"bool", "int", "string"}, is : Text] \cup {Unset}
Object  == [id : {Blank, "x"}, key : Value1]

(* A member of out: absent, the object of a section, the array of a group. *)
Nothing     == [type |-> "null"]
Section(v)  == [type |-> "object", key |-> v]
Group(s)    == [type |-> "array", items |-> s]

IniTypeOK ==
  /\ file \in Seq(IniLine) /\ line \in 1 .. Len(file) + 1
  /\ cur_section \in Names \cup {Blank} /\ cur_group \in Names \cup {Blank}
  /\ cur_id \in {Blank, "x"} /\ cur_obj \in Value1
  /\ DOMAIN out = Names
  /\ loaded \in {"reading", "done", "threw"}

IniFiles == UNION {[1 .. n -> IniLine] : n \in 0 .. MaxLines}

IniInit(files) ==
  /\ file \in files
  /\ line = 1
  /\ cur_section = Blank /\ cur_group = Blank /\ cur_id = Blank
  /\ cur_obj = Unset
  /\ out = [n \in Names |-> Nothing]
  /\ loaded = "reading"
-----------------------------------------------------------------------------
InGroup == cur_group # Blank /\ cur_id # Blank

(* push_back throws on the object of a section of the same name.           *)
flush_group ==
  /\ out' = IF InGroup /\ out[cur_group].type # "object"
            THEN [out EXCEPT ![cur_group] =
                    LET o == [id |-> cur_id, key |-> cur_obj]
                    IN IF @ = Nothing THEN Group(<<o>>)
                       ELSE Group(Append(@.items, o))]
            ELSE out
  /\ cur_obj' = Unset

FlushThrows == InGroup /\ out[cur_group].type = "object"

HeaderKeepsSection(h) ==
  /\ cur_section' = IF h.group THEN cur_section ELSE h.name
  /\ cur_group' = IF h.group THEN h.name ELSE Blank
  /\ cur_id' = h.id

OpenBlock(h) ==
  /\ cur_section' = IF h.group THEN Blank ELSE h.name
  /\ cur_group' = IF h.group THEN h.name ELSE Blank
  /\ cur_id' = h.id

ReadHeader ==
  /\ loaded = "reading" /\ line <= Len(file) /\ file[line].kind = "header"
  /\ flush_group
  /\ OpenBlock(file[line])
  /\ loaded' = IF FlushThrows THEN "threw" ELSE "reading"
  /\ line' = line + 1
  /\ UNCHANGED file

(* A key of a group with an id, of a section (operator[] throws on the     *)
(* array of a group of the same name), or of neither.                      *)
ReadKey ==
  /\ loaded = "reading" /\ line <= Len(file) /\ file[line].kind = "key"
  /\ LET v == set_typed(file[line].val) IN
     \/ /\ InGroup
        /\ cur_obj' = v
        /\ UNCHANGED <<out, loaded>>
     \/ /\ ~InGroup /\ cur_section # Blank
        /\ IF out[cur_section].type = "array"
           THEN loaded' = "threw" /\ UNCHANGED out
           ELSE out' = [out EXCEPT ![cur_section] = Section(v)] /\ UNCHANGED loaded
        /\ UNCHANGED cur_obj
     \/ /\ ~InGroup /\ cur_section = Blank
        /\ UNCHANGED <<out, cur_obj, loaded>>
  /\ line' = line + 1
  /\ UNCHANGED <<file, cur_section, cur_group, cur_id>>

EndOfFile ==
  /\ loaded = "reading" /\ line = Len(file) + 1
  /\ flush_group
  /\ cur_group' = Blank /\ cur_id' = Blank
  /\ loaded' = IF FlushThrows THEN "threw" ELSE "done"
  /\ UNCHANGED <<file, line, cur_section>>

IniNext == ReadHeader \/ ReadKey \/ EndOfFile

IniSpec == IniInit(IniFiles) /\ [][IniNext]_iniVars

(* get<T>("/name/key", def): "default" unless the value has that type.     *)
get(type, n) ==
  IF out[n].type = "object" /\ out[n].key.type = type THEN out[n].key.is
  ELSE "default"
-----------------------------------------------------------------------------
(* The file read as a document: the headers, the last key under one, and   *)
(* the value a key text stands for.                                        *)
Headers   == {i \in DOMAIN file : file[i].kind = "header"}
Under(h)  == {i \in DOMAIN file : /\ i > h /\ file[i].kind = "key"
                                  /\ \A j \in Headers : j <= h \/ j > i}
Latest(s) == CHOOSE i \in s : \A j \in s : j <= i
KeysOf(n) == UNION {Under(h) : h \in {i \in Headers : file[i].name = n /\ ~file[i].group}}
Members(n) == {i \in Headers : file[i].name = n /\ file[i].group /\ file[i].id # Blank}

(***************************************************************************)
(* load_ini keeps every line in its own block: a section key reads back as *)
(* the last line that sets it, also over sections opened twice; each group *)
(* header with an id is one member of its array, in file order, with its   *)
(* own keys; nothing leaks from one block into the next. Only a name used  *)
(* both as a section and as a group throws. Nothing is said of how 0 and 1 *)
(* are typed: that is IntegersReadBack's.                                  *)
(***************************************************************************)
IniReadsBack ==
  /\ loaded = "threw" => \E n \in Names : KeysOf(n) # {} /\ Members(n) # {}
  /\ loaded = "done" => \A n \in Names :
       /\ KeysOf(n) = {} \/ Members(n) = {}
       /\ KeysOf(n) # {} =>
            LET val == file[Latest(KeysOf(n))].val IN
              /\ out[n].type = "object" /\ out[n].key.is = val
              /\ val = "txt" => get("string", n) = val /\ get("int", n) = "default"
              /\ val = "7" => get("int", n) = val /\ get("string", n) = "default"
       /\ KeysOf(n) = {} => \A type \in {"int", "string"} : get(type, n) = "default"
       /\ Members(n) # {} =>
            /\ Len(out[n].items) = Cardinality(Members(n))
            /\ \A h \in Members(n) :
                 LET o == out[n].items[Cardinality({i \in Members(n) : i <= h})]
                 IN o.key.is = IF Under(h) = {} THEN Blank
                               ELSE file[Latest(Under(h))].val

(***************************************************************************)
(* An integer setting reads back as the integer in the file: build.sh      *)
(* writes "display_rotate: 1" for small screens and main() asks get<>()    *)
(* for a number from 1 to 3. parse_bool takes the 1 first (config.h:76).   *)
(***************************************************************************)
IntegersReadBack ==
  loaded = "done" => \A n \in Names :
    KeysOf(n) # {} /\ Members(n) = {} =>
      LET val == file[Latest(KeysOf(n))].val
      IN val \in {"1", "7"} => get("int", n) = val
=============================================================================
