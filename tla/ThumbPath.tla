----------------------------- MODULE ThumbPath ------------------------------
(***************************************************************************)
(* The path of a file row's thumbnail: get_thumbnail (utils.cpp) joins the *)
(* relative_path of the metadata to the directory of the gcode file and    *)
(* asks safe_thumb_path (path_guard.h) whether the result may be opened    *)
(* under the gcodes root. The property is about characters, so a path here *)
(* is a sequence of them. Inputs are chosen in ThumbInit.                  *)
(***************************************************************************)
EXTENDS Integers, Sequences, FiniteSets, SequencesExt

CONSTANTS GcodeFiles,  \* paths Moonraker lists
          MaxRelative, \* bound: characters of a relative_path
          PathCap      \* the longest path the guard takes; 512 in the code

NUL   == "NUL"
Chars == {"a", ".", "/", "\\", NUL}
Slash == {"/", "\\"}

ASSUME ThumbAssumption ==
  MaxRelative \in Nat /\ PathCap \in Nat /\ GcodeFiles \subseteq Seq(Chars)

VARIABLES gcode_file, relative_path, thumb

thumbVars == <<gcode_file, relative_path, thumb>>

Relative == UNION {[1 .. n -> Chars] : n \in 0 .. MaxRelative}
NoThumb == <<>>
Unread  == <<"unread">>

ThumbTypeOK == relative_path \in Relative /\ gcode_file \in GcodeFiles

ThumbInit(gcodes, relatives) ==
  /\ gcode_file \in gcodes
  /\ relative_path \in relatives
  /\ thumb = Unread
-----------------------------------------------------------------------------
(* The pieces of p between separators, each as the positions of its first  *)
(* and last character: start and end - 1 of the guard's loop.              *)
Pieces(p, seps) ==
  {b \in (1 .. Len(p) + 1) \X (0 .. Len(p)) :
     /\ b[1] <= b[2] + 1
     /\ b[1] = 1 \/ p[b[1] - 1] \in seps
     /\ b[2] = Len(p) \/ p[b[2] + 1] \in seps
     /\ \A i \in b[1] .. b[2] : p[i] \notin seps}

IsParent(p, b) == b[2] = b[1] + 1 /\ p[b[1]] = "." /\ p[b[2]] = "."

LastPieceUnchecked(p) ==
  /\ p # <<>> /\ Len(p) <= PathCap
  /\ Head(p) \notin Slash
  /\ NUL \notin Range(p)
  /\ \A b \in Pieces(p, Slash) : b[2] # Len(p) => ~IsParent(p, b)

safe_thumb_path(p) ==
  /\ p # <<>> /\ Len(p) <= PathCap
  /\ Head(p) \notin Slash
  /\ NUL \notin Range(p)
  /\ \A b \in Pieces(p, Slash) : ~IsParent(p, b)

(* gcode_file up to and with its last separator.                           *)
Directory(p) ==
  LET cuts == {i \in DOMAIN p : p[i] \in Slash}
  IN IF cuts = {} THEN <<>> ELSE SubSeq(p, 1, Max(cuts))

Joined == Directory(gcode_file) \o relative_path

(* The path under the gcodes root that is handed to LVGL, if any.          *)
get_thumbnail ==
  IF relative_path # <<>> /\ safe_thumb_path(Joined) THEN Joined ELSE NoThumb

ShowThumb ==
  /\ thumb = Unread
  /\ thumb' = get_thumbnail
  /\ UNCHANGED <<gcode_file, relative_path>>

ThumbNext == ShowThumb

ThumbSpec == ThumbInit(GcodeFiles, Relative) /\ [][ThumbNext]_thumbVars
-----------------------------------------------------------------------------
(* What the operating system makes of p below a root: '/' alone separates, *)
(* the first NUL ends it. The depth never falls below the root.            *)
Opened(p) ==
  LET ends == {i \in DOMAIN p : p[i] = NUL}
  IN IF ends = {} THEN p ELSE SubSeq(p, 1, Min(ends) - 1)

IsName(p, b) ==
  b[1] <= b[2] /\ ~IsParent(p, b) /\ ~(b[1] = b[2] /\ p[b[1]] = ".")

StaysBelow(p) ==
  LET q == Opened(p)
      names == Pieces(q, {"/"})
  IN \A k \in 1 .. Len(q) :
       Cardinality({b \in names : IsParent(q, b) /\ b[2] <= k})
         <= Cardinality({b \in names : IsName(q, b) /\ b[2] <= k})

Plain(p) ==
  Len(p) <= PathCap /\ p[1] # "/" /\ Range(p) \subseteq {"a", "/"}

(***************************************************************************)
(* Lexical containment: whatever the metadata and the gcode path say, what *)
(* get_thumbnail opens lies below the gcodes root; and the guard does not  *)
(* cost a plain relative path its picture.                                 *)
(***************************************************************************)
ThumbStaysInside ==
  thumb # Unread =>
    /\ StaysBelow(thumb)
    /\ relative_path # <<>> /\ Plain(Joined) => thumb = Joined
=============================================================================
