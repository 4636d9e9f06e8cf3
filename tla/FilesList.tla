----------------------------- MODULE FilesList ------------------------------
(***************************************************************************)
(* The Files screen (main_panel.cpp): server.files.list rebuilds the rows, *)
(* each row asks for its own server.files.metadata with a bare pointer to  *)
(* itself, and a tap raises the confirm card that starts the print. A list *)
(* reply deletes the rows of the one before while their metadata requests  *)
(* are still out; files_gen_ is all that tells the two apart. A row is     *)
(* named by its place in the list, as a freed row's address may be given   *)
(* to the next row.                                                        *)
(***************************************************************************)
EXTENDS Integers, FiniteSets, Sequences

CONSTANTS Paths,        \* the gcode files Moonraker may list
          RowCap,       \* the rows a list may have; 40 in the code
          MaxListing,   \* bound: entries of a list reply
          MaxPopulates  \* bound: list requests

ASSUME FilesAssumption ==
  RowCap \in Nat \ {0} /\ MaxListing \in Nat /\ MaxPopulates \in Nat

VARIABLES
  files_scr_,    \* the Files screen is shown, not the cockpit
  populates,     \* list requests sent
  listing,       \* list requests Moonraker has not answered
  rows,          \* children of files_h_.list
  files_names_,
  files_gen_,
  metas,         \* metadata requests not answered
  filesCard,     \* the confirm card: the path in its action, the row tapped
  starts         \* printer.print.start requests not answered

filesVars == <<files_scr_, populates, listing, rows, files_names_, files_gen_,
               metas, filesCard, starts>>

NoPath   == ""
NoCard   == [fn |-> "none", tapped |-> "none"]
ErrorCard == [fn |-> "error", tapped |-> "error"]  \* shows why; its action is empty
SizeOnly == "size"   \* the meta line a row is made with
NoFiles  == "No gcode files"

(* Answers to server.files.list: each path once, and entries without one.  *)
(* An error, or a result that is no array, reads as the empty list.        *)
Listings ==
  {l \in UNION {[1 .. n -> Paths \cup {NoPath}] : n \in 0 .. MaxListing} :
     \A i, j \in DOMAIN l : l[i] = l[j] /\ l[i] # NoPath => i = j}

Row   == [text : Paths \cup {NoFiles}, user_data : 0 .. MaxListing,
          clicks : BOOLEAN, meta : Paths \cup {SizeOnly}]
Asked == [gen : 1 .. MaxPopulates, row : 1 .. RowCap, path : Paths]
Job   == [fn : Paths, tapped : Paths]

FilesTypeOK ==
  /\ files_scr_ \in BOOLEAN
  /\ populates \in 0 .. MaxPopulates /\ listing \in 0 .. populates
  /\ rows \in Seq(Row) /\ Len(rows) <= RowCap
  /\ files_names_ \in Seq(Paths)
  /\ files_gen_ \in 0 .. MaxPopulates
  /\ metas \subseteq Asked
  /\ filesCard \in Job \cup {NoCard, ErrorCard}
  /\ starts \subseteq Job

FilesInit ==
  /\ files_scr_ = FALSE /\ populates = 0 /\ listing = 0
  /\ rows = <<>> /\ files_names_ = <<>> /\ files_gen_ = 0
  /\ metas = {} /\ filesCard = NoCard /\ starts = {}
-----------------------------------------------------------------------------
(* A tap on Print or Files of the cockpit: populate_files(), show_pono().  *)
OpenFiles ==
  /\ ~files_scr_ /\ filesCard = NoCard /\ populates < MaxPopulates
  /\ populates' = populates + 1 /\ listing' = listing + 1
  /\ files_scr_' = TRUE
  /\ UNCHANGED <<rows, files_names_, files_gen_, metas, filesCard, starts>>

FilesBack ==
  /\ files_scr_ /\ filesCard = NoCard
  /\ files_scr_' = FALSE
  /\ UNCHANGED <<populates, listing, rows, files_names_, files_gen_, metas,
                 filesCard, starts>>

(* The entries of reply l that become rows: the loop looks at RowCap       *)
(* entries and passes over those without a path.                           *)
Shown(l) == {i \in DOMAIN l : i <= RowCap /\ l[i] # NoPath}

(* The user data of the row of entry i: files_names_.size() - 1.           *)
EntryNumber(l, i) == i - 1

UserData(l, i) == Cardinality({k \in Shown(l) : k <= i}) - 1

(* The entry of the k-th row.                                              *)
Entry(l, k) == CHOOSE i \in Shown(l) : Cardinality({j \in Shown(l) : j <= i}) = k

KeepGeneration == files_gen_

NextGeneration == files_gen_ + 1

(* The reply to server.files.list.                                         *)
ListReply(l) ==
  LET order == [k \in 1 .. Cardinality(Shown(l)) |-> Entry(l, k)]
      names == [k \in DOMAIN order |-> l[order[k]]]
  IN /\ listing > 0
     /\ listing' = listing - 1
     /\ files_gen_' = NextGeneration
     /\ files_names_' = names
     /\ rows' = IF names = <<>>
                THEN <<[text |-> NoFiles, user_data |-> 0, clicks |-> FALSE,
                        meta |-> SizeOnly]>>
                ELSE [k \in DOMAIN order |->
                        [text |-> names[k], user_data |-> UserData(l, order[k]),
                         clicks |-> TRUE, meta |-> SizeOnly]]
     /\ metas' = metas \cup {[gen |-> NextGeneration, row |-> k, path |-> names[k]] :
                               k \in DOMAIN order}
     /\ UNCHANGED <<files_scr_, populates, filesCard, starts>>

(* The list was not rebuilt since m was asked.                             *)
AnyGeneration(m) == TRUE

RowIsCurrent(m) == m.gen = files_gen_

(* The reply to a row's server.files.metadata, in any order, with          *)
(* something to show or (an error, no such field) with nothing.            *)
MetaReply(m, useful) ==
  /\ metas' = metas \ {m}
  /\ rows' = IF RowIsCurrent(m) /\ useful
             THEN [rows EXCEPT ![m.row].meta = m.path] ELSE rows
  /\ UNCHANGED <<files_scr_, populates, listing, files_names_, files_gen_,
                 filesCard, starts>>

(* _file_row_cb: the card's action holds a copy of the path.               *)
_file_row_cb(i) ==
  /\ files_scr_ /\ filesCard = NoCard /\ rows[i].clicks
  /\ rows[i].user_data < Len(files_names_)
  /\ filesCard' = [fn |-> files_names_[rows[i].user_data + 1],
                   tapped |-> rows[i].text]
  /\ UNCHANGED <<files_scr_, populates, listing, rows, files_names_,
                 files_gen_, metas, starts>>

(* _confirm_tap: either button takes the card down; confirm runs its action.*)
AnswerCard(ok) ==
  /\ filesCard # NoCard
  /\ filesCard' = NoCard
  /\ starts' = IF ok /\ filesCard # ErrorCard THEN starts \cup {filesCard}
               ELSE starts
  /\ UNCHANGED <<files_scr_, populates, listing, rows, files_names_,
                 files_gen_, metas>>

(* The reply to printer.print.start: back_to_home(), or the reason on the  *)
(* card, over whatever the card holds by now.                              *)
StartReply(j, accepted) ==
  /\ starts' = starts \ {j}
  /\ IF accepted
     THEN files_scr_' = FALSE /\ UNCHANGED filesCard
     ELSE filesCard' = ErrorCard /\ UNCHANGED files_scr_
  /\ UNCHANGED <<populates, listing, rows, files_names_, files_gen_, metas>>

(* The link is lost: no reply to what is out will come.                    *)
FilesLinkLost ==
  /\ listing > 0 \/ metas # {} \/ starts # {}
  /\ listing' = 0 /\ metas' = {} /\ starts' = {}
  /\ UNCHANGED <<files_scr_, populates, rows, files_names_, files_gen_,
                 filesCard>>

FilesNext ==
  \/ OpenFiles \/ FilesBack
  \/ \E l \in Listings : ListReply(l)
  \/ \E m \in metas : \E useful \in BOOLEAN : MetaReply(m, useful)
  \/ \E i \in DOMAIN rows : _file_row_cb(i)
  \/ \E ok \in BOOLEAN : AnswerCard(ok)
  \/ \E j \in starts : \E accepted \in BOOLEAN : StartReply(j, accepted)
  \/ FilesLinkLost

FilesSpec == FilesInit /\ [][FilesNext]_filesVars
-----------------------------------------------------------------------------
(***************************************************************************)
(* A metadata reply of populate_files() only ever touches the row that     *)
(* asked for it: while its generation is the current one, that row is      *)
(* still there and shows that path, and no row carries another file's      *)
(* thumbnail, time or filament, however list and metadata replies overlap. *)
(***************************************************************************)
MetaOnOwnRow ==
  /\ \A m \in metas : m.gen = files_gen_ =>
       m.row \in DOMAIN rows /\ rows[m.row].text = m.path
  /\ \A i \in DOMAIN rows : rows[i].meta \in {SizeOnly, rows[i].text}

(***************************************************************************)
(* The print that _file_row_cb starts is the file named on the row that    *)
(* was tapped, also when the list has entries without a path or is rebuilt *)
(* while the card is up.                                                   *)
(***************************************************************************)
StartsWhatWasTapped ==
  \A j \in starts \cup ({filesCard} \ {NoCard}) : j.fn = j.tapped
=============================================================================
