---------------------------- MODULE FilesProofs -----------------------------
(***************************************************************************)
(* Proofs about FilesList, for any files, any length of the list and any   *)
(* overlap of list and metadata replies. What they rest on: the row of an  *)
(* entry has the same place in the list as its path has in files_names_    *)
(* (EntryRank), and files_gen_ counts the lists (CountOK, MetasOK).        *)
(***************************************************************************)
EXTENDS FilesList, FiniteSetTheorems, SequenceTheorems, TLAPS

\* The rows of a reply are numbered without gaps: every number up to the
\* count of shown entries is the rank of one of them.
LEMMA EntryRank ==
  ASSUME NEW l \in Listings
  PROVE  /\ Cardinality(Shown(l)) \in Nat /\ Cardinality(Shown(l)) <= RowCap
         /\ Cardinality(Shown(l)) <= MaxListing
         /\ \A k \in 1 .. Cardinality(Shown(l)) :
              /\ Entry(l, k) \in Shown(l) /\ l[Entry(l, k)] \in Paths
              /\ UserData(l, Entry(l, k)) = k - 1
<1> DEFINE S == Shown(l)
           c == Cardinality(S)
<1>0. PICK n \in 0 .. MaxListing : l \in [1 .. n -> Paths \cup {NoPath}]
  BY DEF Listings
<1>1. n \in Nat /\ RowCap \in Nat /\ MaxListing \in Nat
  BY FilesAssumption
<1>2. S \subseteq 1 .. n /\ S \subseteq 1 .. RowCap
  BY <1>0, <1>1 DEF Shown
<1>3. /\ IsFiniteSet(1 .. n) /\ Cardinality(1 .. n) = n
      /\ IsFiniteSet(1 .. RowCap) /\ Cardinality(1 .. RowCap) = RowCap
  BY <1>1, FS_Interval
<1>4. IsFiniteSet(S) /\ c <= n /\ c <= RowCap
  BY <1>2, <1>3, FS_Subset
<1>5. c \in Nat
  BY <1>4, FS_CardinalityType
<1> DEFINE upto(i) == {k \in S : k <= i}
           f == [i \in S |-> Cardinality(upto(i))]
<1>6. ASSUME NEW i \in S
      PROVE  IsFiniteSet(upto(i)) /\ Cardinality(upto(i)) \in 1 .. c
  <2>1. upto(i) \subseteq S /\ i \in upto(i)
    BY <1>2
  <2>2. IsFiniteSet(upto(i)) /\ Cardinality(upto(i)) <= c
    BY <1>4, <2>1, FS_Subset
  <2>3. Cardinality(upto(i)) \in Nat /\ Cardinality(upto(i)) # 0
    BY <2>1, <2>2, FS_CardinalityType, FS_EmptySet
  <2> QED BY <1>5, <2>2, <2>3
<1>7. ASSUME NEW i \in S, NEW j \in S, i < j
      PROVE  Cardinality(upto(i)) # Cardinality(upto(j))
  <2>1. upto(i) \subseteq upto(j) /\ j \in upto(j) /\ j \notin upto(i)
    BY <1>2, <1>7
  <2>2. IsFiniteSet(upto(j))
    BY <1>6
  <2> HIDE DEF upto
  <2> QED BY <2>1, <2>2, FS_Subset
<1>8. f \in Injection(S, 1 .. c)
  <2>1. f \in [S -> 1 .. c]
    BY <1>6
  <2>2. \A i, j \in S : f[i] = f[j] => i = j
    <3> SUFFICES ASSUME NEW i \in S, NEW j \in S, f[i] = f[j], i # j PROVE FALSE
      OBVIOUS
    <3>1. i \in Int /\ j \in Int
      BY <1>2
    <3>2. i < j \/ j < i
      BY <3>1
    <3> QED BY <1>7, <3>2
  <2> QED BY <2>1, <2>2 DEF Injection, IsInjective
<1>9. f \in Surjection(S, 1 .. c)
  <2>1. IsFiniteSet(1 .. c) /\ Cardinality(1 .. c) = c
    BY <1>5, FS_Interval
  <2> HIDE DEF f
  <2> QED BY <1>8, <2>1, FS_Injection
<1>10. ASSUME NEW k \in 1 .. c
       PROVE  Entry(l, k) \in S /\ Cardinality(upto(Entry(l, k))) = k
  <2>1. \E i \in S : Cardinality(upto(i)) = k
    BY <1>9 DEF Surjection
  <2> QED BY <2>1 DEF Entry
<1>11. ASSUME NEW k \in 1 .. c PROVE UserData(l, Entry(l, k)) = k - 1
  BY <1>10 DEF UserData
<1>12. \A i \in S : l[i] \in Paths
  BY <1>0 DEF Shown
<1>13. c <= MaxListing
  BY <1>0, <1>1, <1>4, <1>5
<1> QED BY <1>4, <1>5, <1>10, <1>11, <1>12, <1>13

-----------------------------------------------------------------------------
\* A list reply counts up: the generation never runs past the requests.
CountOK == files_gen_ + listing <= populates

\* A row that can be tapped shows the path files_names_ holds at its place.
RowsOK ==
  \A i \in DOMAIN rows : rows[i].clicks =>
    /\ rows[i].text \in Paths /\ rows[i].user_data = i - 1
    /\ i \in DOMAIN files_names_ /\ files_names_[i] = rows[i].text

MetasOK == \A m \in metas : m.gen <= files_gen_

\* FilesTypeOK by owner: the screen, the rows, the requests.
ScreenOK ==
  /\ files_scr_ \in BOOLEAN
  /\ populates \in 0 .. MaxPopulates /\ listing \in 0 .. populates
  /\ files_gen_ \in 0 .. MaxPopulates

ListOK == /\ rows \in Seq(Row) /\ Len(rows) <= RowCap
          /\ files_names_ \in Seq(Paths)

AsksOK == /\ metas \subseteq Asked
          /\ filesCard \in Job \cup {NoCard, ErrorCard}
          /\ starts \subseteq Job

FilesInv == /\ ScreenOK /\ ListOK /\ AsksOK /\ CountOK
            /\ RowsOK /\ MetasOK /\ MetaOnOwnRow /\ StartsWhatWasTapped

LEMMA TypeParts == FilesTypeOK <=> ScreenOK /\ ListOK /\ AsksOK
  BY DEF FilesTypeOK, ScreenOK, ListOK, AsksOK

LEMMA FilesStart == FilesInit => FilesInv
<1> SUFFICES ASSUME FilesInit PROVE FilesInv
  OBVIOUS
<1>1. ScreenOK
  <2>1. files_scr_ \in BOOLEAN
    BY Zenon DEF FilesInit
  <2> QED BY <2>1, FilesAssumption DEF FilesInit, ScreenOK
<1>2. ListOK /\ RowsOK
  BY FilesAssumption DEF FilesInit, ListOK, RowsOK
<1>3. AsksOK /\ CountOK /\ MetasOK /\ MetaOnOwnRow /\ StartsWhatWasTapped
  BY DEF FilesInit, AsksOK, CountOK, MetasOK, MetaOnOwnRow, StartsWhatWasTapped
<1> QED BY <1>1, <1>2, <1>3 DEF FilesInv

\* A list reply rebuilds rows and names together and outdates every metadata
\* request of the rows it deletes.
LEMMA ListReplyStep ==
  ASSUME NEW l \in Listings, FilesInv, ListReply(l)
  PROVE  FilesInv'
<1> DEFINE c     == Cardinality(Shown(l))
           order == [k \in 1 .. c |-> Entry(l, k)]
           names == [k \in DOMAIN order |-> l[order[k]]]
           made  == [k \in DOMAIN order |->
                       [text |-> names[k], user_data |-> UserData(l, order[k]),
                        clicks |-> TRUE, meta |-> SizeOnly]]
           none  == <<[text |-> NoFiles, user_data |-> 0, clicks |-> FALSE,
                       meta |-> SizeOnly]>>
           asked == {[gen |-> NextGeneration, row |-> k, path |-> names[k]] :
                       k \in DOMAIN order}
<1>0. /\ listing > 0 /\ listing' = listing - 1 /\ files_gen_' = files_gen_ + 1
      /\ files_names_' = names
      /\ rows' = IF names = <<>> THEN none ELSE made
      /\ metas' = metas \cup asked
      /\ UNCHANGED <<files_scr_, populates, filesCard, starts>>
  BY DEF ListReply, NextGeneration
<1>1. /\ c \in Nat /\ c <= RowCap /\ c <= MaxListing
      /\ \A k \in 1 .. c : l[order[k]] \in Paths /\ UserData(l, order[k]) = k - 1
  BY EntryRank
<1>2. names \in [1 .. c -> Paths] /\ DOMAIN order = 1 .. c
  BY <1>1
<1>3. \A k \in 1 .. c : /\ made[k] = [text |-> names[k], user_data |-> k - 1,
                                      clicks |-> TRUE, meta |-> SizeOnly]
                        /\ made[k] \in Row
  <2> SUFFICES ASSUME NEW k \in 1 .. c
               PROVE  /\ made[k] = [text |-> names[k], user_data |-> k - 1,
                                    clicks |-> TRUE, meta |-> SizeOnly]
                      /\ made[k] \in Row
    OBVIOUS
  <2>1. k \in DOMAIN order /\ UserData(l, order[k]) = k - 1 /\ names[k] \in Paths
    BY <1>1, <1>2
  <2>2. k - 1 \in 0 .. MaxListing
    BY <1>1, FilesAssumption
  <2> HIDE DEF names, order, c
  <2>3. made[k] = [text |-> names[k], user_data |-> k - 1,
                   clicks |-> TRUE, meta |-> SizeOnly]
    BY <2>1
  <2> HIDE DEF made
  <2>4. TRUE \in BOOLEAN
    OBVIOUS
  <2> QED BY <2>1, <2>2, <2>3, <2>4 DEF Row
<1>4. made \in [1 .. c -> Row]
  BY <1>3
<1>5. \A a \in asked : \E k \in 1 .. c :
        a = [gen |-> files_gen_ + 1, row |-> k, path |-> names[k]]
  BY <1>2 DEF NextGeneration
<1> HIDE DEF names, made, asked, order, c
<1>6. names \in Seq(Paths) /\ Len(names) = c
  BY <1>1, <1>2, SeqDef
<1>7. made \in Seq(Row) /\ Len(made) = c
  BY <1>1, <1>4, SeqDef
<1>8. /\ files_gen_ \in Nat /\ listing \in Nat /\ populates \in Nat
      /\ files_gen_ + listing <= populates /\ populates <= MaxPopulates
  BY FilesAssumption DEF FilesInv, ScreenOK, CountOK
<1>9. ScreenOK'
  BY <1>0, <1>8, FilesAssumption DEF FilesInv, ScreenOK
<1>10. CountOK'
  BY <1>0, <1>8 DEF CountOK
<1>11. none \in Seq(Row) /\ Len(none) = 1 /\ none[1].clicks = FALSE
       /\ none[1].meta = SizeOnly
  BY FilesAssumption DEF Row
<1> HIDE DEF none
<1>12. ListOK'
  <2>1. rows' \in Seq(Row) /\ Len(rows') <= RowCap
    <3>1. CASE rows' = none
      <4>1. rows' \in Seq(Row) /\ Len(rows') = 1
        BY ONLY <1>11, <3>1, Zenon
      <4>2. 1 <= RowCap
        BY ONLY FilesAssumption
      <4> QED BY ONLY <4>1, <4>2
    <3>2. CASE rows' = made
      BY <1>1, <1>7, <3>2
    <3>3. rows' = none \/ rows' = made
      BY <1>0
    <3> QED BY <3>1, <3>2, <3>3
  <2>2. files_names_' \in Seq(Paths)
    BY <1>0, <1>6
  <2> QED BY <2>1, <2>2 DEF ListOK
<1>13. AsksOK'
  <2>1. \A a \in asked : a \in Asked
    BY <1>1, <1>2, <1>5, <1>8, FilesAssumption, <1>0 DEF Asked
  <2> QED BY <1>0, <2>1 DEF AsksOK, FilesInv
<1>14. MetasOK'
  <2>1. \A a \in asked : a.gen = files_gen_ + 1
    BY <1>5
  <2>2. \A m \in metas : m.gen \in Nat /\ m.gen <= files_gen_
    BY DEF FilesInv, MetasOK, AsksOK, Asked
  <2> QED BY <1>0, <1>8, <2>1, <2>2 DEF MetasOK
<1>15. RowsOK'
  <2>1. CASE rows' = none
    BY <2>1, <1>11 DEF RowsOK
  <2>2. CASE rows' = made
    BY <1>0, <1>2, <1>3, <1>4, <2>2 DEF RowsOK
  <2> QED BY <1>0, <2>1, <2>2
<1>16. MetaOnOwnRow'
  <2>1. \A i \in DOMAIN rows' : rows'[i].meta \in {SizeOnly, rows'[i].text}
    BY <1>0, <1>3, <1>4, <1>11
  <2>2. ASSUME NEW m \in metas', m.gen = files_gen_'
        PROVE  m.row \in DOMAIN rows' /\ rows'[m.row].text = m.path
    <3>1. m \notin metas
      BY <1>0, <1>8, <2>2 DEF FilesInv, MetasOK, AsksOK, Asked
    <3>2. PICK k \in 1 .. c : m = [gen |-> files_gen_ + 1, row |-> k, path |-> names[k]]
      BY <1>0, <1>5, <3>1
    <3>3. names # <<>>
      BY <1>1, <1>6
    <3> QED BY <1>0, <1>3, <1>4, <3>2, <3>3
  <2> QED BY <2>1, <2>2 DEF MetaOnOwnRow
<1>17. StartsWhatWasTapped'
  BY <1>0 DEF FilesInv, StartsWhatWasTapped
<1> QED BY <1>9, <1>10, <1>12, <1>13, <1>14, <1>15, <1>16, <1>17 DEF FilesInv

\* A metadata reply writes at most the meta line of the row that asked.
LEMMA MetaReplyStep ==
  ASSUME NEW m \in metas, NEW useful \in BOOLEAN, FilesInv, MetaReply(m, useful)
  PROVE  FilesInv'
<1>0. /\ metas' = metas \ {m}
      /\ UNCHANGED <<files_scr_, populates, listing, files_names_, files_gen_,
                     filesCard, starts>>
  BY DEF MetaReply
<1>1. ScreenOK' /\ CountOK' /\ AsksOK' /\ MetasOK' /\ StartsWhatWasTapped'
  BY <1>0 DEF FilesInv, ScreenOK, CountOK, AsksOK, MetasOK, StartsWhatWasTapped
<1>2. CASE rows' = rows
  BY <1>0, <1>1, <1>2 DEF FilesInv, ListOK, RowsOK, MetaOnOwnRow
<1>3. CASE rows' # rows
  <2>1. m.gen = files_gen_ /\ rows' = [rows EXCEPT ![m.row].meta = m.path]
    BY <1>3 DEF MetaReply, RowIsCurrent
  <2>2. /\ m.row \in DOMAIN rows /\ rows[m.row].text = m.path /\ m.path \in Paths
        /\ rows \in Seq(Row)
    BY <2>1 DEF FilesInv, MetaOnOwnRow, AsksOK, Asked, ListOK
  <2>3. rows \in [1 .. Len(rows) -> Row] /\ Len(rows) \in Nat
    BY <2>2, LenProperties
  <2>4. \A i \in DOMAIN rows :
          /\ rows'[i] \in Row /\ rows'[i].text = rows[i].text
          /\ rows'[i].user_data = rows[i].user_data
          /\ rows'[i].clicks = rows[i].clicks
          /\ rows'[i].meta = IF i = m.row THEN rows[i].text ELSE rows[i].meta
    <3> SUFFICES ASSUME NEW i \in DOMAIN rows
                 PROVE  /\ rows'[i] \in Row /\ rows'[i].text = rows[i].text
                        /\ rows'[i].user_data = rows[i].user_data
                        /\ rows'[i].clicks = rows[i].clicks
                        /\ rows'[i].meta = IF i = m.row THEN rows[i].text
                                           ELSE rows[i].meta
      OBVIOUS
    <3>1. rows[i] \in Row
      BY <2>3
    <3>2. rows'[i] = IF i = m.row THEN [rows[i] EXCEPT !.meta = m.path] ELSE rows[i]
      BY <2>1, <2>2
    <3>3. CASE i = m.row
      BY <2>2, <3>1, <3>2, <3>3 DEF Row
    <3>4. CASE i # m.row
      BY <3>1, <3>2, <3>4
    <3> QED BY <3>3, <3>4
  <2>5. DOMAIN rows' = DOMAIN rows /\ rows' \in [1 .. Len(rows) -> Row]
    BY <2>1, <2>3, <2>4
  <2>6. rows' \in Seq(Row) /\ Len(rows') = Len(rows)
    BY <2>3, <2>5, SeqDef
  <2>7. ListOK'
    BY <1>0, <2>6 DEF FilesInv, ListOK
  <2>8. RowsOK'
    BY <1>0, <2>4, <2>5 DEF FilesInv, RowsOK
  <2>9. MetaOnOwnRow'
    BY <1>0, <2>4, <2>5 DEF FilesInv, MetaOnOwnRow
  <2> QED BY <1>1, <2>7, <2>8, <2>9 DEF FilesInv
<1> QED BY <1>2, <1>3

\* A tap copies the path at the row's place: the text of that row.
LEMMA RowTapStep ==
  ASSUME NEW i \in DOMAIN rows, FilesInv, _file_row_cb(i)
  PROVE  FilesInv'
<1>0. /\ rows[i].clicks
      /\ filesCard' = [fn |-> files_names_[rows[i].user_data + 1],
                       tapped |-> rows[i].text]
      /\ UNCHANGED <<files_scr_, populates, listing, rows, files_names_,
                     files_gen_, metas, starts>>
  BY DEF _file_row_cb
<1>1. /\ rows[i].text \in Paths /\ rows[i].user_data = i - 1
      /\ files_names_[i] = rows[i].text
  BY <1>0 DEF FilesInv, RowsOK
<1>2. i \in Int
  BY LenProperties DEF FilesInv, ListOK
<1>3. rows[i].user_data + 1 = i
  BY <1>1, <1>2
<1>4. filesCard' = [fn |-> rows[i].text, tapped |-> rows[i].text]
  BY <1>0, <1>1, <1>3
<1>5. filesCard' \in Job /\ filesCard'.fn = filesCard'.tapped
  BY <1>1, <1>4 DEF Job
<1>6. AsksOK' /\ StartsWhatWasTapped'
  BY <1>0, <1>5 DEF FilesInv, AsksOK, StartsWhatWasTapped
<1>7. ScreenOK' /\ ListOK' /\ CountOK' /\ RowsOK' /\ MetasOK' /\ MetaOnOwnRow'
  BY <1>0 DEF FilesInv, ScreenOK, ListOK, CountOK, RowsOK, MetasOK, MetaOnOwnRow
<1> QED BY <1>6, <1>7 DEF FilesInv

LEMMA FilesStep == FilesInv /\ [FilesNext]_filesVars => FilesInv'
<1> SUFFICES ASSUME FilesInv, [FilesNext]_filesVars PROVE FilesInv'
  OBVIOUS
<1> USE DEF filesVars
<1>1. CASE OpenFiles
  <2>1. ScreenOK' /\ CountOK'
    <3>1. files_scr_' \in BOOLEAN
      BY <1>1, Zenon DEF OpenFiles
    <3> QED BY <1>1, <3>1, FilesAssumption DEF FilesInv, OpenFiles, ScreenOK, CountOK
  <2> QED BY <1>1, <2>1 DEF FilesInv, OpenFiles, ListOK, AsksOK, RowsOK, MetasOK,
                            MetaOnOwnRow, StartsWhatWasTapped
<1>2. CASE FilesBack
  <2>1. files_scr_' \in BOOLEAN
    BY <1>2, Zenon DEF FilesBack
  <2> QED BY <1>2, <2>1 DEF FilesInv, FilesBack, ScreenOK, CountOK, ListOK, AsksOK,
                            RowsOK, MetasOK, MetaOnOwnRow, StartsWhatWasTapped
<1>3. ASSUME NEW l \in Listings, ListReply(l) PROVE FilesInv'
  BY <1>3, ListReplyStep
<1>4. ASSUME NEW m \in metas, NEW useful \in BOOLEAN, MetaReply(m, useful)
      PROVE  FilesInv'
  BY <1>4, MetaReplyStep
<1>5. ASSUME NEW i \in DOMAIN rows, _file_row_cb(i) PROVE FilesInv'
  BY <1>5, RowTapStep
<1>6. ASSUME NEW ok \in BOOLEAN, AnswerCard(ok) PROVE FilesInv'
  <2>1. AsksOK' /\ StartsWhatWasTapped'
    BY <1>6 DEF FilesInv, AnswerCard, AsksOK, StartsWhatWasTapped, Job, NoCard, ErrorCard
  <2> QED BY <1>6, <2>1 DEF FilesInv, AnswerCard, ScreenOK, CountOK, ListOK, RowsOK,
                            MetasOK, MetaOnOwnRow
<1>7. ASSUME NEW j \in starts, NEW accepted \in BOOLEAN, StartReply(j, accepted)
      PROVE  FilesInv'
  <2>1. files_scr_' \in BOOLEAN
    <3>1. files_scr_' = FALSE \/ files_scr_' = files_scr_
      BY <1>7 DEF StartReply
    <3> QED BY <3>1, Zenon DEF FilesInv, ScreenOK
  <2>2. AsksOK' /\ StartsWhatWasTapped'
    BY <1>7 DEF FilesInv, StartReply, AsksOK, StartsWhatWasTapped, Job, NoCard, ErrorCard
  <2> QED BY <1>7, <2>1, <2>2 DEF FilesInv, StartReply, ScreenOK, CountOK, ListOK,
                                  RowsOK, MetasOK, MetaOnOwnRow
<1>8. CASE FilesLinkLost
  <2>1. ScreenOK' /\ CountOK'
    BY <1>8, FilesAssumption DEF FilesInv, FilesLinkLost, ScreenOK, CountOK
  <2> QED BY <1>8, <2>1 DEF FilesInv, FilesLinkLost, ListOK, AsksOK, RowsOK, MetasOK,
                            MetaOnOwnRow, StartsWhatWasTapped
<1>9. CASE UNCHANGED filesVars
  BY <1>9 DEF FilesInv, ScreenOK, CountOK, ListOK, AsksOK, RowsOK, MetasOK,
              MetaOnOwnRow, StartsWhatWasTapped
<1> QED BY <1>1, <1>2, <1>3, <1>4, <1>5, <1>6, <1>7, <1>8, <1>9 DEF FilesNext

\* The members of the Files screen keep their types: never more rows than
\* the cap of populate_files(), and never a generation past the requests.
THEOREM FilesTypeCorrect == FilesSpec => []FilesTypeOK
<1>1. FilesInv => FilesTypeOK
  BY TypeParts DEF FilesInv
<1> QED BY <1>1, FilesStart, FilesStep, PTL DEF FilesSpec

\* A metadata reply of populate_files() touches only the row that asked.
THEOREM OwnRow == FilesSpec => []MetaOnOwnRow
<1>1. FilesInv => MetaOnOwnRow
  BY DEF FilesInv
<1> QED BY <1>1, FilesStart, FilesStep, PTL DEF FilesSpec

\* What _file_row_cb puts on the card, and printer.print.start gets, is the
\* file named on the row that was tapped.
THEOREM TappedFile == FilesSpec => []StartsWhatWasTapped
<1>1. FilesInv => StartsWhatWasTapped
  BY DEF FilesInv
<1> QED BY <1>1, FilesStart, FilesStep, PTL DEF FilesSpec
=============================================================================
