---------------------------- MODULE SerialProofs ----------------------------
(***************************************************************************)
(* Proofs about Accounts and SharedFiles, for clients that wait for each   *)
(* other's answers.  When they also act on what they are shown: whatever   *)
(* fails and whoever is killed, listed files keep their content, the       *)
(* answers are true, and what is left behind in FastDFS and on the disk,   *)
(* and what is wrong in the counters, is paid for by failures.  Whatever   *)
(* they ask for: as long as nothing fails, the ranking does not run ahead  *)
(* of the downloads.                                                       *)
(***************************************************************************)
EXTENDS SharedFilesProofs

------------------------------------------------------------------------------
(* The rows of a table, and those of user_file_list for a content *)

\* A finite set with one more element.
LEMMA OneMore ==
  ASSUME NEW S, NEW x, IsFiniteSet(S)
  PROVE  /\ IsFiniteSet(S \cup {x})
         /\ Cardinality(S) \in Nat
         /\ Cardinality(S \cup {x}) <= Cardinality(S) + 1
<1>1. Cardinality(S) \in Nat
  BY FS_CardinalityType
<1> QED
  BY <1>1, FS_AddElement

LEMMA RowFacts ==
  ASSUME NEW t, NEW S
  PROVE  \A e : e \in RowsOf(t, S) <=> \E k \in S : e \in {k} \X (1..Len(t[k]))
  BY DEF RowsOf

\* A statement that keeps the number of rows of every key keeps the set of rows.
LEMMA RowsSame ==
  ASSUME NEW s, NEW t, NEW S, \A k \in S : Len(s[k]) = Len(t[k])
  PROVE  RowsOf(s, S) = RowsOf(t, S)
<1>1. \A k \in S : 1..Len(s[k]) = 1..Len(t[k])
  OBVIOUS
<1> QED
  BY <1>1 DEF RowsOf

\* An insert adds one row.
LEMMA RowsGrow ==
  ASSUME NEW K, NEW R, NEW t \in [K -> Seq(R)], NEW S \in SUBSET K, NEW k \in K,
         NEW r \in R, IsFiniteSet(RowsOf(t, S))
  PROVE  /\ IsFiniteSet(RowsOf(Insert(t, k, r), S))
         /\ k \in S => Cardinality(RowsOf(Insert(t, k, r), S)) = Cardinality(RowsOf(t, S)) + 1
         /\ k \notin S => RowsOf(Insert(t, k, r), S) = RowsOf(t, S)
<1> DEFINE s == Insert(t, k, r)
           n == Len(t[k]) + 1
<1>1. /\ Len(s[k]) = n /\ n - 1 = Len(t[k])
      /\ \A j \in K : j # k => s[j] = t[j]
  BY InsertFacts
<1>2. n \in Nat /\ n - 1 \in Nat
  OBVIOUS
<1> HIDE DEF s, n
<1>3. 1..n = (1..(n - 1)) \cup {n} /\ n \notin 1..(n - 1)
  BY <1>2
<1>4. {k} \X (1..n) = ({k} \X (1..(n - 1))) \cup {<<k, n>>}
  BY <1>3
<1>5. k \notin S => RowsOf(s, S) = RowsOf(t, S)
  BY <1>1, RowsSame
<1>6. ASSUME k \in S PROVE RowsOf(s, S) = RowsOf(t, S) \cup {<<k, n>>}
  <2>1. ASSUME NEW e \in RowsOf(s, S) PROVE e \in RowsOf(t, S) \cup {<<k, n>>}
    <3>1. PICK j \in S : e \in {j} \X (1..Len(s[j]))
      BY <2>1, RowFacts
    <3> QED
      BY <1>1, <1>4, <3>1, RowFacts
  <2>2. ASSUME NEW e \in RowsOf(t, S) PROVE e \in RowsOf(s, S)
    <3>1. PICK j \in S : e \in {j} \X (1..Len(t[j]))
      BY <2>2, RowFacts
    <3> QED
      BY <1>1, <1>4, <3>1, RowFacts
  <2>3. <<k, n>> \in RowsOf(s, S)
    BY <1>1, <1>4, <1>6, RowFacts
  <2> QED
    BY <2>1, <2>2, <2>3
<1>7. <<k, n>> \notin RowsOf(t, S)
  BY <1>1, <1>3, RowFacts
<1>8. /\ IsFiniteSet(RowsOf(t, S) \cup {<<k, n>>})
      /\ Cardinality(RowsOf(t, S) \cup {<<k, n>>}) = Cardinality(RowsOf(t, S)) + 1
  BY <1>7, FS_AddElement
<1>9. /\ IsFiniteSet(RowsOf(s, S))
      /\ k \in S => Cardinality(RowsOf(s, S)) = Cardinality(RowsOf(t, S)) + 1
  BY <1>5, <1>6, <1>8
<1> QED
  BY <1>5, <1>9 DEF s

\* A delete takes the rows of its key: at least one if it has rows, and exactly
\* one if it has one row.
LEMMA RowsDeleted ==
  ASSUME NEW K, NEW R, NEW t \in [K -> Seq(R)], NEW S \in SUBSET K, NEW k \in K,
         IsFiniteSet(RowsOf(t, S))
  PROVE  /\ IsFiniteSet(RowsOf(DeleteWhere(t, k), S))
         /\ k \in S /\ HasRow(t, k) =>
              Cardinality(RowsOf(DeleteWhere(t, k), S)) + 1 <= Cardinality(RowsOf(t, S))
         /\ Len(t[k]) <= 1 =>
              Cardinality(RowsOf(t, S)) <= Cardinality(RowsOf(DeleteWhere(t, k), S)) + 1
         /\ k \notin S => RowsOf(DeleteWhere(t, k), S) = RowsOf(t, S)
<1> DEFINE s == DeleteWhere(t, k)
<1>1. /\ Len(s[k]) = 0
      /\ \A j \in K : j # k => s[j] = t[j]
  BY DeleteFacts
<1> HIDE DEF s
<1>2. 1..Len(s[k]) = {}
  BY <1>1
<1>3. k \notin S => RowsOf(s, S) = RowsOf(t, S)
  BY <1>1, RowsSame
<1>4. ASSUME NEW e \in RowsOf(s, S) PROVE e \in RowsOf(t, S) \ {<<k, 1>>}
  <2>1. PICK j \in S : e \in {j} \X (1..Len(s[j]))
    BY <1>4, RowFacts
  <2>2. j # k
    BY <1>2, <2>1
  <2> QED
    BY <1>1, <2>1, <2>2, RowFacts
<1>5. k \in S /\ HasRow(t, k) => <<k, 1>> \in RowsOf(t, S)
  <2>1. HasRow(t, k) => 1 \in 1..Len(t[k])
    BY FirstRowFacts
  <2> QED
    BY <2>1, RowFacts
<1>6. /\ IsFiniteSet(RowsOf(t, S) \ {<<k, 1>>})
      /\ Cardinality(RowsOf(t, S)) \in Nat
      /\ k \in S /\ HasRow(t, k) =>
           Cardinality(RowsOf(t, S) \ {<<k, 1>>}) = Cardinality(RowsOf(t, S)) - 1
  BY <1>5, FS_RemoveElement, FS_CardinalityType
<1>7. /\ IsFiniteSet(RowsOf(s, S))
      /\ Cardinality(RowsOf(s, S)) <= Cardinality(RowsOf(t, S) \ {<<k, 1>>})
  BY <1>4, <1>6, FS_Subset
<1>8. k \in S /\ HasRow(t, k) => Cardinality(RowsOf(s, S)) + 1 <= Cardinality(RowsOf(t, S))
  BY <1>6, <1>7, FS_CardinalityType
<1>9. Len(t[k]) <= 1 => Cardinality(RowsOf(t, S)) <= Cardinality(RowsOf(s, S)) + 1
  <2> SUFFICES ASSUME Len(t[k]) <= 1
               PROVE  Cardinality(RowsOf(t, S)) <= Cardinality(RowsOf(s, S)) + 1
    OBVIOUS
  <2>1. ASSUME NEW e \in RowsOf(t, S) PROVE e \in RowsOf(s, S) \cup {<<k, 1>>}
    <3>1. PICK j \in S : e \in {j} \X (1..Len(t[j]))
      BY <2>1, RowFacts
    <3>2. Len(t[k]) \in Nat
      OBVIOUS
    <3>3. \A i \in 1..Len(t[k]) : i = 1
      BY <3>2
    <3> QED
      BY <1>1, <3>1, <3>3, RowFacts
  <2>2. /\ IsFiniteSet(RowsOf(s, S) \cup {<<k, 1>>})
        /\ Cardinality(RowsOf(s, S)) \in Nat
        /\ Cardinality(RowsOf(s, S) \cup {<<k, 1>>}) <= Cardinality(RowsOf(s, S)) + 1
    BY <1>7, OneMore
  <2>3. Cardinality(RowsOf(t, S)) <= Cardinality(RowsOf(s, S) \cup {<<k, 1>>})
    BY <2>1, <2>2, FS_Subset
  <2> QED
    BY <1>6, <2>2, <2>3, FS_CardinalityType
<1> QED
  BY <1>3, <1>7, <1>8, <1>9 DEF s

LEMMA EntryFacts ==
  ASSUME NEW m
  PROVE  \A e : e \in Entries(m) <=>
           \E k \in FileKey : k.md5 = m /\ e \in {k} \X (1..Len(user_file_list[k]))
  BY RowFacts DEF Entries, ContentKeys

\* A statement that keeps the number of rows of every file keeps the entries.
LEMMA EntriesSame ==
  ASSUME \A k \in FileKey : Len(user_file_list'[k]) = Len(user_file_list[k]), NEW m
  PROVE  Entries(m)' = Entries(m)
  BY RowsSame DEF Entries, ContentKeys

\* An insert adds one entry to its content and none to another.
LEMMA EntriesGrow ==
  ASSUME user_file_list \in [FileKey -> Seq({0, 1})], NEW k \in FileKey,
         user_file_list' = Insert(user_file_list, k, 0),
         NEW m, IsFiniteSet(Entries(m))
  PROVE  /\ IsFiniteSet(Entries(m)')
         /\ Cardinality(Entries(m)') <= Cardinality(Entries(m)) + 1
         /\ k.md5 # m => Entries(m)' = Entries(m)
<1> DEFINE R == {0, 1}
           S == ContentKeys(m)
<1>1. user_file_list \in [FileKey -> Seq(R)] /\ 0 \in R
  OBVIOUS
<1>2. S \in SUBSET FileKey /\ (k \in S <=> k.md5 = m)
  BY DEF ContentKeys
<1>3. Entries(m) = RowsOf(user_file_list, S) /\ Entries(m)' = RowsOf(user_file_list', S)
  BY DEF Entries
<1> HIDE DEF R, S
<1>4. /\ IsFiniteSet(Entries(m)')
      /\ k \in S => Cardinality(Entries(m)') = Cardinality(Entries(m)) + 1
      /\ k \notin S => Entries(m)' = Entries(m)
  BY <1>1, <1>2, <1>3, RowsGrow
<1> QED
  BY <1>2, <1>4, FS_CardinalityType

\* A delete takes at least one entry from the content of a listed file.
LEMMA EntriesDeleted ==
  ASSUME user_file_list \in [FileKey -> Seq({0, 1})], NEW k \in FileKey,
         user_file_list' = DeleteWhere(user_file_list, k), Listed(k),
         NEW m, IsFiniteSet(Entries(m))
  PROVE  /\ IsFiniteSet(Entries(m)')
         /\ k.md5 = m => Cardinality(Entries(m)') + 1 <= Cardinality(Entries(m))
         /\ k.md5 # m => Entries(m)' = Entries(m)
<1> DEFINE R == {0, 1}
           S == ContentKeys(m)
<1>1. user_file_list \in [FileKey -> Seq(R)]
  OBVIOUS
<1>2. S \in SUBSET FileKey /\ (k \in S <=> k.md5 = m)
  BY DEF ContentKeys
<1>3. Entries(m) = RowsOf(user_file_list, S) /\ Entries(m)' = RowsOf(user_file_list', S)
  BY DEF Entries
<1> HIDE DEF R, S
<1> QED
  BY <1>1, <1>2, <1>3, RowsDeleted DEF Listed

------------------------------------------------------------------------------
(* The rows of file_info *)

\* A content whose references are set has them, and no other content changes.
LEMMA ReferencesSet ==
  ASSUME file_info \in [Md5s -> Seq(FileRow)], NEW k \in Md5s, NEW n \in Int,
         file_info' = UpdateCountWhere(file_info, k, n)
  PROVE  /\ \A m \in Md5s : Len(file_info'[m]) = Len(file_info[m])
         /\ \A m \in Md5s : HasRow(file_info, m)' <=> HasRow(file_info, m)
         /\ HasRow(file_info, k) => CountedReferences(k)' = n
         /\ \A m \in Md5s : m # k => CountedReferences(m)' = CountedReferences(m)
<1> DEFINE s == [i \in 1..Len(file_info[k]) |-> [file_info[k][i] EXCEPT !.count = n]]
<1>1. file_info[k] \in Seq(FileRow) /\ Len(file_info[k]) \in Nat
  OBVIOUS
<1>2. s \in Seq(FileRow) /\ Len(s) = Len(file_info[k])
  <2>1. \A i \in 1..Len(file_info[k]) : [file_info[k][i] EXCEPT !.count = n] \in FileRow
    BY <1>1, SetCountFacts
  <2> QED
    BY <1>1, <2>1
<1>3. HasRow(file_info, k) => s # <<>> /\ s[1].count = n
  <2> SUFFICES ASSUME HasRow(file_info, k) PROVE s # <<>> /\ s[1].count = n
    OBVIOUS
  <2>1. 1 \in 1..Len(file_info[k]) /\ file_info[k][1] \in FileRow
    BY <1>1 DEF HasRow
  <2>2. s[1] = [file_info[k][1] EXCEPT !.count = n] /\ Len(s) # 0
    BY <1>2, <2>1
  <2>3. [file_info[k][1] EXCEPT !.count = n].count = n
    BY <2>1 DEF FileRow
  <2> HIDE DEF s
  <2> QED
    BY <2>2, <2>3, <1>2
<1>4. ~HasRow(file_info, k) => s = <<>>
  BY <1>2 DEF HasRow
<1>5. file_info' = [file_info EXCEPT ![k] = s]
  BY DEF UpdateCountWhere
<1> HIDE DEF s
<1>6. file_info'[k] = s /\ \A m \in Md5s : m # k => file_info'[m] = file_info[m]
  BY <1>5
<1>7. \A m \in Md5s : HasRow(file_info, m)' <=> HasRow(file_info, m)
  BY <1>3, <1>4, <1>6 DEF HasRow
<1>8. HasRow(file_info, k) => CountedReferences(k)' = n
  BY <1>3, <1>6, <1>7 DEF CountedReferences, FirstRow, HasRow
<1>9. \A m \in Md5s : m # k => CountedReferences(m)' = CountedReferences(m)
  BY <1>6 DEF CountedReferences, FirstRow, HasRow
<1> QED
  BY <1>2, <1>6, <1>7, <1>8, <1>9

\* The counts are integers, positive ones are those of stored contents.
LEMMA CountedFacts ==
  ASSUME TypeOK, NEW m \in Md5s
  PROVE  /\ CountedReferences(m) \in Int
         /\ CountedReferences(m) > 0 => HasRow(file_info, m)
         /\ HasRow(file_info, m) => CountedReferences(m) = FirstRow(file_info, m).count
<1>1. HasRow(file_info, m) => FirstRow(file_info, m) \in FileRow
  BY FirstRowFacts DEF TypeOK, TablesTypeOK
<1> QED
  BY <1>1 DEF CountedReferences, FileRow

LEMMA SameReferences ==
  ASSUME UNCHANGED file_info
  PROVE  /\ \A m : CountedReferences(m)' = CountedReferences(m)
         /\ \A m : HasRow(file_info, m)' <=> HasRow(file_info, m)
  BY DEF CountedReferences, FirstRow, HasRow

------------------------------------------------------------------------------
(* One program at a time *)

\* Where a program owes an entry.
OwingLabels == {"up_list", "md5_inslist", "del_selref", "del_ref", "sv_inslist"}

\* While a program is at work the others are idle, and what is owed, it owes.
LEMMA OthersIdle ==
  ASSUME TypeOK, OneAtATime, NEW p \in Programs, pc[p] # "idle"
  PROVE  /\ \A q \in Programs : q # p => pc[q] = "idle"
         /\ \A m : Owed(m) <=> pc[p] \in OwingLabels /\ loc[p].key.md5 = m
<1>1. \A q \in Programs : q # p => pc[q] = "idle"
  BY DEF OneAtATime
<1>l. pc[p] \in LabelsOf(p)
  BY DEF TypeOK, ControlTypeOK
<1>2. \A m : Owed(m) <=> pc[p] \in OwingLabels /\ loc[p].key.md5 = m
  <2>1. CASE p = "upload"
    BY <1>1, <1>l, <2>1, LabelFacts DEF Owed, OwingLabels, Programs, UploadLabels
  <2>2. CASE p = "md5"
    BY <1>1, <1>l, <2>2, LabelFacts DEF Owed, OwingLabels, Programs, Md5Labels
  <2>3. CASE p = "filesop"
    BY <1>1, <1>l, <2>3, LabelFacts DEF Owed, OwingLabels, Programs, DelLabels, ShareLabels, me
  <2>4. CASE p = "sharefilesop"
    BY <1>1, <1>l, <2>4, LabelFacts DEF Owed, OwingLabels, Programs, ShareOpLabels, op
  <2>5. CASE p = "sharefiles"
    BY <1>1, <1>l, <2>5, LabelFacts DEF Owed, OwingLabels, Programs, ShareListLabels
  <2> QED
    BY <2>1, <2>2, <2>3, <2>4, <2>5 DEF Programs
<1> QED
  BY <1>1, <1>2

\* A program at work takes a step: the others stay idle, and what is owed after
\* it, the program owes.
LEMMA AloneStep ==
  ASSUME TypeOK, TypeOK', OneAtATime, NEW p \in Programs, pc[p] # "idle",
         NEW l, NEW v, pc' = [pc EXCEPT ![p] = l], loc' = [loc EXCEPT ![p] = v]
  PROVE  /\ OneAtATime'
         /\ pc'[p] = l /\ loc'[p] = v
         /\ \A q \in Programs : q # p => pc[q] = "idle" /\ pc'[q] = "idle"
         /\ \A m : Owed(m)' <=> l \in OwingLabels /\ v.key.md5 = m
<1>1. /\ pc'[p] = l /\ loc'[p] = v
      /\ \A q \in Programs : q # p => pc[q] = "idle" /\ pc'[q] = "idle"
  BY OthersIdle DEF TypeOK, ControlTypeOK
<1>2. OneAtATime'
  BY <1>1 DEF OneAtATime
<1>l. pc'[p] \in {"idle"} \cup LabelsOf(p)
  BY DEF TypeOK, ControlTypeOK
<1>3. \A m : Owed(m)' <=> l \in OwingLabels /\ v.key.md5 = m
  <2>1. CASE p = "upload"
    BY <1>1, <1>l, <2>1, LabelFacts DEF Owed, OwingLabels, Programs, UploadLabels
  <2>2. CASE p = "md5"
    BY <1>1, <1>l, <2>2, LabelFacts DEF Owed, OwingLabels, Programs, Md5Labels
  <2>3. CASE p = "filesop"
    BY <1>1, <1>l, <2>3, LabelFacts DEF Owed, OwingLabels, Programs, DelLabels, ShareLabels, me
  <2>4. CASE p = "sharefilesop"
    BY <1>1, <1>l, <2>4, LabelFacts DEF Owed, OwingLabels, Programs, ShareOpLabels, op
  <2>5. CASE p = "sharefiles"
    BY <1>1, <1>l, <2>5, LabelFacts DEF Owed, OwingLabels, Programs, ShareListLabels
  <2> QED
    BY <2>1, <2>2, <2>3, <2>4, <2>5 DEF Programs
<1> QED
  BY <1>1, <1>2, <1>3

\* What the program p knows: the others know nothing while they are idle.
Knows(p) ==
  /\ p = "upload" => UploadKnows
  /\ p = "md5" => Md5Knows
  /\ p = "filesop" => DelKnows /\ ShareKnows
  /\ p = "sharefilesop" => CancelKnows /\ SaveKnows

LEMMA AloneKnows ==
  ASSUME NEW p \in Programs, \A q \in Programs : q # p => pc'[q] = "idle",
         Knows(p)', OneAtATime', \A m \in Md5s : Covered(m)', OneRow', AnswersTrue'
  PROVE  SerialInv'
<1>1. UploadKnows'
  BY DEF Programs, Knows, UploadKnows
<1>2. Md5Knows'
  BY DEF Programs, Knows, Md5Knows
<1>3. DelKnows' /\ ShareKnows'
  BY DEF Programs, Knows, DelKnows, ShareKnows
<1>4. CancelKnows' /\ SaveKnows'
  BY DEF Programs, Knows, CancelKnows, SaveKnows
<1> QED
  BY <1>1, <1>2, <1>3, <1>4 DEF SerialInv

\* A program that is idle knows nothing.
LEMMA IdleKnows ==
  ASSUME NEW p \in Programs, pc'[p] = "idle"
  PROVE  Knows(p)'
  BY DEF Knows, UploadKnows, Md5Knows, DelKnows, ShareKnows, CancelKnows, SaveKnows

\* A step that changes no reference count and no number of rows, and owes no
\* more, keeps the counts high enough.
LEMMA SameCover ==
  ASSUME TypeOK, SerialInv, UNCHANGED file_info,
         \A k \in FileKey : Len(user_file_list'[k]) = Len(user_file_list[k]),
         \A m \in Md5s : Owed(m)' => Owed(m)
  PROVE  (\A m \in Md5s : Covered(m)') /\ OneRow'
<1>1. OneRow'
  BY DEF SerialInv, OneRow
<1>2. ASSUME NEW m \in Md5s PROVE Covered(m)'
  <2>1. /\ IsFiniteSet(Entries(m))
        /\ Cardinality(Entries(m)) + (IF Owed(m) THEN 1 ELSE 0) <= CountedReferences(m)
    BY DEF SerialInv, Covered
  <2>2. Entries(m)' = Entries(m) /\ CountedReferences(m)' = CountedReferences(m)
    BY EntriesSame, SameReferences
  <2>3. Cardinality(Entries(m)) \in Nat /\ CountedReferences(m) \in Int
    BY <2>1, CountedFacts, FS_CardinalityType
  <2>4. /\ IsFiniteSet(Entries(m)')
        /\ Cardinality(Entries(m)') + (IF Owed(m)' THEN 1 ELSE 0) <= CountedReferences(m)'
    BY <2>1, <2>2, <2>3
  <2> QED
    BY <2>4 DEF Covered
<1> QED
  BY <1>1, <1>2

\* The answers that promise something.
Promises == {"004", "008", "010", "013", "018", "020"}

LEMMA NoPromise ==
  ASSUME NEW p, NEW c, Finish(p, c), c \notin Promises
  PROVE  AnswersTrue'
<1>1. reply'.code = c
  BY DEF Finish
<1> QED
  BY <1>1 DEF AnswersTrue, Promises

LEMMA NoAnswer ==
  ASSUME reply' = NoReply
  PROVE  AnswersTrue'
  BY DEF AnswersTrue

\* The program ends its request with a true answer, or is killed.
LEMMA EndedSerial ==
  ASSUME TypeOK, TypeOK', SerialInv, NEW p \in Programs, pc[p] # "idle",
         pc' = [pc EXCEPT ![p] = "idle"], loc' = [loc EXCEPT ![p] = Blank],
         UNCHANGED file_info, UNCHANGED user_file_list, AnswersTrue'
  PROVE  SerialInv'
<1>1. OneAtATime
  BY DEF SerialInv
<1>2. /\ OneAtATime' /\ \A q \in Programs : q # p => pc'[q] = "idle"
      /\ pc'[p] = "idle"
      /\ \A m : ~Owed(m)'
  BY <1>1, AloneStep DEF OwingLabels
<1>3. (\A m \in Md5s : Covered(m)') /\ OneRow'
  BY <1>2, SameCover
<1>4. Knows(p)'
  BY <1>2, IdleKnows
<1> QED
  BY <1>2, <1>3, <1>4, AloneKnows

\* The program fails: it answers with a code that promises nothing.
LEMMA FailedSerial ==
  ASSUME TypeOK, TypeOK', SerialInv, NEW p \in Programs, pc[p] # "idle", NEW c,
         Finish(p, c), c \notin Promises, UNCHANGED file_info, UNCHANGED user_file_list
  PROVE  SerialInv'
  BY NoPromise, EndedSerial DEF Finish

\* The program goes on, with rows and counts as they are.
LEMMA GoneOnSerial ==
  ASSUME TypeOK, TypeOK', SerialInv, NEW p \in Programs, pc[p] # "idle", NEW l, NEW v,
         Goto(p, l, v), UNCHANGED file_info,
         \A k \in FileKey : Len(user_file_list'[k]) = Len(user_file_list[k]),
         l \notin OwingLabels \/ (pc[p] \in OwingLabels /\ v.key = loc[p].key),
         Knows(p)'
  PROVE  SerialInv'
<1>1. OneAtATime
  BY DEF SerialInv
<1>2. /\ OneAtATime' /\ \A q \in Programs : q # p => pc'[q] = "idle"
      /\ \A m : Owed(m)' <=> l \in OwingLabels /\ v.key.md5 = m
  BY <1>1, AloneStep DEF Goto
<1>3. \A m : Owed(m) <=> pc[p] \in OwingLabels /\ loc[p].key.md5 = m
  BY <1>1, OthersIdle
<1>4. (\A m \in Md5s : Covered(m)') /\ OneRow'
  BY <1>2, <1>3, SameCover
<1>5. AnswersTrue'
  BY NoAnswer DEF Goto
<1> QED
  BY <1>2, <1>4, <1>5, AloneKnows

------------------------------------------------------------------------------
(* The steps that cgi_upload, cgi_md5 and save_file have in common *)

\* The entry that a program owes is inserted: it is listed, and stored.
LEMMA InsertedSerial ==
  ASSUME TypeOK, TypeOK', SerialInv, NEW p \in Programs, p # "sharefiles",
         pc[p] \in OwingLabels, NEW l, l \notin OwingLabels, Goto(p, l, loc[p]),
         user_file_list' = Insert(user_file_list, loc[p].key, 0), UNCHANGED file_info
  PROVE  /\ \A m \in Md5s : Covered(m)'
         /\ OneRow' /\ OneAtATime' /\ AnswersTrue'
         /\ \A q \in Programs : q # p => pc'[q] = "idle"
         /\ pc'[p] = l /\ loc'[p] = loc[p]
         /\ Listed(loc[p].key)' /\ Stored(loc[p].key)'
<1>1. OneAtATime /\ pc[p] # "idle"
  BY DEF SerialInv, OwingLabels
<1>4. PICK k \in FileKey : k = loc[p].key /\ k.md5 \in Md5s
  BY <1>1, AtWork DEF TypeOK
<1>2. /\ OneAtATime' /\ \A q \in Programs : q # p => pc'[q] = "idle"
      /\ pc'[p] = l /\ loc'[p] = loc[p]
      /\ \A m : ~Owed(m)'
  BY <1>1, AloneStep DEF Goto
<1>3. \A m : Owed(m) <=> k.md5 = m
  BY <1>1, <1>4, OthersIdle
<1>5. user_file_list \in [FileKey -> Seq({0, 1})]
  BY DEF TypeOK, TablesTypeOK
<1>6. user_file_list' = Insert(user_file_list, k, 0)
  BY <1>4
<1>7. ASSUME NEW m \in Md5s
      PROVE  Covered(m)' /\ (k.md5 = m => CountedReferences(m) > 0)
  <2>1. /\ IsFiniteSet(Entries(m))
        /\ Cardinality(Entries(m)) + (IF Owed(m) THEN 1 ELSE 0) <= CountedReferences(m)
    BY DEF SerialInv, Covered
  <2>2. CountedReferences(m)' = CountedReferences(m)
    BY SameReferences
  <2>3. Cardinality(Entries(m)) \in Nat /\ CountedReferences(m) \in Int
    BY <2>1, CountedFacts, FS_CardinalityType
  <2>4. /\ IsFiniteSet(Entries(m)')
        /\ Cardinality(Entries(m)') <= Cardinality(Entries(m)) + 1
        /\ k.md5 # m => Entries(m)' = Entries(m)
    BY <1>4, <1>5, <1>6, <2>1, EntriesGrow
  <2>5. Cardinality(Entries(m)') \in Nat
    BY <2>4, FS_CardinalityType
  <2>6. Cardinality(Entries(m)') + (IF Owed(m)' THEN 1 ELSE 0) <= CountedReferences(m)'
    <3>1. CASE k.md5 = m
      BY <1>2, <1>3, <2>1, <2>2, <2>3, <2>4, <2>5, <3>1
    <3>2. CASE k.md5 # m
      BY <1>2, <1>3, <2>1, <2>2, <2>3, <2>4, <2>5, <3>2
    <3> QED
      BY <3>1, <3>2
  <2>7. Covered(m)'
    BY <2>4, <2>6 DEF Covered
  <2> QED
    BY <1>3, <2>1, <2>3, <2>7
<1>8. HasRow(file_info', k.md5)
  BY <1>4, <1>7, CountedFacts, SameReferences
<1>9. HasRow(user_file_list', k)
  <2>1. user_file_list'[k] = Append(user_file_list[k], 0) /\ user_file_list[k] \in Seq({0, 1})
    BY <1>4, <1>5, <1>6 DEF Insert
  <2>2. user_file_list'[k] # <<>>
    BY <2>1
  <2> QED
    BY <2>2 DEF HasRow
<1>10. OneRow'
  BY DEF SerialInv, OneRow
<1>11. AnswersTrue'
  BY NoAnswer DEF Goto
<1> QED
  BY <1>2, <1>4, <1>7, <1>8, <1>9, <1>10, <1>11 DEF Listed, Stored

\* A program that has read the references of a stored content counts one more,
\* which it owes.
LEMMA CountedSerial ==
  ASSUME TypeOK, TypeOK', SerialInv, NEW p \in Programs, p # "sharefiles",
         pc[p] # "idle", pc[p] \notin OwingLabels, NEW l \in OwingLabels, Goto(p, l, loc[p]),
         HasRow(file_info, loc[p].key.md5),
         loc[p].count = CountedReferences(loc[p].key.md5),
         file_info' = UpdateCountWhere(file_info, loc[p].key.md5, loc[p].count + 1),
         UNCHANGED user_file_list
  PROVE  /\ \A m \in Md5s : Covered(m)'
         /\ OneRow' /\ OneAtATime' /\ AnswersTrue'
         /\ \A q \in Programs : q # p => pc'[q] = "idle"
         /\ pc'[p] = l
<1>4. PICK h \in Md5s, n \in Int : h = loc[p].key.md5 /\ n = loc[p].count
  BY AtWork DEF TypeOK
<1>1. OneAtATime
  BY DEF SerialInv
<1>2. /\ OneAtATime' /\ \A q \in Programs : q # p => pc'[q] = "idle"
      /\ pc'[p] = l
      /\ \A m : Owed(m)' <=> h = m
  BY <1>1, <1>4, AloneStep DEF Goto
<1>3. \A m : ~Owed(m)
  BY <1>1, OthersIdle
<1>5. file_info \in [Md5s -> Seq(FileRow)]
  BY DEF TypeOK, TablesTypeOK
<1>6. /\ file_info' = UpdateCountWhere(file_info, h, n + 1)
      /\ HasRow(file_info, h) /\ n = CountedReferences(h)
  BY <1>4
<1>7. /\ \A m \in Md5s : Len(file_info'[m]) = Len(file_info[m])
      /\ CountedReferences(h)' = n + 1
      /\ \A m \in Md5s : m # h => CountedReferences(m)' = CountedReferences(m)
  BY <1>4, <1>5, <1>6, ReferencesSet
<1>8. ASSUME NEW m \in Md5s PROVE Covered(m)'
  <2>1. /\ IsFiniteSet(Entries(m))
        /\ Cardinality(Entries(m)) + (IF Owed(m) THEN 1 ELSE 0) <= CountedReferences(m)
    BY DEF SerialInv, Covered
  <2>2. Entries(m)' = Entries(m)
    BY EntriesSame
  <2>3. Cardinality(Entries(m)) \in Nat /\ CountedReferences(m) \in Int
    BY <2>1, CountedFacts, FS_CardinalityType
  <2>4. Cardinality(Entries(m)') + (IF Owed(m)' THEN 1 ELSE 0) <= CountedReferences(m)'
    <3>1. CASE h = m
      BY <1>2, <1>3, <1>6, <1>7, <2>1, <2>2, <2>3, <3>1
    <3>2. CASE h # m
      BY <1>2, <1>3, <1>7, <2>1, <2>2, <2>3, <3>2
    <3> QED
      BY <3>1, <3>2
  <2> QED
    BY <2>1, <2>2, <2>4 DEF Covered
<1>9. OneRow'
  BY <1>7 DEF SerialInv, OneRow
<1>10. AnswersTrue'
  BY NoAnswer DEF Goto
<1> QED
  BY <1>2, <1>8, <1>9, <1>10

\* The select of a count changes locals alone.
LEMMA SelectsCount ==
  ASSUME ControlTypeOK, NEW p \in Programs, NEW a, NEW from, NEW to,
         SelectCountToAdd(p, a, from, to)
  PROVE  /\ pc[p] = from
         /\ \E v : Goto(p, to, v) /\ v.key = loc[p].key
         /\ UNCHANGED <<mysql, redis, fdfs>>
<1>1. loc[p] \in Locals
  BY DEF ControlTypeOK
<1>2. /\ \A n : [loc[p] EXCEPT !.sql = "update", !.count = n].key = loc[p].key
      /\ [loc[p] EXCEPT !.sql = "insert"].key = loc[p].key
      /\ [loc[p] EXCEPT !.sql = "select"].key = loc[p].key
  BY <1>1 DEF Locals
<1> QED
  BY <1>2 DEF SelectCountToAdd

------------------------------------------------------------------------------
(* cgi_upload *)

\* A content that is not stored has no entries, so that its first row covers
\* the entry that cgi_upload is going to insert.
LEMMA UploadInfoSerial ==
  ASSUME TypeOK, TypeOK', SerialInv, UploadInsertInfo
  PROVE  SerialInv'
<1>p. "upload" \in Programs /\ pc["upload"] = "up_info"
  BY DEF Programs, UploadInsertInfo
<1>1. OneAtATime /\ ~HasRow(file_info, loc["upload"].key.md5)
  BY <1>p DEF SerialInv, UploadKnows, Stored
<1>2. PICK h \in Md5s : h = loc["upload"].key.md5
  BY <1>p, AtWork DEF TypeOK
<1>u. UNCHANGED user_file_list
  BY DEF UploadInsertInfo
<1>3. ASSUME NEW r, r.count = 1, file_info' = Insert(file_info, h, r),
             Goto("upload", "up_list", loc["upload"])
      PROVE  SerialInv'
  <2>1. /\ OneAtATime' /\ \A q \in Programs : q # "upload" => pc'[q] = "idle"
        /\ pc'["upload"] = "up_list"
        /\ \A m : Owed(m)' <=> h = m
    <3>1. /\ pc' = [pc EXCEPT !["upload"] = "up_list"]
          /\ loc' = [loc EXCEPT !["upload"] = loc["upload"]]
          /\ "up_list" \in OwingLabels
      BY <1>3 DEF Goto, OwingLabels
    <3> QED
      BY <1>1, <1>2, <1>p, <3>1, AloneStep
  <2>2. \A m : ~Owed(m)
    BY <1>1, <1>p, OthersIdle DEF OwingLabels
  <2>3. /\ file_info[h] = <<>> /\ file_info'[h] = Append(<<>>, r)
        /\ \A m \in Md5s : m # h => file_info'[m] = file_info[m]
    BY <1>1, <1>2, <1>3 DEF Insert, HasRow, TypeOK, TablesTypeOK
  <2>a. /\ file_info'[h] # <<>> /\ file_info'[h][1] = r /\ Len(file_info'[h]) = 1
    <3>1. <<>> \in Seq({r})
      OBVIOUS
    <3> QED
      BY <2>3, <3>1
  <2>4. CountedReferences(h) = 0 /\ CountedReferences(h)' = 1
    BY <1>3, <2>3, <2>a DEF CountedReferences, HasRow, FirstRow
  <2>5. OneRow'
    <3> SUFFICES ASSUME NEW m \in Md5s PROVE Len(file_info'[m]) <= 1
      BY DEF OneRow
    <3>1. CASE m = h
      <4>1. Len(file_info'[m]) = 1
        BY <2>a, <3>1
      <4> QED
        BY <4>1
    <3>2. CASE m # h
      BY <2>3, <3>2 DEF SerialInv, OneRow
    <3> QED
      BY <3>1, <3>2
  <2>6. ASSUME NEW m \in Md5s PROVE Covered(m)'
    <3>1. /\ IsFiniteSet(Entries(m))
          /\ Cardinality(Entries(m)) + (IF Owed(m) THEN 1 ELSE 0) <= CountedReferences(m)
      BY DEF SerialInv, Covered
    <3>2. Entries(m)' = Entries(m)
      BY <1>u, EntriesSame
    <3>3. Cardinality(Entries(m)) \in Nat /\ CountedReferences(m) \in Int
      BY <3>1, CountedFacts, FS_CardinalityType
    <3>4. m # h => CountedReferences(m)' = CountedReferences(m)
      BY <2>3 DEF CountedReferences, HasRow, FirstRow
    <3>5. Cardinality(Entries(m)') + (IF Owed(m)' THEN 1 ELSE 0) <= CountedReferences(m)'
      <4>1. CASE h = m
        BY <2>1, <2>2, <2>4, <3>1, <3>2, <3>3, <4>1
      <4>2. CASE h # m
        BY <2>1, <2>2, <3>1, <3>2, <3>3, <3>4, <4>2
      <4> QED
        BY <4>1, <4>2
    <3> QED
      BY <3>1, <3>2, <3>5 DEF Covered
  <2>7. AnswersTrue'
    BY <1>3, NoAnswer DEF Goto
  <2>8. Knows("upload")'
    BY <2>1 DEF Knows, UploadKnows
  <2> QED
    BY <1>p, <2>1, <2>5, <2>6, <2>7, <2>8, AloneKnows
<1>4. CASE Finish("upload", "009") /\ UNCHANGED file_info
  BY <1>p, <1>u, <1>4, FailedSerial DEF Promises
<1> QED
  BY <1>2, <1>3, <1>4 DEF UploadInsertInfo

LEMMA UploadSerial ==
  ASSUME TypeOK, TypeOK', SerialInv, UploadStep
  PROVE  SerialInv'
<1>p. "upload" \in Programs
  BY DEF Programs
<1>f. \A c : (Fault \/ NoFault) /\ Finish("upload", c) /\ UNCHANGED <<file_info, user_file_list>>
               /\ c = "009" /\ pc["upload"] # "idle" => SerialInv'
  BY <1>p, FailedSerial DEF Promises
<1>g. ASSUME NEW l \in {"up_dstorage", "up_url", "up_info", "up_count"}, NEW v,
             Goto("upload", l, v), v.key = loc["upload"].key,
             UNCHANGED <<file_info, user_file_list>>,
             pc["upload"] \in {"up_recv", "up_dstorage", "up_url"} \/ l = "up_count",
             l = "up_count" => pc["upload"] = "up_selcount"
      PROVE  SerialInv'
  <2>1. pc["upload"] # "idle" /\ l \notin OwingLabels
    BY <1>g DEF OwingLabels
  <2>2. pc'["upload"] = l /\ loc'["upload"].key = loc["upload"].key
    BY <1>g, <1>p, GotoFacts DEF TypeOK
  <2>3. UploadKnows
    BY DEF SerialInv
  <2>4. Knows("upload")'
    BY <1>g, <2>2, <2>3 DEF Knows, UploadKnows, Stored, Listed, HasRow
  <2> QED
    BY <1>p, <1>g, <2>1, <2>4, GoneOnSerial
<1>k. pc["upload"] # "idle" => loc["upload"] \in Locals
  BY <1>p, AtWork DEF TypeOK
<1>1. CASE UploadRecv
  BY <1>1, <1>f, <1>g DEF UploadRecv, mysql
<1>2. CASE UploadDstorage
  <2>1. \A f \in FileIds : [loc["upload"] EXCEPT !.fileid = f].key = loc["upload"].key
    BY <1>2, <1>k, LocalsFileid DEF UploadDstorage
  <2>2. CASE \E f \in FileIds : Goto("upload", "up_url", [loc["upload"] EXCEPT !.fileid = f])
    BY <1>2, <1>g, <2>1, <2>2 DEF UploadDstorage, mysql
  <2>3. CASE Goto("upload", "up_url", loc["upload"])
    BY <1>2, <1>g, <2>3 DEF UploadDstorage, mysql
  <2>4. CASE Fault /\ Finish("upload", "009")
    BY <1>2, <1>f, <2>4 DEF UploadDstorage, mysql
  <2> QED
    BY <1>2, <2>2, <2>3, <2>4 DEF UploadDstorage
<1>3. CASE UploadUrl
  <2> DEFINE v == [loc["upload"] EXCEPT !.url = Append(@, loc["upload"].fileid)]
  <2>1. v.key = loc["upload"].key
    BY <1>3, <1>k DEF UploadUrl, Locals
  <2>2. \/ Goto("upload", "up_info", v)
        \/ Fault /\ Finish("upload", "009")
    BY <1>3 DEF UploadUrl
  <2> HIDE DEF v
  <2> QED
    BY <1>3, <1>f, <1>g, <2>1, <2>2 DEF UploadUrl, mysql
<1>4. CASE UploadInsertInfo
  BY <1>4, UploadInfoSerial
<1>5. CASE UploadInsertList
  <2>1. CASE Goto("upload", "up_selcount", loc["upload"])
             /\ user_file_list' = Insert(user_file_list, loc["upload"].key, 0)
    <3>1. /\ \A m \in Md5s : Covered(m)'
          /\ OneRow' /\ OneAtATime' /\ AnswersTrue'
          /\ \A q \in Programs : q # "upload" => pc'[q] = "idle"
          /\ pc'["upload"] = "up_selcount" /\ loc'["upload"] = loc["upload"]
          /\ Listed(loc["upload"].key)' /\ Stored(loc["upload"].key)'
      BY <1>5, <1>p, <2>1, InsertedSerial DEF UploadInsertList, OwingLabels
    <3>2. Knows("upload")'
      BY <3>1 DEF Knows, UploadKnows
    <3> QED
      BY <1>p, <3>1, <3>2, AloneKnows
  <2>2. CASE Fault /\ Finish("upload", "009") /\ UNCHANGED user_file_list
    BY <1>5, <1>f, <2>2 DEF UploadInsertList
  <2> QED
    BY <1>5, <2>1, <2>2 DEF UploadInsertList
<1>6. CASE UploadSelectCount
  <2>1. /\ pc["upload"] = "up_selcount"
        /\ \E v : Goto("upload", "up_count", v) /\ v.key = loc["upload"].key
        /\ UNCHANGED <<mysql, redis, fdfs>>
    BY <1>6, <1>p, SelectsCount DEF UploadSelectCount, TypeOK
  <2> QED
    BY <1>g, <2>1 DEF mysql
<1>7. CASE UploadSetCount
  <2>1. pc["upload"] = "up_count" /\ UNCHANGED <<file_info, user_file_list>>
    BY <1>7 DEF UploadSetCount
  <2>2. CASE Finish("upload", "008")
    <3>1. Listed(loc["upload"].key) /\ Stored(loc["upload"].key)
      BY <2>1 DEF SerialInv, UploadKnows
    <3>2. reply'.code = "008" /\ reply'.key = loc["upload"].key
      BY <2>2 DEF Finish
    <3>3. AnswersTrue'
      BY <2>1, <3>1, <3>2 DEF AnswersTrue, Listed, Stored, HasRow
    <3> QED
      BY <1>p, <2>1, <2>2, <3>3, EndedSerial DEF Finish
  <2>3. CASE (Fault \/ NoFault) /\ Finish("upload", "009")
    BY <1>f, <2>1, <2>3
  <2> QED
    BY <1>7, <2>2, <2>3 DEF UploadSetCount
<1> QED
  BY <1>1, <1>2, <1>3, <1>4, <1>5, <1>6, <1>7 DEF UploadStep

------------------------------------------------------------------------------
(* cgi_md5 *)

LEMMA Md5Serial ==
  ASSUME TypeOK, TypeOK', SerialInv, Md5Step
  PROVE  SerialInv'
<1>p. "md5" \in Programs
  BY DEF Programs
<1>w. pc["md5"] # "idle"
  BY DEF Md5Step, Md5SelectInfo, Md5SelectList, Md5AddReference, Md5InsertList,
         Md5SelectCount, SelectCountToAdd, Md5SetCount
<1>k. /\ loc["md5"] \in Locals /\ loc["md5"].key \in FileKey
      /\ loc["md5"].key.md5 \in Md5s
  BY <1>p, <1>w, AtWork DEF TypeOK
<1>f. ASSUME NEW c \in {"005", "006"}, Finish("md5", c), UNCHANGED <<file_info, user_file_list>>
      PROVE  SerialInv'
  BY <1>f, <1>p, <1>w, FailedSerial DEF Promises
<1>g. ASSUME NEW l \in {"md5_list", "md5_addref", "md5_count"}, NEW v, Goto("md5", l, v),
             UNCHANGED <<file_info, user_file_list>>,
             l \in {"md5_list", "md5_addref"} =>
               Stored(v.key) /\ v.count = CountedReferences(v.key.md5)
      PROVE  SerialInv'
  <2>1. l \notin OwingLabels
    BY DEF OwingLabels
  <2>2. pc'["md5"] = l /\ loc'["md5"] = v
    BY <1>g, <1>p, GotoFacts DEF TypeOK
  <2>3. Knows("md5")'
    BY <1>g, <2>2 DEF Knows, Md5Knows, Stored, HasRow, CountedReferences, FirstRow
  <2> QED
    BY <1>p, <1>w, <1>g, <2>1, <2>3, GoneOnSerial
<1>1. CASE Md5SelectInfo
  <2>1. CASE /\ HasRow(file_info, loc["md5"].key.md5)
             /\ Goto("md5", "md5_list",
                     [loc["md5"] EXCEPT !.count = FirstRow(file_info, loc["md5"].key.md5).count])
    <3> DEFINE n == FirstRow(file_info, loc["md5"].key.md5).count
               v == [loc["md5"] EXCEPT !.count = n]
    <3>1. n = CountedReferences(loc["md5"].key.md5)
      BY <1>k, <2>1, CountedFacts
    <3>2. v.key = loc["md5"].key /\ v.count = n
      BY <1>k DEF Locals
    <3>3. Goto("md5", "md5_list", v) /\ UNCHANGED <<file_info, user_file_list>>
      BY <1>1, <2>1 DEF Md5SelectInfo, mysql
    <3>4. Stored(v.key)
      BY <2>1, <3>2 DEF Stored
    <3> HIDE DEF v, n
    <3> QED
      BY <1>g, <3>1, <3>2, <3>3, <3>4
  <2>2. CASE Finish("md5", "006") \/ Finish("md5", "005")
    BY <1>1, <1>f, <2>2 DEF Md5SelectInfo, mysql
  <2> QED
    BY <1>1, <2>1, <2>2 DEF Md5SelectInfo
<1>2. CASE Md5SelectList
  <2>u. UNCHANGED <<file_info, user_file_list>> /\ pc["md5"] = "md5_list"
    BY <1>2 DEF Md5SelectList, mysql
  <2>1. CASE HasRow(user_file_list, loc["md5"].key) /\ Finish("md5", "004")
    <3>1. reply'.code = "004" /\ reply'.key = loc["md5"].key
      BY <2>1 DEF Finish
    <3>2. AnswersTrue'
      BY <2>1, <2>u, <3>1 DEF AnswersTrue, Listed, HasRow
    <3> QED
      BY <1>p, <1>w, <2>1, <2>u, <3>2, EndedSerial DEF Finish
  <2>2. CASE Goto("md5", "md5_addref", loc["md5"])
    <3>1. Stored(loc["md5"].key) /\ loc["md5"].count = CountedReferences(loc["md5"].key.md5)
      BY <2>u DEF SerialInv, Md5Knows
    <3> QED
      BY <1>g, <2>2, <2>u, <3>1
  <2> QED
    BY <1>2, <2>1, <2>2 DEF Md5SelectList
<1>3. CASE Md5AddReference
  <2>1. CASE /\ file_info' = UpdateCountWhere(file_info, loc["md5"].key.md5,
                                               loc["md5"].count + 1)
             /\ Goto("md5", "md5_inslist", loc["md5"])
    <3>1. /\ HasRow(file_info, loc["md5"].key.md5)
          /\ loc["md5"].count = CountedReferences(loc["md5"].key.md5)
      BY <1>3 DEF SerialInv, Md5Knows, Md5AddReference, Stored
    <3>2. /\ \A m \in Md5s : Covered(m)'
          /\ OneRow' /\ OneAtATime' /\ AnswersTrue'
          /\ \A q \in Programs : q # "md5" => pc'[q] = "idle"
          /\ pc'["md5"] = "md5_inslist"
      BY <1>3, <1>p, <2>1, <3>1, CountedSerial DEF Md5AddReference, OwingLabels
    <3>3. Knows("md5")'
      BY <3>2 DEF Knows, Md5Knows
    <3> QED
      BY <1>p, <3>2, <3>3, AloneKnows
  <2>2. CASE Finish("md5", "006") /\ UNCHANGED file_info
    BY <1>3, <1>f, <2>2 DEF Md5AddReference
  <2> QED
    BY <1>3, <2>1, <2>2 DEF Md5AddReference
<1>4. CASE Md5InsertList
  <2>1. CASE Goto("md5", "md5_selcount", loc["md5"])
             /\ user_file_list' = Insert(user_file_list, loc["md5"].key, 0)
    <3>1. /\ \A m \in Md5s : Covered(m)'
          /\ OneRow' /\ OneAtATime' /\ AnswersTrue'
          /\ \A q \in Programs : q # "md5" => pc'[q] = "idle"
          /\ pc'["md5"] = "md5_selcount"
      BY <1>4, <1>p, <2>1, InsertedSerial DEF Md5InsertList, OwingLabels
    <3>2. Knows("md5")'
      BY <3>1 DEF Knows, Md5Knows
    <3> QED
      BY <1>p, <3>1, <3>2, AloneKnows
  <2>2. CASE Finish("md5", "006") /\ UNCHANGED user_file_list
    BY <1>4, <1>f, <2>2 DEF Md5InsertList
  <2> QED
    BY <1>4, <2>1, <2>2 DEF Md5InsertList
<1>5. CASE Md5SelectCount
  <2>1. /\ \E v : Goto("md5", "md5_count", v)
        /\ UNCHANGED <<mysql, redis, fdfs>>
    BY <1>5, <1>p, SelectsCount DEF Md5SelectCount, TypeOK
  <2> QED
    BY <1>g, <2>1 DEF mysql
<1>6. CASE Md5SetCount
  BY <1>6, <1>f DEF Md5SetCount
<1> QED
  BY <1>1, <1>2, <1>3, <1>4, <1>5, <1>6 DEF Md5Step

------------------------------------------------------------------------------
(* cgi_filesop *)

BeforeList == {"del_zexit", "del_status", "del_share", "del_selshares", "del_shares",
               "del_zrem", "del_hdel", "del_selcount", "del_count", "del_list"}
AfterShare == {"sh_selcount", "sh_count", "sh_zadd", "sh_hset"}

\* del_file goes on and leaves the file listed.
LEMMA DelGoesOn ==
  ASSUME TypeOK, TypeOK', SerialInv, NEW l \in BeforeList, NEW v, Goto("filesop", l, v),
         v.key = me.key, pc["filesop"] \in BeforeList, UNCHANGED <<file_info, user_file_list>>
  PROVE  SerialInv'
<1>p. "filesop" \in Programs /\ pc["filesop"] # "idle" /\ l \notin OwingLabels
  BY DEF Programs, BeforeList, OwingLabels
<1>1. pc'["filesop"] = l /\ loc'["filesop"].key = me.key
  BY <1>p, GotoFacts DEF TypeOK, me
<1>2. Listed(me.key)
  BY DEF SerialInv, DelKnows, BeforeList
<1>3. Knows("filesop")'
  BY <1>1, <1>2 DEF Knows, DelKnows, ShareKnows, BeforeList, Listed, HasRow, me
<1> QED
  BY <1>p, <1>3, GoneOnSerial

\* cgi_filesop fails, or answers that the file has been shared.
LEMMA FilesOpFailed ==
  ASSUME TypeOK, TypeOK', SerialInv, pc["filesop"] # "idle",
         NEW c \in {"011", "012", "014"}, Finish("filesop", c),
         UNCHANGED <<file_info, user_file_list>>
  PROVE  SerialInv'
  BY FailedSerial DEF Promises, Programs

\* The entry is deleted while it is still counted.
LEMMA DelListSerial ==
  ASSUME TypeOK, TypeOK', SerialInv, DelList
  PROVE  SerialInv'
<1>p. "filesop" \in Programs /\ pc["filesop"] = "del_list"
  BY DEF Programs, DelList
<1>1. OneAtATime /\ Listed(me.key)
  BY <1>p DEF SerialInv, DelKnows
<1>2. PICK k \in FileKey : k = me.key /\ k.md5 \in Md5s
  BY <1>p, AtWork DEF TypeOK, me
<1>u. UNCHANGED file_info
  BY DEF DelList
<1>3. CASE /\ user_file_list' = DeleteWhere(user_file_list, me.key)
           /\ Goto("filesop", "del_selref", me)
  <2>1. /\ OneAtATime' /\ \A q \in Programs : q # "filesop" => pc'[q] = "idle"
        /\ pc'["filesop"] = "del_selref" /\ loc'["filesop"] = me
        /\ \A m : Owed(m)' <=> k.md5 = m
    <3>1. /\ pc' = [pc EXCEPT !["filesop"] = "del_selref"]
          /\ loc' = [loc EXCEPT !["filesop"] = me]
          /\ "del_selref" \in OwingLabels /\ pc["filesop"] # "idle"
      BY <1>3, <1>p DEF Goto, OwingLabels
    <3>2. /\ OneAtATime' /\ \A q \in Programs : q # "filesop" => pc'[q] = "idle"
          /\ pc'["filesop"] = "del_selref" /\ loc'["filesop"] = me
          /\ \A m : Owed(m)' <=> "del_selref" \in OwingLabels /\ me.key.md5 = m
      BY <1>1, <1>p, <3>1, AloneStep
    <3> QED
      BY <1>2, <3>1, <3>2
  <2>2. \A m : ~Owed(m)
    BY <1>1, <1>p, OthersIdle DEF OwingLabels
  <2>3. /\ user_file_list \in [FileKey -> Seq({0, 1})]
        /\ user_file_list' = DeleteWhere(user_file_list, k) /\ Listed(k)
    BY <1>1, <1>2, <1>3 DEF TypeOK, TablesTypeOK
  <2>4. ASSUME NEW m \in Md5s PROVE Covered(m)'
    <3>1. /\ IsFiniteSet(Entries(m))
          /\ Cardinality(Entries(m)) + (IF Owed(m) THEN 1 ELSE 0) <= CountedReferences(m)
      BY DEF SerialInv, Covered
    <3>2. /\ IsFiniteSet(Entries(m)')
          /\ k.md5 = m => Cardinality(Entries(m)') + 1 <= Cardinality(Entries(m))
          /\ k.md5 # m => Entries(m)' = Entries(m)
      BY <2>3, <3>1, EntriesDeleted
    <3>3. /\ Cardinality(Entries(m)) \in Nat /\ CountedReferences(m) \in Int
          /\ Cardinality(Entries(m)') \in Nat
      BY <3>1, <3>2, CountedFacts, FS_CardinalityType
    <3>4. CountedReferences(m)' = CountedReferences(m)
      BY <1>u, SameReferences
    <3>5. Cardinality(Entries(m)') + (IF Owed(m)' THEN 1 ELSE 0) <= CountedReferences(m)'
      <4>1. CASE k.md5 = m
        BY <2>1, <2>2, <3>1, <3>2, <3>3, <3>4, <4>1
      <4>2. CASE k.md5 # m
        BY <2>1, <2>2, <3>1, <3>2, <3>3, <3>4, <4>2
      <4> QED
        BY <4>1, <4>2
    <3> QED
      BY <3>2, <3>5 DEF Covered
  <2>5. OneRow'
    BY <1>u DEF SerialInv, OneRow
  <2>6. AnswersTrue'
    BY <1>3, NoAnswer DEF Goto
  <2>7. ~HasRow(user_file_list', k)
    BY <2>3 DEF DeleteWhere, HasRow
  <2>8. Knows("filesop")'
    BY <1>2, <2>1, <2>7 DEF Knows, DelKnows, ShareKnows, Listed, me
  <2> QED
    BY <1>p, <2>1, <2>4, <2>5, <2>6, <2>8, AloneKnows
<1>4. CASE FilesOpFails("014") /\ UNCHANGED user_file_list
  BY <1>4, <1>p, <1>u, FilesOpFailed DEF FilesOpFails
<1> QED
  BY <1>3, <1>4 DEF DelList

\* The count goes down to the entries that are left.
LEMMA DelReferenceSerial ==
  ASSUME TypeOK, TypeOK', SerialInv, DelSetReference
  PROVE  SerialInv'
<1>p. "filesop" \in Programs /\ pc["filesop"] = "del_ref"
  BY DEF Programs, DelSetReference
<1>1. /\ OneAtATime /\ ~Listed(me.key)
      /\ me.count = CountedReferences(me.key.md5) - 1
  BY <1>p DEF SerialInv, DelKnows
<1>2. PICK h \in Md5s, n \in Int : h = me.key.md5 /\ n = me.count
  BY <1>p, AtWork DEF TypeOK, me
<1>u. UNCHANGED user_file_list
  BY DEF DelSetReference
<1>3. ASSUME NEW l, NEW v, file_info' = UpdateCountWhere(file_info, h, n),
             pc' = [pc EXCEPT !["filesop"] = l], loc' = [loc EXCEPT !["filesop"] = v],
             l \notin OwingLabels
      PROVE  /\ \A m \in Md5s : Covered(m)'
             /\ OneRow' /\ OneAtATime' /\ CountedReferences(h)' = n
             /\ \A q \in Programs : q # "filesop" => pc'[q] = "idle"
             /\ pc'["filesop"] = l /\ loc'["filesop"] = v
  <2>1. /\ OneAtATime' /\ \A q \in Programs : q # "filesop" => pc'[q] = "idle"
        /\ pc'["filesop"] = l /\ loc'["filesop"] = v
        /\ \A m : ~Owed(m)'
    BY <1>1, <1>3, <1>p, AloneStep
  <2>2. \A m : Owed(m) <=> h = m
    BY <1>1, <1>2, <1>p, OthersIdle DEF OwingLabels, me
  <2>3. ASSUME NEW m \in Md5s
        PROVE  /\ IsFiniteSet(Entries(m))
               /\ Cardinality(Entries(m)) + (IF Owed(m) THEN 1 ELSE 0) <= CountedReferences(m)
               /\ Cardinality(Entries(m)) \in Nat /\ CountedReferences(m) \in Int
    <3>1. /\ IsFiniteSet(Entries(m))
          /\ Cardinality(Entries(m)) + (IF Owed(m) THEN 1 ELSE 0) <= CountedReferences(m)
      BY DEF SerialInv, Covered
    <3> QED
      BY <3>1, CountedFacts, FS_CardinalityType
  <2>4. HasRow(file_info, h)
    <3>1. CountedReferences(h) > 0
      BY <2>2, <2>3
    <3> QED
      BY <3>1, CountedFacts
  <2>5. /\ \A m \in Md5s : Len(file_info'[m]) = Len(file_info[m])
        /\ CountedReferences(h)' = n
        /\ \A m \in Md5s : m # h => CountedReferences(m)' = CountedReferences(m)
    BY <1>3, <2>4, ReferencesSet DEF TypeOK, TablesTypeOK
  <2>6. ASSUME NEW m \in Md5s PROVE Covered(m)'
    <3>2. Entries(m)' = Entries(m)
      BY <1>u, EntriesSame
    <3>5. Cardinality(Entries(m)') + (IF Owed(m)' THEN 1 ELSE 0) <= CountedReferences(m)'
      <4>1. CASE h = m
        BY <1>1, <1>2, <2>1, <2>2, <2>3, <2>5, <3>2, <4>1
      <4>2. CASE h # m
        BY <2>1, <2>2, <2>3, <2>5, <3>2, <4>2
      <4> QED
        BY <4>1, <4>2
    <3> QED
      BY <2>3, <3>2, <3>5 DEF Covered
  <2>7. OneRow'
    BY <2>5 DEF SerialInv, OneRow
  <2> QED
    BY <2>1, <2>5, <2>6, <2>7
<1>4. CASE /\ file_info' = UpdateCountWhere(file_info, me.key.md5, me.count)
           /\ me.count = 0 /\ Goto("filesop", "del_selid", me)
  <2>1. /\ \A m \in Md5s : Covered(m)'
        /\ OneRow' /\ OneAtATime' /\ CountedReferences(h)' = n
        /\ \A q \in Programs : q # "filesop" => pc'[q] = "idle"
        /\ pc'["filesop"] = "del_selid" /\ loc'["filesop"] = me
    <3>1. /\ file_info' = UpdateCountWhere(file_info, h, n)
          /\ pc' = [pc EXCEPT !["filesop"] = "del_selid"]
          /\ loc' = [loc EXCEPT !["filesop"] = me]
          /\ "del_selid" \notin OwingLabels
      BY <1>2, <1>4 DEF Goto, OwingLabels
    <3> QED
      BY <1>3, <3>1
  <2>2. Knows("filesop")'
    <3>1. loc'["filesop"].key.md5 = h /\ n = 0
      BY <1>2, <1>4, <2>1
    <3>2. DelKnows'
      BY <1>1, <1>u, <2>1, <3>1 DEF DelKnows, Listed, HasRow, me
    <3> QED
      BY <2>1, <3>2 DEF Knows, ShareKnows
  <2>3. AnswersTrue'
    BY <1>4, NoAnswer DEF Goto
  <2> QED
    BY <1>p, <2>1, <2>2, <2>3, AloneKnows
<1>5. CASE /\ file_info' = UpdateCountWhere(file_info, me.key.md5, me.count)
           /\ Finish("filesop", "013")
  <2>1. /\ \A m \in Md5s : Covered(m)'
        /\ OneRow' /\ OneAtATime'
        /\ \A q \in Programs : q # "filesop" => pc'[q] = "idle"
        /\ pc'["filesop"] = "idle"
    <3>1. /\ file_info' = UpdateCountWhere(file_info, h, n)
          /\ pc' = [pc EXCEPT !["filesop"] = "idle"]
          /\ loc' = [loc EXCEPT !["filesop"] = Blank]
          /\ "idle" \notin OwingLabels
      BY <1>2, <1>5 DEF Finish, OwingLabels
    <3> QED
      BY <1>3, <3>1
  <2>2. Knows("filesop")'
    BY <1>p, <2>1, IdleKnows
  <2>3. AnswersTrue'
    <3>1. reply'.code = "013" /\ reply'.key = me.key
      BY <1>5 DEF Finish, me
    <3> QED
      BY <1>1, <1>u, <3>1 DEF AnswersTrue, Listed, HasRow
  <2> QED
    BY <1>p, <2>1, <2>2, <2>3, AloneKnows
<1>6. CASE FilesOpFails("014") /\ UNCHANGED file_info
  BY <1>6, <1>p, <1>u, FilesOpFailed DEF FilesOpFails
<1> QED
  BY <1>4, <1>5, <1>6 DEF DelSetReference

\* A content that nobody refers to goes.
LEMMA DelInfoSerial ==
  ASSUME TypeOK, TypeOK', SerialInv, DelInfo
  PROVE  SerialInv'
<1>p. "filesop" \in Programs /\ pc["filesop"] = "del_info"
  BY DEF Programs, DelInfo
<1>1. /\ OneAtATime /\ ~Listed(me.key)
      /\ CountedReferences(me.key.md5) = 0
  BY <1>p DEF SerialInv, DelKnows
<1>2. PICK h \in Md5s : h = me.key.md5
  BY <1>p, AtWork DEF TypeOK, me
<1>u. UNCHANGED user_file_list
  BY DEF DelInfo
<1>3. CASE /\ file_info' = DeleteWhere(file_info, me.key.md5)
           /\ Goto("filesop", "del_remove", me)
  <2>1. /\ OneAtATime' /\ \A q \in Programs : q # "filesop" => pc'[q] = "idle"
        /\ pc'["filesop"] = "del_remove" /\ loc'["filesop"] = me
        /\ \A m : ~Owed(m)'
    <3>1. /\ pc' = [pc EXCEPT !["filesop"] = "del_remove"]
          /\ loc' = [loc EXCEPT !["filesop"] = me]
          /\ "del_remove" \notin OwingLabels /\ pc["filesop"] # "idle"
      BY <1>3, <1>p DEF Goto, OwingLabels
    <3> QED
      BY <1>1, <1>p, <3>1, AloneStep
  <2>2. \A m : ~Owed(m)
    BY <1>1, <1>p, OthersIdle DEF OwingLabels
  <2>3. /\ file_info'[h] = <<>>
        /\ \A m \in Md5s : m # h => file_info'[m] = file_info[m]
    BY <1>2, <1>3 DEF DeleteWhere, TypeOK, TablesTypeOK
  <2>4. \A m \in Md5s : CountedReferences(m)' = CountedReferences(m)
    BY <1>1, <1>2, <2>3 DEF CountedReferences, HasRow, FirstRow
  <2>5. OneRow'
    <3> SUFFICES ASSUME NEW m \in Md5s PROVE Len(file_info'[m]) <= 1
      BY DEF OneRow
    <3>1. CASE m = h
      <4>1. Len(file_info'[m]) = 0
        BY <2>3, <3>1
      <4> QED
        BY <4>1
    <3>2. CASE m # h
      BY <2>3, <3>2 DEF SerialInv, OneRow
    <3> QED
      BY <3>1, <3>2
  <2>6. ASSUME NEW m \in Md5s PROVE Covered(m)'
    <3>1. /\ IsFiniteSet(Entries(m))
          /\ Cardinality(Entries(m)) + (IF Owed(m) THEN 1 ELSE 0) <= CountedReferences(m)
      BY DEF SerialInv, Covered
    <3>2. Entries(m)' = Entries(m)
      BY <1>u, EntriesSame
    <3> QED
      BY <2>1, <2>2, <2>4, <3>1, <3>2 DEF Covered
  <2>7. AnswersTrue'
    BY <1>3, NoAnswer DEF Goto
  <2>8. Knows("filesop")'
    BY <1>1, <1>u, <2>1 DEF Knows, DelKnows, ShareKnows, Listed, HasRow, me
  <2> QED
    BY <1>p, <2>1, <2>5, <2>6, <2>7, <2>8, AloneKnows
<1>4. CASE FilesOpFails("014") /\ UNCHANGED file_info
  BY <1>4, <1>p, <1>u, FilesOpFailed DEF FilesOpFails
<1> QED
  BY <1>3, <1>4 DEF DelInfo

\* The other steps of del_file.
LEMMA DelSerial ==
  ASSUME TypeOK, TypeOK', SerialInv, DelStep
  PROVE  SerialInv'
<1>p. "filesop" \in Programs
  BY DEF Programs
<1>w. pc["filesop"] # "idle"
  BY DEF DelStep, DelZexit, DelStatus, DelShare, DelSelectShares, DelSetShares, DelZrem, DelHdel,
         DelSelectCount, DelSetCount, DelList, DelSelectReference, DelSetReference,
         DelSelectId, DelInfo, DelRemove
<1>k. /\ me \in Locals /\ me.key.md5 \in Md5s
  BY <1>p, <1>w, AtWork DEF TypeOK, me
<1>v. /\ \A n : [me EXCEPT !.count = n].key = me.key /\ [me EXCEPT !.count = n].count = n
      /\ [me EXCEPT !.share = 1].key = me.key
      /\ [me EXCEPT !.share = 1, !.flag = 1].key = me.key
      /\ \A f : [me EXCEPT !.fileid = f].key = me.key
  BY <1>k DEF Locals
<1>f. ASSUME Finish("filesop", "014"), UNCHANGED <<file_info, user_file_list>>
      PROVE  SerialInv'
  BY <1>f, <1>w, FilesOpFailed
<1>g. ASSUME NEW l \in BeforeList, NEW v, Goto("filesop", l, v), v.key = me.key,
             pc["filesop"] \in BeforeList, UNCHANGED <<file_info, user_file_list>>
      PROVE  SerialInv'
  BY <1>g, DelGoesOn
<1>1. CASE DelZexit
  BY <1>1, <1>f, <1>g, <1>v DEF DelZexit, FilesOpFails, BeforeList, mysql
<1>2. CASE DelStatus
  BY <1>2, <1>f, <1>g, <1>v DEF DelStatus, FilesOpFails, BeforeList, mysql
<1>3. CASE DelShare
  BY <1>3, <1>f, <1>g DEF DelShare, FilesOpFails, BeforeList
<1>4. CASE DelSelectShares
  BY <1>4, <1>f, <1>g, <1>v DEF DelSelectShares, FilesOpFails, BeforeList, mysql
<1>5. CASE DelSetShares
  BY <1>5, <1>f, <1>g DEF DelSetShares, FilesOpFails, BeforeList
<1>6. CASE DelZrem
  BY <1>6, <1>g DEF DelZrem, BeforeList, mysql
<1>7. CASE DelHdel
  BY <1>7, <1>g DEF DelHdel, BeforeList, mysql
<1>8. CASE DelSelectCount
  BY <1>8, <1>f, <1>g, <1>v DEF DelSelectCount, FilesOpFails, BeforeList, mysql
<1>9. CASE DelSetCount
  BY <1>9, <1>f, <1>g DEF DelSetCount, FilesOpFails, BeforeList
<1>10. CASE DelSelectReference
  <2>u. UNCHANGED <<file_info, user_file_list>> /\ pc["filesop"] = "del_selref"
    BY <1>10 DEF DelSelectReference, mysql
  <2>1. CASE /\ HasRow(file_info, me.key.md5)
             /\ Goto("filesop", "del_ref",
                     [me EXCEPT !.count = FirstRow(file_info, me.key.md5).count - 1])
    <3> DEFINE n == FirstRow(file_info, me.key.md5).count - 1
               v == [me EXCEPT !.count = n]
    <3>1. v.key = me.key /\ v.count = n
      BY <1>v
    <3>2. n = CountedReferences(me.key.md5) - 1
      BY <1>k, <2>1, CountedFacts
    <3>3. ~Listed(me.key)
      BY <2>u DEF SerialInv, DelKnows
    <3>4. Goto("filesop", "del_ref", v)
      BY <2>1
    <3> HIDE DEF v, n
    <3>5. pc'["filesop"] = "del_ref" /\ loc'["filesop"] = v
      BY <1>p, <3>4, GotoFacts DEF TypeOK
    <3>6. DelKnows'
      BY <2>u, <3>1, <3>2, <3>3, <3>5
         DEF DelKnows, Listed, HasRow, CountedReferences, FirstRow, me
    <3>7. Knows("filesop")'
      BY <3>5, <3>6 DEF Knows, ShareKnows
    <3>8. pc["filesop"] \in OwingLabels /\ v.key = loc["filesop"].key
      BY <2>u, <3>1 DEF OwingLabels, me
    <3> QED
      BY <1>p, <1>w, <2>u, <3>4, <3>7, <3>8, GoneOnSerial
  <2>2. CASE Finish("filesop", "014")
    BY <1>f, <2>2, <2>u
  <2> QED
    BY <1>10, <2>1, <2>2 DEF DelSelectReference, FilesOpFails
<1>11. CASE DelSelectId
  <2>u. UNCHANGED <<file_info, user_file_list>> /\ pc["filesop"] = "del_selid"
    BY <1>11 DEF DelSelectId, mysql
  <2>1. CASE Goto("filesop", "del_info",
                  [me EXCEPT !.fileid = FirstRow(file_info, me.key.md5).file_id])
    <3> DEFINE v == [me EXCEPT !.fileid = FirstRow(file_info, me.key.md5).file_id]
    <3>1. v.key = me.key
      BY <1>v
    <3>3. ~Listed(me.key) /\ CountedReferences(me.key.md5) = 0
      BY <2>u DEF SerialInv, DelKnows
    <3>4. Goto("filesop", "del_info", v)
      BY <2>1
    <3> HIDE DEF v
    <3>5. pc'["filesop"] = "del_info" /\ loc'["filesop"] = v
      BY <1>p, <3>4, GotoFacts DEF TypeOK
    <3>6. DelKnows'
      BY <2>u, <3>1, <3>3, <3>5
         DEF DelKnows, Listed, HasRow, CountedReferences, FirstRow, me
    <3>7. Knows("filesop")'
      BY <3>5, <3>6 DEF Knows, ShareKnows
    <3>8. "del_info" \notin OwingLabels
      BY DEF OwingLabels
    <3> QED
      BY <1>p, <1>w, <2>u, <3>4, <3>7, <3>8, GoneOnSerial
  <2>2. CASE Finish("filesop", "014")
    BY <1>f, <2>2, <2>u
  <2> QED
    BY <1>11, <2>1, <2>2 DEF DelSelectId, FilesOpFails
<1>12. CASE DelRemove
  <2>u. UNCHANGED <<file_info, user_file_list>> /\ pc["filesop"] = "del_remove"
    BY <1>12 DEF DelRemove, mysql
  <2>1. CASE Finish("filesop", "013")
    <3>1. ~Listed(me.key)
      BY <2>u DEF SerialInv, DelKnows
    <3>2. reply'.code = "013" /\ reply'.key = me.key
      BY <2>1 DEF Finish, me
    <3>3. AnswersTrue'
      BY <2>u, <3>1, <3>2 DEF AnswersTrue, Listed, HasRow
    <3> QED
      BY <1>p, <1>w, <2>1, <2>u, <3>3, EndedSerial DEF Finish
  <2>2. CASE Finish("filesop", "014")
    BY <1>f, <2>2, <2>u
  <2> QED
    BY <1>12, <2>1, <2>2 DEF DelRemove
<1> QED
  BY <1>1, <1>2, <1>3, <1>4, <1>5, <1>6, <1>7, <1>8, <1>9, <1>10, <1>11, <1>12,
     DelListSerial, DelReferenceSerial, DelInfoSerial DEF DelStep

LEMMA ShareSerial ==
  ASSUME TypeOK, TypeOK', SerialInv, ShareStep
  PROVE  SerialInv'
<1>p. "filesop" \in Programs
  BY DEF Programs
<1>w. pc["filesop"] # "idle"
  BY DEF ShareStep, ShareZexit, ShareSelect, ShareReadd, ShareStatus, ShareInsert,
         ShareSelectCount, SelectCountToAdd, ShareSetCount, ShareZadd, ShareHset
<1>k. me \in Locals /\ me.key \in FileKey
  BY <1>p, <1>w, AtWork DEF TypeOK, me
<1>f. ASSUME NEW c \in {"011", "012"}, Finish("filesop", c), UNCHANGED <<file_info, user_file_list>>
      PROVE  SerialInv'
  BY <1>f, <1>w, FilesOpFailed
<1>g. ASSUME NEW l \in ShareLabels, NEW v, Goto("filesop", l, v), v.key = me.key,
             UNCHANGED file_info,
             \A k \in FileKey : Len(user_file_list'[k]) = Len(user_file_list[k]),
             l \in AfterShare => HasRow(share_file_list', me.key)
      PROVE  SerialInv'
  <2>1. pc'["filesop"] = l /\ loc'["filesop"].key = me.key
    BY <1>g, <1>p, GotoFacts DEF TypeOK
  <2>2. Knows("filesop")'
    BY <1>g, <2>1 DEF Knows, DelKnows, ShareKnows, AfterShare, ShareLabels, me
  <2>3. l \notin OwingLabels
    BY DEF ShareLabels, OwingLabels
  <2> QED
    BY <1>g, <1>p, <1>w, <2>2, <2>3, GoneOnSerial
<1>s. ASSUME pc["filesop"] \in AfterShare, UNCHANGED share_file_list
      PROVE  HasRow(share_file_list', me.key)
  BY <1>s DEF SerialInv, ShareKnows, AfterShare, HasRow
<1>1. CASE ShareZexit \/ ShareSelect
  BY <1>1, <1>f, <1>g DEF ShareZexit, ShareSelect, FilesOpFails, ShareLabels, AfterShare, mysql
<1>2. CASE ShareReadd
  BY <1>2, <1>f DEF ShareReadd, mysql
<1>3. CASE ShareStatus
  <2>1. CASE /\ user_file_list' = UpdateWhere(user_file_list, me.key, 1)
             /\ Goto("filesop", "sh_insert", me)
    <3>1. \A k \in FileKey : Len(user_file_list'[k]) = Len(user_file_list[k])
      <4> DEFINE R == {0, 1}
      <4>1. user_file_list \in [FileKey -> Seq(R)] /\ 1 \in R
        BY DEF TypeOK, TablesTypeOK
      <4> HIDE DEF R
      <4>2. /\ Len(user_file_list'[me.key]) = Len(user_file_list[me.key])
            /\ \A k \in FileKey : k # me.key => user_file_list'[k] = user_file_list[k]
        BY <1>k, <2>1, <4>1, UpdateFacts
      <4> QED
        BY <4>2
    <3> QED
      BY <1>3, <1>g, <2>1, <3>1 DEF ShareStatus, ShareLabels, AfterShare
  <2>2. CASE Finish("filesop", "011") /\ UNCHANGED user_file_list
    BY <1>3, <1>f, <2>2 DEF ShareStatus
  <2> QED
    BY <1>3, <2>1, <2>2 DEF ShareStatus, FilesOpFails
<1>4. CASE ShareInsert
  <2>1. CASE /\ share_file_list' = Insert(share_file_list, me.key, 0)
             /\ Goto("filesop", "sh_selcount", me)
    <3>1. share_file_list \in [FileKey -> Seq(Int)]
      BY DEF TypeOK, TablesTypeOK
    <3>2. share_file_list'[me.key] # <<>>
      <4>1. Len(share_file_list'[me.key]) = Len(share_file_list[me.key]) + 1
        BY <1>k, <2>1, <3>1 DEF Insert
      <4>2. Len(share_file_list[me.key]) \in Nat
        BY <1>k, <3>1
      <4>3. Len(share_file_list'[me.key]) # 0
        BY <4>1, <4>2
      <4> QED
        BY <4>3
    <3> QED
      BY <1>4, <1>g, <2>1, <3>2 DEF ShareInsert, ShareLabels, HasRow
  <2>2. CASE Finish("filesop", "011")
    BY <1>4, <1>f, <2>2 DEF ShareInsert
  <2> QED
    BY <1>4, <2>1, <2>2 DEF ShareInsert, FilesOpFails
<1>5. CASE ShareSelectCount
  <2>1. /\ pc["filesop"] = "sh_selcount"
        /\ \E v : Goto("filesop", "sh_count", v) /\ v.key = me.key
        /\ UNCHANGED <<mysql, redis, fdfs>>
    BY <1>5, <1>p, SelectsCount DEF ShareSelectCount, TypeOK, me
  <2>2. HasRow(share_file_list', me.key)
    BY <1>s, <2>1 DEF AfterShare, mysql
  <2> QED
    BY <1>g, <2>1, <2>2 DEF mysql, ShareLabels
<1>6. CASE ShareSetCount
  <2>1. HasRow(share_file_list', me.key)
    BY <1>6, <1>s DEF ShareSetCount, AfterShare
  <2> QED
    BY <1>6, <1>f, <1>g, <2>1 DEF ShareSetCount, ShareLabels
<1>7. CASE ShareZadd
  <2>1. HasRow(share_file_list', me.key)
    BY <1>7, <1>s DEF ShareZadd, AfterShare, mysql
  <2> QED
    BY <1>7, <1>g, <2>1 DEF ShareZadd, ShareLabels, mysql
<1>8. CASE ShareHset
  <2>1. HasRow(share_file_list', me.key)
    BY <1>8, <1>s DEF ShareHset, AfterShare, mysql
  <2>2. reply'.code = "010" /\ reply'.key = me.key
    BY <1>8 DEF ShareHset, Finish, me
  <2>3. AnswersTrue'
    BY <2>1, <2>2 DEF AnswersTrue
  <2> QED
    BY <1>8, <1>p, <1>w, <2>3, EndedSerial DEF ShareHset, Finish, mysql
<1> QED
  BY <1>1, <1>2, <1>3, <1>4, <1>5, <1>6, <1>7, <1>8 DEF ShareStep

------------------------------------------------------------------------------
(* cgi_sharefilesop *)

\* Setting shared_status keeps the rows.
LEMMA StatusSet ==
  ASSUME TypeOK, NEW k \in FileKey, NEW b \in {0, 1},
         user_file_list' = UpdateWhere(user_file_list, k, b)
  PROVE  \A j \in FileKey : Len(user_file_list'[j]) = Len(user_file_list[j])
<1> DEFINE R == {0, 1}
<1>1. user_file_list \in [FileKey -> Seq(R)] /\ b \in R
  BY DEF TypeOK, TablesTypeOK
<1> HIDE DEF R
<1>2. /\ Len(user_file_list'[k]) = Len(user_file_list[k])
      /\ \A j \in FileKey : j # k => user_file_list'[j] = user_file_list[j]
  BY <1>1, UpdateFacts
<1> QED
  BY <1>2

\* Labels at which the program relies on nothing.
FreeLabels == {"pv_update", "pv_zexit", "pv_zincr", "pv_zadd", "pv_hset",
               "ca_selshares", "ca_shares", "ca_share", "sv_selref"}

\* cgi_sharefilesop goes on where it relies on nothing.
LEMMA ShareOpGoesOn ==
  ASSUME TypeOK, TypeOK', SerialInv, pc["sharefilesop"] # "idle",
         NEW l \in FreeLabels, NEW v, Goto("sharefilesop", l, v), UNCHANGED file_info,
         \A k \in FileKey : Len(user_file_list'[k]) = Len(user_file_list[k])
  PROVE  SerialInv'
<1>p. "sharefilesop" \in Programs /\ l \notin OwingLabels
  BY DEF Programs, FreeLabels, OwingLabels
<1>1. pc'["sharefilesop"] = l
  BY <1>p, GotoFacts DEF TypeOK
<1>2. Knows("sharefilesop")'
  BY <1>1 DEF Knows, CancelKnows, SaveKnows, FreeLabels
<1> QED
  BY <1>p, <1>2, GoneOnSerial

LEMMA ShareOpFailed ==
  ASSUME TypeOK, TypeOK', SerialInv, pc["sharefilesop"] # "idle",
         NEW c \in {"016", "017", "019", "021", "022"}, Finish("sharefilesop", c),
         UNCHANGED <<file_info, user_file_list>>
  PROVE  SerialInv'
  BY FailedSerial DEF Promises, Programs

LEMMA PvSerial ==
  ASSUME TypeOK, TypeOK', SerialInv, PvStep
  PROVE  SerialInv'
<1>w. pc["sharefilesop"] # "idle"
  BY DEF PvStep, PvSelect, PvUpdate, PvZexit, PvZincr, PvZadd, PvHset
<1>f. ASSUME NEW c \in {"016", "017"}, Finish("sharefilesop", c),
             UNCHANGED <<file_info, user_file_list>>
      PROVE  SerialInv'
  BY <1>f, <1>w, ShareOpFailed
<1>g. ASSUME NEW l \in FreeLabels, NEW v, Goto("sharefilesop", l, v),
             UNCHANGED <<file_info, user_file_list>>
      PROVE  SerialInv'
  BY <1>g, <1>w, ShareOpGoesOn
<1>1. CASE PvSelect
  BY <1>1, <1>f, <1>g DEF PvSelect, ShareOpFails, FreeLabels, mysql
<1>2. CASE PvUpdate
  BY <1>2, <1>f, <1>g DEF PvUpdate, ShareOpFails, FreeLabels
<1>3. CASE PvZexit
  BY <1>3, <1>f, <1>g DEF PvZexit, ShareOpFails, FreeLabels, mysql
<1>4. CASE PvZincr \/ PvHset
  BY <1>4, <1>f DEF PvZincr, PvHset, mysql
<1>5. CASE PvZadd
  BY <1>5, <1>g DEF PvZadd, FreeLabels, mysql
<1> QED
  BY <1>1, <1>2, <1>3, <1>4, <1>5 DEF PvStep

LEMMA CancelSerial ==
  ASSUME TypeOK, TypeOK', SerialInv, CancelStep
  PROVE  SerialInv'
<1>p. "sharefilesop" \in Programs
  BY DEF Programs
<1>w. pc["sharefilesop"] # "idle"
  BY DEF CancelStep, CancelStatus, CancelSelectShares, CancelSetShares, CancelShare,
         CancelZrem, CancelHdel
<1>k. op \in Locals /\ op.key \in FileKey
  BY <1>p, <1>w, AtWork DEF TypeOK, op
<1>f. ASSUME Finish("sharefilesop", "019"), UNCHANGED <<file_info, user_file_list>>
      PROVE  SerialInv'
  BY <1>f, <1>w, ShareOpFailed
<1>g. ASSUME NEW l \in FreeLabels, NEW v, Goto("sharefilesop", l, v),
             UNCHANGED <<file_info, user_file_list>>
      PROVE  SerialInv'
  BY <1>g, <1>w, ShareOpGoesOn
<1>h. ASSUME NEW l \in {"ca_zrem", "ca_hdel"}, Goto("sharefilesop", l, op),
             UNCHANGED <<file_info, user_file_list>>, ~HasRow(share_file_list', op.key),
             l = "ca_hdel" => MemberOf(op.key) \notin zset'
      PROVE  SerialInv'
  <2>1. pc'["sharefilesop"] = l /\ loc'["sharefilesop"] = op /\ l \notin OwingLabels
    BY <1>h, <1>p, GotoFacts DEF TypeOK, OwingLabels
  <2>2. Knows("sharefilesop")'
    BY <1>h, <2>1 DEF Knows, CancelKnows, SaveKnows, op
  <2> QED
    BY <1>h, <1>p, <1>w, <2>1, <2>2, GoneOnSerial
<1>1. CASE CancelStatus
  <2>1. CASE /\ user_file_list' = UpdateWhere(user_file_list, op.key, 0)
             /\ Goto("sharefilesop", "ca_selshares", op)
    <3>1. \A j \in FileKey : Len(user_file_list'[j]) = Len(user_file_list[j])
      BY <1>k, <2>1, StatusSet
    <3>2. UNCHANGED file_info /\ "ca_selshares" \in FreeLabels
      BY <1>1 DEF CancelStatus, FreeLabels
    <3> QED
      BY <1>w, <2>1, <3>1, <3>2, ShareOpGoesOn
  <2>2. CASE Finish("sharefilesop", "019") /\ UNCHANGED user_file_list
    BY <1>1, <1>f, <2>2 DEF CancelStatus
  <2> QED
    BY <1>1, <2>1, <2>2 DEF CancelStatus, ShareOpFails
<1>2. CASE CancelSelectShares
  BY <1>2, <1>f, <1>g DEF CancelSelectShares, ShareOpFails, FreeLabels, mysql
<1>3. CASE CancelSetShares
  BY <1>3, <1>f, <1>g DEF CancelSetShares, ShareOpFails, FreeLabels
<1>4. CASE CancelShare
  <2>1. CASE /\ share_file_list' = DeleteWhere(share_file_list, op.key)
             /\ Goto("sharefilesop", "ca_zrem", op)
    <3>1. ~HasRow(share_file_list', op.key)
      BY <1>k, <2>1 DEF DeleteWhere, HasRow, TypeOK, TablesTypeOK
    <3> QED
      BY <1>4, <1>h, <2>1, <3>1 DEF CancelShare
  <2>2. CASE Finish("sharefilesop", "019")
    BY <1>4, <1>f, <2>2 DEF CancelShare
  <2> QED
    BY <1>4, <2>1, <2>2 DEF CancelShare, ShareOpFails
<1>5. CASE CancelZrem
  <2>u. UNCHANGED <<file_info, user_file_list, share_file_list>>
    BY <1>5 DEF CancelZrem, mysql
  <2>1. CASE ZRem(MemberOf(op.key)) /\ Goto("sharefilesop", "ca_hdel", op)
    <3>1. ~HasRow(share_file_list', op.key)
      BY <1>5, <2>u DEF SerialInv, CancelKnows, CancelZrem, HasRow
    <3>2. MemberOf(op.key) \notin zset'
      BY <2>1 DEF ZRem
    <3> QED
      BY <1>h, <2>1, <2>u, <3>1, <3>2
  <2>2. CASE Finish("sharefilesop", "019")
    BY <1>f, <2>2, <2>u
  <2> QED
    BY <1>5, <2>1, <2>2 DEF CancelZrem
<1>6. CASE CancelHdel
  <2>u. UNCHANGED <<file_info, user_file_list, share_file_list, zset>>
    BY <1>6 DEF CancelHdel, mysql
  <2>1. CASE hash' = hash \ {MemberOf(op.key)} /\ Finish("sharefilesop", "018")
    <3>1. ~HasRow(share_file_list', op.key) /\ MemberOf(op.key) \notin zset'
      BY <1>6, <2>u DEF SerialInv, CancelKnows, CancelHdel, HasRow
    <3>2. reply'.code = "018" /\ reply'.key = op.key
      BY <2>1 DEF Finish, op
    <3>3. AnswersTrue'
      BY <2>1, <3>1, <3>2 DEF AnswersTrue
    <3> QED
      BY <1>p, <1>w, <2>1, <2>u, <3>3, EndedSerial DEF Finish
  <2>2. CASE Finish("sharefilesop", "019")
    BY <1>f, <2>2, <2>u
  <2> QED
    BY <1>6, <2>1, <2>2 DEF CancelHdel
<1> QED
  BY <1>1, <1>2, <1>3, <1>4, <1>5, <1>6 DEF CancelStep

LEMMA SaveSerial ==
  ASSUME TypeOK, TypeOK', SerialInv, SaveStep
  PROVE  SerialInv'
<1>p. "sharefilesop" \in Programs
  BY DEF Programs
<1>w. pc["sharefilesop"] # "idle"
  BY DEF SaveStep, SaveSelectList, SaveSelectReference, SaveAddReference, SaveInsertList,
         SaveSelectCount, SelectCountToAdd, SaveSetCount
<1>k. op \in Locals /\ op.key \in FileKey /\ op.key.md5 \in Md5s
  BY <1>p, <1>w, AtWork DEF TypeOK, op
<1>f. ASSUME NEW c \in {"021", "022"}, Finish("sharefilesop", c),
             UNCHANGED <<file_info, user_file_list>>
      PROVE  SerialInv'
  BY <1>f, <1>w, ShareOpFailed
<1>1. CASE SaveSelectList
  <2>1. CASE Goto("sharefilesop", "sv_selref", op)
    <3>1. UNCHANGED <<file_info, user_file_list>> /\ "sv_selref" \in FreeLabels
      BY <1>1 DEF SaveSelectList, FreeLabels, mysql
    <3> QED
      BY <1>w, <2>1, <3>1, ShareOpGoesOn
  <2>2. CASE Finish("sharefilesop", "021") \/ Finish("sharefilesop", "022")
    BY <1>1, <1>f, <2>2 DEF SaveSelectList, mysql
  <2> QED
    BY <1>1, <2>1, <2>2 DEF SaveSelectList, ShareOpFails
<1>2. CASE SaveSelectReference
  <2>u. UNCHANGED <<file_info, user_file_list>>
    BY <1>2 DEF SaveSelectReference, mysql
  <2>1. CASE /\ HasRow(file_info, op.key.md5)
             /\ Goto("sharefilesop", "sv_ref",
                     [op EXCEPT !.count = FirstRow(file_info, op.key.md5).count])
    <3> DEFINE n == FirstRow(file_info, op.key.md5).count
               v == [op EXCEPT !.count = n]
    <3>1. v.key = op.key /\ v.count = n
      BY <1>k DEF Locals
    <3>2. n = CountedReferences(op.key.md5)
      BY <1>k, <2>1, CountedFacts
    <3>3. Goto("sharefilesop", "sv_ref", v)
      BY <2>1
    <3> HIDE DEF v, n
    <3>4. /\ pc'["sharefilesop"] = "sv_ref" /\ loc'["sharefilesop"] = v
          /\ "sv_ref" \notin OwingLabels
      BY <1>p, <3>3, GotoFacts DEF TypeOK, OwingLabels
    <3>5. Knows("sharefilesop")'
      BY <2>1, <2>u, <3>1, <3>2, <3>4
         DEF Knows, CancelKnows, SaveKnows, Stored, HasRow, CountedReferences, FirstRow, op
    <3> QED
      BY <1>p, <1>w, <2>u, <3>3, <3>4, <3>5, GoneOnSerial
  <2>2. CASE Finish("sharefilesop", "022")
    BY <1>f, <2>2, <2>u
  <2> QED
    BY <1>2, <2>1, <2>2 DEF SaveSelectReference, ShareOpFails
<1>3. CASE SaveAddReference
  <2>1. CASE /\ file_info' = UpdateCountWhere(file_info, op.key.md5, op.count + 1)
             /\ Goto("sharefilesop", "sv_inslist", op)
    <3>1. HasRow(file_info, op.key.md5) /\ op.count = CountedReferences(op.key.md5)
      BY <1>3 DEF SerialInv, SaveKnows, SaveAddReference, Stored
    <3>2. /\ \A m \in Md5s : Covered(m)'
          /\ OneRow' /\ OneAtATime' /\ AnswersTrue'
          /\ \A q \in Programs : q # "sharefilesop" => pc'[q] = "idle"
          /\ pc'["sharefilesop"] = "sv_inslist"
      BY <1>3, <1>p, <2>1, <3>1, CountedSerial DEF SaveAddReference, OwingLabels, op
    <3>3. Knows("sharefilesop")'
      BY <3>2 DEF Knows, CancelKnows, SaveKnows
    <3> QED
      BY <1>p, <3>2, <3>3, AloneKnows
  <2>2. CASE Finish("sharefilesop", "022") /\ UNCHANGED file_info
    BY <1>3, <1>f, <2>2 DEF SaveAddReference
  <2> QED
    BY <1>3, <2>1, <2>2 DEF SaveAddReference, ShareOpFails
<1>4. CASE SaveInsertList
  <2>1. CASE /\ user_file_list' = Insert(user_file_list, op.key, 0)
             /\ Goto("sharefilesop", "sv_selcount", op)
    <3>1. /\ \A m \in Md5s : Covered(m)'
          /\ OneRow' /\ OneAtATime' /\ AnswersTrue'
          /\ \A q \in Programs : q # "sharefilesop" => pc'[q] = "idle"
          /\ pc'["sharefilesop"] = "sv_selcount" /\ loc'["sharefilesop"] = loc["sharefilesop"]
          /\ Listed(loc["sharefilesop"].key)' /\ Stored(loc["sharefilesop"].key)'
      BY <1>4, <1>p, <2>1, InsertedSerial DEF SaveInsertList, OwingLabels, op
    <3>2. Knows("sharefilesop")'
      BY <3>1 DEF Knows, CancelKnows, SaveKnows, op
    <3> QED
      BY <1>p, <3>1, <3>2, AloneKnows
  <2>2. CASE Finish("sharefilesop", "022") /\ UNCHANGED user_file_list
    BY <1>4, <1>f, <2>2 DEF SaveInsertList
  <2> QED
    BY <1>4, <2>1, <2>2 DEF SaveInsertList, ShareOpFails
<1>5. CASE SaveSelectCount
  <2>1. PICK v : /\ pc["sharefilesop"] = "sv_selcount"
                 /\ Goto("sharefilesop", "sv_count", v) /\ v.key = op.key
                 /\ UNCHANGED <<mysql, redis, fdfs>>
    BY <1>5, <1>p, SelectsCount DEF SaveSelectCount, TypeOK, op
  <2>2. Listed(op.key) /\ Stored(op.key)
    BY <2>1 DEF SerialInv, SaveKnows
  <2>3. /\ pc'["sharefilesop"] = "sv_count" /\ loc'["sharefilesop"].key = op.key
        /\ "sv_count" \notin OwingLabels
    BY <1>p, <2>1, GotoFacts DEF TypeOK, OwingLabels
  <2>4. UNCHANGED <<file_info, user_file_list>>
    BY <2>1 DEF mysql
  <2>5. Knows("sharefilesop")'
    BY <2>2, <2>3, <2>4 DEF Knows, CancelKnows, SaveKnows, Listed, Stored, HasRow, op
  <2> QED
    BY <1>p, <1>w, <2>1, <2>3, <2>4, <2>5, GoneOnSerial
<1>6. CASE SaveSetCount
  <2>u. UNCHANGED <<file_info, user_file_list>>
    BY <1>6 DEF SaveSetCount
  <2>1. CASE Finish("sharefilesop", "020")
    <3>1. Listed(op.key) /\ Stored(op.key)
      BY <1>6 DEF SerialInv, SaveKnows, SaveSetCount
    <3>2. reply'.code = "020" /\ reply'.key = op.key
      BY <2>1 DEF Finish, op
    <3>3. AnswersTrue'
      BY <2>u, <3>1, <3>2 DEF AnswersTrue, Listed, Stored, HasRow
    <3> QED
      BY <1>p, <1>w, <2>1, <2>u, <3>3, EndedSerial DEF Finish
  <2>2. CASE Finish("sharefilesop", "022")
    BY <1>f, <2>2, <2>u
  <2> QED
    BY <1>6, <2>1, <2>2 DEF SaveSetCount
<1> QED
  BY <1>1, <1>2, <1>3, <1>4, <1>5, <1>6 DEF SaveStep

------------------------------------------------------------------------------
(* cgi_sharefiles, and the whole *)

\* cgi_sharefiles promises nothing and owes nothing.
LEMMA ListSerial ==
  ASSUME TypeOK, TypeOK', SerialInv, ShareListStep
  PROVE  SerialInv'
<1>p. "sharefiles" \in Programs
  BY DEF Programs
<1>w. pc["sharefiles"] # "idle"
  BY DEF ShareListStep, ListCount, ListNormal, RankSelect, RankZcard, RankDelZset, RankDelHash,
         RankRows, RankZadd, RankHset, RankRange, RankHget, RankScore
<1>u. UNCHANGED <<file_info, user_file_list>>
  BY ShareListFacts DEF TypeOK, mysql
<1>f. ASSUME NEW c \in {"015", "count", "files"}, Finish("sharefiles", c)
      PROVE  SerialInv'
  BY <1>f, <1>p, <1>u, <1>w, FailedSerial DEF Promises
<1>g. ASSUME NEW l, NEW v, Goto("sharefiles", l, v)
      PROVE  SerialInv'
  <2>1. pc'["sharefiles"] = l /\ pc'["sharefiles"] \in {"idle"} \cup ShareListLabels
    BY <1>g, <1>p, GotoFacts, LabelFacts DEF TypeOK, ControlTypeOK
  <2>2. l \notin OwingLabels
    BY <2>1 DEF ShareListLabels, OwingLabels
  <2>3. Knows("sharefiles")'
    BY DEF Knows
  <2> QED
    BY <1>g, <1>p, <1>u, <1>w, <2>2, <2>3, GoneOnSerial
<1>1. CASE ListCount \/ ListNormal
  BY <1>1, <1>f DEF ListCount, ListNormal, ListFails
<1>2. CASE RankSelect \/ RankZcard \/ RankRows
  BY <1>2, <1>f, <1>g DEF RankSelect, RankZcard, RankRows, ListFails
<1>3. CASE RankDelZset \/ RankDelHash \/ RankZadd \/ RankHset
  BY <1>3, <1>g DEF RankDelZset, RankDelHash, RankZadd, RankHset
<1>4. CASE RankRange \/ RankHget \/ RankScore
  BY <1>4, <1>f, <1>g DEF RankRange, RankHget, RankScore, ListFails
<1> QED
  BY <1>1, <1>2, <1>3, <1>4 DEF ShareListStep

\* A request is accepted while everybody is idle: cgi_upload's for a content that
\* is not stored, del_file's for a file that is listed.
LEMMA RequestSerial ==
  ASSUME Waiting, TypeOK, SerialInv, Request
  PROVE  SerialInv'
<1>1. PICK p \in Programs, k \in FileKey \cup {NoKey} :
        \E l \in LabelsOf(p) :
          /\ Accept(p, k, l)
          /\ l \in {"up_recv", "md5_info", "del_zexit", "sh_zexit", "pv_select",
                    "ca_status", "sv_list", "ls_count", "ls_normal", "rk_select"}
  BY AcceptedRequest
<1>2. PICK l \in LabelsOf(p) :
          /\ Accept(p, k, l)
          /\ l \in {"up_recv", "md5_info", "del_zexit", "sh_zexit", "pv_select",
                    "ca_status", "sv_list", "ls_count", "ls_normal", "rk_select"}
  BY <1>1
<1>3. /\ \A q \in Programs : pc[q] = "idle"
      /\ pc'[p] = l /\ \A q \in Programs : q # p => pc'[q] = "idle"
      /\ loc'[p].key = k
  <2>1. pc \in [Programs -> Labels] /\ loc \in [Programs -> Locals] /\ loc[p] \in Locals
    BY DEF TypeOK, ControlTypeOK
  <2>2. /\ \A q \in Programs : pc[q] = "idle"
        /\ pc' = [pc EXCEPT ![p] = l] /\ loc' = [loc EXCEPT ![p].key = k]
    BY <1>2 DEF Accept, Waiting
  <2>3. [loc[p] EXCEPT !.key = k].key = k
    BY <2>1 DEF Locals
  <2> QED
    BY <2>1, <2>2, <2>3
<1>u. UNCHANGED <<file_info, user_file_list>> /\ reply' = NoReply
  BY <1>2, AcceptedRequest DEF Accept, mysql
<1>4. OneAtATime'
  BY <1>3 DEF OneAtATime
<1>5. \A m : ~Owed(m)'
  <2>1. \A q \in Programs : pc'[q] \notin OwingLabels
    BY <1>2, <1>3 DEF OwingLabels
  <2> QED
    BY <2>1 DEF Owed, OwingLabels, Programs
<1>6. (\A m \in Md5s : Covered(m)') /\ OneRow'
  BY <1>5, <1>u, SameCover
<1>7. AnswersTrue'
  BY <1>u, NoAnswer
<1>8. Knows(p)'
  <2>1. l = "up_recv" => p = "upload" /\ ~HasRow(file_info, k.md5)
    <3> SUFFICES ASSUME l = "up_recv" PROVE p = "upload" /\ ~HasRow(file_info, k.md5)
      OBVIOUS
    <3>1. p = "upload"
      BY LabelFacts DEF Programs, UploadLabels, Md5Labels, DelLabels, ShareLabels, ShareOpLabels,
                        ShareListLabels
    <3>2. pc'["upload"] = "up_recv"
      BY <1>3, <3>1
    <3>3. PICK j \in FileKey : UploadAccept(j)
      <4>1. \A j \in FileKey :
              ~(Md5Accept(j) \/ DelAccept(j) \/ ShareAccept(j) \/ PvAccept(j)
                \/ CancelAccept(j) \/ SaveAccept(j))
        BY <1>3, <3>2 DEF Md5Accept, DelAccept, ShareAccept, PvAccept, CancelAccept, SaveAccept,
                          Accept, TypeOK, ControlTypeOK, Programs
      <4>2. \A cmd, g : ~ListAccept(cmd, g)
        BY <1>3, <3>2 DEF ListAccept, Accept, TypeOK, ControlTypeOK, Programs
      <4> QED
        BY <4>1, <4>2 DEF Request
    <3>4. j = k
      <4>1. loc \in [Programs -> Locals] /\ loc["upload"] \in Locals
        BY DEF TypeOK, ControlTypeOK, Programs
      <4>2. loc' = [loc EXCEPT !["upload"].key = j]
        BY <3>3 DEF UploadAccept, Accept
      <4>3. [loc["upload"] EXCEPT !.key = j].key = j
        BY <4>1 DEF Locals
      <4> QED
        BY <1>3, <3>1, <4>1, <4>2, <4>3
    <3> QED
      BY <3>1, <3>3, <3>4 DEF UploadAccept, Waiting
  <2>2. l = "del_zexit" => p = "filesop" /\ HasRow(user_file_list, k)
    <3> SUFFICES ASSUME l = "del_zexit" PROVE p = "filesop" /\ HasRow(user_file_list, k)
      OBVIOUS
    <3>1. p = "filesop"
      BY LabelFacts DEF Programs, UploadLabels, Md5Labels, DelLabels, ShareLabels, ShareOpLabels,
                        ShareListLabels
    <3>2. pc'["filesop"] = "del_zexit"
      BY <1>3, <3>1
    <3>3. PICK j \in FileKey : DelAccept(j)
      <4>1. \A j \in FileKey :
              ~(UploadAccept(j) \/ Md5Accept(j) \/ ShareAccept(j) \/ PvAccept(j)
                \/ CancelAccept(j) \/ SaveAccept(j))
        BY <1>3, <3>2 DEF UploadAccept, Md5Accept, ShareAccept, PvAccept, CancelAccept, SaveAccept,
                          Accept, TypeOK, ControlTypeOK, Programs
      <4>2. \A cmd, g : ~ListAccept(cmd, g)
        BY <1>3, <3>2 DEF ListAccept, Accept, TypeOK, ControlTypeOK, Programs
      <4> QED
        BY <4>1, <4>2 DEF Request
    <3>4. j = k
      <4>1. loc \in [Programs -> Locals] /\ loc["filesop"] \in Locals
        BY DEF TypeOK, ControlTypeOK, Programs
      <4>2. loc' = [loc EXCEPT !["filesop"].key = j]
        BY <3>3 DEF DelAccept, Accept
      <4>3. [loc["filesop"] EXCEPT !.key = j].key = j
        BY <4>1 DEF Locals
      <4> QED
        BY <1>3, <3>1, <4>1, <4>2, <4>3
    <3> QED
      BY <3>1, <3>3, <3>4 DEF DelAccept, Waiting
  <2>3. UploadKnows'
    BY <1>2, <1>3, <1>u, <2>1 DEF UploadKnows, Stored, HasRow, Programs
  <2>4. DelKnows'
    BY <1>2, <1>3, <1>u, <2>2 DEF DelKnows, Listed, HasRow, Programs, me
  <2>5. Md5Knows' /\ ShareKnows' /\ CancelKnows' /\ SaveKnows'
    BY <1>2, <1>3 DEF Md5Knows, ShareKnows, CancelKnows, SaveKnows, Programs
  <2> QED
    BY <2>3, <2>4, <2>5 DEF Knows
<1> QED
  BY <1>3, <1>4, <1>6, <1>7, <1>8, AloneKnows

LEMMA InitSerial == Init => SerialInv
<1> SUFFICES ASSUME Init PROVE SerialInv
  OBVIOUS
<1>1. \A p \in Programs : pc[p] = "idle"
  BY DEF Init
<1>2. OneAtATime /\ \A m : ~Owed(m)
  BY <1>1 DEF OneAtATime, Owed, Programs
<1>3. /\ UploadKnows /\ Md5Knows /\ DelKnows /\ ShareKnows /\ CancelKnows /\ SaveKnows
  BY <1>1 DEF UploadKnows, Md5Knows, DelKnows, ShareKnows, CancelKnows, SaveKnows, Programs
<1>4. OneRow
  <2> SUFFICES ASSUME NEW m \in Md5s PROVE Len(file_info[m]) <= 1
    BY DEF OneRow
  <2>1. Len(file_info[m]) = 0
    BY DEF Init
  <2> QED
    BY <2>1
<1>5. ASSUME NEW m \in Md5s PROVE Covered(m)
  <2>1. CountedReferences(m) = 0
    BY DEF Init, CountedReferences, HasRow
  <2>2. Entries(m) = {}
    <3>1. \A k \in FileKey : Len(user_file_list[k]) = 0
      BY DEF Init
    <3>2. \A k \in FileKey : 1..Len(user_file_list[k]) = {}
      BY <3>1
    <3>3. \A e : e \notin Entries(m)
      BY <3>2, EntryFacts
    <3> QED
      BY <3>3
  <2>3. IsFiniteSet({}) /\ Cardinality({}) = 0
    BY FS_EmptySet
  <2> QED
    BY <1>2, <2>1, <2>2, <2>3 DEF Covered
<1>6. AnswersTrue
  BY DEF Init, AnswersTrue
<1> QED
  BY <1>2, <1>3, <1>4, <1>5, <1>6 DEF SerialInv

LEMMA NextSerial == Waiting /\ TypeOK /\ SerialInv /\ [Next]_vars => SerialInv'
<1> SUFFICES ASSUME Waiting, TypeOK, SerialInv, [Next]_vars PROVE SerialInv'
  OBVIOUS
<1>t. TypeOK'
  BY NextType
<1>1. CASE Request
  BY <1>1, RequestSerial
<1>2. CASE UploadStep \/ Md5Step
  BY <1>2, <1>t, UploadSerial, Md5Serial
<1>3. CASE FilesOpStep
  BY <1>3, <1>t, DelSerial, ShareSerial DEF FilesOpStep
<1>4. CASE ShareOpStep
  BY <1>4, <1>t, PvSerial, CancelSerial, SaveSerial DEF ShareOpStep
<1>5. CASE ShareListStep
  BY <1>5, <1>t, ListSerial
<1>6. CASE \E p \in Programs : Crash(p)
  <2>1. PICK p \in Programs : Crash(p)
    BY <1>6
  <2>2. AnswersTrue'
    BY <2>1, NoAnswer DEF Crash
  <2> QED
    BY <1>t, <2>1, <2>2, EndedSerial DEF Crash, mysql
<1>7. CASE UNCHANGED vars
  <2>1. /\ UNCHANGED <<file_info, user_file_list, share_file_list, zset, hash, pc, loc, reply>>
    BY <1>7 DEF vars, mysql, redis
  <2>2. OneAtATime' /\ OneRow'
    BY <2>1 DEF SerialInv, OneAtATime, OneRow
  <2>3. \A m : Owed(m)' <=> Owed(m)
    BY <2>1 DEF Owed, me, op
  <2>4. \A m \in Md5s : Covered(m)'
    BY <2>1, <2>3, SameCover
  <2>5. /\ UploadKnows' /\ Md5Knows' /\ DelKnows' /\ ShareKnows' /\ CancelKnows' /\ SaveKnows'
    BY <2>1 DEF SerialInv, UploadKnows, Md5Knows, DelKnows, ShareKnows, CancelKnows, SaveKnows,
                Listed, Stored, HasRow, CountedReferences, FirstRow, me, op
  <2>6. AnswersTrue'
    BY <2>1 DEF SerialInv, AnswersTrue, Listed, Stored, HasRow
  <2> QED
    BY <2>2, <2>4, <2>5, <2>6 DEF SerialInv
<1> QED
  BY <1>1, <1>2, <1>3, <1>4, <1>5, <1>6, <1>7 DEF Next, Done

\* SerialInv is inductive: for clients that wait for each other, the references
\* of a content are never counted too low, whatever fails between two statements.
THEOREM SerialCorrect ==
  ASSUME Waiting
  PROVE  Spec => [](TypeOK /\ SerialInv)
<1>1. Init => TypeOK /\ SerialInv
  BY InitType, InitSerial
<1>2. TypeOK /\ SerialInv /\ [Next]_vars => TypeOK' /\ SerialInv'
  BY NextType, NextSerial
<1> QED
  BY <1>1, <1>2, PTL DEF Spec

\* A listed file has an entry of its content, which the references cover, so that
\* they are not 0 and the content has a row.
LEMMA CoveredStored ==
  ASSUME TypeOK, SerialInv
  PROVE  ListedFilesStored
<1> SUFFICES ASSUME NEW k \in FileKey, Listed(k) PROVE Stored(k)
  BY DEF ListedFilesStored
<1>1. PICK m \in Md5s : m = k.md5
  BY DEF FileKey
<1>2. /\ IsFiniteSet(Entries(m))
      /\ Cardinality(Entries(m)) + (IF Owed(m) THEN 1 ELSE 0) <= CountedReferences(m)
  BY DEF SerialInv, Covered
<1>3. <<k, 1>> \in Entries(m)
  <2>1. user_file_list[k] \in Seq({0, 1}) /\ user_file_list[k] # <<>>
    BY DEF TypeOK, TablesTypeOK, Listed, HasRow
  <2>2. 1 \in 1..Len(user_file_list[k])
    BY <2>1
  <2> QED
    BY <1>1, <2>2, EntryFacts
<1>4. Cardinality(Entries(m)) \in Nat /\ Cardinality(Entries(m)) # 0
  BY <1>2, <1>3, FS_CardinalityType, FS_EmptySet
<1>5. CountedReferences(m) > 0
  BY <1>2, <1>4, CountedFacts
<1> QED
  BY <1>1, <1>5, CountedFacts DEF Stored

\* When clients wait for each other and upload only what the md5 check did not
\* find, no failure of a call and no kill of a program, at whatever point of
\* whatever request, takes the content of a file that a user lists.
THEOREM ListedStayStored ==
  ASSUME Waiting
  PROVE  Spec => []ListedFilesStored
  BY SerialCorrect, CoveredStored, PTL

\* For the same clients every answer that promises something is true when it is
\* sent.
THEOREM AnswersAreTrue ==
  ASSUME Waiting
  PROVE  Spec => []AnswersTrue
<1>1. SerialInv => AnswersTrue
  BY DEF SerialInv
<1> QED
  BY <1>1, SerialCorrect, PTL

------------------------------------------------------------------------------
(* What is left behind *)

\* Every step but a failure leaves the failures as they are.
LEMMA FaultsGrow ==
  ASSUME [Next]_vars
  PROVE  faults' = faults \/ faults' = faults + 1
<1> USE DEF Fault, NoFault
<1>1. CASE Request
  BY <1>1, AcceptedRequest DEF Accept
<1>2. CASE UploadStep
  BY <1>2 DEF UploadStep, UploadRecv, UploadDstorage, UploadUrl, UploadInsertInfo,
              UploadInsertList, UploadSelectCount, SelectCountToAdd, UploadSetCount
<1>3. CASE Md5Step
  BY <1>3 DEF Md5Step, Md5SelectInfo, Md5SelectList, Md5AddReference, Md5InsertList,
              Md5SelectCount, SelectCountToAdd, Md5SetCount
<1>4. CASE DelStep
  BY <1>4 DEF DelStep, DelZexit, DelStatus, DelShare, DelSelectShares, DelSetShares, DelZrem,
              DelHdel, DelSelectCount, DelSetCount, DelList, DelSelectReference,
              DelSetReference, DelSelectId, DelInfo, DelRemove, FilesOpFails
<1>5. CASE ShareStep
  BY <1>5 DEF ShareStep, ShareZexit, ShareSelect, ShareReadd, ShareStatus, ShareInsert,
              ShareSelectCount, SelectCountToAdd, ShareSetCount, ShareZadd, ShareHset,
              FilesOpFails
<1>6. CASE PvStep
  BY <1>6 DEF PvStep, PvSelect, PvUpdate, PvZexit, PvZincr, PvZadd, PvHset, ShareOpFails
<1>7. CASE CancelStep
  BY <1>7 DEF CancelStep, CancelStatus, CancelSelectShares, CancelSetShares, CancelShare,
              CancelZrem, CancelHdel, ShareOpFails
<1>8. CASE SaveStep
  BY <1>8 DEF SaveStep, SaveSelectList, SaveSelectReference, SaveAddReference, SaveInsertList,
              SaveSelectCount, SelectCountToAdd, SaveSetCount, ShareOpFails
<1>9. CASE ShareListStep
  BY <1>9 DEF ShareListStep, ListCount, ListNormal, RankSelect, RankZcard, RankDelZset,
              RankDelHash, RankRows, RankZadd, RankHset, RankRange, RankHget, RankScore,
              ListFails
<1>10. CASE \E p \in Programs : Crash(p)
  BY <1>10 DEF Crash
<1>11. CASE UNCHANGED vars
  BY <1>11 DEF vars
<1> QED
  BY <1>1, <1>2, <1>3, <1>4, <1>5, <1>6, <1>7, <1>8, <1>9, <1>10, <1>11
     DEF Next, Done, FilesOpStep, ShareOpStep

LEMMA HeldFacts ==
  /\ \A f : f \in Held <=>
       \/ pc["upload"] \in {"up_url", "up_info"} /\ f = loc["upload"].fileid
       \/ pc["filesop"] = "del_remove" /\ f = loc["filesop"].fileid
  /\ \A n : n \in HeldFile <=> pc["upload"] = "up_dstorage" /\ n = loc["upload"].key.name
  BY DEF Held, HeldFile, me

LEMMA HeldFactsAfter ==
  /\ \A f : f \in Held' <=>
       \/ pc'["upload"] \in {"up_url", "up_info"} /\ f = loc'["upload"].fileid
       \/ pc'["filesop"] = "del_remove" /\ f = loc'["filesop"].fileid
  /\ \A n : n \in HeldFile' <=> pc'["upload"] = "up_dstorage" /\ n = loc'["upload"].key.name
  BY DEF Held, HeldFile, me

\* At most two objects and one file are held.
LEMMA HeldFinite ==
  IsFiniteSet(Held') /\ IsFiniteSet(HeldFile')
<1> DEFINE a == loc'["upload"].fileid
           b == loc'["filesop"].fileid
           n == loc'["upload"].key.name
<1>1. IsFiniteSet({a}) /\ IsFiniteSet({b}) /\ IsFiniteSet({n})
  BY FS_Singleton
<1> HIDE DEF a, b, n
<1>2. IsFiniteSet({a} \cup {b})
  BY <1>1, FS_Union
<1>3. Held' \subseteq {a} \cup {b} /\ HeldFile' \subseteq {n}
  BY HeldFactsAfter DEF a, b, n
<1> QED
  BY <1>1, <1>2, <1>3, FS_Subset

\* What is left behind after the step was left before it, or costs a failure.
LEMMA LeakStep ==
  ASSUME TypeOK, LeakInv, NEW x, NEW y,
         Paid(Orphans \ Held, Orphans' \ Held', x),
         Paid(tmpfiles \ HeldFile, tmpfiles' \ HeldFile', y)
  PROVE  LeakInv'
<1>0. faults \in Nat
  BY ConstantsAssumption DEF TypeOK, ControlTypeOK
<1>1. ASSUME NEW S, NEW S1, NEW H, NEW H1, NEW z, IsFiniteSet(S), IsFiniteSet(H1),
             Cardinality(S \ H) <= faults, Paid(S \ H, S1 \ H1, z)
      PROVE  IsFiniteSet(S1) /\ Cardinality(S1 \ H1) <= faults'
  <2>1. IsFiniteSet(S \ H)
    BY <1>1, FS_Subset
  <2>2. IsFiniteSet(S1 \ H1) /\ Cardinality(S1 \ H1) <= faults'
    BY <1>0, <1>1, <2>1, PaidFor
  <2>3. IsFiniteSet((S1 \ H1) \cup H1)
    BY <1>1, <2>2, FS_Union
  <2>4. S1 \subseteq (S1 \ H1) \cup H1
    OBVIOUS
  <2> QED
    BY <2>2, <2>3, <2>4, FS_Subset
<1>2. IsFiniteSet(Orphans') /\ Cardinality(Orphans' \ Held') <= faults'
  BY <1>1, HeldFinite DEF LeakInv
<1>3. IsFiniteSet(tmpfiles') /\ Cardinality(tmpfiles' \ HeldFile') <= faults'
  BY <1>1, HeldFinite DEF LeakInv
<1> QED
  BY <1>2, <1>3 DEF LeakInv

\* A step that changes no object, row or temporary file and lets none go.
LEMMA LeakKept ==
  ASSUME TypeOK, LeakInv, [Next]_vars, SameObjects, UNCHANGED <<storage, tmpfiles>>,
         Held \subseteq Held', HeldFile \subseteq HeldFile'
  PROVE  LeakInv'
<1>1. \A f : Linked(f)' <=> Linked(f)
  BY DEF Linked, SameObjects
<1>2. Orphans' = Orphans
  BY <1>1 DEF Orphans
<1>3. Paid(Orphans \ Held, Orphans' \ Held', NoFile)
  BY <1>2, FaultsGrow DEF Paid
<1>4. Paid(tmpfiles \ HeldFile, tmpfiles' \ HeldFile', NoFile)
  BY FaultsGrow DEF Paid
<1> QED
  BY <1>3, <1>4, LeakStep

\* Neither cgi_upload nor cgi_filesop takes the step.
LEMMA LeakApart ==
  ASSUME TypeOK, LeakInv, [Next]_vars, SameObjects, UNCHANGED <<storage, tmpfiles>>,
         pc'["upload"] = pc["upload"], loc'["upload"] = loc["upload"],
         pc'["filesop"] = pc["filesop"], loc'["filesop"] = loc["filesop"]
  PROVE  LeakInv'
<1>1. Held \subseteq Held' /\ HeldFile \subseteq HeldFile'
  BY HeldFacts, HeldFactsAfter
<1> QED
  BY <1>1, LeakKept

LEMMA UploadLeaks ==
  ASSUME TypeOK, ObjectInv, SerialInv, LeakInv, [Next]_vars, UploadStep
  PROVE  LeakInv'
<1>p. "upload" \in Programs /\ "filesop" \in Programs /\ ControlTypeOK
  BY DEF Programs, TypeOK
<1>g. ASSUME NEW l, NEW v, Goto("upload", l, v)
      PROVE  /\ pc'["upload"] = l /\ loc'["upload"] = v
             /\ pc'["filesop"] = pc["filesop"] /\ loc'["filesop"] = loc["filesop"]
  BY <1>g, <1>p, GotoFacts
<1>f. ASSUME NEW c, Finish("upload", c)
      PROVE  /\ pc'["upload"] = "idle"
             /\ pc'["filesop"] = pc["filesop"] /\ loc'["filesop"] = loc["filesop"]
  BY <1>f, <1>p, FinishFacts
<1>1. CASE UploadRecv
  <2>1. Orphans' = Orphans
    BY <1>1 DEF UploadRecv, Orphans, Linked, mysql
  <2>2. CASE /\ Goto("upload", "up_dstorage", loc["upload"]) /\ NoFault
             /\ tmpfiles' = tmpfiles \cup {loc["upload"].key.name}
    <3>1. Held' = Held /\ HeldFile' = {loc["upload"].key.name} /\ HeldFile = {}
      BY <1>1, <1>g, <2>2, HeldFacts, HeldFactsAfter DEF UploadRecv
    <3>2. /\ Paid(Orphans \ Held, Orphans' \ Held', NoFile)
          /\ Paid(tmpfiles \ HeldFile, tmpfiles' \ HeldFile', NoFile)
      BY <2>1, <2>2, <3>1 DEF Paid, NoFault
    <3> QED
      BY <3>2, LeakStep
  <2>3. CASE Finish("upload", "009") /\ UNCHANGED tmpfiles
    <3>1. Held \subseteq Held' /\ HeldFile \subseteq HeldFile'
      BY <1>1, <1>f, <2>3, HeldFacts, HeldFactsAfter DEF UploadRecv
    <3> QED
      BY <1>1, <2>3, <3>1, LeakKept, UnchangedObjects DEF UploadRecv, mysql
  <2> QED
    BY <1>1, <2>2, <2>3 DEF UploadRecv
<1>2. CASE UploadDstorage
  <2>n. loc["upload"].fileid = NoFile /\ pc["upload"] = "up_dstorage"
    BY <1>2 DEF ObjectInv, PendingUpload, UploadDstorage
  <2>l. \A f : Linked(f)' <=> Linked(f)
    BY <1>2 DEF UploadDstorage, Linked, mysql
  <2>a. HeldFile = {loc["upload"].key.name}
    BY <2>n, HeldFacts, HeldFactsAfter
  <2>1. CASE /\ NoFault /\ tmpfiles' = tmpfiles \ {loc["upload"].key.name}
             /\ \E f \in FileIds :
                  DstorageStore(f) /\ Goto("upload", "up_url", [loc["upload"] EXCEPT !.fileid = f])
    <3>1. PICK f \in FileIds :
            DstorageStore(f) /\ Goto("upload", "up_url", [loc["upload"] EXCEPT !.fileid = f])
      BY <2>1
    <3> DEFINE v == [loc["upload"] EXCEPT !.fileid = f]
    <3>2. v.fileid = f
      BY <1>p DEF ControlTypeOK, Locals
    <3>3. Goto("upload", "up_url", v)
      BY <3>1
    <3> HIDE DEF v
    <3>4. f \in Held' /\ Held \subseteq Held' /\ HeldFile' = {}
      BY <1>g, <2>n, <3>2, <3>3, HeldFacts, HeldFactsAfter
    <3>5. Orphans' \subseteq Orphans \cup {f}
      BY <2>l, <3>1 DEF Orphans, DstorageStore
    <3>6. /\ Paid(Orphans \ Held, Orphans' \ Held', NoFile)
          /\ Paid(tmpfiles \ HeldFile, tmpfiles' \ HeldFile', NoFile)
      BY <2>1, <2>a, <3>4, <3>5 DEF Paid, NoFault
    <3> QED
      BY <3>6, LeakStep
  <2>2. CASE /\ Fault /\ Finish("upload", "009") /\ UNCHANGED tmpfiles
             /\ UNCHANGED <<storage, content>> \/ \E f \in FileIds : DstorageStore(f)
    <3>1. Held \subseteq Held' /\ HeldFile' = {}
      BY <1>f, <2>2, <2>n, HeldFacts, HeldFactsAfter
    <3>2. PICK f : Orphans' \subseteq Orphans \cup {f}
      BY <2>2, <2>l DEF Orphans, DstorageStore
    <3>3. /\ Paid(Orphans \ Held, Orphans' \ Held', f)
          /\ Paid(tmpfiles \ HeldFile, tmpfiles' \ HeldFile', loc["upload"].key.name)
      BY <2>2, <2>a, <3>1, <3>2 DEF Paid, Fault
    <3> QED
      BY <3>3, LeakStep
  <2> QED
    BY <1>2, <2>1, <2>2, <2>n DEF UploadDstorage
<1>3. CASE UploadUrl
  <2>u. UNCHANGED <<storage, tmpfiles, file_info>> /\ pc["upload"] = "up_url"
    BY <1>3 DEF UploadUrl, mysql, fdfs
  <2>1. CASE Goto("upload", "up_info",
                  [loc["upload"] EXCEPT !.url = Append(@, loc["upload"].fileid)])
    <3> DEFINE v == [loc["upload"] EXCEPT !.url = Append(@, loc["upload"].fileid)]
    <3>1. v.fileid = loc["upload"].fileid
      BY <1>p DEF ControlTypeOK, Locals
    <3>2. Goto("upload", "up_info", v)
      BY <2>1
    <3> HIDE DEF v
    <3>3. Held \subseteq Held' /\ HeldFile \subseteq HeldFile'
      BY <1>g, <2>u, <3>1, <3>2, HeldFacts, HeldFactsAfter
    <3> QED
      BY <2>u, <3>3, LeakKept, UnchangedObjects
  <2>2. CASE Fault /\ Finish("upload", "009")
    <3>1. Held \subseteq Held' \cup {loc["upload"].fileid} /\ HeldFile \subseteq HeldFile'
      BY <1>f, <2>2, <2>u, HeldFacts, HeldFactsAfter
    <3>2. Orphans' = Orphans
      BY <2>u DEF Orphans, Linked
    <3>3. /\ Paid(Orphans \ Held, Orphans' \ Held', loc["upload"].fileid)
          /\ Paid(tmpfiles \ HeldFile, tmpfiles' \ HeldFile', NoFile)
      BY <2>2, <2>u, <3>1, <3>2 DEF Paid, Fault
    <3> QED
      BY <3>3, LeakStep
  <2> QED
    BY <1>3, <2>1, <2>2 DEF UploadUrl
<1>4. CASE UploadInsertInfo
  <2>u. /\ UNCHANGED <<storage, tmpfiles>> /\ pc["upload"] = "up_info"
        /\ ~HasRow(file_info, loc["upload"].key.md5)
    BY <1>4 DEF UploadInsertInfo, fdfs, SerialInv, UploadKnows, Stored
  <2>k. /\ loc["upload"].key.md5 \in Md5s
        /\ file_info \in [Md5s -> Seq(FileRow)]
    BY <1>p, <2>u, AtWork DEF TypeOK, TablesTypeOK
  <2>1. CASE /\ NoFault /\ Goto("upload", "up_list", loc["upload"])
             /\ \E size \in Sizes :
                  file_info' = Insert(file_info, loc["upload"].key.md5,
                                      [file_id |-> loc["upload"].fileid, url |-> loc["upload"].url,
                                       size |-> size, count |-> 1])
    <3>1. PICK r : /\ r.file_id = loc["upload"].fileid
                   /\ file_info' = Insert(file_info, loc["upload"].key.md5, r)
      BY <2>1
    <3>2. /\ file_info[loc["upload"].key.md5] = <<>>
          /\ file_info'[loc["upload"].key.md5] = Append(<<>>, r)
          /\ \A m \in Md5s : m # loc["upload"].key.md5 => file_info'[m] = file_info[m]
      BY <2>k, <2>u, <3>1 DEF Insert, HasRow
    <3>3. /\ Len(file_info'[loc["upload"].key.md5]) = 1
          /\ file_info'[loc["upload"].key.md5][1] = r
      <4>1. <<>> \in Seq({r})
        OBVIOUS
      <4> QED
        BY <3>2, <4>1
    <3>4. Linked(loc["upload"].fileid)'
      <4>1. 1 \in 1..Len(file_info'[loc["upload"].key.md5])
        BY <3>3
      <4>2. loc'["upload"].fileid = loc["upload"].fileid
        BY <1>g, <2>1
      <4> QED
        BY <2>k, <3>1, <3>3, <4>1, <4>2 DEF Linked
    <3>5. ASSUME NEW f, Linked(f) PROVE Linked(f)'
      <4>1. PICK m \in Md5s : \E i \in 1..Len(file_info[m]) : file_info[m][i].file_id = f
        BY <3>5 DEF Linked
      <4>2. m # loc["upload"].key.md5
        BY <3>2, <4>1
      <4> QED
        BY <3>2, <4>1, <4>2 DEF Linked
    <3>6. Orphans' \subseteq Orphans \ {loc["upload"].fileid}
      <4>1. loc'["upload"].fileid = loc["upload"].fileid
        BY <1>g, <2>1
      <4> QED
        BY <2>u, <3>4, <3>5, <4>1 DEF Orphans
    <3>7. Held \subseteq Held' \cup {loc["upload"].fileid} /\ HeldFile \subseteq HeldFile'
      BY <1>g, <2>1, <2>u, HeldFacts, HeldFactsAfter
    <3>8. /\ Paid(Orphans \ Held, Orphans' \ Held', NoFile)
          /\ Paid(tmpfiles \ HeldFile, tmpfiles' \ HeldFile', NoFile)
      BY <2>1, <2>u, <3>6, <3>7 DEF Paid, NoFault
    <3> QED
      BY <3>8, LeakStep
  <2>2. CASE Fault /\ Finish("upload", "009") /\ UNCHANGED file_info
    <3>1. Held \subseteq Held' \cup {loc["upload"].fileid} /\ HeldFile \subseteq HeldFile'
      BY <1>f, <2>2, <2>u, HeldFacts, HeldFactsAfter
    <3>2. Orphans' = Orphans
      BY <2>2, <2>u DEF Orphans, Linked
    <3>3. /\ Paid(Orphans \ Held, Orphans' \ Held', loc["upload"].fileid)
          /\ Paid(tmpfiles \ HeldFile, tmpfiles' \ HeldFile', NoFile)
      BY <2>2, <2>u, <3>1, <3>2 DEF Paid, Fault
    <3> QED
      BY <3>3, LeakStep
  <2> QED
    BY <1>4, <2>1, <2>2, <2>u DEF UploadInsertInfo
<1>5. CASE UploadInsertList \/ UploadSetCount
  <2>1. /\ UNCHANGED <<storage, tmpfiles, file_info>>
        /\ pc["upload"] \in {"up_list", "up_count"}
    BY <1>5 DEF UploadInsertList, UploadSetCount, fdfs
  <2>2. pc'["filesop"] = pc["filesop"] /\ loc'["filesop"] = loc["filesop"]
    BY <1>5, <1>f, <1>g DEF UploadInsertList, UploadSetCount
  <2>3. Held \subseteq Held' /\ HeldFile \subseteq HeldFile'
    BY <2>1, <2>2, HeldFacts, HeldFactsAfter
  <2> QED
    BY <2>1, <2>3, LeakKept, UnchangedObjects
<1>6. CASE UploadSelectCount
  <2>1. /\ pc["upload"] = "up_selcount"
        /\ \E v : Goto("upload", "up_count", v)
        /\ UNCHANGED <<mysql, redis, fdfs>>
    BY <1>6, <1>p, SelectsCount DEF UploadSelectCount
  <2>2. Held \subseteq Held' /\ HeldFile \subseteq HeldFile'
    BY <1>g, <2>1, HeldFacts, HeldFactsAfter
  <2> QED
    BY <2>1, <2>2, LeakKept, UnchangedObjects DEF mysql, fdfs
<1> QED
  BY <1>1, <1>2, <1>3, <1>4, <1>5, <1>6 DEF UploadStep

LEMMA FilesOpLeaks ==
  ASSUME TypeOK, ObjectInv, SerialInv, LeakInv, [Next]_vars, FilesOpStep
  PROVE  LeakInv'
<1>p. "upload" \in Programs /\ "filesop" \in Programs /\ ControlTypeOK
  BY DEF Programs, TypeOK
<1>g. ASSUME NEW l, NEW v, Goto("filesop", l, v)
      PROVE  /\ pc'["filesop"] = l /\ loc'["filesop"] = v
             /\ pc'["upload"] = pc["upload"] /\ loc'["upload"] = loc["upload"]
  BY <1>g, <1>p, GotoFacts
<1>f. ASSUME NEW c, Finish("filesop", c)
      PROVE  /\ pc'["filesop"] = "idle"
             /\ pc'["upload"] = pc["upload"] /\ loc'["upload"] = loc["upload"]
  BY <1>f, <1>p, FinishFacts
<1>1. CASE DelInfo
  <2>u. /\ UNCHANGED <<storage, tmpfiles>> /\ pc["filesop"] = "del_info"
        /\ HeldFile = HeldFile'
    BY <1>1, <1>f, <1>g, HeldFacts, HeldFactsAfter DEF DelInfo, FilesOpFails, fdfs
  <2>1. CASE /\ NoFault /\ file_info' = DeleteWhere(file_info, me.key.md5)
             /\ Goto("filesop", "del_remove", me)
    <3>1. PICK h \in Md5s : h = me.key.md5
      BY <1>p, <2>u, AtWork DEF me
    <3>2. /\ \A m \in Md5s : m # h => file_info'[m] = file_info[m]
          /\ file_info[h] \in Seq(FileRow) /\ Len(file_info[h]) <= 1
      BY <2>1, <3>1 DEF DeleteWhere, TypeOK, TablesTypeOK, SerialInv, OneRow
    <3>3. PICK i \in 1..Len(file_info[h]) : file_info[h][i].file_id = me.fileid
      BY <2>u, <3>1 DEF ObjectInv, PendingRemove
    <3>4. \A j \in 1..Len(file_info[h]) : j = i
      BY <3>2
    <3>5. ASSUME NEW f, Linked(f), f # me.fileid PROVE Linked(f)'
      <4>1. PICK m \in Md5s : \E j \in 1..Len(file_info[m]) : file_info[m][j].file_id = f
        BY <3>5 DEF Linked
      <4>2. m # h
        BY <3>3, <3>4, <3>5, <4>1
      <4> QED
        BY <3>2, <4>1, <4>2 DEF Linked
    <3>6. Orphans' \subseteq Orphans \cup {me.fileid}
      BY <2>u, <3>5 DEF Orphans
    <3>7. me.fileid \in Held' /\ Held \subseteq Held'
      BY <1>g, <2>1, <2>u, HeldFacts, HeldFactsAfter DEF me
    <3>8. /\ Paid(Orphans \ Held, Orphans' \ Held', NoFile)
          /\ Paid(tmpfiles \ HeldFile, tmpfiles' \ HeldFile', NoFile)
      BY <2>1, <2>u, <3>6, <3>7 DEF Paid, NoFault
    <3> QED
      BY <3>8, LeakStep
  <2>2. CASE Finish("filesop", "014") /\ UNCHANGED file_info
    <3>1. Held \subseteq Held'
      BY <1>f, <2>2, <2>u, HeldFacts, HeldFactsAfter
    <3> QED
      BY <2>2, <2>u, <3>1, LeakKept, UnchangedObjects
  <2> QED
    BY <1>1, <2>1, <2>2 DEF DelInfo, FilesOpFails
<1>2. CASE DelRemove
  <2>u. /\ UNCHANGED <<file_info, tmpfiles>> /\ pc["filesop"] = "del_remove"
        /\ HeldFile = HeldFile' /\ Held \subseteq Held' \cup {me.fileid}
    BY <1>2, <1>f, HeldFacts, HeldFactsAfter DEF DelRemove, mysql, me
  <2>1. CASE NoFault /\ storage' = storage \ {me.fileid}
    <3>1. Orphans' \subseteq Orphans \ {me.fileid}
      BY <2>1, <2>u DEF Orphans, Linked
    <3>2. /\ Paid(Orphans \ Held, Orphans' \ Held', NoFile)
          /\ Paid(tmpfiles \ HeldFile, tmpfiles' \ HeldFile', NoFile)
      BY <2>1, <2>u, <3>1 DEF Paid, NoFault
    <3> QED
      BY <3>2, LeakStep
  <2>2. CASE NoFault /\ me.fileid \notin storage /\ UNCHANGED storage
    <3>1. Orphans' = Orphans /\ me.fileid \notin Orphans
      BY <2>2, <2>u DEF Orphans, Linked
    <3>2. /\ Paid(Orphans \ Held, Orphans' \ Held', NoFile)
          /\ Paid(tmpfiles \ HeldFile, tmpfiles' \ HeldFile', NoFile)
      BY <2>2, <2>u, <3>1 DEF Paid, NoFault
    <3> QED
      BY <3>2, LeakStep
  <2>3. CASE Fault /\ UNCHANGED storage
    <3>1. Orphans' = Orphans
      BY <2>3, <2>u DEF Orphans, Linked
    <3>2. /\ Paid(Orphans \ Held, Orphans' \ Held', me.fileid)
          /\ Paid(tmpfiles \ HeldFile, tmpfiles' \ HeldFile', NoFile)
      BY <2>3, <2>u, <3>1 DEF Paid, Fault
    <3> QED
      BY <3>2, LeakStep
  <2> QED
    BY <1>2, <2>1, <2>2, <2>3 DEF DelRemove
<1>3. CASE DelSetReference
  <2>1. /\ UNCHANGED <<storage, tmpfiles>> /\ pc["filesop"] = "del_ref"
    BY <1>3 DEF DelSetReference, fdfs
  <2>2. SameObjects
    <3>1. me.key.md5 \in Md5s /\ me.count \in Int
      BY <1>p, <2>1, AtWork DEF me
    <3>2. CASE file_info' = UpdateCountWhere(file_info, me.key.md5, me.count)
      BY <3>1, <3>2, UpdatedRows DEF TypeOK, TablesTypeOK
    <3> QED
      BY <1>3, <3>2, UnchangedObjects DEF DelSetReference
  <2>3. pc'["upload"] = pc["upload"] /\ loc'["upload"] = loc["upload"]
    BY <1>3, <1>f, <1>g DEF DelSetReference, FilesOpFails
  <2>4. Held \subseteq Held' /\ HeldFile \subseteq HeldFile'
    BY <2>1, <2>3, HeldFacts, HeldFactsAfter
  <2> QED
    BY <2>1, <2>2, <2>4, LeakKept
<1>4. CASE \/ DelZexit \/ DelStatus \/ DelShare \/ DelSelectShares \/ DelSetShares \/ DelZrem
           \/ DelHdel \/ DelSelectCount \/ DelSetCount \/ DelList \/ DelSelectReference
           \/ DelSelectId
  <2>1. /\ UNCHANGED <<storage, tmpfiles, file_info>> /\ pc["filesop"] # "del_remove"
    BY <1>4 DEF DelZexit, DelStatus, DelShare, DelSelectShares, DelSetShares, DelZrem, DelHdel,
                DelSelectCount, DelSetCount, DelList, DelSelectReference, DelSelectId,
                mysql, fdfs
  <2>2. pc'["upload"] = pc["upload"] /\ loc'["upload"] = loc["upload"]
    BY <1>4, <1>f, <1>g
       DEF DelZexit, DelStatus, DelShare, DelSelectShares, DelSetShares, DelZrem, DelHdel,
           DelSelectCount, DelSetCount, DelList, DelSelectReference, DelSelectId,
           FilesOpFails
  <2>3. Held \subseteq Held' /\ HeldFile \subseteq HeldFile'
    BY <2>1, <2>2, HeldFacts, HeldFactsAfter
  <2> QED
    BY <2>1, <2>3, LeakKept, UnchangedObjects
<1>5. CASE ShareStep
  <2>1. /\ UNCHANGED <<storage, tmpfiles, file_info>> /\ pc["filesop"] # "del_remove"
    BY <1>5 DEF ShareStep, ShareZexit, ShareSelect, ShareReadd, ShareStatus, ShareInsert,
                ShareSelectCount, SelectCountToAdd, ShareSetCount, ShareZadd, ShareHset,
                mysql, fdfs
  <2>2. pc'["upload"] = pc["upload"] /\ loc'["upload"] = loc["upload"]
    BY <1>5, <1>f, <1>g
       DEF ShareStep, ShareZexit, ShareSelect, ShareReadd, ShareStatus, ShareInsert,
           ShareSelectCount, SelectCountToAdd, ShareSetCount, ShareZadd, ShareHset, FilesOpFails
  <2>3. Held \subseteq Held' /\ HeldFile \subseteq HeldFile'
    BY <2>1, <2>2, HeldFacts, HeldFactsAfter
  <2> QED
    BY <2>1, <2>3, LeakKept, UnchangedObjects
<1> QED
  BY <1>1, <1>2, <1>3, <1>4, <1>5 DEF FilesOpStep, DelStep

LEMMA InitLeaks == Init => LeakInv
<1> SUFFICES ASSUME Init PROVE LeakInv
  OBVIOUS
<1>1. Orphans = {} /\ tmpfiles = {} /\ faults = 0
  BY DEF Init, Orphans
<1>2. {} \ Held = {} /\ {} \ HeldFile = {}
  OBVIOUS
<1>3. IsFiniteSet({}) /\ Cardinality({}) = 0
  BY FS_EmptySet
<1> QED
  BY <1>1, <1>2, <1>3 DEF LeakInv

LEMMA NextLeaks ==
  TypeOK /\ ObjectInv /\ SerialInv /\ LeakInv /\ [Next]_vars => LeakInv'
<1> SUFFICES ASSUME TypeOK, ObjectInv, SerialInv, LeakInv, [Next]_vars PROVE LeakInv'
  OBVIOUS
<1>p. "upload" \in Programs /\ "filesop" \in Programs /\ ControlTypeOK
  BY DEF Programs, TypeOK
<1>1. CASE Request
  <2>1. PICK p \in Programs, k \in FileKey \cup {NoKey} : \E l \in LabelsOf(p) : Accept(p, k, l)
    BY <1>1, AcceptedRequest
  <2>2. UNCHANGED <<storage, tmpfiles, file_info>>
    BY <1>1, AcceptedRequest DEF mysql, fdfs
  <2>3. pc[p] = "idle" /\ \A q \in Programs : q # p => pc'[q] = pc[q] /\ loc'[q] = loc[q]
    BY <1>p, <2>1 DEF Accept, ControlTypeOK
  <2>4. /\ pc["upload"] # "idle" => pc'["upload"] = pc["upload"] /\ loc'["upload"] = loc["upload"]
        /\ pc["filesop"] # "idle" =>
             pc'["filesop"] = pc["filesop"] /\ loc'["filesop"] = loc["filesop"]
    BY <1>p, <2>3
  <2>5. Held \subseteq Held' /\ HeldFile \subseteq HeldFile'
    BY <2>4, HeldFacts, HeldFactsAfter
  <2> QED
    BY <2>2, <2>5, LeakKept, UnchangedObjects
<1>2. CASE UploadStep \/ FilesOpStep
  BY <1>2, UploadLeaks, FilesOpLeaks
<1>3. CASE Md5Step
  <2>1. UNCHANGED tmpfiles
    BY <1>3 DEF Md5Step, Md5SelectInfo, Md5SelectList, Md5AddReference, Md5InsertList,
                Md5SelectCount, SelectCountToAdd, Md5SetCount, fdfs
  <2> QED
    BY <1>3, <2>1, Md5Frame, LeakApart
<1>4. CASE ShareOpStep
  <2>1. UNCHANGED tmpfiles
    BY <1>4 DEF ShareOpStep, PvStep, PvSelect, PvUpdate, PvZexit, PvZincr, PvZadd, PvHset,
                CancelStep, CancelStatus, CancelSelectShares, CancelSetShares, CancelShare,
                CancelZrem, CancelHdel, SaveStep, SaveSelectList, SaveSelectReference,
                SaveAddReference, SaveInsertList, SaveSelectCount, SelectCountToAdd,
                SaveSetCount, fdfs
  <2> QED
    BY <1>4, <2>1, ShareOpFrame, LeakApart
<1>5. CASE ShareListStep
  <2>1. /\ pc'["upload"] = pc["upload"] /\ loc'["upload"] = loc["upload"]
        /\ pc'["filesop"] = pc["filesop"] /\ loc'["filesop"] = loc["filesop"]
        /\ UNCHANGED <<storage, tmpfiles, file_info>>
    BY <1>5, <1>p, ShareListFacts DEF Programs, mysql, fdfs
  <2> QED
    BY <2>1, LeakApart, UnchangedObjects
<1>6. CASE \E p \in Programs : Crash(p)
  <2>1. PICK p \in Programs : Crash(p)
    BY <1>6
  <2>2. /\ UNCHANGED <<storage, tmpfiles, file_info>> /\ Fault
        /\ \A q \in Programs : q # p => pc'[q] = pc[q] /\ loc'[q] = loc[q]
    BY <1>p, <2>1 DEF Crash, ControlTypeOK, mysql, fdfs
  <2>3. /\ Held \subseteq Held' \cup {loc[p].fileid}
        /\ HeldFile \subseteq HeldFile' \cup {loc[p].key.name}
    <3>1. CASE p = "upload"
      BY <1>p, <2>2, <3>1, HeldFacts, HeldFactsAfter
    <3>2. CASE p = "filesop"
      BY <1>p, <2>2, <3>2, HeldFacts, HeldFactsAfter
    <3>3. CASE p \notin {"upload", "filesop"}
      BY <1>p, <2>2, <3>3, HeldFacts, HeldFactsAfter
    <3> QED
      BY <3>1, <3>2, <3>3
  <2>4. Orphans' = Orphans
    BY <2>2 DEF Orphans, Linked
  <2>5. /\ Paid(Orphans \ Held, Orphans' \ Held', loc[p].fileid)
        /\ Paid(tmpfiles \ HeldFile, tmpfiles' \ HeldFile', loc[p].key.name)
    BY <2>2, <2>3, <2>4 DEF Paid, Fault
  <2> QED
    BY <2>5, LeakStep
<1>7. CASE UNCHANGED vars
  BY <1>7, LeakApart, UnchangedObjects DEF vars, mysql, fdfs
<1> QED
  BY <1>1, <1>2, <1>3, <1>4, <1>5, <1>6, <1>7 DEF Next, Done

\* For clients that wait for each other and upload only what the md5 check did not
\* find, every object in FastDFS without a row and every temporary file that
\* cgi_upload leaves behind has cost a failure or a kill of its own.
THEOREM LeaksCost ==
  ASSUME Waiting
  PROVE  Spec => []LeakBounded
<1>1. LeakInv => LeakBounded
  <2> SUFFICES ASSUME LeakInv, Quiet
               PROVE  Cardinality(Orphans) <= faults /\ Cardinality(tmpfiles) <= faults
    BY DEF LeakBounded
  <2>1. Held = {} /\ HeldFile = {}
    BY HeldFacts DEF Quiet, Programs
  <2>2. Orphans \ {} = Orphans /\ tmpfiles \ {} = tmpfiles
    OBVIOUS
  <2> QED
    BY <2>1, <2>2 DEF LeakInv
<1>2. Init => LeakInv
  BY InitLeaks
<1>3. TypeOK /\ ObjectInv /\ SerialInv /\ LeakInv /\ [Next]_vars => LeakInv'
  BY NextLeaks
<1> QED
  BY <1>1, <1>2, <1>3, SerialCorrect, ObjectsCorrect, PTL DEF Spec

------------------------------------------------------------------------------
(* The counters: files and their entries *)

LEMMA ListedLen ==
  ASSUME user_file_list \in [FileKey -> Seq({0, 1})], NEW k \in FileKey
  PROVE  Listed(k) <=> Len(user_file_list[k]) # 0
<1>1. user_file_list[k] \in Seq({0, 1})
  OBVIOUS
<1> QED
  BY <1>1 DEF Listed, HasRow

\* A listed file has an entry.
LEMMA ListedFinite ==
  ASSUME user_file_list \in [FileKey -> Seq({0, 1})], NEW S \in SUBSET FileKey,
         IsFiniteSet(RowsOf(user_file_list, S))
  PROVE  /\ IsFiniteSet(ListedAmong(S))
         /\ Cardinality(ListedAmong(S)) \in Nat
         /\ Cardinality(RowsOf(user_file_list, S)) \in Nat
         /\ Cardinality(ListedAmong(S)) <= Cardinality(RowsOf(user_file_list, S))
<1> DEFINE L == ListedAmong(S)
           T == RowsOf(user_file_list, S)
           f == [k \in L |-> <<k, 1>>]
<1>1. ASSUME NEW k \in L PROVE <<k, 1>> \in T
  <2>1. k \in S /\ user_file_list[k] \in Seq({0, 1}) /\ user_file_list[k] # <<>>
    BY DEF ListedAmong, Listed, HasRow
  <2>2. 1 \in 1..Len(user_file_list[k])
    BY <2>1
  <2> QED
    BY <2>1, <2>2, RowFacts
<1>2. f \in Injection(L, T)
  BY <1>1 DEF Injection, IsInjective
<1> HIDE DEF L, T, f
<1>3. IsFiniteSet(L) /\ Cardinality(L) <= Cardinality(T)
  BY <1>2, FS_Injection DEF T
<1> QED
  BY <1>3, FS_CardinalityType DEF L, T

\* What a step does to the files and the entries among S, when it lists dl more
\* files and inserts at most de more entries, all of them for file k.
Moved(k, dl, de) ==
  \A S \in SUBSET FileKey : IsFiniteSet(RowsOf(user_file_list, S)) =>
    /\ IsFiniteSet(RowsOf(user_file_list', S))
    /\ Cardinality(ListedAmong(S)') =
         Cardinality(ListedAmong(S)) + (IF k \in S THEN dl ELSE 0)
    /\ Cardinality(RowsOf(user_file_list', S))
         <= Cardinality(RowsOf(user_file_list, S)) + (IF k \in S THEN de ELSE 0)

LEMMA NothingMoved ==
  ASSUME user_file_list \in [FileKey -> Seq({0, 1})],
         user_file_list' \in [FileKey -> Seq({0, 1})],
         \A j \in FileKey : Len(user_file_list'[j]) = Len(user_file_list[j]), NEW k
  PROVE  /\ Moved(k, 0, 0)
         /\ \A j \in FileKey : Listed(j)' <=> Listed(j)
<1>1. \A j \in FileKey : Listed(j)' <=> Listed(j)
  <2> SUFFICES ASSUME NEW j \in FileKey PROVE Listed(j)' <=> Listed(j)
    OBVIOUS
  <2>1. Listed(j)' <=> Len(user_file_list'[j]) # 0
    <3>1. user_file_list'[j] \in Seq({0, 1})
      OBVIOUS
    <3> QED
      BY <3>1 DEF Listed, HasRow
  <2> QED
    BY <2>1, ListedLen
<1>2. ASSUME NEW S \in SUBSET FileKey, IsFiniteSet(RowsOf(user_file_list, S))
      PROVE  /\ RowsOf(user_file_list', S) = RowsOf(user_file_list, S)
             /\ ListedAmong(S)' = ListedAmong(S)
             /\ Cardinality(ListedAmong(S)) \in Nat
             /\ Cardinality(RowsOf(user_file_list, S)) \in Nat
  BY <1>1, <1>2, RowsSame, ListedFinite DEF ListedAmong
<1> QED
  BY <1>1, <1>2 DEF Moved

LEMMA EntryInserted ==
  ASSUME user_file_list \in [FileKey -> Seq({0, 1})], NEW k \in FileKey,
         user_file_list' = Insert(user_file_list, k, 0)
  PROVE  /\ Moved(k, 1 - One(Listed(k)), 1)
         /\ Listed(k)' /\ \A j \in FileKey : j # k => (Listed(j)' <=> Listed(j))
<1> DEFINE R == {0, 1}
<1>1. user_file_list \in [FileKey -> Seq(R)] /\ 0 \in R
  OBVIOUS
<1>2. Listed(k)' /\ \A j \in FileKey : j # k => (Listed(j)' <=> Listed(j))
  <2>1. /\ user_file_list'[k] = Append(user_file_list[k], 0)
        /\ user_file_list[k] \in Seq({0, 1})
        /\ \A j \in FileKey : j # k => user_file_list'[j] = user_file_list[j]
    BY DEF Insert
  <2>2. user_file_list'[k] # <<>>
    BY <2>1
  <2> QED
    BY <2>1, <2>2 DEF Listed, HasRow
<1> HIDE DEF R
<1>3. ASSUME NEW S \in SUBSET FileKey, IsFiniteSet(RowsOf(user_file_list, S))
      PROVE  /\ IsFiniteSet(RowsOf(user_file_list', S))
             /\ Cardinality(ListedAmong(S)') =
                  Cardinality(ListedAmong(S)) + (IF k \in S THEN 1 - One(Listed(k)) ELSE 0)
             /\ Cardinality(RowsOf(user_file_list', S))
                  <= Cardinality(RowsOf(user_file_list, S)) + (IF k \in S THEN 1 ELSE 0)
  <2>1. /\ IsFiniteSet(RowsOf(user_file_list', S))
        /\ k \in S => Cardinality(RowsOf(user_file_list', S))
                        = Cardinality(RowsOf(user_file_list, S)) + 1
        /\ k \notin S => RowsOf(user_file_list', S) = RowsOf(user_file_list, S)
    BY <1>1, <1>3, RowsGrow
  <2>2. /\ IsFiniteSet(ListedAmong(S)) /\ Cardinality(ListedAmong(S)) \in Nat
        /\ Cardinality(RowsOf(user_file_list, S)) \in Nat
    BY <1>3, ListedFinite
  <2>3. CASE k \in S
    <3>1. ListedAmong(S)' = ListedAmong(S) \cup {k}
      BY <1>2, <2>3 DEF ListedAmong
    <3>2. Cardinality(ListedAmong(S) \cup {k}) =
            IF k \in ListedAmong(S) THEN Cardinality(ListedAmong(S))
                                     ELSE Cardinality(ListedAmong(S)) + 1
      BY <2>2, FS_AddElement
    <3>3. k \in ListedAmong(S) <=> Listed(k)
      BY <2>3 DEF ListedAmong
    <3> QED
      BY <2>1, <2>2, <2>3, <3>1, <3>2, <3>3 DEF One
  <2>4. CASE k \notin S
    <3>1. ListedAmong(S)' = ListedAmong(S)
      BY <1>2, <2>4 DEF ListedAmong
    <3> QED
      BY <2>1, <2>2, <2>4, <3>1
  <2> QED
    BY <2>3, <2>4
<1> QED
  BY <1>2, <1>3 DEF Moved

LEMMA EntryDeleted ==
  ASSUME user_file_list \in [FileKey -> Seq({0, 1})], NEW k \in FileKey, Listed(k),
         user_file_list' = DeleteWhere(user_file_list, k)
  PROVE  Moved(k, -1, -1)
<1> DEFINE R == {0, 1}
<1>1. user_file_list \in [FileKey -> Seq(R)]
  OBVIOUS
<1>2. ~Listed(k)' /\ \A j \in FileKey : j # k => (Listed(j)' <=> Listed(j))
  BY DEF DeleteWhere, Listed, HasRow
<1> HIDE DEF R
<1>3. ASSUME NEW S \in SUBSET FileKey, IsFiniteSet(RowsOf(user_file_list, S))
      PROVE  /\ IsFiniteSet(RowsOf(user_file_list', S))
             /\ Cardinality(ListedAmong(S)') =
                  Cardinality(ListedAmong(S)) + (IF k \in S THEN -1 ELSE 0)
             /\ Cardinality(RowsOf(user_file_list', S))
                  <= Cardinality(RowsOf(user_file_list, S)) + (IF k \in S THEN -1 ELSE 0)
  <2>1. /\ IsFiniteSet(RowsOf(user_file_list', S))
        /\ k \in S => Cardinality(RowsOf(user_file_list', S)) + 1
                        <= Cardinality(RowsOf(user_file_list, S))
        /\ k \notin S => RowsOf(user_file_list', S) = RowsOf(user_file_list, S)
    BY <1>1, <1>3, RowsDeleted DEF Listed
  <2>2. /\ IsFiniteSet(ListedAmong(S)) /\ Cardinality(ListedAmong(S)) \in Nat
        /\ Cardinality(RowsOf(user_file_list, S)) \in Nat
        /\ Cardinality(RowsOf(user_file_list', S)) \in Nat
    BY <1>3, <2>1, ListedFinite, FS_CardinalityType
  <2>3. CASE k \in S
    <3>1. ListedAmong(S)' = ListedAmong(S) \ {k} /\ k \in ListedAmong(S)
      BY <1>2, <2>3 DEF ListedAmong
    <3>2. Cardinality(ListedAmong(S) \ {k}) = Cardinality(ListedAmong(S)) - 1
      BY <2>2, <3>1, FS_RemoveElement
    <3> QED
      BY <2>1, <2>2, <2>3, <3>1, <3>2
  <2>4. CASE k \notin S
    <3>1. ListedAmong(S)' = ListedAmong(S)
      BY <1>2, <2>4 DEF ListedAmong
    <3> QED
      BY <2>1, <2>2, <2>4, <3>1
  <2> QED
    BY <2>3, <2>4
<1> QED
  BY <1>3 DEF Moved

------------------------------------------------------------------------------
(* The counters: the rows of user_file_count *)

LEMMA FilesType ==
  ASSUME user_file_count \in [Accounts -> Seq(Int)], NEW a \in Accounts
  PROVE  /\ CountedFiles(a) \in Int
         /\ HasRow(user_file_count, a) => CountedFiles(a) = FirstRow(user_file_count, a)
  BY FirstRowFacts DEF CountedFiles

\* A count that is set is the number that is written, if it has a row; an insert
\* starts at 1, and a delete leaves nothing.  No other account changes.
LEMMA FilesSet ==
  ASSUME user_file_count \in [Accounts -> Seq(Int)], NEW a \in Accounts, NEW n \in Int,
         user_file_count' = UpdateWhere(user_file_count, a, n)
  PROVE  /\ HasRow(user_file_count, a) => CountedFiles(a)' = n
         /\ \A b \in Accounts : b # a => CountedFiles(b)' = CountedFiles(b)
         /\ \A b \in Accounts : HasRow(user_file_count, b)' <=> HasRow(user_file_count, b)
<1>1. /\ user_file_count' \in [Accounts -> Seq(Int)]
      /\ Len(user_file_count'[a]) = Len(user_file_count[a])
      /\ \A i \in 1..Len(user_file_count[a]) : user_file_count'[a][i] = n
      /\ \A b \in Accounts : b # a => user_file_count'[b] = user_file_count[b]
  <2> DEFINE R == Int
  <2>1. user_file_count \in [Accounts -> Seq(R)] /\ n \in R
    OBVIOUS
  <2> HIDE DEF R
  <2>2. /\ user_file_count' \in [Accounts -> Seq(R)]
        /\ Len(user_file_count'[a]) = Len(user_file_count[a])
        /\ \A i \in 1..Len(user_file_count[a]) : user_file_count'[a][i] = n
        /\ \A b \in Accounts : b # a => user_file_count'[b] = user_file_count[b]
    BY <2>1, UpdateFacts
  <2> QED
    BY <2>2 DEF R
<1>2. user_file_count'[a] # <<>> <=> user_file_count[a] # <<>>
  <2>1. user_file_count'[a] \in Seq(Int) /\ user_file_count[a] \in Seq(Int)
    BY <1>1
  <2> QED
    BY <1>1, <2>1
<1>3. HasRow(user_file_count, a) => user_file_count'[a][1] = n
  <2>1. HasRow(user_file_count, a) => 1 \in 1..Len(user_file_count[a])
    BY FirstRowFacts
  <2> QED
    BY <1>1, <2>1
<1>4. HasRow(user_file_count, a) => CountedFiles(a)' = n
  BY <1>2, <1>3 DEF CountedFiles, HasRow, FirstRow
<1>5. \A b \in Accounts : b # a => CountedFiles(b)' = CountedFiles(b)
  BY <1>1 DEF CountedFiles, HasRow, FirstRow
<1> QED
  BY <1>1, <1>2, <1>4, <1>5 DEF HasRow

LEMMA FilesInserted ==
  ASSUME user_file_count \in [Accounts -> Seq(Int)], NEW a \in Accounts,
         ~HasRow(user_file_count, a), user_file_count' = Insert(user_file_count, a, 1)
  PROVE  /\ CountedFiles(a) = 0 /\ CountedFiles(a)' = 1
         /\ \A b \in Accounts : b # a => CountedFiles(b)' = CountedFiles(b)
<1>1. /\ user_file_count[a] = <<>> /\ user_file_count'[a] = Append(<<>>, 1)
      /\ \A b \in Accounts : b # a => user_file_count'[b] = user_file_count[b]
  BY DEF HasRow, Insert
<1>2. user_file_count'[a][1] = 1 /\ Len(user_file_count'[a]) = 1
  <2>1. <<>> \in Seq(Int)
    OBVIOUS
  <2>2. Len(Append(<<>>, 1)) = Len(<<>>) + 1 /\ Append(<<>>, 1)[Len(<<>>) + 1] = 1
    BY <2>1
  <2>3. Append(<<>>, 1)[1] = 1 /\ Len(Append(<<>>, 1)) = 1
    BY <2>2
  <2> QED
    BY <1>1, <2>3
<1>3. user_file_count'[a] # <<>>
  BY <1>2
<1> QED
  BY <1>1, <1>2, <1>3 DEF CountedFiles, HasRow, FirstRow

LEMMA FilesDeleted ==
  ASSUME user_file_count \in [Accounts -> Seq(Int)], NEW a \in Accounts,
         user_file_count' = DeleteWhere(user_file_count, a)
  PROVE  /\ CountedFiles(a)' = 0
         /\ \A b \in Accounts : b # a => CountedFiles(b)' = CountedFiles(b)
<1>1. /\ user_file_count'[a] = <<>>
      /\ \A b \in Accounts : b # a => user_file_count'[b] = user_file_count[b]
  BY DEF DeleteWhere
<1> QED
  BY <1>1 DEF CountedFiles, HasRow, FirstRow

LEMMA FilesSame ==
  ASSUME UNCHANGED user_file_count
  PROVE  \A a : CountedFiles(a)' = CountedFiles(a)
  BY DEF CountedFiles, HasRow, FirstRow

\* The statement that adds to a count: what is written is one more than the row
\* has, or nothing when the select before it had failed.
LEMMA FilesAdded ==
  ASSUME TypeOK, NEW p \in Programs, NEW a \in Accounts, CountKnown(p, a),
         AddToCount(p, a)
  PROVE  /\ \A b \in Accounts : b # a => CountedFiles(b)' = CountedFiles(b)
         /\ CountedFiles(a)' \in {CountedFiles(a), CountedFiles(a) + 1}
         /\ loc[p].sql \in {"update", "insert"} => CountedFiles(a)' = CountedFiles(a) + 1
<1>1. user_file_count \in [Accounts -> Seq(Int)] /\ CountedFiles(a) \in Int
  BY FilesType DEF TypeOK, TablesTypeOK
<1>2. CASE loc[p].sql = "update"
  <2>1. /\ HasRow(user_file_count, a) /\ loc[p].count = CountedFiles(a)
        /\ user_file_count' = UpdateWhere(user_file_count, a, loc[p].count + 1)
    BY <1>2 DEF CountKnown, AddToCount
  <2> QED
    BY <1>1, <2>1, FilesSet
<1>3. CASE loc[p].sql = "insert"
  <2>1. /\ ~HasRow(user_file_count, a)
        /\ user_file_count' = Insert(user_file_count, a, 1)
    BY <1>3 DEF CountKnown, AddToCount
  <2>2. /\ CountedFiles(a) = 0 /\ CountedFiles(a)' = 1
        /\ \A b \in Accounts : b # a => CountedFiles(b)' = CountedFiles(b)
    BY <1>1, <2>1, FilesInserted
  <2> QED
    BY <2>2
<1>4. CASE loc[p].sql \notin {"update", "insert"}
  BY <1>4, FilesSame DEF AddToCount
<1> QED
  BY <1>2, <1>3, <1>4

------------------------------------------------------------------------------
(* The counters: the bounds *)

\* At label l, with locals v, a program is going to write the user's count.
Counts(l, v) ==
  l \in BetweenLabels /\ (l \in CountLabels => v.sql \in {"insert", "update"})

\* What the program at work is about to do, when the others are idle.
LEMMA AloneAt ==
  ASSUME NEW p \in Programs, \A q \in Programs : q # p => pc[q] = "idle", NEW S
  PROVE  /\ Doubling(S) <=>
              pc[p] \in AddingLabels /\ loc[p].key \in S /\ Listed(loc[p].key)
         /\ Between(S) <=> pc[p] \in BetweenLabels /\ loc[p].key \in S
         /\ Counting(S) <=> Counts(pc[p], loc[p]) /\ loc[p].key \in S
<1>1. \A q \in Programs : pc[q] \in AddingLabels \/ pc[q] \in BetweenLabels => q = p
  BY DEF AddingLabels, BetweenLabels, CountLabels
<1>2. Doubling(S) <=>
        pc[p] \in AddingLabels /\ loc[p].key \in S /\ Listed(loc[p].key)
  <2>1. ASSUME NEW q \in Programs,
               pc[q] \in AddingLabels /\ loc[q].key \in S /\ Listed(loc[q].key)
        PROVE  pc[p] \in AddingLabels /\ loc[p].key \in S /\ Listed(loc[p].key)
    <3>1. q = p
      BY <1>1, <2>1
    <3> QED
      BY <2>1, <3>1
  <2> QED
    BY <2>1 DEF Doubling
<1>3. Between(S) <=> pc[p] \in BetweenLabels /\ loc[p].key \in S
  BY <1>1 DEF Between
<1>4. Counting(S) <=> Counts(pc[p], loc[p]) /\ loc[p].key \in S
  BY <1>1 DEF Counting, Counts
<1> QED
  BY <1>2, <1>3, <1>4

LEMMA AloneAtAfter ==
  ASSUME NEW p \in Programs, \A q \in Programs : q # p => pc'[q] = "idle", NEW S
  PROVE  /\ Doubling(S)' <=>
              pc'[p] \in AddingLabels /\ loc'[p].key \in S /\ Listed(loc[p].key)'
         /\ Between(S)' <=> pc'[p] \in BetweenLabels /\ loc'[p].key \in S
         /\ Counting(S)' <=> Counts(pc'[p], loc'[p]) /\ loc'[p].key \in S
<1>1. \A q \in Programs : pc'[q] \in AddingLabels \/ pc'[q] \in BetweenLabels => q = p
  BY DEF AddingLabels, BetweenLabels, CountLabels
<1>2. Doubling(S)' <=>
        pc'[p] \in AddingLabels /\ loc'[p].key \in S /\ Listed(loc[p].key)'
  <2>1. ASSUME NEW q \in Programs,
               pc'[q] \in AddingLabels /\ loc'[q].key \in S /\ Listed(loc[q].key)'
        PROVE  pc'[p] \in AddingLabels /\ loc'[p].key \in S /\ Listed(loc[p].key)'
    <3>1. q = p
      BY <1>1, <2>1
    <3> QED
      BY <2>1, <3>1
  <2> QED
    BY <2>1 DEF Doubling
<1>3. Between(S)' <=> pc'[p] \in BetweenLabels /\ loc'[p].key \in S
  BY <1>1 DEF Between
<1>4. Counting(S)' <=> Counts(pc'[p], loc'[p]) /\ loc'[p].key \in S
  BY <1>1 DEF Counting, Counts
<1> QED
  BY <1>2, <1>3, <1>4

\* The finite sets behind the bounds.
LEMMA BoundFacts ==
  ASSUME TypeOK, SerialInv, DriftInv
  PROVE  /\ \A m \in Md5s : /\ ContentKeys(m) \in SUBSET FileKey
                            /\ IsFiniteSet(RowsOf(user_file_list, ContentKeys(m)))
                            /\ CountedReferences(m) \in Int
                            /\ Cardinality(ListedAmong(ContentKeys(m))) \in Nat
         /\ \A u \in Users : /\ UserKeys(u) \in SUBSET FileKey
                             /\ IsFiniteSet(RowsOf(user_file_list, UserKeys(u)))
                             /\ CountedFiles(u) \in Int
                             /\ Cardinality(ListedAmong(UserKeys(u))) \in Nat
                             /\ Cardinality(RowsOf(user_file_list, UserKeys(u))) \in Nat
<1>1. user_file_list \in [FileKey -> Seq({0, 1})]
  BY DEF TypeOK, TablesTypeOK
<1>2. ASSUME NEW m \in Md5s
      PROVE  /\ ContentKeys(m) \in SUBSET FileKey
             /\ IsFiniteSet(RowsOf(user_file_list, ContentKeys(m)))
             /\ CountedReferences(m) \in Int
  BY CountedFacts DEF ContentKeys, SerialInv, Covered, Entries
<1>3. ASSUME NEW u \in Users
      PROVE  /\ UserKeys(u) \in SUBSET FileKey
             /\ IsFiniteSet(RowsOf(user_file_list, UserKeys(u)))
             /\ CountedFiles(u) \in Int
  BY FilesType DEF UserKeys, DriftInv, FilesBound, EntriesOf, TypeOK, TablesTypeOK, Accounts
<1> QED
  BY <1>1, <1>2, <1>3, ListedFinite

\* A step that changes neither counters nor entries keeps the bounds if a failure
\* pays for what it gives up.
LEMMA BoundsKept ==
  ASSUME TypeOK, TypeOK', SerialInv, DriftInv, NEW k,
         \A m \in Md5s : CountedReferences(m)' = CountedReferences(m),
         \A u \in Users : CountedFiles(u)' = CountedFiles(u),
         Moved(k, 0, 0),
         \A S : (Doubling(S)' => Doubling(S)) /\ (Between(S)' => Between(S)),
         \/ faults' = faults + 1
         \/ /\ faults' = faults
            /\ \A m \in Md5s : Owed(m) => Owed(m)'
            /\ \A S : Counting(S) => Counting(S)'
  PROVE  (\A m \in Md5s : ReferencesBound(m)') /\ (\A u \in Users : FilesBound(u)')
<1>f. faults \in Nat /\ faults' \in Nat
  BY DEF TypeOK, ControlTypeOK
<1>1. ASSUME NEW m \in Md5s PROVE ReferencesBound(m)'
  <2>1. CountedReferences(m) + One(Doubling(ContentKeys(m)))
          <= Cardinality(ListedAmong(ContentKeys(m))) + One(Owed(m)) + faults
    BY DEF DriftInv, ReferencesBound
  <2>2. /\ CountedReferences(m) \in Int
        /\ Cardinality(ListedAmong(ContentKeys(m))) \in Nat
        /\ Cardinality(ListedAmong(ContentKeys(m))') = Cardinality(ListedAmong(ContentKeys(m)))
    BY BoundFacts DEF Moved
  <2>3. CountedReferences(m)' + One(Doubling(ContentKeys(m))')
          <= Cardinality(ListedAmong(ContentKeys(m))') + One(Owed(m)') + faults'
    BY <1>f, <2>1, <2>2 DEF One
  <2> QED
    BY <2>3 DEF ReferencesBound, One
<1>2. ASSUME NEW u \in Users PROVE FilesBound(u)'
  <2>1. /\ CountedFiles(u) + One(Between(UserKeys(u))) + One(Doubling(UserKeys(u)))
             <= Cardinality(ListedAmong(UserKeys(u))) + faults
        /\ Cardinality(RowsOf(user_file_list, UserKeys(u)))
             <= CountedFiles(u) + One(Counting(UserKeys(u))) + faults
    <3>1. FilesBound(u)
      BY DEF DriftInv
    <3> QED
      BY <3>1 DEF FilesBound, FilesOf, EntriesOf
  <2>2. /\ CountedFiles(u) \in Int
        /\ Cardinality(ListedAmong(UserKeys(u))) \in Nat
        /\ Cardinality(RowsOf(user_file_list, UserKeys(u))) \in Nat
        /\ Cardinality(ListedAmong(UserKeys(u))') = Cardinality(ListedAmong(UserKeys(u)))
        /\ IsFiniteSet(RowsOf(user_file_list', UserKeys(u)))
        /\ Cardinality(RowsOf(user_file_list', UserKeys(u)))
             <= Cardinality(RowsOf(user_file_list, UserKeys(u)))
    BY BoundFacts DEF Moved
  <2>3. Cardinality(RowsOf(user_file_list', UserKeys(u))) \in Nat
    BY <2>2, FS_CardinalityType
  <2>4. /\ CountedFiles(u)' + One(Between(UserKeys(u))') + One(Doubling(UserKeys(u))')
             <= Cardinality(ListedAmong(UserKeys(u))') + faults'
        /\ Cardinality(RowsOf(user_file_list', UserKeys(u)))
             <= CountedFiles(u)' + One(Counting(UserKeys(u))') + faults'
    BY <1>f, <2>1, <2>2, <2>3 DEF One
  <2> QED
    BY <2>2, <2>4 DEF FilesBound, FilesOf, EntriesOf, One
<1> QED
  BY <1>1, <1>2

\* The program at work takes a step with file k, to label l with locals v.  The
\* references of the content change by dc, the user's count by df, the listed files
\* by dl and the entries by at most de.  What that takes from the bounds, the
\* program was about to do, is about to do, or a failure pays for.
Afforded(p, k, l, v, dc, df, dl, de) ==
  /\ faults <= faults'
  /\ dc + One(l \in AddingLabels /\ Listed(k)') + One(pc[p] \in OwingLabels) + faults
       <= dl + One(pc[p] \in AddingLabels /\ Listed(k)) + One(l \in OwingLabels) + faults'
  /\ df + One(l \in BetweenLabels) + One(l \in AddingLabels /\ Listed(k)') + faults
       <= dl + One(pc[p] \in BetweenLabels) + One(pc[p] \in AddingLabels /\ Listed(k)) + faults'
  /\ de + One(Counts(pc[p], loc[p])) + faults <= df + One(Counts(l, v)) + faults'

Recounted(k, dc, df) ==
  /\ CountedReferences(k.md5)' = CountedReferences(k.md5) + dc
  /\ \A m \in Md5s : m # k.md5 => CountedReferences(m)' = CountedReferences(m)
  /\ CountedFiles(k.user)' = CountedFiles(k.user) + df
  /\ \A u \in Users : u # k.user => CountedFiles(u)' = CountedFiles(u)

LEMMA BoundCarried ==
  ASSUME NEW c \in Int, NEW n \in Int, NEW f \in Int, NEW f1 \in Int, NEW b \in Int,
         NEW b1 \in Int, NEW d \in Int, NEW d1 \in Int, NEW x \in Int, NEW y \in Int,
         c + b + d <= n + f, x + b1 + d1 + f <= y + b + d + f1
  PROVE  (c + x) + b1 + d1 <= (n + y) + f1
  OBVIOUS

LEMMA DriftStep ==
  ASSUME TypeOK, TypeOK', SerialInv, DriftInv, NEW p \in Programs, pc[p] # "idle",
         NEW k \in FileKey, k = loc[p].key, NEW l, NEW v,
         pc' = [pc EXCEPT ![p] = l], loc' = [loc EXCEPT ![p] = v],
         l = "idle" \/ v.key = k,
         NEW dc \in Int, NEW df \in Int, NEW dl \in Int, NEW de \in Int, Moved(k, dl, de),
         Recounted(k, dc, df), Afforded(p, k, l, v, dc, df, dl, de)
  PROVE  (\A m \in Md5s : ReferencesBound(m)') /\ (\A u \in Users : FilesBound(u)')
<1>f. faults \in Nat /\ faults' \in Nat /\ faults <= faults'
  BY DEF TypeOK, ControlTypeOK, Afforded
<1>r. /\ CountedReferences(k.md5)' = CountedReferences(k.md5) + dc
      /\ \A m \in Md5s : m # k.md5 => CountedReferences(m)' = CountedReferences(m)
      /\ CountedFiles(k.user)' = CountedFiles(k.user) + df
      /\ \A u \in Users : u # k.user => CountedFiles(u)' = CountedFiles(u)
  BY DEF Recounted
<1>1. /\ pc'[p] = l /\ loc'[p] = v
      /\ \A q \in Programs : q # p => pc[q] = "idle" /\ pc'[q] = "idle"
      /\ \A m : Owed(m)' <=> l \in OwingLabels /\ v.key.md5 = m
      /\ \A m : Owed(m) <=> pc[p] \in OwingLabels /\ k.md5 = m
  BY AloneStep, OthersIdle DEF SerialInv
<1>i. "idle" \notin OwingLabels \cup AddingLabels \cup BetweenLabels
  BY DEF OwingLabels, AddingLabels, BetweenLabels, CountLabels
<1>2. \A m : Owed(m)' <=> l \in OwingLabels /\ k.md5 = m
  BY <1>1, <1>i
<1>3. \A S : /\ Doubling(S) <=> (pc[p] \in AddingLabels /\ Listed(k)) /\ k \in S
             /\ Between(S) <=> pc[p] \in BetweenLabels /\ k \in S
             /\ Counting(S) <=> Counts(pc[p], loc[p]) /\ k \in S
  BY <1>1, AloneAt
<1>4. \A S : /\ Doubling(S)' <=> (l \in AddingLabels /\ Listed(k)') /\ k \in S
             /\ Between(S)' <=> l \in BetweenLabels /\ k \in S
             /\ Counting(S)' <=> Counts(l, v) /\ k \in S
  <2> SUFFICES ASSUME NEW S
               PROVE  /\ Doubling(S)' <=> (l \in AddingLabels /\ Listed(k)') /\ k \in S
                      /\ Between(S)' <=> l \in BetweenLabels /\ k \in S
                      /\ Counting(S)' <=> Counts(l, v) /\ k \in S
    OBVIOUS
  <2>1. /\ Doubling(S)' <=> l \in AddingLabels /\ v.key \in S /\ Listed(loc[p].key)'
        /\ Between(S)' <=> l \in BetweenLabels /\ v.key \in S
        /\ Counting(S)' <=> Counts(l, v) /\ v.key \in S
    BY <1>1, AloneAtAfter
  <2>2. CASE l = "idle"
    BY <1>i, <2>1, <2>2 DEF Counts
  <2>3. CASE v.key = k
    <3>1. Listed(loc[p].key)' <=> Listed(k)'
      BY <1>1, <2>3 DEF Listed
    <3> QED
      BY <2>1, <2>3, <3>1
  <2> QED
    BY <2>2, <2>3
<1>5. /\ \A m \in Md5s : k \in ContentKeys(m) <=> k.md5 = m
      /\ \A u \in Users : k \in UserKeys(u) <=> k.user = u
  BY DEF ContentKeys, UserKeys
<1> DEFINE D == One(pc[p] \in AddingLabels /\ Listed(k))
           D1 == One(l \in AddingLabels /\ Listed(k)')
           O == One(pc[p] \in OwingLabels)
           O1 == One(l \in OwingLabels)
           B == One(pc[p] \in BetweenLabels)
           B1 == One(l \in BetweenLabels)
           C == One(Counts(pc[p], loc[p]))
           C1 == One(Counts(l, v))
<1>6. /\ D \in Int /\ D1 \in Int /\ O \in Int /\ O1 \in Int
      /\ B \in Int /\ B1 \in Int /\ C \in Int /\ C1 \in Int
  BY DEF One
<1>7. ASSUME NEW m \in Md5s PROVE ReferencesBound(m)'
  <2>1. CountedReferences(m) + One(Doubling(ContentKeys(m)))
          <= Cardinality(ListedAmong(ContentKeys(m))) + One(Owed(m)) + faults
    BY DEF DriftInv, ReferencesBound
  <2>2. /\ CountedReferences(m) \in Int
        /\ Cardinality(ListedAmong(ContentKeys(m))) \in Nat
        /\ Cardinality(ListedAmong(ContentKeys(m))') =
             Cardinality(ListedAmong(ContentKeys(m))) + (IF k \in ContentKeys(m) THEN dl ELSE 0)
    BY BoundFacts DEF Moved
  <2>3. CASE m = k.md5
    <3>1. /\ One(Doubling(ContentKeys(m))) = D /\ One(Owed(m)) = O
          /\ One(Doubling(ContentKeys(m))') = D1 /\ One(Owed(m)') = O1
      BY <1>1, <1>2, <1>3, <1>4, <1>5, <2>3 DEF One
    <3>2. k \in ContentKeys(m)
      BY <1>5, <2>3
    <3> HIDE DEF D, D1, O, O1, B, B1, C, C1
    <3>3. CountedReferences(m)' + D1 <= Cardinality(ListedAmong(ContentKeys(m))') + O1 + faults'
      <4>1. dc + D1 + O + faults <= dl + D + O1 + faults'
        BY DEF Afforded, D, D1, O, O1
      <4>2. CountedReferences(m)' = CountedReferences(m) + dc
        BY <1>r, <2>3
      <4>3. /\ CountedReferences(m) + D <= Cardinality(ListedAmong(ContentKeys(m))) + O + faults
            /\ Cardinality(ListedAmong(ContentKeys(m))') = Cardinality(ListedAmong(ContentKeys(m))) + dl
        BY <2>1, <2>2, <3>1, <3>2
      <4> QED
        BY <1>f, <1>6, <2>2, <4>1, <4>2, <4>3
    <3> QED
      BY <3>1, <3>3 DEF ReferencesBound
  <2>4. CASE m # k.md5
    <3>1. /\ One(Doubling(ContentKeys(m))) = 0 /\ One(Owed(m)) = 0
          /\ One(Doubling(ContentKeys(m))') = 0 /\ One(Owed(m)') = 0
      BY <1>1, <1>2, <1>3, <1>4, <1>5, <2>4 DEF One
    <3>2. k \notin ContentKeys(m)
      BY <1>5, <2>4
    <3>3. CountedReferences(m)' + 0 <= Cardinality(ListedAmong(ContentKeys(m))') + 0 + faults'
      BY <1>f, <1>r, <2>1, <2>2, <2>4, <3>1, <3>2
    <3> QED
      BY <3>1, <3>3 DEF ReferencesBound
  <2> QED
    BY <2>3, <2>4
<1>8. ASSUME NEW u \in Users PROVE FilesBound(u)'
  <2>1. /\ CountedFiles(u) + One(Between(UserKeys(u))) + One(Doubling(UserKeys(u)))
             <= Cardinality(ListedAmong(UserKeys(u))) + faults
        /\ Cardinality(RowsOf(user_file_list, UserKeys(u)))
             <= CountedFiles(u) + One(Counting(UserKeys(u))) + faults
    <3>1. FilesBound(u)
      BY DEF DriftInv
    <3> QED
      BY <3>1 DEF FilesBound, FilesOf, EntriesOf
  <2>2. /\ CountedFiles(u) \in Int
        /\ Cardinality(ListedAmong(UserKeys(u))) \in Nat
        /\ Cardinality(RowsOf(user_file_list, UserKeys(u))) \in Nat
        /\ Cardinality(ListedAmong(UserKeys(u))') =
             Cardinality(ListedAmong(UserKeys(u))) + (IF k \in UserKeys(u) THEN dl ELSE 0)
        /\ IsFiniteSet(RowsOf(user_file_list', UserKeys(u)))
        /\ Cardinality(RowsOf(user_file_list', UserKeys(u)))
             <= Cardinality(RowsOf(user_file_list, UserKeys(u)))
                  + (IF k \in UserKeys(u) THEN de ELSE 0)
    BY BoundFacts DEF Moved
  <2>n. Cardinality(RowsOf(user_file_list', UserKeys(u))) \in Nat
    BY <2>2, FS_CardinalityType
  <2>s. /\ IsFiniteSet(EntriesOf(u)')
        /\ FilesOf(u)' = Cardinality(RowsOf(user_file_list', UserKeys(u)))
    BY <2>2 DEF EntriesOf, FilesOf
  <2>3. CASE u = k.user
    <3>1. /\ One(Doubling(UserKeys(u))) = D /\ One(Doubling(UserKeys(u))') = D1
          /\ One(Between(UserKeys(u))) = B /\ One(Between(UserKeys(u))') = B1
          /\ One(Counting(UserKeys(u))) = C /\ One(Counting(UserKeys(u))') = C1
      BY <1>3, <1>4, <1>5, <2>3 DEF One
    <3>2. k \in UserKeys(u)
      BY <1>5, <2>3
    <3> HIDE DEF D, D1, O, O1, B, B1, C, C1
    <3>3. CountedFiles(u)' = CountedFiles(u) + df
      BY <1>r, <2>3
    <3>4. CountedFiles(u)' + B1 + D1 <= Cardinality(ListedAmong(UserKeys(u))') + faults'
      <4>1. df + B1 + D1 + faults <= dl + B + D + faults'
        BY DEF Afforded, D, D1, B, B1
      <4>2. /\ CountedFiles(u) + B + D <= Cardinality(ListedAmong(UserKeys(u))) + faults
            /\ Cardinality(ListedAmong(UserKeys(u))') = Cardinality(ListedAmong(UserKeys(u))) + dl
        BY <2>1, <2>2, <3>1, <3>2
      <4>3. /\ CountedFiles(u) \in Int /\ Cardinality(ListedAmong(UserKeys(u))) \in Int
            /\ B \in Int /\ B1 \in Int /\ D \in Int /\ D1 \in Int
        BY <1>6, <2>2
      <4>4. faults \in Int /\ faults' \in Int /\ df \in Int /\ dl \in Int
        BY <1>f
      <4>5. (CountedFiles(u) + df) + B1 + D1 <= (Cardinality(ListedAmong(UserKeys(u))) + dl) + faults'
        BY <4>1, <4>2, <4>3, <4>4, BoundCarried, Zenon
      <4> QED
        BY <3>3, <4>2, <4>5
    <3>5. Cardinality(RowsOf(user_file_list', UserKeys(u))) <= CountedFiles(u)' + C1 + faults'
      <4>1. de + C + faults <= df + C1 + faults'
        BY DEF Afforded, C, C1
      <4>2. /\ Cardinality(RowsOf(user_file_list, UserKeys(u))) <= CountedFiles(u) + C + faults
            /\ Cardinality(RowsOf(user_file_list', UserKeys(u)))
                 <= Cardinality(RowsOf(user_file_list, UserKeys(u))) + de
        BY <2>1, <2>2, <3>1, <3>2
      <4> QED
        BY <1>f, <1>6, <2>2, <2>n, <3>3, <4>1, <4>2
    <3> QED
      BY <2>s, <3>1, <3>4, <3>5 DEF FilesBound
  <2>4. CASE u # k.user
    <3>1. /\ One(Doubling(UserKeys(u))) = 0 /\ One(Doubling(UserKeys(u))') = 0
          /\ One(Between(UserKeys(u))) = 0 /\ One(Between(UserKeys(u))') = 0
          /\ One(Counting(UserKeys(u))) = 0 /\ One(Counting(UserKeys(u))') = 0
      BY <1>3, <1>4, <1>5, <2>4 DEF One
    <3>2. k \notin UserKeys(u)
      BY <1>5, <2>4
    <3>3. /\ CountedFiles(u)' + 0 + 0 <= Cardinality(ListedAmong(UserKeys(u))') + faults'
          /\ Cardinality(RowsOf(user_file_list', UserKeys(u))) <= CountedFiles(u)' + 0 + faults'
      BY <1>f, <1>r, <2>1, <2>2, <2>n, <2>4, <3>1, <3>2
    <3> QED
      BY <2>s, <3>1, <3>3 DEF FilesBound
  <2> QED
    BY <2>3, <2>4
<1> QED
  BY <1>7, <1>8

\* The step changes no counter.
LEMMA NotRecounted ==
  ASSUME TypeOK, UNCHANGED file_info, \A u \in Users : CountedFiles(u)' = CountedFiles(u),
         NEW k \in FileKey
  PROVE  Recounted(k, 0, 0)
<1>u. k.user \in Users /\ k.md5 \in Md5s
  BY DEF FileKey
<1>1. \A m \in Md5s : CountedReferences(m)' = CountedReferences(m) /\ CountedReferences(m) \in Int
  BY SameReferences, CountedFacts
<1>2. \A u \in Users : CountedFiles(u) \in Int
  BY FilesType DEF TypeOK, TablesTypeOK, Accounts
<1> QED
  BY <1>u, <1>1, <1>2 DEF Recounted

\* Where a program has read a count, or knows that the user lacks the file.
KnownLabels == CountLabels \cup {"up_list", "del_count"}

LEMMA NothingKnown ==
  ASSUME TypeOK, TypeOK', SerialInv, NEW p \in Programs, pc[p] # "idle",
         NEW l, NEW v, pc' = [pc EXCEPT ![p] = l], loc' = [loc EXCEPT ![p] = v],
         l \notin KnownLabels
  PROVE  CountsKnown'
<1>1. pc'[p] = l /\ \A q \in Programs : q # p => pc'[q] = "idle"
  BY AloneStep DEF SerialInv
<1>2. \A q \in Programs : pc'[q] \notin KnownLabels
  BY <1>1 DEF KnownLabels, CountLabels
<1> QED
  BY <1>2, LabelFacts DEF CountsKnown, KnownLabels

\* A step that moves nothing.
LEMMA SameMoved ==
  ASSUME TypeOK, TypeOK', UNCHANGED user_file_list, NEW k
  PROVE  Moved(k, 0, 0) /\ \A j : Listed(j)' <=> Listed(j)
<1>1. Moved(k, 0, 0)
  BY NothingMoved DEF TypeOK, TablesTypeOK
<1>2. \A j : Listed(j)' <=> Listed(j)
  BY DEF Listed, HasRow
<1> QED
  BY <1>1, <1>2

\* The program ends its request, or is killed, with the tables as they are.
LEMMA EndedDrift ==
  ASSUME TypeOK, TypeOK', SerialInv, DriftInv, NEW p \in Programs, p # "sharefiles",
         pc[p] # "idle", pc' = [pc EXCEPT ![p] = "idle"], loc' = [loc EXCEPT ![p] = Blank],
         UNCHANGED <<file_info, user_file_list>>,
         \A u \in Users : CountedFiles(u)' = CountedFiles(u),
         \/ faults' = faults + 1
         \/ faults' = faults /\ pc[p] \notin OwingLabels \cup BetweenLabels
  PROVE  DriftInv'
<1>k. PICK k \in FileKey : k = loc[p].key
  BY AtWork DEF TypeOK
<1>1. Moved(k, 0, 0)
  BY SameMoved
<1>2. Recounted(k, 0, 0) /\ 0 \in Int
  BY NotRecounted
<1>5. /\ "idle" \notin AddingLabels /\ "idle" \notin BetweenLabels /\ "idle" \notin OwingLabels
      /\ "idle" \notin KnownLabels
  BY DEF OwingLabels, AddingLabels, BetweenLabels, CountLabels, KnownLabels
<1>6. faults \in Nat
  BY DEF TypeOK, ControlTypeOK
<1>7. Afforded(p, k, "idle", Blank, 0, 0, 0, 0)
  BY <1>5, <1>6 DEF Afforded, One, Counts
<1>8. (\A m \in Md5s : ReferencesBound(m)') /\ (\A u \in Users : FilesBound(u)')
  BY <1>k, <1>1, <1>2, <1>7, DriftStep, Zenon
<1>9. CountsKnown'
  BY <1>5, NothingKnown
<1> QED
  BY <1>8, <1>9 DEF DriftInv

LEMMA FailedDrift ==
  ASSUME TypeOK, TypeOK', SerialInv, DriftInv, NEW p \in Programs, p # "sharefiles",
         pc[p] # "idle", NEW c, Finish(p, c), UNCHANGED mysql,
         Fault \/ (NoFault /\ pc[p] \notin OwingLabels \cup BetweenLabels)
  PROVE  DriftInv'
  BY EndedDrift, FilesSame DEF Finish, Fault, NoFault, mysql

\* The program goes on to a call that is not about the counters.
LEMMA GoneDrift ==
  ASSUME TypeOK, TypeOK', SerialInv, DriftInv, NEW p \in Programs, p # "sharefiles",
         pc[p] # "idle", NEW l, NEW v, Goto(p, l, v), v.key = loc[p].key,
         UNCHANGED file_info,
         \A j \in FileKey : Len(user_file_list'[j]) = Len(user_file_list[j]),
         \A u \in Users : CountedFiles(u)' = CountedFiles(u),
         l \notin AddingLabels \cup BetweenLabels, CountsKnown',
         \/ faults' = faults + 1
         \/ /\ faults' = faults /\ pc[p] \notin BetweenLabels
            /\ pc[p] \in OwingLabels => l \in OwingLabels
  PROVE  DriftInv'
<1>k. PICK k \in FileKey : k = loc[p].key
  BY AtWork DEF TypeOK
<1>1. Moved(k, 0, 0)
  BY NothingMoved DEF TypeOK, TablesTypeOK
<1>2. Recounted(k, 0, 0) /\ 0 \in Int
  BY NotRecounted
<1>6. faults \in Nat
  BY DEF TypeOK, ControlTypeOK
<1>7. Afforded(p, k, l, v, 0, 0, 0, 0)
  BY <1>6 DEF Afforded, One, Counts
<1>8. pc' = [pc EXCEPT ![p] = l] /\ loc' = [loc EXCEPT ![p] = v] /\ v.key = k
  BY <1>k DEF Goto
<1>9. (\A m \in Md5s : ReferencesBound(m)') /\ (\A u \in Users : FilesBound(u)')
  BY <1>k, <1>1, <1>2, <1>7, <1>8, DriftStep, Zenon
<1> QED
  BY <1>9 DEF DriftInv

\* The same for a step that leaves the tables as they are.
LEMMA PlainDrift ==
  ASSUME TypeOK, TypeOK', SerialInv, DriftInv, NEW p \in Programs, p # "sharefiles",
         pc[p] # "idle", NEW l, NEW v, Goto(p, l, v), v.key = loc[p].key, UNCHANGED mysql,
         Fault \/ NoFault, pc[p] \notin OwingLabels \cup BetweenLabels,
         l \notin AddingLabels \cup BetweenLabels \cup KnownLabels
  PROVE  DriftInv'
<1>1. /\ UNCHANGED <<file_info, user_file_list, user_file_count>>
      /\ faults' = faults \/ faults' = faults + 1
  BY DEF mysql, Fault, NoFault
<1>2. CountsKnown'
  BY NothingKnown DEF Goto
<1>3. /\ \A j \in FileKey : Len(user_file_list'[j]) = Len(user_file_list[j])
      /\ \A u \in Users : CountedFiles(u)' = CountedFiles(u)
  BY <1>1, FilesSame
<1> QED
  BY <1>1, <1>2, <1>3, GoneDrift

------------------------------------------------------------------------------
(* The counters: the steps that add a file *)

\* cgi_md5 and save_file go on to add a file that the user does not have, or that
\* a failed select has hidden.
LEMMA AddingDrift ==
  ASSUME TypeOK, TypeOK', SerialInv, DriftInv, NEW p \in Programs, p # "sharefiles",
         pc[p] # "idle", NEW l, NEW v, Goto(p, l, v), v.key = loc[p].key, UNCHANGED mysql,
         pc[p] \notin OwingLabels \cup BetweenLabels, l \in {"md5_addref", "sv_selref", "sv_ref"},
         Fault \/ (NoFault /\ (pc[p] \in AddingLabels \/ ~Listed(loc[p].key)))
  PROVE  DriftInv'
<1>k. PICK k \in FileKey : k = loc[p].key
  BY AtWork DEF TypeOK
<1>1. Moved(k, 0, 0) /\ (Listed(k)' <=> Listed(k))
  BY SameMoved DEF mysql
<1>2. Recounted(k, 0, 0) /\ 0 \in Int
  BY NotRecounted, FilesSame DEF mysql
<1>3. /\ pc' = [pc EXCEPT ![p] = l] /\ loc' = [loc EXCEPT ![p] = v] /\ v.key = k
  BY <1>k DEF Goto
<1>4. /\ l \in AddingLabels /\ l \notin OwingLabels /\ l \notin BetweenLabels
      /\ l \notin KnownLabels /\ pc[p] \notin OwingLabels /\ pc[p] \notin BetweenLabels
  BY DEF AddingLabels, OwingLabels, BetweenLabels, CountLabels, KnownLabels
<1>5. Afforded(p, k, l, v, 0, 0, 0, 0)
  <2>1. faults \in Nat /\ (faults' = faults + 1 \/ faults' = faults)
    BY DEF TypeOK, ControlTypeOK, Fault, NoFault
  <2>2. faults' = faults + 1 \/ pc[p] \in AddingLabels \/ ~Listed(k)
    BY <1>k DEF Fault
  <2> QED
    BY <1>1, <1>4, <2>1, <2>2 DEF Afforded, One, Counts
<1>6. (\A m \in Md5s : ReferencesBound(m)') /\ (\A u \in Users : FilesBound(u)')
  BY <1>k, <1>1, <1>2, <1>3, <1>5, DriftStep, Zenon
<1>7. CountsKnown'
  BY <1>3, <1>4, NothingKnown
<1> QED
  BY <1>6, <1>7 DEF DriftInv

\* They count a reference, for the entry that they insert next.
LEMMA ReferenceAddedDrift ==
  ASSUME TypeOK, TypeOK', SerialInv, DriftInv, NEW p \in Programs, p # "sharefiles",
         pc[p] \in {"md5_addref", "sv_ref"}, NEW l \in {"md5_inslist", "sv_inslist"},
         Goto(p, l, loc[p]), NoFault, UNCHANGED <<user_file_list, user_file_count>>,
         NEW h \in Md5s, h = loc[p].key.md5, NEW n \in Int, n = CountedReferences(h) + 1,
         file_info' = UpdateCountWhere(file_info, h, n), HasRow(file_info, h)
  PROVE  DriftInv'
<1>k. PICK k \in FileKey : k = loc[p].key
  BY AtWork DEF TypeOK
<1>u. k.md5 = h /\ k.user \in Users
  BY <1>k DEF FileKey
<1>1. Moved(k, 0, 0) /\ (Listed(k)' <=> Listed(k))
  BY SameMoved
<1>2. Recounted(k, 1, 0) /\ 0 \in Int /\ 1 \in Int
  <2>1. /\ CountedReferences(h)' = n
        /\ \A m \in Md5s : m # h => CountedReferences(m)' = CountedReferences(m)
    BY ReferencesSet DEF TypeOK, TablesTypeOK
  <2>2. \A u \in Users : CountedFiles(u)' = CountedFiles(u) /\ CountedFiles(u) \in Int
    BY FilesSame, FilesType DEF TypeOK, TablesTypeOK, Accounts
  <2> QED
    BY <1>u, <2>1, <2>2 DEF Recounted
<1>3. /\ pc' = [pc EXCEPT ![p] = l] /\ loc' = [loc EXCEPT ![p] = loc[p]] /\ loc[p].key = k
      /\ pc[p] # "idle"
  BY <1>k DEF Goto
<1>4. /\ l \in AddingLabels /\ l \in OwingLabels /\ l \notin BetweenLabels
      /\ l \notin KnownLabels /\ pc[p] \notin OwingLabels /\ pc[p] \notin BetweenLabels
      /\ pc[p] \in AddingLabels
  BY DEF AddingLabels, OwingLabels, BetweenLabels, CountLabels, KnownLabels
<1>5. Afforded(p, k, l, loc[p], 1, 0, 0, 0)
  <2>1. faults \in Nat /\ faults' = faults
    BY DEF TypeOK, ControlTypeOK, NoFault
  <2> QED
    BY <1>1, <1>4, <2>1 DEF Afforded, One, Counts
<1>6. (\A m \in Md5s : ReferencesBound(m)') /\ (\A u \in Users : FilesBound(u)')
  <2>v. PICK v : v = loc[p]
    OBVIOUS
  <2>1. /\ pc' = [pc EXCEPT ![p] = l] /\ loc' = [loc EXCEPT ![p] = v] /\ v.key = k
        /\ Afforded(p, k, l, v, 1, 0, 0, 0)
    BY <1>3, <1>5, <2>v
  <2> QED
    BY <1>k, <1>1, <1>2, <1>3, <2>1, DriftStep, Zenon
<1>7. CountsKnown'
  BY <1>3, <1>4, NothingKnown
<1> QED
  BY <1>6, <1>7 DEF DriftInv

\* The entry is inserted, and the user's count has to follow.
LEMMA EntryAddedDrift ==
  ASSUME TypeOK, TypeOK', SerialInv, DriftInv, NEW p \in Programs, p # "sharefiles",
         pc[p] \in {"up_list", "md5_inslist", "sv_inslist"},
         NEW l \in {"up_selcount", "md5_selcount", "sv_selcount"},
         Goto(p, l, loc[p]), NoFault, UNCHANGED <<file_info, user_file_count>>,
         user_file_list' = Insert(user_file_list, loc[p].key, 0)
  PROVE  DriftInv'
<1>k. PICK k \in FileKey : k = loc[p].key
  BY AtWork DEF TypeOK
<1>d. PICK d \in Int : d = 1 - One(Listed(k))
  BY DEF One
<1>1. Moved(k, d, 1) /\ Listed(k)'
  <2>1. user_file_list' = Insert(user_file_list, k, 0)
    BY <1>k
  <2> QED
    BY <1>d, <2>1, EntryInserted DEF TypeOK, TablesTypeOK
<1>2. Recounted(k, 0, 0) /\ 0 \in Int /\ 1 \in Int
  BY NotRecounted, FilesSame
<1>3. /\ pc' = [pc EXCEPT ![p] = l] /\ loc' = [loc EXCEPT ![p] = loc[p]] /\ loc[p].key = k
      /\ pc[p] # "idle"
  BY <1>k DEF Goto
<1>4. /\ l \notin AddingLabels /\ l \notin OwingLabels /\ l \in BetweenLabels
      /\ l \notin KnownLabels /\ pc[p] \in OwingLabels /\ pc[p] \notin BetweenLabels
      /\ l \notin CountLabels
      /\ pc[p] # "up_list" => pc[p] \in AddingLabels
  BY DEF AddingLabels, OwingLabels, BetweenLabels, CountLabels, KnownLabels
<1>5. pc[p] \in AddingLabels \/ ~Listed(k)
  <2>1. pc[p] = "up_list" => p = "upload"
    BY DEF TypeOK, ControlTypeOK, LabelsOf, Programs, Md5Labels, DelLabels, ShareLabels,
           ShareOpLabels, ShareListLabels
  <2> QED
    BY <1>k, <1>4, <2>1 DEF DriftInv, CountsKnown
<1>6. Afforded(p, k, l, loc[p], 0, 0, d, 1)
  <2>1. faults \in Nat /\ faults' = faults
    BY DEF TypeOK, ControlTypeOK, NoFault
  <2> QED
    BY <1>d, <1>1, <1>4, <1>5, <2>1 DEF Afforded, One, Counts
<1>7. (\A m \in Md5s : ReferencesBound(m)') /\ (\A u \in Users : FilesBound(u)')
  <2>v. PICK v : v = loc[p]
    OBVIOUS
  <2>1. /\ pc' = [pc EXCEPT ![p] = l] /\ loc' = [loc EXCEPT ![p] = v] /\ v.key = k
        /\ Afforded(p, k, l, v, 0, 0, d, 1)
    BY <1>3, <1>6, <2>v
  <2> QED
    BY <1>k, <1>1, <1>2, <1>3, <2>1, DriftStep, Zenon
<1>8. CountsKnown'
  BY <1>3, <1>4, NothingKnown
<1> QED
  BY <1>7, <1>8 DEF DriftInv

\* The user's count is read: the number that will be written back is the row's.
LEMMA CountSelectedDrift ==
  ASSUME TypeOK, TypeOK', SerialInv, DriftInv, NEW p \in Programs, p # "sharefiles",
         NEW from \in {"up_selcount", "md5_selcount", "sv_selcount"}, NEW to \in CountLabels,
         SelectCountToAdd(p, loc[p].key.user, from, to)
  PROVE  DriftInv'
<1>w. pc[p] = from /\ pc[p] # "idle" /\ UNCHANGED mysql
  BY DEF SelectCountToAdd
<1>k. PICK k \in FileKey : k = loc[p].key
  BY <1>w, AtWork DEF TypeOK
<1>u. k.user \in Users /\ k.user \in Accounts /\ loc[p] \in Locals
  BY <1>w, AtWork DEF FileKey, Accounts, TypeOK
<1>1. Moved(k, 0, 0)
  BY <1>w, SameMoved DEF mysql
<1>2. Recounted(k, 0, 0) /\ 0 \in Int
  BY <1>w, NotRecounted, FilesSame DEF mysql
<1>3. PICK v : /\ Goto(p, to, v) /\ v.key = k
               /\ \/ /\ NoFault /\ v.sql = "update" /\ HasRow(user_file_count, k.user)
                     /\ v.count = FirstRow(user_file_count, k.user)
                  \/ NoFault /\ v.sql = "insert" /\ ~HasRow(user_file_count, k.user)
                  \/ Fault /\ v.sql = "select"
  <2>2. CASE /\ NoFault /\ HasRow(user_file_count, k.user)
             /\ Goto(p, to, [loc[p] EXCEPT !.sql = "update",
                                           !.count = FirstRow(user_file_count, k.user)])
    <3> DEFINE w == [loc[p] EXCEPT !.sql = "update",
                                !.count = FirstRow(user_file_count, k.user)]
    <3>1. /\ Goto(p, to, w) /\ w.key = k /\ w.sql = "update"
          /\ w.count = FirstRow(user_file_count, k.user)
      BY <1>k, <1>u, <2>2 DEF Locals
    <3> HIDE DEF w
    <3> QED
      BY <2>2, <3>1
  <2>3. CASE /\ NoFault /\ ~HasRow(user_file_count, k.user)
             /\ Goto(p, to, [loc[p] EXCEPT !.sql = "insert"])
    <3> DEFINE w == [loc[p] EXCEPT !.sql = "insert"]
    <3>1. /\ Goto(p, to, w) /\ w.key = k /\ w.sql = "insert"
      BY <1>k, <1>u, <2>3 DEF Locals
    <3> HIDE DEF w
    <3> QED
      BY <2>3, <3>1
  <2>4. CASE Fault /\ Goto(p, to, [loc[p] EXCEPT !.sql = "select"])
    <3> DEFINE w == [loc[p] EXCEPT !.sql = "select"]
    <3>1. /\ Goto(p, to, w) /\ w.key = k /\ w.sql = "select"
      BY <1>k, <1>u, <2>4 DEF Locals
    <3> HIDE DEF w
    <3> QED
      BY <2>4, <3>1
  <2> QED
    BY <1>k, <2>2, <2>3, <2>4 DEF SelectCountToAdd
<1>4. pc' = [pc EXCEPT ![p] = to] /\ loc' = [loc EXCEPT ![p] = v]
  BY <1>3 DEF Goto
<1>5. /\ from \notin AddingLabels /\ from \notin OwingLabels /\ from \in BetweenLabels
      /\ from \notin CountLabels
      /\ to \notin AddingLabels /\ to \notin OwingLabels /\ to \in BetweenLabels
  BY DEF AddingLabels, OwingLabels, BetweenLabels, CountLabels
<1>6. Afforded(p, k, to, v, 0, 0, 0, 0)
  <2>1. faults \in Nat /\ (faults' = faults \/ faults' = faults + 1)
    BY <1>3 DEF TypeOK, ControlTypeOK, NoFault, Fault
  <2>2. faults' = faults + 1 \/ v.sql \in {"insert", "update"}
    BY <1>3 DEF Fault
  <2> QED
    BY <1>w, <1>5, <2>1, <2>2 DEF Afforded, One, Counts
<1>7. (\A m \in Md5s : ReferencesBound(m)') /\ (\A u \in Users : FilesBound(u)')
  BY <1>w, <1>k, <1>1, <1>2, <1>3, <1>4, <1>6, DriftStep, Zenon
<1>8. CountsKnown'
  <2>1. pc'[p] = to /\ loc'[p] = v /\ \A q \in Programs : q # p => pc'[q] = "idle"
    BY <1>w, <1>4, AloneStep DEF SerialInv
  <2>2. CountKnown(p, k.user)'
    <3>1. CountedFiles(k.user)' = CountedFiles(k.user)
      BY <1>w, FilesSame DEF mysql
    <3>2. HasRow(user_file_count, k.user)' <=> HasRow(user_file_count, k.user)
      BY <1>w DEF mysql, HasRow
    <3>3. v.sql = "update" =>
            HasRow(user_file_count, k.user) /\ v.count = CountedFiles(k.user)
      BY <1>3 DEF CountedFiles
    <3>4. v.sql = "insert" => ~HasRow(user_file_count, k.user)
      BY <1>3
    <3> QED
      BY <2>1, <3>1, <3>2, <3>3, <3>4 DEF CountKnown
  <2>3. pc'["upload"] # "up_list" /\ pc'["filesop"] # "del_count"
    BY <2>1, LabelFacts DEF CountLabels
  <2>4. ASSUME NEW q \in Programs, pc'[q] \in CountLabels
        PROVE  CountKnown(q, loc[q].key.user)'
    <3>1. q = p
      BY <2>1, <2>4 DEF CountLabels
    <3>2. loc'[p].key.user = k.user
      BY <1>3, <2>1
    <3> QED
      BY <2>2, <3>1, <3>2 DEF CountKnown, CountedFiles, HasRow, FirstRow
  <2> QED
    BY <2>3, <2>4 DEF CountsKnown
<1> QED
  BY <1>7, <1>8 DEF DriftInv

\* The user's count is written, or the select that is still in sql_cmd is repeated.
LEMMA CountSetDrift ==
  ASSUME TypeOK, TypeOK', SerialInv, DriftInv, NEW p \in Programs, p # "sharefiles",
         pc[p] \in CountLabels, AddToCount(p, loc[p].key.user), NEW c, Finish(p, c), NoFault,
         UNCHANGED <<file_info, user_file_list>>
  PROVE  DriftInv'
<1>w. pc[p] # "idle"
  BY DEF CountLabels
<1>k. PICK k \in FileKey : k = loc[p].key
  BY <1>w, AtWork DEF TypeOK
<1>u. k.user \in Users /\ k.user \in Accounts /\ k.md5 \in Md5s
  BY DEF FileKey, Accounts
<1>1. Moved(k, 0, 0)
  BY SameMoved
<1>2. /\ \A b \in Accounts : b # k.user => CountedFiles(b)' = CountedFiles(b)
      /\ CountedFiles(k.user)' \in {CountedFiles(k.user), CountedFiles(k.user) + 1}
      /\ loc[p].sql \in {"update", "insert"} => CountedFiles(k.user)' = CountedFiles(k.user) + 1
  <2>1. CountKnown(p, k.user)
    BY <1>k DEF DriftInv, CountsKnown
  <2>2. AddToCount(p, k.user)
    BY <1>k
  <2> QED
    BY <1>u, <2>1, <2>2, FilesAdded
<1>3. PICK d \in {0, 1} : /\ CountedFiles(k.user)' = CountedFiles(k.user) + d
                          /\ loc[p].sql \in {"update", "insert"} => d = 1
  <2>1. CountedFiles(k.user) \in Int
    BY <1>u, FilesType DEF TypeOK, TablesTypeOK
  <2> QED
    BY <1>2, <2>1
<1>4. Recounted(k, 0, d) /\ 0 \in Int /\ d \in Int
  <2>1. \A m \in Md5s : CountedReferences(m)' = CountedReferences(m) /\ CountedReferences(m) \in Int
    BY SameReferences, CountedFacts
  <2> QED
    BY <1>u, <1>2, <1>3, <2>1 DEF Recounted, Accounts
<1>5. /\ pc[p] \notin AddingLabels /\ pc[p] \notin OwingLabels /\ pc[p] \in BetweenLabels
      /\ "idle" \notin AddingLabels /\ "idle" \notin BetweenLabels /\ "idle" \notin OwingLabels
      /\ "idle" \notin KnownLabels
  BY DEF AddingLabels, OwingLabels, BetweenLabels, CountLabels, KnownLabels
<1>6. Afforded(p, k, "idle", Blank, 0, d, 0, 0)
  <2>1. faults \in Nat /\ faults' = faults
    BY DEF TypeOK, ControlTypeOK, NoFault
  <2> QED
    BY <1>3, <1>5, <2>1 DEF Afforded, One, Counts
<1>7. pc' = [pc EXCEPT ![p] = "idle"] /\ loc' = [loc EXCEPT ![p] = Blank]
  BY DEF Finish
<1>8. (\A m \in Md5s : ReferencesBound(m)') /\ (\A u \in Users : FilesBound(u)')
  BY <1>w, <1>k, <1>1, <1>4, <1>6, <1>7, DriftStep, Zenon
<1>9. CountsKnown'
  BY <1>w, <1>5, <1>7, NothingKnown
<1> QED
  BY <1>8, <1>9 DEF DriftInv

\* Without failures the database refuses no count: the row is as it was read.
LEMMA CountNotRefused ==
  ASSUME DriftInv, NEW p \in Programs, pc[p] \in CountLabels
  PROVE  ~CountRefused(p, loc[p].key.user)
  BY DEF DriftInv, CountsKnown, CountKnown, CountRefused

------------------------------------------------------------------------------
(* The counters: cgi_upload and cgi_md5 *)

\* The content is not stored, so that nobody lists it and nothing counts it; its
\* first row counts the entry that follows.
LEMMA UploadInfoDrift ==
  ASSUME TypeOK, TypeOK', SerialInv, DriftInv, UploadInsertInfo
  PROVE  DriftInv'
<1>p. "upload" \in Programs /\ pc["upload"] = "up_info" /\ "upload" # "sharefiles"
      /\ pc["upload"] # "idle"
  BY DEF Programs, UploadInsertInfo
<1>k. PICK k \in FileKey : k = loc["upload"].key
  BY <1>p, AtWork DEF TypeOK
<1>u. k.user \in Users /\ k.md5 \in Md5s
  BY DEF FileKey
<1>t. UNCHANGED <<user_file_list, user_file_count, share_file_list>>
  BY DEF UploadInsertInfo
<1>1. ~HasRow(file_info, k.md5) /\ ~Listed(k)
  <2>1. ~Stored(k)
    BY <1>p, <1>k DEF SerialInv, UploadKnows
  <2>2. Listed(k) => Stored(k)
    BY CoveredStored DEF ListedFilesStored
  <2> QED
    BY <2>1, <2>2 DEF Stored
<1>2. ASSUME NEW r, r.count = 1, file_info' = Insert(file_info, k.md5, r), NoFault,
             Goto("upload", "up_list", loc["upload"])
      PROVE  DriftInv'
  <2>1. Moved(k, 0, 0) /\ ~Listed(k)'
    BY <1>t, <1>1, SameMoved
  <2>2. Recounted(k, 1, 0) /\ 0 \in Int /\ 1 \in Int
    <3>1. /\ file_info[k.md5] = <<>> /\ file_info'[k.md5] = Append(<<>>, r)
          /\ \A m \in Md5s : m # k.md5 => file_info'[m] = file_info[m]
      BY <1>1, <1>2, <1>u DEF Insert, HasRow, TypeOK, TablesTypeOK
    <3>2. file_info'[k.md5] # <<>> /\ file_info'[k.md5][1] = r
      <4>1. <<>> \in Seq({r})
        OBVIOUS
      <4> QED
        BY <3>1, <4>1
    <3>3. CountedReferences(k.md5) = 0 /\ CountedReferences(k.md5)' = 1
      BY <1>2, <3>1, <3>2 DEF CountedReferences, HasRow, FirstRow
    <3>4. \A m \in Md5s : m # k.md5 => CountedReferences(m)' = CountedReferences(m)
      BY <3>1 DEF CountedReferences, HasRow, FirstRow
    <3>5. \A u \in Users : CountedFiles(u)' = CountedFiles(u) /\ CountedFiles(u) \in Int
      BY <1>t, FilesSame, FilesType DEF TypeOK, TablesTypeOK, Accounts
    <3> QED
      BY <1>u, <3>3, <3>4, <3>5 DEF Recounted
  <2>v. PICK v : v = loc["upload"]
    OBVIOUS
  <2>3. /\ pc' = [pc EXCEPT !["upload"] = "up_list"]
        /\ loc' = [loc EXCEPT !["upload"] = v] /\ v.key = k
    BY <1>2, <1>k, <2>v DEF Goto
  <2>4. Afforded("upload", k, "up_list", v, 1, 0, 0, 0)
    <3>1. faults \in Nat /\ faults' = faults
      BY <1>2 DEF TypeOK, ControlTypeOK, NoFault
    <3>2. /\ pc["upload"] \notin AddingLabels /\ pc["upload"] \notin OwingLabels
          /\ pc["upload"] \notin BetweenLabels
          /\ "up_list" \notin AddingLabels /\ "up_list" \in OwingLabels
          /\ "up_list" \notin BetweenLabels
      BY <1>p DEF AddingLabels, OwingLabels, BetweenLabels, CountLabels
    <3> QED
      BY <3>1, <3>2 DEF Afforded, One, Counts
  <2>5. (\A m \in Md5s : ReferencesBound(m)') /\ (\A u \in Users : FilesBound(u)')
    BY <1>p, <1>k, <2>1, <2>2, <2>3, <2>4, DriftStep, Zenon
  <2>6. CountsKnown'
    <3>1. pc'["upload"] = "up_list" /\ loc'["upload"] = v
          /\ \A q \in Programs : q # "upload" => pc'[q] = "idle"
      BY <1>p, <2>3, AloneStep DEF SerialInv
    <3>2. \A q \in Programs : pc'[q] \notin CountLabels /\ pc'[q] # "del_count"
      BY <3>1 DEF CountLabels
    <3>3. ~Listed(loc["upload"].key)'
      BY <2>1, <2>3, <3>1 DEF Listed
    <3> QED
      BY <3>2, <3>3, LabelFacts DEF CountsKnown
  <2> QED
    BY <2>5, <2>6 DEF DriftInv
<1>3. CASE (Fault \/ NoFault) /\ Finish("upload", "009") /\ UNCHANGED file_info
  BY <1>p, <1>t, <1>3, FailedDrift DEF OwingLabels, BetweenLabels, CountLabels, mysql
<1>4. CASE /\ NoFault
           /\ \E size \in Sizes :
                file_info' = Insert(file_info, k.md5,
                                    [file_id |-> loc["upload"].fileid, url |-> loc["upload"].url,
                                     size |-> size, count |-> 1])
           /\ Goto("upload", "up_list", loc["upload"])
  <2>1. PICK size \in Sizes :
          file_info' = Insert(file_info, k.md5,
                              [file_id |-> loc["upload"].fileid, url |-> loc["upload"].url,
                               size |-> size, count |-> 1])
    BY <1>4
  <2> DEFINE r == [file_id |-> loc["upload"].fileid, url |-> loc["upload"].url,
                   size |-> size, count |-> 1]
  <2>2. r.count = 1 /\ file_info' = Insert(file_info, k.md5, r)
    BY <2>1
  <2> HIDE DEF r
  <2> QED
    BY <1>2, <1>4, <2>2
<1> QED
  BY <1>k, <1>3, <1>4 DEF UploadInsertInfo

LEMMA UploadDrift ==
  ASSUME TypeOK, TypeOK', SerialInv, DriftInv, UploadStep
  PROVE  DriftInv'
<1>p. "upload" \in Programs /\ "upload" # "sharefiles"
  BY DEF Programs
<1>l. pc["upload"] \in {"up_recv", "up_dstorage", "up_url"} =>
        /\ pc["upload"] # "idle" /\ pc["upload"] \notin OwingLabels \cup BetweenLabels
  BY DEF OwingLabels, BetweenLabels, CountLabels
<1>m. \A l \in {"up_dstorage", "up_url", "up_info"} :
        l \notin AddingLabels \cup BetweenLabels \cup KnownLabels
  BY DEF AddingLabels, BetweenLabels, KnownLabels, CountLabels
<1>f. ASSUME NEW c, Fault \/ NoFault, Finish("upload", c), UNCHANGED mysql,
             pc["upload"] \in {"up_recv", "up_dstorage", "up_url"}
      PROVE  DriftInv'
  BY <1>p, <1>l, <1>f, FailedDrift
<1>e. ASSUME NEW c, Fault, Finish("upload", c), UNCHANGED mysql, pc["upload"] # "idle"
      PROVE  DriftInv'
  BY <1>p, <1>e, FailedDrift
<1>g. ASSUME NEW l \in {"up_dstorage", "up_url", "up_info"}, NEW v, Fault \/ NoFault,
             Goto("upload", l, v), v.key = loc["upload"].key, UNCHANGED mysql,
             pc["upload"] \in {"up_recv", "up_dstorage", "up_url"}
      PROVE  DriftInv'
  BY <1>p, <1>l, <1>m, <1>g, PlainDrift
<1>1. CASE UploadRecv
  BY <1>1, <1>f, <1>g DEF UploadRecv
<1>2. CASE UploadDstorage
  <2>1. ASSUME NEW f \in FileIds PROVE [loc["upload"] EXCEPT !.fileid = f].key = loc["upload"].key
    BY <1>p DEF TypeOK, ControlTypeOK, Locals
  <2> QED
    BY <1>2, <1>f, <1>g, <2>1 DEF UploadDstorage
<1>3. CASE UploadUrl
  <2>1. [loc["upload"] EXCEPT !.url = Append(@, loc["upload"].fileid)].key = loc["upload"].key
    BY <1>p DEF TypeOK, ControlTypeOK, Locals
  <2> QED
    BY <1>3, <1>f, <1>g, <2>1 DEF UploadUrl
<1>4. CASE UploadInsertInfo
  BY <1>4, UploadInfoDrift
<1>5. CASE UploadInsertList
  <2>1. CASE Fault /\ Finish("upload", "009") /\ UNCHANGED user_file_list
    BY <1>5, <1>e, <2>1 DEF UploadInsertList, mysql
  <2>2. CASE /\ NoFault
             /\ user_file_list' = Insert(user_file_list, loc["upload"].key, 0)
             /\ Goto("upload", "up_selcount", loc["upload"])
    BY <1>p, <1>5, <2>2, EntryAddedDrift DEF UploadInsertList
  <2> QED
    BY <1>5, <2>1, <2>2 DEF UploadInsertList
<1>6. CASE UploadSelectCount
  <2>1. "up_count" \in CountLabels
    BY DEF CountLabels
  <2> QED
    BY <1>p, <1>6, <2>1, CountSelectedDrift DEF UploadSelectCount
<1>7. CASE UploadSetCount
  <2>1. pc["upload"] \in CountLabels /\ UNCHANGED <<file_info, user_file_list, share_file_list>>
        /\ pc["upload"] # "idle"
    BY <1>7 DEF UploadSetCount, CountLabels
  <2>2. ~CountRefused("upload", loc["upload"].key.user)
    BY <1>p, <2>1, CountNotRefused
  <2>3. CASE Fault /\ Finish("upload", "009") /\ UNCHANGED user_file_count
    BY <1>e, <2>1, <2>3 DEF mysql
  <2>4. CASE /\ NoFault /\ AddToCount("upload", loc["upload"].key.user)
             /\ Finish("upload", "008")
    BY <1>p, <2>1, <2>4, CountSetDrift
  <2> QED
    BY <1>7, <2>2, <2>3, <2>4 DEF UploadSetCount
<1> QED
  BY <1>1, <1>2, <1>3, <1>4, <1>5, <1>6, <1>7 DEF UploadStep

LEMMA Md5Drift ==
  ASSUME TypeOK, TypeOK', SerialInv, DriftInv, Md5Step
  PROVE  DriftInv'
<1>p. "md5" \in Programs /\ "md5" # "sharefiles"
  BY DEF Programs
<1>l. pc["md5"] \in {"md5_info", "md5_list", "md5_addref"} =>
        /\ pc["md5"] # "idle" /\ pc["md5"] \notin OwingLabels \cup BetweenLabels
  BY DEF OwingLabels, BetweenLabels, CountLabels
<1>f. ASSUME NEW c, Fault \/ NoFault, Finish("md5", c), UNCHANGED mysql,
             pc["md5"] \in {"md5_info", "md5_list", "md5_addref"}
      PROVE  DriftInv'
  BY <1>p, <1>l, <1>f, FailedDrift
<1>e. ASSUME NEW c, Fault, Finish("md5", c), UNCHANGED mysql, pc["md5"] # "idle"
      PROVE  DriftInv'
  BY <1>p, <1>e, FailedDrift
<1>1. CASE Md5SelectInfo
  <2>1. ASSUME NEW n, NoFault, Goto("md5", "md5_list", [loc["md5"] EXCEPT !.count = n])
        PROVE  DriftInv'
    <3>1. [loc["md5"] EXCEPT !.count = n].key = loc["md5"].key
      BY <1>p DEF TypeOK, ControlTypeOK, Locals
    <3>2. "md5_list" \notin AddingLabels \cup BetweenLabels \cup KnownLabels
      BY DEF AddingLabels, BetweenLabels, KnownLabels, CountLabels
    <3>3. pc["md5"] = "md5_info" /\ UNCHANGED mysql
      BY <1>1 DEF Md5SelectInfo
    <3> QED
      BY <1>p, <1>l, <2>1, <3>1, <3>2, <3>3, PlainDrift
  <2> QED
    BY <1>1, <1>f, <2>1 DEF Md5SelectInfo
<1>2. CASE Md5SelectList
  <2>1. pc["md5"] = "md5_list" /\ UNCHANGED mysql
    BY <1>2 DEF Md5SelectList
  <2>2. CASE NoFault /\ Finish("md5", "004")
    BY <1>f, <2>1, <2>2
  <2>3. CASE /\ (NoFault /\ ~HasRow(user_file_list, loc["md5"].key)) \/ Fault
             /\ Goto("md5", "md5_addref", loc["md5"])
    BY <1>p, <1>l, <2>1, <2>3, AddingDrift DEF Listed
  <2> QED
    BY <1>2, <2>2, <2>3 DEF Md5SelectList
<1>3. CASE Md5AddReference
  <2>1. pc["md5"] = "md5_addref" /\ UNCHANGED <<user_file_list, user_file_count, share_file_list>>
    BY <1>3 DEF Md5AddReference
  <2>2. CASE Fault /\ Finish("md5", "006") /\ UNCHANGED file_info
    BY <1>f, <2>1, <2>2 DEF mysql
  <2>3. CASE /\ NoFault
             /\ file_info' = UpdateCountWhere(file_info, loc["md5"].key.md5, loc["md5"].count + 1)
             /\ Goto("md5", "md5_inslist", loc["md5"])
    <3>1. PICK h \in Md5s : h = loc["md5"].key.md5
      BY <1>p, <1>l, <2>1, AtWork DEF TypeOK
    <3>2. HasRow(file_info, h) /\ loc["md5"].count = CountedReferences(h)
      BY <2>1, <3>1 DEF SerialInv, Md5Knows, Stored
    <3>3. PICK n \in Int : n = CountedReferences(h) + 1
      BY CountedFacts
    <3>4. file_info' = UpdateCountWhere(file_info, h, n)
      BY <2>3, <3>1, <3>2, <3>3
    <3> QED
      BY <1>p, <2>1, <2>3, <3>1, <3>2, <3>3, <3>4, ReferenceAddedDrift
  <2> QED
    BY <1>3, <2>2, <2>3 DEF Md5AddReference
<1>4. CASE Md5InsertList
  <2>1. CASE Fault /\ Finish("md5", "006") /\ UNCHANGED user_file_list
    BY <1>4, <1>e, <2>1 DEF Md5InsertList, mysql
  <2>2. CASE /\ NoFault
             /\ user_file_list' = Insert(user_file_list, loc["md5"].key, 0)
             /\ Goto("md5", "md5_selcount", loc["md5"])
    BY <1>p, <1>4, <2>2, EntryAddedDrift DEF Md5InsertList
  <2> QED
    BY <1>4, <2>1, <2>2 DEF Md5InsertList
<1>5. CASE Md5SelectCount
  <2>1. "md5_count" \in CountLabels
    BY DEF CountLabels
  <2> QED
    BY <1>p, <1>5, <2>1, CountSelectedDrift DEF Md5SelectCount
<1>6. CASE Md5SetCount
  <2>1. pc["md5"] \in CountLabels /\ UNCHANGED <<file_info, user_file_list, share_file_list>>
        /\ pc["md5"] # "idle"
    BY <1>6 DEF Md5SetCount, CountLabels
  <2>2. ~CountRefused("md5", loc["md5"].key.user)
    BY <1>p, <2>1, CountNotRefused
  <2>3. CASE Fault /\ Finish("md5", "006") /\ UNCHANGED user_file_count
    BY <1>e, <2>1, <2>3 DEF mysql
  <2>4. CASE /\ NoFault /\ AddToCount("md5", loc["md5"].key.user)
             /\ Finish("md5", "005")
    BY <1>p, <2>1, <2>4, CountSetDrift
  <2> QED
    BY <1>6, <2>2, <2>3, <2>4 DEF Md5SetCount
<1> QED
  BY <1>1, <1>2, <1>3, <1>4, <1>5, <1>6 DEF Md5Step

------------------------------------------------------------------------------
(* The counters: save_file *)

LEMMA SaveDrift ==
  ASSUME TypeOK, TypeOK', SerialInv, DriftInv, SaveStep
  PROVE  DriftInv'
<1> DEFINE s == "sharefilesop"
<1>p. s \in Programs /\ s # "sharefiles"
  BY DEF Programs
<1>o. op = loc[s]
  BY DEF op
<1>l. pc[s] \in {"sv_list", "sv_selref", "sv_ref"} =>
        /\ pc[s] # "idle" /\ pc[s] \notin OwingLabels \cup BetweenLabels
  BY DEF OwingLabels, BetweenLabels, CountLabels
<1> HIDE DEF s
<1>f. ASSUME NEW c, Fault \/ NoFault, Finish(s, c), UNCHANGED mysql,
             pc[s] \in {"sv_list", "sv_selref", "sv_ref"}
      PROVE  DriftInv'
  BY <1>p, <1>l, <1>f, FailedDrift
<1>e. ASSUME NEW c, Fault, Finish(s, c), UNCHANGED mysql, pc[s] # "idle"
      PROVE  DriftInv'
  BY <1>p, <1>e, FailedDrift
<1>1. CASE SaveSelectList
  <2>1. pc[s] = "sv_list" /\ UNCHANGED mysql
    BY <1>1 DEF SaveSelectList, s
  <2>2. CASE \E c : (NoFault \/ Fault) /\ Finish(s, c)
    BY <1>f, <2>1, <2>2
  <2>3. CASE /\ (NoFault /\ ~HasRow(user_file_list, loc[s].key)) \/ Fault
             /\ Goto(s, "sv_selref", loc[s])
    BY <1>p, <1>l, <2>1, <2>3, AddingDrift DEF Listed
  <2> QED
    BY <1>1, <1>o, <2>2, <2>3 DEF SaveSelectList, ShareOpFails, s
<1>2. CASE SaveSelectReference
  <2>1. pc[s] = "sv_selref" /\ UNCHANGED mysql
    BY <1>2 DEF SaveSelectReference, s
  <2>2. CASE \E c : (NoFault \/ Fault) /\ Finish(s, c)
    BY <1>f, <2>1, <2>2
  <2>3. ASSUME NEW n, NoFault, Goto(s, "sv_ref", [loc[s] EXCEPT !.count = n])
        PROVE  DriftInv'
    <3>1. [loc[s] EXCEPT !.count = n].key = loc[s].key
      BY <1>p DEF TypeOK, ControlTypeOK, Locals
    <3>2. pc[s] \in AddingLabels
      BY <2>1 DEF AddingLabels
    <3> QED
      BY <1>p, <1>l, <2>1, <2>3, <3>1, <3>2, AddingDrift
  <2> QED
    BY <1>2, <1>o, <2>2, <2>3 DEF SaveSelectReference, ShareOpFails, s
<1>3. CASE SaveAddReference
  <2>1. pc[s] = "sv_ref" /\ UNCHANGED <<user_file_list, user_file_count, share_file_list>>
    BY <1>3 DEF SaveAddReference, s
  <2>2. CASE Fault /\ Finish(s, "022") /\ UNCHANGED file_info
    BY <1>f, <2>1, <2>2 DEF mysql
  <2>3. CASE /\ NoFault
             /\ file_info' = UpdateCountWhere(file_info, loc[s].key.md5, loc[s].count + 1)
             /\ Goto(s, "sv_inslist", loc[s])
    <3>1. PICK h \in Md5s : h = loc[s].key.md5
      BY <1>p, <1>l, <2>1, AtWork DEF TypeOK
    <3>2. HasRow(file_info, h) /\ loc[s].count = CountedReferences(h)
      BY <1>o, <2>1, <3>1 DEF SerialInv, SaveKnows, Stored, s
    <3>3. PICK n \in Int : n = CountedReferences(h) + 1
      BY CountedFacts
    <3>4. file_info' = UpdateCountWhere(file_info, h, n)
      BY <2>3, <3>1, <3>2, <3>3
    <3> QED
      BY <1>p, <2>1, <2>3, <3>1, <3>2, <3>3, <3>4, ReferenceAddedDrift
  <2> QED
    BY <1>3, <1>o, <2>2, <2>3 DEF SaveAddReference, ShareOpFails, s
<1>4. CASE SaveInsertList
  <2>1. /\ pc[s] = "sv_inslist" /\ pc[s] # "idle"
        /\ UNCHANGED <<file_info, user_file_count, share_file_list>>
    BY <1>4 DEF SaveInsertList, s
  <2>2. CASE Fault /\ Finish(s, "022") /\ UNCHANGED user_file_list
    BY <1>e, <2>1, <2>2 DEF mysql
  <2>3. CASE /\ NoFault /\ user_file_list' = Insert(user_file_list, loc[s].key, 0)
             /\ Goto(s, "sv_selcount", loc[s])
    BY <1>p, <2>1, <2>3, EntryAddedDrift
  <2> QED
    BY <1>4, <1>o, <2>2, <2>3 DEF SaveInsertList, ShareOpFails, s
<1>5. CASE SaveSelectCount
  <2>1. "sv_count" \in CountLabels
    BY DEF CountLabels
  <2>2. SelectCountToAdd(s, loc[s].key.user, "sv_selcount", "sv_count")
    BY <1>5, <1>o DEF SaveSelectCount, s
  <2> QED
    BY <1>p, <2>1, <2>2, CountSelectedDrift
<1>6. CASE SaveSetCount
  <2>1. pc[s] \in CountLabels /\ UNCHANGED <<file_info, user_file_list, share_file_list>>
        /\ pc[s] # "idle"
    BY <1>6 DEF SaveSetCount, CountLabels, s
  <2>2. ~CountRefused(s, loc[s].key.user)
    BY <1>p, <2>1, CountNotRefused
  <2>3. CASE Fault /\ Finish(s, "022") /\ UNCHANGED user_file_count
    BY <1>e, <2>1, <2>3 DEF mysql
  <2>4. CASE /\ NoFault /\ AddToCount(s, loc[s].key.user) /\ Finish(s, "020")
    BY <1>p, <2>1, <2>4, CountSetDrift
  <2> QED
    BY <1>6, <1>o, <2>2, <2>3, <2>4 DEF SaveSetCount, s
<1> QED
  BY <1>1, <1>2, <1>3, <1>4, <1>5, <1>6 DEF SaveStep

------------------------------------------------------------------------------
(* The counters: del_file *)

\* del_file counts a file off before it deletes its entries.
LEMMA DelCountDrift ==
  ASSUME TypeOK, TypeOK', SerialInv, DriftInv, DelSetCount
  PROVE  DriftInv'
<1>p. "filesop" \in Programs /\ "filesop" # "sharefiles" /\ pc["filesop"] = "del_count"
      /\ pc["filesop"] # "idle"
  BY DEF Programs, DelSetCount
<1>t. UNCHANGED <<file_info, user_file_list, share_file_list>>
  BY DEF DelSetCount
<1>k. PICK k \in FileKey : k = loc["filesop"].key
  BY <1>p, AtWork DEF TypeOK
<1>u. k.user \in Users /\ k.md5 \in Md5s /\ k.user \in Accounts
  BY DEF FileKey, Accounts
<1>1. CASE Fault /\ Finish("filesop", "014") /\ UNCHANGED user_file_count
  BY <1>p, <1>t, <1>1, FailedDrift DEF mysql
<1>2. CASE /\ NoFault
           /\ user_file_count' =
                IF me.count = 1 THEN DeleteWhere(user_file_count, me.key.user)
                                ELSE UpdateWhere(user_file_count, me.key.user, me.count - 1)
           /\ Goto("filesop", "del_list", me)
  <2>v. PICK v : v = loc["filesop"]
    OBVIOUS
  <2>k. me = v /\ v.key = k /\ v.count \in Int
    BY <1>p, <1>k, <2>v, AtWork DEF me, TypeOK
  <2>1. HasRow(user_file_count, k.user) /\ v.count = CountedFiles(k.user)
    BY <1>p, <2>k DEF DriftInv, CountsKnown
  <2>2. Moved(k, 0, 0)
    BY <1>t, SameMoved
  <2>3. /\ CountedFiles(k.user)' = CountedFiles(k.user) + (-1)
        /\ \A b \in Accounts : b # k.user => CountedFiles(b)' = CountedFiles(b)
    <3>t. user_file_count \in [Accounts -> Seq(Int)]
      BY DEF TypeOK, TablesTypeOK
    <3>1. CASE v.count = 1
      <4>1. user_file_count' = DeleteWhere(user_file_count, k.user)
        BY <1>2, <2>k, <3>1
      <4>2. /\ CountedFiles(k.user)' = 0
            /\ \A b \in Accounts : b # k.user => CountedFiles(b)' = CountedFiles(b)
        BY <1>u, <3>t, <4>1, FilesDeleted
      <4> QED
        BY <2>1, <3>1, <4>2
    <3>2. CASE v.count # 1
      <4>1. PICK n \in Int : n = v.count - 1
        BY <2>k
      <4>2. user_file_count' = UpdateWhere(user_file_count, k.user, n)
        BY <1>2, <2>k, <3>2, <4>1
      <4>3. /\ CountedFiles(k.user)' = n
            /\ \A b \in Accounts : b # k.user => CountedFiles(b)' = CountedFiles(b)
        BY <1>u, <2>1, <3>t, <4>2, FilesSet
      <4> QED
        BY <2>1, <2>k, <4>1, <4>3
    <3> QED
      BY <3>1, <3>2
  <2>4. Recounted(k, 0, -1) /\ 0 \in Int /\ -1 \in Int
    <3>1. \A m \in Md5s :
            CountedReferences(m)' = CountedReferences(m) /\ CountedReferences(m) \in Int
      BY <1>t, SameReferences, CountedFacts
    <3> QED
      BY <1>u, <2>3, <3>1 DEF Recounted, Accounts
  <2>5. /\ pc' = [pc EXCEPT !["filesop"] = "del_list"]
        /\ loc' = [loc EXCEPT !["filesop"] = v]
    BY <1>2, <2>k DEF Goto
  <2>6. Afforded("filesop", k, "del_list", v, 0, -1, 0, 0)
    <3>1. faults \in Nat /\ faults' = faults
      BY <1>2 DEF TypeOK, ControlTypeOK, NoFault
    <3>2. /\ pc["filesop"] \notin AddingLabels /\ pc["filesop"] \notin OwingLabels
          /\ pc["filesop"] \notin BetweenLabels
          /\ "del_list" \notin AddingLabels /\ "del_list" \notin OwingLabels
          /\ "del_list" \in BetweenLabels /\ "del_list" \notin CountLabels
      BY <1>p DEF AddingLabels, OwingLabels, BetweenLabels, CountLabels
    <3> QED
      BY <3>1, <3>2 DEF Afforded, One, Counts
  <2>7. (\A m \in Md5s : ReferencesBound(m)') /\ (\A u \in Users : FilesBound(u)')
    BY <1>p, <1>k, <2>k, <2>2, <2>4, <2>5, <2>6, DriftStep, Zenon
  <2>8. CountsKnown'
    <3>1. "del_list" \notin KnownLabels
      BY DEF KnownLabels, CountLabels
    <3> QED
      BY <1>p, <2>5, <3>1, NothingKnown
  <2> QED
    BY <2>7, <2>8 DEF DriftInv
<1> QED
  BY <1>1, <1>2 DEF DelSetCount, FilesOpFails

\* The entries of a file go, however many there are; one reference has to follow.
LEMMA DelListDrift ==
  ASSUME TypeOK, TypeOK', SerialInv, DriftInv, DelList
  PROVE  DriftInv'
<1>p. "filesop" \in Programs /\ "filesop" # "sharefiles" /\ pc["filesop"] = "del_list"
      /\ pc["filesop"] # "idle"
  BY DEF Programs, DelList
<1>t. UNCHANGED <<file_info, user_file_count, share_file_list>>
  BY DEF DelList
<1>k. PICK k \in FileKey : k = loc["filesop"].key
  BY <1>p, AtWork DEF TypeOK
<1>1. CASE Fault /\ Finish("filesop", "014") /\ UNCHANGED user_file_list
  BY <1>p, <1>t, <1>1, FailedDrift DEF mysql
<1>2. CASE /\ NoFault /\ user_file_list' = DeleteWhere(user_file_list, me.key)
           /\ Goto("filesop", "del_selref", me)
  <2>v. PICK v : v = loc["filesop"]
    OBVIOUS
  <2>k. me = v /\ v.key = k
    BY <1>k, <2>v DEF me
  <2>1. Moved(k, -1, -1)
    <3>1. Listed(k) /\ user_file_list' = DeleteWhere(user_file_list, k)
      BY <1>p, <1>2, <2>k DEF SerialInv, DelKnows
    <3> QED
      BY <3>1, EntryDeleted DEF TypeOK, TablesTypeOK
  <2>2. Recounted(k, 0, 0) /\ 0 \in Int /\ -1 \in Int
    BY <1>t, NotRecounted, FilesSame
  <2>3. /\ pc' = [pc EXCEPT !["filesop"] = "del_selref"]
        /\ loc' = [loc EXCEPT !["filesop"] = v]
    BY <1>2, <2>k DEF Goto
  <2>4. Afforded("filesop", k, "del_selref", v, 0, 0, -1, -1)
    <3>1. faults \in Nat /\ faults' = faults
      BY <1>2 DEF TypeOK, ControlTypeOK, NoFault
    <3>2. /\ pc["filesop"] \notin AddingLabels /\ pc["filesop"] \notin OwingLabels
          /\ pc["filesop"] \in BetweenLabels /\ pc["filesop"] \notin CountLabels
          /\ "del_selref" \notin AddingLabels /\ "del_selref" \in OwingLabels
          /\ "del_selref" \notin BetweenLabels
      BY <1>p DEF AddingLabels, OwingLabels, BetweenLabels, CountLabels
    <3> QED
      BY <3>1, <3>2 DEF Afforded, One, Counts
  <2>5. (\A m \in Md5s : ReferencesBound(m)') /\ (\A u \in Users : FilesBound(u)')
    BY <1>p, <1>k, <2>k, <2>1, <2>2, <2>3, <2>4, DriftStep, Zenon
  <2>6. CountsKnown'
    <3>1. "del_selref" \notin KnownLabels
      BY DEF KnownLabels, CountLabels
    <3> QED
      BY <1>p, <2>3, <3>1, NothingKnown
  <2> QED
    BY <2>5, <2>6 DEF DriftInv
<1> QED
  BY <1>1, <1>2 DEF DelList, FilesOpFails

\* The reference is counted off.
LEMMA DelReferenceDrift ==
  ASSUME TypeOK, TypeOK', SerialInv, DriftInv, DelSetReference
  PROVE  DriftInv'
<1>p. "filesop" \in Programs /\ "filesop" # "sharefiles" /\ pc["filesop"] = "del_ref"
      /\ pc["filesop"] # "idle"
  BY DEF Programs, DelSetReference
<1>t. UNCHANGED <<user_file_list, user_file_count, share_file_list>>
  BY DEF DelSetReference
<1>k. PICK k \in FileKey : k = loc["filesop"].key
  BY <1>p, AtWork DEF TypeOK
<1>u. k.user \in Users /\ k.md5 \in Md5s
  BY DEF FileKey
<1>1. CASE Fault /\ Finish("filesop", "014") /\ UNCHANGED file_info
  BY <1>p, <1>t, <1>1, FailedDrift DEF mysql
<1>2. CASE /\ NoFault /\ file_info' = UpdateCountWhere(file_info, me.key.md5, me.count)
           /\ \/ Goto("filesop", "del_selid", me)
              \/ Finish("filesop", "013")
  <2>1. PICK n \in Int : n = CountedReferences(k.md5) - 1
    BY <1>u, CountedFacts
  <2>2. me.count = n /\ me.key = k
    BY <1>p, <1>k, <2>1 DEF me, SerialInv, DelKnows
  <2>3. HasRow(file_info, k.md5)
    <3>1. Owed(k.md5)
      BY <1>p, <1>k DEF Owed, me
    <3>2. /\ IsFiniteSet(Entries(k.md5))
          /\ Cardinality(Entries(k.md5)) + 1 <= CountedReferences(k.md5)
      BY <1>u, <3>1 DEF SerialInv, Covered
    <3>3. Cardinality(Entries(k.md5)) \in Nat
      BY <3>2, FS_CardinalityType
    <3> QED
      BY <1>u, <3>2, <3>3, CountedFacts
  <2>4. Moved(k, 0, 0)
    BY <1>t, SameMoved
  <2>5. Recounted(k, -1, 0) /\ 0 \in Int /\ -1 \in Int
    <3>1. file_info' = UpdateCountWhere(file_info, k.md5, n)
      BY <1>2, <2>2
    <3>2. /\ CountedReferences(k.md5)' = n
          /\ \A m \in Md5s : m # k.md5 => CountedReferences(m)' = CountedReferences(m)
      BY <1>u, <2>3, <3>1, ReferencesSet DEF TypeOK, TablesTypeOK
    <3>3. \A u \in Users : CountedFiles(u)' = CountedFiles(u) /\ CountedFiles(u) \in Int
      BY <1>t, FilesSame, FilesType DEF TypeOK, TablesTypeOK, Accounts
    <3>4. CountedReferences(k.md5) \in Int
      BY <1>u, CountedFacts
    <3> QED
      BY <1>u, <2>1, <3>2, <3>3, <3>4 DEF Recounted
  <2>a. PICK l \in {"del_selid", "idle"} : \E v :
          /\ pc' = [pc EXCEPT !["filesop"] = l] /\ loc' = [loc EXCEPT !["filesop"] = v]
          /\ l = "idle" \/ v.key = k
    BY <1>2, <2>2 DEF Goto, Finish
  <2>6. PICK v :
          /\ pc' = [pc EXCEPT !["filesop"] = l] /\ loc' = [loc EXCEPT !["filesop"] = v]
          /\ l = "idle" \/ v.key = k
    BY <2>a
  <2>7. Afforded("filesop", k, l, v, -1, 0, 0, 0)
    <3>1. faults \in Nat /\ faults' = faults
      BY <1>2 DEF TypeOK, ControlTypeOK, NoFault
    <3>2. /\ pc["filesop"] \notin AddingLabels /\ pc["filesop"] \in OwingLabels
          /\ pc["filesop"] \notin BetweenLabels
          /\ l \notin AddingLabels /\ l \notin OwingLabels /\ l \notin BetweenLabels
      BY <1>p DEF AddingLabels, OwingLabels, BetweenLabels, CountLabels
    <3> QED
      BY <3>1, <3>2 DEF Afforded, One, Counts
  <2>8. (\A m \in Md5s : ReferencesBound(m)') /\ (\A u \in Users : FilesBound(u)')
    BY <1>p, <1>k, <2>4, <2>5, <2>6, <2>7, DriftStep, Zenon
  <2>9. CountsKnown'
    <3>1. l \notin KnownLabels
      BY DEF KnownLabels, CountLabels
    <3> QED
      BY <1>p, <2>6, <3>1, NothingKnown
  <2> QED
    BY <2>8, <2>9 DEF DriftInv
<1> QED
  BY <1>1, <1>2 DEF DelSetReference, FilesOpFails

\* The row that goes counted nothing.
LEMMA DelInfoDrift ==
  ASSUME TypeOK, TypeOK', SerialInv, DriftInv, DelInfo
  PROVE  DriftInv'
<1>p. "filesop" \in Programs /\ "filesop" # "sharefiles" /\ pc["filesop"] = "del_info"
      /\ pc["filesop"] # "idle"
  BY DEF Programs, DelInfo
<1>t. UNCHANGED <<user_file_list, user_file_count, share_file_list>>
  BY DEF DelInfo
<1>k. PICK k \in FileKey : k = loc["filesop"].key
  BY <1>p, AtWork DEF TypeOK
<1>u. k.user \in Users /\ k.md5 \in Md5s
  BY DEF FileKey
<1>1. CASE Fault /\ Finish("filesop", "014") /\ UNCHANGED file_info
  BY <1>p, <1>t, <1>1, FailedDrift DEF mysql
<1>2. CASE /\ NoFault /\ file_info' = DeleteWhere(file_info, me.key.md5)
           /\ Goto("filesop", "del_remove", me)
  <2>v. PICK v : v = loc["filesop"]
    OBVIOUS
  <2>k. me = v /\ v.key = k
    BY <1>k, <2>v DEF me
  <2>1. CountedReferences(k.md5) = 0
    BY <1>p, <2>k DEF SerialInv, DelKnows
  <2>2. Moved(k, 0, 0)
    BY <1>t, SameMoved
  <2>3. Recounted(k, 0, 0) /\ 0 \in Int
    <3>1. /\ file_info'[k.md5] = <<>>
          /\ \A m \in Md5s : m # k.md5 => file_info'[m] = file_info[m]
      BY <1>u, <1>2, <2>k DEF DeleteWhere, TypeOK, TablesTypeOK
    <3>2. /\ CountedReferences(k.md5)' = 0
          /\ \A m \in Md5s : m # k.md5 => CountedReferences(m)' = CountedReferences(m)
      BY <3>1 DEF CountedReferences, HasRow, FirstRow
    <3>3. \A u \in Users : CountedFiles(u)' = CountedFiles(u) /\ CountedFiles(u) \in Int
      BY <1>t, FilesSame, FilesType DEF TypeOK, TablesTypeOK, Accounts
    <3> QED
      BY <1>u, <2>1, <3>2, <3>3 DEF Recounted
  <2>4. /\ pc' = [pc EXCEPT !["filesop"] = "del_remove"]
        /\ loc' = [loc EXCEPT !["filesop"] = v]
    BY <1>2, <2>k DEF Goto
  <2>5. Afforded("filesop", k, "del_remove", v, 0, 0, 0, 0)
    <3>1. faults \in Nat /\ faults' = faults
      BY <1>2 DEF TypeOK, ControlTypeOK, NoFault
    <3>2. /\ pc["filesop"] \notin AddingLabels /\ pc["filesop"] \notin OwingLabels
          /\ pc["filesop"] \notin BetweenLabels
          /\ "del_remove" \notin AddingLabels /\ "del_remove" \notin OwingLabels
          /\ "del_remove" \notin BetweenLabels
      BY <1>p DEF AddingLabels, OwingLabels, BetweenLabels, CountLabels
    <3> QED
      BY <3>1, <3>2 DEF Afforded, One, Counts
  <2>6. (\A m \in Md5s : ReferencesBound(m)') /\ (\A u \in Users : FilesBound(u)')
    BY <1>p, <1>k, <2>k, <2>2, <2>3, <2>4, <2>5, DriftStep, Zenon
  <2>7. CountsKnown'
    <3>1. "del_remove" \notin KnownLabels
      BY DEF KnownLabels, CountLabels
    <3> QED
      BY <1>p, <2>4, <3>1, NothingKnown
  <2> QED
    BY <2>6, <2>7 DEF DriftInv
<1> QED
  BY <1>1, <1>2 DEF DelInfo, FilesOpFails

\* The count of the shared files is not the count of a user.
LEMMA SharesApart ==
  ASSUME TypeOK, NEW n \in Int,
         \/ user_file_count' = UpdateWhere(user_file_count, ShareUser, n)
         \/ user_file_count' = DeleteWhere(user_file_count, ShareUser)
         \/ user_file_count' = Insert(user_file_count, ShareUser, 1)
         \/ UNCHANGED user_file_count
  PROVE  \A u \in Users : CountedFiles(u)' = CountedFiles(u)
<1>1. \A u \in Users : user_file_count'[u] = user_file_count[u]
  BY ConstantsAssumption DEF TypeOK, TablesTypeOK, Accounts, UpdateWhere, DeleteWhere, Insert
<1> QED
  BY <1>1 DEF CountedFiles, HasRow, FirstRow

\* A step of cgi_filesop or cgi_sharefilesop that is not about the counters.
LEMMA AsideDrift ==
  ASSUME TypeOK, TypeOK', SerialInv, DriftInv, NEW p \in Programs, p # "sharefiles",
         pc[p] # "idle", UNCHANGED file_info,
         \A j \in FileKey : Len(user_file_list'[j]) = Len(user_file_list[j]),
         \A u \in Users : CountedFiles(u)' = CountedFiles(u), Fault \/ NoFault,
         pc[p] \notin OwingLabels \cup BetweenLabels,
         \/ \E c : Finish(p, c) /\ UNCHANGED user_file_list
         \/ \E l, v : /\ Goto(p, l, v) /\ v.key = loc[p].key
                      /\ l \notin AddingLabels \cup BetweenLabels \cup KnownLabels
  PROVE  DriftInv'
<1>1. faults' = faults \/ faults' = faults + 1
  BY DEF Fault, NoFault
<1>2. CASE \E c : Finish(p, c) /\ UNCHANGED user_file_list
  BY <1>1, <1>2, EndedDrift DEF Finish
<1>3. CASE \E l, v : /\ Goto(p, l, v) /\ v.key = loc[p].key
                     /\ l \notin AddingLabels \cup BetweenLabels \cup KnownLabels
  <2>1. PICK l, v : /\ Goto(p, l, v) /\ v.key = loc[p].key
                    /\ l \notin AddingLabels \cup BetweenLabels \cup KnownLabels
    BY <1>3
  <2>2. CountsKnown'
    BY <2>1, NothingKnown DEF Goto
  <2> QED
    BY <1>1, <2>1, <2>2, GoneDrift
<1> QED
  BY <1>2, <1>3

\* The user's count is read before the file is counted off.
LEMMA DelSelectCountDrift ==
  ASSUME TypeOK, TypeOK', SerialInv, DriftInv, NoFault, pc["filesop"] = "del_selcount",
         HasRow(user_file_count, me.key.user), UNCHANGED mysql,
         Goto("filesop", "del_count", [me EXCEPT !.count = FirstRow(user_file_count, me.key.user)])
  PROVE  DriftInv'
<1>p. "filesop" \in Programs /\ "filesop" # "sharefiles" /\ pc["filesop"] # "idle"
  BY DEF Programs
<1>k. PICK k \in FileKey : k = loc["filesop"].key
  BY <1>p, AtWork DEF TypeOK
<1>v. PICK v : /\ Goto("filesop", "del_count", v) /\ v.key = k
               /\ v.count = FirstRow(user_file_count, k.user)
  <2> DEFINE w == [me EXCEPT !.count = FirstRow(user_file_count, me.key.user)]
  <2>1. w.key = k /\ w.count = FirstRow(user_file_count, k.user)
    BY <1>p, <1>k DEF me, TypeOK, ControlTypeOK, Locals
  <2>2. Goto("filesop", "del_count", w)
    OBVIOUS
  <2> HIDE DEF w
  <2> QED
    BY <2>1, <2>2
<1>1. CountsKnown'
  <2>1. /\ pc'["filesop"] = "del_count" /\ loc'["filesop"] = v
        /\ \A q \in Programs : q # "filesop" => pc'[q] = "idle"
    <3>1. /\ pc' = [pc EXCEPT !["filesop"] = "del_count"]
          /\ loc' = [loc EXCEPT !["filesop"] = v] /\ OneAtATime
      BY <1>v DEF Goto, SerialInv
    <3> QED
      BY <1>p, <3>1, AloneStep
  <2>2. \A q \in Programs : pc'[q] \notin CountLabels /\ pc'[q] # "up_list"
    BY <2>1 DEF CountLabels
  <2>3. /\ CountedFiles(k.user)' = CountedFiles(k.user)
        /\ HasRow(user_file_count, k.user)'
        /\ v.count = CountedFiles(k.user)
    BY <1>k, <1>v DEF CountedFiles, HasRow, FirstRow, mysql, me
  <2>4. (HasRow(user_file_count, me.key.user) /\ me.count = CountedFiles(me.key.user))'
    BY <1>v, <2>1, <2>3 DEF me, CountedFiles, HasRow, FirstRow
  <2> QED
    BY <2>2, <2>4, LabelFacts DEF CountsKnown
<1>2. /\ "del_count" \notin AddingLabels \cup BetweenLabels
      /\ pc["filesop"] \notin OwingLabels \cup BetweenLabels
  BY DEF AddingLabels, BetweenLabels, CountLabels, OwingLabels
<1>3. faults' = faults /\ UNCHANGED <<file_info, user_file_list, user_file_count>>
  BY DEF NoFault, mysql
<1>4. /\ \A j \in FileKey : Len(user_file_list'[j]) = Len(user_file_list[j])
      /\ \A u \in Users : CountedFiles(u)' = CountedFiles(u)
  BY <1>3, FilesSame
<1> QED
  BY <1>p, <1>k, <1>v, <1>1, <1>2, <1>3, <1>4, GoneDrift

\* The content of a deleted file still has the reference that is to be counted off.
LEMMA DelSelectReferenceDrift ==
  ASSUME TypeOK, TypeOK', SerialInv, DriftInv, DelSelectReference
  PROVE  DriftInv'
<1>p. "filesop" \in Programs /\ "filesop" # "sharefiles" /\ pc["filesop"] = "del_selref"
      /\ pc["filesop"] # "idle" /\ UNCHANGED mysql
  BY DEF Programs, DelSelectReference
<1>k. PICK k \in FileKey : k = loc["filesop"].key
  BY <1>p, AtWork DEF TypeOK
<1>1. HasRow(file_info, me.key.md5)
  <2>1. k.md5 \in Md5s /\ me.key = k
    BY <1>k DEF FileKey, me
  <2>2. Owed(k.md5)
    BY <1>p, <2>1 DEF Owed
  <2>3. /\ IsFiniteSet(Entries(k.md5))
        /\ Cardinality(Entries(k.md5)) + 1 <= CountedReferences(k.md5)
    BY <2>1, <2>2 DEF SerialInv, Covered
  <2>4. Cardinality(Entries(k.md5)) \in Nat
    BY <2>3, FS_CardinalityType
  <2> QED
    BY <2>1, <2>3, <2>4, CountedFacts
<1>2. CASE Fault /\ Finish("filesop", "014")
  BY <1>p, <1>2, FailedDrift
<1>3. ASSUME NEW n, NoFault, Goto("filesop", "del_ref", [me EXCEPT !.count = n])
      PROVE  DriftInv'
  <2>1. [me EXCEPT !.count = n].key = loc["filesop"].key
    BY <1>p DEF me, TypeOK, ControlTypeOK, Locals
  <2>2. /\ "del_ref" \notin AddingLabels \cup BetweenLabels /\ "del_ref" \in OwingLabels
        /\ "del_ref" \notin KnownLabels /\ pc["filesop"] \notin BetweenLabels
    BY <1>p DEF AddingLabels, BetweenLabels, CountLabels, OwingLabels, KnownLabels
  <2>3. CountsKnown'
    BY <1>p, <1>3, <2>2, NothingKnown DEF Goto
  <2>4. faults' = faults /\ UNCHANGED <<file_info, user_file_list, user_file_count>>
    BY <1>p, <1>3 DEF NoFault, mysql
  <2>5. /\ \A j \in FileKey : Len(user_file_list'[j]) = Len(user_file_list[j])
        /\ \A u \in Users : CountedFiles(u)' = CountedFiles(u)
    BY <2>4, FilesSame
  <2> QED
    BY <1>p, <1>3, <2>1, <2>2, <2>3, <2>4, <2>5, GoneDrift
<1> QED
  BY <1>1, <1>2, <1>3 DEF DelSelectReference, FilesOpFails

LEMMA DelDrift ==
  ASSUME TypeOK, TypeOK', SerialInv, DriftInv, DelStep
  PROVE  DriftInv'
<1> DEFINE s == "filesop"
           From == {"del_zexit", "del_status", "del_share", "del_selshares", "del_shares",
                    "del_zrem", "del_hdel", "del_selcount", "del_selid", "del_remove"}
           To == {"del_status", "del_share", "del_selshares", "del_shares", "del_zrem",
                  "del_hdel", "del_selcount", "del_info"}
<1>p. s \in Programs /\ s # "sharefiles" /\ me = loc[s] /\ loc[s] \in Locals
  BY DEF Programs, me, TypeOK, ControlTypeOK
<1>l. /\ \A l \in From : l # "idle" /\ l \notin OwingLabels \cup BetweenLabels
      /\ \A l \in To : l \notin AddingLabels \cup BetweenLabels \cup KnownLabels
  BY DEF OwingLabels, BetweenLabels, CountLabels, AddingLabels, KnownLabels
<1> HIDE DEF s
<1>e. ASSUME UNCHANGED <<file_info, user_file_list>>, pc[s] \in From, Fault \/ NoFault,
             \A u \in Users : CountedFiles(u)' = CountedFiles(u),
             \/ \E c : Finish(s, c)
             \/ \E l \in To : \E v : Goto(s, l, v) /\ v.key = loc[s].key
      PROVE  DriftInv'
  <2>1. \A j \in FileKey : Len(user_file_list'[j]) = Len(user_file_list[j])
    BY <1>e
  <2> HIDE DEF From, To
  <2>2. pc[s] # "idle" /\ pc[s] \notin OwingLabels \cup BetweenLabels
    BY <1>e, <1>l
  <2>3. CASE \E c : Finish(s, c)
    BY <1>p, <1>e, <2>1, <2>2, <2>3, AsideDrift
  <2>4. CASE \E l \in To : \E v : Goto(s, l, v) /\ v.key = loc[s].key
    BY <1>p, <1>l, <1>e, <2>1, <2>2, <2>4, AsideDrift
  <2> QED
    BY <1>e, <2>3, <2>4
<1>m. ASSUME UNCHANGED mysql
      PROVE  /\ UNCHANGED <<file_info, user_file_list>>
             /\ \A u \in Users : CountedFiles(u)' = CountedFiles(u)
  BY <1>m, FilesSame DEF mysql
<1>x. /\ \A n : [loc[s] EXCEPT !.count = n].key = loc[s].key
      /\ \A f : [loc[s] EXCEPT !.fileid = f].key = loc[s].key
      /\ [loc[s] EXCEPT !.share = 1, !.flag = 1].key = loc[s].key
      /\ [loc[s] EXCEPT !.share = 1].key = loc[s].key
  BY <1>p DEF Locals
<1>1. CASE DelZexit
  <2>1. UNCHANGED mysql /\ pc[s] \in From /\ (Fault \/ NoFault)
    BY <1>1 DEF DelZexit, FilesOpFails, s
  <2>2. \/ \E c : Finish(s, c)
        \/ Goto(s, "del_share", [loc[s] EXCEPT !.share = 1, !.flag = 1])
        \/ Goto(s, "del_status", loc[s])
    BY <1>1, <1>p DEF DelZexit, FilesOpFails, s
  <2> QED
    BY <1>e, <1>m, <1>x, <2>1, <2>2
<1>2. CASE DelStatus
  <2>1. UNCHANGED mysql /\ pc[s] \in From /\ (Fault \/ NoFault)
    BY <1>2 DEF DelStatus, FilesOpFails, s
  <2>2. \/ \E c : Finish(s, c)
        \/ Goto(s, "del_share", [loc[s] EXCEPT !.share = 1])
        \/ Goto(s, "del_selcount", loc[s])
    BY <1>2, <1>p DEF DelStatus, FilesOpFails, s
  <2> QED
    BY <1>e, <1>m, <1>x, <2>1, <2>2
<1>3. CASE DelShare
  <2>1. /\ UNCHANGED <<file_info, user_file_list, user_file_count>>
        /\ pc[s] \in From /\ (Fault \/ NoFault)
    BY <1>3 DEF DelShare, FilesOpFails, s
  <2>2. (\E c : Finish(s, c)) \/ Goto(s, "del_selshares", loc[s])
    BY <1>3, <1>p DEF DelShare, FilesOpFails, s
  <2> QED
    BY <1>e, <2>1, <2>2, FilesSame
<1>4. CASE DelSelectShares
  <2>1. UNCHANGED mysql /\ pc[s] \in From /\ (Fault \/ NoFault)
    BY <1>4 DEF DelSelectShares, FilesOpFails, s
  <2>2. \/ \E c : Finish(s, c)
        \/ \E n : Goto(s, "del_shares", [loc[s] EXCEPT !.count = n])
    BY <1>4, <1>p DEF DelSelectShares, FilesOpFails, s
  <2> QED
    BY <1>e, <1>m, <1>x, <2>1, <2>2
<1>5. CASE DelSetShares
  <2>1. /\ UNCHANGED <<file_info, user_file_list>> /\ pc[s] \in From /\ (Fault \/ NoFault)
    BY <1>5 DEF DelSetShares, FilesOpFails, s
  <2>2. \/ \E c : Finish(s, c)
        \/ Goto(s, "del_zrem", loc[s]) \/ Goto(s, "del_selcount", loc[s])
    BY <1>5, <1>p DEF DelSetShares, FilesOpFails, s
  <2>3. \A u \in Users : CountedFiles(u)' = CountedFiles(u)
    <3>1. PICK n \in Int : n = me.count - 1
      BY <1>p DEF Locals
    <3>2. \/ user_file_count' = UpdateWhere(user_file_count, ShareUser, n)
          \/ UNCHANGED user_file_count
      BY <1>5, <3>1 DEF DelSetShares
    <3> QED
      BY <3>2, SharesApart
  <2> QED
    BY <1>e, <2>1, <2>2, <2>3
<1>6. CASE DelZrem
  <2>1. UNCHANGED mysql /\ pc[s] \in From /\ (Fault \/ NoFault) /\ Goto(s, "del_hdel", loc[s])
    BY <1>6, <1>p DEF DelZrem, s
  <2> QED
    BY <1>e, <1>m, <2>1
<1>7. CASE DelHdel
  <2>1. UNCHANGED mysql /\ pc[s] \in From /\ (Fault \/ NoFault) /\ Goto(s, "del_selcount", loc[s])
    BY <1>7, <1>p DEF DelHdel, s
  <2> QED
    BY <1>e, <1>m, <2>1
<1>8. CASE DelSelectCount
  <2>1. UNCHANGED mysql /\ pc[s] \in From /\ pc["filesop"] = "del_selcount"
    BY <1>8 DEF DelSelectCount, s
  <2>2. CASE (\E c : Finish(s, c)) /\ (Fault \/ NoFault)
    BY <1>e, <1>m, <2>1, <2>2
  <2>3. CASE /\ NoFault /\ HasRow(user_file_count, me.key.user)
             /\ Goto("filesop", "del_count",
                     [me EXCEPT !.count = FirstRow(user_file_count, me.key.user)])
    BY <2>1, <2>3, DelSelectCountDrift
  <2> QED
    BY <1>8, <2>2, <2>3 DEF DelSelectCount, FilesOpFails, s
<1>9. CASE DelSelectId
  <2>1. UNCHANGED mysql /\ pc[s] \in From /\ (Fault \/ NoFault)
    BY <1>9 DEF DelSelectId, FilesOpFails, s
  <2>2. \/ \E c : Finish(s, c)
        \/ \E f : Goto(s, "del_info", [loc[s] EXCEPT !.fileid = f])
    BY <1>9, <1>p DEF DelSelectId, FilesOpFails, s
  <2> QED
    BY <1>e, <1>m, <1>x, <2>1, <2>2
<1>10. CASE DelRemove
  <2>1. UNCHANGED mysql /\ pc[s] \in From /\ (Fault \/ NoFault) /\ \E c : Finish(s, c)
    BY <1>10 DEF DelRemove, s
  <2> QED
    BY <1>e, <1>m, <2>1
<1> QED
  BY <1>1, <1>2, <1>3, <1>4, <1>5, <1>6, <1>7, <1>8, <1>9, <1>10, DelCountDrift, DelListDrift,
     DelSelectReferenceDrift, DelReferenceDrift, DelInfoDrift DEF DelStep

------------------------------------------------------------------------------
(* The counters: share_file, pv_file and cancel_share_file *)

LEMMA ShareDrift ==
  ASSUME TypeOK, TypeOK', SerialInv, DriftInv, ShareStep
  PROVE  DriftInv'
<1> DEFINE s == "filesop"
<1>p. s \in Programs /\ s # "sharefiles" /\ me = loc[s] /\ loc[s] \in Locals
  BY DEF Programs, me, TypeOK, ControlTypeOK
<1>1. /\ pc[s] \in ShareLabels /\ UNCHANGED file_info /\ (Fault \/ NoFault)
  BY DEF ShareStep, ShareZexit, ShareSelect, ShareReadd, ShareStatus, ShareInsert,
         ShareSelectCount, SelectCountToAdd, ShareSetCount, ShareZadd, ShareHset,
         FilesOpFails, ShareLabels, mysql
<1>2. /\ \A l \in ShareLabels : l # "idle" /\ l \notin OwingLabels \cup BetweenLabels
      /\ \A l \in ShareLabels : l \notin AddingLabels \cup BetweenLabels \cup KnownLabels
  BY DEF ShareLabels, OwingLabels, BetweenLabels, CountLabels, AddingLabels, KnownLabels
<1>3. \/ UNCHANGED user_file_list
      \/ user_file_list' = UpdateWhere(user_file_list, me.key, 1)
  BY DEF ShareStep, ShareZexit, ShareSelect, ShareReadd, ShareStatus, ShareInsert,
         ShareSelectCount, SelectCountToAdd, ShareSetCount, ShareZadd, ShareHset, mysql
<1>4. \A j \in FileKey : Len(user_file_list'[j]) = Len(user_file_list[j])
  <2>1. me.key \in FileKey
    BY <1>p, <1>1, <1>2, AtWork DEF TypeOK
  <2> QED
    BY <1>3, <2>1, StatusSet DEF TypeOK, TablesTypeOK
<1>5. \A u \in Users : CountedFiles(u)' = CountedFiles(u)
  <2>1. PICK n \in Int : n = me.count + 1
    BY <1>p DEF Locals
  <2>2. \/ user_file_count' = UpdateWhere(user_file_count, ShareUser, n)
        \/ user_file_count' = Insert(user_file_count, ShareUser, 1)
        \/ UNCHANGED user_file_count
    BY <2>1 DEF ShareStep, ShareZexit, ShareSelect, ShareReadd, ShareStatus, ShareInsert,
                ShareSelectCount, SelectCountToAdd, ShareSetCount, AddToCount, ShareZadd,
                ShareHset, mysql, me
  <2> QED
    BY <2>2, SharesApart
<1>6. \/ \E c : Finish(s, c) /\ UNCHANGED user_file_list
      \/ \E l \in ShareLabels : \E v : Goto(s, l, v) /\ v.key = loc[s].key
  <2>1. CASE ShareSelectCount
    <3>1. SelectCountToAdd(s, ShareUser, "sh_selcount", "sh_count")
      BY <2>1 DEF ShareSelectCount
    <3>2. \E v : Goto(s, "sh_count", v) /\ v.key = loc[s].key
      BY <1>p, <3>1, SelectsCount DEF TypeOK
    <3> QED
      BY <3>2 DEF ShareLabels
  <2>2. CASE \/ ShareZexit \/ ShareSelect \/ ShareReadd \/ ShareStatus \/ ShareInsert
             \/ ShareSetCount \/ ShareZadd \/ ShareHset
    <3>1. \/ \E c : Finish(s, c) /\ UNCHANGED user_file_list
          \/ \E l \in ShareLabels : Goto(s, l, loc[s])
      BY <2>2, <1>p DEF ShareZexit, ShareSelect, ShareReadd, ShareStatus, ShareInsert,
                        ShareSetCount, ShareZadd, ShareHset, FilesOpFails, ShareLabels, mysql
    <3> QED
      BY <3>1
  <2> QED
    BY <2>1, <2>2 DEF ShareStep
<1> HIDE DEF s
<1>7. pc[s] # "idle" /\ pc[s] \notin OwingLabels \cup BetweenLabels
  BY <1>1, <1>2
<1>8. \/ \E c : Finish(s, c) /\ UNCHANGED user_file_list
      \/ \E l, v : /\ Goto(s, l, v) /\ v.key = loc[s].key
                   /\ l \notin AddingLabels \cup BetweenLabels \cup KnownLabels
  BY <1>2, <1>6
<1> QED
  BY <1>p, <1>1, <1>4, <1>5, <1>7, <1>8, AsideDrift

LEMMA PvCancelDrift ==
  ASSUME TypeOK, TypeOK', SerialInv, DriftInv, PvStep \/ CancelStep
  PROVE  DriftInv'
<1> DEFINE s == "sharefilesop"
           Here == PvLabels \cup CancelLabels
<1>p. s \in Programs /\ s # "sharefiles" /\ op = loc[s] /\ loc[s] \in Locals
  BY DEF Programs, op, TypeOK, ControlTypeOK
<1>1. /\ pc[s] \in Here /\ UNCHANGED file_info /\ (Fault \/ NoFault)
  BY DEF PvStep, PvSelect, PvUpdate, PvZexit, PvZincr, PvZadd, PvHset, CancelStep,
         CancelStatus, CancelSelectShares, CancelSetShares, CancelShare, CancelZrem,
         CancelHdel, ShareOpFails, PvLabels, CancelLabels, mysql
<1>2. /\ \A l \in Here : l # "idle" /\ l \notin OwingLabels \cup BetweenLabels
      /\ \A l \in Here : l \notin AddingLabels \cup BetweenLabels \cup KnownLabels
  BY DEF PvLabels, CancelLabels, OwingLabels, BetweenLabels, CountLabels, AddingLabels,
         KnownLabels
<1>3. \/ UNCHANGED user_file_list
      \/ user_file_list' = UpdateWhere(user_file_list, op.key, 0)
  BY DEF PvStep, PvSelect, PvUpdate, PvZexit, PvZincr, PvZadd, PvHset, CancelStep,
         CancelStatus, CancelSelectShares, CancelSetShares, CancelShare, CancelZrem,
         CancelHdel, mysql
<1>4. \A j \in FileKey : Len(user_file_list'[j]) = Len(user_file_list[j])
  <2>1. op.key \in FileKey
    BY <1>p, <1>1, <1>2, AtWork DEF TypeOK
  <2> QED
    BY <1>3, <2>1, StatusSet DEF TypeOK, TablesTypeOK
<1>5. \A u \in Users : CountedFiles(u)' = CountedFiles(u)
  <2>1. PICK n \in Int : n = op.count - 1
    BY <1>p DEF Locals
  <2>2. \/ user_file_count' = UpdateWhere(user_file_count, ShareUser, n)
        \/ user_file_count' = DeleteWhere(user_file_count, ShareUser)
        \/ UNCHANGED user_file_count
    BY <2>1 DEF PvStep, PvSelect, PvUpdate, PvZexit, PvZincr, PvZadd, PvHset, CancelStep,
                CancelStatus, CancelSelectShares, CancelSetShares, CancelShare, CancelZrem,
                CancelHdel, mysql
  <2> QED
    BY <2>2, SharesApart
<1>x. \A n : [loc[s] EXCEPT !.count = n].key = loc[s].key
  BY <1>p DEF Locals
<1>6. \/ \E c : Finish(s, c) /\ UNCHANGED user_file_list
      \/ \E l \in Here : \E v : Goto(s, l, v) /\ v.key = loc[s].key
  <2>1. CASE PvSelect \/ CancelSelectShares
    <3>1. \/ \E c : Finish(s, c) /\ UNCHANGED user_file_list
          \/ \E l \in Here : \E n : Goto(s, l, [loc[s] EXCEPT !.count = n])
      BY <2>1, <1>p DEF PvSelect, CancelSelectShares, ShareOpFails, PvLabels, CancelLabels, mysql
    <3> QED
      BY <1>x, <3>1
  <2>2. CASE \/ PvUpdate \/ PvZexit \/ PvZincr \/ PvZadd \/ PvHset
             \/ CancelStatus \/ CancelSetShares \/ CancelShare \/ CancelZrem \/ CancelHdel
    <3>1. \/ \E c : Finish(s, c) /\ UNCHANGED user_file_list
          \/ \E l \in Here : Goto(s, l, loc[s])
      BY <2>2, <1>p DEF PvUpdate, PvZexit, PvZincr, PvZadd, PvHset, CancelStatus,
                        CancelSetShares, CancelShare, CancelZrem, CancelHdel, ShareOpFails,
                        PvLabels, CancelLabels, mysql
    <3> QED
      BY <3>1
  <2> QED
    BY <2>1, <2>2 DEF PvStep, CancelStep
<1> HIDE DEF s, Here
<1>7. pc[s] # "idle" /\ pc[s] \notin OwingLabels \cup BetweenLabels
  BY <1>1, <1>2
<1>8. \/ \E c : Finish(s, c) /\ UNCHANGED user_file_list
      \/ \E l, v : /\ Goto(s, l, v) /\ v.key = loc[s].key
                   /\ l \notin AddingLabels \cup BetweenLabels \cup KnownLabels
  BY <1>2, <1>6
<1> QED
  BY <1>p, <1>1, <1>4, <1>5, <1>7, <1>8, AsideDrift

------------------------------------------------------------------------------
(* The counters: the whole *)

\* A step that is at most cgi_sharefiles'.
LEMMA ApartDrift ==
  ASSUME TypeOK, TypeOK', SerialInv, DriftInv, UNCHANGED mysql,
         faults' = faults \/ faults' = faults + 1,
         \A q \in Programs : q # "sharefiles" => pc'[q] = pc[q] /\ loc'[q] = loc[q]
  PROVE  DriftInv'
<1>t. UNCHANGED <<file_info, user_file_list, user_file_count>>
  BY DEF mysql
<1>l. /\ \A q \in Programs : pc[q] \in AddingLabels \/ pc[q] \in BetweenLabels => q # "sharefiles"
      /\ \A q \in Programs : pc'[q] \in AddingLabels \/ pc'[q] \in BetweenLabels => q # "sharefiles"
  <2>1. /\ pc["sharefiles"] \in {"idle"} \cup ShareListLabels
        /\ pc'["sharefiles"] \in {"idle"} \cup ShareListLabels
    BY LabelFacts DEF TypeOK, ControlTypeOK
  <2>2. \A l \in {"idle"} \cup ShareListLabels : l \notin AddingLabels /\ l \notin BetweenLabels
    BY DEF ShareListLabels, AddingLabels, BetweenLabels, CountLabels
  <2> QED
    BY <2>1, <2>2
<1>1. \A S : Doubling(S)' => Doubling(S)
  <2> SUFFICES ASSUME NEW S, NEW q \in Programs, pc'[q] \in AddingLabels, loc'[q].key \in S,
                      Listed(loc[q].key)'
               PROVE  Doubling(S)
    BY DEF Doubling
  <2>1. pc'[q] = pc[q] /\ loc'[q] = loc[q]
    BY <1>l
  <2>2. Listed(loc[q].key)
    BY <1>t, <2>1 DEF Listed, HasRow
  <2> QED
    BY <2>1, <2>2 DEF Doubling
<1>2. \A S : Between(S)' => Between(S)
  BY <1>l DEF Between
<1>3. \A S : Counting(S) => Counting(S)'
  BY <1>l DEF Counting
<1>4. \A m \in Md5s : Owed(m) => Owed(m)'
  BY LabelFacts DEF Owed, me, op
<1>5. /\ \A m \in Md5s : CountedReferences(m)' = CountedReferences(m)
      /\ \A u \in Users : CountedFiles(u)' = CountedFiles(u)
      /\ Moved(NoKey, 0, 0)
  BY <1>t, SameReferences, FilesSame, SameMoved
<1>6. (\A m \in Md5s : ReferencesBound(m)') /\ (\A u \in Users : FilesBound(u)')
  BY <1>1, <1>2, <1>3, <1>4, <1>5, BoundsKept
<1>7. CountsKnown'
  <2>1. \A a : /\ CountedFiles(a)' = CountedFiles(a)
               /\ HasRow(user_file_count, a)' <=> HasRow(user_file_count, a)
    BY <1>t, FilesSame DEF HasRow
  <2>2. ASSUME NEW q \in Programs, pc'[q] \in CountLabels
        PROVE  CountKnown(q, loc[q].key.user)'
    <3>1. pc[q] \in CountLabels /\ loc'[q] = loc[q]
      BY <1>l, <2>2 DEF BetweenLabels
    <3>2. CountKnown(q, loc[q].key.user)
      BY <3>1 DEF DriftInv, CountsKnown
    <3> QED
      BY <1>t, <3>1, <3>2 DEF CountKnown, CountedFiles, HasRow, FirstRow
  <2>3. (pc["upload"] = "up_list" => ~Listed(loc["upload"].key))'
    BY <1>t, LabelFacts DEF DriftInv, CountsKnown, Listed, HasRow
  <2>4. (pc["filesop"] = "del_count" =>
           HasRow(user_file_count, me.key.user) /\ me.count = CountedFiles(me.key.user))'
    BY <1>t, LabelFacts DEF DriftInv, CountsKnown, CountedFiles, HasRow, FirstRow, me
  <2> QED
    BY <2>2, <2>3, <2>4 DEF CountsKnown
<1> QED
  BY <1>6, <1>7 DEF DriftInv

\* A request comes when nobody is at work, and its first call is not about the
\* counters.
LEMMA RequestDrift ==
  ASSUME TypeOK, TypeOK', SerialInv, DriftInv, Serial, Request
  PROVE  DriftInv'
<1> DEFINE First == {"up_recv", "md5_info", "del_zexit", "sh_zexit", "pv_select",
                     "ca_status", "sv_list", "ls_count", "ls_normal", "rk_select"}
<1>1. PICK p \in Programs, k \in FileKey \cup {NoKey}, l \in First : Accept(p, k, l)
  BY AcceptedRequest
<1>t. UNCHANGED <<file_info, user_file_list, user_file_count>> /\ faults' = faults
  BY <1>1, AcceptedRequest DEF mysql, Accept
<1>2. \A q \in Programs : pc[q] = "idle" /\ pc'[q] \in First \cup {"idle"}
  <2>1. pc' = [pc EXCEPT ![p] = l] /\ \A q \in Programs : pc[q] = "idle"
    BY <1>1 DEF Accept
  <2> QED
    BY <2>1 DEF TypeOK, ControlTypeOK
<1>3. \A j \in First \cup {"idle"} : j \notin AddingLabels /\ j \notin BetweenLabels /\ j \notin KnownLabels
  BY DEF AddingLabels, BetweenLabels, CountLabels, KnownLabels
<1>4. "idle" \notin BetweenLabels
  BY DEF BetweenLabels, CountLabels
<1> HIDE DEF First
<1>5. \A S : ~Doubling(S)' /\ ~Between(S)' /\ ~Counting(S)
  BY <1>2, <1>3, <1>4 DEF Doubling, Between, Counting
<1>6. \A m \in Md5s : ~Owed(m)
  BY <1>2, LabelFacts DEF Owed
<1>7. /\ \A m \in Md5s : CountedReferences(m)' = CountedReferences(m)
      /\ \A u \in Users : CountedFiles(u)' = CountedFiles(u)
      /\ Moved(NoKey, 0, 0)
  BY <1>t, SameReferences, FilesSame, SameMoved
<1>8. (\A m \in Md5s : ReferencesBound(m)') /\ (\A u \in Users : FilesBound(u)')
  BY <1>t, <1>5, <1>6, <1>7, BoundsKept
<1>9. CountsKnown'
  BY <1>2, <1>3, LabelFacts DEF CountsKnown, KnownLabels
<1> QED
  BY <1>8, <1>9 DEF DriftInv

LEMMA CrashDrift ==
  ASSUME TypeOK, TypeOK', SerialInv, DriftInv, NEW p \in Programs, Crash(p)
  PROVE  DriftInv'
<1>1. /\ faults' = faults + 1 /\ UNCHANGED mysql /\ pc[p] # "idle"
      /\ pc' = [pc EXCEPT ![p] = "idle"] /\ loc' = [loc EXCEPT ![p] = Blank]
  BY DEF Crash, Fault
<1>2. CASE p = "sharefiles"
  <2>1. \A q \in Programs : q # "sharefiles" => pc'[q] = pc[q] /\ loc'[q] = loc[q]
    BY <1>1, <1>2 DEF TypeOK, ControlTypeOK
  <2> QED
    BY <1>1, <2>1, ApartDrift
<1>3. CASE p # "sharefiles"
  BY <1>1, <1>3, EndedDrift, FilesSame DEF mysql
<1> QED
  BY <1>2, <1>3

LEMMA NextDrift ==
  Waiting /\ TypeOK /\ TypeOK' /\ SerialInv /\ DriftInv /\ [Next]_vars => DriftInv'
<1> SUFFICES ASSUME Waiting, TypeOK, TypeOK', SerialInv, DriftInv, [Next]_vars PROVE DriftInv'
  OBVIOUS
<1>1. CASE Request
  BY <1>1, RequestDrift DEF Waiting
<1>2. CASE UploadStep \/ Md5Step \/ FilesOpStep \/ ShareOpStep
  BY <1>2, UploadDrift, Md5Drift, DelDrift, ShareDrift, PvCancelDrift, SaveDrift
     DEF FilesOpStep, ShareOpStep
<1>3. CASE ShareListStep
  <2>1. /\ UNCHANGED mysql
        /\ \A q \in Programs : q # "sharefiles" => pc'[q] = pc[q] /\ loc'[q] = loc[q]
    BY <1>3, ShareListFacts DEF TypeOK
  <2> QED
    BY <2>1, FaultsGrow, ApartDrift
<1>4. CASE \E p \in Programs : Crash(p)
  BY <1>4, CrashDrift
<1>5. CASE UNCHANGED vars
  BY <1>5, ApartDrift DEF vars
<1> QED
  BY <1>1, <1>2, <1>3, <1>4, <1>5 DEF Next, Done

LEMMA InitDrift == Init => DriftInv
<1> SUFFICES ASSUME Init PROVE DriftInv
  OBVIOUS
<1>1. \A p \in Programs : pc[p] = "idle"
  BY DEF Init
<1>2. \A S : ~Doubling(S) /\ ~Between(S)
  BY <1>1 DEF Doubling, Between, AddingLabels, BetweenLabels, CountLabels
<1>3. \A S \in SUBSET FileKey : RowsOf(user_file_list, S) = {} /\ ListedAmong(S) = {}
  <2> SUFFICES ASSUME NEW S \in SUBSET FileKey
               PROVE  RowsOf(user_file_list, S) = {} /\ ListedAmong(S) = {}
    OBVIOUS
  <2>1. \A k \in FileKey : Len(user_file_list[k]) = 0 /\ ~Listed(k)
    BY DEF Init, Listed, HasRow
  <2>2. \A k \in FileKey : 1..Len(user_file_list[k]) = {}
    BY <2>1
  <2>3. \A e : e \notin RowsOf(user_file_list, S)
    BY <2>2, RowFacts
  <2> QED
    BY <2>1, <2>3 DEF ListedAmong
<1>4. IsFiniteSet({}) /\ Cardinality({}) = 0 /\ faults = 0
  BY FS_EmptySet DEF Init
<1>5. ASSUME NEW m \in Md5s PROVE ReferencesBound(m)
  <2>1. CountedReferences(m) = 0
    BY DEF Init, CountedReferences, HasRow
  <2>2. ContentKeys(m) \in SUBSET FileKey /\ One(Owed(m)) \in {0, 1}
    BY DEF ContentKeys, One
  <2> QED
    BY <1>2, <1>3, <1>4, <2>1, <2>2 DEF ReferencesBound, One
<1>6. ASSUME NEW u \in Users PROVE FilesBound(u)
  <2>1. CountedFiles(u) = 0
    BY DEF Init, CountedFiles, HasRow, Accounts
  <2>2. UserKeys(u) \in SUBSET FileKey /\ One(Counting(UserKeys(u))) \in {0, 1}
    BY DEF UserKeys, One
  <2>3. RowsOf(user_file_list, UserKeys(u)) = {} /\ ListedAmong(UserKeys(u)) = {}
    BY <1>3, <2>2
  <2>4. One(Between(UserKeys(u))) = 0 /\ One(Doubling(UserKeys(u))) = 0
    BY <1>2 DEF One
  <2> QED
    BY <1>4, <2>1, <2>2, <2>3, <2>4 DEF FilesBound, FilesOf, EntriesOf
<1>7. CountsKnown
  BY <1>1 DEF CountsKnown, CountLabels, Programs
<1> QED
  BY <1>5, <1>6, <1>7 DEF DriftInv

\* Between requests nothing is owed, so that the counters are off by what has
\* failed: the references of a content cover its entries and exceed its files,
\* which are no more than the entries, by the failures.
LEMMA DriftMeans ==
  ASSUME TypeOK, SerialInv, DriftInv
  PROVE  ReferencesDrift /\ UserCountDrift
<1> SUFFICES ASSUME Quiet
             PROVE  /\ \A m \in Md5s : Distance(CountedReferences(m), ReferencesTo(m)) <= faults
                    /\ \A u \in Users : Distance(CountedFiles(u), FilesOf(u)) <= faults
  BY DEF ReferencesDrift, UserCountDrift
<1>1. \A p \in Programs : pc[p] = "idle"
  BY DEF Quiet
<1>2. \A S : ~Doubling(S) /\ ~Between(S) /\ ~Counting(S)
  BY <1>1 DEF Doubling, Between, Counting, AddingLabels, BetweenLabels, CountLabels
<1>3. \A m : ~Owed(m)
  BY <1>1 DEF Owed, Programs
<1>4. user_file_list \in [FileKey -> Seq({0, 1})] /\ faults \in Nat
  BY ConstantsAssumption DEF TypeOK, TablesTypeOK, ControlTypeOK
<1>5. ASSUME NEW m \in Md5s PROVE Distance(CountedReferences(m), ReferencesTo(m)) <= faults
  <2>1. /\ Cardinality(ListedAmong(ContentKeys(m))) \in Nat
        /\ ReferencesTo(m) \in Nat /\ CountedReferences(m) \in Int
        /\ Cardinality(ListedAmong(ContentKeys(m))) <= ReferencesTo(m)
    BY <1>4, BoundFacts, ListedFinite DEF ReferencesTo, Entries
  <2>2. One(Doubling(ContentKeys(m))) = 0 /\ One(Owed(m)) = 0
    BY <1>2, <1>3 DEF One
  <2>3. CountedReferences(m) <= Cardinality(ListedAmong(ContentKeys(m))) + faults
    BY <1>4, <2>1, <2>2 DEF DriftInv, ReferencesBound
  <2>4. ReferencesTo(m) <= CountedReferences(m)
    BY <1>3, <2>1 DEF SerialInv, Covered, ReferencesTo
  <2> QED
    BY <1>4, <2>1, <2>3, <2>4 DEF Distance
<1>6. ASSUME NEW u \in Users PROVE Distance(CountedFiles(u), FilesOf(u)) <= faults
  <2>1. /\ Cardinality(ListedAmong(UserKeys(u))) \in Nat
        /\ FilesOf(u) \in Nat /\ CountedFiles(u) \in Int
        /\ Cardinality(ListedAmong(UserKeys(u))) <= FilesOf(u)
    BY <1>4, BoundFacts, ListedFinite DEF FilesOf, EntriesOf
  <2>2. /\ One(Doubling(UserKeys(u))) = 0 /\ One(Between(UserKeys(u))) = 0
        /\ One(Counting(UserKeys(u))) = 0
    BY <1>2 DEF One
  <2>3. /\ CountedFiles(u) <= Cardinality(ListedAmong(UserKeys(u))) + faults
        /\ FilesOf(u) <= CountedFiles(u) + faults
    BY <1>4, <2>1, <2>2 DEF DriftInv, FilesBound
  <2> QED
    BY <1>4, <2>1, <2>3 DEF Distance
<1> QED
  BY <1>5, <1>6

------------------------------------------------------------------------------
(* The counters: the shared files, as long as nothing fails *)

\* Where share_file, del_file and cancel_share_file are about the number of
\* shared files.
SharesLabels == {"sh_status", "sh_insert", "sh_selcount", "sh_count", "del_selshares",
                 "del_shares", "ca_shares", "ca_share"}
SharesAside == pc["filesop"] \notin SharesLabels /\ pc["sharefilesop"] \notin SharesLabels
SharedOnce == \A k \in FileKey : Len(share_file_list[k]) <= 1

\* What the invariant says when no program is there.
LEMMA SharesBefore ==
  ASSUME TypeOK, SharesInv, faults = 0
  PROVE  /\ CountedFiles(ShareUser) \in Int /\ ShareRows \in Nat
         /\ IsFiniteSet(ShareEntries) /\ SharedOnce
         /\ pc["filesop"] \notin {"del_selshares", "del_shares"} =>
              CountedFiles(ShareUser) <= ShareRows
<1>1. CountedFiles(ShareUser) \in Int
  BY FilesType DEF TypeOK, TablesTypeOK, Accounts
<1>2. IsFiniteSet(ShareEntries) /\ SharedOnce
  BY DEF SharesInv, SharedOnce
<1>3. ShareRows \in Nat
  BY <1>2, FS_CardinalityType DEF ShareRows
<1>4. ASSUME pc["filesop"] \notin {"del_selshares", "del_shares"}
      PROVE  CountedFiles(ShareUser) <= ShareRows
  BY <1>1, <1>3, <1>4 DEF SharesInv, One
<1> QED
  BY <1>1, <1>2, <1>3, <1>4

LEMMA SharesAfter ==
  ASSUME TypeOK', IsFiniteSet(ShareEntries'), SharedOnce', SharesAside',
         CountedFiles(ShareUser)' <= ShareRows'
  PROVE  SharesInv'
<1>1. CountedFiles(ShareUser)' \in Int
  BY DEF TypeOK, TablesTypeOK, Accounts, CountedFiles, HasRow, FirstRow
<1>2. ShareRows' \in Nat
  BY FS_CardinalityType DEF ShareRows
<1>3. /\ One(pc["filesop"] \in {"sh_selcount", "sh_count"} \/ pc["sharefilesop"] = "ca_share")' = 0
      /\ One(pc["filesop"] \in {"del_selshares", "del_shares"})' = 0
  BY DEF SharesAside, SharesLabels, One
<1> QED
  BY <1>1, <1>2, <1>3 DEF SharesInv, SharesAside, SharesLabels, SharedOnce

\* The rows of share_file_list, when their number stays or one is deleted.
LEMMA ShareRowsSame ==
  ASSUME \A k \in FileKey : Len(share_file_list'[k]) = Len(share_file_list[k])
  PROVE  /\ ShareEntries' = ShareEntries /\ ShareRows' = ShareRows
         /\ SharedOnce => SharedOnce'
  BY RowsSame DEF ShareEntries, ShareRows, SharedOnce

LEMMA ShareRowDeleted ==
  ASSUME TypeOK, IsFiniteSet(ShareEntries), SharedOnce, NEW k \in FileKey,
         share_file_list' = DeleteWhere(share_file_list, k)
  PROVE  /\ IsFiniteSet(ShareEntries') /\ SharedOnce'
         /\ ShareRows \in Nat /\ ShareRows' \in Nat /\ ShareRows <= ShareRows' + 1
<1> DEFINE R == Int
<1>1. share_file_list \in [FileKey -> Seq(R)] /\ FileKey \in SUBSET FileKey
  BY DEF TypeOK, TablesTypeOK
<1> HIDE DEF R
<1>2. Len(share_file_list[k]) <= 1
  BY DEF SharedOnce
<1>3. /\ IsFiniteSet(RowsOf(DeleteWhere(share_file_list, k), FileKey))
      /\ Cardinality(RowsOf(share_file_list, FileKey))
           <= Cardinality(RowsOf(DeleteWhere(share_file_list, k), FileKey)) + 1
  BY <1>1, <1>2, RowsDeleted DEF ShareEntries
<1>4. SharedOnce'
  <2>1. /\ Len(DeleteWhere(share_file_list, k)[k]) = 0
        /\ \A j \in FileKey : j # k => DeleteWhere(share_file_list, k)[j] = share_file_list[j]
    BY <1>1, DeleteFacts
  <2> QED
    BY <2>1 DEF SharedOnce
<1> QED
  BY <1>3, <1>4, FS_CardinalityType DEF ShareEntries, ShareRows

\* A step that is not about the shared files.
LEMMA SharesPlain ==
  ASSUME TypeOK, TypeOK', SharesInv, faults = 0, SharesAside',
         \A k \in FileKey : Len(share_file_list'[k]) = Len(share_file_list[k]),
         CountedFiles(ShareUser)' = CountedFiles(ShareUser),
         pc["filesop"] \notin {"del_selshares", "del_shares"}
  PROVE  SharesInv'
  BY SharesBefore, ShareRowsSame, SharesAfter

\* A program at work that is not cgi_filesop, and is not about the shared files.
LEMMA OtherShares ==
  ASSUME TypeOK, TypeOK', SerialInv, SharesInv, faults = 0,
         NEW p \in Programs, p # "filesop", pc[p] # "idle",
         pc'["filesop"] = pc["filesop"],
         pc'["sharefilesop"] \notin CancelLabels \/ p # "sharefilesop",
         p # "sharefilesop" => pc'["sharefilesop"] = pc["sharefilesop"],
         UNCHANGED share_file_list, user_file_count'[ShareUser] = user_file_count[ShareUser]
  PROVE  SharesInv'
<1>1. \A q \in Programs : q # p => pc[q] = "idle"
  BY OthersIdle DEF SerialInv
<1>2. pc["filesop"] = "idle" /\ pc'["filesop"] = "idle"
  BY <1>1 DEF Programs
<1>3. pc'["sharefilesop"] \notin SharesLabels
  <2>1. CASE p = "sharefilesop"
    <3>1. pc'["sharefilesop"] \in {"idle"} \cup ShareOpLabels
      BY LabelFacts DEF TypeOK, ControlTypeOK
    <3> QED
      BY <2>1, <3>1 DEF ShareOpLabels, CancelLabels, SharesLabels
  <2>2. CASE p # "sharefilesop"
    BY <1>1, <2>2 DEF Programs, SharesLabels
  <2> QED
    BY <2>1, <2>2
<1>4. SharesAside'
  BY <1>2, <1>3 DEF SharesAside, SharesLabels
<1>5. CountedFiles(ShareUser)' = CountedFiles(ShareUser)
  BY DEF CountedFiles, HasRow, FirstRow
<1> QED
  BY <1>2, <1>4, <1>5, SharesPlain

LEMMA UploadShares ==
  ASSUME TypeOK, TypeOK', SerialInv, SharesInv, faults = 0,
         UploadStep \/ Md5Step \/ SaveStep
  PROVE  SharesInv'
<1>1. CASE UploadStep
  <2>1. pc["upload"] # "idle"
    BY <1>1 DEF UploadStep, UploadRecv, UploadDstorage, UploadUrl, UploadInsertInfo,
                UploadInsertList, UploadSelectCount, UploadSetCount, SelectCountToAdd
  <2> QED
    BY <1>1, <2>1, UploadApart, OtherShares DEF Apart, SharesKept, Programs
<1>2. CASE Md5Step
  <2>1. pc["md5"] # "idle"
    BY <1>2 DEF Md5Step, Md5SelectInfo, Md5SelectList, Md5AddReference, Md5InsertList,
                Md5SelectCount, Md5SetCount, SelectCountToAdd
  <2> QED
    BY <1>2, <2>1, Md5Apart, OtherShares DEF Apart, SharesKept, Programs
<1>3. CASE SaveStep
  <2>1. pc["sharefilesop"] # "idle"
    BY <1>3 DEF SaveStep, SaveSelectList, SaveSelectReference, SaveAddReference, SaveInsertList,
                SaveSelectCount, SelectCountToAdd, SaveSetCount
  <2> QED
    BY <1>3, <2>1, SaveApart, OtherShares DEF Apart, SharesKept, Programs
<1> QED
  BY <1>1, <1>2, <1>3

\* cgi_filesop or cgi_sharefilesop goes on or ends without being about the shared
\* files.
LEMMA FilesOpShares ==
  ASSUME TypeOK, TypeOK', SerialInv, SharesInv, faults = 0, pc["filesop"] # "idle",
         pc["filesop"] \notin {"del_selshares", "del_shares"},
         \A k \in FileKey : Len(share_file_list'[k]) = Len(share_file_list[k]),
         CountedFiles(ShareUser)' = CountedFiles(ShareUser),
         \/ \E l, v : Goto("filesop", l, v) /\ l \notin SharesLabels
         \/ \E c : Finish("filesop", c)
  PROVE  SharesInv'
<1>1. pc["sharefilesop"] = "idle"
  BY OthersIdle DEF SerialInv, Programs
<1>2. pc'["filesop"] \notin SharesLabels /\ pc'["sharefilesop"] = pc["sharefilesop"]
  BY GotoFacts, FinishFacts DEF TypeOK, Programs, SharesLabels
<1> QED
  BY <1>1, <1>2, SharesPlain DEF SharesAside, SharesLabels

LEMMA ShareOpShares ==
  ASSUME TypeOK, TypeOK', SerialInv, SharesInv, faults = 0, pc["sharefilesop"] # "idle",
         \A k \in FileKey : Len(share_file_list'[k]) = Len(share_file_list[k]),
         CountedFiles(ShareUser)' = CountedFiles(ShareUser),
         \/ \E l, v : Goto("sharefilesop", l, v) /\ l \notin SharesLabels
         \/ \E c : Finish("sharefilesop", c)
  PROVE  SharesInv'
<1>1. pc["filesop"] = "idle"
  BY OthersIdle DEF SerialInv, Programs
<1>2. pc'["sharefilesop"] \notin SharesLabels /\ pc'["filesop"] = pc["filesop"]
  BY GotoFacts, FinishFacts DEF TypeOK, Programs, SharesLabels
<1> QED
  BY <1>1, <1>2, SharesPlain DEF SharesAside, SharesLabels

\* del_file deletes the row of the file, reads the number of shared files, and
\* writes it: one less.
LEMMA DelShareShares ==
  ASSUME TypeOK, TypeOK', SerialInv, SharesInv, faults = 0, faults' = 0, DelShare
  PROVE  SharesInv'
<1>1. /\ pc["filesop"] = "del_share" /\ Goto("filesop", "del_selshares", me)
      /\ share_file_list' = DeleteWhere(share_file_list, me.key) /\ UNCHANGED user_file_count
  BY DEF DelShare, FilesOpFails, Fault
<1>2. /\ pc["sharefilesop"] = "idle" /\ me.key \in FileKey
  BY <1>1, OthersIdle, AtWork DEF SerialInv, Programs, me, TypeOK
<1>3. pc'["filesop"] = "del_selshares" /\ pc'["sharefilesop"] = "idle"
  BY <1>1, <1>2, GotoFacts DEF TypeOK, Programs
<1>4. /\ CountedFiles(ShareUser) \in Int /\ IsFiniteSet(ShareEntries) /\ SharedOnce
      /\ CountedFiles(ShareUser) <= ShareRows
  BY <1>1, SharesBefore
<1>5. /\ IsFiniteSet(ShareEntries') /\ SharedOnce'
      /\ ShareRows \in Nat /\ ShareRows' \in Nat /\ ShareRows <= ShareRows' + 1
  BY <1>1, <1>2, <1>4, ShareRowDeleted
<1>6. CountedFiles(ShareUser)' = CountedFiles(ShareUser)
  BY <1>1, FilesSame
<1>7. /\ One(pc["filesop"] \in {"sh_selcount", "sh_count"} \/ pc["sharefilesop"] = "ca_share")' = 0
      /\ One(pc["filesop"] \in {"del_selshares", "del_shares"})' = 1
  BY <1>3 DEF One
<1>8. CountedFiles(ShareUser)' + 0 <= ShareRows' + 1
  <2>1. \A c \in Int : \A r, s \in Nat : c <= r /\ r <= s + 1 => c + 0 <= s + 1
    OBVIOUS
  <2> QED
    BY <1>4, <1>5, <1>6, <2>1, Zenon
<1> QED
  BY <1>3, <1>5, <1>7, <1>8 DEF SharesInv, SharedOnce

LEMMA DelSelectSharesShares ==
  ASSUME TypeOK, TypeOK', SerialInv, SharesInv, faults = 0, faults' = 0, DelSelectShares
  PROVE  SharesInv'
<1>1. /\ pc["filesop"] = "del_selshares" /\ UNCHANGED <<user_file_count, share_file_list>>
      /\ \/ /\ HasRow(user_file_count, ShareUser)
            /\ Goto("filesop", "del_shares",
                    [me EXCEPT !.count = FirstRow(user_file_count, ShareUser)])
         \/ ~HasRow(user_file_count, ShareUser) /\ Finish("filesop", "014")
  BY DEF DelSelectShares, FilesOpFails, Fault, mysql
<1>2. pc["sharefilesop"] = "idle" /\ me \in Locals
  BY <1>1, OthersIdle, AtWork DEF SerialInv, Programs, me, TypeOK
<1>3. ShareEntries' = ShareEntries /\ ShareRows' = ShareRows /\ (SharedOnce => SharedOnce')
  BY <1>1, ShareRowsSame
<1>4. /\ CountedFiles(ShareUser) \in Int /\ ShareRows \in Nat
      /\ IsFiniteSet(ShareEntries) /\ SharedOnce
  BY SharesBefore
<1>5. CountedFiles(ShareUser)' = CountedFiles(ShareUser)
  BY <1>1, FilesSame
<1>6. CASE HasRow(user_file_count, ShareUser)
  <2> DEFINE n == FirstRow(user_file_count, ShareUser)
  <2>1. n = CountedFiles(ShareUser)
    BY <1>6 DEF CountedFiles
  <2>2. /\ pc'["filesop"] = "del_shares" /\ me' = [me EXCEPT !.count = n]
        /\ pc'["sharefilesop"] = "idle"
    BY <1>1, <1>2, <1>6, GotoFacts DEF TypeOK, Programs, me
  <2>3. me'.count = CountedFiles(ShareUser)' /\ HasRow(user_file_count, ShareUser)'
    BY <1>1, <1>2, <1>5, <1>6, <2>1, <2>2 DEF Locals, HasRow
  <2>4. /\ One(pc["filesop"] \in {"sh_selcount", "sh_count"} \/ pc["sharefilesop"] = "ca_share")' = 0
        /\ One(pc["filesop"] \in {"del_selshares", "del_shares"})' = 1
    BY <2>2 DEF One
  <2>5. CountedFiles(ShareUser) + 0 <= ShareRows + 1
    BY <1>1, <1>2, <1>4 DEF SharesInv, One
  <2> HIDE DEF n
  <2> QED
    BY <1>3, <1>4, <1>5, <2>2, <2>3, <2>4, <2>5 DEF SharesInv, SharedOnce
<1>7. CASE ~HasRow(user_file_count, ShareUser)
  <2>1. SharesAside'
    BY <1>1, <1>2, <1>7, FinishFacts DEF TypeOK, Programs, SharesAside, SharesLabels
  <2>2. CountedFiles(ShareUser) = 0
    BY <1>7 DEF CountedFiles
  <2>3. CountedFiles(ShareUser)' <= ShareRows'
    BY <1>3, <1>4, <1>5, <2>2
  <2> QED
    BY <1>3, <1>4, <2>1, <2>3, SharesAfter
<1> QED
  BY <1>6, <1>7

LEMMA DelSetSharesShares ==
  ASSUME TypeOK, TypeOK', SerialInv, SharesInv, faults = 0, faults' = 0, DelSetShares
  PROVE  SharesInv'
<1>1. /\ pc["filesop"] = "del_shares" /\ UNCHANGED share_file_list
      /\ user_file_count' = UpdateWhere(user_file_count, ShareUser, me.count - 1)
      /\ Goto("filesop", IF me.flag = 1 THEN "del_zrem" ELSE "del_selcount", me)
  BY DEF DelSetShares, FilesOpFails, Fault
<1>2. pc["sharefilesop"] = "idle" /\ me \in Locals
  BY <1>1, OthersIdle, AtWork DEF SerialInv, Programs, me, TypeOK
<1>3. ShareEntries' = ShareEntries /\ ShareRows' = ShareRows /\ (SharedOnce => SharedOnce')
  BY <1>1, ShareRowsSame
<1>4. /\ CountedFiles(ShareUser) \in Int /\ ShareRows \in Nat
      /\ IsFiniteSet(ShareEntries) /\ SharedOnce
  BY SharesBefore
<1>5. HasRow(user_file_count, ShareUser) /\ me.count = CountedFiles(ShareUser)
  BY <1>1 DEF SharesInv
<1>6. CountedFiles(ShareUser)' = CountedFiles(ShareUser) - 1
  <2>1. me.count - 1 \in Int /\ ShareUser \in Accounts
    BY <1>2 DEF Locals, Accounts
  <2> QED
    BY <1>1, <1>5, <2>1, FilesSet DEF TypeOK, TablesTypeOK
<1>7. CountedFiles(ShareUser) <= ShareRows + 1
  BY <1>1, <1>2, <1>4 DEF SharesInv, One
<1>8. SharesAside'
  BY <1>1, <1>2, GotoFacts DEF TypeOK, Programs, SharesAside, SharesLabels
<1>9. CountedFiles(ShareUser)' <= ShareRows'
  BY <1>3, <1>4, <1>6, <1>7
<1> QED
  BY <1>3, <1>4, <1>8, <1>9, SharesAfter

LEMMA DelSharesCounted ==
  ASSUME TypeOK, TypeOK', SerialInv, SharesInv, faults = 0, faults' = 0, DelStep
  PROVE  SharesInv'
<1>1. CASE DelShare \/ DelSelectShares \/ DelSetShares
  BY <1>1, DelShareShares, DelSelectSharesShares, DelSetSharesShares
<1>2. CASE \/ DelZexit \/ DelStatus \/ DelZrem \/ DelHdel \/ DelSelectCount \/ DelSetCount
           \/ DelList \/ DelSelectReference \/ DelSetReference \/ DelSelectId \/ DelInfo
           \/ DelRemove
  <2>1. /\ pc["filesop"] # "idle" /\ pc["filesop"] \notin {"del_selshares", "del_shares"}
        /\ UNCHANGED share_file_list
    BY <1>2 DEF DelZexit, DelStatus, DelZrem, DelHdel, DelSelectCount, DelSetCount, DelList,
                DelSelectReference, DelSetReference, DelSelectId, DelInfo, DelRemove, mysql
  <2>2. CountedFiles(ShareUser)' = CountedFiles(ShareUser)
    <3>1. CASE UNCHANGED user_file_count
      BY <3>1, FilesSame
    <3>2. CASE ~UNCHANGED user_file_count
      <4>1. /\ me.key.user \in Users /\ me.count \in Int
            /\ \/ user_file_count' = DeleteWhere(user_file_count, me.key.user)
               \/ user_file_count' = UpdateWhere(user_file_count, me.key.user, me.count - 1)
        BY <1>2, <2>1, <3>2, AtWork
           DEF DelZexit, DelStatus, DelZrem, DelHdel, DelSelectCount, DelSetCount, DelList,
               DelSelectReference, DelSetReference, DelSelectId, DelInfo, DelRemove, mysql,
               TypeOK, me, Programs, Locals
      <4>2. user_file_count \in [Accounts -> Seq(Int)] /\ me.key.user \in Accounts
            /\ ShareUser \in Accounts /\ ShareUser # me.key.user /\ me.count - 1 \in Int
        BY <4>1, ConstantsAssumption DEF TypeOK, TablesTypeOK, Accounts
      <4> QED
        BY <4>1, <4>2, FilesSet, FilesDeleted
    <3> QED
      BY <3>1, <3>2
  <2>3. \/ \E l, v : Goto("filesop", l, v) /\ l \notin SharesLabels
        \/ \E c : Finish("filesop", c)
    BY <1>2 DEF DelZexit, DelStatus, DelZrem, DelHdel, DelSelectCount, DelSetCount, DelList,
                DelSelectReference, DelSetReference, DelSelectId, DelInfo, DelRemove,
                FilesOpFails, SharesLabels
  <2> QED
    BY <2>1, <2>2, <2>3, FilesOpShares
<1> QED
  BY <1>1, <1>2 DEF DelStep

\* share_file shares a file that nobody shares: it inserts the row, reads the
\* number of shared files, and writes it, one more.
LEMMA ShareSelectShares ==
  ASSUME TypeOK, TypeOK', SerialInv, SharesInv, faults = 0, faults' = 0,
         ShareSelect \/ ShareStatus
  PROVE  SharesInv'
<1>1. /\ pc["filesop"] \in {"sh_select", "sh_status"}
      /\ UNCHANGED <<user_file_count, share_file_list>>
  BY DEF ShareSelect, ShareStatus, mysql
<1>2. pc["sharefilesop"] = "idle" /\ me.key \in FileKey
  BY <1>1, OthersIdle, AtWork DEF SerialInv, Programs, me, TypeOK
<1>3. CASE Goto("filesop", "sh_readd", me)
  BY <1>1, <1>3, FilesOpShares, FilesSame DEF SharesLabels
<1>4. CASE ~Goto("filesop", "sh_readd", me)
  <2>1. /\ ~HasRow(share_file_list, me.key)
        /\ \E l \in {"sh_status", "sh_insert"} : Goto("filesop", l, me)
    <3>1. CASE ShareSelect
      BY <1>2, <1>4, <3>1 DEF ShareSelect, SharedByAnyone, Fault
    <3>2. CASE ShareStatus
      BY <3>2 DEF ShareStatus, SharesInv, FilesOpFails, Fault
    <3> QED
      BY <3>1, <3>2
  <2>2. /\ pc'["filesop"] \in {"sh_status", "sh_insert"} /\ me' = me
        /\ pc'["sharefilesop"] = "idle"
    BY <1>2, <2>1, GotoFacts DEF TypeOK, Programs, me
  <2>3. ~HasRow(share_file_list, me.key)'
    BY <1>1, <2>1, <2>2 DEF HasRow
  <2>4. ShareEntries' = ShareEntries /\ ShareRows' = ShareRows /\ (SharedOnce => SharedOnce')
    BY <1>1, ShareRowsSame
  <2>5. /\ CountedFiles(ShareUser) \in Int /\ ShareRows \in Nat
        /\ IsFiniteSet(ShareEntries) /\ SharedOnce /\ CountedFiles(ShareUser) <= ShareRows
    BY <1>1, SharesBefore
  <2>6. CountedFiles(ShareUser)' = CountedFiles(ShareUser)
    BY <1>1, FilesSame
  <2>7. /\ One(pc["filesop"] \in {"sh_selcount", "sh_count"} \/ pc["sharefilesop"] = "ca_share")' = 0
        /\ One(pc["filesop"] \in {"del_selshares", "del_shares"})' = 0
    BY <2>2 DEF One
  <2>8. CountedFiles(ShareUser) + 0 <= ShareRows + 0
    BY <2>5
  <2> QED
    BY <2>2, <2>3, <2>4, <2>5, <2>6, <2>7, <2>8 DEF SharesInv, SharedOnce
<1> QED
  BY <1>3, <1>4

LEMMA ShareInsertShares ==
  ASSUME TypeOK, TypeOK', SerialInv, SharesInv, faults = 0, faults' = 0, ShareInsert
  PROVE  SharesInv'
<1> DEFINE R == Int
<1>1. /\ pc["filesop"] = "sh_insert" /\ Goto("filesop", "sh_selcount", me)
      /\ share_file_list' = Insert(share_file_list, me.key, 0) /\ UNCHANGED user_file_count
  BY DEF ShareInsert, FilesOpFails, Fault
<1>2. pc["sharefilesop"] = "idle" /\ me.key \in FileKey
  BY <1>1, OthersIdle, AtWork DEF SerialInv, Programs, me, TypeOK
<1>3. pc'["filesop"] = "sh_selcount" /\ pc'["sharefilesop"] = "idle"
  BY <1>1, <1>2, GotoFacts DEF TypeOK, Programs
<1>4. /\ CountedFiles(ShareUser) \in Int /\ ShareRows \in Nat
      /\ IsFiniteSet(ShareEntries) /\ SharedOnce /\ CountedFiles(ShareUser) <= ShareRows
  BY <1>1, SharesBefore
<1>5. share_file_list \in [FileKey -> Seq(R)] /\ 0 \in R /\ FileKey \in SUBSET FileKey
  BY DEF TypeOK, TablesTypeOK
<1>6. Len(share_file_list[me.key]) = 0
  BY <1>1 DEF SharesInv, HasRow
<1> HIDE DEF R
<1>7. IsFiniteSet(ShareEntries') /\ ShareRows' = ShareRows + 1
  BY <1>1, <1>2, <1>4, <1>5, RowsGrow DEF ShareEntries, ShareRows
<1>8. SharedOnce'
  <2>1. PICK k \in FileKey : k = me.key
    BY <1>2
  <2>2. /\ Len(Insert(share_file_list, k, 0)[k]) = Len(share_file_list[k]) + 1
        /\ \A j \in FileKey : j # k => Insert(share_file_list, k, 0)[j] = share_file_list[j]
    <3> DEFINE z == 0
    <3>1. z \in R /\ share_file_list \in [FileKey -> Seq(R)]
      BY <1>5
    <3> HIDE DEF z
    <3>2. /\ Len(Insert(share_file_list, k, z)[k]) = Len(share_file_list[k]) + 1
          /\ \A j \in FileKey : j # k => Insert(share_file_list, k, z)[j] = share_file_list[j]
      BY <3>1, InsertFacts
    <3> QED
      BY <3>2 DEF z
  <2>3. Len(share_file_list'[k]) <= 1
    BY <1>1, <1>6, <2>1, <2>2
  <2>4. \A j \in FileKey : j # k => Len(share_file_list'[j]) <= 1
    BY <1>1, <1>4, <2>1, <2>2, Zenon DEF SharedOnce
  <2> QED
    BY <2>3, <2>4, Zenon DEF SharedOnce
<1>9. CountedFiles(ShareUser)' = CountedFiles(ShareUser)
  BY <1>1, FilesSame
<1>10. /\ One(pc["filesop"] \in {"sh_selcount", "sh_count"} \/ pc["sharefilesop"] = "ca_share")' = 1
       /\ One(pc["filesop"] \in {"del_selshares", "del_shares"})' = 0
  BY <1>3 DEF One
<1>11. CountedFiles(ShareUser) + 1 <= (ShareRows + 1) + 0
  BY <1>4
<1> QED
  BY <1>3, <1>7, <1>8, <1>9, <1>10, <1>11 DEF SharesInv, SharedOnce

LEMMA ShareSelectCountShares ==
  ASSUME TypeOK, TypeOK', SerialInv, SharesInv, faults = 0, faults' = 0, ShareSelectCount
  PROVE  SharesInv'
<1>1. /\ pc["filesop"] = "sh_selcount" /\ UNCHANGED <<user_file_count, share_file_list>>
      /\ \/ /\ HasRow(user_file_count, ShareUser)
            /\ Goto("filesop", "sh_count",
                    [me EXCEPT !.sql = "update", !.count = FirstRow(user_file_count, ShareUser)])
         \/ /\ ~HasRow(user_file_count, ShareUser)
            /\ Goto("filesop", "sh_count", [me EXCEPT !.sql = "insert"])
  BY DEF ShareSelectCount, SelectCountToAdd, Fault, mysql, me
<1>2. pc["sharefilesop"] = "idle" /\ me \in Locals
  BY <1>1, OthersIdle, AtWork DEF SerialInv, Programs, me, TypeOK
<1>3. pc'["filesop"] = "sh_count" /\ pc'["sharefilesop"] = "idle"
  BY <1>1, <1>2, GotoFacts DEF TypeOK, Programs
<1>4. CountedFiles(ShareUser)' = CountedFiles(ShareUser)
  BY <1>1, FilesSame
<1>5. CountKnown("filesop", ShareUser)'
  <2>1. CASE HasRow(user_file_count, ShareUser)
    <3>1. PICK n : n = FirstRow(user_file_count, ShareUser)
      OBVIOUS
    <3>2. loc'["filesop"] = [me EXCEPT !.sql = "update", !.count = n]
      BY <1>1, <2>1, <3>1, GotoFacts DEF TypeOK, Programs
    <3>3. loc'["filesop"].sql = "update" /\ loc'["filesop"].count = n
      BY <1>2, <3>2 DEF Locals
    <3>4. n = CountedFiles(ShareUser) /\ HasRow(user_file_count, ShareUser)'
      BY <1>1, <2>1, <3>1 DEF CountedFiles, HasRow
    <3> QED
      BY <1>4, <3>3, <3>4 DEF CountKnown
  <2>2. CASE ~HasRow(user_file_count, ShareUser)
    <3>1. loc'["filesop"] = [me EXCEPT !.sql = "insert"]
      BY <1>1, <2>2, GotoFacts DEF TypeOK, Programs
    <3>2. loc'["filesop"].sql = "insert"
      BY <1>2, <3>1 DEF Locals
    <3>3. ~HasRow(user_file_count, ShareUser)'
      BY <1>1, <2>2 DEF HasRow
    <3> QED
      BY <3>2, <3>3 DEF CountKnown
  <2> QED
    BY <2>1, <2>2
<1>6. ShareEntries' = ShareEntries /\ ShareRows' = ShareRows /\ (SharedOnce => SharedOnce')
  BY <1>1, ShareRowsSame
<1>7. IsFiniteSet(ShareEntries) /\ SharedOnce
  BY SharesBefore
<1>8. /\ One(pc["filesop"] \in {"sh_selcount", "sh_count"} \/ pc["sharefilesop"] = "ca_share")' = 1
      /\ One(pc["filesop"] \in {"del_selshares", "del_shares"})' = 0
  BY <1>3 DEF One
<1>9. CountedFiles(ShareUser) + 1 <= ShareRows + 0
  BY <1>1 DEF SharesInv, One
<1> QED
  BY <1>3, <1>4, <1>5, <1>6, <1>7, <1>8, <1>9 DEF SharesInv, SharedOnce

LEMMA ShareSetCountShares ==
  ASSUME TypeOK, TypeOK', SerialInv, SharesInv, faults = 0, faults' = 0, ShareSetCount
  PROVE  SharesInv'
<1>1. pc["filesop"] = "sh_count" /\ UNCHANGED share_file_list
  BY DEF ShareSetCount
<1>2. CountKnown("filesop", ShareUser) /\ "filesop" \in Programs /\ ShareUser \in Accounts
  BY <1>1 DEF SharesInv, Programs, Accounts
<1>3. ~CountRefused("filesop", ShareUser)
  BY <1>2 DEF CountKnown, CountRefused
<1>4. AddToCount("filesop", ShareUser) /\ Goto("filesop", "sh_zadd", me)
  BY <1>3 DEF ShareSetCount, Fault
<1>5. pc["sharefilesop"] = "idle"
  BY <1>1, OthersIdle DEF SerialInv, Programs
<1>6. SharesAside'
  BY <1>4, <1>5, GotoFacts DEF TypeOK, Programs, SharesAside, SharesLabels
<1>7. CountedFiles(ShareUser)' \in {CountedFiles(ShareUser), CountedFiles(ShareUser) + 1}
  BY <1>2, <1>4, FilesAdded
<1>8. ShareEntries' = ShareEntries /\ ShareRows' = ShareRows /\ (SharedOnce => SharedOnce')
  BY <1>1, ShareRowsSame
<1>9. /\ CountedFiles(ShareUser) \in Int /\ ShareRows \in Nat
      /\ IsFiniteSet(ShareEntries) /\ SharedOnce
  BY SharesBefore
<1>10. CountedFiles(ShareUser) + 1 <= ShareRows
  BY <1>1, <1>9 DEF SharesInv, One
<1>11. CountedFiles(ShareUser)' <= ShareRows'
  BY <1>7, <1>8, <1>9, <1>10
<1> QED
  BY <1>6, <1>8, <1>9, <1>11, SharesAfter

LEMMA ShareSharesCounted ==
  ASSUME TypeOK, TypeOK', SerialInv, SharesInv, faults = 0, faults' = 0, ShareStep
  PROVE  SharesInv'
<1>1. CASE ShareSelect \/ ShareStatus \/ ShareInsert \/ ShareSelectCount \/ ShareSetCount
  BY <1>1, ShareSelectShares, ShareInsertShares, ShareSelectCountShares, ShareSetCountShares
<1>2. CASE ShareZexit \/ ShareReadd \/ ShareZadd \/ ShareHset
  <2>1. /\ pc["filesop"] # "idle" /\ pc["filesop"] \notin {"del_selshares", "del_shares"}
        /\ UNCHANGED <<share_file_list, user_file_count>>
    BY <1>2 DEF ShareZexit, ShareReadd, ShareZadd, ShareHset, mysql
  <2>2. \/ \E l, v : Goto("filesop", l, v) /\ l \notin SharesLabels
        \/ \E c : Finish("filesop", c)
    BY <1>2 DEF ShareZexit, ShareReadd, ShareZadd, ShareHset, FilesOpFails, SharesLabels
  <2> QED
    BY <2>1, <2>2, FilesOpShares, FilesSame
<1> QED
  BY <1>1, <1>2 DEF ShareStep

\* cancel_share_file reads the number of shared files, writes it, one less, and
\* deletes the row.
LEMMA CancelSelectShared ==
  ASSUME TypeOK, TypeOK', SerialInv, SharesInv, faults = 0, faults' = 0, CancelSelectShares
  PROVE  SharesInv'
<1>1. /\ pc["sharefilesop"] = "ca_selshares" /\ UNCHANGED <<user_file_count, share_file_list>>
      /\ \/ /\ HasRow(user_file_count, ShareUser)
            /\ Goto("sharefilesop", "ca_shares",
                    [op EXCEPT !.count = FirstRow(user_file_count, ShareUser)])
         \/ ~HasRow(user_file_count, ShareUser) /\ Finish("sharefilesop", "019")
  BY DEF CancelSelectShares, ShareOpFails, Fault, mysql
<1>2. pc["filesop"] = "idle" /\ op \in Locals
  BY <1>1, OthersIdle, AtWork DEF SerialInv, Programs, op, TypeOK
<1>3. CASE Finish("sharefilesop", "019")
  BY <1>1, <1>3, ShareOpShares, FilesSame
<1>4. CASE ~Finish("sharefilesop", "019")
  <2>1. PICK n : n = FirstRow(user_file_count, ShareUser)
    OBVIOUS
  <2>2. /\ pc'["sharefilesop"] = "ca_shares" /\ op' = [op EXCEPT !.count = n]
        /\ pc'["filesop"] = "idle" /\ HasRow(user_file_count, ShareUser)
    BY <1>1, <1>2, <1>4, <2>1, GotoFacts DEF TypeOK, Programs, op
  <2>3. CountedFiles(ShareUser)' = CountedFiles(ShareUser)
    BY <1>1, FilesSame
  <2>4. op'.count = CountedFiles(ShareUser)' /\ HasRow(user_file_count, ShareUser)'
    <3>1. n = CountedFiles(ShareUser) /\ op'.count = n
      BY <1>2, <2>1, <2>2 DEF CountedFiles, Locals
    <3> QED
      BY <1>1, <2>2, <2>3, <3>1 DEF HasRow
  <2>5. ShareEntries' = ShareEntries /\ ShareRows' = ShareRows /\ (SharedOnce => SharedOnce')
    BY <1>1, ShareRowsSame
  <2>6. /\ CountedFiles(ShareUser) \in Int /\ ShareRows \in Nat
        /\ IsFiniteSet(ShareEntries) /\ SharedOnce /\ CountedFiles(ShareUser) <= ShareRows
    BY <1>2, SharesBefore
  <2>7. /\ One(pc["filesop"] \in {"sh_selcount", "sh_count"} \/ pc["sharefilesop"] = "ca_share")' = 0
        /\ One(pc["filesop"] \in {"del_selshares", "del_shares"})' = 0
    BY <2>2 DEF One
  <2>8. CountedFiles(ShareUser) + 0 <= ShareRows + 0
    BY <2>6
  <2> QED
    BY <2>2, <2>3, <2>4, <2>5, <2>6, <2>7, <2>8 DEF SharesInv, SharedOnce
<1> QED
  BY <1>3, <1>4

LEMMA CancelSetShared ==
  ASSUME TypeOK, TypeOK', SerialInv, SharesInv, faults = 0, faults' = 0, CancelSetShares
  PROVE  SharesInv'
<1>1. /\ pc["sharefilesop"] = "ca_shares" /\ UNCHANGED share_file_list
      /\ user_file_count' = IF op.count = 1
                            THEN DeleteWhere(user_file_count, ShareUser)
                            ELSE UpdateWhere(user_file_count, ShareUser, op.count - 1)
      /\ Goto("sharefilesop", "ca_share", op)
  BY DEF CancelSetShares, ShareOpFails, Fault
<1>2. pc["filesop"] = "idle" /\ op \in Locals
  BY <1>1, OthersIdle, AtWork DEF SerialInv, Programs, op, TypeOK
<1>3. pc'["sharefilesop"] = "ca_share" /\ pc'["filesop"] = "idle"
  BY <1>1, <1>2, GotoFacts DEF TypeOK, Programs
<1>4. HasRow(user_file_count, ShareUser) /\ op.count = CountedFiles(ShareUser)
  BY <1>1 DEF SharesInv
<1>5. CountedFiles(ShareUser)' = CountedFiles(ShareUser) - 1
  <2>1. op.count - 1 \in Int /\ ShareUser \in Accounts
    BY <1>2 DEF Locals, Accounts
  <2>2. CASE op.count = 1
    BY <1>1, <1>4, <2>1, <2>2, FilesDeleted DEF TypeOK, TablesTypeOK
  <2>3. CASE op.count # 1
    BY <1>1, <1>4, <2>1, <2>3, FilesSet DEF TypeOK, TablesTypeOK
  <2> QED
    BY <2>2, <2>3
<1>6. ShareEntries' = ShareEntries /\ ShareRows' = ShareRows /\ (SharedOnce => SharedOnce')
  BY <1>1, ShareRowsSame
<1>7. /\ CountedFiles(ShareUser) \in Int /\ ShareRows \in Nat
      /\ IsFiniteSet(ShareEntries) /\ SharedOnce /\ CountedFiles(ShareUser) <= ShareRows
  BY <1>2, SharesBefore
<1>8. /\ One(pc["filesop"] \in {"sh_selcount", "sh_count"} \/ pc["sharefilesop"] = "ca_share")' = 1
      /\ One(pc["filesop"] \in {"del_selshares", "del_shares"})' = 0
  BY <1>3 DEF One
<1>9. (CountedFiles(ShareUser) - 1) + 1 <= ShareRows + 0
  BY <1>7
<1> QED
  BY <1>3, <1>5, <1>6, <1>7, <1>8, <1>9 DEF SharesInv, SharedOnce

LEMMA CancelRowShared ==
  ASSUME TypeOK, TypeOK', SerialInv, SharesInv, faults = 0, faults' = 0, CancelShare
  PROVE  SharesInv'
<1>1. /\ pc["sharefilesop"] = "ca_share" /\ Goto("sharefilesop", "ca_zrem", op)
      /\ share_file_list' = DeleteWhere(share_file_list, op.key) /\ UNCHANGED user_file_count
  BY DEF CancelShare, ShareOpFails, Fault
<1>2. pc["filesop"] = "idle" /\ op.key \in FileKey
  BY <1>1, OthersIdle, AtWork DEF SerialInv, Programs, op, TypeOK
<1>3. SharesAside'
  BY <1>1, <1>2, GotoFacts DEF TypeOK, Programs, SharesAside, SharesLabels
<1>4. CountedFiles(ShareUser) \in Int /\ IsFiniteSet(ShareEntries) /\ SharedOnce
  BY SharesBefore
<1>5. /\ IsFiniteSet(ShareEntries') /\ SharedOnce'
      /\ ShareRows \in Nat /\ ShareRows' \in Nat /\ ShareRows <= ShareRows' + 1
  BY <1>1, <1>2, <1>4, ShareRowDeleted
<1>6. CountedFiles(ShareUser) + 1 <= ShareRows
  BY <1>1, <1>2, <1>5 DEF SharesInv, One
<1>7. CountedFiles(ShareUser)' <= ShareRows'
  <2>1. \A c \in Int : \A r, s \in Nat : c + 1 <= r /\ r <= s + 1 => c <= s
    OBVIOUS
  <2> QED
    BY <1>1, <1>4, <1>5, <1>6, <2>1, FilesSame, Zenon
<1> QED
  BY <1>3, <1>5, <1>7, SharesAfter

\* pv_file counts a download in the rows that are there.
LEMMA PvShared ==
  ASSUME TypeOK, TypeOK', SerialInv, SharesInv, faults = 0, PvStep
  PROVE  SharesInv'
<1>1. pc["sharefilesop"] # "idle" /\ UNCHANGED user_file_count
  BY DEF PvStep, PvSelect, PvUpdate, PvZexit, PvZincr, PvZadd, PvHset, mysql
<1>2. pc["filesop"] = "idle" /\ op \in Locals
  BY <1>1, OthersIdle, AtWork DEF SerialInv, Programs, op, TypeOK
<1>3. pc'["sharefilesop"] \notin CancelLabels /\ pc'["filesop"] = "idle"
  BY <1>2, PvKeepsShares DEF SharesKept
<1>4. SharesAside'
  <2>1. pc'["sharefilesop"] \in {"idle"} \cup ShareOpLabels
    BY LabelFacts DEF TypeOK, ControlTypeOK
  <2> QED
    BY <1>3, <2>1 DEF ShareOpLabels, CancelLabels, SharesLabels, SharesAside
<1>5. \A k \in FileKey : Len(share_file_list'[k]) = Len(share_file_list[k])
  <2>1. CASE UNCHANGED share_file_list
    BY <2>1
  <2>2. CASE share_file_list' =
               UpdateAmong(share_file_list, Sharers(MemberOf(op.key)), op.count + 1)
    <3> SUFFICES ASSUME NEW k \in FileKey
                 PROVE  Len(share_file_list'[k]) = Len(share_file_list[k])
      OBVIOUS
    <3> DEFINE s == [i \in 1..Len(share_file_list[k]) |-> op.count + 1]
    <3>1. share_file_list \in [FileKey -> Seq(Int)] /\ share_file_list[k] \in Seq(Int)
      BY DEF TypeOK, TablesTypeOK
    <3>2. share_file_list'[k] = s \/ share_file_list'[k] = share_file_list[k]
      BY <2>2, <3>1 DEF UpdateAmong
    <3>3. Len(s) = Len(share_file_list[k])
      BY <3>1
    <3> QED
      BY <3>2, <3>3
  <2> QED
    BY <2>1, <2>2 DEF PvStep, PvSelect, PvUpdate, PvZexit, PvZincr, PvZadd, PvHset, mysql
<1> QED
  BY <1>1, <1>2, <1>4, <1>5, FilesSame, SharesPlain

LEMMA CancelSharesCounted ==
  ASSUME TypeOK, TypeOK', SerialInv, SharesInv, faults = 0, faults' = 0, CancelStep
  PROVE  SharesInv'
<1>1. CASE CancelSelectShares \/ CancelSetShares \/ CancelShare
  BY <1>1, CancelSelectShared, CancelSetShared, CancelRowShared
<1>2. CASE CancelStatus \/ CancelZrem \/ CancelHdel
  <2>1. pc["sharefilesop"] # "idle" /\ UNCHANGED <<share_file_list, user_file_count>>
    BY <1>2 DEF CancelStatus, CancelZrem, CancelHdel, mysql
  <2>2. \/ \E l, v : Goto("sharefilesop", l, v) /\ l \notin SharesLabels
        \/ \E c : Finish("sharefilesop", c)
    BY <1>2 DEF CancelStatus, CancelZrem, CancelHdel, ShareOpFails, SharesLabels
  <2> QED
    BY <2>1, <2>2, ShareOpShares, FilesSame
<1> QED
  BY <1>1, <1>2 DEF CancelStep

LEMMA RequestShared ==
  ASSUME TypeOK, TypeOK', Serial, SharesInv, faults = 0, Request
  PROVE  SharesInv'
<1> DEFINE First == {"up_recv", "md5_info", "del_zexit", "sh_zexit", "pv_select",
                     "ca_status", "sv_list", "ls_count", "ls_normal", "rk_select"}
<1>1. PICK p \in Programs, k \in FileKey \cup {NoKey}, l \in First : Accept(p, k, l)
  BY AcceptedRequest
<1>2. UNCHANGED mysql
  BY AcceptedRequest
<1>3. /\ \A q \in Programs : pc[q] = "idle"
      /\ \A q \in Programs : pc'[q] = "idle" \/ pc'[q] \in First
  BY <1>1 DEF Accept, TypeOK, ControlTypeOK
<1>4. SharesAside'
  BY <1>3 DEF SharesAside, SharesLabels, Programs
<1>5. pc["filesop"] = "idle"
  BY <1>3 DEF Programs
<1> QED
  BY <1>2, <1>4, <1>5, FilesSame, SharesPlain DEF mysql

\* A step of cgi_sharefiles, which changes no table, or of no program.
LEMMA SharesStutter ==
  ASSUME SharesInv, faults = 0, UNCHANGED mysql,
         \A q \in Programs : q # "sharefiles" => pc'[q] = pc[q] /\ loc'[q] = loc[q]
  PROVE  SharesInv'
<1>1. /\ pc'["filesop"] = pc["filesop"] /\ me' = me
      /\ pc'["sharefilesop"] = pc["sharefilesop"] /\ op' = op
      /\ loc'["filesop"] = loc["filesop"]
  BY DEF Programs, me, op
<1>2. /\ CountedFiles(ShareUser)' = CountedFiles(ShareUser)
      /\ HasRow(user_file_count, ShareUser)' <=> HasRow(user_file_count, ShareUser)
      /\ CountKnown("filesop", ShareUser)' <=> CountKnown("filesop", ShareUser)
      /\ ShareEntries' = ShareEntries /\ ShareRows' = ShareRows
      /\ HasRow(share_file_list, me.key)' <=> HasRow(share_file_list, me.key)
      /\ \A k \in FileKey : Len(share_file_list'[k]) = Len(share_file_list[k])
  <2>1. UNCHANGED <<user_file_count, share_file_list>>
    BY DEF mysql
  <2> QED
    BY <1>1, <2>1, FilesSame, ShareRowsSame DEF HasRow, CountKnown
<1> QED
  BY <1>1, <1>2 DEF SharesInv, One

LEMMA NextShared ==
  Waiting /\ TypeOK /\ TypeOK' /\ SerialInv /\ SharesInv /\ [Next]_vars => SharesInv'
<1> SUFFICES ASSUME Waiting, TypeOK, TypeOK', SerialInv, SharesInv, [Next]_vars, faults' = 0
             PROVE  SharesInv'
  BY DEF SharesInv
<1>1. faults = 0
  BY FaultsGrow, ConstantsAssumption DEF TypeOK, ControlTypeOK
<1>2. CASE Request
  BY <1>1, <1>2, RequestShared DEF Waiting
<1>3. CASE UploadStep \/ Md5Step \/ FilesOpStep \/ ShareOpStep
  BY <1>1, <1>3, UploadShares, DelSharesCounted, ShareSharesCounted, PvShared,
     CancelSharesCounted DEF FilesOpStep, ShareOpStep
<1>4. CASE ShareListStep
  BY <1>1, <1>4, ShareListFacts, SharesStutter DEF TypeOK
<1>5. CASE \E p \in Programs : Crash(p)
  BY <1>1, <1>5 DEF Crash, Fault
<1>6. CASE UNCHANGED vars
  BY <1>1, <1>6, SharesStutter DEF vars
<1> QED
  BY <1>2, <1>3, <1>4, <1>5, <1>6 DEF Next, Done

LEMMA InitShared == Init => SharesInv
<1> SUFFICES ASSUME Init PROVE SharesInv
  OBVIOUS
<1>1. pc["filesop"] = "idle" /\ pc["sharefilesop"] = "idle"
  BY DEF Init, Programs
<1>2. CountedFiles(ShareUser) = 0
  BY DEF Init, CountedFiles, HasRow, Accounts
<1>3. \A k \in FileKey : Len(share_file_list[k]) = 0
  BY DEF Init
<1>4. ShareEntries = {}
  <2>1. \A k \in FileKey : 1..Len(share_file_list[k]) = {}
    BY <1>3
  <2>2. \A e : e \notin ShareEntries
    BY <2>1, RowFacts DEF ShareEntries
  <2> QED
    BY <2>2
<1>5. IsFiniteSet(ShareEntries) /\ ShareRows = 0
  BY <1>4, FS_EmptySet DEF ShareRows
<1>6. \A k \in FileKey : Len(share_file_list[k]) <= 1
  BY <1>3
<1> QED
  BY <1>1, <1>2, <1>5, <1>6 DEF SharesInv, One

\* For any constants, when requests do not overlap and clients act on what they
\* are shown: between requests the references of a content and the files of a
\* user are counted to within the calls that have failed and the programs that
\* were killed, and as long as there are none the shared files are not counted
\* too high.  The programs read each counter, change rows in other statements
\* and write it back, and no statement is undone when a later one fails.
THEOREM CountersCostFailures ==
  ASSUME Waiting
  PROVE  Spec => []CountersDrift
<1>1. Init => DriftInv /\ SharesInv
  BY InitDrift, InitShared
<1>2. /\ TypeOK /\ TypeOK' /\ SerialInv /\ DriftInv /\ SharesInv /\ [Next]_vars
      => DriftInv' /\ SharesInv'
  BY NextDrift, NextShared
<1>3. TypeOK /\ SerialInv /\ DriftInv /\ SharesInv => CountersDrift
  <2> SUFFICES ASSUME TypeOK, SerialInv, DriftInv, SharesInv PROVE CountersDrift
    OBVIOUS
  <2>1. ReferencesDrift /\ UserCountDrift
    BY DriftMeans
  <2>2. ASSUME Quiet, faults = 0 PROVE CountedFiles(ShareUser) <= ShareRows
    BY <2>2, SharesBefore DEF Quiet, Programs
  <2> QED
    BY <2>1, <2>2 DEF CountersDrift, SharesNotAbove
<1> QED
  BY <1>1, <1>2, <1>3, SerialCorrect, PTL DEF Spec

------------------------------------------------------------------------------
(* The ranking, as long as nothing fails *)

\* A step is one of a program at work, which goes on or ends.
StepOf(p) ==
  pc[p] # "idle" /\ ((\E l, v : Goto(p, l, v)) \/ (\E c : Finish(p, c)) \/ Crash(p))

LEMMA StepsOf ==
  /\ UploadStep => StepOf("upload")
  /\ Md5Step => StepOf("md5")
  /\ DelStep => StepOf("filesop")
  /\ ShareStep => StepOf("filesop")
  /\ ShareOpStep => StepOf("sharefilesop")
  /\ ShareListStep => StepOf("sharefiles")
<1>1. ASSUME UploadStep PROVE StepOf("upload")
  BY <1>1 DEF UploadStep, UploadRecv, UploadDstorage, UploadUrl, UploadInsertInfo,
              UploadInsertList, UploadSelectCount, UploadSetCount, SelectCountToAdd, StepOf
<1>2. ASSUME Md5Step PROVE StepOf("md5")
  BY <1>2 DEF Md5Step, Md5SelectInfo, Md5SelectList, Md5AddReference, Md5InsertList,
              Md5SelectCount, Md5SetCount, SelectCountToAdd, StepOf
<1>3. ASSUME DelStep PROVE StepOf("filesop")
  BY <1>3 DEF DelStep, DelZexit, DelStatus, DelShare, DelSelectShares, DelSetShares, DelZrem,
              DelHdel, DelSelectCount, DelSetCount, DelList, DelSelectReference,
              DelSetReference, DelSelectId, DelInfo, DelRemove, FilesOpFails, StepOf
<1>4. ASSUME ShareStep PROVE StepOf("filesop")
  BY <1>4 DEF ShareStep, ShareZexit, ShareSelect, ShareReadd, ShareStatus, ShareInsert,
              ShareSelectCount, SelectCountToAdd, ShareSetCount, ShareZadd, ShareHset,
              FilesOpFails, StepOf
<1>5. ASSUME PvStep PROVE StepOf("sharefilesop")
  BY <1>5 DEF PvStep, PvSelect, PvUpdate, PvZexit, PvZincr, PvZadd, PvHset, ShareOpFails, StepOf
<1>6. ASSUME CancelStep PROVE StepOf("sharefilesop")
  BY <1>6 DEF CancelStep, CancelStatus, CancelSelectShares, CancelSetShares, CancelShare,
              CancelZrem, CancelHdel, ShareOpFails, StepOf
<1>7. ASSUME SaveStep PROVE StepOf("sharefilesop")
  BY <1>7 DEF SaveStep, SaveSelectList, SaveSelectReference, SaveAddReference, SaveInsertList,
              SaveSelectCount, SelectCountToAdd, SaveSetCount, ShareOpFails, StepOf
<1>8. ASSUME ShareListStep PROVE StepOf("sharefiles")
  BY <1>8 DEF ShareListStep, ListCount, ListNormal, RankSelect, RankZcard, RankDelZset,
              RankDelHash, RankRows, RankZadd, RankHset, RankRange, RankHget, RankScore,
              ListFails, StepOf
<1> QED
  BY <1>1, <1>2, <1>3, <1>4, <1>5, <1>6, <1>7, <1>8 DEF ShareOpStep

\* The program that takes a step is alone at work.
LEMMA StepAlone ==
  ASSUME TypeOK, OneAtATime, NEW p \in Programs, StepOf(p)
  PROVE  \A q \in Programs : q # p => pc[q] = "idle" /\ pc'[q] = "idle" /\ loc'[q] = loc[q]
<1>1. \A q \in Programs : q # p => pc[q] = "idle"
  BY OthersIdle DEF StepOf
<1>2. \A q \in Programs : q # p => pc'[q] = pc[q] /\ loc'[q] = loc[q]
  <2>1. ASSUME Crash(p) PROVE \A q \in Programs : q # p => pc'[q] = pc[q] /\ loc'[q] = loc[q]
    BY <2>1 DEF Crash, TypeOK, ControlTypeOK
  <2> QED
    BY <2>1, GotoFacts, FinishFacts DEF StepOf, TypeOK
<1> QED
  BY <1>1, <1>2

LEMMA NextAlone == Serial /\ TypeOK /\ OneAtATime /\ [Next]_vars => OneAtATime'
<1> SUFFICES ASSUME Serial, TypeOK, OneAtATime, [Next]_vars PROVE OneAtATime'
  OBVIOUS
<1>1. CASE Request
  <2>1. PICK p \in Programs, k \in FileKey \cup {NoKey} : \E l : Accept(p, k, l)
    BY <1>1, AcceptedRequest
  <2>2. \A q \in Programs : q # p => pc'[q] = "idle"
    BY <2>1 DEF Accept, TypeOK, ControlTypeOK
  <2> QED
    BY <2>2 DEF OneAtATime
<1>2. CASE \E p \in Programs : StepOf(p)
  <2>1. PICK p \in Programs : StepOf(p)
    BY <1>2
  <2> QED
    BY <2>1, StepAlone DEF OneAtATime
<1>3. CASE UNCHANGED vars
  BY <1>3 DEF vars, OneAtATime
<1>4. ASSUME NEW p \in Programs, Crash(p) PROVE StepOf(p)
  BY <1>4 DEF Crash, StepOf
<1> QED
  BY <1>1, <1>2, <1>3, <1>4, StepsOf DEF Next, Done, FilesOpStep, Programs

\* The rows and the scores, apart from what the programs have read of them.
ScoresRight == OneSharer /\ \A k \in FileKey : ScoreBelow(k)
RowAwaited(x) == Sharing(x, {"sh_selcount", "sh_count", "sh_zadd"})
BelowRow(x) == \A k \in Sharers(x) : score[x] <= FirstRow(share_file_list, k)

\* Rows may go, members may go, and a score may change to one that is not above
\* the row.
LEMMA ScoresStay ==
  ASSUME ScoresRight,
         \A k \in FileKey : \/ share_file_list'[k] = share_file_list[k]
                            \/ share_file_list'[k] = <<>>,
         \A x \in zset' : (x \in zset /\ score'[x] = score[x]) \/ BelowRow(x)',
         \A x \in ShareKey : RowAwaited(x) => RowAwaited(x)' \/ BelowRow(x)'
  PROVE  ScoresRight'
<1>1. \A k \in FileKey : HasRow(share_file_list, k)' =>
        /\ HasRow(share_file_list, k)
        /\ share_file_list'[k] = share_file_list[k]
        /\ FirstRow(share_file_list, k)' = FirstRow(share_file_list, k)
  BY DEF HasRow, FirstRow
<1>2. OneSharer'
  <2>1. \A k \in FileKey : Len(share_file_list[k])' <= 1
    <3>1. Len(<<>>) <= 1
      OBVIOUS
    <3> QED
      BY <3>1 DEF ScoresRight, OneSharer
  <2> QED
    BY <1>1, <2>1 DEF ScoresRight, OneSharer
<1>3. ASSUME NEW k \in FileKey, HasRow(share_file_list, k)' PROVE ScoreBelow(k)'
  <2>1. MemberOf(k) \in ShareKey /\ (BelowRow(MemberOf(k))' =>
                                       score'[MemberOf(k)] <= FirstRow(share_file_list, k)')
    BY <1>3 DEF FileKey, ShareKey, MemberOf, BelowRow, Sharers
  <2>2. /\ FirstRow(share_file_list, k) >= 0
        /\ \/ MemberOf(k) \notin zset
           \/ RowAwaited(MemberOf(k))
           \/ score[MemberOf(k)] <= FirstRow(share_file_list, k)
    BY <1>1, <1>3 DEF ScoresRight, ScoreBelow, RowAwaited
  <2>3. FirstRow(share_file_list, k)' = FirstRow(share_file_list, k)
    BY <1>1, <1>3
  <2>4. /\ MemberOf(k) \in zset' => \/ MemberOf(k) \in zset /\ score'[MemberOf(k)] = score[MemberOf(k)]
                                    \/ score'[MemberOf(k)] <= FirstRow(share_file_list, k)'
        /\ RowAwaited(MemberOf(k)) => \/ RowAwaited(MemberOf(k))'
                                      \/ score'[MemberOf(k)] <= FirstRow(share_file_list, k)'
    BY <2>1
  <2>5. \/ MemberOf(k) \notin zset'
        \/ RowAwaited(MemberOf(k))'
        \/ score'[MemberOf(k)] <= FirstRow(share_file_list, k)'
    BY <2>2, <2>3, <2>4
  <2> QED
    BY <2>2, <2>3, <2>5 DEF ScoreBelow, RowAwaited
<1>4. \A k \in FileKey : ScoreBelow(k)'
  BY <1>3 DEF ScoreBelow
<1> QED
  BY <1>2, <1>4 DEF ScoresRight

\* A row whose member has no score, or one that is not above its downloads.
LEMMA RightMeans ==
  ASSUME ScoresRight
  PROVE  /\ \A x \in zset : RowAwaited(x) \/ BelowRow(x)
         /\ \A x : \A k \in Sharers(x) : FirstRow(share_file_list, k) >= 0
         /\ \A x : \A j, k \in Sharers(x) : j = k
  BY DEF ScoresRight, BelowRow, OneSharer, Sharers, ScoreBelow, RowAwaited

\* A step that leaves the rows, the members and the scores as they are.
LEMMA ScoresUntouched ==
  ASSUME ScoresRight, UNCHANGED <<share_file_list, zset, score>>,
         \A x \in ShareKey : RowAwaited(x) => RowAwaited(x)'
  PROVE  ScoresRight'
  BY ScoresStay

\* cgi_upload and cgi_md5 have nothing to do with shared files.
LEMMA ApartScores ==
  ASSUME TypeOK, OneAtATime, ScoresRight, UploadStep \/ Md5Step
  PROVE  ScoresRight' /\ DownloadsKnown'
<1>1. UNCHANGED <<share_file_list, zset, score>>
  BY UploadApart, Md5Apart
<1>2. \A q \in {"filesop", "sharefilesop", "sharefiles"} : pc[q] = "idle" /\ pc'[q] = "idle"
  BY StepsOf, StepAlone DEF Programs
<1>3. DownloadsKnown'
  <2>1. /\ pc'["filesop"] \notin {"sh_status", "sh_insert", "sh_count"}
        /\ pc'["sharefilesop"] \notin {"pv_update", "pv_zexit", "pv_zincr", "pv_zadd"}
        /\ pc'["sharefiles"] \notin {"rk_zadd", "rk_hset"}
    BY <1>2
  <2> QED
    BY <2>1 DEF DownloadsKnown
<1>4. \A x : ~RowAwaited(x)
  BY <1>2 DEF RowAwaited, Sharing
<1> QED
  BY <1>1, <1>3, <1>4, ScoresUntouched

\* A step of cgi_filesop: only what share_file has read is of interest after it.
LEMMA FilesOpReads ==
  ASSUME TypeOK, OneAtATime, StepOf("filesop")
  PROVE  /\ pc'["sharefilesop"] = "idle" /\ pc'["sharefiles"] = "idle"
         /\ pc'["filesop"] \notin {"sh_status", "sh_insert", "sh_count"} => DownloadsKnown'
<1>1. pc'["sharefilesop"] = "idle" /\ pc'["sharefiles"] = "idle"
  BY StepAlone DEF Programs
<1> QED
  BY <1>1 DEF DownloadsKnown

LEMMA ShareOpReads ==
  ASSUME TypeOK, OneAtATime, StepOf("sharefilesop")
  PROVE  /\ \A x : ~RowAwaited(x) /\ ~RowAwaited(x)'
         /\ pc'["filesop"] = "idle" /\ pc'["sharefiles"] = "idle"
         /\ pc'["sharefilesop"] \notin {"pv_update", "pv_zexit", "pv_zincr", "pv_zadd"}
              => DownloadsKnown'
<1>1. pc["filesop"] = "idle" /\ pc'["filesop"] = "idle" /\ pc'["sharefiles"] = "idle"
  BY StepAlone DEF Programs
<1> QED
  BY <1>1 DEF DownloadsKnown, RowAwaited, Sharing

\* The row of a file is deleted.
LEMMA RowGone ==
  ASSUME TypeOK, NEW k \in FileKey
  PROVE  \A j \in FileKey : \/ DeleteWhere(share_file_list, k)[j] = share_file_list[j]
                            \/ DeleteWhere(share_file_list, k)[j] = <<>>
<1>1. share_file_list \in [FileKey -> Seq(Int)]
  BY DEF TypeOK, TablesTypeOK
<1> QED
  BY <1>1 DEF DeleteWhere

LEMMA MemberGone ==
  ASSUME TypeOK, NEW x, ZRem(x)
  PROVE  \A y \in zset' : y \in zset /\ score'[y] = score[y]
<1>1. zset \subseteq ShareKey /\ score \in [ShareKey -> Int]
  BY DEF TypeOK, StoresTypeOK
<1> QED
  BY <1>1 DEF ZRem

\* del_file takes rows and members away.
LEMMA DelScores ==
  ASSUME TypeOK, OneAtATime, ScoresRight, DelStep, ~Fault
  PROVE  ScoresRight' /\ DownloadsKnown'
<1>s. StepOf("filesop")
  BY StepsOf
<1>p. "filesop" \in Programs /\ ControlTypeOK
  BY DEF Programs, TypeOK
<1>l. pc["filesop"] \in DelLabels
  BY DEF DelLabels, DelStep, DelZexit, DelStatus, DelShare, DelSelectShares, DelSetShares,
         DelZrem, DelHdel, DelSelectCount, DelSetCount, DelList, DelSelectReference,
         DelSetReference, DelSelectId, DelInfo, DelRemove
<1>m. pc'["filesop"] \in DelLabels \cup {"idle"}
  <2>1. (\E l \in DelLabels : \E v : Goto("filesop", l, v)) \/ \E c : Finish("filesop", c)
    BY DEF DelLabels, DelStep, DelZexit, DelStatus, DelShare, DelSelectShares, DelSetShares,
           DelZrem, DelHdel, DelSelectCount, DelSetCount, DelList, DelSelectReference,
           DelSetReference, DelSelectId, DelInfo, DelRemove, FilesOpFails
  <2> QED
    BY <1>p, <2>1, GotoFacts, FinishFacts
<1>d. DownloadsKnown' /\ \A x : ~RowAwaited(x)
  BY <1>l, <1>m, <1>s, FilesOpReads DEF DelLabels, RowAwaited, Sharing
<1>k. me.key \in FileKey
  BY <1>l, <1>p, AtWork DEF me, DelLabels
<1>1. CASE DelShare
  <2>1. share_file_list' = DeleteWhere(share_file_list, me.key) /\ UNCHANGED <<zset, score>>
    BY <1>1 DEF DelShare, FilesOpFails, redis
  <2>2. \A j \in FileKey : \/ share_file_list'[j] = share_file_list[j]
                           \/ share_file_list'[j] = <<>>
    BY <1>k, <2>1, RowGone
  <2> QED
    BY <1>d, <2>1, <2>2, ScoresStay
<1>2. CASE DelZrem
  <2>1. ZRem(MemberOf(me.key)) /\ UNCHANGED share_file_list
    BY <1>2 DEF DelZrem, mysql
  <2>2. \A y \in zset' : y \in zset /\ score'[y] = score[y]
    BY <2>1, MemberGone
  <2> QED
    BY <1>d, <2>1, <2>2, ScoresStay
<1>3. CASE ~DelShare /\ ~DelZrem
  <2>1. UNCHANGED <<share_file_list, zset, score>>
    BY <1>3 DEF DelStep, DelZexit, DelStatus, DelSelectShares, DelSetShares, DelHdel,
                DelSelectCount, DelSetCount, DelList, DelSelectReference, DelSetReference,
                DelSelectId, DelInfo, DelRemove, mysql, redis
  <2> QED
    BY <1>d, <2>1, ScoresUntouched
<1> QED
  BY <1>1, <1>2, <1>3

\* So does cancel_share_file; save_file leaves them alone.
LEMMA CancelScores ==
  ASSUME TypeOK, OneAtATime, ScoresRight, CancelStep \/ SaveStep, ~Fault
  PROVE  ScoresRight' /\ DownloadsKnown'
<1>s. StepOf("sharefilesop")
  BY StepsOf DEF ShareOpStep
<1>p. "sharefilesop" \in Programs /\ ControlTypeOK
  BY DEF Programs, TypeOK
<1>m. pc'["sharefilesop"] \notin {"pv_update", "pv_zexit", "pv_zincr", "pv_zadd"}
  <2>1. CASE CancelStep
    <3>1. (\E l \in CancelLabels : \E v : Goto("sharefilesop", l, v)) \/ \E c : Finish("sharefilesop", c)
      BY <2>1 DEF CancelLabels, CancelStep, CancelStatus, CancelSelectShares, CancelSetShares,
                  CancelShare, CancelZrem, CancelHdel, ShareOpFails
    <3> QED
      BY <1>p, <3>1, GotoFacts, FinishFacts DEF CancelLabels
  <2>2. CASE SaveStep
    BY <2>2, SaveApart DEF PvLabels
  <2> QED
    BY <2>1, <2>2
<1>d. DownloadsKnown' /\ \A x : ~RowAwaited(x)
  BY <1>m, <1>s, ShareOpReads
<1>1. CASE CancelShare
  <2>1. share_file_list' = DeleteWhere(share_file_list, op.key) /\ UNCHANGED <<zset, score>>
    BY <1>1 DEF CancelShare, ShareOpFails, redis
  <2>2. op.key \in FileKey
    BY <1>1, <1>p, AtWork DEF op, CancelShare
  <2>3. \A j \in FileKey : \/ share_file_list'[j] = share_file_list[j]
                           \/ share_file_list'[j] = <<>>
    BY <2>1, <2>2, RowGone
  <2> QED
    BY <1>d, <2>1, <2>3, ScoresStay
<1>2. CASE CancelZrem
  <2>1. /\ UNCHANGED share_file_list
        /\ \A y \in zset' : y \in zset /\ score'[y] = score[y]
    BY <1>2, MemberGone DEF CancelZrem, mysql
  <2> QED
    BY <1>d, <2>1, ScoresStay
<1>3. CASE ~CancelShare /\ ~CancelZrem
  <2>1. UNCHANGED <<share_file_list, zset, score>>
    BY <1>3, SaveApart DEF CancelStep, CancelStatus, CancelSelectShares, CancelSetShares,
                           CancelHdel, mysql, redis
  <2> QED
    BY <1>d, <2>1, ScoresUntouched
<1> QED
  BY <1>1, <1>2, <1>3

\* A request is accepted while every program waits.
LEMMA RequestScores ==
  ASSUME Serial, TypeOK, ScoresRight, Request
  PROVE  ScoresRight' /\ DownloadsKnown'
<1> DEFINE First == {"up_recv", "md5_info", "del_zexit", "sh_zexit", "pv_select", "ca_status",
                     "sv_list", "ls_count", "ls_normal", "rk_select"}
<1>1. UNCHANGED <<share_file_list, zset, score>>
  BY AcceptedRequest DEF mysql, redis
<1>2. PICK p \in Programs, k \in FileKey \cup {NoKey}, l \in First : Accept(p, k, l)
  BY AcceptedRequest
<1>3. \A q \in Programs : pc[q] = "idle" /\ pc'[q] \in First \cup {"idle"}
  <2>1. \A q \in Programs : pc[q] = "idle"
    BY <1>2 DEF Accept
  <2>2. \A q \in Programs : pc'[q] = IF q = p THEN l ELSE pc[q]
    <3>1. pc \in [Programs -> Labels]
      BY DEF TypeOK, ControlTypeOK
    <3> QED
      BY <1>2, <3>1 DEF Accept
  <2> QED
    BY <2>1, <2>2
<1>4. DownloadsKnown'
  BY <1>3 DEF DownloadsKnown, Programs
<1>5. \A x : ~RowAwaited(x)
  BY <1>3 DEF RowAwaited, Sharing, Programs
<1> QED
  BY <1>1, <1>4, <1>5, ScoresUntouched

\* A member that is added or set to a score that is not above its row.
LEMMA MemberSet ==
  ASSUME TypeOK, NEW x \in ShareKey, NEW n \in Int, ZAdd(x, n), UNCHANGED share_file_list,
         \A k \in Sharers(x) : n <= FirstRow(share_file_list, k)
  PROVE  /\ BelowRow(x)'
         /\ \A y \in zset' : (y \in zset /\ score'[y] = score[y]) \/ BelowRow(y)'
<1>1. zset \subseteq ShareKey /\ score \in [ShareKey -> Int]
  BY DEF TypeOK, StoresTypeOK
<1>2. /\ score'[x] = n /\ zset' = zset \cup {x}
      /\ \A y \in zset : y # x => score'[y] = score[y]
  BY <1>1 DEF ZAdd
<1>3. BelowRow(x)'
  BY <1>2 DEF BelowRow, Sharers, FirstRow, HasRow
<1> QED
  BY <1>2, <1>3

\* The new row has no downloads, and its member is awaited.
LEMMA InsertScores ==
  ASSUME TypeOK, OneAtATime, ScoresRight, DownloadsKnown, ShareInsert, ~Fault
  PROVE  ScoresRight' /\ DownloadsKnown'
<1>p. "filesop" \in Programs /\ ControlTypeOK
  BY DEF Programs, TypeOK
<1>1. /\ pc["filesop"] = "sh_insert" /\ UNCHANGED <<zset, score>>
      /\ share_file_list' = Insert(share_file_list, me.key, 0)
      /\ Goto("filesop", "sh_selcount", me)
  BY DEF ShareInsert, FilesOpFails, redis
<1>2. pc'["filesop"] = "sh_selcount" /\ me' = me
  BY <1>p, <1>1, GotoFacts DEF me
<1>3. DownloadsKnown'
  <2>1. ShareStep
    BY DEF ShareStep
  <2> QED
    BY <1>2, <2>1, StepsOf, FilesOpReads
<1>4. me.key \in FileKey /\ ~SharedByAnyone(me.key)
  BY <1>p, <1>1, AtWork DEF me, DownloadsKnown
<1>5. PICK k \in FileKey : k = me.key
  BY <1>4
<1>6. \A j \in FileKey : MemberOf(j) = MemberOf(k) => ~HasRow(share_file_list, j)
  BY <1>4, <1>5 DEF SharedByAnyone
<1>7. /\ share_file_list'[k] = <<0>>
      /\ \A j \in FileKey : j # k => share_file_list'[j] = share_file_list[j]
  <2>1. share_file_list \in [FileKey -> Seq(Int)]
    BY DEF TypeOK, TablesTypeOK
  <2>2. share_file_list[k] = <<>>
    BY <1>6 DEF HasRow
  <2>3. Append(<<>>, 0) = <<0>>
    OBVIOUS
  <2> QED
    BY <1>1, <1>5, <2>1, <2>2, <2>3 DEF Insert
<1>8. \A x : ~RowAwaited(x)
  BY <1>1 DEF RowAwaited, Sharing
<1>9. RowAwaited(MemberOf(k))'
  BY <1>2, <1>5 DEF RowAwaited, Sharing
<1>10. ASSUME NEW j \in FileKey, j # k, HasRow(share_file_list, j)'
       PROVE  /\ HasRow(share_file_list, j) /\ MemberOf(j) # MemberOf(k)
              /\ FirstRow(share_file_list, j)' = FirstRow(share_file_list, j)
  BY <1>6, <1>7, <1>10 DEF HasRow, FirstRow
<1>11. OneSharer'
  <2>1. \A j \in FileKey : Len(share_file_list[j])' <= 1
    <3>1. Len(<<0>>) <= 1
      OBVIOUS
    <3> QED
      BY <1>7, <3>1 DEF ScoresRight, OneSharer
  <2> QED
    BY <1>10, <2>1 DEF ScoresRight, OneSharer
<1>12. ASSUME NEW j \in FileKey, HasRow(share_file_list, j)' PROVE ScoreBelow(j)'
  <2>1. CASE j = k
    <3>1. FirstRow(share_file_list, k)' = 0
      BY <1>7 DEF FirstRow
    <3>2. FirstRow(share_file_list, k)' >= 0
      BY <3>1
    <3> QED
      BY <1>9, <2>1, <3>2 DEF ScoreBelow, RowAwaited
  <2>2. CASE j # k
    <3>1. /\ HasRow(share_file_list, j)
          /\ FirstRow(share_file_list, j)' = FirstRow(share_file_list, j)
      BY <1>10, <1>12, <2>2
    <3>2. /\ FirstRow(share_file_list, j) >= 0
          /\ \/ MemberOf(j) \notin zset
             \/ score[MemberOf(j)] <= FirstRow(share_file_list, j)
      BY <1>8, <3>1 DEF ScoresRight, ScoreBelow, RowAwaited
    <3> QED
      BY <1>1, <3>1, <3>2 DEF ScoreBelow
  <2> QED
    BY <2>1, <2>2
<1>13. \A j \in FileKey : ScoreBelow(j)'
  BY <1>12 DEF ScoreBelow
<1> QED
  BY <1>3, <1>11, <1>13 DEF ScoresRight

\* share_file inserts a row only for a file that nobody shares, and then sets the
\* score of its member to 0.
LEMMA ShareScores ==
  ASSUME TypeOK, OneAtATime, ScoresRight, DownloadsKnown, ShareStep, ~Fault
  PROVE  ScoresRight' /\ DownloadsKnown'
<1>s. /\ pc'["sharefilesop"] = "idle" /\ pc'["sharefiles"] = "idle"
      /\ pc'["filesop"] \notin {"sh_status", "sh_insert", "sh_count"} => DownloadsKnown'
  BY StepsOf, FilesOpReads
<1>p. "filesop" \in Programs /\ ControlTypeOK
  BY DEF Programs, TypeOK
<1>k. me \in Locals /\ me.key \in FileKey /\ MemberOf(me.key) \in ShareKey
  <2>1. pc["filesop"] # "idle"
    BY DEF ShareStep, ShareZexit, ShareSelect, ShareReadd, ShareStatus, ShareInsert,
           ShareSelectCount, SelectCountToAdd, ShareSetCount, ShareZadd, ShareHset
  <2> QED
    BY <1>p, <2>1, AtWork DEF me
<1>1. CASE ShareZexit \/ ShareSelect \/ ShareStatus \/ ShareHset
  <2>1. /\ UNCHANGED <<share_file_list, zset, score>>
        /\ pc["filesop"] \in {"sh_zexit", "sh_select", "sh_status", "sh_hset"}
        /\ \/ \E c : Finish("filesop", c)
           \/ Goto("filesop", "sh_select", me) \/ Goto("filesop", "sh_readd", me)
           \/ ~SharedByAnyone(me.key) /\ Goto("filesop", "sh_status", me)
           \/ ~SharedByAnyone(me.key) /\ Goto("filesop", "sh_insert", me)
    BY <1>1 DEF ShareZexit, ShareSelect, ShareStatus, ShareHset, FilesOpFails, mysql, redis,
                DownloadsKnown
  <2>2. \A x : ~RowAwaited(x)
    BY <2>1 DEF RowAwaited, Sharing
  <2>3. DownloadsKnown'
    <3>1. CASE \E c : Finish("filesop", c)
      <4>1. pc'["filesop"] = "idle"
        BY <1>p, <3>1, FinishFacts
      <4> QED
        BY <1>s, <4>1
    <3>2. CASE Goto("filesop", "sh_select", me) \/ Goto("filesop", "sh_readd", me)
      <4>1. pc'["filesop"] \in {"sh_select", "sh_readd"}
        BY <1>p, <3>2, GotoFacts
      <4> QED
        BY <1>s, <4>1
    <3>3. CASE /\ ~SharedByAnyone(me.key)
               /\ Goto("filesop", "sh_status", me) \/ Goto("filesop", "sh_insert", me)
      <4>1. pc'["filesop"] \in {"sh_status", "sh_insert"} /\ me' = me
        BY <1>p, <3>3, GotoFacts DEF me
      <4>2. ~SharedByAnyone(me.key)'
        BY <2>1, <3>3, <4>1 DEF SharedByAnyone, HasRow
      <4> QED
        BY <1>s, <4>1, <4>2 DEF DownloadsKnown
    <3> QED
      BY <2>1, <3>1, <3>2, <3>3
  <2> QED
    BY <2>1, <2>2, <2>3, ScoresUntouched
<1>2. CASE ShareReadd \/ ShareZadd
  <2>1. /\ ZAdd(MemberOf(me.key), 0) /\ UNCHANGED share_file_list
        /\ Finish("filesop", "012") \/ Goto("filesop", "sh_hset", me)
    BY <1>2 DEF ShareReadd, ShareZadd, mysql
  <2>2. pc'["filesop"] \in {"idle", "sh_hset"}
    BY <1>p, <2>1, GotoFacts, FinishFacts
  <2>3. \A k \in Sharers(MemberOf(me.key)) : 0 <= FirstRow(share_file_list, k)
    BY RightMeans
  <2>4. PICK x \in ShareKey : x = MemberOf(me.key)
    BY <1>k
  <2>5. PICK z \in Int : z = 0
    OBVIOUS
  <2>6. ZAdd(x, z) /\ \A k \in Sharers(x) : z <= FirstRow(share_file_list, k)
    BY <2>1, <2>3, <2>4, <2>5
  <2>7. /\ BelowRow(x)'
        /\ \A y \in zset' : (y \in zset /\ score'[y] = score[y]) \/ BelowRow(y)'
    BY <2>1, <2>6, MemberSet
  <2>8. \A y \in ShareKey : RowAwaited(y) => y = x
    BY <2>4 DEF RowAwaited, Sharing
  <2>9. ScoresRight'
    BY <2>1, <2>7, <2>8, ScoresStay
  <2> QED
    BY <1>s, <2>2, <2>9
<1>3. CASE ShareInsert
  BY <1>3, InsertScores
<1>4. CASE ShareSelectCount
  <2>1. /\ UNCHANGED <<user_file_count, share_file_list, zset, score>> /\ pc["filesop"] = "sh_selcount"
        /\ \/ \E n : Goto("filesop", "sh_count", [me EXCEPT !.sql = "update", !.count = n])
           \/ /\ ~HasRow(user_file_count, ShareUser)
              /\ Goto("filesop", "sh_count", [me EXCEPT !.sql = "insert"])
    BY <1>4 DEF ShareSelectCount, SelectCountToAdd, mysql, redis, me
  <2>2. /\ pc'["filesop"] = "sh_count" /\ me'.key = me.key
        /\ me'.sql = "insert" => ~HasRow(user_file_count, ShareUser)
    <3>1. CASE \E n : Goto("filesop", "sh_count", [me EXCEPT !.sql = "update", !.count = n])
      <4>1. PICK n : Goto("filesop", "sh_count", [me EXCEPT !.sql = "update", !.count = n])
        BY <3>1
      <4>2. pc'["filesop"] = "sh_count" /\ me' = [me EXCEPT !.sql = "update", !.count = n]
        BY <1>p, <4>1, GotoFacts DEF me
      <4>3. me'.key = me.key /\ me'.sql = "update"
        BY <1>k, <4>2 DEF Locals
      <4> QED
        BY <4>2, <4>3
    <3>2. CASE /\ ~HasRow(user_file_count, ShareUser)
               /\ Goto("filesop", "sh_count", [me EXCEPT !.sql = "insert"])
      <4>1. pc'["filesop"] = "sh_count" /\ me' = [me EXCEPT !.sql = "insert"]
        BY <1>p, <3>2, GotoFacts DEF me
      <4>2. me'.key = me.key
        BY <1>k, <4>1 DEF Locals
      <4> QED
        BY <3>2, <4>1, <4>2
    <3> QED
      BY <2>1, <3>1, <3>2
  <2>3. DownloadsKnown'
    BY <1>s, <2>1, <2>2 DEF DownloadsKnown, HasRow
  <2>4. \A x : RowAwaited(x) => RowAwaited(x)'
    BY <2>2 DEF RowAwaited, Sharing
  <2> QED
    BY <2>1, <2>3, <2>4, ScoresUntouched
<1>5. CASE ShareSetCount
  <2>1. ~CountRefused("filesop", ShareUser)
    BY <1>5 DEF ShareSetCount, DownloadsKnown, CountRefused, me
  <2>2. Goto("filesop", "sh_zadd", me) /\ UNCHANGED <<share_file_list, zset, score>>
    BY <1>5, <2>1 DEF ShareSetCount, redis
  <2>3. pc'["filesop"] = "sh_zadd" /\ me' = me
    BY <1>p, <2>2, GotoFacts DEF me
  <2>4. \A x : RowAwaited(x) => RowAwaited(x)'
    BY <2>3 DEF RowAwaited, Sharing
  <2> QED
    BY <1>s, <2>2, <2>3, <2>4, ScoresUntouched
<1> QED
  BY <1>1, <1>2, <1>3, <1>4, <1>5 DEF ShareStep

\* update share_file_list set pv: the same rows, with the new downloads.
LEMMA SharersUpdated ==
  ASSUME TypeOK, NEW x, NEW v \in Int, share_file_list' = UpdateAmong(share_file_list, Sharers(x), v)
  PROVE  /\ \A k \in FileKey : /\ HasRow(share_file_list, k)' <=> HasRow(share_file_list, k)
                               /\ Len(share_file_list[k])' = Len(share_file_list[k])
         /\ \A k \in Sharers(x) : FirstRow(share_file_list, k)' = v
         /\ \A k \in FileKey : k \notin Sharers(x) => share_file_list'[k] = share_file_list[k]
         /\ \A y : Sharers(y)' = Sharers(y)
<1>1. share_file_list \in [FileKey -> Seq(Int)]
  BY DEF TypeOK, TablesTypeOK
<1>2. \A k \in FileKey :
        share_file_list'[k] = IF k \in Sharers(x) THEN [i \in 1..Len(share_file_list[k]) |-> v]
                                                  ELSE share_file_list[k]
  BY <1>1 DEF UpdateAmong
<1>3. ASSUME NEW k \in Sharers(x)
      PROVE  /\ HasRow(share_file_list, k)'
             /\ Len(share_file_list'[k]) = Len(share_file_list[k])
             /\ FirstRow(share_file_list, k)' = v
  <2>1. k \in FileKey /\ HasRow(share_file_list, k)
    BY DEF Sharers
  <2>2. /\ Len(share_file_list[k]) \in Nat /\ Len(share_file_list[k]) >= 1
        /\ 1 \in 1..Len(share_file_list[k])
    <3>1. share_file_list[k] \in Seq(Int)
      BY <1>1, <2>1
    <3> QED
      BY <1>1, <2>1, <3>1, FirstRowFacts
  <2>3. share_file_list'[k] = [i \in 1..Len(share_file_list[k]) |-> v]
    BY <1>2, <2>1
  <2>4. Len(share_file_list'[k]) = Len(share_file_list[k])
    BY <2>2, <2>3
  <2>5. share_file_list'[k][1] = v
    BY <2>2, <2>3
  <2>6. share_file_list'[k] # <<>>
    <3>1. Len(<<>>) = 0
      OBVIOUS
    <3> QED
      BY <2>2, <2>4, <3>1
  <2> QED
    BY <2>4, <2>5, <2>6 DEF HasRow, FirstRow
<1>4. \A k \in FileKey : k \notin Sharers(x) => share_file_list'[k] = share_file_list[k]
  BY <1>2
<1>5. \A k \in FileKey : /\ HasRow(share_file_list, k)' <=> HasRow(share_file_list, k)
                         /\ Len(share_file_list[k])' = Len(share_file_list[k])
  BY <1>3, <1>4 DEF HasRow, Sharers
<1>6. \A y : Sharers(y)' = Sharers(y)
  BY <1>5 DEF Sharers
<1> QED
  BY <1>3, <1>4, <1>5, <1>6

\* pv_file writes one more than the downloads that it has read.
LEMMA UpdateScores ==
  ASSUME TypeOK, OneAtATime, ScoresRight, DownloadsKnown, PvUpdate, ~Fault
  PROVE  ScoresRight' /\ DownloadsKnown'
<1>p. "sharefilesop" \in Programs /\ ControlTypeOK
  BY DEF Programs, TypeOK
<1>s. /\ \A x : ~RowAwaited(x) /\ ~RowAwaited(x)'
      /\ pc'["filesop"] = "idle" /\ pc'["sharefiles"] = "idle"
  <2>1. ShareOpStep
    BY DEF PvStep, ShareOpStep
  <2> QED
    BY <2>1, StepsOf, ShareOpReads
<1>1. /\ pc["sharefilesop"] = "pv_update" /\ UNCHANGED <<zset, score>>
      /\ share_file_list' =
           UpdateAmong(share_file_list, Sharers(MemberOf(op.key)), op.count + 1)
      /\ Goto("sharefilesop", "pv_zexit", op)
  BY DEF PvUpdate, ShareOpFails, redis
<1>2. pc'["sharefilesop"] = "pv_zexit" /\ op' = op
  BY <1>p, <1>1, GotoFacts DEF op
<1>3. PICK x \in ShareKey, n \in Int : x = MemberOf(op.key) /\ n = op.count
  BY <1>p, <1>1, AtWork DEF op
<1>4. \A k \in Sharers(x) : FirstRow(share_file_list, k) = n
  BY <1>1, <1>3 DEF DownloadsKnown, DownloadsAre
<1>5. /\ \A k \in FileKey : /\ HasRow(share_file_list, k)' <=> HasRow(share_file_list, k)
                            /\ Len(share_file_list[k])' = Len(share_file_list[k])
      /\ \A k \in Sharers(x) : FirstRow(share_file_list, k)' = n + 1
      /\ \A k \in FileKey : k \notin Sharers(x) => share_file_list'[k] = share_file_list[k]
      /\ Sharers(x)' = Sharers(x)
  <2>1. PICK v \in Int : v = n + 1
    OBVIOUS
  <2>2. share_file_list' = UpdateAmong(share_file_list, Sharers(x), v)
    BY <1>1, <1>3, <2>1
  <2> QED
    BY <2>1, <2>2, SharersUpdated
<1>6. OneSharer'
  BY <1>5 DEF ScoresRight, OneSharer
<1>7. \A k \in Sharers(x) : n >= 0 /\ (x \in zset => score[x] <= n)
  <2>1. /\ \A k \in Sharers(x) : FirstRow(share_file_list, k) >= 0
        /\ x \in zset => \A k \in Sharers(x) : score[x] <= FirstRow(share_file_list, k)
    BY <1>s, RightMeans DEF BelowRow
  <2> QED
    BY <1>4, <2>1
<1>8. ASSUME NEW k \in FileKey, HasRow(share_file_list, k)' PROVE ScoreBelow(k)'
  <2>1. CASE k \in Sharers(x)
    <3>1. MemberOf(k) = x /\ FirstRow(share_file_list, k)' = n + 1
      BY <1>5, <2>1 DEF Sharers
    <3>2. score[x] \in Int
      BY DEF TypeOK, StoresTypeOK
    <3>3. n + 1 >= 0 /\ (x \in zset => score[x] <= n + 1)
      BY <1>7, <2>1, <3>2
    <3> QED
      BY <1>1, <3>1, <3>3 DEF ScoreBelow
  <2>2. CASE k \notin Sharers(x)
    <3>1. /\ HasRow(share_file_list, k)
          /\ FirstRow(share_file_list, k)' = FirstRow(share_file_list, k)
      BY <1>5, <1>8, <2>2 DEF FirstRow
    <3>2. /\ FirstRow(share_file_list, k) >= 0
          /\ \/ MemberOf(k) \notin zset
             \/ score[MemberOf(k)] <= FirstRow(share_file_list, k)
      BY <1>s, <3>1 DEF ScoresRight, ScoreBelow, RowAwaited
    <3> QED
      BY <1>1, <3>1, <3>2 DEF ScoreBelow
  <2> QED
    BY <2>1, <2>2
<1>9. \A k \in FileKey : ScoreBelow(k)'
  BY <1>8 DEF ScoreBelow
<1>10. DownloadsKnown'
  <2>1. /\ \A k \in Sharers(x)' : FirstRow(share_file_list, k)' = n + 1
        /\ Sharers(x)' # {} /\ x \in zset' => score'[x] <= n
    BY <1>1, <1>5, <1>7
  <2>2. MemberOf(op.key)' = x /\ op'.count = n
    BY <1>2, <1>3 DEF MemberOf
  <2> QED
    BY <1>s, <1>2, <2>1, <2>2 DEF DownloadsKnown, DownloadsAre
<1> QED
  BY <1>6, <1>9, <1>10 DEF ScoresRight

\* pv_file: the score follows the row, by one or up to it.
LEMMA PvScores ==
  ASSUME TypeOK, OneAtATime, ScoresRight, DownloadsKnown, PvStep, ~Fault
  PROVE  ScoresRight' /\ DownloadsKnown'
<1>p. "sharefilesop" \in Programs /\ ControlTypeOK
  BY DEF Programs, TypeOK
<1>s. /\ \A x : ~RowAwaited(x) /\ ~RowAwaited(x)'
      /\ pc'["filesop"] = "idle" /\ pc'["sharefiles"] = "idle"
      /\ pc'["sharefilesop"] \notin {"pv_update", "pv_zexit", "pv_zincr", "pv_zadd"}
           => DownloadsKnown'
  BY StepsOf, ShareOpReads DEF ShareOpStep
<1>w. pc["sharefilesop"] # "idle"
  BY DEF PvStep, PvSelect, PvUpdate, PvZexit, PvZincr, PvZadd, PvHset
<1>k. op \in Locals /\ MemberOf(op.key) \in ShareKey /\ op.count \in Int
  BY <1>p, <1>w, AtWork DEF op
<1>1. CASE PvSelect
  <2>1. UNCHANGED <<share_file_list, zset, score>>
    BY <1>1 DEF PvSelect, mysql, redis
  <2>2. DownloadsKnown'
    <3>1. CASE \E c : Finish("sharefilesop", c)
      <4>1. pc'["sharefilesop"] = "idle"
        BY <1>p, <3>1, FinishFacts
      <4> QED
        BY <1>s, <4>1
    <3>2. CASE \E o \in Sharers(MemberOf(op.key)) :
                 Goto("sharefilesop", "pv_update",
                      [op EXCEPT !.count = FirstRow(share_file_list, o)])
      <4>1. PICK o \in Sharers(MemberOf(op.key)) :
                   Goto("sharefilesop", "pv_update",
                        [op EXCEPT !.count = FirstRow(share_file_list, o)])
        BY <3>2
      <4>2. pc'["sharefilesop"] = "pv_update"
            /\ op' = [op EXCEPT !.count = FirstRow(share_file_list, o)]
        BY <1>p, <4>1, GotoFacts DEF op
      <4>3. op'.key = op.key /\ op'.count = FirstRow(share_file_list, o)
        BY <1>k, <4>2 DEF Locals
      <4>4. \A k \in Sharers(MemberOf(op.key)) : k = o
        BY <4>1, RightMeans
      <4>5. MemberOf(op.key)' = MemberOf(op.key) /\ Sharers(MemberOf(op.key))' = Sharers(MemberOf(op.key))
        BY <2>1, <4>3 DEF Sharers, MemberOf, HasRow
      <4>6. \A k \in Sharers(MemberOf(op.key))' : FirstRow(share_file_list, k)' = op'.count
        BY <2>1, <4>3, <4>4, <4>5 DEF FirstRow
      <4> QED
        BY <1>s, <4>2, <4>6 DEF DownloadsKnown, DownloadsAre
    <3> QED
      BY <1>1, <3>1, <3>2 DEF PvSelect, ShareOpFails
  <2> QED
    BY <1>s, <2>1, <2>2, ScoresUntouched
<1>2. CASE PvUpdate
  BY <1>2, UpdateScores
<1>3. CASE PvZexit
  <2>1. UNCHANGED <<share_file_list, zset, score>> /\ pc["sharefilesop"] = "pv_zexit"
    BY <1>3 DEF PvZexit, mysql, redis
  <2>2. DownloadsKnown'
    <3>1. CASE \E c : Finish("sharefilesop", c)
      <4>1. pc'["sharefilesop"] = "idle"
        BY <1>p, <3>1, FinishFacts
      <4> QED
        BY <1>s, <4>1
    <3>2. CASE \/ Goto("sharefilesop", "pv_zincr", op) /\ ZLexCount(MemberOf(op.key)) = 1
               \/ Goto("sharefilesop", "pv_zadd", op)
      <4>1. /\ pc'["sharefilesop"] \in {"pv_zincr", "pv_zadd"} /\ op' = op
            /\ pc'["sharefilesop"] = "pv_zincr" => ZLexCount(MemberOf(op.key)) = 1
        BY <1>p, <3>2, GotoFacts DEF op
      <4>2. ZLexCount(MemberOf(op.key)) = 1 => MemberOf(op.key) \in zset
        BY DEF ZLexCount
      <4>3. /\ \A k \in Sharers(MemberOf(op.key)) : FirstRow(share_file_list, k) = op.count + 1
            /\ Sharers(MemberOf(op.key)) # {} /\ MemberOf(op.key) \in zset
                 => score[MemberOf(op.key)] <= op.count
        BY <2>1 DEF DownloadsKnown, DownloadsAre
      <4>4. Sharers(MemberOf(op.key))' = Sharers(MemberOf(op.key)) /\ MemberOf(op.key)' = MemberOf(op.key)
        BY <2>1, <4>1 DEF Sharers, HasRow, MemberOf
      <4>5. /\ \A k \in Sharers(MemberOf(op.key))' : FirstRow(share_file_list, k)' = op'.count + 1
            /\ Sharers(MemberOf(op.key))' # {} /\ MemberOf(op.key)' \in zset'
                 => score'[MemberOf(op.key)'] <= op'.count
        BY <2>1, <4>1, <4>3, <4>4 DEF FirstRow
      <4> QED
        BY <1>s, <2>1, <4>1, <4>2, <4>4, <4>5 DEF DownloadsKnown, DownloadsAre
    <3> QED
      BY <1>3, <3>1, <3>2 DEF PvZexit, ShareOpFails
  <2> QED
    BY <1>s, <2>1, <2>2, ScoresUntouched
<1>4. CASE PvZincr \/ PvZadd
  <2>1. PICK x \in ShareKey : x = MemberOf(op.key)
    BY <1>k
  <2>2. /\ \A k \in Sharers(x) : FirstRow(share_file_list, k) = op.count + 1
        /\ Sharers(x) # {} /\ x \in zset => score[x] <= op.count
        /\ PvZincr => x \in zset
    BY <1>4, <2>1 DEF PvZincr, PvZadd, DownloadsKnown, DownloadsAre
  <2>3. score[x] \in Int
    BY DEF TypeOK, StoresTypeOK
  <2>4. PICK n \in Int : /\ ZAdd(x, n) /\ \A k \in Sharers(x) : n <= FirstRow(share_file_list, k)
    <3>1. CASE PvZincr
      <4>1. ZAdd(x, score[x] + 1)
        BY <2>1, <3>1 DEF PvZincr
      <4>2. \A k \in Sharers(x) : score[x] + 1 <= FirstRow(share_file_list, k)
        BY <1>k, <2>2, <2>3, <3>1
      <4>3. score[x] + 1 \in Int
        BY <2>3
      <4> QED
        BY <4>1, <4>2, <4>3
    <3>2. CASE PvZadd
      <4>1. ZAdd(x, op.count + 1)
        BY <2>1, <3>2 DEF PvZadd
      <4>2. op.count + 1 \in Int /\ \A k \in Sharers(x) : op.count + 1 <= FirstRow(share_file_list, k)
        BY <1>k, <2>2
      <4> QED
        BY <4>1, <4>2
    <3> QED
      BY <1>4, <3>1, <3>2
  <2>5. UNCHANGED share_file_list /\ (Finish("sharefilesop", "017") \/ Goto("sharefilesop", "pv_hset", op))
    BY <1>4 DEF PvZincr, PvZadd, mysql
  <2>6. \A y \in zset' : (y \in zset /\ score'[y] = score[y]) \/ BelowRow(y)'
    BY <2>4, <2>5, MemberSet
  <2>7. pc'["sharefilesop"] \in {"idle", "pv_hset"}
    BY <1>p, <2>5, GotoFacts, FinishFacts
  <2> QED
    BY <1>s, <2>5, <2>6, <2>7, ScoresStay
<1>5. CASE PvHset
  <2>1. UNCHANGED <<share_file_list, zset, score>> /\ Finish("sharefilesop", "016")
    BY <1>5 DEF PvHset, mysql
  <2>2. pc'["sharefilesop"] = "idle"
    BY <1>p, <2>1, FinishFacts
  <2> QED
    BY <1>s, <2>1, <2>2, ScoresUntouched
<1> QED
  BY <1>1, <1>2, <1>3, <1>4, <1>5 DEF PvStep

\* The rows that get_ranking_filelist selects have the downloads of their files.
LEMMA RowsSelected ==
  ASSUME TypeOK, ScoresRight, NEW r \in SharedRows
  PROVE  DownloadsAre(r.member, r.pv)
<1>1. PICK k \in FileKey :
        r \in {[member |-> MemberOf(k), pv |-> share_file_list[k][i]] :
                 i \in 1..Len(share_file_list[k])}
  BY DEF SharedRows
<1>2. PICK i \in 1..Len(share_file_list[k]) : r = [member |-> MemberOf(k), pv |-> share_file_list[k][i]]
  BY <1>1
<1>3. share_file_list[k] \in Seq(Int) /\ Len(share_file_list[k]) <= 1
  BY DEF TypeOK, TablesTypeOK, ScoresRight, OneSharer
<1>4. i = 1 /\ share_file_list[k] # <<>>
  BY <1>3
<1>5. r.member = MemberOf(k) /\ r.pv = FirstRow(share_file_list, k)
  BY <1>2, <1>4 DEF FirstRow
<1>6. k \in Sharers(MemberOf(k))
  BY <1>4 DEF Sharers, HasRow
<1>7. \A j \in Sharers(MemberOf(k)) : j = k
  BY <1>6, RightMeans
<1> QED
  BY <1>5, <1>7 DEF DownloadsAre

\* get_ranking_filelist sets each score to the downloads of the row.
LEMMA RankScores ==
  ASSUME TypeOK, OneAtATime, ScoresRight, DownloadsKnown, ShareListStep, ~Fault
  PROVE  ScoresRight' /\ DownloadsKnown'
<1>p. "sharefiles" \in Programs /\ ControlTypeOK
  BY DEF Programs, TypeOK
<1>o. /\ pc["filesop"] = "idle" /\ pc'["filesop"] = "idle" /\ pc'["sharefilesop"] = "idle"
      /\ UNCHANGED share_file_list
  <2>1. StepOf("sharefiles")
    BY StepsOf
  <2> QED
    BY <1>p, <2>1, StepAlone, ShareListFacts DEF Programs, mysql
<1>d. pc'["sharefiles"] \notin {"rk_zadd", "rk_hset"} => DownloadsKnown'
  BY <1>o DEF DownloadsKnown
<1>w. \A x : ~RowAwaited(x)
  BY <1>o DEF RowAwaited, Sharing
<1>a. \A x, n : DownloadsAre(x, n) => DownloadsAre(x, n)'
  BY <1>o DEF DownloadsAre, Sharers, FirstRow, HasRow
<1>r. ASSUME \A r \in rk'.rows : DownloadsAre(r.member, r.pv) PROVE DownloadsKnown'
  BY <1>a, <1>o, <1>r DEF DownloadsKnown
<1>k. rk \in Locals /\ rk.rows \in SUBSET ShareRow
  BY <1>p DEF ControlTypeOK, rk, Locals
<1>1. CASE \/ ListCount \/ ListNormal \/ RankSelect \/ RankZcard \/ RankDelHash \/ RankRange
           \/ RankHget \/ RankScore
  <2>1. UNCHANGED <<zset, score>>
    BY <1>1 DEF ListCount, ListNormal, RankSelect, RankZcard, RankDelHash, RankRange, RankHget,
                RankScore, redis
  <2>2. \/ \E c : Finish("sharefiles", c)
        \/ \E l \in {"rk_zcard", "rk_range", "rk_delzset", "rk_rows", "rk_hget", "rk_score"} : \E v :
             Goto("sharefiles", l, v)
    BY <1>1 DEF ListCount, ListNormal, RankSelect, RankZcard, RankDelHash, RankRange, RankHget,
                RankScore, ListFails
  <2>3. pc'["sharefiles"] \notin {"rk_zadd", "rk_hset"}
    BY <1>p, <2>2, GotoFacts, FinishFacts
  <2> QED
    BY <1>d, <1>o, <1>w, <2>1, <2>3, ScoresUntouched
<1>2. CASE RankDelZset
  <2>1. zset' = {} /\ Goto("sharefiles", "rk_delhash", rk)
    BY <1>2 DEF RankDelZset
  <2>2. pc'["sharefiles"] = "rk_delhash"
    BY <1>p, <2>1, GotoFacts
  <2> QED
    BY <1>d, <1>o, <1>w, <2>1, <2>2, ScoresStay
<1>3. CASE RankRows
  <2>1. UNCHANGED <<zset, score>>
    BY <1>3 DEF RankRows, redis
  <2>2. CASE Finish("sharefiles", "015")
    <3>1. pc'["sharefiles"] = "idle"
      BY <1>p, <2>2, FinishFacts
    <3> QED
      BY <1>d, <1>o, <1>w, <2>1, <3>1, ScoresUntouched
  <2>3. CASE Goto("sharefiles", "rk_zadd", [rk EXCEPT !.rows = SharedRows])
    <3>1. rk' = [rk EXCEPT !.rows = SharedRows]
      BY <1>p, <2>3, GotoFacts DEF rk
    <3>2. rk'.rows = SharedRows
      BY <1>k, <3>1 DEF Locals
    <3> QED
      BY <1>o, <1>r, <1>w, <2>1, <3>2, RowsSelected, ScoresUntouched
  <2> QED
    BY <1>3, <2>2, <2>3 DEF RankRows, ListFails
<1>4. CASE RankZadd
  <2>1. PICK r \in rk.rows : ZAdd(r.member, r.pv) /\ Goto("sharefiles", "rk_hset", AtRow(r))
    BY <1>4 DEF RankZadd
  <2>2. \A o \in rk.rows : DownloadsAre(o.member, o.pv)
    BY <1>4 DEF RankZadd, DownloadsKnown
  <2>3. PICK x \in ShareKey, n \in Int : x = r.member /\ n = r.pv
    BY <1>k DEF ShareRow
  <2>4. ZAdd(x, n) /\ \A k \in Sharers(x) : n <= FirstRow(share_file_list, k)
    BY <2>1, <2>2, <2>3 DEF DownloadsAre
  <2>5. \A y \in zset' : (y \in zset /\ score'[y] = score[y]) \/ BelowRow(y)'
    BY <1>o, <2>4, MemberSet
  <2>6. ScoresRight'
    BY <1>o, <1>w, <2>5, ScoresStay
  <2>7. rk' = AtRow(r)
    BY <1>p, <2>1, GotoFacts DEF rk
  <2>8. rk'.rows = rk.rows \ {r}
    BY <1>k, <2>7 DEF AtRow, Locals
  <2> QED
    BY <1>r, <2>2, <2>6, <2>8
<1>5. CASE RankHset
  <2>1. /\ UNCHANGED <<zset, score>>
        /\ Goto("sharefiles", IF rk.rows = {} THEN "rk_range" ELSE "rk_zadd", rk)
    BY <1>5 DEF RankHset
  <2>2. rk' = rk
    BY <1>p, <2>1, GotoFacts DEF rk
  <2>3. \A r \in rk'.rows : DownloadsAre(r.member, r.pv)
    BY <1>5, <2>2 DEF RankHset, DownloadsKnown
  <2> QED
    BY <1>o, <1>r, <1>w, <2>1, <2>3, ScoresUntouched
<1> QED
  BY <1>1, <1>2, <1>3, <1>4, <1>5 DEF ShareListStep

LEMMA NextScores == Serial /\ TypeOK /\ OneAtATime /\ ScoresInv /\ [Next]_vars => ScoresInv'
<1> SUFFICES ASSUME Serial, TypeOK, OneAtATime, ScoresInv, [Next]_vars, faults' = 0
             PROVE  ScoresRight' /\ DownloadsKnown'
  BY DEF ScoresInv, ScoresRight
<1>1. faults = 0 /\ ~Fault
  <2>1. faults \in Nat
    BY ConstantsAssumption DEF TypeOK, ControlTypeOK
  <2> QED
    BY <2>1, FaultsGrow DEF Fault
<1>2. ScoresRight /\ DownloadsKnown
  BY <1>1 DEF ScoresInv, ScoresRight
<1>3. CASE Request
  BY <1>2, <1>3, RequestScores
<1>4. CASE UploadStep \/ Md5Step
  BY <1>2, <1>4, ApartScores
<1>5. CASE FilesOpStep
  BY <1>1, <1>2, <1>5, DelScores, ShareScores DEF FilesOpStep
<1>6. CASE ShareOpStep
  BY <1>1, <1>2, <1>6, PvScores, CancelScores DEF ShareOpStep
<1>7. CASE ShareListStep
  BY <1>1, <1>2, <1>7, RankScores
<1>8. CASE \E p \in Programs : Crash(p)
  BY <1>1, <1>8 DEF Crash
<1>9. CASE UNCHANGED vars
  <2>1. UNCHANGED <<user_file_count, share_file_list, zset, score, pc, loc>>
    BY <1>9 DEF vars, mysql, redis
  <2>2. \A x : RowAwaited(x)' <=> RowAwaited(x)
    BY <2>1 DEF RowAwaited, Sharing, me
  <2>3. DownloadsKnown'
    BY <1>2, <2>1 DEF DownloadsKnown, DownloadsAre, Sharers, SharedByAnyone, HasRow, FirstRow,
                      me, op, rk
  <2> QED
    BY <1>2, <2>1, <2>2, <2>3, ScoresUntouched
<1> QED
  BY <1>3, <1>4, <1>5, <1>6, <1>7, <1>8, <1>9 DEF Next, Done

LEMMA InitScores == Init => OneAtATime /\ ScoresInv
<1> SUFFICES ASSUME Init PROVE OneAtATime /\ ScoresInv
  OBVIOUS
<1>1. \A k \in FileKey : share_file_list[k] = <<>>
  BY DEF Init
<1>2. \A p \in Programs : pc[p] = "idle"
  BY DEF Init
<1>3. Len(<<>>) <= 1
  OBVIOUS
<1>4. OneSharer /\ \A k \in FileKey : ScoreBelow(k)
  BY <1>1, <1>3 DEF OneSharer, ScoreBelow, HasRow
<1>5. DownloadsKnown
  BY <1>2 DEF DownloadsKnown, Programs
<1> QED
  BY <1>2, <1>4, <1>5 DEF OneAtATime, ScoresInv

LEMMA ScoresMean == TypeOK /\ ScoresInv => ScoresNotAbove
<1> SUFFICES ASSUME TypeOK, ScoresInv, Quiet, faults = 0, NEW x \in zset \cap SharedMembers
             PROVE  score[x] <= Downloads(x)
  BY DEF ScoresNotAbove
<1>1. ScoresRight
  BY DEF ScoresInv, ScoresRight
<1>2. PICK k \in Sharers(x) : TRUE
  BY DEF SharedMembers
<1>3. \A j \in Sharers(x) : j = k
  BY <1>1, <1>2, RightMeans
<1>4. ~RowAwaited(x)
  BY DEF RowAwaited, Sharing, Quiet, Programs
<1>5. score[x] <= FirstRow(share_file_list, k)
  BY <1>1, <1>2, <1>4, RightMeans DEF BelowRow
<1>6. {FirstRow(share_file_list, j) : j \in Sharers(x)} = {FirstRow(share_file_list, k)}
  BY <1>2, <1>3
<1>7. FirstRow(share_file_list, k) \in Int
  <2>1. share_file_list \in [FileKey -> Seq(Int)]
    BY DEF TypeOK, TablesTypeOK
  <2> QED
    BY <1>2, <2>1, FirstRowFacts DEF Sharers
<1>8. Downloads(x) = FirstRow(share_file_list, k)
  BY <1>6, <1>7 DEF Downloads, Max
<1> QED
  BY <1>5, <1>8

\* For any constants, when the clients wait for each other's answers: as long as
\* nothing has failed, the ranking shows no more downloads of a shared file than
\* share_file_list has counted.
THEOREM ScoresNeverAhead ==
  ASSUME Serial
  PROVE  Spec => []ScoresNotAbove
<1>1. Init => OneAtATime /\ ScoresInv
  BY InitScores
<1>2. TypeOK /\ OneAtATime /\ ScoresInv /\ [Next]_vars => OneAtATime' /\ ScoresInv'
  BY NextAlone, NextScores
<1>3. TypeOK /\ ScoresInv => ScoresNotAbove
  BY ScoresMean
<1> QED
  BY <1>1, <1>2, <1>3, TypeCorrect, PTL DEF Spec
=============================================================================
