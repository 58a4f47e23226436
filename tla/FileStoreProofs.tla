--------------------------- MODULE FileStoreProofs ---------------------------
(***************************************************************************)
(* Proofs about FileStore, for any users, contents, names and file ids,    *)
(* any number of requests and failures, with or without keys in the        *)
(* schema, for all commands and clients.                                   *)
(***************************************************************************)
EXTENDS FileStore, TLAPS

------------------------------------------------------------------------------
(* The statements of Tables *)

\* An insert keeps the table's type, appends the row to its key and leaves the
\* other keys alone.
LEMMA InsertFacts ==
  ASSUME NEW K, NEW R, NEW t \in [K -> Seq(R)], NEW k \in K, NEW r \in R
  PROVE  /\ Insert(t, k, r) \in [K -> Seq(R)]
         /\ Len(Insert(t, k, r)[k]) = Len(t[k]) + 1
         /\ \A i \in 1..Len(t[k]) : Insert(t, k, r)[k][i] = t[k][i]
         /\ Insert(t, k, r)[k][Len(t[k]) + 1] = r
         /\ \A j \in K : j # k => Insert(t, k, r)[j] = t[j]
  BY DEF Insert

\* A delete keeps the type, leaves no row of its key and the other keys alone.
LEMMA DeleteFacts ==
  ASSUME NEW K, NEW R, NEW t \in [K -> Seq(R)], NEW k \in K
  PROVE  /\ DeleteWhere(t, k) \in [K -> Seq(R)]
         /\ Len(DeleteWhere(t, k)[k]) = 0
         /\ \A j \in K : j # k => DeleteWhere(t, k)[j] = t[j]
  BY DEF DeleteWhere

\* An update keeps the type and the number of rows, and sets the rows of its
\* key.
LEMMA UpdateFacts ==
  ASSUME NEW K, NEW R, NEW t \in [K -> Seq(R)], NEW k \in K, NEW v \in R
  PROVE  /\ UpdateWhere(t, k, v) \in [K -> Seq(R)]
         /\ Len(UpdateWhere(t, k, v)[k]) = Len(t[k])
         /\ \A i \in 1..Len(t[k]) : UpdateWhere(t, k, v)[k][i] = v
         /\ \A j \in K : j # k => UpdateWhere(t, k, v)[j] = t[j]
<1> DEFINE s == [i \in 1..Len(t[k]) |-> v]
<1>1. t[k] \in Seq(R) /\ Len(t[k]) \in Nat
  OBVIOUS
<1>2. s \in Seq(R) /\ Len(s) = Len(t[k]) /\ \A i \in 1..Len(t[k]) : s[i] = v
  BY <1>1
<1>3. UpdateWhere(t, k, v) = [t EXCEPT ![k] = s]
  BY DEF UpdateWhere
<1> QED
  BY <1>2, <1>3

\* An update of several keys keeps the table's type.
LEMMA UpdateAmongType ==
  ASSUME NEW K, NEW R, NEW t \in [K -> Seq(R)], NEW ks, NEW v \in R
  PROVE  UpdateAmong(t, ks, v) \in [K -> Seq(R)]
<1>1. ASSUME NEW k \in K
      PROVE  [i \in 1..Len(t[k]) |-> v] \in Seq(R)
  <2>1. t[k] \in Seq(R) /\ Len(t[k]) \in Nat
    OBVIOUS
  <2> QED
    BY <2>1
<1> QED
  BY <1>1 DEF UpdateAmong

\* A row whose count is set is a row with the same object and url.
LEMMA SetCountFacts ==
  ASSUME NEW r \in FileRow, NEW n \in Int
  PROVE  /\ [r EXCEPT !.count = n] \in FileRow
         /\ [r EXCEPT !.count = n].file_id = r.file_id
         /\ [r EXCEPT !.count = n].url = r.url
  BY DEF FileRow

\* An update of the references changes no other column.
LEMMA UpdateCountFacts ==
  ASSUME NEW t \in [Md5s -> Seq(FileRow)], NEW k \in Md5s, NEW n \in Int
  PROVE  /\ UpdateCountWhere(t, k, n) \in [Md5s -> Seq(FileRow)]
         /\ \A m \in Md5s : Len(UpdateCountWhere(t, k, n)[m]) = Len(t[m])
         /\ \A m \in Md5s : \A i \in 1..Len(t[m]) :
              /\ UpdateCountWhere(t, k, n)[m][i].file_id = t[m][i].file_id
              /\ UpdateCountWhere(t, k, n)[m][i].url = t[m][i].url
<1> DEFINE s == [i \in 1..Len(t[k]) |-> [t[k][i] EXCEPT !.count = n]]
<1>1. t[k] \in Seq(FileRow) /\ Len(t[k]) \in Nat
  OBVIOUS
<1>2. \A i \in 1..Len(t[k]) :
        /\ [t[k][i] EXCEPT !.count = n] \in FileRow
        /\ [t[k][i] EXCEPT !.count = n].file_id = t[k][i].file_id
        /\ [t[k][i] EXCEPT !.count = n].url = t[k][i].url
  <2> SUFFICES ASSUME NEW i \in 1..Len(t[k])
             PROVE  /\ [t[k][i] EXCEPT !.count = n] \in FileRow
                    /\ [t[k][i] EXCEPT !.count = n].file_id = t[k][i].file_id
                    /\ [t[k][i] EXCEPT !.count = n].url = t[k][i].url
    OBVIOUS
  <2>1. t[k][i] \in FileRow
    BY <1>1
  <2> QED
    BY <2>1, SetCountFacts
<1>3. s \in Seq(FileRow) /\ Len(s) = Len(t[k])
  BY <1>1, <1>2
<1>4. UpdateCountWhere(t, k, n) = [t EXCEPT ![k] = s]
  BY DEF UpdateCountWhere
<1> HIDE DEF s
<1>5. \A i \in 1..Len(t[k]) : s[i].file_id = t[k][i].file_id /\ s[i].url = t[k][i].url
  BY <1>2 DEF s
<1> QED
  BY <1>3, <1>4, <1>5

\* The first row of a key that has one is a row of the table.
LEMMA FirstRowFacts ==
  ASSUME NEW K, NEW R, NEW t \in [K -> Seq(R)], NEW k \in K, HasRow(t, k)
  PROVE  FirstRow(t, k) \in R /\ Len(t[k]) >= 1 /\ 1 \in 1..Len(t[k])
  BY DEF FirstRow, HasRow

------------------------------------------------------------------------------
(* Control *)

LEMMA BlankType == Blank \in Locals
  BY DEF Blank, Locals

\* Where each program may be.
LEMMA LabelFacts ==
  /\ "upload" \in Programs /\ LabelsOf("upload") = UploadLabels
  /\ "md5" \in Programs /\ LabelsOf("md5") = Md5Labels
  /\ "filesop" \in Programs /\ LabelsOf("filesop") = DelLabels \cup ShareLabels
  /\ "sharefilesop" \in Programs /\ LabelsOf("sharefilesop") = ShareOpLabels
  /\ "sharefiles" \in Programs /\ LabelsOf("sharefiles") = ShareListLabels
  /\ \A p \in Programs : LabelsOf(p) \subseteq Labels
<1>1. /\ LabelsOf("upload") = UploadLabels
      /\ LabelsOf("md5") = Md5Labels
      /\ LabelsOf("filesop") = DelLabels \cup ShareLabels
      /\ LabelsOf("sharefilesop") = ShareOpLabels
      /\ LabelsOf("sharefiles") = ShareListLabels
  BY DEF LabelsOf
<1> QED
  BY <1>1 DEF Programs, Labels

\* A step of one program that leaves it with typed locals keeps the types.
LEMMA ControlStepType ==
  ASSUME ControlTypeOK, NEW p \in Programs, NEW l \in {"idle"} \cup LabelsOf(p),
         NEW v \in Locals,
         pc' = [pc EXCEPT ![p] = l], loc' = [loc EXCEPT ![p] = v],
         p # "sharefiles" /\ l # "idle" => v.key \in FileKey,
         l \in {"up_url", "up_info"} => v.fileid \in FileIds,
         l = "rk_hset" => v.member \in ShareKey,
         served' \in 0..MaxRequests, faults' \in 0..MaxFaults
  PROVE  ControlTypeOK'
<1>1. l \in Labels
  BY LabelFacts DEF Labels
<1>2. /\ pc'[p] = l /\ loc'[p] = v
      /\ \A q \in Programs : q # p => pc'[q] = pc[q] /\ loc'[q] = loc[q]
  BY DEF ControlTypeOK
<1>3. pc' \in [Programs -> Labels] /\ loc' \in [Programs -> Locals]
  BY <1>1 DEF ControlTypeOK
<1>4. \A q \in Programs : pc'[q] \in {"idle"} \cup LabelsOf(q)
  <2> SUFFICES ASSUME NEW q \in Programs PROVE pc'[q] \in {"idle"} \cup LabelsOf(q)
    OBVIOUS
  <2>1. CASE q = p
    BY <1>2, <2>1
  <2>2. CASE q # p
    BY <1>2, <2>2 DEF ControlTypeOK
  <2> QED
    BY <2>1, <2>2
<1>5. \A q \in Programs \ {"sharefiles"} : pc'[q] # "idle" => loc'[q].key \in FileKey
  <2> SUFFICES ASSUME NEW q \in Programs \ {"sharefiles"}, pc'[q] # "idle"
               PROVE  loc'[q].key \in FileKey
    OBVIOUS
  <2>1. CASE q = p
    BY <1>2, <2>1
  <2>2. CASE q # p
    BY <1>2, <2>2 DEF ControlTypeOK
  <2> QED
    BY <2>1, <2>2
<1>6. pc'["upload"] \in {"up_url", "up_info"} => loc'["upload"].fileid \in FileIds
  <2>1. CASE p = "upload"
    BY <1>2, <2>1
  <2>2. CASE p # "upload"
    BY <1>2, <2>2, LabelFacts DEF ControlTypeOK
  <2> QED
    BY <2>1, <2>2
<1>7. pc'["sharefiles"] = "rk_hset" => loc'["sharefiles"].member \in ShareKey
  <2>1. CASE p = "sharefiles"
    BY <1>2, <2>1
  <2>2. CASE p # "sharefiles"
    BY <1>2, <2>2, LabelFacts DEF ControlTypeOK
  <2> QED
    BY <2>1, <2>2
<1> QED
  BY <1>3, <1>4, <1>5, <1>6, <1>7 DEF ControlTypeOK

\* Going on with typed locals keeps the types.
LEMMA GotoType ==
  ASSUME ControlTypeOK, NEW p \in Programs, NEW l \in LabelsOf(p), NEW v \in Locals,
         p = "sharefiles" \/ v.key \in FileKey, Goto(p, l, v), Fault \/ NoFault,
         l \in {"up_url", "up_info"} => v.fileid \in FileIds,
         l = "rk_hset" => v.member \in ShareKey
  PROVE  ControlTypeOK'
<1>1. served' \in 0..MaxRequests /\ faults' \in 0..MaxFaults
  BY ConstantsAssumption DEF ControlTypeOK, Goto, Fault, NoFault
<1>2. pc' = [pc EXCEPT ![p] = l] /\ loc' = [loc EXCEPT ![p] = v]
  BY DEF Goto
<1> QED
  BY <1>1, <1>2, ControlStepType

\* A program that has ended its request is idle with blank locals.
LEMMA IdleType ==
  ASSUME ControlTypeOK, NEW p \in Programs,
         pc' = [pc EXCEPT ![p] = "idle"], loc' = [loc EXCEPT ![p] = Blank],
         UNCHANGED served, Fault \/ NoFault
  PROVE  ControlTypeOK'
<1>1. served' \in 0..MaxRequests /\ faults' \in 0..MaxFaults
  BY ConstantsAssumption DEF ControlTypeOK, Fault, NoFault
<1> QED
  BY <1>1, BlankType, ControlStepType

LEMMA FinishType ==
  ASSUME ControlTypeOK, NEW p \in Programs, NEW c, Finish(p, c), Fault \/ NoFault
  PROVE  ControlTypeOK'
  BY IdleType DEF Finish

\* Accepting a request keeps the types.
LEMMA AcceptType ==
  ASSUME ControlTypeOK, NEW p \in Programs, NEW k \in FileKey \cup {NoKey},
         NEW l \in LabelsOf(p), p = "sharefiles" \/ k \in FileKey,
         Accept(p, k, l), l \notin {"up_url", "up_info", "rk_hset"}
  PROVE  ControlTypeOK'
<1>0. loc[p] \in Locals
  BY DEF ControlTypeOK
<1>1. [loc[p] EXCEPT !.key = k] \in Locals
  BY <1>0 DEF Locals
<1>a. [loc[p] EXCEPT !.key = k].key = k
  BY <1>0 DEF Locals
<1>2. /\ loc' = [loc EXCEPT ![p] = [loc[p] EXCEPT !.key = k]]
      /\ pc' = [pc EXCEPT ![p] = l]
  BY DEF Accept, ControlTypeOK
<1>3. served' \in 0..MaxRequests /\ faults' \in 0..MaxFaults
  BY ConstantsAssumption DEF ControlTypeOK, Accept
<1> DEFINE v == [loc[p] EXCEPT !.key = k]
<1>4. v \in Locals /\ v.key = k /\ loc' = [loc EXCEPT ![p] = v]
  BY <1>1, <1>2, <1>a
<1> HIDE DEF v
<1> QED
  BY <1>2, <1>3, <1>4, ControlStepType

\* Assigning typed values to locals keeps them locals of the same file.
LEMMA LocalsFileid ==
  ASSUME NEW v \in Locals, NEW f \in FileIds
  PROVE  /\ [v EXCEPT !.fileid = f] \in Locals
         /\ [v EXCEPT !.fileid = f].key = v.key
<1>1. [v EXCEPT !.fileid = f] \in Locals
  BY DEF Locals
<1>2. [v EXCEPT !.fileid = f].key = v.key
  BY DEF Locals
<1> QED
  BY <1>1, <1>2

LEMMA LocalsCount ==
  ASSUME NEW v \in Locals, NEW c \in Int
  PROVE  /\ [v EXCEPT !.count = c] \in Locals
         /\ [v EXCEPT !.count = c].key = v.key
<1>1. [v EXCEPT !.count = c] \in Locals
  BY DEF Locals
<1>2. [v EXCEPT !.count = c].key = v.key
  BY DEF Locals
<1> QED
  BY <1>1, <1>2

LEMMA LocalsSql ==
  ASSUME NEW v \in Locals, NEW s \in {"insert", "select"}
  PROVE  /\ [v EXCEPT !.sql = s] \in Locals
         /\ [v EXCEPT !.sql = s].key = v.key
<1>1. [v EXCEPT !.sql = s] \in Locals
  BY DEF Locals
<1>2. [v EXCEPT !.sql = s].key = v.key
  BY DEF Locals
<1> QED
  BY <1>1, <1>2

LEMMA LocalsShare ==
  ASSUME NEW v \in Locals
  PROVE  /\ [v EXCEPT !.share = 1] \in Locals
         /\ [v EXCEPT !.share = 1].key = v.key
<1>1. [v EXCEPT !.share = 1] \in Locals
  BY DEF Locals
<1>2. [v EXCEPT !.share = 1].key = v.key
  BY DEF Locals
<1> QED
  BY <1>1, <1>2

LEMMA LocalsRows ==
  ASSUME NEW v \in Locals, NEW r \in SUBSET ShareRow
  PROVE  /\ [v EXCEPT !.rows = r] \in Locals
         /\ [v EXCEPT !.rows = r].key = v.key
<1>1. [v EXCEPT !.rows = r] \in Locals
  BY DEF Locals
<1>2. [v EXCEPT !.rows = r].key = v.key
  BY DEF Locals
<1> QED
  BY <1>1, <1>2

LEMMA LocalsPage ==
  ASSUME NEW v \in Locals, NEW g \in SUBSET ShareKey
  PROVE  /\ [v EXCEPT !.page = g] \in Locals
         /\ [v EXCEPT !.page = g].key = v.key
<1>1. [v EXCEPT !.page = g] \in Locals
  BY DEF Locals
<1>2. [v EXCEPT !.page = g].key = v.key
  BY DEF Locals
<1> QED
  BY <1>1, <1>2

\* A program at work has typed locals for a file.
LEMMA AtWork ==
  ASSUME ControlTypeOK, NEW p \in Programs, p # "sharefiles", pc[p] # "idle"
  PROVE  /\ loc[p] \in Locals
         /\ loc[p].key \in FileKey
         /\ loc[p].key.user \in Users
         /\ loc[p].key.md5 \in Md5s
         /\ loc[p].key.name \in Names
         /\ MemberOf(loc[p].key) \in ShareKey
         /\ loc[p].count \in Int
         /\ loc[p].url \in Seq(FileIds)
  BY DEF ControlTypeOK, Locals, FileKey, MemberOf, ShareKey

------------------------------------------------------------------------------
(* Type correctness *)

\* Reading the count that is to be incremented.
LEMMA SelectCountType ==
  ASSUME TypeOK, NEW p \in Programs, p # "sharefiles", NEW a \in Accounts,
         NEW from, NEW to \in LabelsOf(p), from # "idle",
         to \notin {"up_url", "up_info", "rk_hset"}, SelectCountToAdd(p, a, from, to)
  PROVE  TypeOK'
<1>1. ControlTypeOK /\ pc[p] # "idle"
  BY DEF TypeOK, SelectCountToAdd
<1>2. loc[p] \in Locals /\ loc[p].key \in FileKey
  BY <1>1, AtWork
<1>3. CASE /\ HasRow(user_file_count, a) /\ NoFault
           /\ Goto(p, to, [loc[p] EXCEPT !.sql = "update",
                                         !.count = FirstRow(user_file_count, a)])
  <2>1. FirstRow(user_file_count, a) \in Int
    BY <1>3, FirstRowFacts DEF TypeOK, TablesTypeOK
  <2>2. ControlTypeOK'
    <3> DEFINE v == [loc[p] EXCEPT !.sql = "update",
                                   !.count = FirstRow(user_file_count, a)]
    <3>1. v \in Locals
      BY <1>2, <2>1 DEF Locals
    <3>a. v.key \in FileKey
      BY <1>2 DEF Locals
    <3>2. Goto(p, to, v)
      BY <1>3
    <3> HIDE DEF v
    <3> QED
      BY <1>1, <1>3, <3>1, <3>2, <3>a, GotoType
  <2> QED
    BY <2>2 DEF TypeOK, TablesTypeOK, StoresTypeOK, SelectCountToAdd, mysql, redis, fdfs
<1>4. CASE NoFault /\ Goto(p, to, [loc[p] EXCEPT !.sql = "insert"])
  <2>1. ControlTypeOK'
    <3> DEFINE v == [loc[p] EXCEPT !.sql = "insert"]
    <3>1. v \in Locals /\ v.key \in FileKey
      BY <1>2, LocalsSql
    <3>2. Goto(p, to, v)
      BY <1>4
    <3> HIDE DEF v
    <3> QED
      BY <1>1, <1>4, <3>1, <3>2, GotoType
  <2> QED
    BY <2>1 DEF TypeOK, TablesTypeOK, StoresTypeOK, SelectCountToAdd, mysql, redis, fdfs
<1>5. CASE Fault /\ Goto(p, to, [loc[p] EXCEPT !.sql = "select"])
  <2>1. ControlTypeOK'
    <3> DEFINE v == [loc[p] EXCEPT !.sql = "select"]
    <3>1. v \in Locals /\ v.key \in FileKey
      BY <1>2, LocalsSql
    <3>2. Goto(p, to, v)
      BY <1>5
    <3> HIDE DEF v
    <3> QED
      BY <1>1, <1>5, <3>1, <3>2, GotoType
  <2> QED
    BY <2>1 DEF TypeOK, TablesTypeOK, StoresTypeOK, SelectCountToAdd, mysql, redis, fdfs
<1> QED
  BY <1>3, <1>4, <1>5 DEF SelectCountToAdd

\* Writing it.
LEMMA AddToCountType ==
  ASSUME TablesTypeOK, NEW p \in Programs, NEW a \in Accounts,
         loc[p].count \in Int, AddToCount(p, a)
  PROVE  user_file_count' \in [Accounts -> Seq(Int)]
<1>1. UpdateWhere(user_file_count, a, loc[p].count + 1) \in [Accounts -> Seq(Int)]
  BY UpdateFacts DEF TablesTypeOK
<1>2. Insert(user_file_count, a, 1) \in [Accounts -> Seq(Int)]
  BY InsertFacts DEF TablesTypeOK
<1> QED
  BY <1>1, <1>2 DEF AddToCount, TablesTypeOK

\* Steps that touch the control state alone.
LEMMA ReadOnlyType ==
  ASSUME TypeOK, ControlTypeOK', UNCHANGED <<mysql, redis, fdfs>>
  PROVE  TypeOK'
  BY DEF TypeOK, TablesTypeOK, StoresTypeOK, mysql, redis, fdfs

LEMMA UploadType ==
  ASSUME TypeOK, UploadStep
  PROVE  TypeOK'
<1> DEFINE p == "upload"
<1> USE DEF TypeOK
<1>p. p \in Programs /\ p # "sharefiles" /\ UploadLabels = LabelsOf(p)
  BY LabelFacts
<1>w. /\ pc[p] # "idle"
      /\ loc[p] \in Locals
      /\ loc[p].key \in FileKey
      /\ loc[p].key.user \in Users /\ loc[p].key.user \in Accounts
      /\ loc[p].key.md5 \in Md5s
      /\ loc[p].key.name \in Names
      /\ loc[p].count \in Int
      /\ loc[p].url \in Seq(FileIds)
  <2>1. pc[p] # "idle"
    BY DEF UploadStep, UploadRecv, UploadDstorage, UploadUrl, UploadInsertInfo,
           UploadInsertList, UploadSelectCount, SelectCountToAdd, UploadSetCount
  <2> QED
    BY <1>p, <2>1, AtWork DEF Accounts
<1>c. ASSUME NEW l \in UploadLabels, Goto(p, l, loc[p]), Fault \/ NoFault,
             l \in {"up_url", "up_info"} => loc[p].fileid # NoFile
      PROVE  ControlTypeOK'
  <2>1. l \in {"up_url", "up_info"} => loc[p].fileid \in FileIds
    BY <1>w, <1>c DEF Locals
  <2> QED
    BY <1>p, <1>w, <1>c, <2>1, GotoType DEF UploadLabels
<1>f. ASSUME NEW c, Finish(p, c), Fault \/ NoFault
      PROVE  ControlTypeOK'
  BY <1>p, <1>f, FinishType
<1> HIDE DEF p
<1>1. CASE UploadRecv
  <2>1. ControlTypeOK'
    BY <1>1, <1>c, <1>f DEF UploadRecv, UploadLabels, p
  <2> QED
    BY <1>1, <1>w, <2>1
       DEF UploadRecv, TablesTypeOK, StoresTypeOK, mysql, redis, p
<1>2. CASE UploadDstorage
  <2>1. /\ storage' \subseteq FileIds
        /\ content' \in [FileIds -> Md5s \cup {NoMd5}]
        /\ tmpfiles' \subseteq Names
    <3>1. ASSUME NEW f \in FileIds, DstorageStore(f)
          PROVE  storage' \subseteq FileIds /\ content' \in [FileIds -> Md5s \cup {NoMd5}]
      BY <1>w, <3>1 DEF DstorageStore, StoresTypeOK, p
    <3> QED
      BY <1>2, <3>1 DEF UploadDstorage, StoresTypeOK
  <2>2. ControlTypeOK'
    <3>1. ASSUME NEW f \in FileIds, NoFault,
                 Goto("upload", "up_url", [loc["upload"] EXCEPT !.fileid = f])
          PROVE  ControlTypeOK'
      <4>1. LET v == [loc[p] EXCEPT !.fileid = f]
            IN  v \in Locals /\ v.key = loc[p].key /\ v.fileid = f
        BY <1>w DEF Locals
      <4> QED
        BY <1>p, <1>w, <3>1, <4>1, GotoType DEF UploadLabels, p
    <3> QED
      BY <1>2, <1>c, <1>f, <3>1 DEF UploadDstorage, UploadLabels, p
  <2> QED
    BY <1>2, <2>1, <2>2 DEF UploadDstorage, TablesTypeOK, StoresTypeOK, mysql, redis
<1>3. CASE UploadUrl
  <2>1. ControlTypeOK'
    <3>1. CASE Fault /\ Finish("upload", "009")
      BY <3>1, <1>f DEF p
    <3>2. CASE /\ NoFault
               /\ Goto("upload", "up_info",
                       [loc["upload"] EXCEPT !.url = Append(@, loc["upload"].fileid)])
      <4>1. loc[p].fileid \in FileIds
        BY <1>3 DEF UploadUrl, ControlTypeOK, p
      <4>2. Append(loc[p].url, loc[p].fileid) \in Seq(FileIds)
        BY <1>w, <4>1
      <4>3. LET v == [loc[p] EXCEPT !.url = Append(@, loc[p].fileid)]
            IN  v \in Locals /\ v.key = loc[p].key /\ v.fileid = loc[p].fileid
        BY <1>w, <4>2 DEF Locals
      <4> QED
        BY <1>p, <1>w, <3>2, <4>1, <4>3, GotoType DEF UploadLabels, p
    <3> QED
      BY <1>3, <3>1, <3>2 DEF UploadUrl
  <2> QED
    BY <1>3, <2>1, ReadOnlyType DEF UploadUrl
<1>4. CASE UploadInsertInfo
  <2>1. ControlTypeOK'
    BY <1>4, <1>c, <1>f DEF UploadInsertInfo, UploadLabels, p
  <2>2. file_info' \in [Md5s -> Seq(FileRow)]
    <3>1. ASSUME NEW size \in Sizes
          PROVE  [file_id |-> loc[p].fileid, url |-> loc[p].url,
                  size |-> size, count |-> 1] \in FileRow
      BY <1>4, <1>w DEF UploadInsertInfo, ControlTypeOK, FileRow, p
    <3>2. ASSUME NEW size \in Sizes
          PROVE  Insert(file_info, loc[p].key.md5,
                        [file_id |-> loc[p].fileid, url |-> loc[p].url,
                         size |-> size, count |-> 1]) \in [Md5s -> Seq(FileRow)]
      <4> DEFINE row == [file_id |-> loc[p].fileid, url |-> loc[p].url,
                         size |-> size, count |-> 1]
      <4>1. row \in FileRow
        BY <3>1
      <4> HIDE DEF row
      <4>2. Insert(file_info, loc[p].key.md5, row) \in [Md5s -> Seq(FileRow)]
        BY <1>w, <4>1, InsertFacts DEF TablesTypeOK
      <4> QED
        BY <4>2 DEF row
    <3> QED
      BY <1>4, <3>2 DEF UploadInsertInfo, TablesTypeOK, p
  <2> QED
    BY <1>4, <2>1, <2>2
       DEF UploadInsertInfo, TablesTypeOK, StoresTypeOK, redis, fdfs
<1>5. CASE UploadInsertList
  <2>1. ControlTypeOK'
    BY <1>5, <1>c, <1>f DEF UploadInsertList, UploadLabels, p
  <2>2. Insert(user_file_list, loc[p].key, 0) \in [FileKey -> Seq({0, 1})]
    BY <1>w, InsertFacts DEF TablesTypeOK
  <2> QED
    BY <1>5, <2>1, <2>2
       DEF UploadInsertList, TablesTypeOK, StoresTypeOK, redis, fdfs, p
<1>6. CASE UploadSelectCount
  BY <1>6, <1>p, <1>w, SelectCountType DEF UploadSelectCount, UploadLabels, p
<1>7. CASE UploadSetCount
  <2>1. ControlTypeOK'
    BY <1>7, <1>f DEF UploadSetCount, p
  <2>2. user_file_count' \in [Accounts -> Seq(Int)]
    BY <1>7, <1>p, <1>w, AddToCountType DEF UploadSetCount, TablesTypeOK, p
  <2> QED
    BY <1>7, <2>1, <2>2
       DEF UploadSetCount, TablesTypeOK, StoresTypeOK, redis, fdfs
<1> QED
  BY <1>1, <1>2, <1>3, <1>4, <1>5, <1>6, <1>7 DEF UploadStep

LEMMA Md5Type ==
  ASSUME TypeOK, Md5Step
  PROVE  TypeOK'
<1> DEFINE p == "md5"
<1> USE DEF TypeOK
<1>p. p \in Programs /\ p # "sharefiles" /\ Md5Labels = LabelsOf(p)
  BY LabelFacts
<1>w. /\ pc[p] # "idle"
      /\ loc[p] \in Locals
      /\ loc[p].key \in FileKey
      /\ loc[p].key.user \in Users /\ loc[p].key.user \in Accounts
      /\ loc[p].key.md5 \in Md5s
      /\ loc[p].count \in Int
  <2>1. pc[p] # "idle"
    BY DEF Md5Step, Md5SelectInfo, Md5SelectList, Md5AddReference, Md5InsertList,
           Md5SelectCount, SelectCountToAdd, Md5SetCount
  <2> QED
    BY <1>p, <2>1, AtWork DEF Accounts
<1>c. ASSUME NEW l \in Md5Labels, Goto(p, l, loc[p]), Fault \/ NoFault
      PROVE  ControlTypeOK'
  BY <1>p, <1>w, <1>c, GotoType DEF Md5Labels
<1>f. ASSUME NEW c, Finish(p, c), Fault \/ NoFault
      PROVE  ControlTypeOK'
  BY <1>p, <1>f, FinishType
<1> HIDE DEF p
<1>1. CASE Md5SelectInfo
  <2>1. ASSUME NoFault, HasRow(file_info, loc[p].key.md5),
               Goto(p, "md5_list",
                    [loc[p] EXCEPT !.count = FirstRow(file_info, loc[p].key.md5).count])
        PROVE  ControlTypeOK'
    <3>1. FirstRow(file_info, loc[p].key.md5) \in FileRow
      BY <1>w, <2>1, FirstRowFacts DEF TablesTypeOK
    <3>2. FirstRow(file_info, loc[p].key.md5).count \in Int
      BY <3>1 DEF FileRow
    <3> QED
      <4> DEFINE v == [loc[p] EXCEPT !.count = FirstRow(file_info, loc[p].key.md5).count]
      <4>1. v \in Locals /\ v.key \in FileKey
        BY <1>w, <3>2, LocalsCount
      <4>2. Goto(p, "md5_list", v)
        BY <2>1
      <4> HIDE DEF v
      <4> QED
        BY <1>p, <2>1, <4>1, <4>2, GotoType DEF Md5Labels
  <2>2. ControlTypeOK'
    BY <1>1, <1>f, <2>1 DEF Md5SelectInfo, p
  <2> QED
    BY <1>1, <2>2, ReadOnlyType DEF Md5SelectInfo
<1>2. CASE Md5SelectList
  <2>1. ControlTypeOK'
    BY <1>2, <1>c, <1>f DEF Md5SelectList, Md5Labels, p
  <2> QED
    BY <1>2, <2>1, ReadOnlyType DEF Md5SelectList
<1>3. CASE Md5AddReference
  <2>1. ControlTypeOK'
    BY <1>3, <1>c, <1>f DEF Md5AddReference, Md5Labels, p
  <2>2. UpdateCountWhere(file_info, loc[p].key.md5, loc[p].count + 1)
          \in [Md5s -> Seq(FileRow)]
    <3>1. file_info \in [Md5s -> Seq(FileRow)]
      BY DEF TablesTypeOK
    <3>2. loc[p].key.md5 \in Md5s /\ loc[p].count + 1 \in Int
      BY <1>w
    <3> QED
      BY <3>1, <3>2, UpdateCountFacts
  <2> QED
    BY <1>3, <2>1, <2>2
       DEF Md5AddReference, TablesTypeOK, StoresTypeOK, redis, fdfs, p
<1>4. CASE Md5InsertList
  <2>1. ControlTypeOK'
    BY <1>4, <1>c, <1>f DEF Md5InsertList, Md5Labels, p
  <2>2. Insert(user_file_list, loc[p].key, 0) \in [FileKey -> Seq({0, 1})]
    BY <1>w, InsertFacts DEF TablesTypeOK
  <2> QED
    BY <1>4, <2>1, <2>2
       DEF Md5InsertList, TablesTypeOK, StoresTypeOK, redis, fdfs, p
<1>5. CASE Md5SelectCount
  BY <1>5, <1>p, <1>w, SelectCountType DEF Md5SelectCount, Md5Labels, p
<1>6. CASE Md5SetCount
  <2>1. ControlTypeOK'
    BY <1>6, <1>f DEF Md5SetCount, p
  <2>2. user_file_count' \in [Accounts -> Seq(Int)]
    BY <1>6, <1>p, <1>w, AddToCountType DEF Md5SetCount, TablesTypeOK, p
  <2> QED
    BY <1>6, <2>1, <2>2
       DEF Md5SetCount, TablesTypeOK, StoresTypeOK, redis, fdfs
<1> QED
  BY <1>1, <1>2, <1>3, <1>4, <1>5, <1>6 DEF Md5Step

LEMMA DelType ==
  ASSUME TypeOK, DelStep
  PROVE  TypeOK'
<1> DEFINE p == "filesop"
<1> USE DEF TypeOK
<1>p. p \in Programs /\ p # "sharefiles" /\ DelLabels \subseteq LabelsOf(p) /\ me = loc[p]
  BY LabelFacts DEF me
<1>w. /\ pc[p] # "idle"
      /\ loc[p] \in Locals
      /\ loc[p].key \in FileKey
      /\ loc[p].key.user \in Users /\ loc[p].key.user \in Accounts
      /\ ShareUser \in Accounts
      /\ loc[p].key.md5 \in Md5s
      /\ MemberOf(loc[p].key) \in ShareKey
      /\ loc[p].count \in Int
  <2>1. pc[p] # "idle"
    BY DEF DelStep, DelZexit, DelStatus, DelShare, DelSelectShares, DelSetShares,
           DelZrem, DelHdel, DelSelectCount, DelSetCount, DelList,
           DelSelectReference, DelSetReference, DelSelectId, DelInfo,
           DelRemove
  <2> QED
    BY <1>p, <2>1, AtWork DEF Accounts
<1>g. ASSUME NEW l \in DelLabels, NEW v \in Locals, v.key \in FileKey,
             Goto(p, l, v), Fault \/ NoFault
      PROVE  ControlTypeOK'
  BY <1>p, <1>g, GotoType DEF DelLabels
<1>c. ASSUME NEW l \in DelLabels, Goto(p, l, loc[p]), Fault \/ NoFault
      PROVE  ControlTypeOK'
  BY <1>c, <1>g, <1>w
<1>f. ASSUME NEW c, Finish(p, c), Fault \/ NoFault
      PROVE  ControlTypeOK'
  BY <1>p, <1>f, FinishType
<1> HIDE DEF p
<1>1. CASE DelZexit
  <2>0. [loc[p] EXCEPT !.share = 1, !.flag = 1].key \in FileKey
    BY <1>w DEF Locals
  <2>1. [loc[p] EXCEPT !.share = 1, !.flag = 1] \in Locals
    BY <1>w DEF Locals
  <2>2. ControlTypeOK'
    BY <1>1, <1>p, <1>c, <1>g, <1>f, <2>0, <2>1 DEF DelZexit, FilesOpFails, DelLabels, p
  <2> QED
    BY <1>1, <2>2, ReadOnlyType DEF DelZexit
<1>2. CASE DelStatus
  <2>1. [loc[p] EXCEPT !.share = 1] \in Locals
        /\ [loc[p] EXCEPT !.share = 1].key \in FileKey
    BY <1>w, LocalsShare
  <2>2. ControlTypeOK'
    BY <1>2, <1>p, <1>c, <1>g, <1>f, <2>1 DEF DelStatus, FilesOpFails, DelLabels, p
  <2> QED
    BY <1>2, <2>2, ReadOnlyType DEF DelStatus
<1>3. CASE DelShare
  <2>1. ControlTypeOK'
    BY <1>3, <1>p, <1>c, <1>f DEF DelShare, FilesOpFails, DelLabels, p
  <2>2. DeleteWhere(share_file_list, loc[p].key) \in [FileKey -> Seq(Int)]
    BY <1>w, DeleteFacts DEF TablesTypeOK
  <2> QED
    BY <1>3, <1>p, <2>1, <2>2
       DEF DelShare, TablesTypeOK, StoresTypeOK, mysql, redis, fdfs, p
<1>4. CASE DelSelectShares
  <2>1. ASSUME HasRow(user_file_count, ShareUser)
        PROVE  [loc[p] EXCEPT !.count = FirstRow(user_file_count, ShareUser)] \in Locals
               /\ [loc[p] EXCEPT !.count = FirstRow(user_file_count, ShareUser)].key \in FileKey
    <3>1. FirstRow(user_file_count, ShareUser) \in Int
      BY <1>w, <2>1, FirstRowFacts DEF TablesTypeOK
    <3> QED
      BY <1>w, <3>1, LocalsCount
  <2>2. ControlTypeOK'
    BY <1>4, <1>p, <1>g, <1>f, <2>1 DEF DelSelectShares, FilesOpFails, DelLabels, p
  <2> QED
    BY <1>4, <2>2, ReadOnlyType DEF DelSelectShares
<1>5. CASE DelSetShares
  <2>1. ControlTypeOK'
    BY <1>5, <1>p, <1>c, <1>f DEF DelSetShares, FilesOpFails, DelLabels, p
  <2>2. UpdateWhere(user_file_count, ShareUser, loc[p].count - 1)
          \in [Accounts -> Seq(Int)]
    <3> DEFINE n == loc[p].count - 1
    <3>1. n \in Int
      BY <1>w
    <3> HIDE DEF n
    <3>2. user_file_count \in [Accounts -> Seq(Int)]
      BY DEF TablesTypeOK
    <3>3. UpdateWhere(user_file_count, ShareUser, n) \in [Accounts -> Seq(Int)]
      BY <1>w, <3>1, <3>2, UpdateFacts
    <3> QED
      BY <3>3 DEF n
  <2> QED
    BY <1>5, <1>p, <2>1, <2>2
       DEF DelSetShares, TablesTypeOK, StoresTypeOK, mysql, redis, fdfs, p
<1>6. CASE DelZrem
  <2>1. ControlTypeOK'
    BY <1>6, <1>p, <1>c, <1>f DEF DelZrem, FilesOpFails, DelLabels, p
  <2> QED
    BY <1>6, <1>p, <1>w, <2>1
       DEF DelZrem, ZAdd, ZRem, TablesTypeOK, StoresTypeOK, mysql, redis, fdfs, p
<1>7. CASE DelHdel
  <2>1. ControlTypeOK'
    BY <1>7, <1>p, <1>c, <1>f DEF DelHdel, FilesOpFails, DelLabels, p
  <2> QED
    BY <1>7, <1>p, <1>w, <2>1
       DEF DelHdel, TablesTypeOK, StoresTypeOK, mysql, redis, fdfs, p
<1>8. CASE DelSelectCount
  <2>1. ASSUME HasRow(user_file_count, loc[p].key.user)
        PROVE  [loc[p] EXCEPT !.count = FirstRow(user_file_count, loc[p].key.user)] \in Locals
               /\ [loc[p] EXCEPT !.count = FirstRow(user_file_count, loc[p].key.user)].key \in FileKey
    <3>1. FirstRow(user_file_count, loc[p].key.user) \in Int
      BY <1>w, <2>1, FirstRowFacts DEF TablesTypeOK
    <3> QED
      BY <1>w, <3>1, LocalsCount
  <2>2. ControlTypeOK'
    BY <1>8, <1>p, <1>g, <1>f, <2>1 DEF DelSelectCount, FilesOpFails, DelLabels, p
  <2> QED
    BY <1>8, <2>2, ReadOnlyType DEF DelSelectCount
<1>9. CASE DelSetCount
  <2>1. ControlTypeOK'
    BY <1>9, <1>p, <1>c, <1>f DEF DelSetCount, FilesOpFails, DelLabels, p
  <2>2. /\ DeleteWhere(user_file_count, loc[p].key.user) \in [Accounts -> Seq(Int)]
        /\ UpdateWhere(user_file_count, loc[p].key.user, loc[p].count - 1)
             \in [Accounts -> Seq(Int)]
    <3> DEFINE n == loc[p].count - 1
    <3>1. n \in Int
      BY <1>w
    <3> HIDE DEF n
    <3>2. user_file_count \in [Accounts -> Seq(Int)]
      BY DEF TablesTypeOK
    <3>a. loc[p].key.user \in Accounts
      BY <1>w
    <3>3. UpdateWhere(user_file_count, loc[p].key.user, n) \in [Accounts -> Seq(Int)]
      BY <3>a, <3>1, <3>2, UpdateFacts
    <3>4. DeleteWhere(user_file_count, loc[p].key.user) \in [Accounts -> Seq(Int)]
      BY <1>w, <3>2, DeleteFacts
    <3> QED
      BY <3>3, <3>4 DEF n
  <2> QED
    BY <1>9, <1>p, <2>1, <2>2
       DEF DelSetCount, TablesTypeOK, StoresTypeOK, mysql, redis, fdfs, p
<1>10. CASE DelList
  <2>1. ControlTypeOK'
    BY <1>10, <1>p, <1>c, <1>f DEF DelList, FilesOpFails, DelLabels, p
  <2>2. DeleteWhere(user_file_list, loc[p].key) \in [FileKey -> Seq({0, 1})]
    BY <1>w, DeleteFacts DEF TablesTypeOK
  <2> QED
    BY <1>10, <1>p, <2>1, <2>2
       DEF DelList, TablesTypeOK, StoresTypeOK, mysql, redis, fdfs, p
<1>11. CASE DelSelectReference
  <2>1. ASSUME HasRow(file_info, loc[p].key.md5)
        PROVE  LET v == [loc[p] EXCEPT !.count = FirstRow(file_info, loc[p].key.md5).count - 1]
               IN  v \in Locals /\ v.key \in FileKey
    <3>1. FirstRow(file_info, loc[p].key.md5) \in FileRow
      BY <1>w, <2>1, FirstRowFacts DEF TablesTypeOK
    <3>2. FirstRow(file_info, loc[p].key.md5).count - 1 \in Int
      BY <3>1 DEF FileRow
    <3> QED
      BY <1>w, <3>2, LocalsCount
  <2>2. ControlTypeOK'
    BY <1>11, <1>p, <1>g, <1>f, <2>1 DEF DelSelectReference, FilesOpFails, DelLabels, p
  <2> QED
    BY <1>11, <2>2, ReadOnlyType DEF DelSelectReference
<1>12. CASE DelSetReference
  <2>1. ControlTypeOK'
    BY <1>12, <1>p, <1>c, <1>f DEF DelSetReference, FilesOpFails, DelLabels, p
  <2>2. UpdateCountWhere(file_info, loc[p].key.md5, loc[p].count) \in [Md5s -> Seq(FileRow)]
    <3>1. file_info \in [Md5s -> Seq(FileRow)]
      BY DEF TablesTypeOK
    <3> QED
      BY <1>w, <3>1, UpdateCountFacts
  <2> QED
    BY <1>12, <1>p, <2>1, <2>2
       DEF DelSetReference, TablesTypeOK, StoresTypeOK, mysql, redis, fdfs, p
<1>13. CASE DelSelectId
  <2>1. ASSUME HasRow(file_info, loc[p].key.md5)
        PROVE  LET v == [loc[p] EXCEPT !.fileid = FirstRow(file_info, loc[p].key.md5).file_id]
               IN  v \in Locals /\ v.key \in FileKey
    <3>1. FirstRow(file_info, loc[p].key.md5) \in FileRow
      BY <1>w, <2>1, FirstRowFacts DEF TablesTypeOK
    <3>2. FirstRow(file_info, loc[p].key.md5).file_id \in FileIds
      BY <3>1 DEF FileRow
    <3> QED
      BY <1>w, <3>2, LocalsFileid
  <2>2. ControlTypeOK'
    BY <1>13, <1>p, <1>g, <1>f, <2>1 DEF DelSelectId, FilesOpFails, DelLabels, p
  <2> QED
    BY <1>13, <2>2, ReadOnlyType DEF DelSelectId
<1>14. CASE DelInfo
  <2>1. ControlTypeOK'
    BY <1>14, <1>p, <1>c, <1>f DEF DelInfo, FilesOpFails, DelLabels, p
  <2>2. DeleteWhere(file_info, loc[p].key.md5) \in [Md5s -> Seq(FileRow)]
    BY <1>w, DeleteFacts DEF TablesTypeOK
  <2> QED
    BY <1>14, <1>p, <2>1, <2>2
       DEF DelInfo, TablesTypeOK, StoresTypeOK, mysql, redis, fdfs, p
<1>15. CASE DelRemove
  <2>1. ControlTypeOK'
    BY <1>15, <1>p, <1>f DEF DelRemove, p
  <2> QED
    BY <1>15, <2>1
       DEF DelRemove, TablesTypeOK, StoresTypeOK, mysql, redis, fdfs, p
<1> QED
  BY <1>1, <1>2, <1>3, <1>4, <1>5, <1>6, <1>7, <1>8, <1>9, <1>10,
     <1>11, <1>12, <1>13, <1>14, <1>15 DEF DelStep

LEMMA ShareType ==
  ASSUME TypeOK, ShareStep
  PROVE  TypeOK'
<1> DEFINE p == "filesop"
<1> USE DEF TypeOK
<1>p. p \in Programs /\ p # "sharefiles" /\ ShareLabels \subseteq LabelsOf(p) /\ me = loc[p]
  BY LabelFacts DEF me
<1>w. /\ pc[p] # "idle"
      /\ loc[p] \in Locals
      /\ loc[p].key \in FileKey
      /\ loc[p].key.user \in Users /\ loc[p].key.user \in Accounts
      /\ ShareUser \in Accounts
      /\ loc[p].key.md5 \in Md5s
      /\ MemberOf(loc[p].key) \in ShareKey
      /\ loc[p].count \in Int
  <2>1. pc[p] # "idle"
    BY DEF ShareStep, ShareZexit, ShareSelect, ShareReadd, ShareStatus,
           ShareInsert, ShareSelectCount, ShareSetCount, ShareZadd,
           ShareHset, SelectCountToAdd
  <2> QED
    BY <1>p, <2>1, AtWork DEF Accounts
<1>g. ASSUME NEW l \in ShareLabels, NEW v \in Locals, v.key \in FileKey,
             Goto(p, l, v), Fault \/ NoFault
      PROVE  ControlTypeOK'
  BY <1>p, <1>g, GotoType DEF ShareLabels
<1>c. ASSUME NEW l \in ShareLabels, Goto(p, l, loc[p]), Fault \/ NoFault
      PROVE  ControlTypeOK'
  BY <1>c, <1>g, <1>w
<1>f. ASSUME NEW c, Finish(p, c), Fault \/ NoFault
      PROVE  ControlTypeOK'
  BY <1>p, <1>f, FinishType
<1> HIDE DEF p
<1>1. CASE ShareZexit
  <2>1. ControlTypeOK'
    BY <1>1, <1>p, <1>c, <1>f DEF ShareZexit, FilesOpFails, ShareLabels, p
  <2> QED
    BY <1>1, <2>1, ReadOnlyType DEF ShareZexit
<1>2. CASE ShareSelect
  <2>1. ControlTypeOK'
    BY <1>2, <1>p, <1>c, <1>f DEF ShareSelect, FilesOpFails, ShareLabels, p
  <2> QED
    BY <1>2, <2>1, ReadOnlyType DEF ShareSelect
<1>3. CASE ShareReadd
  <2>1. ControlTypeOK'
    BY <1>3, <1>p, <1>c, <1>f DEF ShareReadd, FilesOpFails, ShareLabels, p
  <2> QED
    BY <1>3, <1>p, <1>w, <2>1
       DEF ShareReadd, ZAdd, ZRem, TablesTypeOK, StoresTypeOK, mysql, redis, fdfs, p
<1>4. CASE ShareStatus
  <2>1. ControlTypeOK'
    BY <1>4, <1>p, <1>c, <1>f DEF ShareStatus, FilesOpFails, ShareLabels, p
  <2>2. UpdateWhere(user_file_list, loc[p].key, 1) \in [FileKey -> Seq({0, 1})]
    BY <1>w, UpdateFacts DEF TablesTypeOK
  <2> QED
    BY <1>4, <1>p, <2>1, <2>2
       DEF ShareStatus, TablesTypeOK, StoresTypeOK, mysql, redis, fdfs, p
<1>5. CASE ShareInsert
  <2>1. ControlTypeOK'
    BY <1>5, <1>p, <1>c, <1>f DEF ShareInsert, FilesOpFails, ShareLabels, p
  <2>2. Insert(share_file_list, loc[p].key, 0) \in [FileKey -> Seq(Int)]
    <3>1. share_file_list \in [FileKey -> Seq(Int)] /\ 0 \in Int
      BY DEF TablesTypeOK
    <3> QED
      BY <1>w, <3>1, InsertFacts
  <2> QED
    BY <1>5, <1>p, <2>1, <2>2
       DEF ShareInsert, TablesTypeOK, StoresTypeOK, mysql, redis, fdfs, p
<1>6. CASE ShareSelectCount
  BY <1>6, <1>p, <1>w, SelectCountType DEF ShareSelectCount, ShareLabels, p
<1>7. CASE ShareSetCount
  <2>1. ControlTypeOK'
    BY <1>7, <1>p, <1>c, <1>f DEF ShareSetCount, FilesOpFails, ShareLabels, p
  <2>2. user_file_count' \in [Accounts -> Seq(Int)]
    BY <1>7, <1>p, <1>w, AddToCountType DEF ShareSetCount, TablesTypeOK, p
  <2> QED
    BY <1>7, <2>1, <2>2
       DEF ShareSetCount, TablesTypeOK, StoresTypeOK, mysql, redis, fdfs, p
<1>8. CASE ShareZadd
  <2>1. ControlTypeOK'
    BY <1>8, <1>p, <1>c, <1>f DEF ShareZadd, FilesOpFails, ShareLabels, p
  <2> QED
    BY <1>8, <1>p, <1>w, <2>1
       DEF ShareZadd, ZAdd, ZRem, TablesTypeOK, StoresTypeOK, mysql, redis, fdfs, p
<1>9. CASE ShareHset
  <2>1. ControlTypeOK'
    BY <1>9, <1>p, <1>c, <1>f DEF ShareHset, FilesOpFails, ShareLabels, p
  <2> QED
    BY <1>9, <1>p, <1>w, <2>1
       DEF ShareHset, TablesTypeOK, StoresTypeOK, mysql, redis, fdfs, p
<1> QED
  BY <1>1, <1>2, <1>3, <1>4, <1>5, <1>6, <1>7, <1>8, <1>9 DEF ShareStep

\* cgi_sharefilesop: one step per statement and redis command.
LEMMA ShareOpType ==
  ASSUME TypeOK, ShareOpStep
  PROVE  TypeOK'
<1> DEFINE p == "sharefilesop"
<1> USE DEF TypeOK
<1>p. p \in Programs /\ p # "sharefiles" /\ ShareOpLabels = LabelsOf(p) /\ op = loc[p]
  BY LabelFacts DEF op
<1>w. /\ pc[p] # "idle"
      /\ loc[p] \in Locals
      /\ loc[p].key \in FileKey
      /\ loc[p].key.user \in Users /\ loc[p].key.user \in Accounts
      /\ ShareUser \in Accounts
      /\ loc[p].key.md5 \in Md5s
      /\ MemberOf(loc[p].key) \in ShareKey
      /\ loc[p].count \in Int
  <2>1. pc[p] # "idle"
    BY DEF ShareOpStep, PvStep, PvSelect, PvUpdate, PvZexit, PvZincr, PvZadd, PvHset,
           CancelStep, CancelStatus, CancelSelectShares, CancelSetShares, CancelShare,
           CancelZrem, CancelHdel, SaveStep, SaveSelectList, SaveSelectReference,
           SaveAddReference, SaveInsertList, SaveSelectCount, SelectCountToAdd,
           SaveSetCount
  <2> QED
    BY <1>p, <2>1, AtWork DEF Accounts
<1>g. ASSUME NEW l \in ShareOpLabels, NEW v \in Locals, v.key \in FileKey,
             Goto(p, l, v), Fault \/ NoFault
      PROVE  ControlTypeOK'
  BY <1>p, <1>g, GotoType DEF ShareOpLabels
<1>c. ASSUME NEW l \in ShareOpLabels, Goto(p, l, loc[p]), Fault \/ NoFault
      PROVE  ControlTypeOK'
  BY <1>c, <1>g, <1>w
<1>n. ASSUME NEW l \in ShareOpLabels, NEW n \in Int,
             Goto(p, l, [loc[p] EXCEPT !.count = n]), Fault \/ NoFault
      PROVE  ControlTypeOK'
  <2> DEFINE v == [loc[p] EXCEPT !.count = n]
  <2>1. v \in Locals /\ v.key \in FileKey
    BY <1>w, <1>n, LocalsCount
  <2>2. Goto(p, l, v)
    BY <1>n
  <2> HIDE DEF v
  <2> QED
    BY <1>g, <1>n, <2>1, <2>2
<1>f. ASSUME NEW c, Finish(p, c), Fault \/ NoFault
      PROVE  ControlTypeOK'
  BY <1>p, <1>f, FinishType
<1>s. share_file_list \in [FileKey -> Seq(Int)] /\ user_file_count \in [Accounts -> Seq(Int)]
  BY DEF TablesTypeOK
<1> HIDE DEF p
<1>1. CASE PvSelect
  <2>1. ASSUME NEW o \in Sharers(MemberOf(loc[p].key))
        PROVE  FirstRow(share_file_list, o) \in Int
    <3>1. o \in FileKey /\ HasRow(share_file_list, o)
      BY DEF Sharers
    <3> QED
      BY <1>s, <3>1, FirstRowFacts
  <2>2. ControlTypeOK'
    BY <1>1, <1>p, <1>n, <1>f, <2>1 DEF PvSelect, ShareOpFails, ShareOpLabels, p
  <2> QED
    BY <1>1, <2>2, ReadOnlyType DEF PvSelect
<1>2. CASE PvUpdate
  <2>1. ControlTypeOK'
    BY <1>2, <1>p, <1>c, <1>f DEF PvUpdate, ShareOpFails, ShareOpLabels, p
  <2>2. UpdateAmong(share_file_list, Sharers(MemberOf(loc[p].key)), loc[p].count + 1)
          \in [FileKey -> Seq(Int)]
    <3> DEFINE n == loc[p].count + 1
    <3>1. n \in Int
      BY <1>w
    <3> HIDE DEF n
    <3>2. UpdateAmong(share_file_list, Sharers(MemberOf(loc[p].key)), n)
            \in [FileKey -> Seq(Int)]
      BY <1>s, <3>1, UpdateAmongType
    <3> QED
      BY <3>2 DEF n
  <2> QED
    BY <1>2, <1>p, <2>1, <2>2
       DEF PvUpdate, TablesTypeOK, StoresTypeOK, redis, fdfs, p
<1>3. CASE PvZexit
  <2>1. ControlTypeOK'
    BY <1>3, <1>p, <1>c, <1>f DEF PvZexit, ShareOpFails, ShareOpLabels, p
  <2> QED
    BY <1>3, <2>1, ReadOnlyType DEF PvZexit
<1>4. CASE PvZincr
  <2>1. ControlTypeOK'
    BY <1>4, <1>f DEF PvZincr, p
  <2> QED
    BY <1>4, <1>p, <1>w, <2>1
       DEF PvZincr, ZAdd, TablesTypeOK, StoresTypeOK, mysql, fdfs, p
<1>5. CASE PvZadd
  <2>1. ControlTypeOK'
    BY <1>5, <1>p, <1>c DEF PvZadd, ShareOpLabels, p
  <2> QED
    BY <1>5, <1>p, <1>w, <2>1
       DEF PvZadd, ZAdd, TablesTypeOK, StoresTypeOK, mysql, fdfs, p
<1>6. CASE PvHset
  <2>1. ControlTypeOK'
    BY <1>6, <1>f DEF PvHset, p
  <2> QED
    BY <1>6, <1>p, <1>w, <2>1
       DEF PvHset, TablesTypeOK, StoresTypeOK, mysql, fdfs, p
<1>7. CASE CancelStatus
  <2>1. ControlTypeOK'
    BY <1>7, <1>p, <1>c, <1>f DEF CancelStatus, ShareOpFails, ShareOpLabels, p
  <2>2. UpdateWhere(user_file_list, loc[p].key, 0) \in [FileKey -> Seq({0, 1})]
    BY <1>w, UpdateFacts DEF TablesTypeOK
  <2> QED
    BY <1>7, <1>p, <2>1, <2>2
       DEF CancelStatus, TablesTypeOK, StoresTypeOK, redis, fdfs, p
<1>8. CASE CancelSelectShares
  <2>1. HasRow(user_file_count, ShareUser) => FirstRow(user_file_count, ShareUser) \in Int
    BY <1>w, <1>s, FirstRowFacts
  <2>2. ControlTypeOK'
    BY <1>8, <1>p, <1>n, <1>f, <2>1 DEF CancelSelectShares, ShareOpFails, ShareOpLabels, p
  <2> QED
    BY <1>8, <2>2, ReadOnlyType DEF CancelSelectShares
<1>9. CASE CancelSetShares
  <2>1. ControlTypeOK'
    BY <1>9, <1>p, <1>c, <1>f DEF CancelSetShares, ShareOpFails, ShareOpLabels, p
  <2>2. /\ DeleteWhere(user_file_count, ShareUser) \in [Accounts -> Seq(Int)]
        /\ UpdateWhere(user_file_count, ShareUser, loc[p].count - 1) \in [Accounts -> Seq(Int)]
    <3> DEFINE n == loc[p].count - 1
    <3>1. n \in Int
      BY <1>w
    <3> HIDE DEF n
    <3>2. UpdateWhere(user_file_count, ShareUser, n) \in [Accounts -> Seq(Int)]
      BY <1>w, <1>s, <3>1, UpdateFacts
    <3>3. DeleteWhere(user_file_count, ShareUser) \in [Accounts -> Seq(Int)]
      BY <1>w, <1>s, DeleteFacts
    <3> QED
      BY <3>2, <3>3 DEF n
  <2> QED
    BY <1>9, <1>p, <2>1, <2>2
       DEF CancelSetShares, TablesTypeOK, StoresTypeOK, redis, fdfs, p
<1>10. CASE CancelShare
  <2>1. ControlTypeOK'
    BY <1>10, <1>p, <1>c, <1>f DEF CancelShare, ShareOpFails, ShareOpLabels, p
  <2>2. DeleteWhere(share_file_list, loc[p].key) \in [FileKey -> Seq(Int)]
    BY <1>w, <1>s, DeleteFacts
  <2> QED
    BY <1>10, <1>p, <2>1, <2>2
       DEF CancelShare, TablesTypeOK, StoresTypeOK, redis, fdfs, p
<1>11. CASE CancelZrem
  <2>1. ControlTypeOK'
    BY <1>11, <1>p, <1>c, <1>f DEF CancelZrem, ShareOpLabels, p
  <2> QED
    BY <1>11, <1>p, <1>w, <2>1
       DEF CancelZrem, ZRem, TablesTypeOK, StoresTypeOK, mysql, fdfs, p
<1>12. CASE CancelHdel
  <2>1. ControlTypeOK'
    BY <1>12, <1>f DEF CancelHdel, p
  <2> QED
    BY <1>12, <1>p, <1>w, <2>1
       DEF CancelHdel, TablesTypeOK, StoresTypeOK, mysql, fdfs, p
<1>13. CASE SaveSelectList
  <2>1. ControlTypeOK'
    BY <1>13, <1>p, <1>c, <1>f DEF SaveSelectList, ShareOpFails, ShareOpLabels, p
  <2> QED
    BY <1>13, <2>1, ReadOnlyType DEF SaveSelectList
<1>14. CASE SaveSelectReference
  <2>1. ASSUME HasRow(file_info, loc[p].key.md5)
        PROVE  FirstRow(file_info, loc[p].key.md5).count \in Int
    <3>1. FirstRow(file_info, loc[p].key.md5) \in FileRow
      BY <1>w, <2>1, FirstRowFacts DEF TablesTypeOK
    <3> QED
      BY <3>1 DEF FileRow
  <2>2. ControlTypeOK'
    BY <1>14, <1>p, <1>n, <1>f, <2>1 DEF SaveSelectReference, ShareOpFails, ShareOpLabels, p
  <2> QED
    BY <1>14, <2>2, ReadOnlyType DEF SaveSelectReference
<1>15. CASE SaveAddReference
  <2>1. ControlTypeOK'
    BY <1>15, <1>p, <1>c, <1>f DEF SaveAddReference, ShareOpFails, ShareOpLabels, p
  <2>2. UpdateCountWhere(file_info, loc[p].key.md5, loc[p].count + 1) \in [Md5s -> Seq(FileRow)]
    <3>1. file_info \in [Md5s -> Seq(FileRow)]
      BY DEF TablesTypeOK
    <3>2. loc[p].key.md5 \in Md5s /\ loc[p].count + 1 \in Int
      BY <1>w
    <3> QED
      BY <3>1, <3>2, UpdateCountFacts
  <2> QED
    BY <1>15, <1>p, <2>1, <2>2
       DEF SaveAddReference, TablesTypeOK, StoresTypeOK, redis, fdfs, p
<1>16. CASE SaveInsertList
  <2>1. ControlTypeOK'
    BY <1>16, <1>p, <1>c, <1>f DEF SaveInsertList, ShareOpFails, ShareOpLabels, p
  <2>2. Insert(user_file_list, loc[p].key, 0) \in [FileKey -> Seq({0, 1})]
    BY <1>w, InsertFacts DEF TablesTypeOK
  <2> QED
    BY <1>16, <1>p, <2>1, <2>2
       DEF SaveInsertList, TablesTypeOK, StoresTypeOK, redis, fdfs, p
<1>17. CASE SaveSelectCount
  BY <1>17, <1>p, <1>w, SelectCountType DEF SaveSelectCount, ShareOpLabels, p
<1>18. CASE SaveSetCount
  <2>1. ControlTypeOK'
    BY <1>18, <1>f DEF SaveSetCount, p
  <2>2. user_file_count' \in [Accounts -> Seq(Int)]
    BY <1>18, <1>p, <1>w, AddToCountType DEF SaveSetCount, TablesTypeOK, p
  <2> QED
    BY <1>18, <2>1, <2>2 DEF SaveSetCount, TablesTypeOK, StoresTypeOK, redis, fdfs
<1> QED
  BY <1>1, <1>2, <1>3, <1>4, <1>5, <1>6, <1>7, <1>8, <1>9, <1>10, <1>11, <1>12,
     <1>13, <1>14, <1>15, <1>16, <1>17, <1>18
     DEF ShareOpStep, PvStep, CancelStep, SaveStep

\* The rows of share_file_list as get_ranking_filelist selects them.
LEMMA SharedRowsType ==
  ASSUME TablesTypeOK
  PROVE  SharedRows \subseteq ShareRow
<1>1. ASSUME NEW k \in FileKey, NEW i \in 1..Len(share_file_list[k])
      PROVE  [member |-> MemberOf(k), pv |-> share_file_list[k][i]] \in ShareRow
  <2>1. share_file_list[k] \in Seq(Int)
    BY DEF TablesTypeOK
  <2>2. share_file_list[k][i] \in Int
    BY <2>1
  <2>3. MemberOf(k) \in ShareKey
    BY DEF FileKey, MemberOf, ShareKey
  <2> QED
    BY <2>2, <2>3 DEF ShareRow
<1>2. ASSUME NEW r \in SharedRows
      PROVE  r \in ShareRow
  <2>1. PICK k \in FileKey :
          r \in {[member |-> MemberOf(k), pv |-> share_file_list[k][i]] :
                   i \in 1..Len(share_file_list[k])}
    BY DEF SharedRows
  <2>2. PICK i \in 1..Len(share_file_list[k]) :
          r = [member |-> MemberOf(k), pv |-> share_file_list[k][i]]
    BY <2>1
  <2> QED
    BY <1>1, <2>2
<1> QED
  BY <1>2

\* cgi_sharefiles: it changes the redis keys and its own locals.
LEMMA ShareListType ==
  ASSUME TypeOK, ShareListStep
  PROVE  TypeOK'
<1> DEFINE p == "sharefiles"
<1> USE DEF TypeOK
<1>p. p \in Programs /\ p = "sharefiles" /\ ShareListLabels = LabelsOf(p) /\ rk = loc[p]
  BY LabelFacts DEF rk
<1>w. /\ loc[p] \in Locals
      /\ loc[p].rows \in SUBSET ShareRow
      /\ loc[p].page \in SUBSET ShareKey
      /\ loc[p].member \in ShareKey \cup {NoKey}
  <2>1. loc[p] \in Locals
    BY <1>p DEF ControlTypeOK
  <2> QED
    BY <2>1 DEF Locals
<1>g. ASSUME NEW l \in ShareListLabels, NEW v \in Locals, Goto(p, l, v), Fault \/ NoFault,
             l # "rk_hset"
      PROVE  ControlTypeOK'
  BY <1>p, <1>g, GotoType DEF ShareListLabels
<1>c. ASSUME NEW l \in ShareListLabels, Goto(p, l, loc[p]), Fault \/ NoFault, l # "rk_hset"
      PROVE  ControlTypeOK'
  BY <1>c, <1>g, <1>w
<1>f. ASSUME NEW c, Finish(p, c), Fault \/ NoFault
      PROVE  ControlTypeOK'
  BY <1>p, <1>f, FinishType
<1> HIDE DEF p
<1>1. CASE ListCount
  <2>1. ControlTypeOK'
    BY <1>1, <1>f DEF ListCount, p
  <2> QED
    BY <1>1, <2>1, ReadOnlyType DEF ListCount
<1>2. CASE ListNormal
  <2>1. ControlTypeOK'
    BY <1>2, <1>f DEF ListNormal, ListFails, p
  <2> QED
    BY <1>2, <2>1, ReadOnlyType DEF ListNormal
<1>3. CASE RankSelect
  <2>1. ASSUME HasRow(user_file_count, ShareUser)
        PROVE  [loc[p] EXCEPT !.count = FirstRow(user_file_count, ShareUser)] \in Locals
    <3>1. FirstRow(user_file_count, ShareUser) \in Int
      BY <2>1, FirstRowFacts DEF TablesTypeOK, Accounts
    <3> QED
      BY <1>w, <3>1, LocalsCount
  <2>2. ControlTypeOK'
    BY <1>3, <1>p, <1>g, <1>f, <2>1 DEF RankSelect, ListFails, ShareListLabels, p
  <2> QED
    BY <1>3, <2>2, ReadOnlyType DEF RankSelect
<1>4. CASE RankZcard
  <2>1. ControlTypeOK'
    BY <1>4, <1>p, <1>c, <1>f DEF RankZcard, ListFails, ShareListLabels, p
  <2> QED
    BY <1>4, <2>1, ReadOnlyType DEF RankZcard
<1>5. CASE RankDelZset
  <2>1. ControlTypeOK'
    BY <1>5, <1>p, <1>c DEF RankDelZset, ShareListLabels, p
  <2> QED
    BY <1>5, <2>1 DEF RankDelZset, TablesTypeOK, StoresTypeOK, mysql, fdfs
<1>6. CASE RankDelHash
  <2>1. ControlTypeOK'
    BY <1>6, <1>p, <1>c DEF RankDelHash, ShareListLabels, p
  <2> QED
    BY <1>6, <2>1 DEF RankDelHash, TablesTypeOK, StoresTypeOK, mysql, fdfs
<1>7. CASE RankRows
  <2>1. [loc[p] EXCEPT !.rows = SharedRows] \in Locals
    BY <1>w, SharedRowsType, LocalsRows
  <2>2. ControlTypeOK'
    BY <1>7, <1>p, <1>g, <1>f, <2>1 DEF RankRows, ListFails, ShareListLabels, p
  <2> QED
    BY <1>7, <2>2, ReadOnlyType DEF RankRows
<1>8. CASE RankZadd
  <2>1. PICK r \in rk.rows :
          /\ \/ NoFault /\ ZAdd(r.member, r.pv)
             \/ Fault /\ UNCHANGED <<zset, score>>
          /\ Goto("sharefiles", "rk_hset", AtRow(r))
    BY <1>8 DEF RankZadd
  <2>2. r.member \in ShareKey /\ r.pv \in Int
    BY <1>p, <1>w DEF ShareRow
  <2>3. AtRow(r) \in Locals
    BY <1>p, <1>w, <2>2 DEF Locals, AtRow
  <2>a. AtRow(r).member = r.member
    BY <1>p, <1>w DEF Locals, AtRow
  <2>4. ControlTypeOK'
    BY <1>p, <2>1, <2>2, <2>3, <2>a, GotoType DEF ShareListLabels
  <2>5. zset' \subseteq ShareKey /\ score' \in [ShareKey -> Int]
    BY <2>1, <2>2 DEF ZAdd, StoresTypeOK
  <2> QED
    BY <1>8, <2>4, <2>5 DEF RankZadd, TablesTypeOK, StoresTypeOK, mysql, fdfs
<1>9. CASE RankHset
  <2>1. ControlTypeOK'
    BY <1>9, <1>p, <1>c DEF RankHset, ShareListLabels, p
  <2>2. loc[p].member \in ShareKey
    BY <1>9, <1>p DEF RankHset, ControlTypeOK
  <2> QED
    BY <1>9, <1>p, <2>1, <2>2 DEF RankHset, TablesTypeOK, StoresTypeOK, mysql, fdfs, p
<1>10. CASE RankRange
  <2>1. ASSUME NEW page \in Pages
        PROVE  [loc[p] EXCEPT !.page = ZRevRange(page)] \in Locals
    <3>1. ZRevRange(page) \in SUBSET ShareKey
      BY DEF ZRevRange, StoresTypeOK
    <3> QED
      BY <1>w, <3>1, LocalsPage
  <2>2. ControlTypeOK'
    BY <1>10, <1>p, <1>g, <1>f, <2>1 DEF RankRange, ListFails, ShareListLabels, p
  <2> QED
    BY <1>10, <2>2, ReadOnlyType DEF RankRange
<1>11. CASE RankHget
  <2>1. ASSUME NEW x \in rk.page, NoFault,
               Goto("sharefiles", "rk_score", AtMember(x))
        PROVE  ControlTypeOK'
    <3>1. x \in ShareKey /\ rk.page \ {x} \in SUBSET ShareKey
      BY <1>p, <1>w
    <3>2. AtMember(x) \in Locals
      BY <1>p, <1>w, <3>1 DEF Locals, AtMember
    <3> QED
      BY <1>g, <1>p, <2>1, <3>2 DEF ShareListLabels
  <2>2. ControlTypeOK'
    <3>1. CASE ListFails
      BY <1>p, <1>f, <3>1 DEF ListFails
    <3>2. ASSUME NoFault, Finish("sharefiles", "015") PROVE ControlTypeOK'
      BY <1>p, <1>f, <3>2
    <3> QED
      BY <1>11, <2>1, <3>1, <3>2 DEF RankHget
  <2> QED
    BY <1>11, <2>2, ReadOnlyType DEF RankHget
<1>12. CASE RankScore
  <2>1. ControlTypeOK'
    BY <1>12, <1>p, <1>c, <1>f DEF RankScore, ListFails, ShareListLabels, p
  <2> QED
    BY <1>12, <2>1, ReadOnlyType DEF RankScore
<1> QED
  BY <1>1, <1>2, <1>3, <1>4, <1>5, <1>6, <1>7, <1>8, <1>9, <1>10, <1>11, <1>12
     DEF ShareListStep

\* A request is accepted by one program, at its first call, and touches
\* nothing but the control state.
LEMMA AcceptedRequest ==
  ASSUME Request
  PROVE  /\ \E p \in Programs, k \in FileKey \cup {NoKey} :
              \E l \in LabelsOf(p) \ {"up_url", "up_info", "rk_hset"} :
                /\ Accept(p, k, l)
                /\ p = "sharefiles" \/ k \in FileKey
                /\ l \in {"up_recv", "md5_info", "del_zexit", "sh_zexit", "pv_select",
                          "ca_status", "sv_list", "ls_count", "ls_normal", "rk_select"}
         /\ UNCHANGED <<mysql, redis, fdfs>>
<1> DEFINE First == {"up_recv", "md5_info", "del_zexit", "sh_zexit", "pv_select",
                     "ca_status", "sv_list", "ls_count", "ls_normal", "rk_select"}
           By(p, k, l) == /\ Accept(p, k, l)
                          /\ p = "sharefiles" \/ k \in FileKey
                          /\ l \in First
<1>l. /\ "up_recv" \in LabelsOf("upload") /\ "md5_info" \in LabelsOf("md5")
      /\ {"del_zexit", "sh_zexit"} \subseteq LabelsOf("filesop")
      /\ {"pv_select", "ca_status", "sv_list"} \subseteq LabelsOf("sharefilesop")
      /\ {"ls_count", "ls_normal", "rk_select"} \subseteq LabelsOf("sharefiles")
  BY LabelFacts DEF UploadLabels, Md5Labels, DelLabels, ShareLabels, ShareOpLabels,
                    ShareListLabels
<1>p. Programs = {"upload", "md5", "filesop", "sharefilesop", "sharefiles"}
  BY DEF Programs
<1>1. ASSUME NEW k \in FileKey,
             \/ UploadAccept(k) \/ Md5Accept(k) \/ DelAccept(k) \/ ShareAccept(k)
             \/ PvAccept(k) \/ CancelAccept(k) \/ SaveAccept(k)
      PROVE  /\ \E p \in Programs : \E l \in LabelsOf(p) \ {"up_url", "up_info", "rk_hset"} :
                  By(p, k, l)
             /\ UNCHANGED <<mysql, redis, fdfs>>
  BY <1>l, <1>p, <1>1 DEF UploadAccept, Md5Accept, DelAccept, ShareAccept, PvAccept,
                          CancelAccept, SaveAccept
<1>2. ASSUME NEW cmd, NEW l \in {"ls_count", "ls_normal", "rk_select"}, ListAccept(cmd, l)
      PROVE  /\ l \in LabelsOf("sharefiles") \ {"up_url", "up_info", "rk_hset"}
             /\ By("sharefiles", NoKey, l)
             /\ UNCHANGED <<mysql, redis, fdfs>>
  BY <1>l, <1>2 DEF ListAccept
<1> HIDE DEF By
<1>3. CASE \E k \in FileKey : \/ UploadAccept(k) \/ Md5Accept(k) \/ DelAccept(k) \/ ShareAccept(k)
                             \/ PvAccept(k) \/ CancelAccept(k) \/ SaveAccept(k)
  BY <1>1, <1>3 DEF By
<1>4. CASE \/ ListAccept("count", "ls_count") \/ ListAccept("normal", "ls_normal")
           \/ ListAccept("pvdesc", "rk_select")
  BY <1>2, <1>4, <1>p DEF By
<1> QED
  BY <1>3, <1>4 DEF Request

LEMMA InitType == Init => TypeOK
<1> SUFFICES ASSUME Init PROVE TypeOK
  OBVIOUS
<1>1. TablesTypeOK
  BY DEF Init, TablesTypeOK
<1>2. StoresTypeOK
  BY DEF Init, StoresTypeOK
<1>3. ControlTypeOK
  BY BlankType, LabelFacts, ConstantsAssumption DEF Init, ControlTypeOK, Labels
<1> QED
  BY <1>1, <1>2, <1>3 DEF TypeOK

LEMMA NextType == TypeOK /\ [Next]_vars => TypeOK'
<1> SUFFICES ASSUME TypeOK, [Next]_vars PROVE TypeOK'
  OBVIOUS
<1> USE DEF TypeOK
<1>1. CASE Request
  <2>1. PICK p \in Programs, k \in FileKey \cup {NoKey} :
          \E l \in LabelsOf(p) \ {"up_url", "up_info", "rk_hset"} :
            Accept(p, k, l) /\ (p = "sharefiles" \/ k \in FileKey)
    BY <1>1, AcceptedRequest
  <2>2. ControlTypeOK'
    BY <2>1, AcceptType
  <2> QED
    BY <1>1, <2>2, ReadOnlyType, AcceptedRequest
<1>2. CASE UploadStep
  BY <1>2, UploadType
<1>3. CASE Md5Step
  BY <1>3, Md5Type
<1>4. CASE FilesOpStep
  BY <1>4, DelType, ShareType DEF FilesOpStep
<1>7. CASE ShareOpStep \/ ShareListStep
  BY <1>7, ShareOpType, ShareListType
<1>5. CASE \E p \in Programs : Crash(p)
  <2>1. PICK p \in Programs : Crash(p)
    BY <1>5
  <2>2. ControlTypeOK'
    BY <2>1, IdleType DEF Crash
  <2> QED
    BY <2>1, <2>2, ReadOnlyType DEF Crash
<1>6. CASE UNCHANGED vars
  BY <1>6 DEF vars, mysql, redis, fdfs, TablesTypeOK, StoresTypeOK, ControlTypeOK
<1> QED
  BY <1>1, <1>2, <1>3, <1>4, <1>5, <1>6, <1>7 DEF Next, Done

\* Every state of the system is typed: no interleaving, failure or kill leaves
\* a program with a file, an object or a count that it does not have.
THEOREM TypeCorrect == Spec => []TypeOK
  BY InitType, NextType, PTL DEF Spec

------------------------------------------------------------------------------
(* The objects behind the rows *)

\* The step leaves every row of file_info with its object and its url.
SameObjects ==
  \A m \in Md5s :
    /\ Len(file_info'[m]) = Len(file_info[m])
    /\ \A i \in 1..Len(file_info[m]) :
         /\ file_info'[m][i].file_id = file_info[m][i].file_id
         /\ file_info'[m][i].url = file_info[m][i].url

\* The step leaves cgi_upload without an unrecorded object, or alone.
UploadQuiet ==
  \/ pc'["upload"] = pc["upload"] /\ loc'["upload"] = loc["upload"]
  \/ pc'["upload"] \in {"idle", "up_recv", "up_dstorage"}
       /\ loc'["upload"].fileid = NoFile /\ loc'["upload"].url = <<>>
  \/ pc'["upload"] \in {"up_list", "up_selcount", "up_count"}

\* The step leaves cgi_filesop without an object to remove, or alone.
FilesOpQuiet ==
  \/ pc'["filesop"] = pc["filesop"] /\ loc'["filesop"] = loc["filesop"]
  \/ pc'["filesop"] \notin {"del_info", "del_remove"}

\* A step with unchanged rows keeps what holds of them.
LEMMA FrameRows ==
  ASSUME TypeOK, ObjectInv, SameObjects, UNCHANGED <<storage, content>>
  PROVE  /\ FileInfoBacked' /\ ObjectsNotShared' /\ UrlNamesObject' /\ StorageHandedOut'
         /\ \A f : Linked(f)' <=> Linked(f)
<1>1. FileInfoBacked' /\ StorageHandedOut'
  BY DEF ObjectInv, FileInfoBacked, StorageHandedOut, SameObjects
<1>2. ObjectsNotShared'
  BY DEF ObjectInv, ObjectsNotShared, SameObjects
<1>3. UrlNamesObject'
  BY DEF ObjectInv, UrlNamesObject, SameObjects
<1>4. \A f : Linked(f)' <=> Linked(f)
  BY DEF Linked, SameObjects
<1> QED
  BY <1>1, <1>2, <1>3, <1>4

\* A step that is quiet for both programs keeps the invariant.
LEMMA QuietStep ==
  ASSUME TypeOK, ObjectInv, SameObjects, UNCHANGED <<storage, content>>,
         UploadQuiet, FilesOpQuiet
  PROVE  ObjectInv'
<1>1. /\ FileInfoBacked' /\ ObjectsNotShared' /\ UrlNamesObject' /\ StorageHandedOut'
      /\ \A f : Linked(f)' <=> Linked(f)
  BY FrameRows
<1>2. PendingUpload'
  BY <1>1 DEF ObjectInv, PendingUpload, UploadQuiet
<1>3. PendingRemove'
  <2>1. CASE pc'["filesop"] \notin {"del_info", "del_remove"}
    BY <2>1 DEF PendingRemove
  <2>2. CASE pc'["filesop"] = "del_info" /\ pc["filesop"] = "del_info"
             /\ loc'["filesop"] = loc["filesop"]
    <3>1. loc["filesop"].key.md5 \in Md5s
      BY <2>2, AtWork DEF TypeOK, Programs
    <3> QED
      BY <2>2, <3>1 DEF ObjectInv, PendingRemove, SameObjects, me
  <2>3. CASE pc'["filesop"] = "del_remove" /\ pc["filesop"] = "del_remove"
             /\ loc'["filesop"] = loc["filesop"]
    <3>1. pc'["upload"] \in {"up_url", "up_info"} =>
            pc'["upload"] = pc["upload"] /\ loc'["upload"] = loc["upload"]
      BY DEF UploadQuiet
    <3> QED
      BY <1>1, <2>3, <3>1 DEF ObjectInv, PendingRemove, me
  <2> QED
    BY <2>1, <2>2, <2>3 DEF FilesOpQuiet
<1> QED
  BY <1>1, <1>2, <1>3 DEF ObjectInv

\* What the control steps do to the program that takes them and to the others.
LEMMA GotoFacts ==
  ASSUME ControlTypeOK, NEW p \in Programs, NEW l, NEW v, Goto(p, l, v)
  PROVE  /\ pc'[p] = l /\ loc'[p] = v
         /\ \A q \in Programs : q # p => pc'[q] = pc[q] /\ loc'[q] = loc[q]
  BY DEF Goto, ControlTypeOK

LEMMA FinishFacts ==
  ASSUME ControlTypeOK, NEW p \in Programs, NEW c, Finish(p, c)
  PROVE  /\ pc'[p] = "idle" /\ loc'[p] = Blank
         /\ \A q \in Programs : q # p => pc'[q] = pc[q] /\ loc'[q] = loc[q]
  BY DEF Finish, ControlTypeOK

\* Another program than cgi_upload takes a step.
LEMMA UploadAlone ==
  ASSUME pc'["upload"] = pc["upload"], loc'["upload"] = loc["upload"]
  PROVE  UploadQuiet
  BY DEF UploadQuiet

LEMMA FilesOpAlone ==
  ASSUME pc'["filesop"] = pc["filesop"], loc'["filesop"] = loc["filesop"]
  PROVE  FilesOpQuiet
  BY DEF FilesOpQuiet

LEMMA UnchangedObjects ==
  ASSUME UNCHANGED file_info
  PROVE  SameObjects
  BY DEF SameObjects

\* Setting a reference count leaves the rows with their objects.
LEMMA UpdatedRows ==
  ASSUME file_info \in [Md5s -> Seq(FileRow)], NEW k \in Md5s, NEW n \in Int,
         file_info' = UpdateCountWhere(file_info, k, n)
  PROVE  SameObjects
  BY UpdateCountFacts DEF SameObjects

\* cgi_md5 only counts references.
LEMMA Md5Frame ==
  ASSUME TypeOK, Md5Step
  PROVE  /\ pc'["upload"] = pc["upload"] /\ loc'["upload"] = loc["upload"]
         /\ pc'["filesop"] = pc["filesop"] /\ loc'["filesop"] = loc["filesop"]
         /\ SameObjects /\ UNCHANGED <<storage, content>>
<1>p. /\ "md5" \in Programs /\ "upload" \in Programs /\ "filesop" \in Programs
      /\ ControlTypeOK
  BY DEF Programs, TypeOK
<1>1. /\ pc'["upload"] = pc["upload"] /\ loc'["upload"] = loc["upload"]
      /\ pc'["filesop"] = pc["filesop"] /\ loc'["filesop"] = loc["filesop"]
  BY <1>p, GotoFacts, FinishFacts
     DEF Md5Step, Md5SelectInfo, Md5SelectList, Md5AddReference, Md5InsertList,
         Md5SelectCount, SelectCountToAdd, Md5SetCount
<1>2. UNCHANGED <<storage, content>>
  BY DEF Md5Step, Md5SelectInfo, Md5SelectList, Md5AddReference, Md5InsertList,
         Md5SelectCount, SelectCountToAdd, Md5SetCount, fdfs
<1>3. SameObjects
  <2>1. CASE Md5AddReference
    <3>1. loc["md5"].key.md5 \in Md5s /\ loc["md5"].count + 1 \in Int
      BY <1>p, <2>1, AtWork DEF Md5AddReference
    <3>2. file_info \in [Md5s -> Seq(FileRow)]
      BY DEF TypeOK, TablesTypeOK
    <3>3. CASE UNCHANGED file_info
      BY <3>3, UnchangedObjects
    <3>4. CASE file_info' = UpdateCountWhere(file_info, loc["md5"].key.md5,
                                             loc["md5"].count + 1)
      BY <3>1, <3>2, <3>4, UpdatedRows
    <3> QED
      BY <2>1, <3>3, <3>4 DEF Md5AddReference
  <2>2. CASE UNCHANGED file_info
    BY <2>2, UnchangedObjects
  <2> QED
    BY <2>1, <2>2 DEF Md5Step, Md5SelectInfo, Md5SelectList, Md5InsertList,
                      Md5SelectCount, SelectCountToAdd, Md5SetCount, mysql
<1> QED
  BY <1>1, <1>2, <1>3

LEMMA Md5Objects ==
  ASSUME TypeOK, ObjectInv, Md5Step
  PROVE  ObjectInv'
  BY Md5Frame, UploadAlone, FilesOpAlone, QuietStep

\* cgi_sharefilesop, too: save_file counts one more, the rest touches none.
LEMMA ShareOpFrame ==
  ASSUME TypeOK, ShareOpStep
  PROVE  /\ pc'["upload"] = pc["upload"] /\ loc'["upload"] = loc["upload"]
         /\ pc'["filesop"] = pc["filesop"] /\ loc'["filesop"] = loc["filesop"]
         /\ SameObjects /\ UNCHANGED <<storage, content>>
<1>p. /\ "sharefilesop" \in Programs /\ "upload" \in Programs /\ "filesop" \in Programs
      /\ ControlTypeOK /\ op = loc["sharefilesop"]
  BY DEF Programs, TypeOK, op
<1>1. /\ pc'["upload"] = pc["upload"] /\ loc'["upload"] = loc["upload"]
      /\ pc'["filesop"] = pc["filesop"] /\ loc'["filesop"] = loc["filesop"]
  <2> DEFINE Alone == /\ pc'["upload"] = pc["upload"] /\ loc'["upload"] = loc["upload"]
                      /\ pc'["filesop"] = pc["filesop"] /\ loc'["filesop"] = loc["filesop"]
  <2>1. ASSUME NEW l, NEW v, Goto("sharefilesop", l, v) PROVE Alone
    BY <1>p, <2>1, GotoFacts
  <2>2. ASSUME NEW c, Finish("sharefilesop", c) PROVE Alone
    BY <1>p, <2>2, FinishFacts
  <2> HIDE DEF Alone
  <2>3. ASSUME PvStep PROVE Alone
    BY <2>1, <2>2, <2>3 DEF PvStep, PvSelect, PvUpdate, PvZexit, PvZincr, PvZadd, PvHset,
                            ShareOpFails
  <2>4. ASSUME CancelStep PROVE Alone
    BY <2>1, <2>2, <2>4 DEF CancelStep, CancelStatus, CancelSelectShares, CancelSetShares,
                            CancelShare, CancelZrem, CancelHdel, ShareOpFails
  <2>5. ASSUME SaveStep PROVE Alone
    BY <2>1, <2>2, <2>5 DEF SaveStep, SaveSelectList, SaveSelectReference, SaveAddReference,
                            SaveInsertList, SaveSelectCount, SelectCountToAdd, SaveSetCount,
                            ShareOpFails
  <2>6. Alone
    BY <2>3, <2>4, <2>5 DEF ShareOpStep
  <2> QED
    BY <2>6 DEF Alone
<1>2. UNCHANGED <<storage, content>>
  BY DEF ShareOpStep, PvStep, PvSelect, PvUpdate, PvZexit, PvZincr, PvZadd, PvHset,
         CancelStep, CancelStatus, CancelSelectShares, CancelSetShares, CancelShare,
         CancelZrem, CancelHdel, SaveStep, SaveSelectList, SaveSelectReference,
         SaveAddReference, SaveInsertList, SaveSelectCount, SelectCountToAdd,
         SaveSetCount, fdfs
<1>3. SameObjects
  <2>1. CASE SaveAddReference
    <3>1. op.key.md5 \in Md5s /\ op.count + 1 \in Int
      BY <1>p, <2>1, AtWork DEF SaveAddReference
    <3>2. file_info \in [Md5s -> Seq(FileRow)]
      BY DEF TypeOK, TablesTypeOK
    <3>3. CASE UNCHANGED file_info
      BY <3>3, UnchangedObjects
    <3>4. CASE file_info' = UpdateCountWhere(file_info, op.key.md5, op.count + 1)
      BY <3>1, <3>2, <3>4, UpdatedRows
    <3> QED
      BY <2>1, <3>3, <3>4 DEF SaveAddReference
  <2>2. CASE UNCHANGED file_info
    BY <2>2, UnchangedObjects
  <2> QED
    BY <2>1, <2>2
       DEF ShareOpStep, PvStep, PvSelect, PvUpdate, PvZexit, PvZincr, PvZadd, PvHset,
           CancelStep, CancelStatus, CancelSelectShares, CancelSetShares, CancelShare,
           CancelZrem, CancelHdel, SaveStep, SaveSelectList, SaveSelectReference,
           SaveInsertList, SaveSelectCount, SelectCountToAdd, SaveSetCount, mysql
<1> QED
  BY <1>1, <1>2, <1>3

LEMMA ShareOpObjects ==
  ASSUME TypeOK, ObjectInv, ShareOpStep
  PROVE  ObjectInv'
  BY ShareOpFrame, UploadAlone, FilesOpAlone, QuietStep

\* A step of cgi_sharefiles changes no table and no other program.
LEMMA ShareListFacts ==
  ASSUME ControlTypeOK, ShareListStep
  PROVE  /\ \A q \in Programs : q # "sharefiles" => pc'[q] = pc[q] /\ loc'[q] = loc[q]
         /\ UNCHANGED <<mysql, fdfs>>
<1> DEFINE Alone == \A q \in Programs : q # "sharefiles" => pc'[q] = pc[q] /\ loc'[q] = loc[q]
<1>p. "sharefiles" \in Programs
  BY DEF Programs
<1>1. ASSUME NEW l, NEW v, Goto("sharefiles", l, v) PROVE Alone
  BY <1>p, <1>1, GotoFacts
<1>2. ASSUME NEW c, Finish("sharefiles", c) PROVE Alone
  BY <1>p, <1>2, FinishFacts
<1> HIDE DEF Alone
<1>3. CASE ListCount \/ ListNormal \/ RankSelect \/ RankZcard
  BY <1>1, <1>2, <1>3 DEF ListCount, ListNormal, RankSelect, RankZcard, ListFails, Alone
<1>4. CASE RankDelZset \/ RankDelHash \/ RankRows \/ RankZadd \/ RankHset
  BY <1>1, <1>2, <1>4 DEF RankDelZset, RankDelHash, RankRows, RankZadd, RankHset, ListFails,
                          Alone
<1>5. CASE RankRange \/ RankHget \/ RankScore
  BY <1>1, <1>2, <1>5 DEF RankRange, RankHget, RankScore, ListFails, Alone
<1> QED
  BY <1>3, <1>4, <1>5 DEF ShareListStep, Alone

LEMMA ShareListObjects ==
  ASSUME TypeOK, ObjectInv, ShareListStep
  PROVE  ObjectInv'
<1>1. /\ pc'["upload"] = pc["upload"] /\ loc'["upload"] = loc["upload"]
      /\ pc'["filesop"] = pc["filesop"] /\ loc'["filesop"] = loc["filesop"]
      /\ UNCHANGED <<mysql, fdfs>>
  BY ShareListFacts DEF TypeOK, Programs
<1>2. UNCHANGED <<file_info, storage, content>>
  BY <1>1 DEF mysql, fdfs
<1> QED
  BY <1>1, <1>2, UnchangedObjects, UploadAlone, FilesOpAlone, QuietStep

\* cgi_upload stores an object under a new id, and records it.
LEMMA UploadObjects ==
  ASSUME TypeOK, ObjectInv, UploadStep
  PROVE  ObjectInv'
<1> DEFINE up == loc["upload"]
<1>p. /\ "upload" \in Programs /\ "filesop" \in Programs /\ ControlTypeOK
  BY DEF Programs, TypeOK
<1>w. /\ pc["upload"] # "idle" /\ up \in Locals /\ up.key.md5 \in Md5s
      /\ up.url \in Seq(FileIds)
  <2>1. pc["upload"] # "idle"
    BY DEF UploadStep, UploadRecv, UploadDstorage, UploadUrl, UploadInsertInfo,
           UploadInsertList, UploadSelectCount, SelectCountToAdd, UploadSetCount
  <2> QED
    BY <1>p, <2>1, AtWork
<1>o. pc'["filesop"] = pc["filesop"] /\ loc'["filesop"] = loc["filesop"]
  <2> DEFINE Alone == pc'["filesop"] = pc["filesop"] /\ loc'["filesop"] = loc["filesop"]
  <2>1. ASSUME NEW l, NEW v, Goto("upload", l, v) PROVE Alone
    BY <1>p, <2>1, GotoFacts
  <2>2. ASSUME NEW c, Finish("upload", c) PROVE Alone
    BY <1>p, <2>2, FinishFacts
  <2>3. CASE UploadRecv
    BY <2>1, <2>2, <2>3 DEF UploadRecv
  <2>4. CASE UploadDstorage
    BY <2>1, <2>2, <2>4 DEF UploadDstorage
  <2>5. CASE UploadUrl \/ UploadInsertInfo \/ UploadInsertList
    BY <2>1, <2>2, <2>5 DEF UploadUrl, UploadInsertInfo, UploadInsertList
  <2>6. CASE UploadSelectCount \/ UploadSetCount
    BY <2>1, <2>2, <2>6 DEF UploadSelectCount, SelectCountToAdd, UploadSetCount
  <2>7. Alone
    BY <2>3, <2>4, <2>5, <2>6 DEF UploadStep
  <2> QED
    BY <2>7
<1>b. Blank.fileid = NoFile /\ Blank.url = <<>>
  BY DEF Blank
<1>f. ASSUME NEW c, Finish("upload", c)
      PROVE  UploadQuiet
  BY <1>f, <1>p, <1>b, FinishFacts DEF UploadQuiet
<1>q. ASSUME UploadQuiet, UNCHANGED <<file_info, storage, content>>
      PROVE  ObjectInv'
  BY <1>q, <1>o, UnchangedObjects, FilesOpAlone, QuietStep
<1>r. file_info \in [Md5s -> Seq(FileRow)]
  BY DEF TypeOK, TablesTypeOK
<1>1. CASE UploadRecv
  <2>1. UploadQuiet
    <3>1. CASE Goto("upload", "up_dstorage", loc["upload"])
      BY <1>1, <3>1, <1>p, GotoFacts
         DEF UploadRecv, UploadQuiet, ObjectInv, PendingUpload
    <3> QED
      BY <1>1, <3>1, <1>f DEF UploadRecv
  <2> QED
    BY <1>1, <1>q, <2>1 DEF UploadRecv, mysql
<1>2. CASE UploadDstorage
  <2>0. up.fileid = NoFile /\ up.url = <<>>
    BY <1>2 DEF UploadDstorage, ObjectInv, PendingUpload
  <2>1. ASSUME NEW f \in FileIds, DstorageStore(f)
        PROVE  /\ FileInfoBacked' /\ StorageHandedOut'
               /\ f \in storage' /\ content'[f] = up.key.md5
               /\ ~Linked(f)
               /\ \A g \in FileIds : content[g] # NoMd5 => content'[g] = content[g] /\ g # f
    <3>1. /\ content \in [FileIds -> Md5s \cup {NoMd5}]
          /\ storage \subseteq FileIds
      BY DEF TypeOK, StoresTypeOK
    <3>2. up.key.md5 # NoMd5
      BY <1>w, ConstantsAssumption
    <3>3. \A m \in Md5s : \A i \in 1..Len(file_info[m]) :
            /\ file_info[m][i].file_id \in storage
            /\ content[file_info[m][i].file_id] = m
            /\ m # NoMd5
      BY ConstantsAssumption DEF ObjectInv, FileInfoBacked
    <3>4. UNCHANGED file_info
      BY <1>2 DEF UploadDstorage, mysql
    <3>5. FileInfoBacked'
      BY <2>1, <3>1, <3>3, <3>4 DEF FileInfoBacked, DstorageStore
    <3>6. StorageHandedOut'
      BY <2>1, <3>1, <3>2 DEF ObjectInv, StorageHandedOut, DstorageStore
    <3>7. ~Linked(f)
      BY <2>1, <3>3 DEF Linked, DstorageStore
    <3> QED
      BY <2>1, <3>1, <3>5, <3>6, <3>7 DEF DstorageStore
  <2>2. /\ UNCHANGED file_info
        /\ ObjectsNotShared' /\ UrlNamesObject'
        /\ \A f : Linked(f)' <=> Linked(f)
    BY <1>2 DEF UploadDstorage, mysql, ObjectInv, ObjectsNotShared, UrlNamesObject, Linked
  <2>3. CASE \E f \in FileIds :
               /\ DstorageStore(f)
               /\ Goto("upload", "up_url", [loc["upload"] EXCEPT !.fileid = f])
    <3>1. PICK f \in FileIds :
               /\ DstorageStore(f)
               /\ Goto("upload", "up_url", [loc["upload"] EXCEPT !.fileid = f])
      BY <2>3
    <3>2. /\ pc'["upload"] = "up_url"
          /\ loc'["upload"].fileid = f
          /\ loc'["upload"].url = <<>>
          /\ loc'["upload"].key = up.key
      BY <1>p, <1>w, <2>0, <3>1, GotoFacts DEF Locals
    <3>3. PendingUpload'
      BY <2>1, <2>2, <3>1, <3>2 DEF PendingUpload
    <3>4. PendingRemove'
      BY <1>o, <2>1, <2>2, <3>1, <3>2 DEF ObjectInv, PendingRemove, me
    <3> QED
      BY <2>1, <2>2, <3>1, <3>3, <3>4 DEF ObjectInv
  <2>4. CASE UNCHANGED <<storage, content>> /\ Finish("upload", "009")
    BY <1>q, <1>f, <2>2, <2>4
  <2>5. CASE (\E f \in FileIds : DstorageStore(f)) /\ Finish("upload", "009")
    <3>1. PICK f \in FileIds : DstorageStore(f)
      BY <2>5
    <3>2. pc'["upload"] = "idle" /\ loc'["upload"] = Blank
      BY <1>p, <2>5, FinishFacts
    <3>3. PendingUpload'
      BY <1>b, <3>2 DEF PendingUpload
    <3>4. PendingRemove'
      BY <1>o, <2>1, <2>2, <3>1, <3>2 DEF ObjectInv, PendingRemove, me
    <3> QED
      BY <2>1, <2>2, <3>1, <3>3, <3>4 DEF ObjectInv
  <2> QED
    BY <1>2, <2>0, <2>3, <2>4, <2>5 DEF UploadDstorage
<1>3. CASE UploadUrl
  <2>0. /\ UNCHANGED <<file_info, storage, content>>
        /\ \A f : Linked(f)' <=> Linked(f)
    BY <1>3 DEF UploadUrl, mysql, fdfs, Linked
  <2>1. CASE Finish("upload", "009")
    BY <1>q, <1>f, <2>0, <2>1
  <2>2. CASE Goto("upload", "up_info",
                  [loc["upload"] EXCEPT !.url = Append(@, loc["upload"].fileid)])
    <3>1. /\ up.fileid \in storage /\ content[up.fileid] = up.key.md5
          /\ ~Linked(up.fileid) /\ up.url = <<>>
      BY <1>3 DEF UploadUrl, ObjectInv, PendingUpload
    <3>2. Append(up.url, up.fileid) = <<up.fileid>>
      BY <3>1
    <3>3. /\ pc'["upload"] = "up_info"
          /\ loc'["upload"].fileid = up.fileid
          /\ loc'["upload"].url = <<up.fileid>>
          /\ loc'["upload"].key = up.key
      BY <1>p, <1>w, <2>2, <3>2, GotoFacts DEF Locals
    <3>4. PendingUpload'
      BY <2>0, <3>1, <3>3 DEF PendingUpload
    <3>5. PendingRemove'
      BY <1>3, <1>o, <2>0, <3>3 DEF UploadUrl, ObjectInv, PendingRemove, me
    <3>6. SameObjects
      BY <2>0, UnchangedObjects
    <3> QED
      BY <2>0, <3>4, <3>5, <3>6, FrameRows DEF ObjectInv
  <2> QED
    BY <1>3, <2>1, <2>2 DEF UploadUrl
<1>4. CASE UploadInsertInfo
  <2>0. UNCHANGED <<storage, content>>
    BY <1>4 DEF UploadInsertInfo, fdfs
  <2>1. CASE Finish("upload", "009") /\ UNCHANGED file_info
    BY <1>q, <1>f, <2>0, <2>1
  <2>2. CASE /\ \E size \in Sizes :
                  file_info' = Insert(file_info, up.key.md5,
                                      [file_id |-> up.fileid, url |-> up.url,
                                       size |-> size, count |-> 1])
             /\ Goto("upload", "up_list", up)
    <3> DEFINE k == up.key.md5
               n == Len(file_info[k]) + 1
    <3>1. PICK size \in Sizes :
            file_info' = Insert(file_info, k,
                                [file_id |-> up.fileid, url |-> up.url,
                                 size |-> size, count |-> 1])
      BY <2>2
    <3> DEFINE row == [file_id |-> up.fileid, url |-> up.url, size |-> size, count |-> 1]
    <3>2. row \in FileRow /\ row.file_id = up.fileid /\ row.url = up.url
      BY <1>4, <1>w DEF UploadInsertInfo, TypeOK, ControlTypeOK, FileRow
    <3>3. /\ up.fileid \in storage /\ content[up.fileid] = k
          /\ ~Linked(up.fileid) /\ up.url = <<up.fileid>>
      BY <1>4 DEF UploadInsertInfo, ObjectInv, PendingUpload
    <3>m. k \in Md5s /\ Len(file_info[k]) \in Nat
      BY <1>w, <1>r
    <3>r. file_info' = Insert(file_info, k, row)
      BY <3>1
    <3>u. pc'["upload"] = "up_list"
      BY <1>p, <2>2, GotoFacts
    <3> HIDE DEF row, k, up
    <3>4. /\ Len(file_info'[k]) = n
          /\ \A i \in 1..Len(file_info[k]) : file_info'[k][i] = file_info[k][i]
          /\ file_info'[k][n] = row
          /\ \A j \in Md5s : j # k => file_info'[j] = file_info[j]
      BY <1>r, <3>m, <3>2, <3>r, InsertFacts
    <3> HIDE DEF n
    <3>5. \A i \in 1..n : i # n => i \in 1..Len(file_info[k])
      BY <3>m DEF n
    <3>6. \A m \in Md5s : \A i \in 1..Len(file_info'[m]) :
            \/ m = k /\ i = n /\ file_info'[m][i] = row
            \/ i \in 1..Len(file_info[m]) /\ file_info'[m][i] = file_info[m][i]
      BY <3>4, <3>5
    <3>7. FileInfoBacked'
      BY <2>0, <3>2, <3>3, <3>6 DEF ObjectInv, FileInfoBacked
    <3>8. UrlNamesObject'
      BY <3>2, <3>3, <3>6 DEF ObjectInv, UrlNamesObject
    <3>9. ObjectsNotShared'
      <4> SUFFICES ASSUME NEW m1 \in Md5s, NEW m2 \in Md5s,
                          NEW i \in 1..Len(file_info'[m1]), NEW j \in 1..Len(file_info'[m2]),
                          file_info'[m1][i].file_id = file_info'[m2][j].file_id
                   PROVE  m1 = m2 /\ i = j
        BY DEF ObjectsNotShared
      <4>1. CASE m1 = k /\ i = n /\ file_info'[m1][i] = row
        BY <4>1, <3>2, <3>3, <3>6 DEF Linked
      <4>2. CASE m2 = k /\ j = n /\ file_info'[m2][j] = row
        BY <4>2, <3>2, <3>3, <3>6 DEF Linked
      <4>3. CASE /\ i \in 1..Len(file_info[m1]) /\ file_info'[m1][i] = file_info[m1][i]
                 /\ j \in 1..Len(file_info[m2]) /\ file_info'[m2][j] = file_info[m2][j]
        BY <4>3 DEF ObjectInv, ObjectsNotShared
      <4> QED
        BY <3>6, <4>1, <4>2, <4>3
    <3>10. StorageHandedOut'
      BY <2>0 DEF ObjectInv, StorageHandedOut
    <3>11. PendingUpload'
      BY <3>u DEF PendingUpload
    <3>12. \A f : Linked(f)' => Linked(f) \/ f = up.fileid
      BY <3>2, <3>6 DEF Linked
    <3>13. PendingRemove'
      <4>1. CASE pc["filesop"] = "del_info"
        <5>1. loc["filesop"].key.md5 \in Md5s
          BY <4>1, <1>p, AtWork
        <5>2. PICK i \in 1..Len(file_info[loc["filesop"].key.md5]) :
                file_info[loc["filesop"].key.md5][i].file_id = loc["filesop"].fileid
          BY <4>1 DEF ObjectInv, PendingRemove, me
        <5>3. /\ i \in 1..Len(file_info'[loc["filesop"].key.md5])
              /\ file_info'[loc["filesop"].key.md5][i] = file_info[loc["filesop"].key.md5][i]
          BY <5>1, <3>4, <3>m DEF n
        <5> QED
          BY <4>1, <1>o, <5>2, <5>3 DEF PendingRemove, me
      <4>2. CASE pc["filesop"] = "del_remove"
        <5>1. pc["upload"] \in {"up_url", "up_info"}
          BY <1>4 DEF UploadInsertInfo
        <5> QED
          BY <4>2, <5>1, <1>o, <2>0, <3>12, <3>u DEF ObjectInv, PendingRemove, me, up
      <4> QED
        BY <1>o, <4>1, <4>2 DEF PendingRemove
    <3> QED
      BY <3>7, <3>8, <3>9, <3>10, <3>11, <3>13 DEF ObjectInv
  <2> QED
    BY <1>4, <2>1, <2>2 DEF UploadInsertInfo
<1>5. CASE UploadInsertList \/ UploadSelectCount \/ UploadSetCount
  <2>1. UNCHANGED <<file_info, storage, content>>
    BY <1>5 DEF UploadInsertList, UploadSelectCount, SelectCountToAdd, UploadSetCount,
                mysql, fdfs
  <2>2. UploadQuiet
    <3>1. ASSUME NEW l \in {"up_selcount", "up_count"}, NEW v, Goto("upload", l, v)
          PROVE  UploadQuiet
      BY <1>p, <3>1, GotoFacts DEF UploadQuiet
    <3> QED
      BY <1>5, <1>f, <3>1
         DEF UploadInsertList, UploadSelectCount, SelectCountToAdd, UploadSetCount
  <2> QED
    BY <1>q, <2>1, <2>2
<1> QED
  BY <1>1, <1>2, <1>3, <1>4, <1>5 DEF UploadStep

\* del_file deletes the rows of an object before it removes it; share_file
\* does not touch objects.
LEMMA FilesOpObjects ==
  ASSUME TypeOK, ObjectInv, FilesOpStep
  PROVE  ObjectInv'
<1> DEFINE v == loc["filesop"]
           k == v.key.md5
<1>p. /\ "upload" \in Programs /\ "filesop" \in Programs /\ ControlTypeOK
  BY DEF Programs, TypeOK
<1>v. me = v
  BY DEF me
<1>r. file_info \in [Md5s -> Seq(FileRow)]
  BY DEF TypeOK, TablesTypeOK
<1>w. pc["filesop"] # "idle" => v \in Locals /\ k \in Md5s /\ v.count \in Int
  BY <1>p, AtWork
<1>g. ASSUME NEW l, NEW x, Goto("filesop", l, x)
      PROVE  /\ pc'["filesop"] = l /\ loc'["filesop"] = x
             /\ UploadQuiet
             /\ pc'["upload"] = pc["upload"] /\ loc'["upload"] = loc["upload"]
             /\ l \notin {"del_info", "del_remove"} => FilesOpQuiet
  BY <1>g, <1>p, GotoFacts DEF UploadQuiet, FilesOpQuiet
<1>f. ASSUME NEW c, Finish("filesop", c)
      PROVE  /\ UploadQuiet /\ FilesOpQuiet /\ pc'["filesop"] = "idle"
             /\ pc'["upload"] = pc["upload"] /\ loc'["upload"] = loc["upload"]
  BY <1>f, <1>p, FinishFacts DEF UploadQuiet, FilesOpQuiet
<1>q. ASSUME UploadQuiet, FilesOpQuiet, UNCHANGED <<file_info, storage, content>>
      PROVE  ObjectInv'
  BY <1>q, UnchangedObjects, QuietStep
<1>1. CASE DelZexit \/ DelStatus \/ DelShare \/ DelSelectShares
  <2>1. UploadQuiet /\ FilesOpQuiet
    BY <1>1, <1>g, <1>f DEF DelZexit, DelStatus, DelShare, DelSelectShares, FilesOpFails
  <2> QED
    BY <1>1, <1>q, <2>1
       DEF DelZexit, DelStatus, DelShare, DelSelectShares, mysql, fdfs
<1>2. CASE DelSetShares \/ DelZrem \/ DelHdel \/ DelSelectCount
  <2>1. UploadQuiet /\ FilesOpQuiet
    BY <1>2, <1>g, <1>f DEF DelSetShares, DelZrem, DelHdel, DelSelectCount, FilesOpFails
  <2> QED
    BY <1>2, <1>q, <2>1
       DEF DelSetShares, DelZrem, DelHdel, DelSelectCount, mysql, fdfs
<1>3. CASE DelSetCount \/ DelList \/ DelSelectReference
  <2>1. UploadQuiet /\ FilesOpQuiet
    BY <1>3, <1>g, <1>f DEF DelSetCount, DelList, DelSelectReference, FilesOpFails
  <2> QED
    BY <1>3, <1>q, <2>1
       DEF DelSetCount, DelList, DelSelectReference, mysql, fdfs
<1>4. CASE DelSetReference
  <2>1. UploadQuiet /\ FilesOpQuiet
    BY <1>4, <1>g, <1>f DEF DelSetReference, FilesOpFails
  <2>2. SameObjects
    <3>1. k \in Md5s /\ v.count \in Int
      BY <1>4, <1>w DEF DelSetReference
    <3>2. CASE UNCHANGED file_info
      BY <3>2, UnchangedObjects
    <3>3. CASE file_info' = UpdateCountWhere(file_info, k, v.count)
      BY <1>r, <3>1, <3>3, UpdatedRows
    <3> QED
      BY <1>4, <3>2, <3>3 DEF DelSetReference, me
  <2> QED
    BY <1>4, <2>1, <2>2, QuietStep DEF DelSetReference, fdfs
<1>5. CASE DelSelectId
  <2>0. UNCHANGED <<file_info, storage, content>>
    BY <1>5 DEF DelSelectId, mysql, fdfs
  <2>1. ASSUME NEW c, Finish("filesop", c)
        PROVE  ObjectInv'
    BY <1>f, <1>q, <2>0, <2>1
  <2>2. CASE /\ HasRow(file_info, k)
             /\ Goto("filesop", "del_info", [v EXCEPT !.fileid = FirstRow(file_info, k).file_id])
    <3>1. v \in Locals /\ k \in Md5s
      BY <1>5, <1>w DEF DelSelectId
    <3>2. 1 \in 1..Len(file_info[k]) /\ FirstRow(file_info, k) = file_info[k][1]
      BY <1>r, <2>2, <3>1, FirstRowFacts DEF FirstRow
    <3>3. /\ pc'["filesop"] = "del_info"
          /\ loc'["filesop"].key = v.key
          /\ loc'["filesop"].fileid = FirstRow(file_info, k).file_id
          /\ UploadQuiet
          /\ pc'["upload"] = pc["upload"] /\ loc'["upload"] = loc["upload"]
      BY <1>g, <2>2, <3>1 DEF Locals
    <3>4. PendingRemove'
      BY <2>0, <3>2, <3>3 DEF PendingRemove, me
    <3>5. SameObjects
      BY <2>0, UnchangedObjects
    <3>6. /\ FileInfoBacked' /\ ObjectsNotShared' /\ UrlNamesObject' /\ StorageHandedOut'
          /\ \A f : Linked(f)' <=> Linked(f)
      BY <2>0, <3>5, FrameRows
    <3>7. PendingUpload'
      BY <2>0, <3>3, <3>6 DEF ObjectInv, PendingUpload
    <3> QED
      BY <3>4, <3>6, <3>7 DEF ObjectInv
  <2> QED
    BY <1>5, <1>v, <2>1, <2>2 DEF DelSelectId, FilesOpFails
<1>6. CASE DelInfo
  <2>0. UNCHANGED <<storage, content>>
    BY <1>6 DEF DelInfo, fdfs
  <2>1. CASE Finish("filesop", "014") /\ UNCHANGED file_info
    BY <1>f, <1>q, <2>0, <2>1
  <2>2. CASE file_info' = DeleteWhere(file_info, k) /\ Goto("filesop", "del_remove", v)
    <3>1. k \in Md5s
      BY <1>6, <1>w DEF DelInfo
    <3>2. /\ Len(file_info'[k]) = 0
          /\ \A j \in Md5s : j # k => file_info'[j] = file_info[j]
      BY <1>r, <2>2, <3>1, DeleteFacts
    <3>3. \A m \in Md5s : \A i \in 1..Len(file_info'[m]) :
            m # k /\ i \in 1..Len(file_info[m]) /\ file_info'[m][i] = file_info[m][i]
      BY <3>2
    <3>4. FileInfoBacked' /\ UrlNamesObject' /\ StorageHandedOut'
      BY <2>0, <3>3 DEF ObjectInv, FileInfoBacked, UrlNamesObject, StorageHandedOut
    <3>5. ObjectsNotShared'
      <4>1. SUFFICES ASSUME NEW a \in Md5s, NEW b \in Md5s,
                            NEW i \in 1..Len(file_info'[a]), NEW j \in 1..Len(file_info'[b]),
                            file_info'[a][i].file_id = file_info'[b][j].file_id
                     PROVE  a = b /\ i = j
        BY DEF ObjectsNotShared
      <4>2. /\ i \in 1..Len(file_info[a]) /\ file_info'[a][i] = file_info[a][i]
            /\ j \in 1..Len(file_info[b]) /\ file_info'[b][j] = file_info[b][j]
        BY <3>3
      <4> QED
        BY <4>1, <4>2 DEF ObjectInv, ObjectsNotShared
    <3>6. \A f : Linked(f)' => Linked(f)
      BY <3>3 DEF Linked
    <3>7. /\ pc'["filesop"] = "del_remove" /\ loc'["filesop"] = v
          /\ pc'["upload"] = pc["upload"] /\ loc'["upload"] = loc["upload"]
      BY <1>g, <2>2
    <3>8. PendingUpload'
      BY <2>0, <3>6, <3>7 DEF ObjectInv, PendingUpload
    <3>9. PICK i \in 1..Len(file_info[k]) : file_info[k][i].file_id = v.fileid
      BY <1>6, <1>v DEF DelInfo, ObjectInv, PendingRemove
    <3>10. Linked(v.fileid) /\ v.fileid \in storage
      BY <3>1, <3>9 DEF Linked, ObjectInv, FileInfoBacked
    <3>11. ~Linked(v.fileid)'
      <4>1. SUFFICES ASSUME NEW m \in Md5s, NEW j \in 1..Len(file_info'[m]),
                            file_info'[m][j].file_id = v.fileid
                     PROVE  FALSE
        BY <3>7 DEF Linked
      <4>2. m # k /\ j \in 1..Len(file_info[m]) /\ file_info'[m][j] = file_info[m][j]
        BY <3>3
      <4>3. file_info[m][j].file_id = file_info[k][i].file_id
        BY <3>9, <4>1, <4>2
      <4> QED
        BY <3>1, <3>9, <4>2, <4>3 DEF ObjectInv, ObjectsNotShared
    <3>12. v.fileid \in FileIds /\ content[v.fileid] # NoMd5
      BY <3>10 DEF ObjectInv, StorageHandedOut, TypeOK, StoresTypeOK
    <3>13. PendingRemove'
      BY <2>0, <3>7, <3>10, <3>11, <3>12 DEF PendingRemove, me, ObjectInv, PendingUpload
    <3> QED
      BY <3>4, <3>5, <3>8, <3>13 DEF ObjectInv
  <2> QED
    BY <1>6, <1>v, <2>1, <2>2 DEF DelInfo, FilesOpFails
<1>7. CASE DelRemove
  <2>0. UNCHANGED <<file_info, content>>
    BY <1>7 DEF DelRemove, mysql
  <2>1. UploadQuiet /\ FilesOpQuiet /\ pc'["filesop"] = "idle"
        /\ pc'["upload"] = pc["upload"] /\ loc'["upload"] = loc["upload"]
    BY <1>7, <1>f DEF DelRemove
  <2>2. CASE UNCHANGED storage
    BY <1>q, <2>0, <2>1, <2>2
  <2>3. CASE storage' = storage \ {v.fileid}
    <3>1. /\ ~Linked(v.fileid)
          /\ pc["upload"] \in {"up_url", "up_info"} => v.fileid # loc["upload"].fileid
      BY <1>7, <1>v DEF DelRemove, ObjectInv, PendingRemove
    <3>2. \A f : Linked(f)' <=> Linked(f)
      BY <2>0 DEF Linked
    <3>3. FileInfoBacked'
      BY <2>0, <2>3, <3>1 DEF ObjectInv, FileInfoBacked, Linked
    <3>4. ObjectsNotShared' /\ UrlNamesObject' /\ StorageHandedOut'
      BY <2>0, <2>3 DEF ObjectInv, ObjectsNotShared, UrlNamesObject, StorageHandedOut
    <3>5. PendingUpload'
      BY <2>0, <2>1, <2>3, <3>1, <3>2 DEF ObjectInv, PendingUpload
    <3>6. PendingRemove'
      BY <2>1 DEF PendingRemove
    <3> QED
      BY <3>3, <3>4, <3>5, <3>6 DEF ObjectInv
  <2> QED
    BY <1>7, <1>v, <2>2, <2>3 DEF DelRemove
<1>8. CASE ShareStep
  <2>1. UploadQuiet /\ FilesOpQuiet
    <3>1. CASE ShareZexit \/ ShareSelect \/ ShareReadd \/ ShareStatus
      BY <3>1, <1>g, <1>f DEF ShareZexit, ShareSelect, ShareReadd, ShareStatus, FilesOpFails
    <3>2. CASE ShareInsert \/ ShareSelectCount
      BY <3>2, <1>g, <1>f DEF ShareInsert, ShareSelectCount, SelectCountToAdd, FilesOpFails
    <3>3. CASE ShareSetCount \/ ShareZadd \/ ShareHset
      BY <3>3, <1>g, <1>f DEF ShareSetCount, ShareZadd, ShareHset
    <3> QED
      BY <1>8, <3>1, <3>2, <3>3 DEF ShareStep
  <2>2. UNCHANGED <<file_info, storage, content>>
    BY <1>8 DEF ShareStep, ShareZexit, ShareSelect, ShareReadd, ShareStatus, ShareInsert,
                ShareSelectCount, SelectCountToAdd, ShareSetCount, ShareZadd, ShareHset,
                mysql, fdfs
  <2> QED
    BY <1>q, <2>1, <2>2
<1> QED
  BY <1>1, <1>2, <1>3, <1>4, <1>5, <1>6, <1>7, <1>8 DEF FilesOpStep, DelStep

LEMMA InitObjects == Init => ObjectInv
  BY DEF Init, ObjectInv, FileInfoBacked, ObjectsNotShared, UrlNamesObject, PendingUpload,
         PendingRemove, StorageHandedOut, Blank, Linked, Programs

LEMMA NextObjects == TypeOK /\ ObjectInv /\ [Next]_vars => ObjectInv'
<1> SUFFICES ASSUME TypeOK, ObjectInv, [Next]_vars PROVE ObjectInv'
  OBVIOUS
<1>p. /\ "upload" \in Programs /\ "filesop" \in Programs /\ "md5" \in Programs
      /\ ControlTypeOK
  BY DEF Programs, TypeOK
<1>q. ASSUME UploadQuiet, FilesOpQuiet, UNCHANGED <<file_info, storage, content>>
      PROVE  ObjectInv'
  BY <1>q, UnchangedObjects, QuietStep
<1>1. CASE Request
  <2>1. UNCHANGED <<file_info, storage, content>>
    BY <1>1, AcceptedRequest DEF mysql, fdfs
  <2>2. PICK p \in Programs, k \in FileKey \cup {NoKey} :
          \E l \in LabelsOf(p) : Accept(p, k, l) /\ l \in
                 {"up_recv", "md5_info", "del_zexit", "sh_zexit", "pv_select", "ca_status", "sv_list",
                  "ls_count", "ls_normal", "rk_select"}
    BY <1>1, AcceptedRequest
  <2>3. PICK l \in LabelsOf(p) : Accept(p, k, l) /\ l \in
                 {"up_recv", "md5_info", "del_zexit", "sh_zexit", "pv_select", "ca_status", "sv_list",
                  "ls_count", "ls_normal", "rk_select"}
    BY <2>2
  <2>4. /\ pc[p] = "idle" /\ pc'[p] = l /\ loc[p] \in Locals
        /\ loc'[p] = [loc[p] EXCEPT !.key = k]
        /\ \A q \in Programs : q # p => pc'[q] = pc[q] /\ loc'[q] = loc[q]
    BY <1>p, <2>3 DEF Accept, ControlTypeOK
  <2>5. UploadQuiet
    <3>1. CASE p = "upload"
      <4>1. l = "up_recv"
        BY <2>3, <3>1, LabelFacts DEF UploadLabels
      <4>2. loc["upload"].fileid = NoFile /\ loc["upload"].url = <<>>
        BY <2>4, <3>1 DEF ObjectInv, PendingUpload
      <4>3. loc'["upload"].fileid = NoFile /\ loc'["upload"].url = <<>>
        BY <2>4, <3>1, <4>2 DEF Locals
      <4> QED
        BY <2>4, <3>1, <4>1, <4>3 DEF UploadQuiet
    <3>2. CASE p # "upload"
      BY <1>p, <2>4, <3>2 DEF UploadQuiet
    <3> QED
      BY <3>1, <3>2
  <2>6. FilesOpQuiet
    BY <1>p, <2>3, <2>4 DEF FilesOpQuiet
  <2> QED
    BY <1>q, <2>1, <2>5, <2>6
<1>2. CASE UploadStep
  BY <1>2, UploadObjects
<1>3. CASE Md5Step
  BY <1>3, Md5Objects
<1>4. CASE FilesOpStep
  BY <1>4, FilesOpObjects
<1>7. CASE ShareOpStep \/ ShareListStep
  BY <1>7, ShareOpObjects, ShareListObjects
<1>5. CASE \E p \in Programs : Crash(p)
  <2>1. PICK p \in Programs : Crash(p)
    BY <1>5
  <2>2. UNCHANGED <<file_info, storage, content>>
    BY <2>1 DEF Crash, mysql, fdfs
  <2>3. Blank.fileid = NoFile /\ Blank.url = <<>>
    BY DEF Blank
  <2>4. UploadQuiet
    BY <1>p, <2>1, <2>3 DEF Crash, UploadQuiet, ControlTypeOK
  <2>5. FilesOpQuiet
    BY <1>p, <2>1 DEF Crash, FilesOpQuiet, ControlTypeOK
  <2> QED
    BY <1>q, <2>2, <2>4, <2>5
<1>6. CASE UNCHANGED vars
  <2>1. UploadQuiet /\ FilesOpQuiet
    BY <1>6 DEF vars, UploadQuiet, FilesOpQuiet
  <2> QED
    BY <1>6, <1>q, <2>1 DEF vars, mysql, fdfs
<1> QED
  BY <1>1, <1>2, <1>3, <1>4, <1>5, <1>6, <1>7 DEF Next, Done

\* The objects' invariant holds in every state.
THEOREM ObjectsCorrect == Spec => []ObjectInv
  BY InitType, NextType, InitObjects, NextObjects, PTL DEF Spec

\* A recorded content can always be fetched: under every interleaving of the
\* programs, every failure and every kill, the object of a row of file_info is
\* in FastDFS, with the content of the row's md5.
THEOREM RecordsBacked == Spec => []FileInfoBacked
<1>1. ObjectInv => FileInfoBacked
  BY DEF ObjectInv
<1> QED
  BY <1>1, ObjectsCorrect, PTL

\* No two rows of file_info ever name one object, with keys in the schema or
\* without.
THEOREM ObjectsOwned == Spec => []ObjectsNotShared
<1>1. ObjectInv => ObjectsNotShared
  BY DEF ObjectInv
<1> QED
  BY <1>1, ObjectsCorrect, PTL

\* The url of a row never contains what an earlier upload left in the buffer.
THEOREM UrlsCorrect == Spec => []UrlNamesObject
<1>1. ObjectInv => UrlNamesObject
  BY DEF ObjectInv
<1> QED
  BY <1>1, ObjectsCorrect, PTL

------------------------------------------------------------------------------
(* The counts of the users *)

\* The step leaves alone the programs that are about to write a user's count,
\* or takes them elsewhere.
UploadCountless ==
  \/ pc'["upload"] = pc["upload"] /\ loc'["upload"] = loc["upload"]
  \/ pc'["upload"] # "up_count"
Md5Countless ==
  \/ pc'["md5"] = pc["md5"] /\ loc'["md5"] = loc["md5"]
  \/ pc'["md5"] # "md5_count"
DelCountless ==
  \/ pc'["filesop"] = pc["filesop"] /\ loc'["filesop"] = loc["filesop"]
  \/ pc'["filesop"] # "del_count"
SaveCountless ==
  \/ pc'["sharefilesop"] = pc["sharefilesop"] /\ loc'["sharefilesop"] = loc["sharefilesop"]
  \/ pc'["sharefilesop"] # "sv_count"
Countless == UploadCountless /\ Md5Countless /\ DelCountless /\ SaveCountless

LEMMA CountlessStep ==
  ASSUME CountsRead, Countless
  PROVE  CountsRead'
  BY DEF CountsRead, Countless, UploadCountless, Md5Countless, DelCountless, SaveCountless,
         me, op

\* A step of one program that does not take it to the write of a count.
LEMMA CountlessProgram ==
  ASSUME NEW p \in Programs,
         \A q \in Programs : q # p => pc'[q] = pc[q] /\ loc'[q] = loc[q],
         pc'[p] \notin {"up_count", "md5_count", "del_count", "sv_count"}
  PROVE  Countless
  BY DEF Countless, UploadCountless, Md5Countless, DelCountless, SaveCountless, Programs

\* The rows of the users in a table of counts hold at least one.
Positive(t) == \A u \in Users : \A i \in 1..Len(t[u]) : t[u][i] >= 1

LEMMA PositiveTables ==
  ASSUME NEW t \in [Accounts -> Seq(Int)], Positive(t), NEW a \in Accounts
  PROVE  /\ Positive(Insert(t, a, 1))
         /\ Positive(DeleteWhere(t, a))
         /\ \A n \in Int : (a \in Users => n >= 1) => Positive(UpdateWhere(t, a, n))
<1>u. Users \subseteq Accounts
  BY DEF Accounts
<1>1. Positive(Insert(t, a, 1))
  <2> DEFINE s == Insert(t, a, 1)
  <2>1. /\ Len(s[a]) = Len(t[a]) + 1 /\ s[a][Len(t[a]) + 1] = 1
        /\ \A i \in 1..Len(t[a]) : s[a][i] = t[a][i]
        /\ \A b \in Accounts : b # a => s[b] = t[b]
    BY DEF Insert
  <2>2. Len(t[a]) \in Nat
    OBVIOUS
  <2> HIDE DEF s
  <2>3. SUFFICES ASSUME NEW u \in Users, NEW i \in 1..Len(s[u])
                 PROVE  s[u][i] >= 1
    BY DEF Positive, s
  <2>4. CASE u # a
    BY <1>u, <2>1, <2>4 DEF Positive
  <2>5. CASE u = a
    <3>1. i \in 1..Len(t[a]) \/ i = Len(t[a]) + 1
      BY <2>1, <2>2, <2>5
    <3> QED
      BY <2>1, <2>5, <3>1 DEF Positive
  <2> QED
    BY <2>4, <2>5
<1>2. Positive(DeleteWhere(t, a))
  <2> DEFINE s == DeleteWhere(t, a)
  <2>1. Len(s[a]) = 0 /\ \A b \in Accounts : b # a => s[b] = t[b]
    BY DeleteFacts
  <2> HIDE DEF s
  <2>2. SUFFICES ASSUME NEW u \in Users, NEW i \in 1..Len(s[u])
                 PROVE  s[u][i] >= 1
    BY DEF Positive, s
  <2>3. u # a
    BY <2>1
  <2> QED
    BY <1>u, <2>1, <2>3 DEF Positive
<1>3. ASSUME NEW n \in Int, a \in Users => n >= 1
      PROVE  Positive(UpdateWhere(t, a, n))
  <2> DEFINE s == UpdateWhere(t, a, n)
  <2>1. /\ Len(s[a]) = Len(t[a]) /\ \A i \in 1..Len(t[a]) : s[a][i] = n
        /\ \A b \in Accounts : b # a => s[b] = t[b]
    <3> DEFINE R == Int
    <3>1. t \in [Accounts -> Seq(R)] /\ n \in R
      OBVIOUS
    <3> HIDE DEF R
    <3> QED
      BY <3>1, UpdateFacts
  <2> HIDE DEF s
  <2>2. SUFFICES ASSUME NEW u \in Users, NEW i \in 1..Len(s[u])
                 PROVE  s[u][i] >= 1
    BY DEF Positive, s
  <2>3. CASE u # a
    BY <1>u, <2>1, <2>3 DEF Positive
  <2>4. CASE u = a
    BY <1>3, <2>1, <2>4
  <2> QED
    BY <2>3, <2>4
<1> QED
  BY <1>1, <1>2, <1>3

\* A statement that writes such a table to user_file_count.
LEMMA PositiveWrite ==
  ASSUME NEW t, Positive(t), user_file_count' = t
  PROVE  UserCountPositive'
  BY DEF Positive, UserCountPositive

LEMMA PositiveNow ==
  ASSUME UserCountPositive
  PROVE  Positive(user_file_count)
  BY DEF Positive, UserCountPositive

LEMMA PositiveUnchanged ==
  ASSUME UserCountPositive, UNCHANGED user_file_count
  PROVE  UserCountPositive'
  BY DEF UserCountPositive

\* The first row of a user holds at least one.
LEMMA PositiveRow ==
  ASSUME user_file_count \in [Accounts -> Seq(Int)], UserCountPositive,
         NEW u \in Users, HasRow(user_file_count, u)
  PROVE  FirstRow(user_file_count, u) >= 1
<1>1. u \in Accounts
  BY DEF Accounts
<1>2. 1 \in 1..Len(user_file_count[u])
  BY <1>1 DEF HasRow
<1> QED
  BY <1>2 DEF UserCountPositive, FirstRow

\* The count that the common tail writes.
LEMMA PositiveAdd ==
  ASSUME TypeOK, UserCountPositive, NEW p \in Programs, p # "sharefiles", pc[p] # "idle",
         NEW a \in Accounts, a \in Users /\ loc[p].sql = "update" => loc[p].count >= 1,
         AddToCount(p, a)
  PROVE  UserCountPositive'
<1>1. user_file_count \in [Accounts -> Seq(Int)]
  BY DEF TypeOK, TablesTypeOK
<1>2. loc[p].count \in Int
  BY AtWork DEF TypeOK
<1>3. CASE loc[p].sql = "update"
  <2>1. user_file_count' = UpdateWhere(user_file_count, a, loc[p].count + 1)
    BY <1>3 DEF AddToCount
  <2>2. loc[p].count + 1 \in Int /\ (a \in Users => loc[p].count + 1 >= 1)
    BY <1>2, <1>3
  <2>3. Positive(UpdateWhere(user_file_count, a, loc[p].count + 1))
    BY <1>1, <2>2, PositiveTables, PositiveNow
  <2> QED
    BY <2>1, <2>3, PositiveWrite
<1>4. CASE loc[p].sql = "insert"
  <2>1. user_file_count' = Insert(user_file_count, a, 1)
    BY <1>4 DEF AddToCount
  <2>2. Positive(Insert(user_file_count, a, 1))
    BY <1>1, PositiveTables, PositiveNow
  <2> QED
    BY <2>1, <2>2, PositiveWrite
<1>5. CASE loc[p].sql # "update" /\ loc[p].sql # "insert"
  BY <1>5, PositiveUnchanged DEF AddToCount
<1> QED
  BY <1>3, <1>4, <1>5

\* The count that the common tail reads.
LEMMA PositiveRead ==
  ASSUME TypeOK, UserCountPositive, NEW p \in Programs, NEW a \in Users,
         NEW from, NEW to, from # "idle", SelectCountToAdd(p, a, from, to)
  PROVE  /\ loc'[p].sql = "update" => loc'[p].count >= 1
         /\ \A q \in Programs : q # p => pc'[q] = pc[q] /\ loc'[q] = loc[q]
         /\ UNCHANGED user_file_count
<1>1. user_file_count \in [Accounts -> Seq(Int)] /\ ControlTypeOK
  BY DEF TypeOK, TablesTypeOK
<1>2. loc[p] \in Locals
  BY <1>1 DEF ControlTypeOK
<1>3. UNCHANGED user_file_count
  BY DEF SelectCountToAdd, mysql
<1>4. CASE /\ HasRow(user_file_count, a)
           /\ Goto(p, to, [loc[p] EXCEPT !.sql = "update",
                                         !.count = FirstRow(user_file_count, a)])
  <2>1. FirstRow(user_file_count, a) >= 1
    BY <1>1, <1>4, PositiveRow
  <2> DEFINE x == [loc[p] EXCEPT !.sql = "update", !.count = FirstRow(user_file_count, a)]
  <2>2. x.count = FirstRow(user_file_count, a)
    BY <1>2 DEF Locals
  <2>3. Goto(p, to, x)
    BY <1>4
  <2> HIDE DEF x
  <2>4. /\ loc'[p] = x
        /\ \A q \in Programs : q # p => pc'[q] = pc[q] /\ loc'[q] = loc[q]
    BY <1>1, <2>3, GotoFacts
  <2> QED
    BY <1>3, <2>1, <2>2, <2>4
<1>5. ASSUME NEW s \in {"insert", "select"}, Goto(p, to, [loc[p] EXCEPT !.sql = s])
      PROVE  /\ loc'[p].sql # "update"
             /\ \A q \in Programs : q # p => pc'[q] = pc[q] /\ loc'[q] = loc[q]
  <2> DEFINE x == [loc[p] EXCEPT !.sql = s]
  <2>1. x.sql = s
    BY <1>2 DEF Locals
  <2>2. Goto(p, to, x)
    BY <1>5
  <2> HIDE DEF x
  <2>3. /\ loc'[p] = x
        /\ \A q \in Programs : q # p => pc'[q] = pc[q] /\ loc'[q] = loc[q]
    BY <1>1, <2>2, GotoFacts
  <2> QED
    BY <2>1, <2>3
<1> QED
  BY <1>3, <1>4, <1>5 DEF SelectCountToAdd

\* cgi_upload and cgi_md5 add to the count that they have read.
LEMMA UploadCounts ==
  ASSUME TypeOK, CountInv, UploadStep
  PROVE  CountInv'
<1>p. /\ "upload" \in Programs /\ "md5" \in Programs /\ "filesop" \in Programs
      /\ "sharefilesop" \in Programs /\ ControlTypeOK
  BY DEF Programs, TypeOK
<1>i. UserCountPositive /\ CountsRead
  BY DEF CountInv
<1>1. CASE UploadRecv \/ UploadDstorage \/ UploadUrl \/ UploadInsertInfo \/ UploadInsertList
  <2>1. /\ pc'["upload"] # "up_count"
        /\ \A q \in Programs : q # "upload" => pc'[q] = pc[q] /\ loc'[q] = loc[q]
    <3>1. CASE UploadRecv
      BY <1>p, <3>1, GotoFacts, FinishFacts DEF UploadRecv
    <3>2. CASE UploadDstorage
      <4>1. Finish("upload", "009") \/ \E x : Goto("upload", "up_url", x)
        BY <3>2 DEF UploadDstorage
      <4>2. ASSUME NEW x, Goto("upload", "up_url", x)
            PROVE  /\ pc'["upload"] # "up_count"
                   /\ \A q \in Programs : q # "upload" => pc'[q] = pc[q] /\ loc'[q] = loc[q]
        BY <1>p, <4>2, GotoFacts
      <4> QED
        BY <1>p, <4>1, <4>2, FinishFacts
    <3>3. CASE UploadUrl \/ UploadInsertInfo \/ UploadInsertList
      BY <1>p, <3>3, GotoFacts, FinishFacts DEF UploadUrl, UploadInsertInfo, UploadInsertList
    <3> QED
      BY <1>1, <3>1, <3>2, <3>3
  <2>2. UNCHANGED user_file_count
    BY <1>1 DEF UploadRecv, UploadDstorage, UploadUrl, UploadInsertInfo, UploadInsertList, mysql
  <2>3. Countless
    BY <1>p, <2>1 DEF Countless, UploadCountless, Md5Countless, DelCountless, SaveCountless
  <2> QED
    BY <1>i, <2>2, <2>3, CountlessStep, PositiveUnchanged DEF CountInv
<1>2. CASE UploadSelectCount
  <2>1. loc["upload"].key.user \in Users
    BY <1>p, <1>2, AtWork DEF UploadSelectCount, SelectCountToAdd
  <2>2. SelectCountToAdd("upload", loc["upload"].key.user, "up_selcount", "up_count")
    BY <1>2 DEF UploadSelectCount
  <2>3. /\ loc'["upload"].sql = "update" => loc'["upload"].count >= 1
        /\ \A q \in Programs : q # "upload" => pc'[q] = pc[q] /\ loc'[q] = loc[q]
        /\ UNCHANGED user_file_count
    BY <1>p, <1>i, <2>1, <2>2, PositiveRead
  <2>4. CountsRead'
    BY <1>p, <1>i, <2>3 DEF CountsRead, me, op
  <2> QED
    BY <1>i, <2>3, <2>4, PositiveUnchanged DEF CountInv
<1>3. CASE UploadSetCount
  <2>1. Countless
    BY <1>p, <1>3, FinishFacts DEF UploadSetCount, Countless, UploadCountless, Md5Countless, DelCountless, SaveCountless
  <2>2. loc["upload"].key.user \in Accounts /\ pc["upload"] # "idle"
    BY <1>p, <1>3, AtWork DEF UploadSetCount, Accounts
  <2>3. loc["upload"].sql = "update" => loc["upload"].count >= 1
    BY <1>i, <1>3 DEF UploadSetCount, CountsRead
  <2>4. AddToCount("upload", loc["upload"].key.user) \/ UNCHANGED user_file_count
    BY <1>3 DEF UploadSetCount
  <2>5. UserCountPositive'
    BY <1>p, <1>i, <2>2, <2>3, <2>4, PositiveAdd, PositiveUnchanged
  <2> QED
    BY <1>i, <2>1, <2>5, CountlessStep DEF CountInv
<1> QED
  BY <1>1, <1>2, <1>3 DEF UploadStep

LEMMA Md5Counts ==
  ASSUME TypeOK, CountInv, Md5Step
  PROVE  CountInv'
<1>p. /\ "upload" \in Programs /\ "md5" \in Programs /\ "filesop" \in Programs
      /\ "sharefilesop" \in Programs /\ ControlTypeOK
  BY DEF Programs, TypeOK
<1>i. UserCountPositive /\ CountsRead
  BY DEF CountInv
<1>1. CASE Md5SelectInfo \/ Md5SelectList \/ Md5AddReference \/ Md5InsertList
  <2>1. Countless
    BY <1>p, <1>1, GotoFacts, FinishFacts
       DEF Md5SelectInfo, Md5SelectList, Md5AddReference, Md5InsertList,
           Countless, UploadCountless, Md5Countless, DelCountless, SaveCountless
  <2>2. UNCHANGED user_file_count
    BY <1>1 DEF Md5SelectInfo, Md5SelectList, Md5AddReference, Md5InsertList, mysql
  <2> QED
    BY <1>i, <2>1, <2>2, CountlessStep, PositiveUnchanged DEF CountInv
<1>2. CASE Md5SelectCount
  <2>1. loc["md5"].key.user \in Users
    BY <1>p, <1>2, AtWork DEF Md5SelectCount, SelectCountToAdd
  <2>2. SelectCountToAdd("md5", loc["md5"].key.user, "md5_selcount", "md5_count")
    BY <1>2 DEF Md5SelectCount
  <2>3. /\ loc'["md5"].sql = "update" => loc'["md5"].count >= 1
        /\ \A q \in Programs : q # "md5" => pc'[q] = pc[q] /\ loc'[q] = loc[q]
        /\ UNCHANGED user_file_count
    BY <1>p, <1>i, <2>1, <2>2, PositiveRead
  <2>4. CountsRead'
    BY <1>p, <1>i, <2>3 DEF CountsRead, me, op
  <2> QED
    BY <1>i, <2>3, <2>4, PositiveUnchanged DEF CountInv
<1>3. CASE Md5SetCount
  <2>1. Countless
    BY <1>p, <1>3, FinishFacts DEF Md5SetCount, Countless, UploadCountless, Md5Countless, DelCountless, SaveCountless
  <2>2. loc["md5"].key.user \in Accounts /\ pc["md5"] # "idle"
    BY <1>p, <1>3, AtWork DEF Md5SetCount, Accounts
  <2>3. loc["md5"].sql = "update" => loc["md5"].count >= 1
    BY <1>i, <1>3 DEF Md5SetCount, CountsRead
  <2>4. AddToCount("md5", loc["md5"].key.user) \/ UNCHANGED user_file_count
    BY <1>3 DEF Md5SetCount
  <2>5. UserCountPositive'
    BY <1>p, <1>i, <2>2, <2>3, <2>4, PositiveAdd, PositiveUnchanged
  <2> QED
    BY <1>i, <2>1, <2>5, CountlessStep DEF CountInv
<1> QED
  BY <1>1, <1>2, <1>3 DEF Md5Step

\* cgi_filesop subtracts from a user's count, and counts the shared files in a
\* row that is no user's.
LEMMA FilesOpCounts ==
  ASSUME TypeOK, CountInv, FilesOpStep
  PROVE  CountInv'
<1>p. /\ "upload" \in Programs /\ "md5" \in Programs /\ "filesop" \in Programs
      /\ "sharefilesop" \in Programs /\ ControlTypeOK
  BY DEF Programs, TypeOK
<1>i. UserCountPositive /\ CountsRead
  BY DEF CountInv
<1>t. user_file_count \in [Accounts -> Seq(Int)]
  BY DEF TypeOK, TablesTypeOK
<1>s. ShareUser \in Accounts /\ ShareUser \notin Users
  BY ConstantsAssumption DEF Accounts
<1>g. ASSUME NEW l, NEW x, Goto("filesop", l, x)
      PROVE  /\ UploadCountless /\ Md5Countless /\ SaveCountless
             /\ pc'["filesop"] = l /\ loc'["filesop"] = x
             /\ l # "del_count" => Countless
  BY <1>g, <1>p, GotoFacts DEF Countless, UploadCountless, Md5Countless, DelCountless, SaveCountless
<1>f. ASSUME NEW c, Finish("filesop", c)
      PROVE  Countless
  BY <1>f, <1>p, FinishFacts DEF Countless, UploadCountless, Md5Countless, DelCountless, SaveCountless
<1>q. ASSUME Countless, UserCountPositive'
      PROVE  CountInv'
  BY <1>i, <1>q, CountlessStep DEF CountInv
<1>1. CASE DelZexit \/ DelStatus \/ DelShare \/ DelSelectShares
  <2>1. Countless
    BY <1>1, <1>g, <1>f DEF DelZexit, DelStatus, DelShare, DelSelectShares, FilesOpFails
  <2>2. UNCHANGED user_file_count
    BY <1>1 DEF DelZexit, DelStatus, DelShare, DelSelectShares, mysql
  <2> QED
    BY <1>i, <1>q, <2>1, <2>2, PositiveUnchanged
<1>2. CASE DelSetShares
  <2>1. Countless
    BY <1>2, <1>g, <1>f DEF DelSetShares, FilesOpFails
  <2>2. loc["filesop"].count \in Int
    BY <1>p, <1>2, AtWork DEF DelSetShares
  <2>3. CASE UNCHANGED user_file_count
    BY <1>i, <1>q, <2>1, <2>3, PositiveUnchanged
  <2>4. CASE user_file_count'
               = UpdateWhere(user_file_count, ShareUser, loc["filesop"].count - 1)
    <3>1. loc["filesop"].count - 1 \in Int
      BY <2>2
    <3>2. UserCountPositive'
      <4>1. Positive(UpdateWhere(user_file_count, ShareUser, loc["filesop"].count - 1))
        BY <1>i, <1>s, <1>t, <3>1, PositiveTables, PositiveNow
      <4> QED
        BY <2>4, <4>1, PositiveWrite
    <3> QED
      BY <1>q, <2>1, <3>2
  <2> QED
    BY <1>2, <2>3, <2>4 DEF DelSetShares, me
<1>3. CASE DelZrem \/ DelHdel \/ DelList
  <2>1. Countless
    BY <1>3, <1>g, <1>f DEF DelZrem, DelHdel, DelList, FilesOpFails
  <2>2. UNCHANGED user_file_count
    BY <1>3 DEF DelZrem, DelHdel, DelList, mysql
  <2> QED
    BY <1>i, <1>q, <2>1, <2>2, PositiveUnchanged
<1>4. CASE DelSelectCount
  <2>1. UNCHANGED user_file_count
    BY <1>4 DEF DelSelectCount, mysql
  <2>2. ASSUME NEW c, Finish("filesop", c)
        PROVE  CountInv'
    BY <1>f, <1>i, <1>q, <2>1, <2>2, PositiveUnchanged
  <2>3. CASE /\ HasRow(user_file_count, loc["filesop"].key.user)
             /\ Goto("filesop", "del_count",
                     [loc["filesop"] EXCEPT
                        !.count = FirstRow(user_file_count, loc["filesop"].key.user)])
    <3>1. loc["filesop"] \in Locals /\ loc["filesop"].key.user \in Users
      BY <1>p, <1>4, AtWork DEF DelSelectCount
    <3>2. FirstRow(user_file_count, loc["filesop"].key.user) >= 1
      BY <1>i, <1>t, <2>3, <3>1, PositiveRow
    <3>3. loc'["filesop"].count = FirstRow(user_file_count, loc["filesop"].key.user)
      BY <1>g, <2>3, <3>1 DEF Locals
    <3>4. UploadCountless /\ Md5Countless /\ SaveCountless
      BY <1>g, <2>3
    <3>5. CountsRead'
      BY <1>i, <3>2, <3>3, <3>4 DEF CountsRead, UploadCountless, Md5Countless, SaveCountless, me, op
    <3> QED
      BY <1>i, <2>1, <3>5, PositiveUnchanged DEF CountInv
  <2> QED
    BY <1>4, <2>2, <2>3 DEF DelSelectCount, FilesOpFails, me
<1>5. CASE DelSetCount
  <2>1. Countless
    BY <1>5, <1>g, <1>f DEF DelSetCount, FilesOpFails
  <2>2. loc["filesop"].count \in Int /\ loc["filesop"].key.user \in Accounts
    BY <1>p, <1>5, AtWork DEF DelSetCount, Accounts
  <2>3. loc["filesop"].count >= 1
    BY <1>i, <1>5 DEF DelSetCount, CountsRead, me
  <2>4. CASE UNCHANGED user_file_count
    BY <1>i, <1>q, <2>1, <2>4, PositiveUnchanged
  <2>5. CASE user_file_count' = DeleteWhere(user_file_count, loc["filesop"].key.user)
    <3>1. Positive(DeleteWhere(user_file_count, loc["filesop"].key.user))
      BY <1>i, <1>t, <2>2, PositiveTables, PositiveNow
    <3> QED
      BY <1>q, <2>1, <2>5, <3>1, PositiveWrite
  <2>6. CASE /\ loc["filesop"].count # 1
             /\ user_file_count' = UpdateWhere(user_file_count, loc["filesop"].key.user,
                                               loc["filesop"].count - 1)
    <3>1. loc["filesop"].count - 1 \in Int /\ loc["filesop"].count - 1 >= 1
      BY <2>2, <2>3, <2>6
    <3>2. UserCountPositive'
      <4>1. Positive(UpdateWhere(user_file_count, loc["filesop"].key.user,
                                 loc["filesop"].count - 1))
        BY <1>i, <1>t, <2>2, <3>1, PositiveTables, PositiveNow
      <4> QED
        BY <2>6, <4>1, PositiveWrite
    <3> QED
      BY <1>q, <2>1, <3>2
  <2> QED
    BY <1>5, <2>4, <2>5, <2>6 DEF DelSetCount, me
<1>6. CASE DelSelectReference \/ DelSetReference \/ DelSelectId \/ DelInfo \/ DelRemove
  <2>1. Countless
    BY <1>6, <1>g, <1>f
       DEF DelSelectReference, DelSetReference, DelSelectId, DelInfo, DelRemove, FilesOpFails
  <2>2. UNCHANGED user_file_count
    BY <1>6 DEF DelSelectReference, DelSetReference, DelSelectId, DelInfo, DelRemove, mysql
  <2> QED
    BY <1>i, <1>q, <2>1, <2>2, PositiveUnchanged
<1>7. CASE ShareSetCount
  <2>1. Countless
    BY <1>7, <1>g, <1>f DEF ShareSetCount
  <2>2. AddToCount("filesop", ShareUser) \/ UNCHANGED user_file_count
    BY <1>7 DEF ShareSetCount
  <2>3. pc["filesop"] # "idle"
    BY <1>7 DEF ShareSetCount
  <2>4. UserCountPositive'
    BY <1>i, <1>p, <1>s, <2>2, <2>3, PositiveAdd, PositiveUnchanged
  <2> QED
    BY <1>q, <2>1, <2>4
<1>8. CASE ShareStep /\ ~ShareSetCount
  <2>1. Countless
    BY <1>8, <1>g, <1>f
       DEF ShareStep, ShareZexit, ShareSelect, ShareReadd, ShareStatus, ShareInsert,
           ShareSelectCount, SelectCountToAdd, ShareZadd, ShareHset, FilesOpFails
  <2>2. UNCHANGED user_file_count
    BY <1>8 DEF ShareStep, ShareZexit, ShareSelect, ShareReadd, ShareStatus, ShareInsert,
                ShareSelectCount, SelectCountToAdd, ShareZadd, ShareHset, mysql
  <2> QED
    BY <1>i, <1>q, <2>1, <2>2, PositiveUnchanged
<1> QED
  BY <1>1, <1>2, <1>3, <1>4, <1>5, <1>6, <1>7, <1>8 DEF FilesOpStep, DelStep

\* save_file adds to the count that it has read; cancel_share_file changes the
\* count of the shared files.
LEMMA ShareOpCounts ==
  ASSUME TypeOK, CountInv, ShareOpStep
  PROVE  CountInv'
<1>p. /\ "upload" \in Programs /\ "md5" \in Programs /\ "filesop" \in Programs
      /\ "sharefilesop" \in Programs /\ ControlTypeOK /\ op = loc["sharefilesop"]
  BY DEF Programs, TypeOK, op
<1>i. UserCountPositive /\ CountsRead
  BY DEF CountInv
<1>t. user_file_count \in [Accounts -> Seq(Int)]
  BY DEF TypeOK, TablesTypeOK
<1>s. ShareUser \in Accounts /\ ShareUser \notin Users
  BY ConstantsAssumption DEF Accounts
<1>g. ASSUME NEW l, NEW x, Goto("sharefilesop", l, x),
             l \notin {"up_count", "md5_count", "del_count", "sv_count"}
      PROVE  Countless
  BY <1>g, <1>p, GotoFacts, CountlessProgram
<1>f. ASSUME NEW c, Finish("sharefilesop", c)
      PROVE  Countless
  BY <1>f, <1>p, FinishFacts, CountlessProgram
<1>q. ASSUME Countless, UserCountPositive'
      PROVE  CountInv'
  BY <1>i, <1>q, CountlessStep DEF CountInv
<1>1. CASE PvStep
  <2>1. Countless
    <3>1. CASE PvSelect
      <4>1. \/ \E o \in Sharers(MemberOf(op.key)) :
                  Goto("sharefilesop", "pv_update",
                       [op EXCEPT !.count = FirstRow(share_file_list, o)])
            \/ Finish("sharefilesop", "017")
        BY <3>1, Zenon DEF PvSelect, ShareOpFails
      <4>2. ASSUME NEW o, Goto("sharefilesop", "pv_update",
                               [op EXCEPT !.count = FirstRow(share_file_list, o)])
            PROVE  Countless
        BY <4>2, <1>g
      <4> QED
        BY <4>1, <4>2, <1>f, Zenon
    <3>2. CASE PvUpdate \/ PvZexit
      BY <3>2, <1>g, <1>f DEF PvUpdate, PvZexit, ShareOpFails
    <3>3. CASE PvZincr \/ PvZadd \/ PvHset
      BY <3>3, <1>g, <1>f DEF PvZincr, PvZadd, PvHset
    <3> QED
      BY <1>1, <3>1, <3>2, <3>3 DEF PvStep
  <2>2. UNCHANGED user_file_count
    BY <1>1 DEF PvStep, PvSelect, PvUpdate, PvZexit, PvZincr, PvZadd, PvHset, mysql
  <2> QED
    BY <1>i, <1>q, <2>1, <2>2, PositiveUnchanged
<1>2. CASE CancelStatus \/ CancelSelectShares \/ CancelShare \/ CancelZrem \/ CancelHdel
  <2>1. Countless
    BY <1>2, <1>g, <1>f DEF CancelStatus, CancelSelectShares, CancelShare, CancelZrem,
                            CancelHdel, ShareOpFails
  <2>2. UNCHANGED user_file_count
    BY <1>2 DEF CancelStatus, CancelSelectShares, CancelShare, CancelZrem, CancelHdel, mysql
  <2> QED
    BY <1>i, <1>q, <2>1, <2>2, PositiveUnchanged
<1>3. CASE CancelSetShares
  <2>1. Countless
    BY <1>3, <1>g, <1>f DEF CancelSetShares, ShareOpFails
  <2>2. op.count - 1 \in Int
    BY <1>p, <1>3, AtWork DEF CancelSetShares
  <2>3. /\ Positive(DeleteWhere(user_file_count, ShareUser))
        /\ Positive(UpdateWhere(user_file_count, ShareUser, op.count - 1))
    BY <1>i, <1>s, <1>t, <2>2, PositiveTables, PositiveNow
  <2>4. \/ UNCHANGED user_file_count
        \/ user_file_count' = DeleteWhere(user_file_count, ShareUser)
        \/ user_file_count' = UpdateWhere(user_file_count, ShareUser, op.count - 1)
    BY <1>3 DEF CancelSetShares
  <2>5. UserCountPositive'
    BY <1>i, <2>3, <2>4, PositiveWrite, PositiveUnchanged
  <2> QED
    BY <1>q, <2>1, <2>5
<1>4. CASE SaveSelectList \/ SaveSelectReference \/ SaveAddReference \/ SaveInsertList
  <2>1. Countless
    BY <1>4, <1>g, <1>f DEF SaveSelectList, SaveSelectReference, SaveAddReference,
                            SaveInsertList, ShareOpFails
  <2>2. UNCHANGED user_file_count
    BY <1>4 DEF SaveSelectList, SaveSelectReference, SaveAddReference, SaveInsertList, mysql
  <2> QED
    BY <1>i, <1>q, <2>1, <2>2, PositiveUnchanged
<1>5. CASE SaveSelectCount
  <2>1. op.key.user \in Users
    BY <1>p, <1>5, AtWork DEF SaveSelectCount, SelectCountToAdd
  <2>2. SelectCountToAdd("sharefilesop", op.key.user, "sv_selcount", "sv_count")
    BY <1>5 DEF SaveSelectCount
  <2>3. /\ loc'["sharefilesop"].sql = "update" => loc'["sharefilesop"].count >= 1
        /\ \A q \in Programs : q # "sharefilesop" => pc'[q] = pc[q] /\ loc'[q] = loc[q]
        /\ UNCHANGED user_file_count
    BY <1>p, <1>i, <2>1, <2>2, PositiveRead
  <2>4. CountsRead'
    BY <1>p, <1>i, <2>3 DEF CountsRead, me, op
  <2> QED
    BY <1>i, <2>3, <2>4, PositiveUnchanged DEF CountInv
<1>6. CASE SaveSetCount
  <2>1. Countless
    BY <1>6, <1>f DEF SaveSetCount
  <2>2. op.key.user \in Accounts /\ pc["sharefilesop"] # "idle"
    BY <1>p, <1>6, AtWork DEF SaveSetCount, Accounts
  <2>3. op.sql = "update" => op.count >= 1
    BY <1>i, <1>6 DEF SaveSetCount, CountsRead, op
  <2>4. AddToCount("sharefilesop", op.key.user) \/ UNCHANGED user_file_count
    BY <1>6 DEF SaveSetCount
  <2>5. UserCountPositive'
    BY <1>p, <1>i, <2>2, <2>3, <2>4, PositiveAdd, PositiveUnchanged
  <2> QED
    BY <1>q, <2>1, <2>5
<1> QED
  BY <1>1, <1>2, <1>3, <1>4, <1>5, <1>6 DEF ShareOpStep, CancelStep, SaveStep

LEMMA ShareListCounts ==
  ASSUME TypeOK, CountInv, ShareListStep
  PROVE  CountInv'
<1>1. /\ \A q \in Programs : q # "sharefiles" => pc'[q] = pc[q] /\ loc'[q] = loc[q]
      /\ UNCHANGED user_file_count
  BY ShareListFacts DEF TypeOK, mysql
<1>2. Countless
  BY <1>1 DEF Countless, UploadCountless, Md5Countless, DelCountless, SaveCountless, Programs
<1> QED
  BY <1>1, <1>2, CountlessStep, PositiveUnchanged DEF CountInv

LEMMA InitCounts == Init => CountInv
<1>1. Users \subseteq Accounts
  BY DEF Accounts
<1> QED
  BY <1>1 DEF Init, CountInv, UserCountPositive, CountsRead, Programs, me, op

LEMMA NextCounts == TypeOK /\ CountInv /\ [Next]_vars => CountInv'
<1> SUFFICES ASSUME TypeOK, CountInv, [Next]_vars PROVE CountInv'
  OBVIOUS
<1>p. /\ "upload" \in Programs /\ "filesop" \in Programs /\ "md5" \in Programs
      /\ ControlTypeOK
  BY DEF Programs, TypeOK
<1>q. ASSUME Countless, UNCHANGED user_file_count
      PROVE  CountInv'
  BY <1>q, CountlessStep, PositiveUnchanged DEF CountInv
<1>1. CASE Request
  <2>1. UNCHANGED user_file_count
    BY <1>1, AcceptedRequest DEF mysql
  <2>2. PICK p \in Programs, k \in FileKey \cup {NoKey} :
          \E l : Accept(p, k, l) /\ l \notin {"up_count", "md5_count", "del_count", "sv_count"}
    BY <1>1, AcceptedRequest
  <2>3. /\ pc'[p] \notin {"up_count", "md5_count", "del_count", "sv_count"}
        /\ \A q \in Programs : q # p => pc'[q] = pc[q] /\ loc'[q] = loc[q]
    BY <1>p, <2>2 DEF Accept, ControlTypeOK
  <2> QED
    BY <1>q, <2>1, <2>3, CountlessProgram
<1>2. CASE UploadStep
  BY <1>2, UploadCounts
<1>3. CASE Md5Step
  BY <1>3, Md5Counts
<1>4. CASE FilesOpStep
  BY <1>4, FilesOpCounts
<1>7. CASE ShareOpStep \/ ShareListStep
  BY <1>7, ShareOpCounts, ShareListCounts
<1>5. CASE \E p \in Programs : Crash(p)
  <2>1. PICK p \in Programs : Crash(p)
    BY <1>5
  <2>2. /\ pc'[p] = "idle" /\ UNCHANGED user_file_count
        /\ \A q \in Programs : q # p => pc'[q] = pc[q] /\ loc'[q] = loc[q]
    BY <1>p, <2>1 DEF Crash, ControlTypeOK, mysql
  <2>3. Countless
    BY <2>2, CountlessProgram
  <2> QED
    BY <1>q, <2>2, <2>3
<1>6. CASE UNCHANGED vars
  BY <1>6, <1>q DEF vars, mysql, Countless, UploadCountless, Md5Countless, DelCountless, SaveCountless
<1> QED
  BY <1>1, <1>2, <1>3, <1>4, <1>5, <1>6, <1>7 DEF Next, Done

\* No interleaving, failure or kill leaves a user's row of user_file_count at
\* zero or below, although every program writes back a count that another one
\* may have changed since it was read.
THEOREM CountsPositive == Spec => []UserCountPositive
<1>1. CountInv => UserCountPositive
  BY DEF CountInv
<1>2. Spec => []CountInv
  BY InitType, NextType, InitCounts, NextCounts, PTL DEF Spec
<1> QED
  BY <1>1, <1>2, PTL

=============================================================================
