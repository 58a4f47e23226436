-------------------------- MODULE SharedFilesProofs --------------------------
(***************************************************************************)
(* Proofs about the list of shared files and its ranking, for any users,   *)
(* contents, names and file ids, and any number of requests and failures:  *)
(* that shared files are listed ones, what is left behind in the ranking   *)
(* and, where no file is taken out, that none is missing from it.          *)
(***************************************************************************)
EXTENDS SharedFiles, FileStoreProofs, FiniteSetTheorems

------------------------------------------------------------------------------
(* Steps of the programs that do not change what is shared *)

\* The program adds at most an entry to user_file_list, not shared.
ListGrows ==
  \/ UNCHANGED user_file_list
  \/ \E k \in FileKey : user_file_list' = Insert(user_file_list, k, 0)

\* A row that has been listed, or marked as shared, stays so.
LEMMA GrownList ==
  ASSUME TypeOK, ListGrows, NEW k \in FileKey
  PROVE  /\ Listed(k) => Listed(k)'
         /\ Marked(k) => Marked(k)'
<1>t. user_file_list \in [FileKey -> Seq({0, 1})]
  BY DEF TypeOK, TablesTypeOK
<1>1. CASE UNCHANGED user_file_list
  BY <1>1 DEF Listed, Marked, HasRow, FirstRow
<1>2. ASSUME NEW j \in FileKey, user_file_list' = Insert(user_file_list, j, 0)
      PROVE  /\ Listed(k) => Listed(k)'
             /\ Marked(k) => Marked(k)'
  <2>1. CASE j # k
    <3>1. user_file_list'[k] = user_file_list[k]
      BY <1>t, <1>2, <2>1 DEF Insert
    <3> QED
      BY <3>1 DEF Listed, Marked, HasRow, FirstRow
  <2>2. CASE j = k
    <3> SUFFICES ASSUME Listed(k) PROVE Listed(k)' /\ (Marked(k) => Marked(k)')
      BY DEF Marked
    <3>1. Len(user_file_list[k]) >= 1 /\ 1 \in 1..Len(user_file_list[k])
      BY <1>t, FirstRowFacts DEF Listed
    <3>2. /\ user_file_list' \in [FileKey -> Seq({0, 1})]
          /\ Len(user_file_list'[k]) = Len(user_file_list[k]) + 1
          /\ user_file_list'[k][1] = user_file_list[k][1]
      BY <1>t, <1>2, <2>2, <3>1, InsertFacts
    <3>3. user_file_list'[k] # <<>>
      BY <3>1, <3>2
    <3> QED
      BY <3>2, <3>3 DEF Listed, Marked, HasRow, FirstRow
  <2> QED
    BY <2>1, <2>2
<1> QED
  BY <1>1, <1>2 DEF ListGrows

\* The step keeps the rows of share_file_list and leaves cgi_filesop alone.
SharesKept ==
  /\ \A k \in FileKey : HasRow(share_file_list, k)' <=> HasRow(share_file_list, k)
  /\ ListGrows
  /\ pc'["filesop"] = pc["filesop"] /\ loc'["filesop"] = loc["filesop"]

LEMMA KeptShares ==
  ASSUME TypeOK, ShareListInv, SharesKept, pc'["sharefilesop"] \notin CancelLabels
  PROVE  ShareListInv'
<1>1. \A k \in FileKey : (Listed(k) => Listed(k)') /\ (Marked(k) => Marked(k)')
  BY GrownList DEF SharesKept
<1>2. pc["filesop"] # "idle" => me.key \in FileKey
  BY AtWork DEF TypeOK, Programs, me
<1>3. me' = me /\ pc'["filesop"] = pc["filesop"]
  BY DEF SharesKept, me
<1>4. \A k \in FileKey : HasRow(share_file_list, k)' => Marked(k)'
  BY <1>1 DEF ShareListInv, SharesKept
<1>5. pc'["filesop"] \in {"sh_zexit", "sh_select", "sh_readd", "sh_status"} => Listed(me.key)'
  BY <1>1, <1>2, <1>3 DEF ShareListInv
<1>6. pc'["filesop"] = "sh_insert" => Marked(me.key)'
  BY <1>1, <1>2, <1>3 DEF ShareListInv
<1>7. pc'["filesop"] \in {"del_selshares", "del_shares", "del_zrem", "del_hdel",
                          "del_selcount", "del_count", "del_list"} =>
        ~HasRow(share_file_list, me.key)'
  BY <1>2, <1>3 DEF ShareListInv, SharesKept
<1> QED
  BY <1>4, <1>5, <1>6, <1>7 DEF ShareListInv

\* What a step of another program leaves alone.  A count of a user's files is
\* not the count of the shared ones.
Apart ==
  /\ SharesKept
  /\ user_file_count'[ShareUser] = user_file_count[ShareUser]
  /\ faults' = faults \/ faults' = faults + 1
  /\ reply' = NoReply \/ reply'.code # "012"

\* Control steps of another program.
LEMMA ControlApart ==
  ASSUME TypeOK, NEW p \in Programs, p # "filesop"
  PROVE  /\ \A l, v : Goto(p, l, v) =>
              /\ pc'["filesop"] = pc["filesop"] /\ loc'["filesop"] = loc["filesop"]
              /\ reply' = NoReply /\ pc'[p] = l
              /\ \A q \in Programs : q # p => pc'[q] = pc[q]
         /\ \A c : Finish(p, c) =>
              /\ pc'["filesop"] = pc["filesop"] /\ loc'["filesop"] = loc["filesop"]
              /\ reply'.code = c /\ pc'[p] = "idle"
              /\ \A q \in Programs : q # p => pc'[q] = pc[q]
<1>1. "filesop" \in Programs /\ ControlTypeOK
  BY DEF Programs, TypeOK
<1>2. ASSUME NEW l, NEW v, Goto(p, l, v)
      PROVE  /\ pc'["filesop"] = pc["filesop"] /\ loc'["filesop"] = loc["filesop"]
             /\ reply' = NoReply /\ pc'[p] = l
             /\ \A q \in Programs : q # p => pc'[q] = pc[q]
  BY <1>1, <1>2, GotoFacts DEF Goto
<1>3. ASSUME NEW c, Finish(p, c)
      PROVE  /\ pc'["filesop"] = pc["filesop"] /\ loc'["filesop"] = loc["filesop"]
             /\ reply'.code = c /\ pc'[p] = "idle"
             /\ \A q \in Programs : q # p => pc'[q] = pc[q]
  BY <1>1, <1>3, FinishFacts DEF Finish
<1> QED
  BY <1>2, <1>3

\* Counting a file of a user leaves the count of the shared files alone.
LEMMA CountApart ==
  ASSUME TypeOK, NEW p \in Programs, NEW u \in Users, AddToCount(p, u), loc[p].count \in Int
  PROVE  user_file_count'[ShareUser] = user_file_count[ShareUser]
<1>1. user_file_count \in [Accounts -> Seq(Int)]
  BY DEF TypeOK, TablesTypeOK
<1>2. u \in Accounts /\ ShareUser \in Accounts /\ u # ShareUser
  BY ConstantsAssumption DEF Accounts
<1>3. CASE user_file_count' = UpdateWhere(user_file_count, u, loc[p].count + 1)
  BY <1>1, <1>2, <1>3 DEF UpdateWhere
<1>4. CASE user_file_count' = Insert(user_file_count, u, 1)
  BY <1>1, <1>2, <1>4 DEF Insert
<1>5. CASE UNCHANGED user_file_count
  BY <1>5
<1> QED
  BY <1>3, <1>4, <1>5 DEF AddToCount

\* cgi_upload, cgi_md5 and save_file change nothing of the shared files.
LEMMA UploadApart ==
  ASSUME TypeOK, UploadStep
  PROVE  /\ Apart /\ UNCHANGED <<share_file_list, zset, score>>
         /\ UNCHANGED <<pc["sharefilesop"], pc["sharefiles"]>>
<1>p. "upload" \in Programs /\ "sharefilesop" \in Programs /\ "sharefiles" \in Programs
  BY DEF Programs
<1>1. pc["upload"] # "idle"
  BY DEF UploadStep, UploadRecv, UploadDstorage, UploadUrl, UploadInsertInfo, UploadInsertList,
         UploadSelectCount, SelectCountToAdd, UploadSetCount
<1>2. loc["upload"].key \in FileKey /\ loc["upload"].key.user \in Users /\ loc["upload"].count \in Int
  BY <1>p, <1>1, AtWork DEF TypeOK
<1> DEFINE Control == /\ pc'["filesop"] = pc["filesop"] /\ loc'["filesop"] = loc["filesop"]
                      /\ reply' = NoReply \/ reply'.code # "012"
                      /\ pc'["sharefilesop"] = pc["sharefilesop"]
                      /\ pc'["sharefiles"] = pc["sharefiles"]
<1>3. \A l, v : Goto("upload", l, v) => Control
  BY <1>p, ControlApart
<1>4. \A c : Finish("upload", c) /\ c # "012" => Control
  BY <1>p, ControlApart
<1> HIDE DEF Control
<1>5. Control
  BY <1>3, <1>4
     DEF UploadStep, UploadRecv, UploadDstorage, UploadUrl, UploadInsertInfo, UploadInsertList,
         UploadSelectCount, SelectCountToAdd, UploadSetCount
<1>6. UNCHANGED <<share_file_list, zset, score>>
  BY DEF UploadStep, UploadRecv, UploadDstorage, UploadUrl, UploadInsertInfo, UploadInsertList,
         UploadSelectCount, SelectCountToAdd, UploadSetCount, mysql, redis
<1>7. ListGrows
  BY <1>2 DEF UploadStep, UploadRecv, UploadDstorage, UploadUrl, UploadInsertInfo,
              UploadInsertList, UploadSelectCount, SelectCountToAdd, UploadSetCount, mysql,
              ListGrows
<1>8. user_file_count'[ShareUser] = user_file_count[ShareUser]
  <2>1. UNCHANGED user_file_count \/ AddToCount("upload", loc["upload"].key.user)
    BY DEF UploadStep, UploadRecv, UploadDstorage, UploadUrl, UploadInsertInfo,
           UploadInsertList, UploadSelectCount, SelectCountToAdd, UploadSetCount, mysql
  <2> QED
    BY <1>p, <1>2, <2>1, CountApart
<1>9. faults' = faults \/ faults' = faults + 1
  BY DEF UploadStep, UploadRecv, UploadDstorage, UploadUrl, UploadInsertInfo, UploadInsertList,
         UploadSelectCount, SelectCountToAdd, UploadSetCount, Fault, NoFault
<1> QED
  BY <1>5, <1>6, <1>7, <1>8, <1>9 DEF Control, Apart, SharesKept, HasRow

LEMMA Md5Apart ==
  ASSUME TypeOK, Md5Step
  PROVE  /\ Apart /\ UNCHANGED <<share_file_list, zset, score>>
         /\ UNCHANGED <<pc["sharefilesop"], pc["sharefiles"]>>
<1>p. "md5" \in Programs /\ "sharefilesop" \in Programs /\ "sharefiles" \in Programs
  BY DEF Programs
<1>1. pc["md5"] # "idle"
  BY DEF Md5Step, Md5SelectInfo, Md5SelectList, Md5AddReference, Md5InsertList,
         Md5SelectCount, SelectCountToAdd, Md5SetCount
<1>2. loc["md5"].key \in FileKey /\ loc["md5"].key.user \in Users /\ loc["md5"].count \in Int
  BY <1>p, <1>1, AtWork DEF TypeOK
<1> DEFINE Control == /\ pc'["filesop"] = pc["filesop"] /\ loc'["filesop"] = loc["filesop"]
                      /\ reply' = NoReply \/ reply'.code # "012"
                      /\ pc'["sharefilesop"] = pc["sharefilesop"]
                      /\ pc'["sharefiles"] = pc["sharefiles"]
<1>3. \A l, v : Goto("md5", l, v) => Control
  BY <1>p, ControlApart
<1>4. \A c : Finish("md5", c) /\ c # "012" => Control
  BY <1>p, ControlApart
<1> HIDE DEF Control
<1>5. Control
  BY <1>3, <1>4
     DEF Md5Step, Md5SelectInfo, Md5SelectList, Md5AddReference, Md5InsertList,
         Md5SelectCount, SelectCountToAdd, Md5SetCount
<1>6. UNCHANGED <<share_file_list, zset, score>>
  BY DEF Md5Step, Md5SelectInfo, Md5SelectList, Md5AddReference, Md5InsertList,
         Md5SelectCount, SelectCountToAdd, Md5SetCount, mysql, redis
<1>7. ListGrows
  BY <1>2 DEF Md5Step, Md5SelectInfo, Md5SelectList, Md5AddReference, Md5InsertList,
              Md5SelectCount, SelectCountToAdd, Md5SetCount, mysql, ListGrows
<1>8. user_file_count'[ShareUser] = user_file_count[ShareUser]
  <2>1. UNCHANGED user_file_count \/ AddToCount("md5", loc["md5"].key.user)
    BY DEF Md5Step, Md5SelectInfo, Md5SelectList, Md5AddReference, Md5InsertList,
           Md5SelectCount, SelectCountToAdd, Md5SetCount, mysql
  <2> QED
    BY <1>p, <1>2, <2>1, CountApart
<1>9. faults' = faults \/ faults' = faults + 1
  BY DEF Md5Step, Md5SelectInfo, Md5SelectList, Md5AddReference, Md5InsertList,
         Md5SelectCount, SelectCountToAdd, Md5SetCount, Fault, NoFault
<1> QED
  BY <1>5, <1>6, <1>7, <1>8, <1>9 DEF Control, Apart, SharesKept, HasRow

LEMMA SaveApart ==
  ASSUME TypeOK, SaveStep
  PROVE  /\ Apart /\ UNCHANGED <<share_file_list, zset, score>>
         /\ pc'["sharefilesop"] \notin PvLabels \cup CancelLabels
         /\ UNCHANGED pc["sharefiles"]
<1>p. "sharefilesop" \in Programs /\ "sharefiles" \in Programs
  BY DEF Programs
<1>1. pc["sharefilesop"] # "idle"
  BY DEF SaveStep, SaveSelectList, SaveSelectReference, SaveAddReference, SaveInsertList,
         SaveSelectCount, SelectCountToAdd, SaveSetCount
<1>2. op.key \in FileKey /\ op.key.user \in Users /\ op.count \in Int
  BY <1>p, <1>1, AtWork DEF TypeOK, op
<1> DEFINE Control == /\ pc'["filesop"] = pc["filesop"] /\ loc'["filesop"] = loc["filesop"]
                      /\ reply' = NoReply \/ reply'.code # "012"
                      /\ pc'["sharefilesop"] \notin PvLabels \cup CancelLabels
                      /\ pc'["sharefiles"] = pc["sharefiles"]
<1>3. \A l, v : Goto("sharefilesop", l, v) /\ l \notin PvLabels \cup CancelLabels => Control
  BY <1>p, ControlApart
<1>4. \A c : Finish("sharefilesop", c) /\ c # "012" => Control
  BY <1>p, ControlApart DEF PvLabels, CancelLabels
<1>5. Control
  <2> HIDE DEF Control
  <2>1. \A v : \A l \in {"sv_selref", "sv_ref", "sv_inslist", "sv_selcount", "sv_count"} :
          Goto("sharefilesop", l, v) => Control
    BY <1>3 DEF PvLabels, CancelLabels
  <2> QED
    BY <2>1, <1>4
       DEF SaveStep, SaveSelectList, SaveSelectReference, SaveAddReference, SaveInsertList,
           SaveSelectCount, SelectCountToAdd, SaveSetCount, ShareOpFails
<1> HIDE DEF Control
<1>6. UNCHANGED <<share_file_list, zset, score>>
  BY DEF SaveStep, SaveSelectList, SaveSelectReference, SaveAddReference, SaveInsertList,
         SaveSelectCount, SelectCountToAdd, SaveSetCount, mysql, redis
<1>7. ListGrows
  BY <1>2 DEF SaveStep, SaveSelectList, SaveSelectReference, SaveAddReference, SaveInsertList,
              SaveSelectCount, SelectCountToAdd, SaveSetCount, mysql, ListGrows
<1>8. user_file_count'[ShareUser] = user_file_count[ShareUser]
  <2>1. UNCHANGED user_file_count \/ AddToCount("sharefilesop", op.key.user)
    BY DEF SaveStep, SaveSelectList, SaveSelectReference, SaveAddReference, SaveInsertList,
           SaveSelectCount, SelectCountToAdd, SaveSetCount, mysql
  <2> QED
    BY <1>p, <1>2, <2>1, CountApart DEF op
<1>9. faults' = faults \/ faults' = faults + 1
  BY DEF SaveStep, SaveSelectList, SaveSelectReference, SaveAddReference, SaveInsertList,
         SaveSelectCount, SelectCountToAdd, SaveSetCount, ShareOpFails, Fault, NoFault
<1> QED
  BY <1>5, <1>6, <1>7, <1>8, <1>9 DEF Control, Apart, SharesKept, HasRow

------------------------------------------------------------------------------
(* The rows of share_file_list *)

\* pv_file counts downloads in the rows that are there.
LEMMA PvKeepsShares ==
  ASSUME TypeOK, PvStep
  PROVE  SharesKept /\ pc'["sharefilesop"] \notin CancelLabels
<1>p. "sharefilesop" \in Programs /\ share_file_list \in [FileKey -> Seq(Int)]
  BY DEF Programs, TypeOK, TablesTypeOK
<1> DEFINE Control == /\ pc'["filesop"] = pc["filesop"] /\ loc'["filesop"] = loc["filesop"]
                      /\ pc'["sharefilesop"] \notin CancelLabels
<1>1. \A v : \A l \in PvLabels : Goto("sharefilesop", l, v) => Control
  BY <1>p, ControlApart DEF PvLabels, CancelLabels
<1>2. \A c : Finish("sharefilesop", c) => Control
  BY <1>p, ControlApart DEF CancelLabels
<1>3. Control
  <2> HIDE DEF Control
  <2>1. CASE PvSelect
    <3>1. \/ \E o \in Sharers(MemberOf(op.key)) :
                Goto("sharefilesop", "pv_update",
                     [op EXCEPT !.count = FirstRow(share_file_list, o)])
          \/ Finish("sharefilesop", "017")
      BY <2>1, Zenon DEF PvSelect, ShareOpFails
    <3>2. "pv_update" \in PvLabels
      BY DEF PvLabels
    <3> QED
      BY <3>1, <3>2, <1>1, <1>2, Zenon
  <2>2. CASE PvUpdate \/ PvZexit \/ PvZincr \/ PvZadd \/ PvHset
    BY <2>2, <1>1, <1>2 DEF PvUpdate, PvZexit, PvZincr, PvZadd, PvHset, ShareOpFails, PvLabels
  <2> QED
    BY <2>1, <2>2 DEF PvStep
<1> HIDE DEF Control
<1>4. UNCHANGED user_file_list
  BY DEF PvStep, PvSelect, PvUpdate, PvZexit, PvZincr, PvZadd, PvHset, mysql
<1>5. \A k \in FileKey : HasRow(share_file_list, k)' <=> HasRow(share_file_list, k)
  <2>1. CASE UNCHANGED share_file_list
    BY <2>1 DEF HasRow
  <2>2. CASE share_file_list' =
               UpdateAmong(share_file_list, Sharers(MemberOf(op.key)), op.count + 1)
    <3> SUFFICES ASSUME NEW k \in FileKey
                 PROVE  share_file_list'[k] # <<>> <=> share_file_list[k] # <<>>
      BY DEF HasRow
    <3> DEFINE s == [i \in 1..Len(share_file_list[k]) |-> op.count + 1]
    <3>1. share_file_list'[k] = s \/ share_file_list'[k] = share_file_list[k]
      BY <1>p, <2>2 DEF UpdateAmong
    <3>2. share_file_list[k] \in Seq(Int)
      BY <1>p
    <3>3. s # <<>> <=> share_file_list[k] # <<>>
      BY <3>2
    <3> QED
      BY <3>1, <3>3
  <2> QED
    BY <2>1, <2>2 DEF PvStep, PvSelect, PvUpdate, PvZexit, PvZincr, PvZadd, PvHset, mysql
<1> QED
  BY <1>3, <1>4, <1>5 DEF Control, SharesKept, ListGrows

\* del_file between the deletions of the two rows; share_file before it marks the
\* file.
Cleared == {"del_selshares", "del_shares", "del_zrem", "del_hdel", "del_selcount", "del_count",
            "del_list"}
Marking == {"sh_zexit", "sh_select", "sh_readd", "sh_status"}

\* cgi_filesop goes on, with the same file and without touching the two lists.
LEMMA SharesGoto ==
  ASSUME TypeOK, ShareListInv, UNCHANGED <<user_file_list, share_file_list>>,
         NEW l, NEW v, Goto("filesop", l, v), v.key = me.key,
         l \in Marking => Listed(me.key),
         l \in Cleared => ~HasRow(share_file_list, me.key),
         l # "sh_insert"
  PROVE  ShareListInv'
<1>1. /\ pc'["filesop"] = l /\ me' = v
      /\ pc'["sharefilesop"] = pc["sharefilesop"]
  BY GotoFacts DEF TypeOK, Programs, me
<1>2. \A k : Marked(k)' <=> Marked(k)
  BY DEF Marked, Listed, HasRow, FirstRow
<1>3. \A k : HasRow(share_file_list, k)' <=> HasRow(share_file_list, k)
  BY DEF HasRow
<1>4. \A k : Listed(k)' <=> Listed(k)
  BY DEF Listed, HasRow
<1>5. me'.key = me.key
  BY <1>1
<1>6. \A k \in FileKey : HasRow(share_file_list, k)' => Marked(k)'
  BY <1>2, <1>3 DEF ShareListInv
<1>7. pc'["filesop"] \in Marking => Listed(me.key)'
  BY <1>1, <1>4, <1>5
<1>8. pc'["filesop"] \in Cleared => ~HasRow(share_file_list, me.key)'
  BY <1>1, <1>3, <1>5
<1> QED
  BY <1>1, <1>6, <1>7, <1>8 DEF ShareListInv, Marking, Cleared

LEMMA SharesFinish ==
  ASSUME TypeOK, ShareListInv, UNCHANGED <<user_file_list, share_file_list>>,
         NEW c, Finish("filesop", c)
  PROVE  ShareListInv'
<1>1. pc'["filesop"] = "idle" /\ pc'["sharefilesop"] = pc["sharefilesop"]
  BY FinishFacts DEF TypeOK, Programs
<1>2. \A k \in FileKey : HasRow(share_file_list, k)' => Marked(k)'
  BY DEF ShareListInv, HasRow, Marked, Listed, FirstRow
<1> QED
  BY <1>1, <1>2 DEF ShareListInv

\* Assigning the locals of cgi_filesop keeps its file.
LEMMA FilesOpKey ==
  ASSUME TypeOK
  PROVE  /\ [me EXCEPT !.share = 1].key = me.key
         /\ [me EXCEPT !.share = 1, !.flag = 1].key = me.key
         /\ \A n : [me EXCEPT !.count = n].key = me.key
         /\ \A n : [me EXCEPT !.sql = n].key = me.key
         /\ \A n, i : [me EXCEPT !.sql = n, !.count = i].key = me.key
         /\ \A n : [me EXCEPT !.fileid = n].key = me.key
<1>1. me \in Locals
  BY DEF TypeOK, ControlTypeOK, Programs, me
<1> QED
  BY <1>1 DEF Locals

\* del_file: the row goes before the entry, and a file without a mark has no row.
LEMMA DelShares ==
  ASSUME TypeOK, ShareListInv, DelStep
  PROVE  ShareListInv'
<1>p. "filesop" \in Programs /\ "sharefilesop" \in Programs /\ ControlTypeOK
  BY DEF Programs, TypeOK
<1>w. pc["filesop"] # "idle"
  BY DEF DelStep, DelZexit, DelStatus, DelShare, DelSelectShares, DelSetShares, DelZrem, DelHdel,
         DelSelectCount, DelSetCount, DelList, DelSelectReference, DelSetReference, DelSelectId,
         DelInfo, DelRemove
<1>k. me.key \in FileKey
  BY <1>p, <1>w, AtWork DEF me
<1>t. user_file_list \in [FileKey -> Seq({0, 1})] /\ share_file_list \in [FileKey -> Seq(Int)]
  BY DEF TypeOK, TablesTypeOK
<1>u. ASSUME UNCHANGED <<user_file_list, share_file_list>>
      PROVE  /\ \A c : Finish("filesop", c) => ShareListInv'
             /\ \A l, v : /\ Goto("filesop", l, v) /\ v.key = me.key
                          /\ l \notin Marking /\ l # "sh_insert"
                          /\ l \in Cleared => ~HasRow(share_file_list, me.key)
                          => ShareListInv'
  BY <1>u, SharesGoto, SharesFinish
<1>c. pc["filesop"] \in Cleared => ~HasRow(share_file_list, me.key)
  BY DEF ShareListInv, Cleared
<1>1. CASE DelZexit
  <2>1. UNCHANGED <<user_file_list, share_file_list>>
    BY <1>1 DEF DelZexit, mysql
  <2>2. {"del_share", "del_status"} \cap (Marking \cup Cleared \cup {"sh_insert"}) = {}
    BY DEF Marking, Cleared
  <2> QED
    BY <1>1, <1>u, <2>1, <2>2, FilesOpKey DEF DelZexit, FilesOpFails
<1>2. CASE DelStatus
  <2>1. UNCHANGED <<user_file_list, share_file_list>>
    BY <1>2 DEF DelStatus, mysql
  <2>2. "del_share" \notin Marking \cup Cleared /\ "del_selcount" \notin Marking
    BY DEF Marking, Cleared
  <2>3. ~Marked(me.key) => ~HasRow(share_file_list, me.key)
    BY <1>k DEF ShareListInv
  <2>4. \/ Goto("filesop", "del_share", [me EXCEPT !.share = 1])
        \/ ~Marked(me.key) /\ Goto("filesop", "del_selcount", me)
        \/ Finish("filesop", "014")
    BY <1>2 DEF DelStatus, FilesOpFails, Marked, Listed
  <2> QED
    BY <1>u, <2>1, <2>2, <2>3, <2>4, FilesOpKey
<1>3. CASE DelShare
  <2>1. CASE FilesOpFails("014") /\ UNCHANGED share_file_list
    <3>1. UNCHANGED <<user_file_list, share_file_list>>
      BY <1>3, <2>1 DEF DelShare
    <3> QED
      BY <1>u, <2>1, <3>1 DEF FilesOpFails
  <2>2. CASE /\ share_file_list' = DeleteWhere(share_file_list, me.key)
             /\ Goto("filesop", "del_selshares", me)
    <3>1. UNCHANGED user_file_list
      BY <1>3 DEF DelShare
    <3>2. /\ share_file_list'[me.key] = <<>>
          /\ \A k \in FileKey : k # me.key => share_file_list'[k] = share_file_list[k]
      BY <1>k, <1>t, <2>2 DEF DeleteWhere
    <3>3. /\ pc'["filesop"] = "del_selshares" /\ me' = me
          /\ pc'["sharefilesop"] = pc["sharefilesop"]
      BY <1>p, <2>2, GotoFacts DEF me
    <3>4. \A k \in FileKey : HasRow(share_file_list, k)' => Marked(k)'
      BY <3>1, <3>2 DEF ShareListInv, HasRow, Marked, Listed, FirstRow
    <3>5. ~HasRow(share_file_list, me.key)'
      BY <3>2, <3>3 DEF HasRow
    <3> QED
      BY <3>3, <3>4, <3>5 DEF ShareListInv
  <2> QED
    BY <1>3, <2>1, <2>2 DEF DelShare
<1>4. CASE DelSelectShares \/ DelSetShares \/ DelZrem \/ DelHdel \/ DelSelectCount \/ DelSetCount
  <2>1. UNCHANGED <<user_file_list, share_file_list>>
    BY <1>4 DEF DelSelectShares, DelSetShares, DelZrem, DelHdel, DelSelectCount, DelSetCount,
                mysql
  <2>2. ~HasRow(share_file_list, me.key)
    BY <1>4, <1>c DEF DelSelectShares, DelSetShares, DelZrem, DelHdel, DelSelectCount,
                      DelSetCount, Cleared
  <2>3. \A v : \A l \in Cleared : Goto("filesop", l, v) /\ v.key = me.key => ShareListInv'
    BY <1>u, <2>1, <2>2 DEF Cleared, Marking
  <2>4. {"del_shares", "del_zrem", "del_hdel", "del_selcount", "del_count", "del_list"}
          \subseteq Cleared
    BY DEF Cleared
  <2> QED
    BY <1>4, <1>u, <2>1, <2>3, <2>4, FilesOpKey
       DEF DelSelectShares, DelSetShares, DelZrem, DelHdel, DelSelectCount, DelSetCount,
           FilesOpFails
<1>5. CASE DelList
  <2>1. CASE FilesOpFails("014") /\ UNCHANGED user_file_list
    <3>1. UNCHANGED <<user_file_list, share_file_list>>
      BY <1>5, <2>1 DEF DelList
    <3> QED
      BY <1>u, <2>1, <3>1 DEF FilesOpFails
  <2>2. CASE /\ user_file_list' = DeleteWhere(user_file_list, me.key)
             /\ Goto("filesop", "del_selref", me)
    <3>1. UNCHANGED share_file_list
      BY <1>5 DEF DelList
    <3>2. \A k \in FileKey : k # me.key => user_file_list'[k] = user_file_list[k]
      BY <1>k, <1>t, <2>2 DEF DeleteWhere
    <3>3. /\ pc'["filesop"] = "del_selref"
          /\ pc'["sharefilesop"] = pc["sharefilesop"]
      BY <1>p, <2>2, GotoFacts
    <3>4. ~HasRow(share_file_list, me.key)
      BY <1>5, <1>c DEF DelList, Cleared
    <3>5. \A k \in FileKey : HasRow(share_file_list, k)' => Marked(k)'
      BY <3>1, <3>2, <3>4 DEF ShareListInv, HasRow, Marked, Listed, FirstRow
    <3> QED
      BY <3>3, <3>5 DEF ShareListInv
  <2> QED
    BY <1>5, <2>1, <2>2 DEF DelList
<1>6. CASE DelSelectReference \/ DelSetReference \/ DelSelectId \/ DelInfo \/ DelRemove
  <2>1. UNCHANGED <<user_file_list, share_file_list>>
    BY <1>6 DEF DelSelectReference, DelSetReference, DelSelectId, DelInfo, DelRemove, mysql
  <2>2. {"del_ref", "del_selid", "del_info", "del_remove"}
          \cap (Marking \cup Cleared \cup {"sh_insert"}) = {}
    BY DEF Marking, Cleared
  <2> QED
    BY <1>6, <1>u, <2>1, <2>2, FilesOpKey
       DEF DelSelectReference, DelSetReference, DelSelectId, DelInfo, DelRemove, FilesOpFails
<1> QED
  BY <1>1, <1>2, <1>3, <1>4, <1>5, <1>6 DEF DelStep

\* share_file: the file is marked before its row is inserted.
LEMMA ShareShares ==
  ASSUME TypeOK, ShareListInv, ShareStep
  PROVE  ShareListInv'
<1>p. "filesop" \in Programs /\ "sharefilesop" \in Programs /\ ControlTypeOK
  BY DEF Programs, TypeOK
<1>w. pc["filesop"] # "idle"
  BY DEF ShareStep, ShareZexit, ShareSelect, ShareReadd, ShareStatus, ShareInsert,
         ShareSelectCount, SelectCountToAdd, ShareSetCount, ShareZadd, ShareHset
<1>k. me.key \in FileKey
  BY <1>p, <1>w, AtWork DEF me
<1>t. user_file_list \in [FileKey -> Seq({0, 1})] /\ share_file_list \in [FileKey -> Seq(Int)]
  BY DEF TypeOK, TablesTypeOK
<1>m. pc["filesop"] \in Marking => Listed(me.key)
  BY DEF ShareListInv, Marking
<1>1. CASE ShareZexit \/ ShareSelect \/ ShareReadd
  <2>1. UNCHANGED <<user_file_list, share_file_list>>
    BY <1>1 DEF ShareZexit, ShareSelect, ShareReadd, mysql
  <2>2. Listed(me.key)
    BY <1>1, <1>m DEF ShareZexit, ShareSelect, ShareReadd, Marking
  <2>3. \A l \in {"sh_select", "sh_readd", "sh_status"} : l \notin Cleared /\ l # "sh_insert"
    BY DEF Cleared
  <2>4. \A l \in {"sh_select", "sh_readd", "sh_status"} :
          Goto("filesop", l, me) => ShareListInv'
    BY <2>1, <2>2, <2>3, SharesGoto
  <2> QED
    BY <1>1, <2>1, <2>4, SharesFinish DEF ShareZexit, ShareSelect, ShareReadd, FilesOpFails
<1>2. CASE ShareStatus
  <2>1. CASE FilesOpFails("011") /\ UNCHANGED user_file_list
    <3>1. UNCHANGED <<user_file_list, share_file_list>>
      BY <1>2, <2>1 DEF ShareStatus
    <3> QED
      BY <2>1, <3>1, SharesFinish DEF FilesOpFails
  <2>2. CASE /\ user_file_list' = UpdateWhere(user_file_list, me.key, 1)
             /\ Goto("filesop", "sh_insert", me)
    <3>1. UNCHANGED share_file_list
      BY <1>2 DEF ShareStatus
    <3>2. /\ Len(user_file_list'[me.key]) = Len(user_file_list[me.key])
          /\ \A i \in 1..Len(user_file_list[me.key]) : user_file_list'[me.key][i] = 1
          /\ \A k \in FileKey : k # me.key => user_file_list'[k] = user_file_list[k]
      <4> DEFINE T == UpdateWhere(user_file_list, me.key, 1)
                 R == {0, 1}
      <4>1. user_file_list \in [FileKey -> Seq(R)] /\ 1 \in R
        BY <1>t
      <4> HIDE DEF R
      <4>2. /\ Len(T[me.key]) = Len(user_file_list[me.key])
            /\ \A i \in 1..Len(user_file_list[me.key]) : T[me.key][i] = 1
            /\ \A k \in FileKey : k # me.key => T[k] = user_file_list[k]
        BY <1>k, <4>1, UpdateFacts
      <4> QED
        BY <2>2, <4>2
    <3>3. /\ pc'["filesop"] = "sh_insert" /\ me' = me
          /\ pc'["sharefilesop"] = pc["sharefilesop"]
      BY <1>p, <2>2, GotoFacts DEF me
    <3>4. Listed(me.key)
      BY <1>2, <1>m DEF ShareStatus, Marking
    <3>5. Len(user_file_list[me.key]) >= 1 /\ 1 \in 1..Len(user_file_list[me.key])
      BY <1>k, <1>t, <3>4, FirstRowFacts DEF Listed
    <3>6. user_file_list'[me.key] # <<>> /\ user_file_list'[me.key][1] = 1
      BY <3>2, <3>5
    <3>7. \A k \in FileKey : HasRow(share_file_list, k)' => Marked(k)'
      BY <3>1, <3>2, <3>6 DEF ShareListInv, HasRow, Marked, Listed, FirstRow
    <3>8. Marked(me.key)'
      BY <3>3, <3>6 DEF HasRow, Marked, Listed, FirstRow
    <3> QED
      BY <3>3, <3>7, <3>8 DEF ShareListInv
  <2> QED
    BY <1>2, <2>1, <2>2 DEF ShareStatus
<1>3. CASE ShareInsert
  <2>1. CASE FilesOpFails("011") /\ UNCHANGED share_file_list
    <3>1. UNCHANGED <<user_file_list, share_file_list>>
      BY <1>3, <2>1 DEF ShareInsert
    <3> QED
      BY <2>1, <3>1, SharesFinish DEF FilesOpFails
  <2>2. CASE /\ share_file_list' = Insert(share_file_list, me.key, 0)
             /\ Goto("filesop", "sh_selcount", me)
    <3>1. UNCHANGED user_file_list
      BY <1>3 DEF ShareInsert
    <3>2. \A k \in FileKey : k # me.key => share_file_list'[k] = share_file_list[k]
      BY <1>k, <1>t, <2>2 DEF Insert
    <3>3. /\ pc'["filesop"] = "sh_selcount"
          /\ pc'["sharefilesop"] = pc["sharefilesop"]
      BY <1>p, <2>2, GotoFacts
    <3>4. Marked(me.key)
      BY <1>3 DEF ShareInsert, ShareListInv
    <3>5. \A k \in FileKey : HasRow(share_file_list, k)' => Marked(k)'
      BY <3>1, <3>2, <3>4 DEF ShareListInv, HasRow, Marked, Listed, FirstRow
    <3> QED
      BY <3>3, <3>5 DEF ShareListInv
  <2> QED
    BY <1>3, <2>1, <2>2 DEF ShareInsert
<1>4. CASE ShareSelectCount \/ ShareSetCount \/ ShareZadd \/ ShareHset
  <2>1. UNCHANGED <<user_file_list, share_file_list>>
    BY <1>4 DEF ShareSelectCount, SelectCountToAdd, ShareSetCount, ShareZadd, ShareHset, mysql
  <2>2. \A l \in {"sh_count", "sh_zadd", "sh_hset"} :
          l \notin Marking \cup Cleared /\ l # "sh_insert"
    BY DEF Marking, Cleared
  <2>3. \A v : \A l \in {"sh_count", "sh_zadd", "sh_hset"} :
          Goto("filesop", l, v) /\ v.key = me.key => ShareListInv'
    BY <2>1, <2>2, SharesGoto
  <2> QED
    BY <1>4, <2>1, <2>3, SharesFinish, FilesOpKey
       DEF ShareSelectCount, SelectCountToAdd, ShareSetCount, ShareZadd, ShareHset, me
<1> QED
  BY <1>1, <1>2, <1>3, <1>4 DEF ShareStep

\* A request of cgi_filesop for a file that its client is shown.
LEMMA FilesOpRequestShares ==
  ASSUME TypeOK, ListsShares, ShareListInv, NEW k \in FileKey, DelAccept(k) \/ ShareAccept(k)
  PROVE  ShareListInv'
<1>1. /\ \/ Accept("filesop", k, "del_zexit")
         \/ Listed(k) /\ Accept("filesop", k, "sh_zexit")
      /\ UNCHANGED <<user_file_list, share_file_list>>
  BY DEF DelAccept, ShareAccept, ListsShares, Listed, mysql
<1>2. me \in Locals
  BY DEF TypeOK, ControlTypeOK, Programs, me
<1>3. /\ pc'["filesop"] = "del_zexit" \/ (Listed(k) /\ pc'["filesop"] = "sh_zexit")
      /\ pc'["sharefilesop"] = pc["sharefilesop"]
      /\ me'.key = k
  <2>1. pc \in [Programs -> Labels] /\ loc \in [Programs -> Locals]
    BY DEF TypeOK, ControlTypeOK
  <2> QED
    BY <1>1, <1>2, <2>1 DEF Accept, Programs, me, Locals
<1>4. \A j \in FileKey : HasRow(share_file_list, j)' => Marked(j)'
  BY <1>1 DEF ShareListInv, HasRow, Marked, Listed, FirstRow
<1>5. Listed(k)' <=> Listed(k)
  BY <1>1 DEF Listed, HasRow
<1>6. pc'["filesop"] \in {"sh_zexit", "sh_select", "sh_readd", "sh_status"} => Listed(me.key)'
  BY <1>3, <1>5
<1> QED
  BY <1>3, <1>4, <1>6 DEF ShareListInv

\* A program other than cgi_filesop takes up a request or is killed.
LEMMA OtherControl ==
  ASSUME TypeOK, NEW p \in Programs, p # "filesop",
         \/ \E k, l : Accept(p, k, l) /\ l \notin CancelLabels
         \/ Crash(p),
         pc["sharefilesop"] \notin CancelLabels,
         UNCHANGED <<user_file_list, share_file_list>>
  PROVE  SharesKept /\ pc'["sharefilesop"] \notin CancelLabels
<1>1. pc \in [Programs -> Labels] /\ loc \in [Programs -> Locals]
  BY DEF TypeOK, ControlTypeOK
<1>2. "idle" \notin CancelLabels
  BY DEF CancelLabels
<1>3. /\ pc'["filesop"] = pc["filesop"] /\ loc'["filesop"] = loc["filesop"]
      /\ pc'["sharefilesop"] \notin CancelLabels
  BY <1>1, <1>2 DEF Accept, Crash, Programs
<1> QED
  BY <1>3 DEF SharesKept, ListGrows, HasRow

LEMMA InitShares == Init => ShareListInv
  BY DEF Init, ShareListInv, CancelLabels, Programs, HasRow

LEMMA NextShares == ListsShares /\ TypeOK /\ ShareListInv /\ [Next]_vars => ShareListInv'
<1> SUFFICES ASSUME ListsShares, TypeOK, ShareListInv, [Next]_vars PROVE ShareListInv'
  OBVIOUS
<1>p. pc["sharefilesop"] \notin CancelLabels
  BY DEF ShareListInv
<1>1. CASE Request
  <2>1. ASSUME NEW k \in FileKey, DelAccept(k) \/ ShareAccept(k) PROVE ShareListInv'
    BY <2>1, FilesOpRequestShares
  <2>2. ASSUME NEW p \in Programs, p # "filesop", NEW k, NEW l, Accept(p, k, l),
               l \notin CancelLabels, UNCHANGED mysql
        PROVE  ShareListInv'
    BY <1>p, <2>2, OtherControl, KeptShares DEF mysql
  <2>3. ASSUME NEW k \in FileKey,
               UploadAccept(k) \/ Md5Accept(k) \/ PvAccept(k) \/ CancelAccept(k) \/ SaveAccept(k)
        PROVE  ShareListInv'
    <3>1. ~CancelAccept(k)
      BY DEF CancelAccept, ListsShares
    <3>2. UNCHANGED mysql
      BY <2>3, <3>1 DEF UploadAccept, Md5Accept, PvAccept, SaveAccept
    <3>3. \/ Accept("upload", k, "up_recv") \/ Accept("md5", k, "md5_info")
          \/ Accept("sharefilesop", k, "pv_select") \/ Accept("sharefilesop", k, "sv_list")
      BY <2>3, <3>1 DEF UploadAccept, Md5Accept, PvAccept, SaveAccept
    <3> QED
      BY <2>2, <3>2, <3>3 DEF Programs, CancelLabels
  <2>4. ASSUME NEW cmd, NEW l \in {"ls_count", "ls_normal", "rk_select"}, ListAccept(cmd, l)
        PROVE  ShareListInv'
    BY <2>2, <2>4 DEF ListAccept, Programs, CancelLabels
  <2> QED
    BY <1>1, <2>1, <2>3, <2>4 DEF Request
<1>2. CASE UploadStep
  BY <1>2, <1>p, UploadApart, KeptShares DEF Apart
<1>3. CASE Md5Step
  BY <1>3, <1>p, Md5Apart, KeptShares DEF Apart
<1>4. CASE FilesOpStep
  BY <1>4, DelShares, ShareShares DEF FilesOpStep
<1>5. CASE ShareOpStep
  <2>1. ~CancelStep
    BY <1>p DEF CancelStep, CancelStatus, CancelSelectShares, CancelSetShares, CancelShare,
                CancelZrem, CancelHdel, CancelLabels
  <2>2. CASE PvStep
    BY <2>2, PvKeepsShares, KeptShares
  <2>3. CASE SaveStep
    BY <2>3, SaveApart, KeptShares DEF Apart
  <2> QED
    BY <1>5, <2>1, <2>2, <2>3 DEF ShareOpStep
<1>6. CASE ShareListStep
  <2>1. /\ \A q \in Programs : q # "sharefiles" => pc'[q] = pc[q] /\ loc'[q] = loc[q]
        /\ UNCHANGED mysql
    BY <1>6, ShareListFacts DEF TypeOK
  <2>2. SharesKept /\ pc'["sharefilesop"] = pc["sharefilesop"]
    BY <2>1 DEF SharesKept, ListGrows, HasRow, mysql, Programs
  <2> QED
    BY <1>p, <2>2, KeptShares
<1>7. CASE \E p \in Programs : Crash(p)
  <2>1. PICK p \in Programs : Crash(p)
    BY <1>7
  <2>2. UNCHANGED <<user_file_list, share_file_list>>
    BY <2>1 DEF Crash, mysql
  <2>3. CASE p # "filesop"
    BY <1>p, <2>1, <2>2, <2>3, OtherControl, KeptShares
  <2>4. CASE p = "filesop"
    <3>1. pc'["filesop"] = "idle" /\ pc'["sharefilesop"] = pc["sharefilesop"]
      BY <2>1, <2>4 DEF Crash, TypeOK, ControlTypeOK, Programs
    <3>2. \A k \in FileKey : HasRow(share_file_list, k)' => Marked(k)'
      BY <2>2 DEF ShareListInv, HasRow, Marked, Listed, FirstRow
    <3> QED
      BY <3>1, <3>2 DEF ShareListInv
  <2> QED
    BY <2>3, <2>4
<1>8. CASE UNCHANGED vars
  BY <1>8, <1>p, KeptShares DEF vars, mysql, SharesKept, ListGrows, HasRow
<1> QED
  BY <1>1, <1>2, <1>3, <1>4, <1>5, <1>6, <1>7, <1>8 DEF Next, Done

\* Where the clients share what they list and cancel_share_file is not deployed,
\* a file in the list of shared files is one its owner still has, however
\* share_file and del_file fail and are killed and whatever the other programs do
\* meanwhile.
THEOREM SharesAreListed ==
  ASSUME ListsShares
  PROVE  Spec => []ShareRowsListed
<1>1. ShareListInv => ShareRowsListed
  BY DEF ShareListInv, ShareRowsListed, Marked
<1>2. TypeOK /\ ShareListInv /\ [Next]_vars => ShareListInv'
  BY NextShares
<1>3. Spec => []ShareListInv
  BY InitType, NextType, InitShares, <1>2, PTL DEF Spec
<1> QED
  BY <1>1, <1>3, PTL

------------------------------------------------------------------------------
(* The ranking *)

\* As long as all scores are equal, ZLEXCOUNT tells who is a member.
LEMMA ZLexCountFacts ==
  ASSUME TypeOK, \A y \in ShareKey : score[y] = 0, NEW x \in ShareKey
  PROVE  /\ x \in zset => ZLexCount(x) = 1
         /\ x \notin zset => ZLexCount(x) = 0
<1>z. zset \subseteq ShareKey /\ \A y \in ShareKey : LexRank[y] \in Nat
  BY ConstantsAssumption DEF TypeOK, StoresTypeOK
<1>b. \A y, z \in ShareKey : Before(y, z) <=> LexRank[y] < LexRank[z]
  BY DEF Before
<1>u. \A y \in ShareKey : LexRank[y] = LexRank[x] => y = x
  BY ConstantsAssumption
<1>1. x \notin zset => ZLexCount(x) = 0
  BY DEF ZLexCount
<1>2. ASSUME x \in zset
      PROVE  ZLexCount(x) = 1
  <2> DEFINE Run == {y \in zset : /\ y = x \/ Before(x, y)
                                  /\ ~(LexRank[y] > LexRank[x])
                                  /\ \A z \in zset : Before(x, z) /\ Before(z, y)
                                                        => ~(LexRank[z] > LexRank[x])}
  <2>1. ~\E y \in zset : Before(y, x) /\ LexRank[y] > LexRank[x]
    BY <1>z, <1>b
  <2>2. ~\E y \in zset : /\ \A z \in zset : z = y \/ Before(z, y)
                         /\ LexRank[y] < LexRank[x]
    BY <1>z, <1>b, <1>2
  <2>3. Run = {x}
    <3>1. \A y \in Run : y = x
      BY <1>z, <1>b
    <3>2. ~(LexRank[x] > LexRank[x]) /\ \A z \in zset : ~(Before(x, z) /\ Before(z, x))
      BY <1>z, <1>b
    <3>3. x \in Run
      BY <1>2, <3>2
    <3> QED
      BY <3>1, <3>3
  <2>4. ZLexCount(x) = Cardinality(Run)
    BY <1>2, <2>1, <2>2 DEF ZLexCount
  <2> HIDE DEF Run
  <2> QED
    BY <2>3, <2>4, FS_Singleton
<1> QED
  BY <1>1, <1>2

\* After the step T has at most the elements of S, and x if something failed.
Paid(S, T, x) ==
  \/ faults' = faults /\ T \subseteq S
  \/ faults' = faults + 1 /\ T \subseteq S \cup {x}

LEMMA PaidFor ==
  ASSUME NEW S, NEW T, NEW x, IsFiniteSet(S), faults \in Nat, Cardinality(S) <= faults,
         Paid(S, T, x)
  PROVE  IsFiniteSet(T) /\ Cardinality(T) <= faults'
<1>s. Cardinality(S) \in Nat
  BY FS_CardinalityType
<1>1. CASE faults' = faults /\ T \subseteq S
  <2>1. IsFiniteSet(T) /\ Cardinality(T) <= Cardinality(S)
    BY <1>1, FS_Subset
  <2>2. Cardinality(T) \in Nat
    BY <2>1, FS_CardinalityType
  <2> QED
    BY <1>1, <1>s, <2>1, <2>2
<1>2. CASE faults' = faults + 1 /\ T \subseteq S \cup {x}
  <2>1. IsFiniteSet(S \cup {x}) /\ Cardinality(S \cup {x}) <= Cardinality(S) + 1
    BY <1>s, FS_AddElement
  <2>2. IsFiniteSet(T) /\ Cardinality(T) <= Cardinality(S \cup {x})
    BY <1>2, <2>1, FS_Subset
  <2>3. Cardinality(T) \in Nat /\ Cardinality(S \cup {x}) \in Nat
    BY <2>1, <2>2, FS_CardinalityType
  <2> QED
    BY <1>2, <1>s, <2>1, <2>2, <2>3
<1> QED
  BY <1>1, <1>2 DEF Paid

\* The members that have cost a failure, and those that must have cost one while
\* the shared files have no count.
Behind == Stale \ Leaving
Uncounted == Members \ Entering

\* No other program changes the ranking.
RanksNot == /\ pc["sharefilesop"] \notin PvLabels \cup CancelLabels
            /\ pc["sharefiles"] \notin RankLabels

\* What a step has to show.
LEMMA RankingStep ==
  ASSUME TypeOK, RankingInv, NEW x,
         \A y \in ShareKey : score'[y] = 0, RanksNot',
         RankingKnown', SharedAgain', Members' \subseteq Members \cup {x},
         \/ Paid(Behind, Behind', x)
         \/ ~HasRow(user_file_count, ShareUser) /\ Paid(Uncounted, Behind', x),
         \/ HasRow(user_file_count, ShareUser)'
         \/ ~HasRow(user_file_count, ShareUser) /\ Paid(Uncounted, Uncounted', x)
  PROVE  RankingInv'
<1>1. faults \in Nat
  BY ConstantsAssumption DEF TypeOK, ControlTypeOK
<1>2. IsFiniteSet(Members) /\ IsFiniteSet(Members')
  <2>1. IsFiniteSet(Members)
    BY DEF RankingInv
  <2>2. IsFiniteSet(Members \cup {x})
    BY <2>1, FS_AddElement
  <2> QED
    BY <2>1, <2>2, FS_Subset
<1>3. Behind \subseteq Members /\ Uncounted \subseteq Members
  BY DEF Behind, Uncounted, Stale, Members
<1>4. IsFiniteSet(Behind) /\ IsFiniteSet(Uncounted)
  BY <1>2, <1>3, FS_Subset
<1>5. /\ Cardinality(Behind) <= faults
      /\ ~HasRow(user_file_count, ShareUser) => Cardinality(Uncounted) <= faults
  BY DEF RankingInv, Behind, Uncounted
<1>6. Cardinality(Behind') <= faults'
  BY <1>1, <1>4, <1>5, PaidFor
<1>7. ~HasRow(user_file_count, ShareUser)' => Cardinality(Uncounted') <= faults'
  BY <1>1, <1>4, <1>5, PaidFor
<1>8. (IsFiniteSet(Members))'
  BY <1>2
<1>9. /\ (Cardinality(Stale \ Leaving) <= faults)'
      /\ (~HasRow(user_file_count, ShareUser) => Cardinality(Members \ Entering) <= faults)'
  BY <1>6, <1>7 DEF Behind, Uncounted
<1> QED
  BY <1>8, <1>9 DEF RankingInv, RanksNot

\* The ranking and the rows that it is made from stay as they are.
LEMMA SameRanking ==
  ASSUME UNCHANGED <<share_file_list, zset>>
  PROVE  /\ Stale' = Stale /\ Members' = Members
         /\ \A x : Sharers(x)' = Sharers(x)
         /\ \A k : HasRow(share_file_list, k)' <=> HasRow(share_file_list, k)
<1>1. \A k : HasRow(share_file_list, k)' <=> HasRow(share_file_list, k)
  BY DEF HasRow
<1>2. \A x : Sharers(x)' = Sharers(x)
  BY <1>1 DEF Sharers
<1>3. SharedMembers' = SharedMembers
  BY <1>2 DEF SharedMembers
<1> QED
  BY <1>1, <1>2, <1>3 DEF Stale, Members

\* A step of another program keeps the invariant of the ranking.
LEMMA ApartRanking ==
  ASSUME TypeOK, RankingInv, Apart, UNCHANGED <<share_file_list, zset, score>>, RanksNot'
  PROVE  RankingInv'
<1>1. /\ Stale' = Stale /\ Members' = Members /\ \A x : Sharers(x)' = Sharers(x)
      /\ \A k : HasRow(share_file_list, k)' <=> HasRow(share_file_list, k)
  BY SameRanking
<1>2. pc'["filesop"] = pc["filesop"] /\ me' = me
  BY DEF Apart, SharesKept, me
<1>3. HasRow(user_file_count, ShareUser)' <=> HasRow(user_file_count, ShareUser)
  BY DEF Apart, HasRow
<1>4. Leaving' = Leaving /\ Entering' = Entering
  BY <1>2 DEF Leaving, Entering
<1>5. Behind' = Behind /\ Uncounted' = Uncounted
  BY <1>1, <1>4 DEF Behind, Uncounted
<1>6. RankingKnown'
  BY <1>1, <1>2, <1>3 DEF RankingInv, RankingKnown
<1>7. SharedAgain'
  BY DEF Apart, SharedAgain
<1>8. Paid(Behind, Behind', me) /\ Paid(Uncounted, Uncounted', me)
  BY <1>5 DEF Apart, Paid
<1>9. \A y \in ShareKey : score'[y] = 0
  BY DEF RankingInv
<1> QED
  BY <1>1, <1>3, <1>6, <1>7, <1>8, <1>9, RankingStep

\* Where the invariant says something of cgi_filesop.
Watched == {"del_status", "del_share", "del_selshares", "del_shares", "del_zrem",
            "sh_selcount", "sh_count", "sh_zadd", "sh_readd"}

\* cgi_filesop goes elsewhere without touching the shared files: either it was
\* not in the middle of a change, or something failed.
LEMMA PlainStep ==
  ASSUME TypeOK, RankingInv, UNCHANGED <<share_file_list, zset, score>>,
         user_file_count'[ShareUser] = user_file_count[ShareUser],
         pc'["filesop"] \notin Watched, RanksNot', SharedAgain',
         \/ faults' = faults + 1
         \/ faults' = faults /\ Stale \cap Leaving = {} /\ Entering = {}
  PROVE  RankingInv'
<1> DEFINE x == MemberOf(me.key)
<1>1. Stale' = Stale /\ Members' = Members
  BY SameRanking
<1>2. HasRow(user_file_count, ShareUser)' <=> HasRow(user_file_count, ShareUser)
  BY DEF HasRow
<1>3. Leaving' = {} /\ Entering' = {}
  BY DEF Leaving, Entering, Watched
<1>4. Leaving \subseteq {x} /\ Entering \subseteq {x}
  BY DEF Leaving, Entering
<1>5. RankingKnown'
  BY DEF RankingKnown, Watched
<1>6. Paid(Behind, Behind', x) /\ Paid(Uncounted, Uncounted', x)
  BY <1>1, <1>3, <1>4 DEF Paid, Behind, Uncounted
<1>7. \A y \in ShareKey : score'[y] = 0
  BY DEF RankingInv
<1> HIDE DEF x
<1> QED
  BY <1>1, <1>2, <1>5, <1>6, <1>7, RankingStep

\* Control steps of cgi_filesop.
LEMMA FilesOpGoto ==
  ASSUME TypeOK, RankingInv, NEW l, NEW v, Goto("filesop", l, v)
  PROVE  pc'["filesop"] = l /\ me' = v /\ RanksNot' /\ SharedAgain'
<1>1. /\ pc'["filesop"] = l /\ loc'["filesop"] = v
      /\ pc'["sharefilesop"] = pc["sharefilesop"] /\ pc'["sharefiles"] = pc["sharefiles"]
  BY GotoFacts DEF TypeOK, Programs
<1>2. reply' = NoReply
  BY DEF Goto
<1> QED
  BY <1>1, <1>2 DEF me, RanksNot, RankingInv, SharedAgain

LEMMA FilesOpFinish ==
  ASSUME TypeOK, RankingInv, NEW c, Finish("filesop", c)
  PROVE  /\ pc'["filesop"] = "idle" /\ RanksNot'
         /\ reply'.code = c /\ reply'.key = me.key
         /\ c # "012" => SharedAgain'
<1>1. /\ pc'["filesop"] = "idle"
      /\ pc'["sharefilesop"] = pc["sharefilesop"] /\ pc'["sharefiles"] = pc["sharefiles"]
  BY FinishFacts DEF TypeOK, Programs
<1>2. reply'.code = c /\ reply'.key = me.key
  BY DEF Finish, me
<1> QED
  BY <1>1, <1>2 DEF RanksNot, RankingInv, SharedAgain

\* A failure ends the request and leaves at most its own file behind.
LEMMA FailedRanking ==
  ASSUME TypeOK, RankingInv, UNCHANGED <<share_file_list, zset, score, user_file_count>>,
         NEW c, c # "012", Fault, Finish("filesop", c)
  PROVE  RankingInv'
<1>1. pc'["filesop"] = "idle" /\ RanksNot' /\ SharedAgain'
  BY FilesOpFinish
<1>2. faults' = faults + 1
  BY DEF Fault
<1>3. "idle" \notin Watched
  BY DEF Watched
<1> QED
  BY <1>1, <1>2, <1>3, PlainStep

\* del_file asks the ranking and then the tables whether the file is shared.
LEMMA DelAsksRanking ==
  ASSUME TypeOK, RankingInv, DelZexit \/ DelStatus
  PROVE  RankingInv'
<1> DEFINE x == MemberOf(me.key)
<1>w. me \in Locals /\ me.key \in FileKey /\ x \in ShareKey
  BY AtWork DEF DelZexit, DelStatus, TypeOK, Programs, me
<1>n. /\ UNCHANGED <<share_file_list, zset, score, user_file_count>>
      /\ Leaving = {} /\ Entering = {}
  BY DEF DelZexit, DelStatus, mysql, redis, Leaving, Entering
<1>r. /\ Stale' = Stale /\ Members' = Members
      /\ HasRow(user_file_count, ShareUser)' <=> HasRow(user_file_count, ShareUser)
      /\ \A y \in ShareKey : score'[y] = 0
  BY <1>n, SameRanking DEF HasRow, RankingInv
<1>1. ASSUME NEW l \in {"del_share", "del_status"}, NEW v, NoFault, Goto("filesop", l, v),
             RankingKnown'
      PROVE  RankingInv'
  <2>1. pc'["filesop"] = l /\ RanksNot' /\ SharedAgain'
    BY <1>1, FilesOpGoto
  <2>2. Leaving' = {} /\ Entering' = {}
    BY <2>1 DEF Leaving, Entering
  <2>3. Paid(Behind, Behind', x) /\ Paid(Uncounted, Uncounted', x)
    BY <1>1, <1>n, <1>r, <2>2 DEF Paid, Behind, Uncounted, NoFault
  <2> QED
    BY <1>1, <1>r, <2>1, <2>3, RankingStep
<1>z. /\ x \in zset => ZLexCount(x) = 1
      /\ x \notin zset => ZLexCount(x) = 0
  BY <1>w, ZLexCountFacts DEF RankingInv
<1> HIDE DEF x
<1>2. CASE DelZexit
  <2>1. CASE NoFault /\ Goto("filesop", "del_share", [me EXCEPT !.share = 1, !.flag = 1])
    <3>1. pc'["filesop"] = "del_share" /\ me' = [me EXCEPT !.share = 1, !.flag = 1]
      BY <2>1, FilesOpGoto
    <3>2. me'.flag = 1
      BY <1>w, <3>1 DEF Locals
    <3>3. RankingKnown'
      BY <3>1, <3>2 DEF RankingKnown
    <3> QED
      BY <1>1, <2>1, <3>3
  <2>2. CASE NoFault /\ ZLexCount(x) = 0 /\ Goto("filesop", "del_status", me)
    <3>1. pc'["filesop"] = "del_status" /\ me' = me
      BY <2>2, FilesOpGoto
    <3>2. x \notin zset'
      BY <1>z, <1>n, <2>2
    <3>3. RankingKnown'
      BY <3>1, <3>2 DEF RankingKnown, x
    <3> QED
      BY <1>1, <2>2, <3>3
  <2>3. CASE FilesOpFails("014")
    BY <1>n, <2>3, FailedRanking DEF FilesOpFails
  <2> QED
    BY <1>2, <1>z, <2>1, <2>2, <2>3 DEF DelZexit, x
<1>3. CASE DelStatus
  <2>0. x \notin zset
    BY <1>3 DEF DelStatus, RankingInv, RankingKnown, x
  <2>1. CASE NoFault /\ Goto("filesop", "del_share", [me EXCEPT !.share = 1])
    <3>1. pc'["filesop"] = "del_share" /\ me' = [me EXCEPT !.share = 1]
      BY <2>1, FilesOpGoto
    <3>2. MemberOf(me.key)' = x
      BY <1>w, <3>1, FilesOpKey DEF x
    <3>3. RankingKnown'
      BY <1>n, <2>0, <3>1, <3>2 DEF RankingKnown
    <3> QED
      BY <1>1, <2>1, <3>3
  <2>2. CASE NoFault /\ Goto("filesop", "del_selcount", me)
    <3>1. pc'["filesop"] = "del_selcount" /\ RanksNot' /\ SharedAgain'
      BY <2>2, FilesOpGoto
    <3> QED
      BY <1>n, <2>2, <3>1, PlainStep DEF NoFault, Watched
  <2>3. CASE FilesOpFails("014")
    BY <1>n, <2>3, FailedRanking DEF FilesOpFails
  <2> QED
    BY <1>3, <2>1, <2>2, <2>3 DEF DelStatus
<1> QED
  BY <1>2, <1>3

\* del_file deletes the row: the member that it leaves is its own to remove.
LEMMA DelRowRanking ==
  ASSUME TypeOK, RankingInv, DelShare
  PROVE  RankingInv'
<1> DEFINE x == MemberOf(me.key)
<1>w. me \in Locals /\ me.key \in FileKey /\ x \in ShareKey
  BY AtWork DEF DelShare, TypeOK, Programs, me
<1>n. /\ UNCHANGED <<zset, score, user_file_count>>
      /\ pc["filesop"] = "del_share" /\ Leaving = {} /\ Entering = {}
  BY DEF DelShare, redis, Leaving, Entering
<1>1. CASE FilesOpFails("014") /\ UNCHANGED share_file_list
  BY <1>n, <1>1, FailedRanking DEF FilesOpFails
<1>2. CASE /\ NoFault
           /\ share_file_list' = DeleteWhere(share_file_list, me.key)
           /\ Goto("filesop", "del_selshares", me)
  <2>1. pc'["filesop"] = "del_selshares" /\ me' = me /\ RanksNot' /\ SharedAgain'
    BY <1>2, FilesOpGoto
  <2>2. /\ \A k \in FileKey : k # me.key => share_file_list'[k] = share_file_list[k]
        /\ share_file_list'[me.key] = <<>>
    BY <1>w, <1>2 DEF DeleteWhere, TypeOK, TablesTypeOK
  <2>3. \A y : Sharers(y)' \subseteq Sharers(y) /\ (y # x => Sharers(y)' = Sharers(y))
    BY <2>2 DEF Sharers, HasRow
  <2> HIDE DEF x
  <2>4. Leaving' = {x} /\ Entering' = {}
    BY <2>1 DEF Leaving, Entering, x
  <2>5. Stale' \ {x} \subseteq Stale
    BY <1>n, <2>3 DEF Stale
  <2>6. Members' \subseteq Members
    BY <1>n, <2>3 DEF Members, SharedMembers
  <2>7. Paid(Behind, Behind', x) /\ Paid(Uncounted, Uncounted', x)
    BY <1>n, <1>2, <2>4, <2>5, <2>6 DEF Paid, Behind, Uncounted, NoFault
  <2>8. RankingKnown'
    BY <1>n, <2>1 DEF RankingKnown, RankingInv
  <2>9. /\ HasRow(user_file_count, ShareUser)' <=> HasRow(user_file_count, ShareUser)
        /\ \A y \in ShareKey : score'[y] = 0
    BY <1>n DEF HasRow, RankingInv
  <2> QED
    BY <2>1, <2>6, <2>7, <2>8, <2>9, RankingStep
<1> QED
  BY <1>1, <1>2 DEF DelShare

\* del_file gives up when the shared files have no count: the member that stays
\* behind is one of those that have cost a failure already.
LEMMA DelCountRanking ==
  ASSUME TypeOK, RankingInv, DelSelectShares \/ DelSetShares
  PROVE  RankingInv'
<1> DEFINE x == MemberOf(me.key)
<1>w. me \in Locals /\ me.key \in FileKey /\ me.count \in Int
  BY AtWork DEF DelSelectShares, DelSetShares, TypeOK, Programs, me
<1>n. /\ UNCHANGED <<share_file_list, zset, score>>
      /\ pc["filesop"] \in {"del_selshares", "del_shares"}
      /\ Leaving = {x} /\ Entering = {}
  BY DEF DelSelectShares, DelSetShares, mysql, redis, Leaving, Entering
<1>r. /\ Stale' = Stale /\ Members' = Members
      /\ \A y \in ShareKey : score'[y] = 0
  BY <1>n, SameRanking DEF RankingInv
<1> HIDE DEF x
<1>1. CASE DelSelectShares
  <2>1. UNCHANGED user_file_count
    BY <1>1 DEF DelSelectShares, mysql
  <2>2. CASE FilesOpFails("014")
    BY <1>n, <2>1, <2>2, FailedRanking DEF FilesOpFails
  <2>3. CASE NoFault /\ ~HasRow(user_file_count, ShareUser) /\ Finish("filesop", "014")
    <3>1. pc'["filesop"] = "idle" /\ RanksNot' /\ SharedAgain'
      BY <2>3, FilesOpFinish
    <3>2. Leaving' = {} /\ Entering' = {}
      BY <3>1 DEF Leaving, Entering
    <3>3. Paid(Uncounted, Behind', x) /\ Paid(Uncounted, Uncounted', x)
      BY <1>n, <1>r, <2>3, <3>2 DEF Paid, Behind, Uncounted, NoFault, Stale, Members
    <3>4. RankingKnown'
      BY <3>1 DEF RankingKnown
    <3> QED
      BY <1>r, <2>3, <3>1, <3>3, <3>4, RankingStep
  <2>4. CASE /\ NoFault
             /\ HasRow(user_file_count, ShareUser)
             /\ Goto("filesop", "del_shares",
                     [me EXCEPT !.count = FirstRow(user_file_count, ShareUser)])
    <3>1. /\ pc'["filesop"] = "del_shares" /\ RanksNot' /\ SharedAgain'
          /\ me' = [me EXCEPT !.count = FirstRow(user_file_count, ShareUser)]
      BY <2>4, FilesOpGoto
    <3>2. me'.key = me.key /\ me'.flag = me.flag
      BY <1>w, <3>1 DEF Locals
    <3>3. Leaving' = {x} /\ Entering' = {}
      BY <3>1, <3>2 DEF Leaving, Entering, x
    <3>4. Paid(Behind, Behind', x) /\ HasRow(user_file_count, ShareUser)'
      BY <1>n, <1>r, <2>1, <2>4, <3>3 DEF Paid, Behind, NoFault, HasRow
    <3>5. RankingKnown'
      BY <1>n, <3>1, <3>2 DEF RankingKnown, RankingInv
    <3> QED
      BY <1>r, <3>1, <3>4, <3>5, RankingStep
  <2> QED
    BY <1>1, <2>2, <2>3, <2>4 DEF DelSelectShares
<1>2. CASE DelSetShares
  <2>1. CASE FilesOpFails("014") /\ UNCHANGED user_file_count
    BY <1>n, <2>1, FailedRanking DEF FilesOpFails
  <2>2. CASE /\ NoFault
             /\ user_file_count' = UpdateWhere(user_file_count, ShareUser, me.count - 1)
             /\ Goto("filesop", IF me.flag = 1 THEN "del_zrem" ELSE "del_selcount", me)
    <3>1. HasRow(user_file_count, ShareUser)' <=> HasRow(user_file_count, ShareUser)
      <4>1. user_file_count \in [Accounts -> Seq(Int)] /\ ShareUser \in Accounts
        BY DEF TypeOK, TablesTypeOK, Accounts
      <4>2. user_file_count'[ShareUser]
              = [i \in 1..Len(user_file_count[ShareUser]) |-> me.count - 1]
        BY <2>2, <4>1 DEF UpdateWhere
      <4>3. user_file_count[ShareUser] \in Seq(Int)
        BY <4>1
      <4> QED
        BY <4>2, <4>3 DEF HasRow
    <3>2. CASE me.flag = 1
      <4>1. pc'["filesop"] = "del_zrem" /\ me' = me /\ RanksNot' /\ SharedAgain'
        BY <2>2, <3>2, FilesOpGoto
      <4>2. Leaving' = {x} /\ Entering' = {}
        BY <4>1 DEF Leaving, Entering, x
      <4>3. Paid(Behind, Behind', x) /\ Paid(Uncounted, Uncounted', x)
        BY <1>n, <1>r, <2>2, <4>2 DEF Paid, Behind, Uncounted, NoFault
      <4>4. RankingKnown'
        BY <4>1 DEF RankingKnown
      <4> QED
        BY <1>r, <3>1, <4>1, <4>3, <4>4, RankingStep
    <3>3. CASE me.flag # 1
      <4>1. pc'["filesop"] = "del_selcount" /\ RanksNot' /\ SharedAgain'
        BY <2>2, <3>3, FilesOpGoto
      <4>2. x \notin zset
        BY <1>n, <3>3 DEF RankingInv, RankingKnown, x
      <4>3. Leaving' = {} /\ Entering' = {}
        BY <4>1 DEF Leaving, Entering
      <4>4. Paid(Behind, Behind', x) /\ Paid(Uncounted, Uncounted', x)
        BY <1>n, <1>r, <2>2, <4>2, <4>3 DEF Paid, Behind, Uncounted, NoFault, Stale
      <4>5. RankingKnown'
        BY <4>1 DEF RankingKnown
      <4> QED
        BY <1>r, <3>1, <4>1, <4>4, <4>5, RankingStep
    <3> QED
      BY <3>2, <3>3
  <2> QED
    BY <1>2, <2>1, <2>2 DEF DelSetShares
<1> QED
  BY <1>1, <1>2

\* ZREM takes the member out, or fails; the rest of del_file leaves the ranking alone.
LEMMA DelRestRanking ==
  ASSUME TypeOK, RankingInv, DelStep,
         ~DelZexit, ~DelStatus, ~DelShare, ~DelSelectShares, ~DelSetShares
  PROVE  RankingInv'
<1> DEFINE x == MemberOf(me.key)
<1>1. CASE DelZrem
  <2>1. pc'["filesop"] = "del_hdel" /\ RanksNot' /\ SharedAgain'
    BY <1>1, FilesOpGoto DEF DelZrem
  <2>2. /\ UNCHANGED <<share_file_list, user_file_count>>
        /\ Leaving = {x} /\ Entering = {}
    BY <1>1 DEF DelZrem, mysql, Leaving, Entering
  <2>3. CASE Fault /\ UNCHANGED <<zset, score>>
    BY <2>1, <2>2, <2>3, PlainStep DEF Fault, Watched
  <2>4. CASE NoFault /\ ZRem(x)
    <3>1. Leaving' = {} /\ Entering' = {}
      BY <2>1 DEF Leaving, Entering
    <3>2. \A y : Sharers(y)' = Sharers(y)
      BY <2>2 DEF Sharers, HasRow
    <3>3. SharedMembers' = SharedMembers
      BY <3>2 DEF SharedMembers
    <3> HIDE DEF x
    <3>4. Stale' \subseteq Stale \ {x} /\ Members' \subseteq Members
      BY <2>4, <3>2, <3>3 DEF ZRem, Stale, Members
    <3>5. \A y \in ShareKey : score'[y] = 0
      BY <2>4 DEF ZRem, RankingInv, TypeOK, StoresTypeOK
    <3>6. Paid(Behind, Behind', x) /\ Paid(Uncounted, Uncounted', x)
      BY <2>2, <2>4, <3>1, <3>4 DEF Paid, Behind, Uncounted, NoFault
    <3>7. RankingKnown'
      BY <2>1 DEF RankingKnown
    <3>8. HasRow(user_file_count, ShareUser)' <=> HasRow(user_file_count, ShareUser)
      BY <2>2 DEF HasRow
    <3> QED
      BY <2>1, <3>4, <3>5, <3>6, <3>7, <3>8, RankingStep
  <2> QED
    BY <1>1, <2>3, <2>4 DEF DelZrem
<1> DEFINE Ending == \/ DelHdel \/ DelSelectCount \/ DelSetCount \/ DelList \/ DelSelectReference
                     \/ DelSetReference \/ DelSelectId \/ DelInfo \/ DelRemove
<1>2. CASE Ending
  <2>1. UNCHANGED <<share_file_list, zset, score>>
    BY <1>2 DEF DelHdel, DelSelectCount, DelSetCount, DelList, DelSelectReference,
                DelSetReference, DelSelectId, DelInfo, DelRemove, mysql, redis
  <2>2. Leaving = {} /\ Entering = {} /\ pc["filesop"] # "idle"
    BY <1>2 DEF DelHdel, DelSelectCount, DelSetCount, DelList, DelSelectReference,
                DelSetReference, DelSelectId, DelInfo, DelRemove, Leaving, Entering
  <2>3. user_file_count'[ShareUser] = user_file_count[ShareUser]
    <3>1. /\ user_file_count \in [Accounts -> Seq(Int)] /\ ShareUser \in Accounts
          /\ ShareUser \notin Users
      BY ConstantsAssumption DEF TypeOK, TablesTypeOK, Accounts
    <3>2. me.key.user \in Users
      BY <2>2, AtWork DEF TypeOK, Programs, me
    <3>3. \/ UNCHANGED user_file_count
          \/ user_file_count' = DeleteWhere(user_file_count, me.key.user)
          \/ user_file_count' = UpdateWhere(user_file_count, me.key.user, me.count - 1)
      BY <1>2 DEF DelHdel, DelSelectCount, DelSetCount, DelList, DelSelectReference,
                  DelSetReference, DelSelectId, DelInfo, DelRemove, mysql
    <3> QED
      BY <3>1, <3>2, <3>3 DEF DeleteWhere, UpdateWhere
  <2>4. faults' = faults \/ faults' = faults + 1
    BY <1>2 DEF DelHdel, DelSelectCount, DelSetCount, DelList, DelSelectReference,
                DelSetReference, DelSelectId, DelInfo, DelRemove, FilesOpFails, Fault, NoFault
  <2> DEFINE Control == pc'["filesop"] \notin Watched /\ RanksNot' /\ SharedAgain'
  <2>5. \A l, v : Goto("filesop", l, v) /\ l \notin Watched => Control
    BY FilesOpGoto
  <2>6. \A c : Finish("filesop", c) /\ c # "012" => Control
    <3>1. "idle" \notin Watched
      BY DEF Watched
    <3> QED
      BY <3>1, FilesOpFinish
  <2> HIDE DEF Control
  <2>7. Control
    <3>1. {"del_selcount", "del_count", "del_list", "del_selref", "del_ref", "del_selid",
           "del_info", "del_remove"} \cap Watched = {}
      BY DEF Watched
    <3> QED
      BY <1>2, <2>5, <2>6, <3>1
         DEF DelHdel, DelSelectCount, DelSetCount, DelList, DelSelectReference,
             DelSetReference, DelSelectId, DelInfo, DelRemove, FilesOpFails
  <2> QED
    BY <2>1, <2>2, <2>3, <2>4, <2>7, PlainStep DEF Control
<1> QED
  BY <1>1, <1>2 DEF DelStep

\* share_file asks whether the file is shared.  Without failures the members of
\* the ranking are shared files, so that 012 is true of a member.
LEMMA ShareAsksRanking ==
  ASSUME TypeOK, RankingInv, ShareZexit \/ ShareSelect
  PROVE  RankingInv'
<1> DEFINE x == MemberOf(me.key)
<1>w. me.key \in FileKey /\ x \in ShareKey
  BY AtWork DEF ShareZexit, ShareSelect, TypeOK, Programs, me
<1>n. /\ UNCHANGED <<share_file_list, zset, score, user_file_count>>
      /\ Leaving = {} /\ Entering = {}
  BY DEF ShareZexit, ShareSelect, mysql, redis, Leaving, Entering
<1>f. faults \in Nat
  BY ConstantsAssumption DEF TypeOK, ControlTypeOK
<1>r. /\ Stale' = Stale /\ Members' = Members /\ \A y : Sharers(y)' = Sharers(y)
      /\ HasRow(user_file_count, ShareUser)' <=> HasRow(user_file_count, ShareUser)
      /\ \A y \in ShareKey : score'[y] = 0
  BY <1>n, SameRanking DEF HasRow, RankingInv
<1>z. /\ x \in zset => ZLexCount(x) = 1
      /\ x \notin zset => ZLexCount(x) = 0
  BY <1>w, ZLexCountFacts DEF RankingInv
<1> HIDE DEF x
<1>g. ASSUME NEW l, l \notin Watched, Goto("filesop", l, me), NoFault \/ Fault
      PROVE  RankingInv'
  <2>1. pc'["filesop"] = l /\ RanksNot' /\ SharedAgain'
    BY <1>g, FilesOpGoto
  <2> QED
    BY <1>g, <1>n, <2>1, PlainStep DEF NoFault, Fault
<1>1. CASE ShareZexit
  <2>1. CASE FilesOpFails("011")
    BY <1>n, <2>1, FailedRanking DEF FilesOpFails
  <2>2. CASE NoFault /\ Goto("filesop", "sh_select", me)
    BY <1>g, <2>2 DEF Watched
  <2>3. CASE NoFault /\ ZLexCount(x) = 1 /\ Finish("filesop", "012")
    <3>1. pc'["filesop"] = "idle" /\ RanksNot' /\ reply'.key = me.key
      BY <2>3, FilesOpFinish
    <3>2. x \in zset
      BY <1>z, <2>3
    <3>3. faults = 0 => Sharers(x) # {}
      <4> SUFFICES ASSUME faults = 0 PROVE x \notin Stale
        BY <3>2 DEF Stale
      <4>1. Stale \subseteq Members /\ IsFiniteSet(Members)
        BY DEF Stale, Members, RankingInv
      <4>2. IsFiniteSet(Stale)
        BY <4>1, FS_Subset
      <4>3. Stale \ Leaving = Stale
        BY <1>n
      <4>4. Cardinality(Stale) <= 0 /\ Cardinality(Stale) \in Nat
        BY <4>2, <4>3, FS_CardinalityType DEF RankingInv
      <4> QED
        BY <4>2, <4>4, FS_EmptySet
    <3>4. faults' = faults
      BY <2>3 DEF NoFault
    <3>5. SharedAgain'
      BY <1>n, <1>r, <3>1, <3>2, <3>3, <3>4 DEF SharedAgain, x
    <3> QED
      BY <1>n, <3>1, <3>4, <3>5, PlainStep DEF Watched
  <2> QED
    BY <1>1, <1>z, <2>1, <2>2, <2>3 DEF ShareZexit, x
<1>2. CASE ShareSelect
  <2>1. CASE (NoFault \/ Fault) /\ Goto("filesop", "sh_status", me)
    BY <1>g, <2>1 DEF Watched
  <2>2. CASE NoFault /\ SharedByAnyone(me.key) /\ Goto("filesop", "sh_readd", me)
    <3>1. pc'["filesop"] = "sh_readd" /\ me' = me /\ RanksNot' /\ SharedAgain'
      BY <2>2, FilesOpGoto
    <3>2. Sharers(x) # {}
      BY <2>2 DEF SharedByAnyone, Sharers, x
    <3>3. RankingKnown'
      BY <1>r, <3>1, <3>2 DEF RankingKnown, x
    <3>4. Leaving' = {} /\ Entering' = {}
      BY <3>1 DEF Leaving, Entering
    <3>5. Paid(Behind, Behind', x) /\ Paid(Uncounted, Uncounted', x)
      BY <1>n, <1>r, <2>2, <3>4 DEF Paid, Behind, Uncounted, NoFault
    <3> QED
      BY <1>r, <3>1, <3>3, <3>5, RankingStep
  <2> QED
    BY <1>2, <2>1, <2>2 DEF ShareSelect
<1> QED
  BY <1>1, <1>2

\* ZADD of a file that somebody shares.
LEMMA ShareAddsMember ==
  ASSUME TypeOK, RankingInv, ShareReadd \/ ShareZadd
  PROVE  RankingInv'
<1> DEFINE x == MemberOf(me.key)
<1>w. me.key \in FileKey /\ x \in ShareKey
  BY AtWork DEF ShareReadd, ShareZadd, TypeOK, Programs, me
<1>n. /\ UNCHANGED <<share_file_list, user_file_count>>
      /\ Leaving = {} /\ Entering = {}
  BY DEF ShareReadd, ShareZadd, mysql, Leaving, Entering
<1>s. Sharers(x) # {}
  BY <1>w DEF ShareReadd, ShareZadd, RankingInv, RankingKnown, Sharers
<1>f. faults \in Nat
  BY ConstantsAssumption DEF TypeOK, ControlTypeOK
<1>r. \A y : Sharers(y)' = Sharers(y)
  BY <1>n DEF Sharers, HasRow
<1>m. SharedMembers' = SharedMembers /\ x \in SharedMembers
  BY <1>w, <1>r, <1>s DEF SharedMembers
<1>c. /\ pc'["filesop"] \in {"idle", "sh_hset"} /\ RanksNot'
      /\ \/ SharedAgain'
         \/ reply'.code = "012" /\ reply'.key = me.key
  BY FilesOpGoto, FilesOpFinish DEF ShareReadd, ShareZadd
<1> HIDE DEF x
<1>1. CASE Fault /\ UNCHANGED <<zset, score>>
  <2>1. faults' = faults + 1 /\ faults' # 0
    BY <1>1, <1>f DEF Fault
  <2>2. SharedAgain'
    BY <2>1 DEF SharedAgain
  <2> QED
    BY <1>1, <1>c, <1>n, <2>1, <2>2, PlainStep DEF Watched
<1>2. CASE NoFault /\ ZAdd(x, 0)
  <2>1. SharedAgain'
    BY <1>2, <1>c, <1>r, <1>s DEF SharedAgain, ZAdd, x
  <2>2. Leaving' = {} /\ Entering' = {}
    BY <1>c DEF Leaving, Entering
  <2>3. Stale' \subseteq Stale /\ Members' \subseteq Members
    BY <1>2, <1>m, <1>r, <1>s DEF Stale, Members, ZAdd
  <2>4. \A y \in ShareKey : score'[y] = 0
    BY <1>2 DEF ZAdd, RankingInv, TypeOK, StoresTypeOK
  <2>5. Paid(Behind, Behind', x) /\ Paid(Uncounted, Uncounted', x)
    BY <1>2, <1>n, <2>2, <2>3 DEF Paid, Behind, Uncounted, NoFault
  <2>6. RankingKnown'
    BY <1>c DEF RankingKnown
  <2>7. HasRow(user_file_count, ShareUser)' <=> HasRow(user_file_count, ShareUser)
    BY <1>n DEF HasRow
  <2> QED
    BY <1>c, <2>1, <2>3, <2>4, <2>5, <2>6, <2>7, RankingStep
<1> QED
  BY <1>1, <1>2 DEF ShareReadd, ShareZadd, x

\* The row is inserted before the file is counted.
LEMMA ShareRowRanking ==
  ASSUME TypeOK, RankingInv, ShareInsert
  PROVE  RankingInv'
<1> DEFINE x == MemberOf(me.key)
<1>w. me.key \in FileKey /\ x \in ShareKey
  BY AtWork DEF ShareInsert, TypeOK, Programs, me
<1>n. /\ UNCHANGED <<zset, score, user_file_count>>
      /\ Leaving = {} /\ Entering = {}
  BY DEF ShareInsert, redis, Leaving, Entering
<1>1. CASE FilesOpFails("011") /\ UNCHANGED share_file_list
  BY <1>n, <1>1, FailedRanking DEF FilesOpFails
<1>2. CASE /\ NoFault
           /\ share_file_list' = Insert(share_file_list, me.key, 0)
           /\ Goto("filesop", "sh_selcount", me)
  <2>1. pc'["filesop"] = "sh_selcount" /\ me' = me /\ RanksNot' /\ SharedAgain'
    BY <1>2, FilesOpGoto
  <2>2. /\ \A k \in FileKey : k # me.key => share_file_list'[k] = share_file_list[k]
        /\ share_file_list'[me.key] # <<>>
    <3>1. share_file_list \in [FileKey -> Seq(Int)]
      BY DEF TypeOK, TablesTypeOK
    <3>2. /\ \A k \in FileKey : k # me.key => share_file_list'[k] = share_file_list[k]
          /\ share_file_list'[me.key] = Append(share_file_list[me.key], 0)
      BY <1>w, <1>2, <3>1 DEF Insert
    <3>3. share_file_list[me.key] \in Seq(Int)
      BY <1>w, <3>1
    <3> QED
      BY <3>2, <3>3
  <2>3. \A y : Sharers(y) \subseteq Sharers(y)' /\ (y # x => Sharers(y)' = Sharers(y))
    BY <2>2 DEF Sharers, HasRow
  <2> HIDE DEF x
  <2>4. Leaving' = {} /\ Entering' = {x}
    BY <2>1 DEF Leaving, Entering, x
  <2>5. Stale' \subseteq Stale
    BY <1>n, <2>3 DEF Stale
  <2>6. Members' \subseteq Members \cup {x}
    BY <1>n, <2>3 DEF Members, SharedMembers
  <2>7. Paid(Behind, Behind', x) /\ Paid(Uncounted, Uncounted', x)
    BY <1>n, <1>2, <2>4, <2>5, <2>6 DEF Paid, Behind, Uncounted, NoFault
  <2>8. RankingKnown'
    BY <2>1, <2>2 DEF RankingKnown, HasRow
  <2>9. /\ HasRow(user_file_count, ShareUser)' <=> HasRow(user_file_count, ShareUser)
        /\ \A y \in ShareKey : score'[y] = 0
    BY <1>n DEF HasRow, RankingInv
  <2> QED
    BY <2>1, <2>6, <2>7, <2>8, <2>9, RankingStep
<1> QED
  BY <1>1, <1>2 DEF ShareInsert

\* The file is counted, and then the shared files have a count; only a failed
\* select leaves them without one.
LEMMA ShareCountRanking ==
  ASSUME TypeOK, RankingInv, ShareSelectCount \/ ShareSetCount
  PROVE  RankingInv'
<1> DEFINE x == MemberOf(me.key)
<1>w. me \in Locals /\ me.key \in FileKey /\ me.count \in Int
  BY AtWork DEF ShareSelectCount, SelectCountToAdd, ShareSetCount, TypeOK, Programs, me
<1>n. /\ UNCHANGED <<share_file_list, zset, score>>
      /\ pc["filesop"] \in {"sh_selcount", "sh_count"}
      /\ Leaving = {} /\ Entering \subseteq {x}
  BY DEF ShareSelectCount, SelectCountToAdd, ShareSetCount, mysql, redis, Leaving, Entering
<1>r. /\ Stale' = Stale /\ Members' = Members
      /\ \A y \in ShareKey : score'[y] = 0
      /\ \A k : HasRow(share_file_list, k)' <=> HasRow(share_file_list, k)
  BY <1>n, SameRanking DEF RankingInv
<1>k. HasRow(share_file_list, me.key)
  BY <1>n DEF RankingInv, RankingKnown
<1>t. user_file_count \in [Accounts -> Seq(Int)] /\ ShareUser \in Accounts
  BY DEF TypeOK, TablesTypeOK, Accounts
<1> HIDE DEF x
<1>1. CASE ShareSelectCount
  <2>1. /\ UNCHANGED user_file_count /\ pc["filesop"] = "sh_selcount"
        /\ HasRow(user_file_count, ShareUser)' <=> HasRow(user_file_count, ShareUser)
        /\ Entering = {x}
    BY <1>1 DEF ShareSelectCount, SelectCountToAdd, mysql, HasRow, Entering, x
  <2>2. CASE /\ NoFault /\ HasRow(user_file_count, ShareUser)
             /\ Goto("filesop", "sh_count",
                     [me EXCEPT !.sql = "update",
                                !.count = FirstRow(user_file_count, ShareUser)])
    <3>1. /\ pc'["filesop"] = "sh_count" /\ RanksNot' /\ SharedAgain'
          /\ me' = [me EXCEPT !.sql = "update",
                              !.count = FirstRow(user_file_count, ShareUser)]
      BY <2>2, FilesOpGoto
    <3>2. me'.key = me.key
      BY <3>1, FilesOpKey
    <3>3. RankingKnown'
      BY <1>k, <1>r, <2>1, <2>2, <3>1, <3>2 DEF RankingKnown
    <3>4. Leaving' = {}
      BY <3>1 DEF Leaving
    <3>5. Paid(Behind, Behind', x)
      BY <1>n, <1>r, <2>2, <3>4 DEF Paid, Behind, NoFault
    <3> QED
      BY <1>r, <2>1, <2>2, <3>1, <3>3, <3>5, RankingStep
  <2>3. CASE /\ NoFault /\ ~HasRow(user_file_count, ShareUser)
             /\ Goto("filesop", "sh_count", [me EXCEPT !.sql = "insert"])
    <3>1. /\ pc'["filesop"] = "sh_count" /\ RanksNot' /\ SharedAgain'
          /\ me' = [me EXCEPT !.sql = "insert"]
      BY <2>3, FilesOpGoto
    <3>2. me'.key = me.key /\ me'.sql = "insert"
      BY <1>w, <3>1 DEF Locals
    <3>3. RankingKnown'
      BY <1>k, <1>r, <3>1, <3>2 DEF RankingKnown
    <3>4. Leaving' = {} /\ Entering' = {x}
      BY <3>1, <3>2 DEF Leaving, Entering, x
    <3>5. Paid(Behind, Behind', x) /\ Paid(Uncounted, Uncounted', x)
      BY <1>n, <1>r, <2>1, <2>3, <3>4 DEF Paid, Behind, Uncounted, NoFault
    <3> QED
      BY <1>r, <2>1, <2>3, <3>1, <3>3, <3>5, RankingStep
  <2>4. CASE Fault /\ Goto("filesop", "sh_count", [me EXCEPT !.sql = "select"])
    <3>1. /\ pc'["filesop"] = "sh_count" /\ RanksNot' /\ SharedAgain'
          /\ me' = [me EXCEPT !.sql = "select"]
      BY <2>4, FilesOpGoto
    <3>2. me'.key = me.key /\ me'.sql = "select"
      BY <1>w, <3>1 DEF Locals
    <3>3. RankingKnown'
      BY <1>k, <1>r, <3>1, <3>2 DEF RankingKnown
    <3>4. Leaving' = {} /\ Entering' = {}
      BY <3>1, <3>2 DEF Leaving, Entering
    <3>5. Paid(Behind, Behind', x) /\ Paid(Uncounted, Uncounted', x)
      BY <1>n, <1>r, <2>1, <2>4, <3>4 DEF Paid, Behind, Uncounted, Fault
    <3> QED
      BY <1>r, <2>1, <3>1, <3>3, <3>5, RankingStep
  <2> QED
    BY <1>1, <2>2, <2>3, <2>4 DEF ShareSelectCount, SelectCountToAdd, me
<1>2. CASE ShareSetCount
  <2>0. pc["filesop"] = "sh_count"
    BY <1>2 DEF ShareSetCount
  <2>1. CASE Fault /\ Finish("filesop", "011") /\ UNCHANGED user_file_count
    BY <1>n, <2>1, FailedRanking
  <2>2. CASE /\ NoFault /\ HasRow(user_file_count, ShareUser)
             /\ Finish("filesop", "011") /\ UNCHANGED user_file_count
    <3>1. pc'["filesop"] = "idle" /\ RanksNot' /\ SharedAgain'
      BY <2>2, FilesOpFinish
    <3>2. Leaving' = {} /\ RankingKnown'
      BY <3>1 DEF Leaving, RankingKnown
    <3>3. Paid(Behind, Behind', x) /\ HasRow(user_file_count, ShareUser)'
      BY <1>n, <1>r, <2>2, <3>2 DEF Paid, Behind, NoFault, HasRow
    <3> QED
      BY <1>r, <3>1, <3>2, <3>3, RankingStep
  <2>3. CASE /\ NoFault /\ AddToCount("filesop", ShareUser)
             /\ Goto("filesop", "sh_zadd", me)
    <3>1. pc'["filesop"] = "sh_zadd" /\ me' = me /\ RanksNot' /\ SharedAgain'
      BY <2>3, FilesOpGoto
    <3>2. Leaving' = {} /\ Entering' = {}
      BY <3>1 DEF Leaving, Entering
    <3>3. RankingKnown'
      BY <1>k, <1>r, <3>1 DEF RankingKnown
    <3>4. Paid(Behind, Behind', x)
      BY <1>n, <1>r, <2>3, <3>2 DEF Paid, Behind, NoFault
    <3>5. CASE me.sql = "update"
      <4>1. HasRow(user_file_count, ShareUser)
        BY <2>0, <3>5 DEF RankingInv, RankingKnown
      <4>2. user_file_count' = UpdateWhere(user_file_count, ShareUser, me.count + 1)
        BY <2>3, <3>5 DEF AddToCount, me
      <4>3. user_file_count'[ShareUser]
              = [i \in 1..Len(user_file_count[ShareUser]) |-> me.count + 1]
        BY <1>t, <4>2 DEF UpdateWhere
      <4>4. user_file_count[ShareUser] \in Seq(Int)
        BY <1>t
      <4>5. HasRow(user_file_count, ShareUser)'
        BY <4>1, <4>3, <4>4 DEF HasRow
      <4> QED
        BY <1>r, <3>1, <3>3, <3>4, <4>5, RankingStep
    <3>6. CASE me.sql = "insert"
      <4>1. user_file_count' = Insert(user_file_count, ShareUser, 1)
        BY <2>3, <3>6 DEF AddToCount, me
      <4>2. user_file_count'[ShareUser] = Append(user_file_count[ShareUser], 1)
        BY <1>t, <4>1 DEF Insert
      <4>3. user_file_count[ShareUser] \in Seq(Int)
        BY <1>t
      <4>4. HasRow(user_file_count, ShareUser)'
        BY <4>2, <4>3 DEF HasRow
      <4> QED
        BY <1>r, <3>1, <3>3, <3>4, <4>4, RankingStep
    <3>7. CASE me.sql # "update" /\ me.sql # "insert"
      <4>1. UNCHANGED user_file_count
        BY <2>3, <3>7 DEF AddToCount, me
      <4>2. Entering = {}
        BY <2>0, <3>7 DEF Entering
      <4>3. Paid(Uncounted, Uncounted', x)
        BY <1>r, <2>3, <3>2, <4>2 DEF Paid, Uncounted, NoFault
      <4>4. HasRow(user_file_count, ShareUser)' <=> HasRow(user_file_count, ShareUser)
        BY <4>1 DEF HasRow
      <4> QED
        BY <1>r, <3>1, <3>3, <3>4, <4>3, <4>4, RankingStep
    <3> QED
      BY <3>5, <3>6, <3>7
  <2> QED
    BY <1>2, <2>1, <2>2, <2>3 DEF ShareSetCount, CountRefused
<1> QED
  BY <1>1, <1>2

\* share_file does the rest, or its request is taken up, without touching the
\* ranking.
LEMMA ShareRestRanking ==
  ASSUME TypeOK, RankingInv, ShareStatus \/ ShareHset
  PROVE  RankingInv'
<1>1. /\ UNCHANGED <<share_file_list, zset, score, user_file_count>>
      /\ Leaving = {} /\ Entering = {}
  BY DEF ShareStatus, ShareHset, mysql, redis, Leaving, Entering
<1>2. pc'["filesop"] \in {"idle", "sh_insert"} /\ RanksNot' /\ SharedAgain'
  BY FilesOpGoto, FilesOpFinish DEF ShareStatus, ShareHset, FilesOpFails
<1>3. faults' = faults \/ faults' = faults + 1
  BY DEF ShareStatus, ShareHset, FilesOpFails, Fault, NoFault
<1> QED
  BY <1>1, <1>2, <1>3, PlainStep DEF Watched

LEMMA FilesOpRanking ==
  ASSUME TypeOK, RankingInv, FilesOpStep
  PROVE  RankingInv'
<1>1. CASE DelStep
  BY <1>1, DelAsksRanking, DelRowRanking, DelCountRanking, DelRestRanking
<1>2. CASE ShareStep
  BY <1>2, ShareAsksRanking, ShareAddsMember, ShareRowRanking, ShareCountRanking,
     ShareRestRanking DEF ShareStep
<1> QED
  BY <1>1, <1>2 DEF FilesOpStep

\* A request that the deployment answers.
LEMMA RequestRanking ==
  ASSUME TypeOK, SharesOnly, RankingInv, Request
  PROVE  RankingInv'
<1>l. /\ {"sv_list"} \cap (PvLabels \cup CancelLabels) = {}
      /\ {"ls_count", "ls_normal"} \cap RankLabels = {}
      /\ {"del_zexit", "sh_zexit"} \cap Watched = {}
  BY DEF PvLabels, CancelLabels, RankLabels, Watched
<1>1. UNCHANGED <<share_file_list, zset, score, user_file_list, user_file_count>>
  BY AcceptedRequest DEF mysql, redis
<1>2. ASSUME NEW p \in Programs, NEW k, NEW l, Accept(p, k, l)
      PROVE  /\ pc'[p] = l /\ \A q \in Programs : q # p => pc'[q] = pc[q] /\ loc'[q] = loc[q]
             /\ reply' = NoReply /\ faults' = faults /\ pc[p] = "idle"
  BY <1>2 DEF Accept, TypeOK, ControlTypeOK
<1>3. ASSUME NEW k, NEW l \in {"del_zexit", "sh_zexit"}, Accept("filesop", k, l)
      PROVE  RankingInv'
  <2>1. /\ pc'["filesop"] = l /\ pc["filesop"] = "idle"
        /\ pc'["sharefilesop"] = pc["sharefilesop"] /\ pc'["sharefiles"] = pc["sharefiles"]
        /\ reply' = NoReply /\ faults' = faults
    BY <1>2, <1>3 DEF Programs
  <2>2. RanksNot' /\ SharedAgain' /\ Leaving = {} /\ Entering = {}
    BY <2>1 DEF RanksNot, RankingInv, SharedAgain, Leaving, Entering
  <2> QED
    BY <1>1, <1>3, <1>l, <2>1, <2>2, PlainStep
<1>4. ASSUME NEW p \in Programs, p # "filesop", NEW k, NEW l, Accept(p, k, l),
             p = "sharefilesop" => l = "sv_list",
             p = "sharefiles" => l \in {"ls_count", "ls_normal"}
      PROVE  RankingInv'
  <2>1. /\ pc'["filesop"] = pc["filesop"] /\ loc'["filesop"] = loc["filesop"]
        /\ pc'["sharefilesop"] \in {pc["sharefilesop"], "sv_list"}
        /\ pc'["sharefiles"] \in {pc["sharefiles"], "ls_count", "ls_normal"}
        /\ reply' = NoReply /\ faults' = faults
    BY <1>2, <1>4 DEF Programs
  <2>2. RanksNot'
    BY <1>l, <2>1 DEF RanksNot, RankingInv
  <2>3. Apart
    BY <1>1, <2>1 DEF Apart, SharesKept, ListGrows, HasRow
  <2> QED
    BY <1>1, <2>2, <2>3, ApartRanking
<1>5. ASSUME NEW k \in FileKey,
             \/ UploadAccept(k) \/ Md5Accept(k) \/ DelAccept(k) \/ ShareAccept(k)
             \/ PvAccept(k) \/ CancelAccept(k) \/ SaveAccept(k)
      PROVE  RankingInv'
  <2>1. \/ Accept("upload", k, "up_recv") \/ Accept("md5", k, "md5_info")
        \/ Accept("filesop", k, "del_zexit") \/ Accept("filesop", k, "sh_zexit")
        \/ Accept("sharefilesop", k, "sv_list")
    BY <1>5 DEF UploadAccept, Md5Accept, DelAccept, ShareAccept, PvAccept, CancelAccept,
                SaveAccept, SharesOnly
  <2> QED
    BY <1>3, <1>4, <2>1 DEF Programs
<1>6. ASSUME \/ ListAccept("count", "ls_count") \/ ListAccept("normal", "ls_normal")
             \/ ListAccept("pvdesc", "rk_select")
      PROVE  RankingInv'
  <2>1. Accept("sharefiles", NoKey, "ls_count") \/ Accept("sharefiles", NoKey, "ls_normal")
    BY <1>6 DEF ListAccept, SharesOnly
  <2> QED
    BY <1>4, <2>1 DEF Programs
<1> QED
  BY <1>5, <1>6 DEF Request

LEMMA InitRanking == Init => RankingInv
<1> SUFFICES ASSUME Init PROVE RankingInv
  OBVIOUS
<1>1. \A y : Sharers(y) = {}
  BY DEF Init, Sharers, HasRow
<1>2. Members = {} /\ Stale = {}
  BY <1>1 DEF Init, Members, SharedMembers, Stale
<1>3. pc = [p \in Programs |-> "idle"] /\ reply = NoReply /\ faults = 0
  BY DEF Init
<1>4. Members \ Entering = {} /\ Stale \ Leaving = {}
  BY <1>2
<1>5. IsFiniteSet({}) /\ Cardinality({}) = 0
  BY FS_EmptySet
<1>6. RankingKnown
  BY <1>3 DEF RankingKnown, Programs
<1>7. SharedAgain
  BY <1>3 DEF SharedAgain
<1>8. \A x \in ShareKey : score[x] = 0
  BY DEF Init
<1>9. pc["sharefilesop"] \notin PvLabels \cup CancelLabels /\ pc["sharefiles"] \notin RankLabels
  BY <1>3 DEF PvLabels, CancelLabels, RankLabels, ShareListLabels, Programs
<1> QED
  BY <1>2, <1>3, <1>4, <1>5, <1>6, <1>7, <1>8, <1>9 DEF RankingInv

LEMMA NextRanking == SharesOnly /\ TypeOK /\ RankingInv /\ [Next]_vars => RankingInv'
<1> SUFFICES ASSUME SharesOnly, TypeOK, RankingInv, [Next]_vars PROVE RankingInv'
  OBVIOUS
<1>p. RanksNot
  BY DEF RankingInv, RanksNot
<1>i. "idle" \notin PvLabels \cup CancelLabels \cup RankLabels \cup Watched
  BY DEF PvLabels, CancelLabels, RankLabels, ShareListLabels, Watched
<1>1. CASE Request
  BY <1>1, RequestRanking
<1>2. CASE UploadStep
  BY <1>2, <1>p, UploadApart, ApartRanking DEF RanksNot
<1>3. CASE Md5Step
  BY <1>3, <1>p, Md5Apart, ApartRanking DEF RanksNot
<1>4. CASE FilesOpStep
  BY <1>4, FilesOpRanking
<1>5. CASE ShareOpStep
  <2>1. ~PvStep /\ ~CancelStep
    BY <1>p DEF RanksNot, PvLabels, CancelLabels,
                PvStep, PvSelect, PvUpdate, PvZexit, PvZincr, PvZadd, PvHset,
                CancelStep, CancelStatus, CancelSelectShares, CancelSetShares, CancelShare,
                CancelZrem, CancelHdel
  <2>2. SaveStep
    BY <1>5, <2>1 DEF ShareOpStep
  <2> QED
    BY <1>p, <2>2, SaveApart, ApartRanking DEF RanksNot
<1>6. CASE ShareListStep
  <2>1. ListCount \/ ListNormal
    BY <1>6, <1>p DEF RanksNot, RankLabels, ShareListLabels, ShareListStep, RankSelect,
                      RankZcard, RankDelZset, RankDelHash, RankRows, RankZadd, RankHset,
                      RankRange, RankHget, RankScore
  <2>2. UNCHANGED <<share_file_list, zset, score, user_file_list, user_file_count>>
    BY <2>1 DEF ListCount, ListNormal, mysql, redis
  <2>3. faults' = faults \/ faults' = faults + 1
    BY <2>1 DEF ListCount, ListNormal, ListFails, Fault, NoFault
  <2>4. \E c \in {"count", "files", "015"} : Finish("sharefiles", c)
    BY <2>1 DEF ListCount, ListNormal, ListFails
  <2>5. /\ pc'["filesop"] = pc["filesop"] /\ loc'["filesop"] = loc["filesop"]
        /\ reply'.code # "012" /\ pc'["sharefiles"] = "idle"
        /\ pc'["sharefilesop"] = pc["sharefilesop"]
    BY <2>4, ControlApart DEF Programs
  <2>6. RanksNot'
    BY <1>i, <1>p, <2>5 DEF RanksNot
  <2>7. Apart
    BY <2>2, <2>3, <2>5 DEF Apart, SharesKept, ListGrows, HasRow
  <2> QED
    BY <2>2, <2>6, <2>7, ApartRanking
<1>7. CASE \E p \in Programs : Crash(p)
  <2>1. PICK p \in Programs : Crash(p)
    BY <1>7
  <2>2. /\ UNCHANGED <<share_file_list, zset, score, user_file_list, user_file_count>>
        /\ faults' = faults + 1 /\ reply' = NoReply
        /\ pc'[p] = "idle" /\ \A q \in Programs : q # p => pc'[q] = pc[q] /\ loc'[q] = loc[q]
    BY <2>1 DEF Crash, mysql, redis, Fault, TypeOK, ControlTypeOK
  <2>3. RanksNot' /\ SharedAgain'
    BY <1>i, <1>p, <2>2 DEF RanksNot, SharedAgain, Programs
  <2>4. CASE p = "filesop"
    BY <1>i, <2>2, <2>3, <2>4, PlainStep
  <2>5. CASE p # "filesop"
    <3>1. Apart
      BY <2>2, <2>5 DEF Apart, SharesKept, ListGrows, HasRow, Programs
    <3> QED
      BY <2>2, <2>3, <3>1, ApartRanking
  <2> QED
    BY <2>4, <2>5
<1>8. CASE UNCHANGED vars
  <2>1. UNCHANGED <<share_file_list, zset, score, user_file_list, user_file_count, pc, loc,
                    reply, faults>>
    BY <1>8 DEF vars, mysql, redis
  <2>2. /\ Stale' = Stale /\ Members' = Members /\ \A y : Sharers(y)' = Sharers(y)
        /\ \A k : HasRow(share_file_list, k)' <=> HasRow(share_file_list, k)
    BY <2>1, SameRanking
  <2>3. Leaving' = Leaving /\ Entering' = Entering /\ me' = me
    BY <2>1 DEF Leaving, Entering, me
  <2>4. RanksNot' /\ SharedAgain'
    BY <1>p, <2>1, <2>2 DEF RanksNot, RankingInv, SharedAgain
  <2>5. HasRow(user_file_count, ShareUser)' <=> HasRow(user_file_count, ShareUser)
    BY <2>1 DEF HasRow
  <2>6. RankingKnown'
    BY <2>1, <2>2, <2>3, <2>5 DEF RankingInv, RankingKnown
  <2>7. Paid(Behind, Behind', me) /\ Paid(Uncounted, Uncounted', me)
    BY <2>1, <2>2, <2>3 DEF Paid, Behind, Uncounted
  <2>8. \A y \in ShareKey : score'[y] = 0
    BY <2>1 DEF RankingInv
  <2> QED
    BY <2>2, <2>4, <2>5, <2>6, <2>7, <2>8, RankingStep
<1> QED
  BY <1>1, <1>2, <1>3, <1>4, <1>5, <1>6, <1>7, <1>8 DEF Next, Done

\* Where share_file and del_file alone change the ranking, it is consistent with
\* share_file_list up to the failures, however the programs interleave.
THEOREM RankingCorrect ==
  ASSUME SharesOnly
  PROVE  Spec => []RankingInv
<1>1. TypeOK /\ RankingInv /\ [Next]_vars => RankingInv'
  BY NextRanking
<1> QED
  BY InitType, NextType, InitRanking, <1>1, PTL DEF Spec

\* A member of FILE_PUBLIC_ZSET that nobody shares has cost a failure of its own,
\* for any number of files: no interleaving leaves one behind.
THEOREM StaleMembersCost ==
  ASSUME SharesOnly
  PROVE  Spec => []StaleMembersBounded
<1>1. TypeOK /\ RankingInv => StaleMembersBounded
  <2> SUFFICES ASSUME TypeOK, RankingInv, pc["filesop"] = "idle"
               PROVE  Cardinality({x \in zset : \A k \in FileKey :
                                     MemberOf(k) = x => ~HasRow(share_file_list, k)})
                        <= faults
    BY DEF StaleMembersBounded
  <2>1. {x \in zset : \A k \in FileKey : MemberOf(k) = x => ~HasRow(share_file_list, k)}
          = Stale \ Leaving
    BY DEF Stale, Leaving, Sharers
  <2> QED
    BY <2>1 DEF RankingInv
<1> QED
  BY <1>1, TypeCorrect, RankingCorrect, PTL

\* When share_file answers 012 and nothing has failed, somebody shares the file
\* and it is in the ranking, whoever deletes or uploads the same file meanwhile.
THEOREM SharedAgainTrue ==
  ASSUME SharesOnly
  PROVE  Spec => []SharedAgain
<1>1. RankingInv => SharedAgain
  BY DEF RankingInv
<1> QED
  BY <1>1, RankingCorrect, PTL

------------------------------------------------------------------------------
(* No shared file is missing from the ranking *)

\* Where share_file has a row that redis lacks, and where the ranking that is
\* being built does.
SharingLabels == {"sh_selcount", "sh_count", "sh_zadd", "sh_hset"}
BuildingLabels == {"rk_delhash", "rk_rows", "rk_zadd", "rk_hset"}

\* The programs that take files out are not at work, and the number of shared
\* files that share_file inserts has no row yet.
NoneTakenOut ==
  /\ pc["filesop"] \notin DelLabels /\ pc["sharefilesop"] \notin CancelLabels
  /\ pc["filesop"] = "sh_count" /\ me.sql = "insert" => ~HasRow(user_file_count, ShareUser)

LEMMA SharedMemberFacts ==
  \A x : x \in SharedMembers <=> \E k \in FileKey : MemberOf(k) = x /\ HasRow(share_file_list, k)
<1>1. \A k \in FileKey : MemberOf(k) \in ShareKey
  BY DEF FileKey, ShareKey, MemberOf
<1> QED
  BY <1>1 DEF SharedMembers, Sharers

\* A step keeps the ranking complete if it takes nothing from redis, adds no row,
\* and leaves share_file and the building of the ranking alone where they have
\* something to add.
LEMMA CompleteKept ==
  ASSUME CompleteInv, \A k \in FileKey : HasRow(share_file_list, k)' => HasRow(share_file_list, k),
         zset \subseteq zset', hash \subseteq hash',
         \/ pc["filesop"] \notin SharingLabels
         \/ pc'["filesop"] = pc["filesop"] /\ loc'["filesop"].key = loc["filesop"].key,
         \/ pc["sharefiles"] \notin BuildingLabels
         \/ pc'["sharefiles"] = pc["sharefiles"] /\ loc'["sharefiles"] = loc["sharefiles"],
         NoneTakenOut'
  PROVE  CompleteInv'
<1> SUFFICES ASSUME NEW x, x \in SharedMembers' PROVE ToBeRanked(x)' /\ ToBeNamed(x)'
  BY DEF CompleteInv, NoneTakenOut
<1>1. ToBeRanked(x) /\ ToBeNamed(x)
  <2>1. x \in SharedMembers
    <3>1. PICK k \in FileKey : MemberOf(k) = x /\ HasRow(share_file_list, k)'
      BY DEF SharedMembers, Sharers
    <3> QED
      BY <3>1, SharedMemberFacts
  <2> QED
    BY <2>1 DEF CompleteInv
<1>2. \A labels \in SUBSET SharingLabels : Sharing(x, labels) => Sharing(x, labels)'
  BY DEF Sharing, me
<1>3. /\ pc["sharefiles"] \in BuildingLabels => pc'["sharefiles"] = pc["sharefiles"] /\ rk' = rk
      /\ Rebuilding(x) => Rebuilding(x)'
  BY DEF Rebuilding, rk, BuildingLabels
<1>4. /\ {"sh_selcount", "sh_count", "sh_zadd"} \in SUBSET SharingLabels
      /\ {"sh_selcount", "sh_count", "sh_zadd", "sh_hset"} \in SUBSET SharingLabels
  BY DEF SharingLabels
<1>5. ToBeRanked(x)'
  BY <1>1, <1>2, <1>3, <1>4 DEF ToBeRanked, BuildingLabels
<1>6. ToBeNamed(x)'
  BY <1>1, <1>2, <1>3, <1>4 DEF ToBeNamed, BuildingLabels
<1> QED
  BY <1>5, <1>6

\* Where nothing fails.
LEMMA NothingFails ==
  ASSUME OnlyAdds, TypeOK
  PROVE  ~Fault /\ \A p : ~Crash(p)
  BY DEF OnlyAdds, TypeOK, ControlTypeOK, Fault, Crash

\* A step of another program than cgi_filesop and cgi_sharefiles.
LEMMA OtherComplete ==
  ASSUME TypeOK, CompleteInv, NEW p \in Programs, p \notin {"filesop", "sharefiles"},
         (\E l, v : Goto(p, l, v)) \/ (\E c : Finish(p, c)),
         \A k \in FileKey : HasRow(share_file_list, k)' => HasRow(share_file_list, k),
         zset \subseteq zset', hash \subseteq hash',
         user_file_count'[ShareUser] = user_file_count[ShareUser],
         pc'["sharefilesop"] \notin CancelLabels
  PROVE  CompleteInv'
<1>1. /\ pc'["filesop"] = pc["filesop"] /\ loc'["filesop"] = loc["filesop"]
      /\ pc'["sharefiles"] = pc["sharefiles"] /\ loc'["sharefiles"] = loc["sharefiles"]
  BY GotoFacts, FinishFacts DEF TypeOK, Programs
<1>2. NoneTakenOut'
  BY <1>1 DEF NoneTakenOut, CompleteInv, HasRow, me
<1> QED
  BY <1>1, <1>2, CompleteKept

LEMMA ApartComplete ==
  ASSUME TypeOK, CompleteInv, UploadStep \/ Md5Step \/ SaveStep
  PROVE  CompleteInv'
<1>1. CASE UploadStep
  <2>1. UNCHANGED hash
    BY <1>1 DEF UploadStep, UploadRecv, UploadDstorage, UploadUrl, UploadInsertInfo,
                UploadInsertList, UploadSelectCount, UploadSetCount, SelectCountToAdd, redis
  <2>2. (\E l, v : Goto("upload", l, v)) \/ (\E c : Finish("upload", c))
    BY <1>1 DEF UploadStep, UploadRecv, UploadDstorage, UploadUrl, UploadInsertInfo,
                UploadInsertList, UploadSelectCount, UploadSetCount, SelectCountToAdd
  <2> QED
    BY <1>1, <2>1, <2>2, UploadApart, OtherComplete DEF Apart, SharesKept, Programs, CompleteInv
<1>2. CASE Md5Step
  <2>1. UNCHANGED hash
    BY <1>2 DEF Md5Step, Md5SelectInfo, Md5SelectList, Md5AddReference, Md5InsertList,
                Md5SelectCount, Md5SetCount, SelectCountToAdd, redis
  <2>2. (\E l, v : Goto("md5", l, v)) \/ (\E c : Finish("md5", c))
    BY <1>2 DEF Md5Step, Md5SelectInfo, Md5SelectList, Md5AddReference, Md5InsertList,
                Md5SelectCount, Md5SetCount, SelectCountToAdd
  <2> QED
    BY <1>2, <2>1, <2>2, Md5Apart, OtherComplete DEF Apart, SharesKept, Programs, CompleteInv
<1>3. CASE SaveStep
  <2>1. UNCHANGED hash
    BY <1>3 DEF SaveStep, SaveSelectList, SaveSelectReference, SaveAddReference, SaveInsertList,
                SaveSelectCount, SelectCountToAdd, SaveSetCount, redis
  <2>2. (\E l, v : Goto("sharefilesop", l, v)) \/ (\E c : Finish("sharefilesop", c))
    BY <1>3 DEF SaveStep, SaveSelectList, SaveSelectReference, SaveAddReference, SaveInsertList,
                SaveSelectCount, SelectCountToAdd, SaveSetCount, ShareOpFails
  <2> QED
    BY <1>3, <2>1, <2>2, SaveApart, OtherComplete DEF Apart, SharesKept, Programs
<1> QED
  BY <1>1, <1>2, <1>3

\* pv_file changes the number of downloads, and adds to redis.
LEMMA PvComplete ==
  ASSUME TypeOK, CompleteInv, PvStep
  PROVE  CompleteInv'
<1>1. UNCHANGED user_file_count /\ zset \subseteq zset' /\ hash \subseteq hash'
  BY DEF PvStep, PvSelect, PvUpdate, PvZexit, PvZincr, PvZadd, PvHset, mysql, redis, ZAdd
<1>2. (\E l, v : Goto("sharefilesop", l, v)) \/ (\E c : Finish("sharefilesop", c))
  BY DEF PvStep, PvSelect, PvUpdate, PvZexit, PvZincr, PvZadd, PvHset, ShareOpFails
<1> QED
  BY <1>1, <1>2, PvKeepsShares, OtherComplete DEF SharesKept, Programs

\* share_file writes its row, and then adds the file to both keys.
LEMMA ShareComplete ==
  ASSUME OnlyAdds, TypeOK, CompleteInv, ShareStep
  PROVE  CompleteInv'
<1>f. ~Fault
  BY NothingFails
<1>p. "filesop" \in Programs /\ ControlTypeOK
  BY DEF Programs, TypeOK
<1>o. /\ pc["filesop"] \in ShareLabels
      /\ pc'["sharefilesop"] = pc["sharefilesop"]
      /\ pc'["sharefiles"] = pc["sharefiles"] /\ loc'["sharefiles"] = loc["sharefiles"]
  <2>1. (\E l, v : Goto("filesop", l, v)) \/ (\E c : Finish("filesop", c))
    BY DEF ShareStep, ShareZexit, ShareSelect, ShareReadd, ShareStatus, ShareInsert,
           ShareSelectCount, SelectCountToAdd, ShareSetCount, ShareZadd, ShareHset, FilesOpFails
  <2>2. pc["filesop"] \in ShareLabels
    BY DEF ShareStep, ShareZexit, ShareSelect, ShareReadd, ShareStatus, ShareInsert,
           ShareSelectCount, SelectCountToAdd, ShareSetCount, ShareZadd, ShareHset, ShareLabels
  <2> QED
    BY <1>p, <2>1, <2>2, GotoFacts, FinishFacts DEF Programs
<1>k. me \in Locals /\ me.key \in FileKey
  BY <1>p, <1>o, AtWork DEF ShareLabels, me
<1>n. "idle" \notin DelLabels /\ \A l \in ShareLabels : l \notin DelLabels
  BY DEF DelLabels, ShareLabels
<1>1. CASE ShareZexit \/ ShareSelect \/ ShareStatus \/ ShareReadd
  <2>1. /\ pc["filesop"] \notin SharingLabels /\ UNCHANGED <<share_file_list, hash>>
        /\ zset \subseteq zset'
    BY <1>1 DEF ShareZexit, ShareSelect, ShareReadd, ShareStatus, mysql, redis, ZAdd,
                SharingLabels
  <2>2. \/ \E l \in {"sh_select", "sh_readd", "sh_status", "sh_insert"} : Goto("filesop", l, me)
        \/ \E c : Finish("filesop", c)
    BY <1>1 DEF ShareZexit, ShareSelect, ShareReadd, ShareStatus, FilesOpFails
  <2>3. pc'["filesop"] \in {"idle", "sh_select", "sh_readd", "sh_status", "sh_insert"}
    BY <1>p, <2>2, GotoFacts, FinishFacts
  <2>4. NoneTakenOut'
    BY <1>o, <2>3 DEF NoneTakenOut, CompleteInv, DelLabels
  <2> QED
    BY <1>o, <2>1, <2>4, CompleteKept DEF HasRow
<1>2. CASE ShareInsert
  <2>1. /\ Goto("filesop", "sh_selcount", me) /\ UNCHANGED redis /\ pc["filesop"] = "sh_insert"
        /\ share_file_list' = Insert(share_file_list, me.key, 0)
    BY <1>f, <1>2 DEF ShareInsert, FilesOpFails
  <2>2. pc'["filesop"] = "sh_selcount" /\ me' = me
    BY <1>p, <2>1, GotoFacts DEF me
  <2>3. NoneTakenOut'
    BY <1>o, <2>2 DEF NoneTakenOut, CompleteInv, DelLabels
  <2> SUFFICES ASSUME NEW x, x \in SharedMembers' PROVE ToBeRanked(x)' /\ ToBeNamed(x)'
    BY <2>3 DEF CompleteInv, NoneTakenOut
  <2>4. PICK k \in FileKey : MemberOf(k) = x /\ HasRow(share_file_list, k)'
    BY DEF SharedMembers, Sharers
  <2>5. CASE k = me.key
    BY <2>2, <2>4, <2>5 DEF ToBeRanked, ToBeNamed, Sharing
  <2>6. CASE k # me.key
    <3>1. HasRow(share_file_list, k)
      BY <1>k, <2>1, <2>4, <2>6 DEF Insert, HasRow, TypeOK, TablesTypeOK
    <3>2. ToBeRanked(x) /\ ToBeNamed(x)
      BY <2>4, <3>1, SharedMemberFacts DEF CompleteInv
    <3>3. UNCHANGED <<zset, hash>> /\ rk' = rk
      BY <1>o, <2>1 DEF redis, rk
    <3>4. ~Sharing(x, {"sh_selcount", "sh_count", "sh_zadd"})
          /\ ~Sharing(x, {"sh_selcount", "sh_count", "sh_zadd", "sh_hset"})
      BY <2>1 DEF Sharing
    <3>5. Rebuilding(x) => Rebuilding(x)'
      BY <1>o, <3>3 DEF Rebuilding
    <3>6. ToBeRanked(x)'
      BY <1>o, <3>2, <3>3, <3>4, <3>5 DEF ToBeRanked
    <3>7. ToBeNamed(x)'
      BY <1>o, <3>2, <3>3, <3>4, <3>5 DEF ToBeNamed
    <3> QED
      BY <3>6, <3>7
  <2> QED
    BY <2>5, <2>6
<1>3. CASE ShareSelectCount \/ ShareSetCount
  <2>1. /\ UNCHANGED <<share_file_list, zset, hash>>
        /\ pc["filesop"] \in {"sh_selcount", "sh_count"}
    BY <1>3 DEF ShareSelectCount, SelectCountToAdd, ShareSetCount, mysql, redis
  <2>2. /\ pc'["filesop"] \in {"sh_count", "sh_zadd"} /\ me'.key = me.key
        /\ NoneTakenOut'
    <3>1. CASE ShareSelectCount
      <4>1. /\ UNCHANGED user_file_count
            /\ \/ \E n : Goto("filesop", "sh_count", [me EXCEPT !.sql = "update", !.count = n])
               \/ /\ ~HasRow(user_file_count, ShareUser)
                  /\ Goto("filesop", "sh_count", [me EXCEPT !.sql = "insert"])
        BY <1>f, <3>1 DEF ShareSelectCount, SelectCountToAdd, mysql, me
      <4>2. /\ pc'["filesop"] = "sh_count" /\ me'.key = me.key
            /\ me'.sql = "insert" => ~HasRow(user_file_count, ShareUser)
        <5>1. CASE \E n : Goto("filesop", "sh_count", [me EXCEPT !.sql = "update", !.count = n])
          <6>1. PICK n : Goto("filesop", "sh_count", [me EXCEPT !.sql = "update", !.count = n])
            BY <5>1
          <6>2. pc'["filesop"] = "sh_count" /\ me' = [me EXCEPT !.sql = "update", !.count = n]
            BY <1>p, <6>1, GotoFacts DEF me
          <6>3. me'.key = me.key /\ me'.sql = "update"
            BY <1>k, <6>2 DEF Locals
          <6> QED
            BY <6>2, <6>3
        <5>2. CASE /\ ~HasRow(user_file_count, ShareUser)
                   /\ Goto("filesop", "sh_count", [me EXCEPT !.sql = "insert"])
          <6>1. pc'["filesop"] = "sh_count" /\ me' = [me EXCEPT !.sql = "insert"]
            BY <1>p, <5>2, GotoFacts DEF me
          <6>2. me'.key = me.key
            BY <1>k, <6>1 DEF Locals
          <6> QED
            BY <5>2, <6>1, <6>2
        <5> QED
          BY <4>1, <5>1, <5>2
      <4> QED
        BY <1>o, <4>1, <4>2 DEF NoneTakenOut, CompleteInv, DelLabels, HasRow
    <3>2. CASE ShareSetCount
      <4>1. ~CountRefused("filesop", ShareUser)
        BY <3>2 DEF ShareSetCount, CompleteInv, CountRefused, me
      <4>2. Goto("filesop", "sh_zadd", me)
        BY <1>f, <3>2, <4>1 DEF ShareSetCount
      <4>3. pc'["filesop"] = "sh_zadd" /\ me' = me
        BY <1>p, <4>2, GotoFacts DEF me
      <4> QED
        BY <1>o, <4>3 DEF NoneTakenOut, CompleteInv, DelLabels
    <3> QED
      BY <1>3, <3>1, <3>2
  <2> SUFFICES ASSUME NEW x, x \in SharedMembers' PROVE ToBeRanked(x)' /\ ToBeNamed(x)'
    BY <2>2 DEF CompleteInv, NoneTakenOut
  <2>3. PICK k \in FileKey : MemberOf(k) = x /\ HasRow(share_file_list, k)'
    BY DEF SharedMembers, Sharers
  <2>4. ToBeRanked(x) /\ ToBeNamed(x)
    BY <2>1, <2>3, SharedMemberFacts DEF CompleteInv, HasRow
  <2>5. rk' = rk /\ (Rebuilding(x) => Rebuilding(x)')
    BY <1>o DEF Rebuilding, rk
  <2>6. /\ Sharing(x, {"sh_selcount", "sh_count", "sh_zadd"})
             => Sharing(x, {"sh_selcount", "sh_count", "sh_zadd"})'
        /\ Sharing(x, {"sh_selcount", "sh_count", "sh_zadd", "sh_hset"})
             => Sharing(x, {"sh_selcount", "sh_count", "sh_zadd", "sh_hset"})'
    BY <2>2 DEF Sharing
  <2>7. ToBeRanked(x)'
    BY <1>o, <2>1, <2>4, <2>5, <2>6 DEF ToBeRanked
  <2>8. ToBeNamed(x)'
    BY <1>o, <2>1, <2>4, <2>5, <2>6 DEF ToBeNamed
  <2> QED
    BY <2>7, <2>8
<1>4. CASE ShareZadd \/ ShareHset
  <2>1. /\ UNCHANGED share_file_list /\ pc["filesop"] \in {"sh_zadd", "sh_hset"}
        /\ zset \subseteq zset' /\ hash \subseteq hash'
        /\ pc["filesop"] = "sh_zadd" =>
             Goto("filesop", "sh_hset", me) /\ MemberOf(me.key) \in zset'
        /\ pc["filesop"] = "sh_hset" =>
             Finish("filesop", "010") /\ MemberOf(me.key) \in hash'
    BY <1>f, <1>4 DEF ShareZadd, ShareHset, mysql, redis, ZAdd
  <2>2. /\ pc["filesop"] = "sh_zadd" => pc'["filesop"] = "sh_hset" /\ me' = me
        /\ pc["filesop"] = "sh_hset" => pc'["filesop"] = "idle"
    BY <1>p, <2>1, GotoFacts, FinishFacts DEF me
  <2>3. NoneTakenOut'
    BY <1>o, <2>1, <2>2 DEF NoneTakenOut, CompleteInv, DelLabels
  <2> SUFFICES ASSUME NEW x, x \in SharedMembers' PROVE ToBeRanked(x)' /\ ToBeNamed(x)'
    BY <2>3 DEF CompleteInv, NoneTakenOut
  <2>4. PICK k \in FileKey : MemberOf(k) = x /\ HasRow(share_file_list, k)'
    BY DEF SharedMembers, Sharers
  <2>5. ToBeRanked(x) /\ ToBeNamed(x)
    BY <2>1, <2>4, SharedMemberFacts DEF CompleteInv, HasRow
  <2>6. rk' = rk /\ (Rebuilding(x) => Rebuilding(x)')
    BY <1>o DEF Rebuilding, rk
  <2>7. ToBeRanked(x)'
    BY <1>o, <2>1, <2>5, <2>6 DEF ToBeRanked, Sharing
  <2>8. ToBeNamed(x)'
    BY <1>o, <2>1, <2>2, <2>5, <2>6 DEF ToBeNamed, Sharing
  <2> QED
    BY <2>7, <2>8
<1> QED
  BY <1>1, <1>2, <1>3, <1>4 DEF ShareStep

\* Every shared file is among the rows that the building of the ranking selects.
LEMMA SharedRowFacts ==
  ASSUME TypeOK, NEW x \in SharedMembers
  PROVE  \E r \in SharedRows : r.member = x
<1>1. PICK k \in FileKey : MemberOf(k) = x /\ HasRow(share_file_list, k)
  BY SharedMemberFacts
<1>2. share_file_list[k] \in Seq(Int) /\ 1 \in 1..Len(share_file_list[k])
  <2>1. share_file_list \in [FileKey -> Seq(Int)]
    BY DEF TypeOK, TablesTypeOK
  <2> QED
    BY <1>1, <2>1, FirstRowFacts
<1>3. PICK r : r = [member |-> MemberOf(k), pv |-> share_file_list[k][1]]
  OBVIOUS
<1>4. r \in SharedRows
  <2>1. r \in {[member |-> MemberOf(k), pv |-> share_file_list[k][i]] :
                 i \in 1..Len(share_file_list[k])}
    BY <1>2, <1>3
  <2> QED
    BY <2>1 DEF SharedRows
<1> QED
  BY <1>1, <1>3, <1>4

\* get_ranking_filelist deletes both keys before it selects the rows, and adds
\* all of them.
LEMMA RankComplete ==
  ASSUME OnlyAdds, TypeOK, CompleteInv, ShareListStep
  PROVE  CompleteInv'
<1>f. ~Fault
  BY NothingFails
<1>p. "sharefiles" \in Programs /\ ControlTypeOK
  BY DEF Programs, TypeOK
<1>o. /\ pc'["sharefilesop"] = pc["sharefilesop"] /\ UNCHANGED mysql
      /\ pc'["filesop"] = pc["filesop"] /\ loc'["filesop"] = loc["filesop"] /\ me' = me
  BY <1>p, ShareListFacts DEF Programs, me
<1>n. NoneTakenOut' /\ \A k : HasRow(share_file_list, k)' <=> HasRow(share_file_list, k)
  BY <1>o DEF NoneTakenOut, CompleteInv, HasRow, mysql
<1>s. \A x, labels : Sharing(x, labels)' <=> Sharing(x, labels)
  BY <1>o DEF Sharing
<1>k. rk \in Locals /\ rk.rows \in SUBSET ShareRow
  BY <1>p DEF ControlTypeOK, rk, Locals
<1>i. \A x : x \in SharedMembers' => x \in SharedMembers /\ ToBeRanked(x) /\ ToBeNamed(x)
  <2> SUFFICES ASSUME NEW x, x \in SharedMembers'
               PROVE  x \in SharedMembers /\ ToBeRanked(x) /\ ToBeNamed(x)
    OBVIOUS
  <2>1. PICK k \in FileKey : MemberOf(k) = x /\ HasRow(share_file_list, k)'
    BY DEF SharedMembers, Sharers
  <2> QED
    BY <1>n, <2>1, SharedMemberFacts DEF CompleteInv
<1>1. CASE \/ ListCount \/ ListNormal \/ RankSelect \/ RankZcard \/ RankRange \/ RankHget
           \/ RankScore
  <2>1. pc["sharefiles"] \notin BuildingLabels /\ UNCHANGED <<zset, hash>>
    BY <1>1 DEF ListCount, ListNormal, RankSelect, RankZcard, RankRange, RankHget, RankScore,
                BuildingLabels, redis
  <2> QED
    BY <1>n, <1>o, <2>1, CompleteKept
<1>2. CASE \/ RankDelZset \/ RankDelHash \/ RankRows \/ RankZadd \/ RankHset
  <2> SUFFICES ASSUME NEW x, x \in SharedMembers' PROVE ToBeRanked(x)' /\ ToBeNamed(x)'
    BY <1>n DEF CompleteInv, NoneTakenOut
  <2>b. x \in SharedMembers /\ ToBeRanked(x) /\ ToBeNamed(x)
    BY <1>i
  <2>1. CASE RankDelZset
    <3>1. pc["sharefiles"] = "rk_delzset" /\ Goto("sharefiles", "rk_delhash", rk) /\ UNCHANGED hash
      BY <2>1 DEF RankDelZset
    <3>2. pc'["sharefiles"] = "rk_delhash"
      BY <1>p, <3>1, GotoFacts
    <3> QED
      BY <1>s, <2>b, <3>1, <3>2 DEF ToBeRanked, ToBeNamed, Rebuilding
  <2>2. CASE RankDelHash
    <3>1. Goto("sharefiles", "rk_rows", rk)
      BY <2>2 DEF RankDelHash
    <3>2. pc'["sharefiles"] = "rk_rows"
      BY <1>p, <3>1, GotoFacts
    <3> QED
      BY <3>2 DEF ToBeRanked, ToBeNamed
  <2>3. CASE RankRows
    <3>1. PICK r \in SharedRows : r.member = x
      BY <2>b, SharedRowFacts
    <3>2. Goto("sharefiles", "rk_zadd", [rk EXCEPT !.rows = SharedRows])
      BY <1>f, <2>3, <3>1 DEF RankRows, ListFails
    <3>3. pc'["sharefiles"] = "rk_zadd" /\ rk' = [rk EXCEPT !.rows = SharedRows]
      BY <1>p, <3>2, GotoFacts DEF rk
    <3>4. rk'.rows = SharedRows
      BY <1>k, <3>3 DEF Locals
    <3>5. Rebuilding(x)'
      BY <3>1, <3>3, <3>4 DEF Rebuilding
    <3> QED
      BY <3>5 DEF ToBeRanked, ToBeNamed
  <2>4. CASE RankZadd
    <3>1. PICK r \in rk.rows : /\ zset' = zset \cup {r.member}
                               /\ Goto("sharefiles", "rk_hset", AtRow(r))
      BY <1>f, <2>4 DEF RankZadd, ZAdd
    <3>2. pc["sharefiles"] = "rk_zadd" /\ UNCHANGED hash
      BY <2>4 DEF RankZadd
    <3>3. pc'["sharefiles"] = "rk_hset" /\ rk' = AtRow(r)
      BY <1>p, <3>1, GotoFacts DEF rk
    <3>4. rk'.rows = rk.rows \ {r} /\ rk'.member = r.member
      BY <1>k, <3>3 DEF AtRow, Locals
    <3>5. Rebuilding(x) => Rebuilding(x)' \/ r.member = x
      BY <3>3, <3>4 DEF Rebuilding
    <3>6. ToBeRanked(x)'
      BY <1>s, <2>b, <3>1, <3>2, <3>5 DEF ToBeRanked
    <3>7. ToBeNamed(x)'
      BY <1>s, <2>b, <3>2, <3>3, <3>4, <3>5 DEF ToBeNamed
    <3> QED
      BY <3>6, <3>7
  <2>5. CASE RankHset
    <3>1. /\ pc["sharefiles"] = "rk_hset" /\ UNCHANGED zset /\ hash' = hash \cup {rk.member}
          /\ Goto("sharefiles", IF rk.rows = {} THEN "rk_range" ELSE "rk_zadd", rk)
      BY <1>f, <2>5 DEF RankHset
    <3>2. rk' = rk /\ (rk.rows # {} => pc'["sharefiles"] = "rk_zadd")
      BY <1>p, <3>1, GotoFacts DEF rk
    <3>3. Rebuilding(x) => Rebuilding(x)'
      BY <3>2 DEF Rebuilding
    <3>4. ToBeRanked(x)'
      BY <1>s, <2>b, <3>1, <3>3 DEF ToBeRanked
    <3>5. ToBeNamed(x)'
      BY <1>s, <2>b, <3>1, <3>3 DEF ToBeNamed
    <3> QED
      BY <3>4, <3>5
  <2> QED
    BY <1>2, <2>1, <2>2, <2>3, <2>4, <2>5
<1> QED
  BY <1>1, <1>2 DEF ShareListStep

\* A request for a file that is to be taken out is not sent.
LEMMA RequestComplete ==
  ASSUME OnlyAdds, TypeOK, CompleteInv, Request
  PROVE  CompleteInv'
<1> DEFINE First == {"up_recv", "md5_info", "sh_zexit", "pv_select", "sv_list", "ls_count",
                     "ls_normal", "rk_select"}
<1>1. UNCHANGED <<mysql, redis>>
  BY AcceptedRequest
<1>2. \E p \in Programs, l \in First : \E k : Accept(p, k, l)
  <2>1. \A k : ~DelAccept(k) /\ ~CancelAccept(k)
    BY DEF OnlyAdds, DelAccept, CancelAccept
  <2> QED
    BY <2>1 DEF Request, UploadAccept, Md5Accept, ShareAccept, PvAccept, SaveAccept, ListAccept,
                Programs
<1>3. PICK p \in Programs, l \in First : \E k : Accept(p, k, l)
  BY <1>2
<1>4. /\ pc[p] = "idle" /\ pc'[p] = l
      /\ \A q \in Programs : q # p => pc'[q] = pc[q] /\ loc'[q] = loc[q]
  <2>1. pc \in [Programs -> Labels] /\ loc \in [Programs -> Locals]
    BY DEF TypeOK, ControlTypeOK
  <2> QED
    BY <1>3, <2>1 DEF Accept
<1>5. \A j \in First : j \notin DelLabels /\ j \notin CancelLabels /\ j # "sh_count"
  BY DEF DelLabels, CancelLabels
<1>u. UNCHANGED <<user_file_count, share_file_list, zset, hash>>
  BY <1>1 DEF mysql, redis
<1> HIDE DEF First
<1>6. NoneTakenOut'
  BY <1>4, <1>5, <1>u DEF NoneTakenOut, CompleteInv, HasRow, me, Programs
<1>7. /\ \/ pc["filesop"] \notin SharingLabels
         \/ pc'["filesop"] = pc["filesop"] /\ loc'["filesop"].key = loc["filesop"].key
      /\ \/ pc["sharefiles"] \notin BuildingLabels
         \/ pc'["sharefiles"] = pc["sharefiles"] /\ loc'["sharefiles"] = loc["sharefiles"]
  BY <1>4 DEF SharingLabels, BuildingLabels, Programs
<1> QED
  BY <1>6, <1>7, <1>u, CompleteKept DEF HasRow

LEMMA NextComplete == OnlyAdds /\ TypeOK /\ CompleteInv /\ [Next]_vars => CompleteInv'
<1> SUFFICES ASSUME OnlyAdds, TypeOK, CompleteInv, [Next]_vars PROVE CompleteInv'
  OBVIOUS
<1>1. CASE Request
  BY <1>1, RequestComplete
<1>2. CASE UploadStep \/ Md5Step
  BY <1>2, ApartComplete
<1>3. CASE FilesOpStep
  <2>1. ~DelStep
    BY DEF CompleteInv, DelLabels, DelStep, DelZexit, DelStatus, DelShare, DelSelectShares,
           DelSetShares, DelZrem, DelHdel, DelSelectCount, DelSetCount, DelList,
           DelSelectReference, DelSetReference, DelSelectId, DelInfo, DelRemove
  <2> QED
    BY <1>3, <2>1, ShareComplete DEF FilesOpStep
<1>4. CASE ShareOpStep
  <2>1. ~CancelStep
    BY DEF CompleteInv, CancelLabels, CancelStep, CancelStatus, CancelSelectShares,
           CancelSetShares, CancelShare, CancelZrem, CancelHdel
  <2> QED
    BY <1>4, <2>1, PvComplete, ApartComplete DEF ShareOpStep
<1>5. CASE ShareListStep
  BY <1>5, RankComplete
<1>6. CASE \E p \in Programs : Crash(p)
  BY <1>6, NothingFails
<1>7. CASE UNCHANGED vars
  <2>1. UNCHANGED <<user_file_count, share_file_list, zset, hash, pc, loc>>
    BY <1>7 DEF vars, mysql, redis
  <2>2. NoneTakenOut'
    BY <2>1 DEF NoneTakenOut, CompleteInv, HasRow, me
  <2> QED
    BY <2>1, <2>2, CompleteKept DEF HasRow
<1> QED
  BY <1>1, <1>2, <1>3, <1>4, <1>5, <1>6, <1>7 DEF Next, Done

\* For any constants, where no file is taken out and nothing fails: however
\* share_file, pv_file, save_file and the building of the ranking interleave, no
\* shared file is missing from the ranking or has no name in it once cgi_filesop,
\* cgi_sharefilesop and cgi_sharefiles have ended.  A row that is inserted while
\* the ranking is being built is either selected or added by share_file after
\* the keys were deleted.
THEOREM RankingMissesNothing ==
  ASSUME OnlyAdds
  PROVE  Spec => []NothingMissing
<1>1. Init => CompleteInv
  <2> SUFFICES ASSUME Init PROVE CompleteInv
    OBVIOUS
  <2>1. \A k \in FileKey : ~HasRow(share_file_list, k)
    BY DEF Init, HasRow
  <2>2. \A x : x \notin SharedMembers
    BY <2>1, SharedMemberFacts
  <2> QED
    BY <2>2 DEF CompleteInv, Init, Programs, DelLabels, CancelLabels
<1>2. TypeOK /\ CompleteInv /\ [Next]_vars => CompleteInv'
  BY NextComplete
<1>3. CompleteInv => NothingMissing
  <2> SUFFICES ASSUME CompleteInv, Idle({"filesop", "sharefilesop", "sharefiles"}),
                      NEW x \in SharedMembers
               PROVE  x \in zset \cap hash
    BY DEF NothingMissing
  <2>1. pc["filesop"] = "idle" /\ pc["sharefiles"] = "idle"
    BY DEF Idle
  <2>2. ToBeRanked(x) /\ ToBeNamed(x)
    BY DEF CompleteInv
  <2> QED
    BY <2>1, <2>2 DEF ToBeRanked, ToBeNamed, Sharing, Rebuilding
<1> QED
  BY <1>1, <1>2, <1>3, TypeCorrect, PTL DEF Spec
=============================================================================
