--------------------------- MODULE ObjectLifeProofs ---------------------------
(***************************************************************************)
(* The programs implement ObjectLife: every step of theirs, whatever the   *)
(* interleaving and whatever fails, is a step in the life of the objects   *)
(* or changes nothing in it.  The proof rests on the invariants of         *)
(* FileStoreProofs.                                                        *)
(***************************************************************************)
EXTENDS FileStoreProofs

\* One object moves on and the others stay.
LEMMA LifeMove ==
  ASSUME NEW g \in FileIds, NEW a, NEW b, Phase(g) = a, Phase(g)' = b,
         \A f \in FileIds \ {g} : Phase(f)' = Phase(f)
  PROVE  Life!Move(g, a, b)
  BY DEF Life!Move, ObjectPhase

\* No object moves.
LEMMA LifeStays ==
  ASSUME UNCHANGED <<storage, content>>, 
         \A f \in FileIds : Linked(f)' <=> Linked(f),
         \A f \in FileIds : Pending(f)' <=> Pending(f)
  PROVE  UNCHANGED ObjectPhase
<1>1. \A f \in FileIds : Phase(f)' = Phase(f)
  BY DEF Phase
<1> QED
  BY <1>1 DEF ObjectPhase

LEMMA SameLinked ==
  ASSUME SameObjects
  PROVE  \A f : Linked(f)' <=> Linked(f)
  BY DEF Linked, SameObjects

LEMMA SamePending ==
  ASSUME pc'["upload"] = pc["upload"], loc'["upload"] = loc["upload"]
  PROVE  \A f : Pending(f)' <=> Pending(f)
  BY DEF Pending

\* A step of another program that leaves the rows with their objects.
LEMMA QuietLife ==
  ASSUME SameObjects, UNCHANGED <<storage, content>>,
         pc'["upload"] = pc["upload"], loc'["upload"] = loc["upload"]
  PROVE  UNCHANGED ObjectPhase
  BY SameLinked, SamePending, LifeStays

\* The object that cgi_upload holds is pending until its row is inserted.
LEMMA PendingPhase ==
  ASSUME TypeOK, ObjectInv, pc["upload"] \in {"up_url", "up_info"}
  PROVE  LET f == loc["upload"].fileid IN
         /\ f \in FileIds /\ f \in storage /\ content[f] # NoMd5
         /\ Pending(f) /\ ~Linked(f) /\ Phase(f) = "pending"
         /\ \A g : g # f => ~Pending(g)
<1>1. loc["upload"].fileid \in FileIds
  BY DEF TypeOK, ControlTypeOK
<1>2. /\ loc["upload"].fileid \in storage
      /\ ~Linked(loc["upload"].fileid)
  BY DEF ObjectInv, PendingUpload
<1>3. content[loc["upload"].fileid] # NoMd5
  BY <1>2 DEF ObjectInv, StorageHandedOut
<1> QED
  BY <1>1, <1>2, <1>3 DEF Pending, Phase

\* An upload that ends without a row leaves an orphan.
LEMMA AbandonLife ==
  ASSUME TypeOK, ObjectInv, UNCHANGED <<storage, content>>, SameObjects,
         pc'["upload"] \notin {"up_url", "up_info"}
  PROVE  [Life!Next]_ObjectPhase
<1>l. \A f : Linked(f)' <=> Linked(f)
  BY SameLinked
<1>n. \A f : ~Pending(f)'
  BY DEF Pending
<1>1. CASE pc["upload"] \in {"up_url", "up_info"}
  <2>1. PICK f \in FileIds :
          /\ f \in storage /\ content[f] # NoMd5 /\ ~Linked(f)
          /\ Phase(f) = "pending" /\ \A g : g # f => ~Pending(g)
    BY <1>1, PendingPhase
  <2>2. Phase(f)' = "orphan"
    BY <1>l, <1>n, <2>1 DEF Phase
  <2>3. \A g \in FileIds \ {f} : Phase(g)' = Phase(g)
    BY <1>l, <1>n, <2>1 DEF Phase
  <2>4. Life!Move(f, "pending", "orphan")
    BY <2>1, <2>2, <2>3, LifeMove
  <2> QED
    BY <2>1, <2>4 DEF Life!Next, Life!Abandon
<1>2. CASE pc["upload"] \notin {"up_url", "up_info"}
  <2>1. \A f : ~Pending(f)
    BY <1>2 DEF Pending
  <2> QED
    BY <1>l, <1>n, <2>1, LifeStays
<1> QED
  BY <1>1, <1>2

------------------------------------------------------------------------------
(* cgi_upload *)

\* FastDFS stores an object under a new id, and nothing else moves.
LEMMA StoreLife ==
  ASSUME TypeOK, ObjectInv, NEW f \in FileIds, DstorageStore(f), UNCHANGED file_info,
         loc["upload"].key.md5 \in Md5s, \A g \in FileIds : ~Pending(g),
         \A g \in FileIds \ {f} : ~Pending(g)'
  PROVE  /\ Pending(f)' => Life!Store(f)
         /\ ~Pending(f)' => Life!Lose(f)
<1>1. /\ content \in [FileIds -> Md5s \cup {NoMd5}] /\ content[f] = NoMd5
      /\ storage' = storage \cup {f}
      /\ content' = [content EXCEPT ![f] = loc["upload"].key.md5]
      /\ loc["upload"].key.md5 # NoMd5
  BY ConstantsAssumption DEF TypeOK, StoresTypeOK, DstorageStore
<1>2. \A g : Linked(g)' <=> Linked(g)
  BY UnchangedObjects, SameLinked
<1>3. ~Linked(f)
  BY <1>1, ConstantsAssumption DEF ObjectInv, FileInfoBacked, Linked
<1>4. Phase(f) = "free"
  BY <1>1 DEF Phase
<1>5. \A g \in FileIds \ {f} : Phase(g)' = Phase(g)
  BY <1>1, <1>2 DEF Phase
<1>6. f \in storage' /\ content'[f] # NoMd5
  BY <1>1
<1>7. ASSUME Pending(f)' PROVE Life!Store(f)
  <2>1. Phase(f)' = "pending"
    BY <1>6, <1>7 DEF Phase
  <2> QED
    BY <1>4, <1>5, <2>1, LifeMove DEF Life!Store
<1>8. ASSUME ~Pending(f)' PROVE Life!Lose(f)
  <2>1. Phase(f)' = "orphan"
    BY <1>2, <1>3, <1>6, <1>8 DEF Phase
  <2> QED
    BY <1>4, <1>5, <2>1, LifeMove DEF Life!Lose
<1> QED
  BY <1>7, <1>8

\* The row of a pending object is inserted.
LEMMA LinkLife ==
  ASSUME TypeOK, ObjectInv, pc["upload"] = "up_info", pc'["upload"] = "up_list",
         UNCHANGED <<storage, content>>, NEW m \in Md5s, NEW row \in FileRow,
         row.file_id = loc["upload"].fileid, file_info' = Insert(file_info, m, row)
  PROVE  Life!Next
<1>1. PICK f \in FileIds :
        /\ f = loc["upload"].fileid
        /\ f \in storage /\ content[f] # NoMd5 /\ ~Linked(f)
        /\ Phase(f) = "pending" /\ \A g : g # f => ~Pending(g)
  BY PendingPhase
<1>2. file_info \in [Md5s -> Seq(FileRow)]
  BY DEF TypeOK, TablesTypeOK
<1>3. /\ Linked(f)'
      /\ \A g : g # f => (Linked(g)' <=> Linked(g))
  <2>0. /\ file_info' \in [Md5s -> Seq(FileRow)]
        /\ \A n \in Md5s : n # m => file_info'[n] = file_info[n]
        /\ Len(file_info'[m]) = Len(file_info[m]) + 1
        /\ file_info'[m][Len(file_info[m]) + 1] = row
        /\ \A i \in 1..Len(file_info[m]) : file_info'[m][i] = file_info[m][i]
        /\ Len(file_info[m]) \in Nat
    BY <1>2, InsertFacts
  <2>1. Linked(f)'
    <3>1. Len(file_info[m]) + 1 \in 1..Len(file_info'[m])
      BY <2>0
    <3> QED
      BY <1>1, <2>0, <3>1 DEF Linked
  <2>2. ASSUME NEW g, g # f, Linked(g) PROVE Linked(g)'
    <3>0. PICK n \in Md5s : \E i \in 1..Len(file_info[n]) : file_info[n][i].file_id = g
      BY <2>2 DEF Linked
    <3>1. PICK i \in 1..Len(file_info[n]) : file_info[n][i].file_id = g
      BY <3>0
    <3>2. i \in 1..Len(file_info'[n]) /\ file_info'[n][i] = file_info[n][i]
      BY <2>0, <3>1
    <3> QED
      BY <3>1, <3>2 DEF Linked
  <2>3. ASSUME NEW g, g # f, Linked(g)' PROVE Linked(g)
    <3>0. PICK n \in Md5s : \E i \in 1..Len(file_info'[n]) : file_info'[n][i].file_id = g
      BY <2>3 DEF Linked
    <3>1. PICK i \in 1..Len(file_info'[n]) : file_info'[n][i].file_id = g
      BY <3>0
    <3>2. i \in 1..Len(file_info[n]) /\ file_info'[n][i] = file_info[n][i]
      BY <1>1, <2>0, <2>3, <3>1
    <3> QED
      BY <3>1, <3>2 DEF Linked
  <2> QED
    BY <2>1, <2>2, <2>3
<1>4. \A g : ~Pending(g)'
  BY DEF Pending
<1>5. Phase(f)' = "linked"
  BY <1>1, <1>3, <1>4 DEF Phase
<1>6. \A g \in FileIds \ {f} : Phase(g)' = Phase(g)
  BY <1>1, <1>3, <1>4 DEF Phase
<1> QED
  BY <1>1, <1>5, <1>6, LifeMove DEF Life!Next, Life!Link

LEMMA UploadLife ==
  ASSUME TypeOK, ObjectInv, UploadStep
  PROVE  [Life!Next]_ObjectPhase
<1>p. "upload" \in Programs /\ ControlTypeOK
  BY DEF Programs, TypeOK
<1>w. ASSUME pc["upload"] # "idle"
      PROVE  loc["upload"] \in Locals /\ loc["upload"].key.md5 \in Md5s
  BY <1>p, <1>w, AtWork
<1>b. Blank.fileid = NoFile
  BY DEF Blank
<1>g. ASSUME NEW l, NEW v, Goto("upload", l, v)
      PROVE  pc'["upload"] = l /\ loc'["upload"] = v
  BY <1>p, <1>g, GotoFacts
<1>f. ASSUME NEW c, Finish("upload", c)
      PROVE  pc'["upload"] = "idle" /\ loc'["upload"] = Blank
  BY <1>p, <1>f, FinishFacts
<1>a. ASSUME UNCHANGED <<file_info, storage, content>>,
             pc'["upload"] \notin {"up_url", "up_info"}
      PROVE  [Life!Next]_ObjectPhase
  BY <1>a, UnchangedObjects, AbandonLife
<1>1. CASE UploadRecv
  <2>1. pc'["upload"] \in {"up_dstorage", "idle"}
    BY <1>1, <1>g, <1>f DEF UploadRecv
  <2> QED
    BY <1>1, <1>a, <2>1 DEF UploadRecv, mysql
<1>2. CASE UploadDstorage
  <2>0. /\ loc["upload"] \in Locals /\ loc["upload"].key.md5 \in Md5s
        /\ UNCHANGED file_info /\ loc["upload"].fileid = NoFile
        /\ \A g \in FileIds : ~Pending(g)
    BY <1>2, <1>w DEF UploadDstorage, mysql, ObjectInv, PendingUpload, Pending
  <2>1. ASSUME NEW f \in FileIds, DstorageStore(f),
               Goto("upload", "up_url", [loc["upload"] EXCEPT !.fileid = f])
        PROVE  Life!Next
    <3>1. /\ pc'["upload"] = "up_url"
          /\ loc'["upload"] = [loc["upload"] EXCEPT !.fileid = f]
      BY <1>g, <2>1
    <3>2. loc'["upload"].fileid = f
      BY <2>0, <3>1 DEF Locals
    <3>3. Pending(f)' /\ \A g \in FileIds \ {f} : ~Pending(g)'
      BY <3>1, <3>2 DEF Pending
    <3>4. Life!Store(f)
      BY <2>0, <2>1, <3>3, StoreLife
    <3> QED
      BY <3>4 DEF Life!Next
  <2>2. ASSUME NEW f \in FileIds, DstorageStore(f), Finish("upload", "009")
        PROVE  Life!Next
    <3>1. \A g \in FileIds : ~Pending(g)'
      BY <1>f, <2>2 DEF Pending
    <3>2. Life!Lose(f)
      BY <2>0, <2>2, <3>1, StoreLife
    <3> QED
      BY <3>2 DEF Life!Next
  <2>3. ASSUME UNCHANGED <<storage, content>>, Finish("upload", "009")
        PROVE  [Life!Next]_ObjectPhase
    BY <1>a, <1>f, <2>0, <2>3
  <2> QED
    BY <1>2, <2>0, <2>1, <2>2, <2>3 DEF UploadDstorage
<1>3. CASE UploadUrl
  <2>0. UNCHANGED <<file_info, storage, content>> /\ pc["upload"] = "up_url"
        /\ loc["upload"] \in Locals
    BY <1>3, <1>w DEF UploadUrl, mysql, fdfs
  <2>1. CASE Goto("upload", "up_info",
                  [loc["upload"] EXCEPT !.url = Append(@, loc["upload"].fileid)])
    <3>1. /\ pc'["upload"] = "up_info"
          /\ loc'["upload"].fileid = loc["upload"].fileid
      BY <1>g, <2>0, <2>1 DEF Locals
    <3>2. \A f \in FileIds : Pending(f)' <=> Pending(f)
      BY <2>0, <3>1 DEF Pending
    <3> QED
      BY <2>0, <3>2, UnchangedObjects, SameLinked, LifeStays
  <2>2. CASE Finish("upload", "009")
    BY <1>a, <1>f, <2>0, <2>2
  <2> QED
    BY <1>3, <2>1, <2>2 DEF UploadUrl
<1>4. CASE UploadInsertInfo
  <2> DEFINE up == loc["upload"]
             row(size) == [file_id |-> up.fileid, url |-> up.url,
                           size |-> size, count |-> 1]
  <2>0. /\ pc["upload"] = "up_info" /\ up \in Locals /\ up.key.md5 \in Md5s
        /\ up.fileid \in FileIds /\ UNCHANGED <<storage, content>>
    BY <1>4, <1>w DEF UploadInsertInfo, fdfs, TypeOK, ControlTypeOK
  <2>1. ASSUME NEW size \in Sizes, Goto("upload", "up_list", up),
               file_info' = Insert(file_info, up.key.md5, row(size))
        PROVE  Life!Next
    <3>1. row(size) \in FileRow /\ row(size).file_id = up.fileid
      BY <2>0 DEF Locals, FileRow
    <3>2. pc'["upload"] = "up_list"
      BY <1>g, <2>1
    <3> HIDE DEF row
    <3> QED
      BY <2>0, <2>1, <3>1, <3>2, LinkLife
  <2>2. ASSUME Finish("upload", "009"), UNCHANGED file_info
        PROVE  [Life!Next]_ObjectPhase
    BY <1>a, <1>f, <2>0, <2>2
  <2> QED
    BY <1>4, <2>1, <2>2 DEF UploadInsertInfo
<1>5. CASE UploadInsertList
  <2>1. pc'["upload"] \in {"up_selcount", "idle"}
    BY <1>5, <1>g, <1>f DEF UploadInsertList
  <2> QED
    BY <1>5, <1>a, <2>1 DEF UploadInsertList, fdfs
<1>6. CASE UploadSelectCount
  <2>1. pc'["upload"] = "up_count"
    BY <1>6, <1>g DEF UploadSelectCount, SelectCountToAdd
  <2> QED
    BY <1>6, <1>a, <2>1 DEF UploadSelectCount, SelectCountToAdd, mysql, fdfs
<1>7. CASE UploadSetCount
  <2>1. pc'["upload"] = "idle"
    BY <1>7, <1>f DEF UploadSetCount
  <2> QED
    BY <1>7, <1>a, <2>1 DEF UploadSetCount, fdfs
<1> QED
  BY <1>1, <1>2, <1>3, <1>4, <1>5, <1>6, <1>7 DEF UploadStep

------------------------------------------------------------------------------
(* cgi_filesop *)

\* The rows of a content are deleted: their objects become orphans.
LEMMA UnlinkLife ==
  ASSUME TypeOK, ObjectInv, NEW m \in Md5s, file_info' = DeleteWhere(file_info, m),
         UNCHANGED <<storage, content>>,
         pc'["upload"] = pc["upload"], loc'["upload"] = loc["upload"]
  PROVE  Life!Next
<1> DEFINE F == {f \in FileIds : Linked(f) /\ ~Linked(f)' /\ ~Pending(f)}
<1>1. file_info \in [Md5s -> Seq(FileRow)]
  BY DEF TypeOK, TablesTypeOK
<1>2. /\ Len(file_info'[m]) = 0
      /\ \A n \in Md5s : n # m => file_info'[n] = file_info[n]
  BY <1>1, DeleteFacts
<1>3. \A f : Linked(f)' => Linked(f)
  BY <1>2 DEF Linked
<1>4. \A f : Pending(f)' <=> Pending(f)
  BY SamePending
<1>5. \A f : Linked(f) => f \in storage /\ content[f] # NoMd5
  BY ConstantsAssumption DEF Linked, ObjectInv, FileInfoBacked
<1>6. \A f \in F : Phase(f) = "linked" /\ Phase(f)' = "orphan"
  BY <1>4, <1>5 DEF Phase
<1>7. \A f \in FileIds \ F : Phase(f)' = Phase(f)
  BY <1>3, <1>4 DEF Phase
<1>8. F \in SUBSET FileIds
  OBVIOUS
<1> HIDE DEF F
<1>9. Life!Unlink(F)
  BY <1>6, <1>7, <1>8 DEF Life!Unlink, ObjectPhase
<1> QED
  BY <1>8, <1>9 DEF Life!Next

\* fdfs_delete_file takes an orphan.
LEMMA RemoveLife ==
  ASSUME TypeOK, ObjectInv, NEW f \in FileIds, f \in storage, ~Linked(f), ~Pending(f),
         storage' = storage \ {f}, UNCHANGED <<file_info, content>>,
         pc'["upload"] = pc["upload"], loc'["upload"] = loc["upload"]
  PROVE  Life!Next
<1>1. content[f] # NoMd5
  BY DEF ObjectInv, StorageHandedOut
<1>2. Phase(f) = "orphan" /\ Phase(f)' = "removed"
  BY <1>1 DEF Phase
<1>3. \A g \in FileIds \ {f} : Phase(g)' = Phase(g)
  BY UnchangedObjects, SameLinked, SamePending DEF Phase
<1> QED
  BY <1>2, <1>3, LifeMove DEF Life!Next, Life!Remove

LEMMA FilesOpLife ==
  ASSUME TypeOK, ObjectInv, FilesOpStep
  PROVE  [Life!Next]_ObjectPhase
<1> DEFINE v == loc["filesop"]
           Alone == pc'["upload"] = pc["upload"] /\ loc'["upload"] = loc["upload"]
<1>p. /\ "upload" \in Programs /\ "filesop" \in Programs /\ ControlTypeOK
      /\ file_info \in [Md5s -> Seq(FileRow)] /\ me = v
  BY DEF Programs, TypeOK, TablesTypeOK, me
<1>w. pc["filesop"] # "idle" => v.key.md5 \in Md5s /\ v.count \in Int
  BY <1>p, AtWork
<1>g. ASSUME NEW l, NEW x, Goto("filesop", l, x) PROVE Alone
  BY <1>g, <1>p, GotoFacts
<1>f. ASSUME NEW c, Finish("filesop", c) PROVE Alone
  BY <1>f, <1>p, FinishFacts
<1> HIDE DEF Alone
<1>q. ASSUME Alone, SameObjects, UNCHANGED <<storage, content>>
      PROVE  UNCHANGED ObjectPhase
  BY <1>q, QuietLife DEF Alone
<1>u. ASSUME Alone, UNCHANGED <<file_info, storage, content>>
      PROVE  UNCHANGED ObjectPhase
  BY <1>u, <1>q, UnchangedObjects
<1>1. CASE DelZexit \/ DelStatus \/ DelShare \/ DelSelectShares
  <2>1. Alone
    BY <1>1, <1>g, <1>f DEF DelZexit, DelStatus, DelShare, DelSelectShares, FilesOpFails
  <2> QED
    BY <1>1, <1>u, <2>1
       DEF DelZexit, DelStatus, DelShare, DelSelectShares, mysql, fdfs
<1>2. CASE DelSetShares \/ DelZrem \/ DelHdel \/ DelSelectCount
  <2>1. Alone
    BY <1>2, <1>g, <1>f DEF DelSetShares, DelZrem, DelHdel, DelSelectCount, FilesOpFails
  <2> QED
    BY <1>2, <1>u, <2>1
       DEF DelSetShares, DelZrem, DelHdel, DelSelectCount, mysql, fdfs
<1>3. CASE DelSetCount \/ DelList \/ DelSelectReference \/ DelSelectId
  <2>1. Alone
    BY <1>3, <1>g, <1>f DEF DelSetCount, DelList, DelSelectReference, DelSelectId,
                            FilesOpFails
  <2> QED
    BY <1>3, <1>u, <2>1
       DEF DelSetCount, DelList, DelSelectReference, DelSelectId, mysql, fdfs
<1>4. CASE DelSetReference
  <2>1. Alone
    BY <1>4, <1>g, <1>f DEF DelSetReference, FilesOpFails
  <2>2. CASE UNCHANGED file_info
    BY <1>4, <1>u, <2>1, <2>2 DEF DelSetReference, fdfs
  <2>3. CASE file_info' = UpdateCountWhere(file_info, v.key.md5, v.count)
    <3>1. v.key.md5 \in Md5s /\ v.count \in Int
      BY <1>4, <1>w DEF DelSetReference
    <3>2. SameObjects
      BY <1>p, <2>3, <3>1, UpdatedRows
    <3> QED
      BY <1>4, <1>q, <2>1, <3>2 DEF DelSetReference, fdfs
  <2> QED
    BY <1>4, <1>p, <2>2, <2>3 DEF DelSetReference
<1>5. CASE DelInfo
  <2>1. Alone
    BY <1>5, <1>g, <1>f DEF DelInfo, FilesOpFails
  <2>2. CASE UNCHANGED file_info
    BY <1>5, <1>u, <2>1, <2>2 DEF DelInfo, fdfs
  <2>3. CASE file_info' = DeleteWhere(file_info, v.key.md5)
    <3>1. v.key.md5 \in Md5s /\ UNCHANGED <<storage, content>>
      BY <1>5, <1>w DEF DelInfo, fdfs
    <3> QED
      BY <2>1, <2>3, <3>1, UnlinkLife DEF Alone
  <2> QED
    BY <1>5, <1>p, <2>2, <2>3 DEF DelInfo
<1>6. CASE DelRemove
  <2>1. Alone /\ UNCHANGED <<file_info, content>>
    BY <1>6, <1>f DEF DelRemove, mysql
  <2>2. CASE UNCHANGED storage
    BY <1>u, <2>1, <2>2
  <2>3. CASE v.fileid \in storage /\ storage' = storage \ {v.fileid}
    <3>1. v.fileid \in FileIds /\ ~Linked(v.fileid) /\ ~Pending(v.fileid)
      BY <1>6, <1>p DEF DelRemove, ObjectInv, PendingRemove, Pending
    <3> QED
      BY <2>1, <2>3, <3>1, RemoveLife DEF Alone
  <2> QED
    BY <1>6, <1>p, <2>2, <2>3 DEF DelRemove
<1>7. CASE ShareStep
  <2>1. Alone
    <3>1. CASE ShareZexit \/ ShareSelect \/ ShareReadd \/ ShareStatus
      BY <3>1, <1>g, <1>f DEF ShareZexit, ShareSelect, ShareReadd, ShareStatus, FilesOpFails
    <3>2. CASE ShareInsert \/ ShareSelectCount
      BY <3>2, <1>g, <1>f DEF ShareInsert, ShareSelectCount, SelectCountToAdd, FilesOpFails
    <3>3. CASE ShareSetCount \/ ShareZadd \/ ShareHset
      BY <3>3, <1>g, <1>f DEF ShareSetCount, ShareZadd, ShareHset
    <3> QED
      BY <1>7, <3>1, <3>2, <3>3 DEF ShareStep
  <2>2. UNCHANGED <<file_info, storage, content>>
    BY <1>7 DEF ShareStep, ShareZexit, ShareSelect, ShareReadd, ShareStatus, ShareInsert,
                ShareSelectCount, SelectCountToAdd, ShareSetCount, ShareZadd, ShareHset,
                mysql, fdfs
  <2> QED
    BY <1>u, <2>1, <2>2
<1> QED
  BY <1>1, <1>2, <1>3, <1>4, <1>5, <1>6, <1>7 DEF FilesOpStep, DelStep

------------------------------------------------------------------------------
(* The refinement *)

LEMMA InitLife == Init => Life!Init
<1>1. Init => \A f \in FileIds : Phase(f) = "free"
  BY DEF Init, Phase
<1> QED
  BY <1>1 DEF Life!Init, ObjectPhase

LEMMA NextLife == TypeOK /\ ObjectInv /\ [Next]_vars => [Life!Next]_ObjectPhase
<1> SUFFICES ASSUME TypeOK, ObjectInv, [Next]_vars PROVE [Life!Next]_ObjectPhase
  OBVIOUS
<1>p. "upload" \in Programs /\ ControlTypeOK
  BY DEF Programs, TypeOK
<1>1. CASE Request
  <2>1. UNCHANGED <<file_info, storage, content>>
    BY <1>1, AcceptedRequest DEF mysql, fdfs
  <2>2. PICK p \in Programs, k \in FileKey \cup {NoKey} :
          \E l \in LabelsOf(p) : Accept(p, k, l) /\ l \in
                 {"up_recv", "md5_info", "del_zexit", "sh_zexit", "pv_select", "ca_status",
                  "sv_list", "ls_count", "ls_normal", "rk_select"}
    BY <1>1, AcceptedRequest
  <2>3. CASE p = "upload"
    <3>1. pc'["upload"] \notin {"up_url", "up_info"}
      BY <1>p, <2>2, <2>3 DEF Accept, ControlTypeOK
    <3> QED
      BY <2>1, <3>1, UnchangedObjects, AbandonLife
  <2>4. CASE p # "upload"
    <3>1. pc'["upload"] = pc["upload"] /\ loc'["upload"] = loc["upload"]
      BY <1>p, <2>2, <2>4 DEF Accept, ControlTypeOK
    <3> QED
      BY <2>1, <3>1, UnchangedObjects, QuietLife
  <2> QED
    BY <2>3, <2>4
<1>2. CASE UploadStep
  BY <1>2, UploadLife
<1>3. CASE Md5Step
  BY <1>3, Md5Frame, QuietLife
<1>4. CASE FilesOpStep
  BY <1>4, FilesOpLife
<1>5. CASE ShareOpStep
  BY <1>5, ShareOpFrame, QuietLife
<1>6. CASE ShareListStep
  <2>1. /\ pc'["upload"] = pc["upload"] /\ loc'["upload"] = loc["upload"]
        /\ UNCHANGED <<file_info, storage, content>>
    BY <1>6, ShareListFacts DEF TypeOK, Programs, mysql, fdfs
  <2> QED
    BY <2>1, UnchangedObjects, QuietLife
<1>7. CASE \E p \in Programs : Crash(p)
  <2>1. PICK p \in Programs : Crash(p)
    BY <1>7
  <2>2. UNCHANGED <<file_info, storage, content>>
    BY <2>1 DEF Crash, mysql, fdfs
  <2>3. CASE p = "upload"
    <3>1. pc'["upload"] = "idle"
      BY <1>p, <2>1, <2>3 DEF Crash, ControlTypeOK
    <3> QED
      BY <2>2, <3>1, UnchangedObjects, AbandonLife
  <2>4. CASE p # "upload"
    <3>1. pc'["upload"] = pc["upload"] /\ loc'["upload"] = loc["upload"]
      BY <1>p, <2>1, <2>4 DEF Crash, ControlTypeOK
    <3> QED
      BY <2>2, <3>1, UnchangedObjects, QuietLife
  <2> QED
    BY <2>3, <2>4
<1>8. CASE UNCHANGED vars
  <2>1. UNCHANGED <<file_info, storage, content, pc, loc>>
    BY <1>8 DEF vars, mysql, fdfs
  <2> QED
    BY <2>1, UnchangedObjects, QuietLife
<1> QED
  BY <1>1, <1>2, <1>3, <1>4, <1>5, <1>6, <1>7, <1>8 DEF Next, Done

\* The programs implement ObjectLife: for any number of users, contents and
\* requests, with or without keys in the schema, under every interleaving,
\* failure and kill, an object is stored once, linked once, removed only when
\* no row names it and no upload is about to, and never comes back.
THEOREM ObjectsImplement == Spec => ObjectsLive
<1>1. Spec => []TypeOK
  BY TypeCorrect
<1>2. Spec => []ObjectInv
  BY ObjectsCorrect
<1> QED
  BY <1>1, <1>2, InitLife, NextLife, PTL DEF Spec, ObjectsLive, Life!Spec
=============================================================================
