------------------------------ MODULE FileStore ------------------------------
(***************************************************************************)
(* The core of CloudDisk: the programs that change files and shared files  *)
(* at work at the same time on the tables, the redis keys and the object   *)
(* storage.                                                                *)
(* Any call may fail, and any program may be killed between two calls.     *)
(***************************************************************************)
EXTENDS Upload, Md5, FilesOp, ShareOp, ShareList

Accounts == Users \cup {ShareUser}

\* An empty installation: no test data or schema comes with the repository.
Init ==
  /\ file_info = [m \in Md5s |-> <<>>]
  /\ user_file_list = [k \in FileKey |-> <<>>]
  /\ user_file_count = [a \in Accounts |-> <<>>]
  /\ share_file_list = [k \in FileKey |-> <<>>]
  /\ zset = {}
  /\ score = [x \in ShareKey |-> 0]
  /\ hash = {}
  /\ storage = {}
  /\ content = [f \in FileIds |-> NoMd5]
  /\ tmpfiles = {}
  /\ pc = [p \in Programs |-> "idle"]
  /\ loc = [p \in Programs |-> Blank]
  /\ reply = NoReply
  /\ served = 0
  /\ faults = 0

Request ==
  \/ \E k \in FileKey :
       \/ UploadAccept(k) \/ Md5Accept(k)
       \/ DelAccept(k) \/ ShareAccept(k)
       \/ PvAccept(k) \/ CancelAccept(k) \/ SaveAccept(k)
  \/ ListAccept("count", "ls_count")
  \/ ListAccept("normal", "ls_normal")
  \/ ListAccept("pvdesc", "rk_select")

FilesOpStep == DelStep \/ ShareStep

\* MaxRequests have been served and every program waits in FCGI_Accept.
Done ==
  /\ served = MaxRequests
  /\ \A p \in Programs : pc[p] = "idle"
  /\ UNCHANGED vars

Next ==
  \/ Request
  \/ UploadStep
  \/ Md5Step
  \/ FilesOpStep
  \/ ShareOpStep
  \/ ShareListStep
  \/ \E p \in Programs : Crash(p)
  \/ Done

Spec == Init /\ [][Next]_vars

\* A program that has a request goes on with it: nothing in the handlers
\* waits for another program, and the calls return or fail.
Fairness ==
  /\ WF_vars(UploadStep)
  /\ WF_vars(Md5Step)
  /\ WF_vars(FilesOpStep)
  /\ WF_vars(ShareOpStep)
  /\ WF_vars(ShareListStep)

FairSpec == Spec /\ Fairness

------------------------------------------------------------------------------
(* Type invariant *)

UploadLabels == {"up_recv", "up_dstorage", "up_url", "up_info", "up_list",
                 "up_selcount", "up_count"}
Md5Labels == {"md5_info", "md5_list", "md5_addref", "md5_inslist",
              "md5_selcount", "md5_count"}
DelLabels == {"del_zexit", "del_status", "del_share", "del_selshares",
              "del_shares", "del_zrem", "del_hdel", "del_selcount", "del_count",
              "del_list", "del_selref", "del_ref", "del_selid", "del_info",
              "del_remove"}
ShareLabels == {"sh_zexit", "sh_select", "sh_readd", "sh_status", "sh_insert",
                "sh_selcount", "sh_count", "sh_zadd", "sh_hset"}
ShareOpLabels == {"pv_select", "pv_update", "pv_zexit", "pv_zincr", "pv_zadd",
                  "pv_hset", "ca_status", "ca_selshares", "ca_shares", "ca_share",
                  "ca_zrem", "ca_hdel", "sv_list", "sv_selref", "sv_ref",
                  "sv_inslist", "sv_selcount", "sv_count"}
ShareListLabels == {"ls_count", "ls_normal", "rk_select", "rk_zcard", "rk_delzset",
                    "rk_delhash", "rk_rows", "rk_zadd", "rk_hset", "rk_range",
                    "rk_hget", "rk_score"}
Labels == {"idle"} \cup UploadLabels \cup Md5Labels \cup DelLabels \cup ShareLabels
            \cup ShareOpLabels \cup ShareListLabels
LabelsOf(p) ==
  CASE p = "upload" -> UploadLabels
    [] p = "md5" -> Md5Labels
    [] p = "filesop" -> DelLabels \cup ShareLabels
    [] p = "sharefilesop" -> ShareOpLabels
    [] p = "sharefiles" -> ShareListLabels

TablesTypeOK ==
  /\ file_info \in [Md5s -> Seq(FileRow)]
  /\ user_file_list \in [FileKey -> Seq({0, 1})]
  /\ user_file_count \in [Accounts -> Seq(Int)]
  /\ share_file_list \in [FileKey -> Seq(Int)]

StoresTypeOK ==
  /\ zset \subseteq ShareKey
  /\ score \in [ShareKey -> Int]
  /\ hash \subseteq ShareKey
  /\ storage \subseteq FileIds
  /\ content \in [FileIds -> Md5s \cup {NoMd5}]
  /\ tmpfiles \subseteq Names

ControlTypeOK ==
  /\ pc \in [Programs -> Labels]
  /\ \A p \in Programs : pc[p] \in {"idle"} \cup LabelsOf(p)
  /\ loc \in [Programs -> Locals]
  /\ \A p \in Programs \ {"sharefiles"} : pc[p] # "idle" => loc[p].key \in FileKey
  /\ pc["upload"] \in {"up_url", "up_info"} => loc["upload"].fileid \in FileIds
  /\ pc["sharefiles"] = "rk_hset" => loc["sharefiles"].member \in ShareKey
  /\ served \in 0..MaxRequests
  /\ faults \in 0..MaxFaults

\* Every row, redis member, buffer and program counter has its type, a program
\* at work knows which file its request is about, cgi_upload goes on from
\* upload_to_dstorage only with the id of an object, and cgi_sharefiles sets a
\* field of the hash only after it has added its member.
TypeOK == TablesTypeOK /\ StoresTypeOK /\ ControlTypeOK

------------------------------------------------------------------------------
(* What holds however the programs interleave, fail and are killed *)

\* A recorded content can be fetched: the object of every row of file_info is
\* in FastDFS and was stored from an upload with the row's md5.  del_file
\* deletes the row before it removes the object, and cgi_upload stores the
\* object before it inserts the row.
FileInfoBacked ==
  \A m \in Md5s : \A i \in 1..Len(file_info[m]) :
    /\ file_info[m][i].file_id \in storage
    /\ content[file_info[m][i].file_id] = m

\* No two rows of file_info name the same object, so removing the object of a
\* deleted row takes it from nobody else.
ObjectsNotShared ==
  \A m, n \in Md5s : \A i \in 1..Len(file_info[m]), j \in 1..Len(file_info[n]) :
    file_info[m][i].file_id = file_info[n][j].file_id => m = n /\ i = j

\* The url of a row is the url of its object and nothing else: strcat starts
\* from an empty fdfs_file_url in every request.
UrlNamesObject ==
  \A m \in Md5s : \A i \in 1..Len(file_info[m]) :
    file_info[m][i].url = <<file_info[m][i].file_id>>

\* A user's row in user_file_count counts at least one file: the row of the
\* last file is deleted, and no lost update drives it below one.
UserCountPositive ==
  \A u \in Users : \A i \in 1..Len(user_file_count[u]) : user_file_count[u][i] >= 1

------------------------------------------------------------------------------
(* What the programs at work know, which makes these invariants inductive *)

\* Some row of file_info names object f.
Linked(f) == \E m \in Md5s : \E i \in 1..Len(file_info[m]) :
               file_info[m][i].file_id = f

\* The object that cgi_upload has stored and not yet recorded is its own, and
\* its buffers were empty when the request began.
PendingUpload ==
  LET up == loc["upload"] IN
  /\ pc["upload"] \in {"idle", "up_recv", "up_dstorage"} =>
       up.fileid = NoFile /\ up.url = <<>>
  /\ pc["upload"] \in {"up_url", "up_info"} =>
       /\ up.fileid \in storage
       /\ content[up.fileid] = up.key.md5
       /\ ~Linked(up.fileid)
       /\ up.url = IF pc["upload"] = "up_url" THEN <<>> ELSE <<up.fileid>>

\* The object that del_file is about to remove is named by the rows it is
\* about to delete, and by none once they are deleted; it is not the object of
\* a pending upload.
PendingRemove ==
  /\ pc["filesop"] = "del_info" =>
       \E i \in 1..Len(file_info[me.key.md5]) :
         file_info[me.key.md5][i].file_id = me.fileid
  /\ pc["filesop"] = "del_remove" =>
       /\ me.fileid \in FileIds
       /\ content[me.fileid] # NoMd5
       /\ ~Linked(me.fileid)
       /\ pc["upload"] \in {"up_url", "up_info"} => me.fileid # loc["upload"].fileid

\* Every object in FastDFS has a file id that was handed out.
StorageHandedOut == \A f \in storage : content[f] # NoMd5

\* The inductive invariant of the objects.
ObjectInv ==
  /\ FileInfoBacked
  /\ ObjectsNotShared
  /\ UrlNamesObject
  /\ PendingUpload
  /\ PendingRemove
  /\ StorageHandedOut

\* A count that was read from a user's row is at least one when it is used.
CountsRead ==
  /\ pc["upload"] = "up_count" /\ loc["upload"].sql = "update" => loc["upload"].count >= 1
  /\ pc["md5"] = "md5_count" /\ loc["md5"].sql = "update" => loc["md5"].count >= 1
  /\ pc["filesop"] = "del_count" => me.count >= 1
  /\ pc["sharefilesop"] = "sv_count" /\ op.sql = "update" => op.count >= 1

\* The inductive invariant of the counters.
CountInv == UserCountPositive /\ CountsRead

------------------------------------------------------------------------------
(* The life of the objects *)

\* cgi_upload holds the id of object f and has not inserted its row yet.
Pending(f) == pc["upload"] \in {"up_url", "up_info"} /\ loc["upload"].fileid = f

Phase(f) ==
  IF content[f] = NoMd5 THEN "free"
  ELSE IF f \notin storage THEN "removed"
  ELSE IF Pending(f) THEN "pending"
  ELSE IF Linked(f) THEN "linked"
  ELSE "orphan"

ObjectPhase == [f \in FileIds |-> Phase(f)]

Life == INSTANCE ObjectLife WITH phase <- ObjectPhase

\* However the programs interleave, fail and are killed, every object goes
\* through its life in order: the programs implement ObjectLife.
ObjectsLive == Life!Spec
=============================================================================
