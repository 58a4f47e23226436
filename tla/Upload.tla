------------------------------- MODULE Upload -------------------------------
(***************************************************************************)
(* src/cgi/cgi_upload.c: receive a file, put it into FastDFS, record it in *)
(* MySQL.  The program checks no token and looks nothing up before it      *)
(* inserts.  Answers: 008 success, 009 failed.                             *)
(* The FastDFS clients are taken to start, and then to succeed or fail;    *)
(* what happens when execlp fails is the subject of UploadProcess.         *)
(***************************************************************************)
EXTENDS Store

\* main: a request with a body is accepted for file k.  FileIds bounds the
\* uploads.  The program itself makes no check: with ListedOnly the client's md5
\* request and its upload are one, so that an outdated check (two clients that
\* are both told 006) is left out; without ListedOnly it is not.
UploadAccept(k) ==
  /\ "upload" \in Commands
  /\ \E f \in FileIds : content[f] = NoMd5
  /\ ListedOnly => ~HasRow(file_info, k.md5)
  /\ Accept("upload", k, "up_recv")
  /\ UNCHANGED <<mysql, redis, fdfs>>

\* recv_save_file: the body is parsed and its data written to a file with the
\* name of the upload (open with O_CREAT, ftruncate, write).
UploadRecv ==
  /\ pc["upload"] = "up_recv"
  /\ \/ /\ NoFault
        /\ Goto("upload", "up_dstorage", loc["upload"])
        /\ tmpfiles' = tmpfiles \cup {loc["upload"].key.name}
     \/ Fault /\ Finish("upload", "009") /\ UNCHANGED tmpfiles
  /\ UNCHANGED <<mysql, redis, storage, content>>

\* FastDFS stores the temporary file under a new id.
DstorageStore(f) ==
  /\ content[f] = NoMd5
  /\ storage' = storage \cup {f}
  /\ content' = [content EXCEPT ![f] = loc["upload"].key.md5]

\* Faulty variant: an empty fileid is not refused.
UploadDstorageUnchecked ==
  /\ pc["upload"] = "up_dstorage"
  /\ \/ /\ NoFault
        /\ \E f \in FileIds :
             /\ DstorageStore(f)
             /\ Goto("upload", "up_url", [loc["upload"] EXCEPT !.fileid = f])
     \/ /\ Fault
        /\ Goto("upload", "up_url", loc["upload"])
        /\ UNCHANGED <<storage, content>>
  /\ tmpfiles' = tmpfiles \ {loc["upload"].key.name}
  /\ UNCHANGED <<mysql, redis>>

\* upload_to_dstorage, then unlink.  When fdfs_upload_file prints nothing the
\* buffer fileid keeps what it held, and the upload fails if that is nothing;
\* the object may have been stored all the same.
UploadDstorage ==
  /\ pc["upload"] = "up_dstorage"
  /\ \/ /\ NoFault
        /\ \E f \in FileIds :
             /\ DstorageStore(f)
             /\ Goto("upload", "up_url", [loc["upload"] EXCEPT !.fileid = f])
        /\ tmpfiles' = tmpfiles \ {loc["upload"].key.name}
     \/ /\ Fault
        /\ \/ UNCHANGED <<storage, content>>
           \/ \E f \in FileIds : DstorageStore(f)
        /\ IF loc["upload"].fileid = NoFile
           THEN Finish("upload", "009") /\ UNCHANGED tmpfiles
           ELSE /\ Goto("upload", "up_url", loc["upload"])
                /\ tmpfiles' = tmpfiles \ {loc["upload"].key.name}
  /\ UNCHANGED <<mysql, redis>>

\* make_file_url: strcat appends the object's url to fdfs_file_url.  (Missing
\* output of fdfs_file_info is a Crash: strstr's NULL is used.)
UploadUrl ==
  /\ pc["upload"] = "up_url"
  /\ \/ /\ NoFault
        /\ Goto("upload", "up_info",
                [loc["upload"] EXCEPT !.url = Append(@, loc["upload"].fileid)])
     \/ Fault /\ Finish("upload", "009")
  /\ UNCHANGED <<mysql, redis, fdfs>>

\* store_fileinfo_to_mysql, first statement: insert into file_info.  The
\* variable size was never assigned.
UploadInsertInfo ==
  LET me == loc["upload"] IN
  /\ pc["upload"] = "up_info"
  /\ \/ /\ NoFault
        /\ ~(UniqueKeys /\ HasRow(file_info, me.key.md5))
        /\ \E size \in Sizes :
             file_info' = Insert(file_info, me.key.md5,
                                 [file_id |-> me.fileid, url |-> me.url,
                                  size |-> size, count |-> 1])
        /\ Goto("upload", "up_list", me)
     \/ /\ \/ NoFault /\ UniqueKeys /\ HasRow(file_info, me.key.md5)
           \/ Fault
        /\ Finish("upload", "009")
        /\ UNCHANGED file_info
  /\ UNCHANGED <<user_file_list, user_file_count, share_file_list, redis, fdfs>>

\* Second statement: insert into user_file_list, not shared.
UploadInsertList ==
  /\ pc["upload"] = "up_list"
  /\ \/ /\ NoFault
        /\ user_file_list' = Insert(user_file_list, loc["upload"].key, 0)
        /\ Goto("upload", "up_selcount", loc["upload"])
     \/ Fault /\ Finish("upload", "009") /\ UNCHANGED user_file_list
  /\ UNCHANGED <<file_info, user_file_count, share_file_list, redis, fdfs>>

\* The user's count of files, read and then written.
UploadSelectCount ==
  SelectCountToAdd("upload", loc["upload"].key.user, "up_selcount", "up_count")

UploadSetCount ==
  LET user == loc["upload"].key.user IN
  /\ pc["upload"] = "up_count"
  /\ \/ /\ NoFault
        /\ ~CountRefused("upload", user)
        /\ AddToCount("upload", user)
        /\ Finish("upload", "008")
     \/ /\ Fault \/ (NoFault /\ CountRefused("upload", user))
        /\ Finish("upload", "009")
        /\ UNCHANGED user_file_count
  /\ UNCHANGED <<file_info, user_file_list, share_file_list, redis, fdfs>>

UploadStep ==
  \/ UploadRecv
  \/ UploadDstorage
  \/ UploadUrl
  \/ UploadInsertInfo
  \/ UploadInsertList
  \/ UploadSelectCount
  \/ UploadSetCount
=============================================================================
