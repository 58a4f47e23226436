------------------------------- MODULE FilesOp -------------------------------
(***************************************************************************)
(* src/cgi/cgi_filesop.c: delete a file of a user (del_file) and share one *)
(* (share_file).  main dispatches to del_file alone at this commit, the    *)
(* dispatch to share_file is commented out; the constant Commands says     *)
(* which of the two a deployment answers.                                  *)
(* Answers: del 013 success, 014 failed; share 010 success, 011 failed,    *)
(* 012 has been shared.                                                    *)
(***************************************************************************)
EXTENDS Store

\* main: a request whose token verify_token accepts.
DelAccept(k) ==
  /\ "del" \in Commands
  /\ ListedOnly => HasRow(user_file_list, k)
  /\ Accept("filesop", k, "del_zexit")
  /\ UNCHANGED <<mysql, redis, fdfs>>

ShareAccept(k) ==
  /\ "share" \in Commands
  /\ ListedOnly => HasRow(user_file_list, k)
  /\ Accept("filesop", k, "sh_zexit")
  /\ UNCHANGED <<mysql, redis, fdfs>>

me == loc["filesop"]

\* An SQL or redis call of the program fails and is answered with code.
FilesOpFails(code) == Fault /\ Finish("filesop", code)

------------------------------------------------------------------------------
(* del_file *)

\* Faulty variant: a file that is not in the zset is not found.
DelZexitStrict ==
  /\ pc["filesop"] = "del_zexit"
  /\ NoFault
  /\ IF ZLexCount(MemberOf(me.key)) = 1
     THEN Goto("filesop", "del_share", [me EXCEPT !.share = 1, !.flag = 1])
     ELSE Finish("filesop", "014")
  /\ UNCHANGED <<mysql, redis, fdfs>>

\* Connect; is the file in FILE_PUBLIC_ZSET?
DelZexit ==
  /\ pc["filesop"] = "del_zexit"
  /\ \/ /\ NoFault
        /\ ZLexCount(MemberOf(me.key)) = 1
        /\ Goto("filesop", "del_share", [me EXCEPT !.share = 1, !.flag = 1])
     \/ /\ NoFault
        /\ ZLexCount(MemberOf(me.key)) = 0
        /\ Goto("filesop", "del_status", me)
     \/ /\ NoFault
        /\ ZLexCount(MemberOf(me.key)) \notin {0, 1}
        /\ Finish("filesop", "014")
     \/ FilesOpFails("014")
  /\ UNCHANGED <<mysql, redis, fdfs>>

\* Faulty variant: only redis is asked whether the file is shared.
DelStatusUnasked ==
  /\ pc["filesop"] = "del_status"
  /\ NoFault
  /\ Goto("filesop", "del_selcount", me)
  /\ UNCHANGED <<mysql, redis, fdfs>>

\* select shared_status; no row means not shared.
DelStatus ==
  LET shared == HasRow(user_file_list, me.key)
                  /\ FirstRow(user_file_list, me.key) = 1
  IN
  /\ pc["filesop"] = "del_status"
  /\ \/ NoFault /\ shared /\ Goto("filesop", "del_share", [me EXCEPT !.share = 1])
     \/ NoFault /\ ~shared /\ Goto("filesop", "del_selcount", me)
     \/ FilesOpFails("014")
  /\ UNCHANGED <<mysql, redis, fdfs>>

\* delete from share_file_list.
DelShare ==
  /\ pc["filesop"] = "del_share"
  /\ \/ /\ NoFault
        /\ share_file_list' = DeleteWhere(share_file_list, me.key)
        /\ Goto("filesop", "del_selshares", me)
     \/ FilesOpFails("014") /\ UNCHANGED share_file_list
  /\ UNCHANGED <<file_info, user_file_list, user_file_count, redis, fdfs>>

\* The number of shared files, read and then decremented; its row stays.
DelSelectShares ==
  /\ pc["filesop"] = "del_selshares"
  /\ \/ /\ NoFault
        /\ HasRow(user_file_count, ShareUser)
        /\ Goto("filesop", "del_shares",
                [me EXCEPT !.count = FirstRow(user_file_count, ShareUser)])
     \/ NoFault /\ ~HasRow(user_file_count, ShareUser) /\ Finish("filesop", "014")
     \/ FilesOpFails("014")
  /\ UNCHANGED <<mysql, redis, fdfs>>

\* Faulty variant: the redis keys keep the file.
DelSetSharesSkipsZrem ==
  /\ pc["filesop"] = "del_shares"
  /\ \/ /\ NoFault
        /\ user_file_count' = UpdateWhere(user_file_count, ShareUser, me.count - 1)
        /\ Goto("filesop", "del_selcount", me)
     \/ FilesOpFails("014") /\ UNCHANGED user_file_count
  /\ UNCHANGED <<file_info, user_file_list, share_file_list, redis, fdfs>>

DelSetShares ==
  /\ pc["filesop"] = "del_shares"
  /\ \/ /\ NoFault
        /\ user_file_count' = UpdateWhere(user_file_count, ShareUser, me.count - 1)
        /\ Goto("filesop",
                IF me.flag = 1 THEN "del_zrem" ELSE "del_selcount", me)
     \/ FilesOpFails("014") /\ UNCHANGED user_file_count
  /\ UNCHANGED <<file_info, user_file_list, share_file_list, redis, fdfs>>

\* ZREM and HDEL; what they return is ignored.
DelZrem ==
  /\ pc["filesop"] = "del_zrem"
  /\ \/ NoFault /\ ZRem(MemberOf(me.key))
     \/ Fault /\ UNCHANGED <<zset, score>>
  /\ Goto("filesop", "del_hdel", me)
  /\ UNCHANGED <<mysql, hash, fdfs>>

DelHdel ==
  /\ pc["filesop"] = "del_hdel"
  /\ \/ NoFault /\ hash' = hash \ {MemberOf(me.key)}
     \/ Fault /\ UNCHANGED hash
  /\ Goto("filesop", "del_selcount", me)
  /\ UNCHANGED <<mysql, zset, score, fdfs>>

\* The user's count of files, read ...
DelSelectCount ==
  /\ pc["filesop"] = "del_selcount"
  /\ \/ /\ NoFault
        /\ HasRow(user_file_count, me.key.user)
        /\ Goto("filesop", "del_count",
                [me EXCEPT !.count = FirstRow(user_file_count, me.key.user)])
     \/ /\ NoFault
        /\ ~HasRow(user_file_count, me.key.user)
        /\ Finish("filesop", "014")
     \/ FilesOpFails("014")
  /\ UNCHANGED <<mysql, redis, fdfs>>

\* Faulty variants: the row of a last file is kept, and the count is written
\* back as it was read.
DelSetCountKeepsRow ==
  /\ pc["filesop"] = "del_count"
  /\ \/ /\ NoFault
        /\ user_file_count' = UpdateWhere(user_file_count, me.key.user, me.count - 1)
        /\ Goto("filesop", "del_list", me)
     \/ FilesOpFails("014") /\ UNCHANGED user_file_count
  /\ UNCHANGED <<file_info, user_file_list, share_file_list, redis, fdfs>>

DelSetCountForgets ==
  /\ pc["filesop"] = "del_count"
  /\ \/ /\ NoFault
        /\ user_file_count' =
             IF me.count = 1
             THEN DeleteWhere(user_file_count, me.key.user)
             ELSE UpdateWhere(user_file_count, me.key.user, me.count)
        /\ Goto("filesop", "del_list", me)
     \/ FilesOpFails("014") /\ UNCHANGED user_file_count
  /\ UNCHANGED <<file_info, user_file_list, share_file_list, redis, fdfs>>

\* ... and then decremented; the row of a last file is deleted.
DelSetCount ==
  /\ pc["filesop"] = "del_count"
  /\ \/ /\ NoFault
        /\ user_file_count' =
             IF me.count = 1
             THEN DeleteWhere(user_file_count, me.key.user)
             ELSE UpdateWhere(user_file_count, me.key.user, me.count - 1)
        /\ Goto("filesop", "del_list", me)
     \/ FilesOpFails("014") /\ UNCHANGED user_file_count
  /\ UNCHANGED <<file_info, user_file_list, share_file_list, redis, fdfs>>

\* Faulty variant: an error of the delete is ignored.
DelListIgnoresError ==
  /\ pc["filesop"] = "del_list"
  /\ \/ NoFault /\ user_file_list' = DeleteWhere(user_file_list, me.key)
     \/ Fault /\ UNCHANGED user_file_list
  /\ Goto("filesop", "del_selref", me)
  /\ UNCHANGED <<file_info, user_file_count, share_file_list, redis, fdfs>>

\* delete from user_file_list.
DelList ==
  /\ pc["filesop"] = "del_list"
  /\ \/ /\ NoFault
        /\ user_file_list' = DeleteWhere(user_file_list, me.key)
        /\ Goto("filesop", "del_selref", me)
     \/ FilesOpFails("014") /\ UNCHANGED user_file_list
  /\ UNCHANGED <<file_info, user_file_count, share_file_list, redis, fdfs>>

\* The content's count of references, read and decremented ...
DelSelectReference ==
  /\ pc["filesop"] = "del_selref"
  /\ \/ /\ NoFault
        /\ HasRow(file_info, me.key.md5)
        /\ Goto("filesop", "del_ref",
                [me EXCEPT !.count = FirstRow(file_info, me.key.md5).count - 1])
     \/ NoFault /\ ~HasRow(file_info, me.key.md5) /\ Finish("filesop", "014")
     \/ FilesOpFails("014")
  /\ UNCHANGED <<mysql, redis, fdfs>>

\* Faulty variant: the content goes one reference too early.
DelSetReferenceEarly ==
  /\ pc["filesop"] = "del_ref"
  /\ \/ /\ NoFault
        /\ file_info' = UpdateCountWhere(file_info, me.key.md5, me.count)
        /\ IF me.count <= 1
           THEN Goto("filesop", "del_selid", me)
           ELSE Finish("filesop", "013")
     \/ FilesOpFails("014") /\ UNCHANGED file_info
  /\ UNCHANGED <<user_file_list, user_file_count, share_file_list, redis, fdfs>>

\* ... and written.
DelSetReference ==
  /\ pc["filesop"] = "del_ref"
  /\ \/ /\ NoFault
        /\ file_info' = UpdateCountWhere(file_info, me.key.md5, me.count)
        /\ IF me.count = 0
           THEN Goto("filesop", "del_selid", me)
           ELSE Finish("filesop", "013")
     \/ FilesOpFails("014") /\ UNCHANGED file_info
  /\ UNCHANGED <<user_file_list, user_file_count, share_file_list, redis, fdfs>>

\* Faulty variant: the row of file_info is not deleted.
DelSelectIdSkipsInfo ==
  /\ pc["filesop"] = "del_selid"
  /\ \/ /\ NoFault
        /\ HasRow(file_info, me.key.md5)
        /\ Goto("filesop", "del_remove",
                [me EXCEPT !.fileid = FirstRow(file_info, me.key.md5).file_id])
     \/ NoFault /\ ~HasRow(file_info, me.key.md5) /\ Finish("filesop", "014")
     \/ FilesOpFails("014")
  /\ UNCHANGED <<mysql, redis, fdfs>>

\* Nobody refers to the content: select file_id, delete from file_info, and
\* then remove the object.
DelSelectId ==
  /\ pc["filesop"] = "del_selid"
  /\ \/ /\ NoFault
        /\ HasRow(file_info, me.key.md5)
        /\ Goto("filesop", "del_info",
                [me EXCEPT !.fileid = FirstRow(file_info, me.key.md5).file_id])
     \/ NoFault /\ ~HasRow(file_info, me.key.md5) /\ Finish("filesop", "014")
     \/ FilesOpFails("014")
  /\ UNCHANGED <<mysql, redis, fdfs>>

\* Faulty variant: the object is not removed.
DelInfoKeepsObject ==
  /\ pc["filesop"] = "del_info"
  /\ \/ /\ NoFault
        /\ file_info' = DeleteWhere(file_info, me.key.md5)
        /\ Finish("filesop", "013")
     \/ FilesOpFails("014") /\ UNCHANGED file_info
  /\ UNCHANGED <<user_file_list, user_file_count, share_file_list, redis, fdfs>>

DelInfo ==
  /\ pc["filesop"] = "del_info"
  /\ \/ /\ NoFault
        /\ file_info' = DeleteWhere(file_info, me.key.md5)
        /\ Goto("filesop", "del_remove", me)
     \/ FilesOpFails("014") /\ UNCHANGED file_info
  /\ UNCHANGED <<user_file_list, user_file_count, share_file_list, redis, fdfs>>

\* remove_file_from_storage: fdfs_delete_file.
DelRemove ==
  /\ pc["filesop"] = "del_remove"
  /\ \/ /\ NoFault
        /\ me.fileid \in storage
        /\ storage' = storage \ {me.fileid}
        /\ Finish("filesop", "013")
     \/ /\ (NoFault /\ me.fileid \notin storage) \/ Fault
        /\ Finish("filesop", "014")
        /\ UNCHANGED storage
  /\ UNCHANGED <<mysql, redis, content, tmpfiles>>

DelStep ==
  \/ DelZexit
  \/ DelStatus
  \/ DelShare
  \/ DelSelectShares
  \/ DelSetShares
  \/ DelZrem
  \/ DelHdel
  \/ DelSelectCount
  \/ DelSetCount
  \/ DelList
  \/ DelSelectReference
  \/ DelSetReference
  \/ DelSelectId
  \/ DelInfo
  \/ DelRemove

------------------------------------------------------------------------------
(* share_file *)

\* Connect; a member of FILE_PUBLIC_ZSET has been shared.
ShareZexit ==
  /\ pc["filesop"] = "sh_zexit"
  /\ \/ NoFault /\ ZLexCount(MemberOf(me.key)) = 1 /\ Finish("filesop", "012")
     \/ NoFault /\ ZLexCount(MemberOf(me.key)) = 0 /\ Goto("filesop", "sh_select", me)
     \/ NoFault /\ ZLexCount(MemberOf(me.key)) \notin {0, 1} /\ Finish("filesop", "011")
     \/ FilesOpFails("011")
  /\ UNCHANGED <<mysql, redis, fdfs>>

\* Has any user shared this md5 and filename?  An error counts as no.
SharedByAnyone(k) ==
  \E o \in FileKey : MemberOf(o) = MemberOf(k) /\ HasRow(share_file_list, o)

ShareSelect ==
  /\ pc["filesop"] = "sh_select"
  /\ \/ NoFault /\ SharedByAnyone(me.key) /\ Goto("filesop", "sh_readd", me)
     \/ /\ (NoFault /\ ~SharedByAnyone(me.key)) \/ Fault
        /\ Goto("filesop", "sh_status", me)
  /\ UNCHANGED <<mysql, redis, fdfs>>

\* Faulty variant: the row is taken to imply the member.
ShareReaddNot ==
  /\ pc["filesop"] = "sh_readd"
  /\ NoFault
  /\ Finish("filesop", "012")
  /\ UNCHANGED <<mysql, redis, fdfs>>

\* Shared, but not in the zset: ZADD with score 0, and no HSET.
ShareReadd ==
  /\ pc["filesop"] = "sh_readd"
  /\ \/ NoFault /\ ZAdd(MemberOf(me.key), 0)
     \/ Fault /\ UNCHANGED <<zset, score>>
  /\ Finish("filesop", "012")
  /\ UNCHANGED <<mysql, hash, fdfs>>

\* update user_file_list set shared_status = 1.
ShareStatus ==
  /\ pc["filesop"] = "sh_status"
  /\ \/ /\ NoFault
        /\ user_file_list' = UpdateWhere(user_file_list, me.key, 1)
        /\ Goto("filesop", "sh_insert", me)
     \/ FilesOpFails("011") /\ UNCHANGED user_file_list
  /\ UNCHANGED <<file_info, user_file_count, share_file_list, redis, fdfs>>

\* insert into share_file_list, pv 0.
ShareInsert ==
  /\ pc["filesop"] = "sh_insert"
  /\ \/ /\ NoFault
        /\ share_file_list' = Insert(share_file_list, me.key, 0)
        /\ Goto("filesop", "sh_selcount", me)
     \/ FilesOpFails("011") /\ UNCHANGED share_file_list
  /\ UNCHANGED <<file_info, user_file_list, user_file_count, redis, fdfs>>

\* The number of shared files, read and then written.
ShareSelectCount ==
  SelectCountToAdd("filesop", ShareUser, "sh_selcount", "sh_count")

ShareSetCount ==
  /\ pc["filesop"] = "sh_count"
  /\ \/ /\ NoFault
        /\ ~CountRefused("filesop", ShareUser)
        /\ AddToCount("filesop", ShareUser)
        /\ Goto("filesop", "sh_zadd", me)
     \/ /\ Fault \/ (NoFault /\ CountRefused("filesop", ShareUser))
        /\ Finish("filesop", "011")
        /\ UNCHANGED user_file_count
  /\ UNCHANGED <<file_info, user_file_list, share_file_list, redis, fdfs>>

\* Faulty variant: no HSET.
ShareZaddOnly ==
  /\ pc["filesop"] = "sh_zadd"
  /\ NoFault /\ ZAdd(MemberOf(me.key), 0)
  /\ Finish("filesop", "010")
  /\ UNCHANGED <<mysql, hash, fdfs>>

\* ZADD and HSET; what they return is ignored.
ShareZadd ==
  /\ pc["filesop"] = "sh_zadd"
  /\ \/ NoFault /\ ZAdd(MemberOf(me.key), 0)
     \/ Fault /\ UNCHANGED <<zset, score>>
  /\ Goto("filesop", "sh_hset", me)
  /\ UNCHANGED <<mysql, hash, fdfs>>

ShareHset ==
  /\ pc["filesop"] = "sh_hset"
  /\ \/ NoFault /\ hash' = hash \cup {MemberOf(me.key)}
     \/ Fault /\ UNCHANGED hash
  /\ Finish("filesop", "010")
  /\ UNCHANGED <<mysql, zset, score, fdfs>>

ShareStep ==
  \/ ShareZexit
  \/ ShareSelect
  \/ ShareReadd
  \/ ShareStatus
  \/ ShareInsert
  \/ ShareSelectCount
  \/ ShareSetCount
  \/ ShareZadd
  \/ ShareHset
=============================================================================
