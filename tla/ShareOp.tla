------------------------------- MODULE ShareOp -------------------------------
(***************************************************************************)
(* src/cgi/cgi_sharefilesop.c: count a download of a shared file           *)
(* (pv_file), take a file back (cancel_share_file) and save a shared file  *)
(* as one's own (save_file).                                               *)
(* Answers: pv 016 success, 017 failed; cancel 018 success, 019 failed;    *)
(* save 020 success, 021 file existed, 022 failed.                         *)
(***************************************************************************)
EXTENDS Store

op == loc["sharefilesop"]

\* The rows of share_file_list for a redis member, whoever shares it.
Sharers(x) == {o \in FileKey : MemberOf(o) = x /\ HasRow(share_file_list, o)}

\* main: the program asks for no token.
PvAccept(k) ==
  /\ "pv" \in Commands
  /\ ListedOnly => Sharers(MemberOf(k)) # {}
  /\ Accept("sharefilesop", k, "pv_select")
  /\ UNCHANGED <<mysql, redis, fdfs>>

CancelAccept(k) ==
  /\ "cancel" \in Commands
  /\ ListedOnly => HasRow(share_file_list, k)
  /\ Accept("sharefilesop", k, "ca_status")
  /\ UNCHANGED <<mysql, redis, fdfs>>

SaveAccept(k) ==
  /\ "save" \in Commands
  /\ ListedOnly => Sharers(MemberOf(k)) # {}
  /\ Accept("sharefilesop", k, "sv_list")
  /\ UNCHANGED <<mysql, redis, fdfs>>

ShareOpFails(code) == Fault /\ Finish("sharefilesop", code)

------------------------------------------------------------------------------
(* pv_file *)

\* Connect; select pv where md5 and filename, from the first row of any user.
PvSelect ==
  /\ pc["sharefilesop"] = "pv_select"
  /\ \/ /\ NoFault
        /\ \E o \in Sharers(MemberOf(op.key)) :
             Goto("sharefilesop", "pv_update",
                  [op EXCEPT !.count = FirstRow(share_file_list, o)])
     \/ NoFault /\ Sharers(MemberOf(op.key)) = {} /\ Finish("sharefilesop", "017")
     \/ ShareOpFails("017")
  /\ UNCHANGED <<mysql, redis, fdfs>>

\* Faulty variant: the downloads are written back as they were read.
PvUpdateForgets ==
  /\ pc["sharefilesop"] = "pv_update"
  /\ \/ /\ NoFault
        /\ share_file_list' =
             UpdateAmong(share_file_list, Sharers(MemberOf(op.key)), op.count)
        /\ Goto("sharefilesop", "pv_zexit", op)
     \/ ShareOpFails("017") /\ UNCHANGED share_file_list
  /\ UNCHANGED <<file_info, user_file_list, user_file_count, redis, fdfs>>

\* update share_file_list set pv where md5 and filename: one more than was read.
PvUpdate ==
  /\ pc["sharefilesop"] = "pv_update"
  /\ \/ /\ NoFault
        /\ share_file_list' =
             UpdateAmong(share_file_list, Sharers(MemberOf(op.key)), op.count + 1)
        /\ Goto("sharefilesop", "pv_zexit", op)
     \/ ShareOpFails("017") /\ UNCHANGED share_file_list
  /\ UNCHANGED <<file_info, user_file_list, user_file_count, redis, fdfs>>

\* Is the file in FILE_PUBLIC_ZSET?
PvZexit ==
  /\ pc["sharefilesop"] = "pv_zexit"
  /\ \/ /\ NoFault
        /\ ZLexCount(MemberOf(op.key)) = 1
        /\ Goto("sharefilesop", "pv_zincr", op)
     \/ /\ NoFault
        /\ ZLexCount(MemberOf(op.key)) = 0
        /\ Goto("sharefilesop", "pv_zadd", op)
     \/ /\ NoFault
        /\ ZLexCount(MemberOf(op.key)) \notin {0, 1}
        /\ Finish("sharefilesop", "017")
     \/ ShareOpFails("017")
  /\ UNCHANGED <<mysql, redis, fdfs>>

\* ZINCRBY, which adds a member that is not there.  rop_zset_increment compares
\* the reply, the new score, with "OK": it is taken for a failure.
PvZincr ==
  /\ pc["sharefilesop"] = "pv_zincr"
  /\ \/ NoFault /\ ZAdd(MemberOf(op.key), score[MemberOf(op.key)] + 1)
     \/ Fault /\ UNCHANGED <<zset, score>>
  /\ Finish("sharefilesop", "017")
  /\ UNCHANGED <<mysql, hash, fdfs>>

\* ZADD with the new pv and HSET; what they return is ignored.
PvZadd ==
  /\ pc["sharefilesop"] = "pv_zadd"
  /\ \/ NoFault /\ ZAdd(MemberOf(op.key), op.count + 1)
     \/ Fault /\ UNCHANGED <<zset, score>>
  /\ Goto("sharefilesop", "pv_hset", op)
  /\ UNCHANGED <<mysql, hash, fdfs>>

PvHset ==
  /\ pc["sharefilesop"] = "pv_hset"
  /\ \/ NoFault /\ hash' = hash \cup {MemberOf(op.key)}
     \/ Fault /\ UNCHANGED hash
  /\ Finish("sharefilesop", "016")
  /\ UNCHANGED <<mysql, zset, score, fdfs>>

------------------------------------------------------------------------------
(* cancel_share_file *)

\* Connect; update user_file_list set shared_status = 0.
CancelStatus ==
  /\ pc["sharefilesop"] = "ca_status"
  /\ \/ /\ NoFault
        /\ user_file_list' = UpdateWhere(user_file_list, op.key, 0)
        /\ Goto("sharefilesop", "ca_selshares", op)
     \/ ShareOpFails("019") /\ UNCHANGED user_file_list
  /\ UNCHANGED <<file_info, user_file_count, share_file_list, redis, fdfs>>

\* The number of shared files, read ...
CancelSelectShares ==
  /\ pc["sharefilesop"] = "ca_selshares"
  /\ \/ /\ NoFault
        /\ HasRow(user_file_count, ShareUser)
        /\ Goto("sharefilesop", "ca_shares",
                [op EXCEPT !.count = FirstRow(user_file_count, ShareUser)])
     \/ /\ NoFault
        /\ ~HasRow(user_file_count, ShareUser)
        /\ Finish("sharefilesop", "019")
     \/ ShareOpFails("019")
  /\ UNCHANGED <<mysql, redis, fdfs>>

\* Faulty variant: the count is written back as it was read.
CancelSetSharesForgets ==
  /\ pc["sharefilesop"] = "ca_shares"
  /\ \/ /\ NoFault
        /\ user_file_count' =
             IF op.count = 1
             THEN DeleteWhere(user_file_count, ShareUser)
             ELSE UpdateWhere(user_file_count, ShareUser, op.count)
        /\ Goto("sharefilesop", "ca_share", op)
     \/ ShareOpFails("019") /\ UNCHANGED user_file_count
  /\ UNCHANGED <<file_info, user_file_list, share_file_list, redis, fdfs>>

\* ... and decremented; the row of a last shared file is deleted.
CancelSetShares ==
  /\ pc["sharefilesop"] = "ca_shares"
  /\ \/ /\ NoFault
        /\ user_file_count' =
             IF op.count = 1
             THEN DeleteWhere(user_file_count, ShareUser)
             ELSE UpdateWhere(user_file_count, ShareUser, op.count - 1)
        /\ Goto("sharefilesop", "ca_share", op)
     \/ ShareOpFails("019") /\ UNCHANGED user_file_count
  /\ UNCHANGED <<file_info, user_file_list, share_file_list, redis, fdfs>>

\* delete from share_file_list.
CancelShare ==
  /\ pc["sharefilesop"] = "ca_share"
  /\ \/ /\ NoFault
        /\ share_file_list' = DeleteWhere(share_file_list, op.key)
        /\ Goto("sharefilesop", "ca_zrem", op)
     \/ ShareOpFails("019") /\ UNCHANGED share_file_list
  /\ UNCHANGED <<file_info, user_file_list, user_file_count, redis, fdfs>>

\* Faulty variant: the result of ZREM is ignored, as del_file does.
CancelZremUnchecked ==
  /\ pc["sharefilesop"] = "ca_zrem"
  /\ \/ NoFault /\ ZRem(MemberOf(op.key))
     \/ Fault /\ UNCHANGED <<zset, score>>
  /\ Goto("sharefilesop", "ca_hdel", op)
  /\ UNCHANGED <<mysql, hash, fdfs>>

\* ZREM and HDEL; here a member or field that is not there is a failure.
CancelZrem ==
  /\ pc["sharefilesop"] = "ca_zrem"
  /\ \/ /\ NoFault
        /\ MemberOf(op.key) \in zset
        /\ ZRem(MemberOf(op.key))
        /\ Goto("sharefilesop", "ca_hdel", op)
     \/ /\ (NoFault /\ MemberOf(op.key) \notin zset) \/ Fault
        /\ Finish("sharefilesop", "019")
        /\ UNCHANGED <<zset, score>>
  /\ UNCHANGED <<mysql, hash, fdfs>>

CancelHdel ==
  /\ pc["sharefilesop"] = "ca_hdel"
  /\ \/ /\ NoFault
        /\ MemberOf(op.key) \in hash
        /\ hash' = hash \ {MemberOf(op.key)}
        /\ Finish("sharefilesop", "018")
     \/ /\ (NoFault /\ MemberOf(op.key) \notin hash) \/ Fault
        /\ Finish("sharefilesop", "019")
        /\ UNCHANGED hash
  /\ UNCHANGED <<mysql, zset, score, fdfs>>

------------------------------------------------------------------------------
(* save_file *)

\* Does the user have the file?  An error counts as no.
SaveSelectList ==
  /\ pc["sharefilesop"] = "sv_list"
  /\ \/ NoFault /\ HasRow(user_file_list, op.key) /\ Finish("sharefilesop", "021")
     \/ /\ (NoFault /\ ~HasRow(user_file_list, op.key)) \/ Fault
        /\ Goto("sharefilesop", "sv_selref", op)
     \/ ShareOpFails("022")
  /\ UNCHANGED <<mysql, redis, fdfs>>

\* The content's count of references, read and then incremented.
SaveSelectReference ==
  /\ pc["sharefilesop"] = "sv_selref"
  /\ \/ /\ NoFault
        /\ HasRow(file_info, op.key.md5)
        /\ Goto("sharefilesop", "sv_ref",
                [op EXCEPT !.count = FirstRow(file_info, op.key.md5).count])
     \/ /\ NoFault
        /\ ~HasRow(file_info, op.key.md5)
        /\ Finish("sharefilesop", "022")
     \/ ShareOpFails("022")
  /\ UNCHANGED <<mysql, redis, fdfs>>

SaveAddReference ==
  /\ pc["sharefilesop"] = "sv_ref"
  /\ \/ /\ NoFault
        /\ file_info' = UpdateCountWhere(file_info, op.key.md5, op.count + 1)
        /\ Goto("sharefilesop", "sv_inslist", op)
     \/ ShareOpFails("022") /\ UNCHANGED file_info
  /\ UNCHANGED <<user_file_list, user_file_count, share_file_list, redis, fdfs>>

\* insert into user_file_list, not shared.
SaveInsertList ==
  /\ pc["sharefilesop"] = "sv_inslist"
  /\ \/ /\ NoFault
        /\ user_file_list' = Insert(user_file_list, op.key, 0)
        /\ Goto("sharefilesop", "sv_selcount", op)
     \/ ShareOpFails("022") /\ UNCHANGED user_file_list
  /\ UNCHANGED <<file_info, user_file_count, share_file_list, redis, fdfs>>

\* The user's count of files, read and then written.
SaveSelectCount ==
  SelectCountToAdd("sharefilesop", op.key.user, "sv_selcount", "sv_count")

SaveSetCount ==
  /\ pc["sharefilesop"] = "sv_count"
  /\ \/ /\ NoFault
        /\ ~CountRefused("sharefilesop", op.key.user)
        /\ AddToCount("sharefilesop", op.key.user)
        /\ Finish("sharefilesop", "020")
     \/ /\ Fault \/ (NoFault /\ CountRefused("sharefilesop", op.key.user))
        /\ Finish("sharefilesop", "022")
        /\ UNCHANGED user_file_count
  /\ UNCHANGED <<file_info, user_file_list, share_file_list, redis, fdfs>>

PvStep == PvSelect \/ PvUpdate \/ PvZexit \/ PvZincr \/ PvZadd \/ PvHset
CancelStep ==
  \/ CancelStatus
  \/ CancelSelectShares
  \/ CancelSetShares
  \/ CancelShare
  \/ CancelZrem
  \/ CancelHdel
SaveStep ==
  \/ SaveSelectList
  \/ SaveSelectReference
  \/ SaveAddReference
  \/ SaveInsertList
  \/ SaveSelectCount
  \/ SaveSetCount
ShareOpStep == PvStep \/ CancelStep \/ SaveStep
=============================================================================
