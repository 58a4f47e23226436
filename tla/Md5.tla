--------------------------------- MODULE Md5 ---------------------------------
(***************************************************************************)
(* src/cgi/cgi_md5.c: the upload in a second.  When the content is stored  *)
(* already, the file is only recorded for the user.  Answers: 004 the user *)
(* has the file, 005 success, 006 failed (the client then uploads).        *)
(***************************************************************************)
EXTENDS Store

\* main: a request whose token verify_token accepts.
Md5Accept(k) ==
  /\ "md5" \in Commands
  /\ Accept("md5", k, "md5_info")
  /\ UNCHANGED <<mysql, redis, fdfs>>

\* deal_md5: connect; select count from file_info.  No connection answers
\* 006; an error of the select matches no branch and leaves ret at 0.
Md5SelectInfo ==
  LET me == loc["md5"] IN
  /\ pc["md5"] = "md5_info"
  /\ \/ /\ NoFault
        /\ HasRow(file_info, me.key.md5)
        /\ Goto("md5", "md5_list",
                [me EXCEPT !.count = FirstRow(file_info, me.key.md5).count])
     \/ NoFault /\ ~HasRow(file_info, me.key.md5) /\ Finish("md5", "006")
     \/ Fault /\ Finish("md5", "006")
     \/ Fault /\ Finish("md5", "005")
  /\ UNCHANGED <<mysql, redis, fdfs>>

\* Does the user have the file?  An error counts as no.
Md5SelectList ==
  /\ pc["md5"] = "md5_list"
  /\ \/ /\ NoFault
        /\ HasRow(user_file_list, loc["md5"].key)
        /\ Finish("md5", "004")
     \/ /\ (NoFault /\ ~HasRow(user_file_list, loc["md5"].key)) \/ Fault
        /\ Goto("md5", "md5_addref", loc["md5"])
  /\ UNCHANGED <<mysql, redis, fdfs>>

\* Faulty variant: the reference is not counted.
Md5AddReferenceForgets ==
  /\ pc["md5"] = "md5_addref"
  /\ NoFault
  /\ Goto("md5", "md5_inslist", loc["md5"])
  /\ UNCHANGED <<mysql, redis, fdfs>>

\* update file_info set count = ++count.
Md5AddReference ==
  LET me == loc["md5"] IN
  /\ pc["md5"] = "md5_addref"
  /\ \/ /\ NoFault
        /\ file_info' = UpdateCountWhere(file_info, me.key.md5, me.count + 1)
        /\ Goto("md5", "md5_inslist", me)
     \/ Fault /\ Finish("md5", "006") /\ UNCHANGED file_info
  /\ UNCHANGED <<user_file_list, user_file_count, share_file_list, redis, fdfs>>

\* insert into user_file_list, not shared.
Md5InsertList ==
  /\ pc["md5"] = "md5_inslist"
  /\ \/ /\ NoFault
        /\ user_file_list' = Insert(user_file_list, loc["md5"].key, 0)
        /\ Goto("md5", "md5_selcount", loc["md5"])
     \/ Fault /\ Finish("md5", "006") /\ UNCHANGED user_file_list
  /\ UNCHANGED <<file_info, user_file_count, share_file_list, redis, fdfs>>

\* The user's count of files, read and then written.
Md5SelectCount ==
  SelectCountToAdd("md5", loc["md5"].key.user, "md5_selcount", "md5_count")

Md5SetCount ==
  LET user == loc["md5"].key.user IN
  /\ pc["md5"] = "md5_count"
  /\ \/ /\ NoFault
        /\ ~CountRefused("md5", user)
        /\ AddToCount("md5", user)
        /\ Finish("md5", "005")
     \/ /\ Fault \/ (NoFault /\ CountRefused("md5", user))
        /\ Finish("md5", "006")
        /\ UNCHANGED user_file_count
  /\ UNCHANGED <<file_info, user_file_list, share_file_list, redis, fdfs>>

Md5Step ==
  \/ Md5SelectInfo
  \/ Md5SelectList
  \/ Md5AddReference
  \/ Md5InsertList
  \/ Md5SelectCount
  \/ Md5SetCount
=============================================================================
