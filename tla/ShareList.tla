------------------------------ MODULE ShareList ------------------------------
(***************************************************************************)
(* src/cgi/cgi_sharefiles.c: how many files are shared                     *)
(* (get_share_files_count), a page of them (get_share_filelist) and a page *)
(* by downloads (get_ranking_filelist), which builds the redis keys anew   *)
(* when the number of their members is not the number of shared files.     *)
(* Answers: "count" and "files" stand for the number and the list that     *)
(* are printed, 015 is failed.                                             *)
(***************************************************************************)
EXTENDS Store

rk == loc["sharefiles"]

\* main: the request names no file.
ListAccept(cmd, l) ==
  /\ cmd \in Commands
  /\ Accept("sharefiles", NoKey, l)
  /\ UNCHANGED <<mysql, redis, fdfs>>

ListFails == Fault /\ Finish("sharefiles", "015")

\* get_share_files_count: an error or a missing row prints 0.
ListCount ==
  /\ pc["sharefiles"] = "ls_count"
  /\ NoFault \/ Fault
  /\ Finish("sharefiles", "count")
  /\ UNCHANGED <<mysql, redis, fdfs>>

\* The rows of file_info joined with share_file_list on md5.
Joined ==
  UNION {{k} \X (1..Len(share_file_list[k])) \X (1..Len(file_info[k.md5])) :
           k \in FileKey}

\* get_share_filelist: a page without a row is a failure.
ListNormal ==
  /\ pc["sharefiles"] = "ls_normal"
  /\ \/ /\ NoFault
        /\ \E page \in Pages :
             Finish("sharefiles",
                    IF page[1] < Cardinality(Joined) /\ page[2] > 0
                    THEN "files" ELSE "015")
     \/ ListFails
  /\ UNCHANGED <<mysql, redis, fdfs>>

------------------------------------------------------------------------------
(* get_ranking_filelist *)

\* Connect; the number of shared files.
RankSelect ==
  /\ pc["sharefiles"] = "rk_select"
  /\ \/ /\ NoFault
        /\ HasRow(user_file_count, ShareUser)
        /\ Goto("sharefiles", "rk_zcard",
                [rk EXCEPT !.count = FirstRow(user_file_count, ShareUser)])
     \/ NoFault /\ ~HasRow(user_file_count, ShareUser) /\ Finish("sharefiles", "015")
     \/ ListFails
  /\ UNCHANGED <<mysql, redis, fdfs>>

\* ZCARD: as many members as files are shared?
RankZcard ==
  /\ pc["sharefiles"] = "rk_zcard"
  /\ \/ /\ NoFault
        /\ Goto("sharefiles",
                IF Cardinality(zset) = rk.count THEN "rk_range" ELSE "rk_delzset", rk)
     \/ ListFails
  /\ UNCHANGED <<mysql, redis, fdfs>>

\* DEL of both keys; what it returns is ignored.
RankDelZset ==
  /\ pc["sharefiles"] = "rk_delzset"
  /\ \/ NoFault /\ zset' = {} /\ score' = [x \in ShareKey |-> 0]
     \/ Fault /\ UNCHANGED <<zset, score>>
  /\ Goto("sharefiles", "rk_delhash", rk)
  /\ UNCHANGED <<mysql, hash, fdfs>>

RankDelHash ==
  /\ pc["sharefiles"] = "rk_delhash"
  /\ \/ NoFault /\ hash' = {}
     \/ Fault /\ UNCHANGED hash
  /\ Goto("sharefiles", "rk_rows", rk)
  /\ UNCHANGED <<mysql, zset, score, fdfs>>

\* select md5, filename, pv from share_file_list.  Equal rows are one: adding
\* a member twice with the same score changes nothing.
SharedRows ==
  UNION {{[member |-> MemberOf(k), pv |-> share_file_list[k][i]] :
            i \in 1..Len(share_file_list[k])} : k \in FileKey}

\* Faulty variant: the keys are deleted after the rows have been selected.
RankRowsFirst ==
  /\ pc["sharefiles"] = "rk_rows"
  /\ NoFault
  /\ IF rk.rows = {}
     THEN Goto("sharefiles", "rk_delzset", [rk EXCEPT !.rows = SharedRows])
     ELSE Goto("sharefiles", "rk_zadd", rk)
  /\ UNCHANGED <<mysql, redis, fdfs>>

\* No rows is a failure, with both keys deleted.
RankRows ==
  /\ pc["sharefiles"] = "rk_rows"
  /\ \/ /\ NoFault
        /\ SharedRows # {}
        /\ Goto("sharefiles", "rk_zadd", [rk EXCEPT !.rows = SharedRows])
     \/ NoFault /\ SharedRows = {} /\ Finish("sharefiles", "015")
     \/ ListFails
  /\ UNCHANGED <<mysql, redis, fdfs>>

\* The loops over the rows and over the page take up their next element.
AtRow(r) == [rk EXCEPT !.rows = @ \ {r}, !.member = r.member]
AtMember(x) == [rk EXCEPT !.page = @ \ {x}, !.member = x]

\* Faulty variant: the loop does not fetch the next row.
RankZaddSameRow ==
  /\ pc["sharefiles"] = "rk_zadd"
  /\ \E r \in rk.rows :
       /\ NoFault /\ ZAdd(r.member, r.pv)
       /\ Goto("sharefiles", "rk_hset", [rk EXCEPT !.member = r.member])
  /\ UNCHANGED <<mysql, hash, fdfs>>

\* ZADD and HSET for every row, by falling pv; what they return is ignored.
RankZadd ==
  /\ pc["sharefiles"] = "rk_zadd"
  /\ \E r \in rk.rows :
       /\ \A o \in rk.rows : o.pv <= r.pv
       /\ \/ NoFault /\ ZAdd(r.member, r.pv)
          \/ Fault /\ UNCHANGED <<zset, score>>
       /\ Goto("sharefiles", "rk_hset", AtRow(r))
  /\ UNCHANGED <<mysql, hash, fdfs>>

RankHset ==
  /\ pc["sharefiles"] = "rk_hset"
  /\ \/ NoFault /\ hash' = hash \cup {rk.member}
     \/ Fault /\ UNCHANGED hash
  /\ Goto("sharefiles", IF rk.rows = {} THEN "rk_range" ELSE "rk_zadd", rk)
  /\ UNCHANGED <<mysql, zset, score, fdfs>>

\* ZREVRANGE start start + count - 1: the members with the highest scores first.
ZRevRange(page) ==
  {x \in zset : Cardinality({y \in zset : Before(x, y)})
                  \in page[1]..(page[1] + page[2] - 1)}

RankRange ==
  /\ pc["sharefiles"] = "rk_range"
  /\ \/ /\ NoFault
        /\ \E page \in Pages :
             IF ZRevRange(page) = {}
             THEN Finish("sharefiles", "files")
             ELSE Goto("sharefiles", "rk_hget", [rk EXCEPT !.page = ZRevRange(page)])
     \/ ListFails
  /\ UNCHANGED <<mysql, redis, fdfs>>

\* HGET and ZSCORE of every member of the page, either of which may be gone.
\* The order in which the loop reads them is left open.
RankHget ==
  /\ pc["sharefiles"] = "rk_hget"
  /\ \/ /\ NoFault
        /\ \E x \in rk.page :
             IF x \in hash
             THEN Goto("sharefiles", "rk_score", AtMember(x))
             ELSE Finish("sharefiles", "015")
     \/ ListFails
  /\ UNCHANGED <<mysql, redis, fdfs>>

RankScore ==
  /\ pc["sharefiles"] = "rk_score"
  /\ \/ /\ NoFault
        /\ rk.member \in zset
        /\ IF rk.page = {}
           THEN Finish("sharefiles", "files")
           ELSE Goto("sharefiles", "rk_hget", rk)
     \/ NoFault /\ rk.member \notin zset /\ Finish("sharefiles", "015")
     \/ ListFails
  /\ UNCHANGED <<mysql, redis, fdfs>>

ShareListStep ==
  \/ ListCount
  \/ ListNormal
  \/ RankSelect
  \/ RankZcard
  \/ RankDelZset
  \/ RankDelHash
  \/ RankRows
  \/ RankZadd
  \/ RankHset
  \/ RankRange
  \/ RankHget
  \/ RankScore
=============================================================================
