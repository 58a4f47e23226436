----------------------------- MODULE SharedFiles -----------------------------
(***************************************************************************)
(* The list of shared files is kept three times: as rows of                *)
(* share_file_list, as the count of ShareUser in user_file_count, and as   *)
(* the ranking in redis.  share_file, cancel_share_file and del_file       *)
(* change all three, in steps; get_ranking_filelist compares the second    *)
(* with the third and then builds the third from the first.                *)
(***************************************************************************)
EXTENDS Accounts

SharedMembers == {x \in ShareKey : Sharers(x) # {}}
ShareEntries == RowsOf(share_file_list, FileKey)
ShareRows == Cardinality(ShareEntries)
Stale == {x \in zset : Sharers(x) = {}}  \* members that nobody shares
Downloads(x) == Max({FirstRow(share_file_list, k) : k \in Sharers(x)})

Idle(progs) == \A p \in progs : pc[p] = "idle"

\* share_file is between the row for member x and one of these calls.
Sharing(x, labels) == pc["filesop"] \in labels /\ MemberOf(me.key) = x

\* When requests do not overlap and nothing fails, the number of shared files
\* that cgi_sharefiles reports is never above the number of rows of
\* share_file_list.  It may fall below: once a download has made the scores
\* differ, ZLEXCOUNT misses members that are there, del_file leaves such a member
\* in redis, and the next delete of the same file finds it and counts one off for
\* a row that is not there.
SharesNotAbove == Quiet /\ faults = 0 => CountedFiles(ShareUser) <= ShareRows

\* When requests do not overlap, every counter is off by at most what failures
\* and kills cost: the references of a content, the files of a user and, upwards,
\* the shared files.
CountersDrift == ReferencesDrift /\ UserCountDrift /\ SharesNotAbove

\* However share_file, pv_file and the building of the ranking interleave:
\* without failures no shared file is missing from the ranking once they have
\* ended, because share_file writes its row before redis and the ranking is
\* deleted before the rows are read.
NothingMissing ==
  Idle({"filesop", "sharefilesop", "sharefiles"}) => SharedMembers \subseteq zset \cap hash

\* When requests do not overlap and nothing fails, the ranking never shows more
\* downloads of a file than share_file_list has counted.  A failure can leave a
\* member with its old score, over a row that starts again from 0.
ScoresNotAbove ==
  Quiet /\ faults = 0 => \A x \in zset \cap SharedMembers : score[x] <= Downloads(x)

\* When requests do not overlap and nothing fails, a ranking is refused (015)
\* only when no file is shared, or when cancels have counted the shared files
\* down to none and deleted the row of their number.
RankingAnswered ==
  reply # NoReply /\ reply.prog = "sharefiles" /\ reply.code = "015" /\ faults = 0
    => SharedMembers = {} \/ ~HasRow(user_file_count, ShareUser)

\* When requests do not overlap and nothing fails, a delete of a listed file is
\* refused only while the members of the ranking differ in score, which
\* misleads ZLEXCOUNT, or for a member that an earlier delete has left behind.
DeleteRefused ==
  reply # NoReply /\ reply.code = "014" /\ faults = 0 /\ Listed(reply.key)
    => \/ \E x, y \in zset : score[x] # score[y]
       \/ MemberOf(reply.key) \in Stale /\ ~HasRow(user_file_count, ShareUser)

\* 012 (share) is true however filesop interleaves with upload and md5, as long
\* as nothing fails: some user shares the file, and it is in the ranking, even
\* after another user's delete of the same content and name has taken it out.
SharedAgain ==
  reply # NoReply /\ reply.code = "012" /\ faults = 0 =>
    LET x == MemberOf(reply.key) IN x \in zset /\ Sharers(x) # {}

------------------------------------------------------------------------------
(* What makes StaleMembersBounded and SharedAgain inductive *)

\* What they need of a deployment: nobody gives members different scores, and
\* share_file and del_file alone change the ranking.
SharesOnly == Commands \cap {"pv", "cancel", "pvdesc"} = {}

PvLabels == {"pv_select", "pv_update", "pv_zexit", "pv_zincr", "pv_zadd", "pv_hset"}
RankLabels == ShareListLabels \ {"ls_count", "ls_normal"}

\* The member that del_file is taking out.
Leaving ==
  IF pc["filesop"] \in {"del_selshares", "del_shares", "del_zrem"}
  THEN {MemberOf(me.key)} ELSE {}

\* All members, and the one that share_file is about to count.
Members == zset \cup SharedMembers
Entering ==
  IF \/ pc["filesop"] = "sh_selcount"
     \/ pc["filesop"] = "sh_count" /\ me.sql = "insert"
  THEN {MemberOf(me.key)} ELSE {}

\* del_file has seen a member of the ranking, and share_file has written a row.
RankingKnown ==
  /\ pc["filesop"] = "del_status" => MemberOf(me.key) \notin zset
  /\ pc["filesop"] \in {"del_share", "del_selshares", "del_shares"}
       /\ MemberOf(me.key) \in zset => me.flag = 1
  /\ pc["filesop"] \in {"sh_selcount", "sh_count", "sh_zadd"} =>
       HasRow(share_file_list, me.key)
  /\ pc["filesop"] = "sh_readd" => Sharers(MemberOf(me.key)) # {}
  /\ pc["filesop"] = "sh_count" /\ me.sql = "update" => HasRow(user_file_count, ShareUser)

\* A member that stays behind costs a failure.  As long as the shared files have
\* no count, which makes del_file give up, every member has cost one.
RankingInv ==
  /\ \A x \in ShareKey : score[x] = 0
  /\ pc["sharefilesop"] \notin PvLabels \cup CancelLabels /\ pc["sharefiles"] \notin RankLabels
  /\ RankingKnown
  /\ IsFiniteSet(Members)
  /\ Cardinality(Stale \ Leaving) <= faults
  /\ ~HasRow(user_file_count, ShareUser) => Cardinality(Members \ Entering) <= faults
  /\ SharedAgain

------------------------------------------------------------------------------
(* What makes SharesNotAbove inductive *)

\* As long as nothing has failed, a file is shared once, share_file counts a row
\* that is there, and del_file and cancel_share_file count off what they read.
\* In between, share_file and cancel_share_file have a row more than they count,
\* and del_file has one less.
SharesInv ==
  faults = 0 =>
    /\ IsFiniteSet(ShareEntries)
    /\ CountedFiles(ShareUser)
         + One(pc["filesop"] \in {"sh_selcount", "sh_count"} \/ pc["sharefilesop"] = "ca_share")
         <= ShareRows + One(pc["filesop"] \in {"del_selshares", "del_shares"})
    /\ \A k \in FileKey : Len(share_file_list[k]) <= 1
    /\ pc["filesop"] \in {"sh_status", "sh_insert"} => ~HasRow(share_file_list, me.key)
    /\ pc["filesop"] = "sh_count" => CountKnown("filesop", ShareUser)
    /\ pc["filesop"] = "del_shares" =>
         HasRow(user_file_count, ShareUser) /\ me.count = CountedFiles(ShareUser)
    /\ pc["sharefilesop"] = "ca_shares" =>
         HasRow(user_file_count, ShareUser) /\ op.count = CountedFiles(ShareUser)

------------------------------------------------------------------------------
(* What makes ScoresNotAbove inductive *)

\* As long as nothing has failed, a file is shared by one user and once.  Its
\* score is at most the downloads of its row, except while share_file has a new
\* row for a member that an earlier delete left behind.
OneSharer ==
  /\ \A j, k \in FileKey :
       HasRow(share_file_list, j) /\ HasRow(share_file_list, k) /\ MemberOf(j) = MemberOf(k)
         => j = k
  /\ \A k \in FileKey : Len(share_file_list[k]) <= 1

ScoreBelow(k) ==
  HasRow(share_file_list, k) =>
    /\ FirstRow(share_file_list, k) >= 0
    /\ \/ MemberOf(k) \notin zset
       \/ Sharing(MemberOf(k), {"sh_selcount", "sh_count", "sh_zadd"})
       \/ score[MemberOf(k)] <= FirstRow(share_file_list, k)

\* The downloads that pv_file and the ranking have read are those of the row.
DownloadsAre(x, n) == \A k \in Sharers(x) : FirstRow(share_file_list, k) = n

DownloadsKnown ==
  /\ pc["filesop"] \in {"sh_status", "sh_insert"} => ~SharedByAnyone(me.key)
  /\ pc["filesop"] = "sh_count" /\ me.sql = "insert" => ~HasRow(user_file_count, ShareUser)
  /\ pc["sharefilesop"] = "pv_update" => DownloadsAre(MemberOf(op.key), op.count)
  /\ pc["sharefilesop"] \in {"pv_zexit", "pv_zincr", "pv_zadd"} =>
       /\ DownloadsAre(MemberOf(op.key), op.count + 1)
       /\ Sharers(MemberOf(op.key)) # {} /\ MemberOf(op.key) \in zset
            => score[MemberOf(op.key)] <= op.count
  /\ pc["sharefilesop"] = "pv_zincr" => MemberOf(op.key) \in zset
  /\ pc["sharefiles"] \in {"rk_zadd", "rk_hset"} =>
       \A r \in rk.rows : DownloadsAre(r.member, r.pv)

ScoresInv == faults = 0 => OneSharer /\ (\A k \in FileKey : ScoreBelow(k)) /\ DownloadsKnown

------------------------------------------------------------------------------
(* What makes NothingMissing inductive *)

\* What it needs of a deployment: no command takes a file out of the ranking,
\* and no call fails.
OnlyAdds == Commands \cap {"del", "cancel"} = {} /\ MaxFaults = 0

\* The loop of get_ranking_filelist has yet to add member x.
Rebuilding(x) ==
  pc["sharefiles"] \in {"rk_zadd", "rk_hset"} /\ \E r \in rk.rows : r.member = x

\* A shared file is in each redis key, or share_file or the ranking that is being
\* built is still going to add it.
ToBeRanked(x) ==
  \/ x \in zset
  \/ Sharing(x, {"sh_selcount", "sh_count", "sh_zadd"})
  \/ pc["sharefiles"] \in {"rk_delhash", "rk_rows"} \/ Rebuilding(x)
ToBeNamed(x) ==
  \/ x \in hash
  \/ Sharing(x, {"sh_selcount", "sh_count", "sh_zadd", "sh_hset"})
  \/ pc["sharefiles"] = "rk_rows" \/ Rebuilding(x)
  \/ pc["sharefiles"] = "rk_hset" /\ rk.member = x

CompleteInv ==
  /\ pc["filesop"] \notin DelLabels /\ pc["sharefilesop"] \notin CancelLabels
  /\ pc["filesop"] = "sh_count" /\ me.sql = "insert" => ~HasRow(user_file_count, ShareUser)
  /\ \A x \in SharedMembers : ToBeRanked(x) /\ ToBeNamed(x)
=============================================================================
