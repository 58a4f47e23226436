------------------------------ MODULE Accounts ------------------------------
(***************************************************************************)
(* The counters of CloudDisk against the rows they count.  No counter is   *)
(* computed by the database: every program reads one, adds or subtracts 1  *)
(* and writes it back in a later statement, outside any transaction.       *)
(***************************************************************************)
EXTENDS FileStore, FiniteSetsExt

\* All programs wait for requests.
Quiet == \A p \in Programs : pc[p] = "idle"

\* The rows of a table under some of its keys.
RowsOf(table, keys) == UNION {{k} \X (1..Len(table[k])) : k \in keys}

\* The entries of user_file_list for a content, and for a user.
ContentKeys(m) == {k \in FileKey : k.md5 = m}
UserKeys(u) == {k \in FileKey : k.user = u}
Entries(m) == RowsOf(user_file_list, ContentKeys(m))
EntriesOf(u) == RowsOf(user_file_list, UserKeys(u))
ReferencesTo(m) == Cardinality(Entries(m))
FilesOf(u) == Cardinality(EntriesOf(u))

\* The counters: a missing row counts nothing.
CountedReferences(m) ==
  IF HasRow(file_info, m) THEN FirstRow(file_info, m).count ELSE 0
CountedFiles(a) ==
  IF HasRow(user_file_count, a) THEN FirstRow(user_file_count, a) ELSE 0

Distance(a, b) == IF a < b THEN b - a ELSE a - b

\* When requests do not overlap, the reference count of a content differs from
\* the entries of user_file_list by at most one for every call that failed or
\* program that was killed; with no failure it is exact, so del_file removes
\* the object of a content with its last entry.
ReferencesDrift ==
  Quiet => \A m \in Md5s : Distance(CountedReferences(m), ReferencesTo(m)) <= faults

\* The same for the number of files of a user that cgi_files reports.
UserCountDrift ==
  Quiet => \A u \in Users : Distance(CountedFiles(u), FilesOf(u)) <= faults

\* The objects that no row of file_info names.
Orphans == {f \in storage : ~Linked(f)}

\* When requests do not overlap and clients send only what the md5 check right
\* before it did not find, every object without a row costs a failure of its own, and so
\* does every temporary file that cgi_upload leaves behind.
LeakBounded ==
  Quiet => Cardinality(Orphans) <= faults /\ Cardinality(tmpfiles) <= faults

------------------------------------------------------------------------------
(* What the clients are told *)

Listed(k) == HasRow(user_file_list, k)
Stored(k) == HasRow(file_info, k.md5)

\* When requests do not overlap, an answer is true at the moment it is sent,
\* whatever failed before: after 008 (upload) the file is listed and stored,
\* after 004 (md5) the user has the file, after 013 (delete) the user no
\* longer does, after 010 (share) the file is in the list of shared ones, after
\* 018 (cancel) it is neither there nor in the ranking, and after 020 (save) the
\* file is listed and stored.
AnswersTrue ==
  reply # NoReply =>
    CASE reply.code = "008" -> Listed(reply.key) /\ Stored(reply.key)
      [] reply.code = "004" -> Listed(reply.key)
      [] reply.code = "013" -> ~Listed(reply.key)
      [] reply.code = "020" -> Listed(reply.key) /\ Stored(reply.key)
      [] reply.code = "010" -> HasRow(share_file_list, reply.key)
      [] reply.code = "018" -> /\ ~HasRow(share_file_list, reply.key)
                               /\ MemberOf(reply.key) \notin zset \cup hash
      [] OTHER -> TRUE

\* When requests do not overlap, no failure and no kill takes the content of a
\* file that some user still lists: the calls are ordered so that whatever is
\* missing, the reference count is too high and never too low.
ListedFilesStored == \A k \in FileKey : Listed(k) => Stored(k)

\* "// success:  {"code":"005"}" (cgi_md5.c:129): after 005 the file is listed
\* for the user and its content is stored.
Md5SuccessRecorded ==
  reply # NoReply /\ reply.code = "005" => Listed(reply.key) /\ Stored(reply.key)

\* "// get file number of a user" (cgi_files.c:117): when no request is being
\* served, the count that cgi_files reports is the number of the user's files.
UserCountExact == Quiet => \A u \in Users : CountedFiles(u) = FilesOf(u)

------------------------------------------------------------------------------
(* Shared files *)

\* A file in the list of shared files is one its owner still has: share_file
\* sets shared_status before it inserts the row, and del_file deletes the row
\* before the entry of user_file_list, even when redis has lost the member.
ShareRowsListed ==
  \A k \in FileKey : HasRow(share_file_list, k) => Listed(k)

\* A member of FILE_PUBLIC_ZSET that nobody shares any more costs a failure of
\* its own (of ZREM, or a kill between the row's deletion and ZREM).
StaleMembersBounded ==
  pc["filesop"] = "idle" =>
    Cardinality({x \in zset : \A k \in FileKey :
                   MemberOf(k) = x => ~HasRow(share_file_list, k)}) <= faults

------------------------------------------------------------------------------
(* Liveness, under FairSpec *)

\* Every request is answered or its program killed: no handler waits for
\* another one, whatever the others do to the rows it has read.
RequestsEnd == \A p \in Programs : (pc[p] # "idle") ~> (pc[p] = "idle")

\* With a key on file_info.md5 and without failures, an object whose row
\* del_file deletes is removed from FastDFS, whatever uploads and md5 requests
\* for the same content do between its select, its delete and the removal.  (The
\* object of an upload whose row is refused by the key never has a row, and stays.)
UnlinkedRemoved == Life!UnlinkedGo

------------------------------------------------------------------------------
(* What makes ShareRowsListed inductive *)

\* What it needs of a deployment: cancel_share_file resets shared_status before
\* it deletes the row, so that a delete in between leaves the row behind.
ListsShares == (ListedOnly \/ "share" \notin Commands) /\ "cancel" \notin Commands

CancelLabels == {"ca_status", "ca_selshares", "ca_shares", "ca_share", "ca_zrem",
                 "ca_hdel"}

\* The first row of the file says that it is shared.
Marked(k) == Listed(k) /\ FirstRow(user_file_list, k) = 1

\* A shared file is marked before it has a row in share_file_list, and del_file
\* has deleted that row by the time it deletes the entry of user_file_list.
ShareListInv ==
  /\ \A k \in FileKey : HasRow(share_file_list, k) => Marked(k)
  /\ pc["filesop"] \in {"sh_zexit", "sh_select", "sh_readd", "sh_status"} => Listed(me.key)
  /\ pc["filesop"] = "sh_insert" => Marked(me.key)
  /\ pc["filesop"] \in {"del_selshares", "del_shares", "del_zrem", "del_hdel",
                        "del_selcount", "del_count", "del_list"} =>
       ~HasRow(share_file_list, me.key)
  /\ pc["sharefilesop"] \notin CancelLabels

------------------------------------------------------------------------------
(* What makes ListedFilesStored, AnswersTrue and LeakBounded inductive *)

\* What they need of the clients: they wait for each other, and act on what they
\* are shown.
Waiting == Serial /\ ListedOnly

OneAtATime ==
  \A p, q \in Programs : pc[p] # "idle" /\ pc[q] # "idle" => p = q

\* A program has counted an entry of content m that it has not inserted yet, or
\* has deleted one that is still counted.
Owed(m) ==
  \/ pc["upload"] = "up_list" /\ loc["upload"].key.md5 = m
  \/ pc["md5"] = "md5_inslist" /\ loc["md5"].key.md5 = m
  \/ pc["filesop"] \in {"del_selref", "del_ref"} /\ me.key.md5 = m
  \/ pc["sharefilesop"] = "sv_inslist" /\ op.key.md5 = m

\* The reference count of a content is never too low.
Covered(m) ==
  /\ IsFiniteSet(Entries(m))
  /\ Cardinality(Entries(m)) + (IF Owed(m) THEN 1 ELSE 0) <= CountedReferences(m)

OneRow == \A m \in Md5s : Len(file_info[m]) <= 1

UploadKnows ==
  LET k == loc["upload"].key IN
  /\ pc["upload"] \in {"up_recv", "up_dstorage", "up_url", "up_info"} => ~Stored(k)
  /\ pc["upload"] \in {"up_selcount", "up_count"} => Listed(k) /\ Stored(k)

Md5Knows ==
  pc["md5"] \in {"md5_list", "md5_addref"} =>
    Stored(loc["md5"].key) /\ loc["md5"].count = CountedReferences(loc["md5"].key.md5)

DelKnows ==
  /\ pc["filesop"] \in {"del_zexit", "del_status", "del_share", "del_selshares", "del_shares",
                        "del_zrem", "del_hdel", "del_selcount", "del_count", "del_list"} =>
       Listed(me.key)
  /\ pc["filesop"] \in {"del_selref", "del_ref", "del_selid", "del_info", "del_remove"} =>
       ~Listed(me.key)
  /\ pc["filesop"] = "del_ref" => me.count = CountedReferences(me.key.md5) - 1
  /\ pc["filesop"] \in {"del_selid", "del_info"} => CountedReferences(me.key.md5) = 0

ShareKnows ==
  pc["filesop"] \in {"sh_selcount", "sh_count", "sh_zadd", "sh_hset"} =>
    HasRow(share_file_list, me.key)

CancelKnows ==
  /\ pc["sharefilesop"] \in {"ca_zrem", "ca_hdel"} => ~HasRow(share_file_list, op.key)
  /\ pc["sharefilesop"] = "ca_hdel" => MemberOf(op.key) \notin zset

SaveKnows ==
  /\ pc["sharefilesop"] = "sv_ref" =>
       Stored(op.key) /\ op.count = CountedReferences(op.key.md5)
  /\ pc["sharefilesop"] \in {"sv_selcount", "sv_count"} => Listed(op.key) /\ Stored(op.key)

\* The inductive invariant of what is listed, stored and answered.
SerialInv ==
  /\ OneAtATime
  /\ \A m \in Md5s : Covered(m)
  /\ OneRow
  /\ UploadKnows /\ Md5Knows /\ DelKnows /\ ShareKnows /\ CancelKnows /\ SaveKnows
  /\ AnswersTrue

\* The object that the program at work is going to record or to remove, and the
\* temporary file that it is going to unlink.
Held ==
  (IF pc["upload"] \in {"up_url", "up_info"} THEN {loc["upload"].fileid} ELSE {})
    \cup (IF pc["filesop"] = "del_remove" THEN {me.fileid} ELSE {})
HeldFile == IF pc["upload"] = "up_dstorage" THEN {loc["upload"].key.name} ELSE {}

\* What is left behind costs a failure.
LeakInv ==
  /\ IsFiniteSet(Orphans) /\ Cardinality(Orphans \ Held) <= faults
  /\ IsFiniteSet(tmpfiles) /\ Cardinality(tmpfiles \ HeldFile) <= faults

------------------------------------------------------------------------------
(* What makes ReferencesDrift and UserCountDrift inductive *)

ListedAmong(keys) == {k \in keys : Listed(k)}
One(b) == IF b THEN 1 ELSE 0

\* Where a program is about to insert an entry because it took the user not to
\* have the file, and where one has inserted an entry that the user's count does
\* not have yet, or taken one from the count that is still there.
AddingLabels == {"md5_addref", "md5_inslist", "sv_selref", "sv_ref", "sv_inslist"}
CountLabels == {"up_count", "md5_count", "sv_count"}
BetweenLabels ==
  {"up_selcount", "md5_selcount", "sv_selcount", "del_list"} \cup CountLabels

\* A program is going to list one of the files twice: a failed select told it
\* that the user does not have the file.
Doubling(keys) ==
  \E p \in Programs :
    pc[p] \in AddingLabels /\ loc[p].key \in keys /\ Listed(loc[p].key)

\* A program is between an entry of one of the files and the user's count, and
\* goes on to the other; it does not when the select of the count has failed.
Between(keys) ==
  \E p \in Programs : pc[p] \in BetweenLabels /\ loc[p].key \in keys
Counting(keys) ==
  \E p \in Programs :
    /\ pc[p] \in BetweenLabels /\ loc[p].key \in keys
    /\ pc[p] \in CountLabels => loc[p].sql \in {"insert", "update"}

\* The references of a content exceed its listed files by what failures cost.
\* Files are counted, not entries: del_file deletes all entries of a file that is
\* listed twice, and takes one from the counts.
ReferencesBound(m) ==
  CountedReferences(m) + One(Doubling(ContentKeys(m)))
    <= Cardinality(ListedAmong(ContentKeys(m))) + One(Owed(m)) + faults

\* The same for the count of a user, which may also be too low.
FilesBound(u) ==
  /\ IsFiniteSet(EntriesOf(u))
  /\ CountedFiles(u) + One(Between(UserKeys(u))) + One(Doubling(UserKeys(u)))
       <= Cardinality(ListedAmong(UserKeys(u))) + faults
  /\ FilesOf(u) <= CountedFiles(u) + One(Counting(UserKeys(u))) + faults

\* The count that program p writes back is still the one in account a's row.
CountKnown(p, a) ==
  /\ loc[p].sql = "update" =>
       HasRow(user_file_count, a) /\ loc[p].count = CountedFiles(a)
  /\ loc[p].sql = "insert" => ~HasRow(user_file_count, a)

CountsKnown ==
  /\ pc["upload"] = "up_list" => ~Listed(loc["upload"].key)
  /\ \A p \in Programs : pc[p] \in CountLabels => CountKnown(p, loc[p].key.user)
  /\ pc["filesop"] = "del_count" =>
       HasRow(user_file_count, me.key.user) /\ me.count = CountedFiles(me.key.user)

\* What a counter is off has cost failures.
DriftInv ==
  /\ \A m \in Md5s : ReferencesBound(m)
  /\ \A u \in Users : FilesBound(u)
  /\ CountsKnown
=============================================================================
