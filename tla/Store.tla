-------------------------------- MODULE Store --------------------------------
(***************************************************************************)
(* The state that the CGI programs of CloudDisk share (the MySQL tables,   *)
(* the redis keys of the shared files, the objects in FastDFS), the state  *)
(* of each program while it serves a request, and the steps that several   *)
(* programs have in common.  The programs themselves are the modules       *)
(* Upload, Md5, FilesOp, ShareOp and ShareList; FileStore composes them.   *)
(*                                                                         *)
(* fcgi.sh starts one process per program and each one serves a request at *)
(* a time, so a program is a process with a program counter.  A step is    *)
(* one SQL statement, redis command or FastDFS call together with the      *)
(* code that follows it up to the next one: only those touch shared state. *)
(***************************************************************************)
EXTENDS Tables, FiniteSets

CONSTANTS
  Users,        \* user names
  Md5s,         \* md5 values of the files' contents
  Names,        \* file names
  FileIds,      \* file ids that FastDFS hands out, each at most once (a bound on
                \* the uploads)
  Sizes,        \* what an uninitialized long of cgi_upload's main may hold
  ShareUser,    \* "xxx_share_xxx_file_xxx_list_xxx_count_xxx"
  NoKey,        \* the user, md5 and filename buffers hold nothing
  NoFile,       \* the fileid buffer is empty
  NoMd5,        \* FastDFS has not handed out the file id yet
  NoReply,      \* no program is answering
  LexRank,      \* the place of a redis member in the order of sdscmp
  Pages,        \* the pages <<start, count>> that clients ask for
  Commands,     \* the commands that the deployed programs answer
  UniqueKeys,   \* does the schema declare file_info.md5 and
                \* user_file_count.user as keys?
  Serial,       \* do the clients wait for each other's answers?
  ListedOnly,   \* do the clients act only on files they are shown (delete
                \* and share what they list, cancel what they share, view
                \* and save what is shared), and send only files whose md5
                \* is unknown at that moment (Upload.vue, where the answer
                \* to the md5 request may be older)?
  MaxRequests,  \* bound on the requests that are served
  MaxFaults     \* bound on the failures of calls and of programs

FileKey == [user : Users, md5 : Md5s, name : Names]

\* The member of the redis keys for a file: sprintf(fileid, "%s%s", md5,
\* filename).
ShareKey == [md5 : Md5s, name : Names]
MemberOf(k) == [md5 |-> k.md5, name |-> k.name]

ASSUME ConstantsAssumption ==
  /\ ShareUser \notin Users
  /\ NoKey \notin FileKey
  /\ NoFile \notin FileIds
  /\ NoMd5 \notin Md5s
  /\ MaxRequests \in Nat
  /\ MaxFaults \in Nat
  /\ UniqueKeys \in BOOLEAN /\ Serial \in BOOLEAN /\ ListedOnly \in BOOLEAN
  /\ Commands \subseteq {"upload", "md5", "del", "share", "pv", "cancel", "save",
                          "count", "normal", "pvdesc"}
  /\ LexRank \in [ShareKey -> Nat]
  /\ \A x, y \in ShareKey : LexRank[x] = LexRank[y] => x = y
  /\ Pages \subseteq Nat \X Nat

\* The programs, one process each (fcgi.sh; the last two have no line in it
\* at this commit).
Programs == {"upload", "md5", "filesop", "sharefilesop", "sharefiles"}

VARIABLES
  file_info,        \* md5 -> rows with the stored object and its references
  user_file_list,   \* file key -> the shared_status of its rows
  user_file_count,  \* user or ShareUser -> rows with a count
  share_file_list,  \* file key -> the pv of its rows
  zset,             \* members of FILE_PUBLIC_ZSET (md5 with filename)
  score,            \* member -> its score in FILE_PUBLIC_ZSET, 0 if none
  hash,             \* fields of FILE_NAME_HASH (md5 with filename)
  storage,          \* the objects that are in FastDFS
  content,          \* file id -> the md5 of the content it was handed out for
  tmpfiles,         \* temporary files in cgi_upload's working directory
  pc,               \* program -> the call it makes next
  loc,              \* program -> its local variables
  reply,            \* the answer that a program has just sent
  served,           \* requests accepted so far
  faults            \* failures so far

mysql == <<file_info, user_file_list, user_file_count, share_file_list>>
redis == <<zset, score, hash>>
fdfs  == <<storage, content, tmpfiles>>
vars  == <<mysql, redis, fdfs, pc, loc, reply, served, faults>>

FileRow == [file_id : FileIds, url : Seq(FileIds), size : Sizes, count : Int]

\* key: the buffers user, md5 and filename; fileid: the id of an object; url:
\* the ids that strcat has put into fdfs_file_url; count: the last count read;
\* share, flag: the variables of del_file; sql: the statement in sql_cmd;
\* rows, page, member: what the loops of get_ranking_filelist have left to add
\* to redis and to read from it, and the member they are at.
ShareRow == [member : ShareKey, pv : Int]
Locals == [key : FileKey \cup {NoKey}, fileid : FileIds \cup {NoFile},
           url : Seq(FileIds), count : Int, share : {0, 1}, flag : {0, 1},
           sql : {"none", "insert", "update", "select"},
           rows : SUBSET ShareRow, page : SUBSET ShareKey,
           member : ShareKey \cup {NoKey}]

\* The locals of a program that has no request.
Blank == [key |-> NoKey, fileid |-> NoFile, url |-> <<>>, count |-> 0,
          share |-> 0, flag |-> 0, sql |-> "none",
          rows |-> {}, page |-> {}, member |-> NoKey]

------------------------------------------------------------------------------
(* Control *)

\* FCGI_Accept returns a request for file k; the program's first call is at l.
Accept(p, k, l) ==
  /\ pc[p] = "idle"
  /\ served < MaxRequests
  /\ Serial => \A q \in Programs : pc[q] = "idle"
  /\ pc' = [pc EXCEPT ![p] = l]
  /\ loc' = [loc EXCEPT ![p].key = k]
  /\ reply' = NoReply
  /\ served' = served + 1
  /\ UNCHANGED faults

\* The program goes on with the call at l and the locals v.
Goto(p, l, v) ==
  /\ pc' = [pc EXCEPT ![p] = l]
  /\ loc' = [loc EXCEPT ![p] = v]
  /\ reply' = NoReply
  /\ UNCHANGED served

\* Faulty variant: no memset, the buffers keep their contents.
FinishKeepsBuffers(p, code) ==
  /\ pc' = [pc EXCEPT ![p] = "idle"]
  /\ reply' = [prog |-> p, key |-> loc[p].key, code |-> code]
  /\ UNCHANGED <<loc, served>>

\* END: the program answers and waits for the next request.  The locals are
\* those of the request's handler, or cleared with memset (cgi_upload).  The
\* buffers that cgi_filesop's main keeps are overwritten by the next request,
\* whose missing fields leave old values: Accept's k is any file either way.
Finish(p, code) ==
  /\ pc' = [pc EXCEPT ![p] = "idle"]
  /\ loc' = [loc EXCEPT ![p] = Blank]
  /\ reply' = [prog |-> p, key |-> loc[p].key, code |-> code]
  /\ UNCHANGED served

\* A call fails: mysql_query, a connection, a redis command, fork, FastDFS.
Fault == faults < MaxFaults /\ faults' = faults + 1
NoFault == UNCHANGED faults

\* A program is killed in the middle of a request (fcgi.sh stop) or dies in it
\* (make_file_url when fdfs_file_info prints no address), and starts anew.
Crash(p) ==
  /\ pc[p] # "idle"
  /\ Fault
  /\ pc' = [pc EXCEPT ![p] = "idle"]
  /\ loc' = [loc EXCEPT ![p] = Blank]
  /\ reply' = NoReply
  /\ UNCHANGED <<mysql, redis, fdfs, served>>

------------------------------------------------------------------------------
(* The sorted set, as redis keeps it (lib/redis/src/t_zset.c)              *)

\* The order of a sorted set: by score, and by sdscmp among equal scores.
Before(x, y) ==
  \/ score[x] < score[y]
  \/ score[x] = score[y] /\ LexRank[x] < LexRank[y]

\* ZADD of a member, whether or not it is in the set, and ZREM.
ZAdd(x, n) == zset' = zset \cup {x} /\ score' = [score EXCEPT ![x] = n]
ZRem(x) == zset' = zset \ {x} /\ score' = [score EXCEPT ![x] = 0]

\* ZLEXCOUNT key [x [x, which rop_zset_exit asks for x.  The command takes the
\* set to be in the order of sdscmp, as it is when all scores are equal: it
\* answers 0 when the last element is below x or an element before x is above
\* it, and otherwise counts from x on until an element is above x.  This is
\* the command on a set of at most 128 short members; redis keeps a larger one
\* as a skiplist and counts by rank there, with other results for unequal scores.
ZLexCount(x) ==
  LET Above(y) == LexRank[y] > LexRank[x]
      Last(y) == \A z \in zset : z = y \/ Before(z, y)
  IN
  IF \/ x \notin zset
     \/ \E y \in zset : Before(y, x) /\ Above(y)
     \/ \E y \in zset : Last(y) /\ LexRank[y] < LexRank[x]
  THEN 0
  ELSE Cardinality({y \in zset : /\ y = x \/ Before(x, y)
                                 /\ ~Above(y)
                                 /\ \A z \in zset : Before(x, z) /\ Before(z, y)
                                                       => ~Above(z)})

------------------------------------------------------------------------------
(* The tail that upload, md5, share_file and save_file share: one more     *)
(* file in the count of account a.  An error of the select leaves the      *)
(* select in sql_cmd, which is then executed again.                        *)

SelectCountToAdd(p, a, from, to) ==
  /\ pc[p] = from
  /\ \/ /\ HasRow(user_file_count, a)
        /\ Goto(p, to, [loc[p] EXCEPT !.sql = "update",
                                      !.count = FirstRow(user_file_count, a)])
        /\ NoFault
     \/ /\ ~HasRow(user_file_count, a)
        /\ Goto(p, to, [loc[p] EXCEPT !.sql = "insert"])
        /\ NoFault
     \/ Fault /\ Goto(p, to, [loc[p] EXCEPT !.sql = "select"])
  /\ UNCHANGED <<mysql, redis, fdfs>>

\* The statement in sql_cmd is executed: the effect on user_file_count.
AddToCount(p, a) ==
  CASE loc[p].sql = "update" ->
         user_file_count' = UpdateWhere(user_file_count, a, loc[p].count + 1)
    [] loc[p].sql = "insert" ->
         user_file_count' = Insert(user_file_count, a, 1)
    [] OTHER -> UNCHANGED user_file_count

\* mysql_query refuses the statement: a second row for a key.
CountRefused(p, a) ==
  UniqueKeys /\ loc[p].sql = "insert" /\ HasRow(user_file_count, a)
=============================================================================
