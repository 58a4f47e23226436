# CloudDisk: TLA+ models, model checking and proofs

CloudDisk is a network disk: a Vue client, nginx, six FastCGI programs written
in C (`src/src/cgi`, helpers in `src/src/common`), MySQL for the records, redis
for tokens and shared files, and FastDFS for the contents. This directory
describes the programs in TLA+, checks them with TLC on small instances and
proves the main invariants with TLAPS for every value of the parameters.

Paths below are relative to the repository's `src/src` unless they begin with
another directory. `PROJECT.json` maps every definition to the lines it
models and lists the hazards at their lines.

## 1. Inventory

`fcgi.sh` starts each program once, and each serves one request at a time:
there are no threads, but the programs run side by side and meet in MySQL,
redis and FastDFS. No statement runs in a transaction. Every counter is read by
one statement, changed in C and written by another.

| Component | State it keeps | Operations | Meets |
|---|---|---|---|
| upload (`cgi_upload.c`) | temporary file, `fileid` and url buffers that outlive a request, child processes and pipes | receive, store in FastDFS, make the url, insert into `file_info` and `user_file_list`, add to `user_file_count` | MySQL, FastDFS; md5 and filesop through the tables |
| md5 (`cgi_md5.c`) | none | find a content; give the user one more reference to it | MySQL |
| filesop (`cgi_filesop.c`) | buffers of `main` | `del_file`: share rows, counts, entry, reference, content; `share_file` (dispatch commented out at this commit) | MySQL, redis zset and hash, FastDFS |
| register (`cgi_register.c`) | none | look for the name, insert the user | MySQL table `user` |
| login (`cgi_login.c`) | none | compare the password, make a token, SETEX for 24 h | MySQL, redis |
| files (`cgi_files.c`) | user and token buffers that outlive a request | verify the token twice, list the user's files | redis, MySQL |
| sharefilesop (`cgi_sharefilesop.c`) | buffers of `main` | `pv_file`, `cancel_share_file`, `save_file` | MySQL, redis; neither built nor routed at this commit |
| sharefiles (`cgi_sharefiles.c`) | none | number and list of shared files, ranking that rebuilds the redis keys | MySQL, redis; neither built nor routed at this commit |
| helpers (`common/`) | none | `process_result_one`, redis wrappers, `verify_token`, text helpers, base64, DES, MD5 | called by the programs |
| `fcgi.sh` | none | start; `kill -9` of every program | ends a program between any two calls |
| web client (`web/clouddisk`) | form, token, list of files, upload list, `info.fileInfo` | log in; md5 check and post; list; delete | HTTP; callbacks in any order |

What is hard here:

* **Interleaving.** upload, md5 and filesop read and write the same counters;
  a content may be referenced by one user while another deletes it.
* **Order and partial failure.** A delete makes up to fifteen calls and returns
  at the first that fails; nothing is rolled back and clients repeat requests.
* **Kills** between two calls leave objects, temporary files and half-changed
  counters.
* **Error outcomes** of `process_result_one` (-1 error, 0 row, 1 no row, 2 row
  not copied), which callers test in different ways, or not at all.
* **State across requests**: buffers declared outside the request loop.
* **fork, pipe, execlp** in upload: two children and one `wait` per request, and
  a child that returns into the request loop when `execlp` fails.
* **Three copies** of the list of shared files: rows in MySQL, a count in MySQL,
  a sorted set and a hash in redis, changed one after the other by four programs
  and rebuilt by a fifth.
* **Callbacks** of the pages, which read a form, an array or `info.fileInfo`
  that has changed since the request was sent.
* **Boundaries** of text and binary algorithms: searches in buffers without an
  end mark, padding, carries.
* **Time**: tokens expire, and are a function of the user and the second.

What makes the system correct: a recorded content can be fetched; an object
belongs to one record; a listed file keeps its content; counters agree with the
rows they count; an answer is true; what is left behind by failures is bounded
by the failures; every request ends; a token is good for exactly as long as the
client was told, and only such a token opens a listing.

## 2. Modules

| Module | Models | State |
|---|---|---|
| `Tables` | SQL statements and `process_result_one` | operators on tables: key -> sequence of rows |
| `Store` | shared state, control common to the programs | tables, zset, hash, FastDFS, temporary files, program counters and locals |
| `Upload`, `Md5`, `FilesOp`, `ShareOp`, `ShareList` | one program each | one action per call |
| `FileStore` | the five programs together, kills, `Spec`, `FairSpec`, invariants, the mapping to `ObjectLife` | |
| `Accounts` | counters against rows, answers, liveness | |
| `SharedFiles` | rows, count and ranking of the shared files against each other | |
| `ObjectLife` | what the programs promise about an object in FastDFS (abstract) | file id -> phase |
| `Receive` | `recv_save_file` and `memstr` behind `UploadRecv` | body, heap behind it, pointers, temporary file |
| `UploadProcess` | the processes of `cgi_upload.c` behind two actions of `Upload` | process -> place, parent, pipe, buffers |
| `Session` | register, login, files, `verify_token`, the clock | users, tokens in redis, programs |
| `UploadPage` | Upload.vue with el-upload and the server's answers | file -> status, reads, checks and posts under way, the shared info |
| `DeletePage` | MyFiles.vue, FilesPage.vue and the buffers of filesop's `main` | rows, clicks, answers under way, buffers |
| `LoginPage` | LoginPage.vue and FilesPage.vue with login and files | form, session storage, calls under way, tokens and those that expired |
| `CgiText` | `trim_space`, `query_parse_key_value`, `get_file_suffix` | a text |
| `Base64` | base64.c | a sequence of bytes |
| `Md5Digest` | `MD5Update`, `MD5Final` | count, buffer, blocks digested |
| `MCFileStore`, `MCSession` | constants and symmetry for TLC | |
| `MCConcurrent`, `MCSerial`, `MCLiveness` | several instances of the modules above in one run | those of the instances, and which instance runs |
| `MCPages`, `MCHelpers` | the three pages, and the four helpers, in one run | theirs, and which page is shown or helper is run |
| `FileStoreProofs`, `ObjectLifeProofs` | theorems about objects and rows, the refinement | |
| `SharedFilesProofs` | theorems about shared files, interleaved | |
| `SerialProofs` | theorems about clients that wait for each other, with failures | |
| `SessionProofs`, `UploadProcessProofs`, `PagesProofs` | theorems about the module of that name, and about the three pages | |
| `HelperProofs` | theorems about `Receive`, `CgiText`, `Base64` and `Md5Digest` | |

A component's module ends with the definitions that make its invariants
inductive; the proofs are in the module named after it.

**Grain.** A step is one call that touches shared state (an SQL statement, a
redis command, a FastDFS client), with the C code that follows it up to the next
call. Code between two calls touches only locals, so no interleaving is lost.
A program is a process with a program counter: labels such as `del_selref` name
the call made next, and `Goto`, `Finish` and `Crash` are the ways on. Every call
has a failing alternative, bounded by `MaxFaults`, that follows the code's own
error path: an answer, an ignored result, or (a NULL reply, a NULL `strstr`) the
end of the process.

**Data.** Users, md5 values, names and file ids are model values. A table is a
function from the key that the `where` clauses use to the sequence of its rows,
so that duplicates are possible: the repository has no schema, and the constant
`UniqueKeys` says whether `file_info.md5` and `user_file_count.user` are keys.
The uninitialized `size` of `cgi_upload.c` is a choice from `Sizes`. A url is
the sequence of ids that `strcat` has put into the buffer. FastDFS hands out a
file id once. A token is a triple of a name, a second (`set_token` seeds `rand`
with the time) and what the uninitialized half of the round keys in des.c may hold
(`Garbage`, see section 5). Different triples are taken for different tokens; the
properties compare the token sent with the one in redis, and would hold as well if
two of them met. `Base64` and `Md5Digest` are about the steps behind DES.

**The sorted set.** redis orders members by score and, among equal scores, by
name. `rop_zset_exit` asks `ZLEXCOUNT key [m [m`, which is meant for sets of equal
scores. `ZLexCount` in `Store` says what redis answers for other scores (it takes
the set to be ordered by name): 0 for a member that is there, 1, or more. This is
for the compact encoding of up to 128 short members; a larger set is a skiplist,
which counts by rank. The constant `LexRank` is the order of the names.

**Requests.** `Commands` says what the deployment answers (`share` is commented
out in `main` and the last two programs are not built; they are modelled, and
enabled in the runs about shared files). `ListedOnly` says
whether clients act only on what they are shown: delete what is listed, send
only what the md5 check did not find. With `ListedOnly` that check and the
acceptance of the upload are one step, which leaves out a check that has become
outdated. It is set where clients wait for each other, in the *sharing* instance
of `concurrent`, whose properties are about share and delete (its *deployed*
instance lets uploads come at any time), and in `count_race` and `md5_race`, where
it only makes the violation harder to reach. `Serial` says whether requests overlap. The
runs about robustness leave both off. A request of filesop or md5 in these
modules is one whose token was accepted; `Session` is about the tokens.

**upload and its processes.** `Upload` has one action for each FastDFS client.
`UploadProcess` opens them up: pipe, fork, `execlp`, what the client prints, end
of file, `wait`, the orphaned and the unreaped child. `OneAtWork` is the link:
one process of the family works at a time, so that one sequential program is a
sound picture of it. It fails only after two failures of `execlp` and a kill of
the process in the middle. `Upload` itself assumes that the clients start.
Descriptors that failed requests leave open are not counted. `Receive` opens up
`UploadRecv` in the same way: a body is a sequence of symbols, fread stops
anywhere in it, and what lies behind it on the heap is any sequence of the same
symbols, the boundary of the request included.

**Objects.** `ObjectLife` is the promise: an id is handed out once, an object is
pending until its row is inserted, linked while a row names it, an orphan after
that or when its upload fails, and only orphans are removed. `ObjectPhase` in
`FileStore` computes the phase from FastDFS, `file_info` and upload's buffers;
`ObjectsLive` says that every step of the programs is a step of `ObjectLife` or
leaves all phases alone. `UnlinkedRemoved` is its liveness part: an object that
was linked and is an orphan is removed.

**Pages.** In `UploadPage`, `DeletePage` and `LoginPage` a request is an element
of the state while it is under way; its answer arrives at any later time, and
the callback acts on what the page holds then. el-upload is modelled from how
Upload.vue uses it: `submit` sends what is `ready`, on-change is called on
selection and again when a post has ended. A request to /delete in `DeletePage`
has the first *n* of the four fields; the delete button's request has one,
because `row` is the table and `row.md5` undefined. What the user does is fixed
at the start and part of the state: `patient` (the files are selected one after
the other, or at once), `chosen` (which files) and, on the login page, `steady`
(the form is left alone while it waits). A patient user waits until the page is
quiet, which includes the check that on-change starts again after an upload and
of which the page shows nothing; a user who goes by the visible success may
overlap it and belongs to those who are not patient. The server of `UploadPage`
refuses a second row for an md5 (a key on `file_info.md5`) and answers every check
that arrives; that of `LoginPage` may fail at any call, lose answers, and drops
tokens after their 24 hours.

## 3. Runs

A run of the modules `MCConcurrent`, `MCSerial`, `MCLiveness`, `MCPages` and
`MCHelpers` has several instances, each a line below: its variable (`instance`,
`shown` or `helper`) says which one a behaviour belongs to and never changes, so
the states of a run are the sum of those of its instances. An instance overrides
`Commands`, `Pages`, `Serial`, `ListedOnly` and the bounds; the state, and with it
the properties, are those of the module that the proofs are about. In `MCSerial`
an instance also has its own set of files that the clients ask for (`Asked`), and
FastDFS hands the ids out in order. A property that holds in some instances only
is an implication from them, and some are conjunctions of properties of the
modules, which are named in parentheses.

| Run | Instance | Shows |
|---|---|---|
| `concurrent` | *deployed*: 2 users, 1 md5, 1 name, 4 file ids, 4 requests, 2 faults, any client, no keys | `TypeOK`, `FileInfoBacked`, `ObjectsNotShared`, `UrlNamesObject`, `UserCountPositive`, `ObjectsLive` (refinement) under every interleaving |
| | *sharing*: the same sets, share enabled, 5 requests, 1 fault | the same, and `ShareRowsListed`, `StaleMembersBounded`, `SharedAgain` |
| `serial` | *files*: 2 users, 2 names, 6 requests one at a time, 2 faults, share and save enabled | `LeakBounded`, `AnswersTrue`, `ListedFilesStored` and `CountersDrift` (in all instances; `ReferencesDrift`, `UserCountDrift`: off by at most one per failure; `SharesNotAbove`: without failures no more shared files are counted than there are) |
| | *shared*: 2 contents, share, pv, cancel, del, ranking one at a time, 7 requests, 1 fault | `RankingTrue` (`ScoresNotAbove`, `RankingAnswered`, `DeleteRefused`, all without failures) |
| | *three*: 3 members, one request at a time, 7 requests, clients that act on anything: `ZLEXCOUNT` answers 0, 1 and 2 | `RankingTrue` (`ScoresNotAbove`) |
| | *ranking*: share, pv and ranking overlapping, 5 requests | `RankingComplete` (`NothingMissing`) |
| `liveness` | *files*: fairness, no faults, overlapping, 4 requests, 2 file ids, any client (two uploads of one content and checks that are outdated included), keys | `RequestsEnd`, `UnlinkedRemoved` |
| | *shared*: the commands of shared files, 3 requests; *ranking*: share, cancel and ranking, 4 requests | `RequestsEnd` |
| `processes` | 4 process ids, 3 requests, 2 failures of `execlp`, 1 other | `RecordedOnce`, `OneAtWork`, `ZombiesBounded`, `ExecutedUploadStored`; under fairness `RequestAnswered` |
| `session` | 2 names, 3 passwords with the empty one, life 2 s of 3 s, 4 requests, 1 fault | `RegisteredOnce`, `TokensOfRegistered`, `ListingVerified`, `SessionKept` |
| `pages` | *upload*: 3 files one after the other; 2 files, or a known, an empty and a too big one, at once, with a failure | `ContentTrue` and `FilesArrive` (one after the other), `LeftKnown`, `PageSettles` |
| | *delete*: 2 users with a page each, other clients with 0 to 4 fields, 4 events | `OwnersDelete` |
| | *login*: 2 users, 5 events (expiries included), form edited while it waits or not, failing logins and listings, lost answers | `ListsProved`; `StoredCurrent` (not edited) |
| `helpers` | *receive*: up to 3 pieces of data, every cut, heap of up to 2 symbols of any kind, old files shorter and longer, `ftruncate` and `write` failing | `SavedWhole`, `BodyTaken` |
| | *cgi*: every text of up to 5 of 7 characters | `TextsRead` (`TrimmedBare`, `QueryRead`, `SuffixRead`) |
| | *base64*: every input of up to 4 of 14 bytes | `Base64Right` (`Base64Undone`, `Base64Standard`) |
| | *md5*: blocks of 4, words of 6 bits, messages of up to 40 bytes in any pieces | `DigestStandard`, with `MessageKept` |

Runs that TLC must find violated, each a disagreement between the code and what
it says of itself:

| Run | Property | What happens |
|---|---|---|
| `count_race` | `UserCountExact` | two overlapping requests of a user read the same count; one update is lost |
| `md5_race` | `Md5SuccessRecorded` | a delete removes the content between md5's select and update; the update of no row is no error and 005 is sent |
| `exec_fails` | `UploadStored` | `execlp` fails, the child goes on with the request, records it without id or url, and answers 008 |
| `page_check` | `Md5CheckedFirst` | a file answered 004 or 005 stays `ready` and is sent with the next file, under that file's info |
| `delete_click` | `ClickedGone` | the button sends no md5 and filename; the server deletes what an earlier request named |

**Bounds.** The counters are per user and per md5, and no code looks at two
contents or at more than two parties of one content: two users and one content
reach every race, two names give one user two entries for it. Four overlapping
requests let a content be created, referenced, deleted and created again; the
serial run has six, for repetitions after a failure. Two faults let a
failure meet the traces of an earlier one. File ids are as many as uploads that
can store an object in the run. The process run has four process ids so
that `fork` also fails for want of one. The session clock runs past the life of
a token. Shared files need two members for scores to differ and three for
`ZLEXCOUNT` to answer 2; six or seven requests share, download, cancel and share
again, and five race for the ranking. Two overlapping files reach every order of
the upload page's callbacks, a third lets a file that was selected alone meet the
traces of two earlier ones, and two users every mixture of buffers and of names
with tokens. `Md5Digest` scales the block and the words of the count down
together, so that the low word still wraps at a multiple of the block; 40 bytes
wrap it five times. Symmetry is used only in runs without liveness and over sets
that the specification does not order or name: never over names where `LexRank`
orders them. In the instances of `serial` with one user, a state with the users
exchanged is not reachable unless it is the same state, so nothing is identified.

**Fairness.** `FairSpec` of `FileStore` asks weak fairness of each program's
steps: a handler never waits for another program, and the libraries return or
fail. `FairSpec` of `UploadProcess` asks weak fairness of each process: a
process in `read` or `wait` is not enabled until it can return. Kills and
requests are never forced. `FairSpec` of `UploadPage` asks weak fairness of the
callbacks as a whole: the browser runs what is due and requests are answered or
fail. Users are not forced to select.

**What does not hold**, and is therefore stated with a condition:

* The number of shared files is not the number of rows, even without failures.
  After a download has made the scores differ, `ZLEXCOUNT` misses members that
  are there; `del_file` then leaves the member of a deleted row in redis, and the
  next delete of the same file finds it and counts one off for a row that is not
  there. A delete that fails behind its decrement also takes one more off at
  every retry. Only the upper bound holds (`SharesNotAbove`).
* When cancels have brought the drifted number to none, `cancel_share_file`
  deletes its row: from then on rankings (015) and deletes (014) are refused
  although files are shared. TLC needs 9 requests for the first and 13 for the
  second, so the runs do not reach it; `RankingAnswered` and `DeleteRefused` name
  the condition. They are checked where one user asks.
* A delete of a listed file may be refused while scores differ (`DeleteRefused`
  says only then, or for a member left behind).
* The ranking may lag behind the rows. It can run ahead of them only after a
  failure: when share_file is killed between the row of a file and its ZADD, a
  member that an earlier delete left behind keeps its old score over a row that
  starts from 0 (8 requests and a kill). `ScoresNotAbove` is about runs without
  failures.
* Not every object in FastDFS without a row is removed, even without failures.
  Two clients that both were told 006 send the same content. With a key the insert
  of the second is refused and its object stays, without a row that would lead to
  it. Without a key there are two rows of the md5: `del_file` reads the id of the
  first, deletes both and removes one object. `UnlinkedRemoved` is therefore about
  objects that had a row, with a key, and `LeakBounded` about clients that wait
  for each other.
* A body that was cut off is saved, and recorded, if the heap behind it holds the
  boundary: the length given to `memstr` (`cgi_upload.c:147`) is the sum where it
  should be the difference. `SavedWhole` says that only this can happen. A failing
  `ftruncate` (line 166) leaves the tail of a longer old file behind the data.
* A page keeps its token when the 24 hours are over. `StoredCurrent` says that
  redis has either this token or none, and none only then.
* Overlapping files of the upload page may be recorded under each other's md5.
* A form that is edited while it waits stores a name with another user's token,
  which opens nothing.

Other facts of the code that the models contain and no run asks about: an SQL
error of `deal_md5`'s first select matches no branch, and 005 is sent although
nothing was recorded (`cgi_md5.c:213`); the size a client sends is parsed and
dropped, and an uninitialized variable is inserted (`cgi_upload.c:128`);
`rop_zset_increment` compares a score with "OK", so that 017 is sent for a
download that was counted (`redis_op.c:921`); a file that is too big stays
`ready` on the upload page and is sent with the next one (`Upload.vue:115`).

Every property has a faulty variant of a mapped definition next to the
definition (a dropped guard, an off-by-one, a missing reset) under which TLC
finds the property violated.

## 4. Proofs

`FileStoreProofs` proves, from `ConstantsAssumption` alone (the special values
are outside their sets, the bounds are natural numbers), for any sets of users,
contents, names and file ids, any bounds, any `Commands`, with and without keys,
serial or not:

* `TypeCorrect`: `TypeOK`.
* `ObjectsCorrect`: the inductive invariant `ObjectInv`, and from it
  `RecordsBacked` (`FileInfoBacked`), `ObjectsOwned` (`ObjectsNotShared`) and
  `UrlsCorrect` (`UrlNamesObject`).
* `CountsPositive`: `UserCountPositive`.

The three invariants of objects are not inductive. They need to know what the
programs hold between two calls: the object that upload has stored and not
recorded is unrecorded, is its own content, and its url buffer was empty at the
start (`PendingUpload`); the object that `del_file` is about to remove is named
by no row and is not upload's (`PendingRemove`); every stored object was handed
out (`StorageHandedOut`). The step from `del_info` to `del_remove` is where
`ObjectsNotShared` is used: when all rows of an md5 are deleted, no other row
names their objects. `UserCountPositive` needs that a count in a local variable
that will be written is at least one (`CountsRead`): that is why a lost update
can make a count wrong but never zero.

`ObjectLifeProofs` proves `ObjectsImplement`: `Spec => ObjectsLive`, the
refinement of `ObjectLife`, from `ObjectInv`. Each program has lemmas that say
which of `content`, `storage`, `file_info` and upload's buffers an action leaves
alone; the actions that touch one are each shown to be one abstract step:
`DstorageStore` is `Store` or `Lose`, `UploadInsertInfo` is `Link` or, refused by
a key, `Abandon`, `DelInfo` is `Unlink` of the objects of all rows of the md5,
`DelRemove` is `Remove`, or nothing for an object that is gone, and a kill of
upload is `Abandon`. `ObjectInv` is needed where phases are computed from two
places: an object that upload holds is in no row, and the one that `del_file`
removes is neither linked nor pending.

`SessionProofs` proves, from `SessionAssumption`, for any names, passwords,
clock, token life and bounds:

* `SessionTypeCorrect`: `SessionTypeOK`.
* `RegistersOnce`: `RegisteredOnce`, with `InsertOfNew`: register serves one
  request at a time, so a name that its select did not find is still new at the
  insert, unless the select failed.
* `TokensRegistered`: `TokensOfRegistered`, with `LoginOfRegistered`: rows are
  only appended, so the first row that `check_user_pwd` compared stays.
* `SessionsKept`: `SessionKept`, with `ToldStored`: what a client was told is
  what redis holds, and a new token clears both.
* `ListingsVerified`: `ListingVerified`, with `TokensIssued` (redis holds the
  newest token of a user) and `ListingChecked` (what was checked stays checked:
  a later login sets its token after the check).

`SharedFilesProofs` is about share_file and del_file interleaved with the other
programs, with failures and kills:

* `SharesAreListed`: `ShareRowsListed`, assuming `ListsShares`: clients share
  what they list, and `cancel` is not a command (as deployed: sharefilesop is not
  built). The assumption is needed: cancel_share_file resets `shared_status` in
  front of its other calls, and a delete in between leaves the row behind.
  `ShareListInv` says that a file is marked as shared before it has a row in
  `share_file_list`, and that `del_file`, which reads the mark, has deleted that
  row by the time it deletes the entry.
* `RankingCorrect`: `RankingInv`, assuming `SharesOnly`: `pv`, `cancel` and the
  ranking are not commands, so that filesop alone changes the sorted set. Then
  all scores are 0 and `ZLEXCOUNT` can be relied upon. `RankingInv` counts the
  members that nobody shares, without the one that filesop is about to remove
  (`Leaving`), against the failures; and, because `del_file` gives up where the
  shared files have no count, all members while there is none, without the one
  that share_file is about to count (`Entering`).
* `StaleMembersCost` (`StaleMembersBounded`) and `SharedAgainTrue`
  (`SharedAgain`) follow from it, for any number of files, users and faults.
* `RankingMissesNothing`: `NothingMissing`, assuming `OnlyAdds`: no command takes
  a file out, and nothing fails; requests overlap as they like. `CompleteInv`
  says who still has to add a shared file that a redis key lacks: share_file,
  which has inserted the row (`Sharing`), or the ranking that is being built,
  which has yet to select the rows or has the file among them (`Rebuilding`). The
  argument rests on two orders in the code: share_file writes its row before
  redis, and `get_ranking_filelist` deletes the keys before it selects the rows.
  Both assumptions are needed: the ZREM of a cancel may follow the ZADD of a share
  that came in between, and `ZADD` and `HSET` may fail unnoticed.

`SerialProofs` assumes `Waiting` (`ScoresNeverAhead` only half of it), that is `Serial` and `ListedOnly`: clients wait
for each other, delete what is listed and upload what the md5 check did not
find. Both are needed. `count_race` and `md5_race` are what happens without the
first; without the second, and without a key on `file_info.md5`, an upload of a known
content adds a second row with a count of its own, and the delete that brings
the first count to 0 deletes both. Nothing is assumed of failures:
every call may fail and every program may be killed at any point.

* `SerialCorrect`: `SerialInv` is inductive. Its core is `Covered`: the number of
  rows of `user_file_list` for a content, plus one while a program has counted an
  entry that it has not inserted or deleted one that it has not discounted
  (`Owed`), is at most the reference count. del_file deletes the entry first and
  discounts it afterwards, md5 and save_file count first and insert afterwards;
  a failure in between leaves the count too high, never too low. The rest is what
  each program knows between two calls (`UploadKnows`, `Md5Knows`, `DelKnows`,
  ...), which stays true because nobody else is at work (`OneAtATime`).
* `ListedStayStored` (`ListedFilesStored`): a listed file has an entry, so its
  content has a count of at least one and with it a row, whose object
  `FileInfoBacked` keeps.
* `AnswersAreTrue`: `AnswersTrue`, which is a conjunct of `SerialInv`.
* `LeaksCost`: `LeakBounded`, with `LeakInv`: the objects without a row, and the
  temporary files, without the one that the program at work is going to deal with
  (`Held`, `HeldFile`), are no more than the failures. Every step that lets go of
  one without removing it is a failing call or a kill, and counts as one.
* `CountersCostFailures`: `CountersDrift`. The counts of entries are cardinalities
  of sets of rows (`Entries`, `ShareEntries`), so that a statement that adds,
  deletes or keeps rows changes them by lemmas about finite sets. `DriftInv`
  bounds the difference of each counter from its rows by the failures, and says
  which step of which program has changed one of the two and not yet the other
  (`Counting`, `Between`), with a count in a local variable that is the one in
  the table (`CountsKnown`). It uses `SerialInv`: an insert or update meets the
  row that the select found. `SharesInv` does the same for the shared files, in
  one direction and as long as nothing has failed, because `del_file` counts off
  what it finds in redis.
* `ScoresNeverAhead`: `ScoresNotAbove`, from `Serial` alone, for clients that ask
  for anything. `ScoresInv` says that without failures a file is shared by one
  user and once (`OneSharer`: share_file asks for a row of any user first), that
  the score of a shared file is at most its row's downloads unless share_file is
  about to set it to 0 (`ScoreBelow`), and that pv_file and the ranking have read
  what the row holds (`DownloadsKnown`). Nothing is needed of what `ZLEXCOUNT`
  answers but that it does not find a member that is not there.

`UploadProcessProofs`, from `ProcessAssumption`, for any number of process ids,
requests and failures:

* `ProcessTypeCorrect`: `ProcessTypeOK`, with `ProcessInv`: who is whose child,
  and that a pipe from which a file id is read holds an id or nothing.
* `RequestsRecordedOnce`: `RecordedOnce`. A request has one bearer, a process
  from which it can still reach `file_info`, and none once it is recorded
  (`OneBearer`): this is why a child that falls through a failed `execlp` and
  its parent never both record it.
* `OneWorks`: `OneAtWork`; `ExecutedUploadsStored`: `ExecutedUploadStored`;
  `ZombiesAreBounded`: `ZombiesBounded`.

`HelperProofs` proves what the helpers compute for inputs of any length. The
algorithms are written without recursion, by what is at each place of their
result, so that no induction over data is needed.

* `SavedFilesWhole` (`SavedWhole`) and `WholeBodiesTaken` (`BodyTaken`), for
  data, heap and older file of any length. `ReceiveInv` says where the pointers
  are after each search, for a whole body (`TakenApart`), whatever is behind it,
  and for one that was cut off in front of a heap without the boundary
  (`CutOff`): the search for the end then begins behind the last boundary that
  arrived, so that what it is looking for is nowhere (`CutLacks`). The boundary
  that `memstr` looks for is the first line, which in a body that was cut off in
  it ends in the heap.
* `TextsAlwaysRead` (`TextsRead`), from `CgiTextAssumption`, for any characters,
  any of them blanks, and any key that is not empty: a text is a sequence of
  characters, and every such sequence is read right. The first or last place of
  a kind that the loops stop at exists, because a set of numbers has a least one
  (`MinIs`, `MaxIs`), and it is the one that the property asks for.
* `Base64AlwaysRight` (`Base64Right`), from `Base64Assumption` (bytes are in
  0..255). One turn is undone by arithmetic on a group of one, two or three bytes
  (`EncodeIs`, `DecodeIs`, `TurnIs`), only the last turn writes = (`LastIs`), and
  each place of the result is one of its turn (`InGroup`, `InTurn`).
* `DigestsStandard` (`DigestStandard`), from `Md5Assumption`: the low word of the
  count wraps at a multiple of the block, as 2^32 bits do with 64 bytes. `Md5Inv`
  says with `Keeps` that the blocks handed on and the used part of the buffer are
  the bytes so far, and that the count is theirs (`Bits`). `MD5Update` keeps this
  for a piece of any length (`ShortKept`, `LongKept`), although it computes the
  used part from a word that has wrapped (`IndexIs`) and adds the length in two
  words (`CountIs`); `MD5Final` fills the last block exactly (`PadFills`).

`PagesProofs`, for any users, files and numbers of events:

* `LeftFilesKnown` (`LeftKnown`): a file that is ready is on its way to be asked
  for or sent, or known, or too big (`ReadyInv`).
* `OneByOneContentTrue` (`ContentTrue`): files selected one by one never see each
  other's info (`AloneInv`).
* `OnlyOwnersDelete` (`OwnersDelete`, an action property): a token in the buffers
  of filesop was sent by its user (`DeleteInv`).
* `PagesListProved` (`ListsProved`) with `ListingInv`, and `WaitingStoresCurrent`
  (`StoredCurrent`) with `WaitInv`: the one login under way is that of the form, and
  the token that it brought is the one that redis has or had. That the expiry of
  one user's token is not taken for that of another needs `TokensDiffer`.

Only model-checked, and why:

* Liveness (`RequestsEnd`, `UnlinkedRemoved`, `RequestAnswered`, `FilesArrive`,
  `PageSettles`): the prover has no fairness and no ENABLED.
* `RankingTrue` and `RankingComplete` are stated for instances of a run, and have
  no theorem under their own names. `ScoresNotAbove` of the first and
  `NothingMissing`, which is the second, are proved. `RankingAnswered` and
  `DeleteRefused` are not: that a delete is refused only while scores differ
  depends on `ZLEXCOUNT`'s answer for every order of the members, and the runs
  check it where one user asks.

`SerialInv`, `LeakInv`, `DriftInv` and `SharesInv` were checked with TLC on the
*files* and *shared* instances of `serial`, `ScoresInv` on these, on *three* and on an
instance with two users that ask for anything, `CompleteInv` on *ranking*, and
the other inductive invariants on the instances of their runs, before they were
proved. Three statements that the bounds of the runs let pass turned out false
in these proofs and are now what section 3 says: that without failures the number
of shared files is exact, that only a ranking without shared files is refused,
and that no score is ahead whatever fails.

## 5. Not modelled

* `pv_file` of filesop (dead), `str_replace` and the redis wrappers that nothing
  calls.
* JSON parsing, logging, configuration: pure input and output. A parsed request
  appears as the fields it has.
* des.c. `OPENCOMM_DesExpandEncKey` copies 128 bytes of 32 unsigned longs
  (`des.c:397-398`, again 434, and 458 for decryption). Where a long has eight
  bytes, as in the committed `bin_cgi/login`, half of the round keys that `desfunc`
  uses are uninitialized, so that `DesEnc` is no function of its input and `DesDec`,
  which nobody calls, no inverse. `Session` lets the token depend on it (`Garbage`),
  and `Base64` takes any input.
* `MD5Transform`: tables and bit operations on words, out of TLC's reach. It is
  the list of the blocks that it is given.
* Md5 checks of the upload page that cannot be made for an expired token or an SQL
  error (111, 006): they lead to an upload of a content that may be known.
* The contents of files in `FileStore`: an object is identified with the upload
  it came from. `Receive` and `UploadPage` say when that is what was sent.
* RegisterPage.vue, which sends its form and changes the page; SharedFiles.vue,
  which shows constant data; el-upload, nginx, FastDFS, redis and MySQL beyond
  the operators marked external; vendored libraries, which are most of the
  repository's lines.

## 6. Plan

Done: all modules of section 2 and the proofs of section 4. Left:

1. `RankingAnswered` and `DeleteRefused` for one user and any number of files,
   with an invariant about the order of the members.
2. `MD5Transform` on one block, which needs a model of bit operations on words.
