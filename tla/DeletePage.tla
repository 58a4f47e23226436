------------------------------ MODULE DeletePage ------------------------------
(***************************************************************************)
(* Deleting from the page of a user's files                                *)
(* (src/web/clouddisk/src/views/FilesPage.vue, components/MyFiles.vue) and *)
(* the buffers of main in src/cgi/cgi_filesop.c, which are declared before *)
(* the request loop: get_json_info copies the fields of a request in the   *)
(* order user, md5, filename, token up to the first that is missing, its   *)
(* result is ignored, and the rest is what earlier requests left.          *)
(*                                                                         *)
(* The delete button hands over the whole table instead of its row, so     *)
(* that the page's requests have no md5 and no filename.  Other clients    *)
(* send all the fields, or some.  del_file is one step here: FilesOp has   *)
(* its calls.  A file stands for its md5 and its filename, in which no two *)
(* files agree; a user stands for the token redis has, as in Session.      *)
(***************************************************************************)
EXTENDS Integers, Sequences, FiniteSets, SequencesExt

CONSTANTS
  Owners,    \* users, logged in
  Names,     \* files
  Garbage,   \* what an uninitialized buffer holds: no name, no token
  Counts,    \* how many of the fields other clients' requests have
  MaxActs    \* bound on clicks, requests, listings and uploads

ASSUME DeleteAssumption ==
  Garbage \notin Owners \cup Names /\ Counts \subseteq 0..4 /\ MaxActs \in Nat

VARIABLES
  files,     \* the server: user -> the files in user_file_list
  bufs,      \* the buffers user, md5, filename and token of main
  tableData, \* page -> its rows
  array,     \* page -> which array tableData is: refresh makes a new one
  listings,  \* answers of /files on their way
  clicks,    \* requests and answers of /delete on their way
  told,      \* the click that was answered last
  vouched,   \* history: users whose token a request to /delete carried
  acts       \* clicks, requests, listings and uploads so far

dvars == <<files, bufs, tableData, array, listings, clicks, told, vouched, acts>>

NoClick == [id |-> 0]
Unsorted(S) == SetToSeq(S)

DeleteInit ==
  /\ files = [u \in Owners |-> Names]
  /\ bufs = [user |-> Garbage, md5 |-> Garbage, filename |-> Garbage,
             token |-> Garbage]
  /\ tableData = [u \in Owners |-> <<>>]
  /\ array = [u \in Owners |-> 0]
  /\ listings = {}
  /\ clicks = {}
  /\ told = NoClick
  /\ vouched = {}
  /\ acts = 0

Act == acts < MaxActs /\ acts' = acts + 1

------------------------------------------------------------------------------
(* cgi_filesop: main *)

\* get_json_info: the first n of the fields user, md5, filename, token are
\* there.
GetJsonInfo(u, k, n) ==
  [user |-> IF n >= 1 THEN u ELSE bufs.user,
   md5 |-> IF n >= 2 THEN k ELSE bufs.md5,
   filename |-> IF n >= 3 THEN k ELSE bufs.filename,
   token |-> IF n = 4 THEN u ELSE bufs.token]

\* Faulty variant: verify_token accepts any token that is in use.
VerifyBuffersAny(b) == b.user \in Owners /\ b.token \in Owners

\* verify_token on what is in the buffers: the token in redis under the user's name.
VerifyBuffers(b) == b.user \in Owners /\ b.token = b.user

\* where md5 = '%s' and filename = '%s'.
Named(b) == {k \in Names : k = b.md5 /\ k = b.filename}

\* A request with n fields: 111, or del_file with what is in the buffers.  It
\* deletes a listed file, refuses one that is not listed (nothing is shared:
\* main does not call share_file), or fails in front of or behind its delete
\* from user_file_list.
Handle(u, k, n, code) ==
  LET b == GetJsonInfo(u, k, n)
      Deleted == [files EXCEPT ![b.user] = @ \ Named(b)] IN
  /\ bufs' = b
  /\ vouched' = IF n = 4 THEN vouched \cup {u} ELSE vouched
  /\ \/ /\ ~VerifyBuffers(b)
        /\ code = "111"
        /\ UNCHANGED files
     \/ /\ VerifyBuffers(b)
        /\ code = "013"
        /\ Named(b) \cap files[b.user] # {}
        /\ files' = Deleted
     \/ /\ VerifyBuffers(b)
        /\ code = "014"
        /\ files' \in {files, Deleted}

Codes == {"111", "013", "014"}

\* Another client's request.
Request(u, k, n) ==
  /\ Act
  /\ \E code \in Codes : Handle(u, k, n, code)
  /\ told' = NoClick
  /\ UNCHANGED <<tableData, array, listings, clicks>>

------------------------------------------------------------------------------
(* The page *)

\* refresh of the page: the list is asked for; the answer is what the server lists now.
Reload(u) ==
  /\ Act
  /\ listings' = listings \cup {[id |-> acts + 1, user |-> u,
                                 rows |-> Unsorted(files[u])]}
  /\ told' = NoClick
  /\ UNCHANGED <<files, bufs, tableData, array, clicks, vouched>>

\* Its answer arrives: tableData is a new array.
Show(a) ==
  /\ a \in listings
  /\ listings' = listings \ {a}
  /\ tableData' = [tableData EXCEPT ![a.user] = a.rows]
  /\ array' = [array EXCEPT ![a.user] = a.id]
  /\ told' = NoClick
  /\ UNCHANGED <<files, bufs, clicks, vouched, acts>>

\* deleterow(index, tableData): row.md5 and row.filename are undefined, and
\* the request has the user and, behind the gap, the token.
DeleteRow(u, i) ==
  /\ Act
  /\ i \in 1..Len(tableData[u])
  /\ clicks' = clicks \cup {[id |-> acts + 1, user |-> u, index |-> i,
                             array |-> array[u], name |-> tableData[u][i],
                             code |-> "none"]}
  /\ told' = NoClick
  /\ UNCHANGED <<files, bufs, tableData, array, listings, vouched>>

\* The server deals with the request of a click.
ServeDelete(c) ==
  /\ c \in clicks /\ c.code = "none"
  /\ \E code \in Codes :
       /\ Handle(c.user, c.name, 1, code)
       /\ clicks' = (clicks \ {c}) \cup {[c EXCEPT !.code = code]}
  /\ told' = NoClick
  /\ UNCHANGED <<tableData, array, listings, acts>>

\* Its answer arrives: row.splice(index, 1) if it is 013, on the array of the
\* click.
Answer(c) ==
  /\ c \in clicks /\ c.code # "none"
  /\ clicks' = clicks \ {c}
  /\ tableData' =
       IF /\ c.code = "013" /\ c.array = array[c.user]
          /\ c.index <= Len(tableData[c.user])
       THEN [tableData EXCEPT ![c.user] = RemoveAt(@, c.index)]
       ELSE tableData
  /\ told' = c
  /\ UNCHANGED <<files, bufs, array, listings, vouched, acts>>

\* The user uploads a file that is not there.
Upload(u, k) ==
  /\ Act
  /\ k \notin files[u]
  /\ files' = [files EXCEPT ![u] = @ \cup {k}]
  /\ told' = NoClick
  /\ UNCHANGED <<bufs, tableData, array, listings, clicks, vouched>>

------------------------------------------------------------------------------

\* Nothing is on its way and nobody does anything any more.
DeleteDone == acts = MaxActs /\ listings = {} /\ clicks = {} /\ UNCHANGED dvars

DeleteNext ==
  \/ \E u \in Owners, k \in Names, n \in Counts : Request(u, k, n)
  \/ \E u \in Owners : Reload(u)
  \/ \E a \in listings : Show(a)
  \/ \E u \in Owners, i \in 1..Cardinality(Names) : DeleteRow(u, i)
  \/ \E c \in clicks : ServeDelete(c) \/ Answer(c)
  \/ \E u \in Owners, k \in Names : Upload(u, k)
  \/ DeleteDone

DeleteSpec == DeleteInit /\ [][DeleteNext]_dvars

------------------------------------------------------------------------------

\* Whatever requests leave in the buffers, in whatever order: a user who never
\* sent a token to /delete loses no file, because the user name is copied
\* first and the token last, and the two must belong together.
OwnersDelete ==
  [][\A u \in Owners : files[u] \subseteq files'[u] \/ u \in vouched']_dvars

\* "Features: ... delete" (README.md:23): a page that is told 013 has had the
\* file deleted whose row was clicked.
ClickedGone ==
  told # NoClick /\ told.code = "013" => told.name \notin files[told.user]
------------------------------------------------------------------------------
(* What makes this property inductive *)

\* A token in the buffers was sent to /delete by its user, and a click is one
\* of a user's page.
DeleteInv ==
  /\ files \in [Owners -> SUBSET Names]
  /\ bufs.token \in Owners => bufs.token \in vouched
  /\ \A c \in clicks : "user" \in DOMAIN c /\ c.user \in Owners
=============================================================================
