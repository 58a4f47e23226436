------------------------------ MODULE Session ------------------------------
(***************************************************************************)
(* Accounts and sessions: src/cgi/cgi_register.c, src/cgi/cgi_login.c,     *)
(* src/cgi/cgi_files.c and verify_token of src/common/cgi_util.c, one      *)
(* process each, interleaved call by call.  A login writes a token to      *)
(* redis under the user's name; it expires, and the next login overwrites  *)
(* it.                                                                     *)
(* Answers: register 002 success, 003 user exists, 004 failed; login 000   *)
(* success, 001 failed; files a listing, 015 failed, 111 token.            *)
(***************************************************************************)
EXTENDS Integers, Sequences

CONSTANTS
  UserNames,    \* names that clients send
  Pwds,         \* passwords that clients send
  Empty,        \* the empty string: an empty buffer
  None,         \* no token, no key in redis
  Garbage,      \* what the uninitialized half of the round keys in des.c may hold
  Life,         \* seconds until a token expires (86400)
  MaxTime,      \* bound on the seconds that pass
  MaxRequests,  \* bound on the requests
  MaxFaults     \* bound on failing calls and kills

ASSUME SessionAssumption ==
  /\ Empty \notin UserNames /\ Empty \in Pwds
  /\ Garbage # {}
  /\ Life \in Nat \ {0}
  /\ MaxTime \in Nat /\ MaxRequests \in Nat /\ MaxFaults \in Nat

VARIABLES
  users,   \* table user: name -> the passwords of its rows
  tokens,  \* redis: name -> its token and when it was set
  now,     \* the clock, in seconds
  spc,     \* program -> the call it makes next
  sloc,    \* program -> its locals; those of files outlive a request
  answer,  \* the answer sent last
  issued,  \* history: every token that was set, for whom and when
  told,    \* history: name -> the token that its client was told last
  served,  \* requests so far
  faults   \* failures and kills so far

svars == <<users, tokens, now, spc, sloc, answer, issued, told, served, faults>>
data  == <<users, tokens, issued, told>>

Programs == {"register", "login", "files"}

\* What set_token makes of the name and four numbers drawn after
\* srand(time(NULL)), which are the same for all logins within one second: DES,
\* with a key schedule that a 64-bit build leaves half uninitialized
\* (des.c:397-398, 434), then base64 and MD5.  The numbers follow the name without
\* separators and the result is hashed, so two triples may meet in one text; they
\* are kept apart here.  The properties compare the text sent with the text in
\* redis, and hold for texts that meet as well.
Token(n, second, keys) == <<n, second, keys>>
Tokens == UserNames \X (0..MaxTime) \X Garbage

\* The tokens that clients send: one that was set, or one that never was.
SentTokens == {i.token : i \in issued} \cup {None}

Blank == [user |-> Empty, pwd |-> Empty, token |-> None, checked |-> 0]
NoAnswer == [code |-> "none", loc |-> Blank]

\* GET: the token of a name, unless it has expired.
Current(n) ==
  IF n \in UserNames /\ tokens[n] # None /\ now < tokens[n].at + Life
  THEN tokens[n].token
  ELSE None

Fault == faults < MaxFaults /\ faults' = faults + 1
NoFault == UNCHANGED faults

Init ==
  /\ users = [n \in UserNames |-> <<>>]
  /\ tokens = [n \in UserNames |-> None]
  /\ now = 0
  /\ spc = [p \in Programs |-> "idle"]
  /\ sloc = [p \in Programs |-> Blank]
  /\ answer = NoAnswer
  /\ issued = {}
  /\ told = [n \in UserNames |-> None]
  /\ served = 0
  /\ faults = 0

------------------------------------------------------------------------------
(* Control *)

Accept(p, first, l) ==
  /\ spc[p] = "idle"
  /\ served < MaxRequests
  /\ served' = served + 1
  /\ spc' = [spc EXCEPT ![p] = first]
  /\ sloc' = [sloc EXCEPT ![p] = l]
  /\ answer' = NoAnswer
  /\ UNCHANGED <<data, now, faults>>

Goto(p, next, l) ==
  /\ spc' = [spc EXCEPT ![p] = next]
  /\ sloc' = [sloc EXCEPT ![p] = l]
  /\ answer' = NoAnswer
  /\ UNCHANGED <<now, served>>

\* main of files declares its buffers outside the request loop.
Answer(p, code) ==
  /\ spc' = [spc EXCEPT ![p] = "idle"]
  /\ sloc' = [sloc EXCEPT ![p] = IF p = "files" THEN sloc[p] ELSE Blank]
  /\ answer' = [code |-> code, loc |-> sloc[p]]
  /\ UNCHANGED <<now, served>>

\* The program ends without an answer and is started again.
Die(p) ==
  /\ spc' = [spc EXCEPT ![p] = "idle"]
  /\ sloc' = [sloc EXCEPT ![p] = Blank]
  /\ answer' = NoAnswer
  /\ UNCHANGED <<now, served>>

Kill(p) == spc[p] # "idle" /\ Fault /\ Die(p) /\ UNCHANGED data

Tick ==
  /\ now < MaxTime
  /\ now' = now + 1
  /\ UNCHANGED <<data, spc, sloc, answer, served, faults>>

------------------------------------------------------------------------------
(* user_register *)

reg == sloc["register"]

RegisterAccept(n, w) ==
  Accept("register", "reg_connect", [Blank EXCEPT !.user = n, !.pwd = w])

\* The configuration, the body and the connection; without any of them the
\* registration has failed.
RegisterConnect ==
  /\ spc["register"] = "reg_connect"
  /\ \/ NoFault /\ Goto("register", "reg_select", reg)
     \/ Fault /\ Answer("register", "004")
  /\ UNCHANGED data

\* Faulty variant: the result of the select is not used.
RegisterSelectUnused ==
  /\ spc["register"] = "reg_select"
  /\ NoFault
  /\ Goto("register", "reg_insert", reg)
  /\ UNCHANGED data

\* Is there such a user?  An error counts as no.
RegisterSelect ==
  /\ spc["register"] = "reg_select"
  /\ \/ NoFault /\ users[reg.user] # <<>> /\ Answer("register", "003")
     \/ /\ (NoFault /\ users[reg.user] = <<>>) \/ Fault
        /\ Goto("register", "reg_insert", reg)
  /\ UNCHANGED data

RegisterInsert ==
  /\ spc["register"] = "reg_insert"
  /\ \/ /\ NoFault
        /\ users' = [users EXCEPT ![reg.user] = Append(@, reg.pwd)]
        /\ Answer("register", "002")
     \/ Fault /\ Answer("register", "004") /\ UNCHANGED users
  /\ UNCHANGED <<tokens, issued, told>>

------------------------------------------------------------------------------
(* login *)

log == sloc["login"]

\* A body without the password leaves pwd empty.
LoginAccept(n, w) ==
  Accept("login", "log_select", [Blank EXCEPT !.user = n, !.pwd = w])

\* Faulty variant: a token that was not made is stored.
LoginSelectSkipsToken ==
  /\ spc["login"] = "log_select"
  /\ NoFault
  /\ users[log.user] # <<>>
  /\ Goto("login", "log_setex", log)
  /\ UNCHANGED data

\* Faulty variant: an empty password is compared as any other.
LoginSelectEmpty ==
  LET rows == users[log.user] IN
  /\ spc["login"] = "log_select"
  /\ \/ /\ NoFault
        /\ log.pwd = IF rows = <<>> THEN Empty ELSE rows[1]
        /\ Goto("login", "log_token", log)
     \/ Fault /\ Answer("login", "001")
  /\ UNCHANGED data

\* check_user_pwd: no row and an error both leave the password read empty.
LoginSelect ==
  LET rows == users[log.user]
      matches == rows # <<>> /\ rows[1] = log.pwd /\ log.pwd # Empty
  IN
  /\ spc["login"] = "log_select"
  /\ \/ NoFault /\ matches /\ Goto("login", "log_token", log)
     \/ ((NoFault /\ ~matches) \/ Fault) /\ Answer("login", "001")
  /\ UNCHANGED data

\* set_token: connect to redis, then make the token.
LoginToken ==
  /\ spc["login"] = "log_token"
  /\ \/ \E keys \in Garbage :
          /\ NoFault
          /\ Goto("login", "log_setex", [log EXCEPT !.token = Token(log.user, now, keys)])
     \/ Fault /\ Answer("login", "001")
  /\ UNCHANGED data

\* The token is in redis from now on, and the old one is not.
SetToken ==
  /\ tokens' = [tokens EXCEPT ![log.user] = [token |-> log.token, at |-> now]]
  /\ issued' = issued \cup {[user |-> log.user, token |-> log.token, at |-> now]}
  /\ told' = [told EXCEPT ![log.user] = None]

\* Faulty variants: the result of SETEX is not looked at, and the key is set
\* without an expiry.
LoginSetexUnchecked ==
  /\ spc["login"] = "log_setex"
  /\ \/ NoFault /\ SetToken
     \/ Fault /\ UNCHANGED <<tokens, issued, told>>
  /\ Goto("login", "log_answer", [log EXCEPT !.checked = now])
  /\ UNCHANGED users

LoginSetexForever ==
  /\ spc["login"] = "log_setex"
  /\ NoFault
  /\ tokens' = [tokens EXCEPT ![log.user] = [token |-> log.token, at |-> MaxTime]]
  /\ issued' = issued \cup {[user |-> log.user, token |-> log.token, at |-> now]}
  /\ told' = [told EXCEPT ![log.user] = None]
  /\ Goto("login", "log_answer", [log EXCEPT !.checked = now])
  /\ UNCHANGED users

\* rop_setex_string: stored, refused, or no reply at all, and then reply->str
\* ends the program, before or after redis has done it.
LoginSetex ==
  /\ spc["login"] = "log_setex"
  /\ \/ NoFault /\ SetToken /\ Goto("login", "log_answer", [log EXCEPT !.checked = now])
     \/ Fault /\ Answer("login", "001") /\ UNCHANGED <<tokens, issued, told>>
     \/ Fault /\ Die("login") /\ (SetToken \/ UNCHANGED <<tokens, issued, told>>)
  /\ UNCHANGED users

\* return_login_status
LoginAnswer ==
  /\ spc["login"] = "log_answer"
  /\ told' = [told EXCEPT ![log.user] = [token |-> log.token, at |-> log.checked]]
  /\ Answer("login", "000")
  /\ NoFault
  /\ UNCHANGED <<users, tokens, issued>>

------------------------------------------------------------------------------
(* files *)

files == sloc["files"]

\* get_user_json_info stops at the first field that is missing, and the buffers
\* after it keep what the previous request left in them.
FilesAccept(n, t) ==
  \E l \in {files, [files EXCEPT !.user = n], [files EXCEPT !.user = n, !.token = t]} :
    Accept("files", "files_first", l)

\* verify_token: equal to the token in redis.  GET without a reply ends the
\* program.
Verified == files.token # None /\ files.token = Current(files.user)

\* The first verify_token and the count that is read have no effect.
FilesFirst ==
  /\ spc["files"] = "files_first"
  /\ \/ NoFault /\ Goto("files", "files_verify", files)
     \/ Fault /\ Die("files")
  /\ UNCHANGED data

FilesVerify ==
  /\ spc["files"] = "files_verify"
  /\ \/ NoFault /\ Verified /\ Goto("files", "files_list", [files EXCEPT !.checked = now])
     \/ ((NoFault /\ ~Verified) \/ Fault) /\ Answer("files", "111")
     \/ Fault /\ Die("files")
  /\ UNCHANGED data

\* get_user_filelist: 015 for an error and for a user without files.
FilesList ==
  /\ spc["files"] = "files_list"
  /\ NoFault
  /\ Answer("files", "list") \/ Answer("files", "015")
  /\ UNCHANGED data

------------------------------------------------------------------------------

Request ==
  \E n \in UserNames :
    \/ \E w \in Pwds : RegisterAccept(n, w) \/ LoginAccept(n, w)
    \/ \E t \in SentTokens : FilesAccept(n, t)

RegisterStep == RegisterConnect \/ RegisterSelect \/ RegisterInsert
LoginStep == LoginSelect \/ LoginToken \/ LoginSetex \/ LoginAnswer
FilesStep == FilesFirst \/ FilesVerify \/ FilesList

Done ==
  /\ served = MaxRequests /\ now = MaxTime
  /\ \A p \in Programs : spc[p] = "idle"
  /\ UNCHANGED svars

Next ==
  \/ Request
  \/ RegisterStep
  \/ LoginStep
  \/ FilesStep
  \/ Tick
  \/ \E p \in Programs : Kill(p)
  \/ Done

Spec == Init /\ [][Next]_svars

------------------------------------------------------------------------------
(* Properties *)

Locals == [user : UserNames \cup {Empty}, pwd : Pwds \cup {Empty},
           token : Tokens \cup {None}, checked : 0..MaxTime]
Issue == [token : Tokens, at : 0..MaxTime]
Codes == {"none", "000", "001", "002", "003", "004", "list", "015", "111"}
RegisterLabels == {"reg_connect", "reg_select", "reg_insert"}
LoginLabels == {"log_select", "log_token", "log_setex", "log_answer"}
FilesLabels == {"files_first", "files_verify", "files_list"}

\* Rows, keys, buffers and program counters have their types, a request that
\* is being served names a user, and only a token that was made is stored.
SessionTypeOK ==
  /\ users \in [UserNames -> Seq(Pwds)]
  /\ tokens \in [UserNames -> Issue \cup {None}]
  /\ now \in 0..MaxTime
  /\ spc \in [Programs -> {"idle"} \cup RegisterLabels \cup LoginLabels \cup FilesLabels]
  /\ spc["register"] \in {"idle"} \cup RegisterLabels
  /\ spc["login"] \in {"idle"} \cup LoginLabels
  /\ spc["files"] \in {"idle"} \cup FilesLabels
  /\ sloc \in [Programs -> Locals]
  /\ answer \in [code : Codes, loc : Locals]
  /\ spc["register"] # "idle" => reg.user \in UserNames
  /\ spc["login"] # "idle" => log.user \in UserNames
  /\ spc["login"] \in {"log_setex", "log_answer"} => log.token \in Tokens
  /\ issued \subseteq [user : UserNames, token : Tokens, at : 0..MaxTime]
  /\ told \in [UserNames -> Issue \cup {None}]
  /\ served \in 0..MaxRequests
  /\ faults \in 0..MaxFaults

\* As long as no call fails, a name is registered once: there is one process
\* that registers, and it looks for the name before it inserts it.
RegisteredOnce == faults = 0 => \A n \in UserNames : Len(users[n]) <= 1

\* A name that has a token in redis is a registered user with a password,
\* although check_user_pwd does not look at the result of its select.
TokensOfRegistered ==
  \A n \in UserNames :
    tokens[n] # None => users[n] # <<>> /\ users[n][1] # Empty

\* Token l.token of user l.user was set less than Life before l.checked, and
\* no later login of the user had replaced it by then.
Fresh(l) ==
  \E i \in issued :
    /\ i.user = l.user /\ i.token = l.token
    /\ i.at <= l.checked /\ l.checked < i.at + Life
    /\ \A j \in issued : j.user = i.user /\ j.at > i.at => j.at >= l.checked

\* A listing is sent for a user only with a token that a login of this user
\* set less than Life before it was checked, and that no later login had
\* replaced by then, also when the request was served with old buffers.
ListingVerified == answer.code = "list" => Fresh(answer.loc)

\* The token that a client was told with 000 is the one in redis until it
\* expires or another login of the user replaces it.
SessionKept ==
  \A n \in UserNames :
    told[n] # None /\ now < told[n].at + Life => Current(n) = told[n].token

------------------------------------------------------------------------------
(* What makes these invariants inductive *)

\* A login that got past check_user_pwd is one of a registered user.
LoginOfRegistered ==
  spc["login"] \in {"log_token", "log_setex"} =>
    users[log.user] # <<>> /\ users[log.user][1] # Empty

\* A token in redis was set, and later than every other one of its user.
TokensIssued ==
  /\ \A i \in issued : i.at <= now
  /\ \A n \in UserNames : tokens[n] # None =>
       /\ [user |-> n, token |-> tokens[n].token, at |-> tokens[n].at] \in issued
       /\ \A j \in issued : j.user = n => j.at <= tokens[n].at

\* A listing that is about to be sent has been checked.
ListingChecked == spc["files"] = "files_list" => files.checked <= now /\ Fresh(files)

\* What a client was told, or is about to be, is in redis.
ToldStored ==
  /\ \A n \in UserNames : told[n] # None => tokens[n] = told[n]
  /\ spc["login"] = "log_answer" =>
       tokens[log.user] = [token |-> log.token, at |-> log.checked]

\* As long as no call fails, register has seen that the name is free.
InsertOfNew ==
  faults = 0 /\ spc["register"] = "reg_insert" => users[reg.user] = <<>>

OnceInv == RegisteredOnce /\ InsertOfNew
RegisteredInv == TokensOfRegistered /\ LoginOfRegistered
ListingInv == ListingVerified /\ TokensIssued /\ ListingChecked
=============================================================================
