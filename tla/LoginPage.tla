------------------------------ MODULE LoginPage ------------------------------
(***************************************************************************)
(* Logging in and listing from the browser                                 *)
(* (src/web/clouddisk/src/views/LoginPage.vue, FilesPage.vue), with the    *)
(* login and files programs as Session describes them: a login replaces    *)
(* the user's token in redis, where it stays for 24 hours; a listing needs *)
(* the current one.  Any call of the programs may fail, and a request or   *)
(* its answer may be lost (axios sets no time limit, so that a request the *)
(* page has given up is not served later).                                 *)
(*                                                                         *)
(* A request is sent with the form's fields of that moment, but its answer *)
(* is stored under the name that the form holds when the answer arrives,   *)
(* and answers arrive in any order.                                        *)
(***************************************************************************)
EXTENDS Integers, FiniteSets

CONSTANTS
  Users,     \* registered users; a user stands for the right password too
  Nobody,    \* an empty field, no listing
  MaxEvents  \* bound on edits, clicks, logins from other browsers and expiries

ASSUME LoginAssumption == Nobody \notin Users /\ MaxEvents \in Nat

VARIABLES
  steady,    \* does the user leave the form alone while it waits?
  loginData, \* the fields of the form
  route,     \* the page shown
  storage,   \* window.sessionStorage
  listed,    \* whose files tableData has
  calls,     \* requests and answers on their way
  tokens,    \* redis: user -> the current token, 0 if none
  issued,    \* tokens made so far
  proved,    \* history: users whose password was sent from this page
  elsewhere, \* history: users who logged in from another browser
  expired,   \* history: tokens whose 24 hours were over before they were replaced
  events     \* edits, clicks, logins elsewhere and expiries so far

lvars == <<steady, loginData, route, storage, listed, calls, tokens, issued, proved,
           elsewhere, expired, events>>

LoginInit ==
  /\ steady \in BOOLEAN
  /\ loginData = [user |-> Nobody, pwd |-> Nobody]
  /\ route = "LoginPage"
  /\ storage = [user |-> Nobody, token |-> 0]
  /\ listed = Nobody
  /\ calls = {}
  /\ tokens = [u \in Users |-> 0]
  /\ issued = 0
  /\ proved = {}
  /\ elsewhere = {}
  /\ expired = {}
  /\ events = 0

Event == events < MaxEvents /\ events' = events + 1
Call(kind, user, word) ==
  [id |-> events + 1, kind |-> kind, user |-> user, word |-> word, code |-> "none"]
AnsweredWith(c, code, word) ==
  calls' = (calls \ {c}) \cup {[c EXCEPT !.code = code, !.word = word]}

------------------------------------------------------------------------------
(* The page *)

\* The user types into the form.
Type(u, p) ==
  /\ Event
  /\ route = "LoginPage" /\ (steady => calls = {})
  /\ loginData' = [user |-> u, pwd |-> p]
  /\ UNCHANGED <<steady, route, storage, listed, calls, tokens, issued, proved,
                 elsewhere, expired>>

\* login()
Login ==
  /\ Event
  /\ route = "LoginPage" /\ (steady => calls = {})
  /\ calls' = calls \cup {Call("login", loginData.user, loginData.pwd)}
  /\ UNCHANGED <<steady, loginData, route, storage, listed, tokens, issued, proved,
                 elsewhere, expired>>

\* Faulty variant: the token is not stored.
LoginAnsweredForgets(c) ==
  /\ c \in calls /\ c.kind = "login" /\ c.code # "none"
  /\ calls' = calls \ {c}
  /\ \/ /\ c.code = "000"
        /\ storage' = [storage EXCEPT !.user = loginData.user]
        /\ route' = "FilesPage"
     \/ c.code # "000" /\ UNCHANGED <<storage, route>>
  /\ UNCHANGED <<steady, loginData, listed, tokens, issued, proved, elsewhere,
                 expired, events>>

\* Its answer: 000 stores the name in the form with the token, and goes to the
\* page of the files; a failure is an alert.
LoginAnswered(c) ==
  /\ c \in calls /\ c.kind = "login" /\ c.code # "none"
  /\ calls' = calls \ {c}
  /\ \/ /\ c.code = "000"
        /\ storage' = [user |-> loginData.user, token |-> c.word]
        /\ route' = "FilesPage"
     \/ c.code # "000" /\ UNCHANGED <<storage, route>>
  /\ UNCHANGED <<steady, loginData, listed, tokens, issued, proved, elsewhere,
                 expired, events>>

\* refresh(tab) of the files page.
Refresh ==
  /\ Event
  /\ route = "FilesPage"
  /\ calls' = calls \cup {Call("files", storage.user, storage.token)}
  /\ UNCHANGED <<steady, loginData, route, storage, listed, tokens, issued, proved,
                 elsewhere, expired>>

\* Its answer: the files, or nothing when it is 111 or 015 and has no files.
RefreshAnswered(c) ==
  /\ c \in calls /\ c.kind = "files" /\ c.code # "none"
  /\ calls' = calls \ {c}
  /\ listed' = IF c.code = "files" THEN c.user ELSE Nobody
  /\ UNCHANGED <<steady, loginData, route, storage, tokens, issued, proved, elsewhere,
                 expired, events>>

\* A request that fails or has no answer: the promise of axios is rejected, and
\* nobody handles that.
Lost(c) ==
  /\ c \in calls
  /\ calls' = calls \ {c}
  /\ UNCHANGED <<steady, loginData, route, storage, listed, tokens, issued, proved,
                 elsewhere, expired, events>>

------------------------------------------------------------------------------
(* The server *)

\* login: a new token for the right password, and 001 for another one or when
\* a call fails.
ServeLogin(c) ==
  /\ c \in calls /\ c.kind = "login" /\ c.code = "none"
  /\ \/ /\ c.user \in Users /\ c.word = c.user
        /\ AnsweredWith(c, "000", issued + 1)
        /\ issued' = issued + 1
        /\ tokens' = [tokens EXCEPT ![c.user] = issued + 1]
        /\ proved' = proved \cup {c.user}
     \/ AnsweredWith(c, "001", 0) /\ UNCHANGED <<issued, tokens, proved>>
  /\ UNCHANGED <<steady, loginData, route, storage, listed, elsewhere, expired, events>>

\* redis drops the token 86400 seconds after SETEX.
Expire(u) ==
  /\ Event
  /\ tokens[u] # 0
  /\ tokens' = [tokens EXCEPT ![u] = 0]
  /\ expired' = expired \cup {tokens[u]}
  /\ UNCHANGED <<steady, loginData, route, storage, listed, calls, issued, proved,
                 elsewhere>>

\* Faulty variant: any token that is in use.
VerifyTokenAny(c) == c.user \in Users /\ c.word > 0 /\ \E u \in Users : tokens[u] = c.word

\* verify_token: the token under the user's name.
VerifyToken(c) == c.user \in Users /\ c.word > 0 /\ tokens[c.user] = c.word

\* files: the listing of the user, 015 when it fails, or 111, which is also the
\* answer when redis cannot be asked.
ServeFiles(c) ==
  /\ c \in calls /\ c.kind = "files" /\ c.code = "none"
  /\ \/ VerifyToken(c) /\ \E code \in {"files", "015"} : AnsweredWith(c, code, 0)
     \/ AnsweredWith(c, "111", 0)
  /\ UNCHANGED <<steady, loginData, route, storage, listed, tokens, issued, proved,
                 elsewhere, expired, events>>

\* A login from another browser.
LoginElsewhere(u) ==
  /\ Event
  /\ issued' = issued + 1
  /\ tokens' = [tokens EXCEPT ![u] = issued + 1]
  /\ elsewhere' = elsewhere \cup {u}
  /\ UNCHANGED <<steady, loginData, route, storage, listed, calls, proved, expired>>

------------------------------------------------------------------------------

LoginDone == events = MaxEvents /\ calls = {} /\ UNCHANGED lvars

LoginNext ==
  \/ \E u, p \in Users : Type(u, p)
  \/ Login \/ Refresh \/ LoginDone
  \/ \E c \in calls : \/ LoginAnswered(c) \/ RefreshAnswered(c)
                      \/ ServeLogin(c) \/ ServeFiles(c) \/ Lost(c)
  \/ \E u \in Users : LoginElsewhere(u) \/ Expire(u)

LoginSpec == LoginInit /\ [][LoginNext]_lvars

------------------------------------------------------------------------------

\* Whatever the form holds when an answer arrives, and however answers overtake
\* each other: the page lists the files of a user only if that user's password
\* was sent from it.  A name stored with another user's token opens nothing.
ListsProved == listed # Nobody => listed \in proved

\* The token that redis still has of one that was current: none after 24 hours.
Kept(token) == IF token \in expired THEN 0 ELSE token

\* A page whose form is left alone while it waits is left with the token that
\* redis has for the user it shows, until that user logs in elsewhere; or redis
\* has none, and then this token's 24 hours are over.  No login of this page that
\* failed, or whose answer was lost, replaces it.
StoredCurrent ==
  steady /\ route = "FilesPage" /\ storage.user \notin elsewhere
    => storage.user \in proved /\ tokens[storage.user] = Kept(storage.token)
------------------------------------------------------------------------------
(* What makes these invariants inductive *)

\* A token of the page: no user has it whose password was not sent from here.
OwnToken(w) ==
  /\ w \in 0..issued
  /\ \A u \in Users : tokens[u] = w /\ w > 0 => u \in proved

Calls ==
  [id : Nat, kind : {"login", "files"}, user : Users \cup {Nobody},
   word : Users \cup {Nobody} \cup Nat,
   code : {"none", "000", "001", "files", "015", "111"}]

\* The types of the variables.
LoginTypeOK ==
  /\ loginData \in [user : Users \cup {Nobody}, pwd : Users \cup {Nobody}]
  /\ route \in {"LoginPage", "FilesPage"}
  /\ storage \in [user : Users \cup {Nobody}, token : Nat]
  /\ calls \subseteq Calls
  /\ \A c \in calls : c.kind = "files" \/ c.code # "none" => c.word \in Nat
  /\ issued \in Nat /\ tokens \in [Users -> 0..issued]
  /\ proved \subseteq Users /\ elsewhere \subseteq Users /\ expired \subseteq 1..issued
  /\ events \in Nat

\* Whatever token the page has or sends is one of its own, and a listing that
\* is on its way is that of a user whose password was sent.
ListingInv ==
  /\ OwnToken(storage.token)
  /\ \A c \in calls :
       /\ c.kind = "login" /\ c.code = "000" => OwnToken(c.word)
       /\ c.kind = "files" /\ c.code = "none" => OwnToken(c.word)
       /\ c.kind = "files" /\ c.code = "files" => c.user \in proved
  /\ ListsProved

\* No two users have the same token.
TokensDiffer == \A u, v \in Users : tokens[u] = tokens[v] => u = v \/ tokens[u] = 0

\* The form left alone holds the name that the one request was sent with, and
\* a token that has arrived is the one that redis has or had.
WaitInv ==
  /\ steady =>
       /\ \A c, d \in calls : c.kind = "login" => c = d
       /\ \A c \in calls :
            c.kind = "login" => /\ route = "LoginPage" /\ c.user = loginData.user
                                /\ c.code = "000" => /\ c.user \in proved
                                                     /\ \/ c.user \in elsewhere
                                                        \/ tokens[c.user] = Kept(c.word)
  /\ StoredCurrent
=============================================================================
