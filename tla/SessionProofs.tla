---------------------------- MODULE SessionProofs ----------------------------
(***************************************************************************)
(* Proofs about Session, for any names, passwords, token life, clock,      *)
(* number of requests and number of failures.                              *)
(***************************************************************************)
EXTENDS Session, TLAPS

\* The locals of a request have their type, whatever field is set.
LEMMA LocalsFacts ==
  /\ Blank \in Locals
  /\ \A l \in Locals, n \in UserNames : [l EXCEPT !.user = n] \in Locals
  /\ \A l \in Locals, w \in Pwds : [l EXCEPT !.pwd = w] \in Locals
  /\ \A l \in Locals, t \in Tokens \cup {None} : [l EXCEPT !.token = t] \in Locals
  /\ \A l \in Locals, c \in 0..MaxTime : [l EXCEPT !.checked = c] \in Locals
  BY SessionAssumption DEF Locals, Blank

\* The types hold in the initial state.
LEMMA TypeInit == Init => SessionTypeOK
  BY SessionAssumption, LocalsFacts
  DEF Init, SessionTypeOK, NoAnswer, Codes, Programs, RegisterLabels, LoginLabels,
      FilesLabels, reg, log

\* Every step of the programs, the clock and the clients keeps the types.
LEMMA TypeStep == SessionTypeOK /\ [Next]_svars => SessionTypeOK'
<1> SUFFICES ASSUME SessionTypeOK, [Next]_svars PROVE SessionTypeOK'
  OBVIOUS
<1> USE SessionAssumption, LocalsFacts
        DEF SessionTypeOK, Codes, Programs, RegisterLabels, LoginLabels, FilesLabels,
            reg, log, files, NoAnswer, data, Fault, NoFault
<1>1. ASSUME NEW n \in UserNames, NEW w \in Pwds, RegisterAccept(n, w) PROVE SessionTypeOK'
  <2> DEFINE l == [Blank EXCEPT !.user = n, !.pwd = w]
  <2>1. l \in Locals /\ l.user = n
    BY DEF Locals, Blank
  <2>2. Accept("register", "reg_connect", l)
    BY <1>1 DEF RegisterAccept
  <2> HIDE DEF l
  <2> QED
    BY <2>1, <2>2 DEF Accept
<1>2. ASSUME NEW n \in UserNames, NEW w \in Pwds, LoginAccept(n, w) PROVE SessionTypeOK'
  <2> DEFINE l == [Blank EXCEPT !.user = n, !.pwd = w]
  <2>1. l \in Locals /\ l.user = n
    BY DEF Locals, Blank
  <2>2. Accept("login", "log_select", l)
    BY <1>2 DEF LoginAccept
  <2> HIDE DEF l
  <2> QED
    BY <2>1, <2>2 DEF Accept
<1>3. ASSUME NEW n \in UserNames, NEW t \in SentTokens, FilesAccept(n, t)
      PROVE  SessionTypeOK'
  <2>1. t \in Tokens \cup {None}
    BY DEF SentTokens
  <2>2. PICK l \in {files, [files EXCEPT !.user = n],
                   [files EXCEPT !.user = n, !.token = t]} :
          Accept("files", "files_first", l)
    BY <1>3 DEF FilesAccept
  <2>3. [files EXCEPT !.user = n, !.token = t] \in Locals
    BY <2>1 DEF Locals
  <2>4. l \in Locals
    BY <2>2, <2>3
  <2> QED
    BY <2>2, <2>4 DEF Accept
<1>4. CASE RegisterConnect
  BY <1>4 DEF RegisterConnect, Goto, Answer
<1>5. CASE RegisterSelect
  BY <1>5 DEF RegisterSelect, Goto, Answer
<1>6. CASE RegisterInsert
  <2>1. reg.pwd \in Pwds /\ reg.user \in UserNames /\ users \in [UserNames -> Seq(Pwds)]
    BY <1>6 DEF RegisterInsert, Locals
  <2>2. users' \in [UserNames -> Seq(Pwds)]
    <3>1. Append(users[reg.user], reg.pwd) \in Seq(Pwds)
      BY <2>1
    <3> QED
      BY <1>6, <2>1, <3>1 DEF RegisterInsert
  <2>3. /\ Answer("register", "002") \/ Answer("register", "004")
        /\ UNCHANGED <<tokens, issued, told>>
        /\ faults' \in 0..MaxFaults
    BY <1>6 DEF RegisterInsert
  <2> QED
    BY <2>2, <2>3 DEF Answer
<1>7. CASE LoginSelect
  <2>1. Goto("login", "log_token", log) \/ Answer("login", "001")
    BY <1>7 DEF LoginSelect
  <2>2. /\ spc["login"] = "log_select" /\ UNCHANGED data
        /\ faults' \in 0..MaxFaults
    BY <1>7 DEF LoginSelect
  <2>3. CASE Goto("login", "log_token", log)
    BY <2>2, <2>3 DEF Goto
  <2>4. CASE Answer("login", "001")
    BY <2>2, <2>4 DEF Answer
  <2> QED
    BY <2>1, <2>3, <2>4
<1>8. CASE LoginToken
  <2> DEFINE l(keys) == [log EXCEPT !.token = Token(log.user, now, keys)]
  <2>1. log.user \in UserNames
    BY <1>8 DEF LoginToken
  <2>2. ASSUME NEW keys \in Garbage, Goto("login", "log_setex", l(keys)), NoFault
        PROVE  SessionTypeOK'
    <3>1. Token(log.user, now, keys) \in Tokens
      BY <2>1 DEF Token, Tokens
    <3>2. l(keys) \in Locals /\ l(keys).user = log.user /\ l(keys).token \in Tokens
      BY <3>1 DEF Locals
    <3> HIDE DEF l
    <3> QED
      BY <1>8, <2>1, <2>2, <3>2 DEF LoginToken, Goto
  <2>3. CASE Answer("login", "001")
    <3>1. /\ spc["login"] = "log_token" /\ UNCHANGED data
          /\ NoFault \/ Fault
      BY <1>8, Zenon DEF LoginToken
    <3> QED
      BY <2>3, <3>1 DEF Answer
  <2>4. (\E keys \in Garbage : NoFault /\ Goto("login", "log_setex", l(keys)))
          \/ Answer("login", "001")
    BY <1>8, Zenon DEF LoginToken
  <2> QED
    BY <2>2, <2>3, <2>4, Zenon
<1>9. CASE LoginSetex
  <2> DEFINE l == [log EXCEPT !.checked = now]
  <2>1. log.user \in UserNames /\ log.token \in Tokens
    BY <1>9 DEF LoginSetex
  <2>2. l \in Locals /\ l.user = log.user /\ l.token = log.token
    BY DEF Locals
  <2>3. SetToken => /\ tokens' \in [UserNames -> Issue \cup {None}]
                    /\ issued' \subseteq [user : UserNames, token : Tokens, at : 0..MaxTime]
                    /\ told' \in [UserNames -> Issue \cup {None}]
    BY <2>1 DEF SetToken, Issue
  <2>4. /\ tokens' \in [UserNames -> Issue \cup {None}]
        /\ issued' \subseteq [user : UserNames, token : Tokens, at : 0..MaxTime]
        /\ told' \in [UserNames -> Issue \cup {None}]
    BY <1>9, <2>3 DEF LoginSetex
  <2>5. CASE Goto("login", "log_answer", l)
    <3> HIDE DEF l
    <3> QED
      BY <1>9, <2>1, <2>2, <2>4, <2>5 DEF LoginSetex, Goto
  <2>6. CASE Answer("login", "001")
    BY <1>9, <2>4, <2>6 DEF LoginSetex, Answer
  <2>7. CASE Die("login")
    BY <1>9, <2>4, <2>7 DEF LoginSetex, Die
  <2> QED
    BY <1>9, <2>5, <2>6, <2>7 DEF LoginSetex
<1>10. CASE LoginAnswer
  BY <1>10 DEF LoginAnswer, Answer, Issue, Locals
<1>11. CASE FilesFirst
  BY <1>11 DEF FilesFirst, Goto, Die
<1>12. CASE FilesVerify
  <2> DEFINE l == [files EXCEPT !.checked = now]
  <2>1. l \in Locals
    OBVIOUS
  <2>2. CASE Goto("files", "files_list", l)
    <3> HIDE DEF l
    <3> QED
      BY <1>12, <2>1, <2>2 DEF FilesVerify, Goto
  <2>3. CASE Answer("files", "111")
    BY <1>12, <2>3 DEF FilesVerify, Answer
  <2>4. CASE Die("files")
    BY <1>12, <2>4 DEF FilesVerify, Die
  <2> QED
    BY <1>12, <2>2, <2>3, <2>4 DEF FilesVerify
<1>13. CASE FilesList
  BY <1>13 DEF FilesList, Answer
<1>14. CASE Tick
  BY <1>14 DEF Tick
<1>15. ASSUME NEW p \in Programs, Kill(p) PROVE SessionTypeOK'
  BY <1>15 DEF Kill, Die
<1>16. CASE UNCHANGED svars
  BY <1>16 DEF svars
<1> QED
  BY <1>1, <1>2, <1>3, <1>4, <1>5, <1>6, <1>7, <1>8, <1>9, <1>10, <1>11, <1>12, <1>13, <1>14, <1>15, <1>16
  DEF Next, Request, RegisterStep, LoginStep, FilesStep, Done

\* Rows, keys, buffers and program counters of register, login and files have
\* their types in every state.
THEOREM SessionTypeCorrect == Spec => []SessionTypeOK
  BY TypeInit, TypeStep, PTL DEF Spec

------------------------------------------------------------------------------
(* Tokens belong to registered users *)

\* Every step keeps it: rows are only appended, and a login goes on only with
\* the password of the first row.
LEMMA RegisteredStep == SessionTypeOK /\ RegisteredInv /\ [Next]_svars => RegisteredInv'
<1> SUFFICES ASSUME SessionTypeOK, RegisteredInv, [Next]_svars PROVE RegisteredInv'
  OBVIOUS
<1> USE DEF SessionTypeOK, RegisteredInv, TokensOfRegistered, LoginOfRegistered, Programs,
            data, reg, log, files
<1>1. ASSUME NEW n \in UserNames, NEW w \in Pwds, RegisterAccept(n, w) PROVE RegisteredInv'
  BY <1>1 DEF RegisterAccept, Accept
<1>2. ASSUME NEW n \in UserNames, NEW w \in Pwds, LoginAccept(n, w) PROVE RegisteredInv'
  BY <1>2 DEF LoginAccept, Accept
<1>3. ASSUME NEW n \in UserNames, NEW t \in SentTokens, FilesAccept(n, t)
      PROVE  RegisteredInv'
  BY <1>3 DEF FilesAccept, Accept
<1>4. CASE RegisterConnect
  BY <1>4 DEF RegisterConnect, Goto, Answer
<1>5. CASE RegisterSelect
  BY <1>5 DEF RegisterSelect, Goto, Answer
<1>6. CASE RegisterInsert
  <2>1. /\ reg.user \in UserNames /\ reg.pwd \in Pwds
        /\ users \in [UserNames -> Seq(Pwds)]
    BY <1>6, SessionAssumption DEF RegisterInsert, Locals
  <2>2. \A n \in UserNames : users[n] # <<>> => users'[n] # <<>> /\ users'[n][1] = users[n][1]
    <3>1. \A q \in Seq(Pwds), w \in Pwds :
            q # <<>> => Append(q, w) # <<>> /\ Append(q, w)[1] = q[1]
      OBVIOUS
    <3>2. \A n \in UserNames : users[n] \in Seq(Pwds)
      BY <2>1
    <3>3. \A n \in UserNames : users'[n] = users[n] \/ users'[n] = Append(users[n], reg.pwd)
      BY <1>6, <2>1 DEF RegisterInsert
    <3>4. ASSUME NEW n \in UserNames, users[n] # <<>>
          PROVE  users'[n] # <<>> /\ users'[n][1] = users[n][1]
      <4>1. Append(users[n], reg.pwd) # <<>> /\ Append(users[n], reg.pwd)[1] = users[n][1]
        BY <2>1, <3>1, <3>2, <3>4
      <4> QED
        BY <3>3, <3>4, <4>1
    <3> QED
      BY <3>4
  <2>3. UNCHANGED <<tokens, spc["login"], log>>
    BY <1>6 DEF RegisterInsert, Answer
  <2>4. spc["login"] # "idle" => log.user \in UserNames
    OBVIOUS
  <2> QED
    BY <2>2, <2>3, <2>4
<1>7. CASE LoginSelect
  BY <1>7 DEF LoginSelect, Goto, Answer
<1>8. CASE LoginToken
  <2>1. log'.user = log.user \/ spc'["login"] = "idle"
    BY <1>8 DEF LoginToken, Goto, Answer, Locals
  <2>2. spc["login"] = "log_token" /\ UNCHANGED <<users, tokens>>
    BY <1>8 DEF LoginToken
  <2> QED
    BY <2>1, <2>2
<1>9. CASE LoginSetex
  <2>1. log.user \in UserNames /\ users[log.user] # <<>> /\ users[log.user][1] # Empty
    BY <1>9 DEF LoginSetex
  <2>2. \A n \in UserNames : n # log.user => tokens'[n] = tokens[n]
    BY <1>9, <2>1 DEF LoginSetex, SetToken
  <2>3. UNCHANGED users /\ spc'["login"] \in {"idle", "log_answer"}
    BY <1>9 DEF LoginSetex, Goto, Answer, Die
  <2> QED
    BY <2>1, <2>2, <2>3
<1>10. CASE LoginAnswer
  BY <1>10 DEF LoginAnswer, Answer
<1>11. CASE FilesFirst
  BY <1>11 DEF FilesFirst, Goto, Die
<1>12. CASE FilesVerify
  BY <1>12 DEF FilesVerify, Goto, Answer, Die
<1>13. CASE FilesList
  BY <1>13 DEF FilesList, Answer
<1>14. CASE Tick
  BY <1>14 DEF Tick
<1>15. ASSUME NEW p \in Programs, Kill(p) PROVE RegisteredInv'
  BY <1>15 DEF Kill, Die
<1>16. CASE UNCHANGED svars
  BY <1>16 DEF svars
<1> QED
  BY <1>1, <1>2, <1>3, <1>4, <1>5, <1>6, <1>7, <1>8, <1>9, <1>10, <1>11, <1>12, <1>13, <1>14, <1>15, <1>16
  DEF Next, Request, RegisterStep, LoginStep, FilesStep, Done

\* A name that has a token in redis is a registered user with a password,
\* whatever fails in check_user_pwd and set_token.
THEOREM TokensRegistered == Spec => []TokensOfRegistered
<1>1. Init => RegisteredInv
  BY DEF Init, RegisteredInv, TokensOfRegistered, LoginOfRegistered, Programs
<1>2. RegisteredInv => TokensOfRegistered
  BY DEF RegisteredInv
<1> QED
  BY <1>1, <1>2, RegisteredStep, SessionTypeCorrect, PTL DEF Spec

------------------------------------------------------------------------------
(* A name is registered once *)

\* Every step keeps it: nobody else inserts between the select that found no
\* row and the insert, and a select that fails has counted as a fault.
LEMMA OnceStep == SessionTypeOK /\ OnceInv /\ [Next]_svars => OnceInv'
<1> SUFFICES ASSUME SessionTypeOK, OnceInv, [Next]_svars PROVE OnceInv'
  OBVIOUS
<1>0. faults \in Nat /\ users \in [UserNames -> Seq(Pwds)]
  BY SessionAssumption DEF SessionTypeOK
<1>f. Fault => faults' # 0
  BY <1>0 DEF Fault
<1>u. ASSUME UNCHANGED users, faults' = 0 => faults = 0,
             spc'["register"] = "reg_insert" => UNCHANGED <<spc["register"], reg>>
      PROVE  OnceInv'
  BY <1>u DEF OnceInv, RegisteredOnce, InsertOfNew
<1> USE DEF Programs, data, reg, log, files
<1>1. ASSUME NEW n \in UserNames, NEW w \in Pwds, RegisterAccept(n, w) PROVE OnceInv'
  BY <1>u, <1>1 DEF RegisterAccept, Accept, SessionTypeOK
<1>2. ASSUME NEW n \in UserNames, NEW w \in Pwds, LoginAccept(n, w) PROVE OnceInv'
  BY <1>u, <1>2 DEF LoginAccept, Accept, SessionTypeOK
<1>3. ASSUME NEW n \in UserNames, NEW t \in SentTokens, FilesAccept(n, t)
      PROVE  OnceInv'
  BY <1>u, <1>3 DEF FilesAccept, Accept, SessionTypeOK
<1>4. CASE RegisterConnect
  BY <1>u, <1>f, <1>4 DEF RegisterConnect, Goto, Answer, NoFault, SessionTypeOK
<1>5. CASE RegisterSelect
  <2>1. UNCHANGED users
    BY <1>5 DEF RegisterSelect
  <2>2. CASE Answer("register", "003") /\ NoFault
    BY <1>u, <2>1, <2>2 DEF Answer, NoFault, SessionTypeOK
  <2>3. CASE NoFault /\ users[reg.user] = <<>> /\ Goto("register", "reg_insert", reg)
    <3>1. UNCHANGED <<faults, reg>>
      BY <2>3 DEF NoFault, Goto, SessionTypeOK
    <3> QED
      BY <2>1, <2>3, <3>1 DEF OnceInv, RegisteredOnce, InsertOfNew
  <2>4. CASE Fault
    BY <1>f, <2>4 DEF OnceInv, RegisteredOnce, InsertOfNew
  <2> QED
    BY <1>5, <2>2, <2>3, <2>4 DEF RegisterSelect
<1>6. CASE RegisterInsert
  <2>1. CASE Fault
    BY <1>f, <2>1 DEF OnceInv, RegisteredOnce, InsertOfNew
  <2>2. CASE NoFault /\ users' = [users EXCEPT ![reg.user] = Append(@, reg.pwd)]
    <3>1. reg.user \in UserNames /\ reg.pwd \in Pwds
      BY <1>6, SessionAssumption DEF RegisterInsert, SessionTypeOK, Locals
    <3>2. spc'["register"] # "reg_insert"
      BY <1>6 DEF RegisterInsert, Answer, SessionTypeOK
    <3>3. ASSUME NEW n \in UserNames, faults = 0 PROVE Len(users'[n]) <= 1
      <4>1. CASE n = reg.user
        <5>1. users'[n] = Append(<<>>, reg.pwd)
          BY <1>0, <1>6, <2>2, <3>3, <4>1 DEF RegisterInsert, OnceInv, InsertOfNew
        <5> QED
          BY <3>1, <5>1
      <4>2. CASE n # reg.user
        BY <1>0, <2>2, <3>3, <4>2 DEF OnceInv, RegisteredOnce
      <4> QED
        BY <4>1, <4>2
    <3> QED
      BY <2>2, <3>2, <3>3 DEF NoFault, OnceInv, RegisteredOnce, InsertOfNew
  <2> QED
    BY <1>6, <2>1, <2>2 DEF RegisterInsert
<1>7. CASE LoginSelect
  BY <1>u, <1>f, <1>7 DEF LoginSelect, Goto, Answer, NoFault, SessionTypeOK
<1>8. CASE LoginToken
  BY <1>u, <1>f, <1>8 DEF LoginToken, Goto, Answer, NoFault, SessionTypeOK
<1>9. CASE LoginSetex
  BY <1>u, <1>f, <1>9 DEF LoginSetex, Goto, Answer, Die, NoFault, SessionTypeOK
<1>10. CASE LoginAnswer
  BY <1>u, <1>10 DEF LoginAnswer, Answer, NoFault, SessionTypeOK
<1>11. CASE FilesFirst
  BY <1>u, <1>f, <1>11 DEF FilesFirst, Goto, Die, NoFault, SessionTypeOK
<1>12. CASE FilesVerify
  BY <1>u, <1>f, <1>12 DEF FilesVerify, Goto, Answer, Die, NoFault, SessionTypeOK
<1>13. CASE FilesList
  BY <1>u, <1>13 DEF FilesList, Answer, NoFault, SessionTypeOK
<1>14. CASE Tick
  BY <1>u, <1>14 DEF Tick
<1>15. ASSUME NEW p \in Programs, Kill(p) PROVE OnceInv'
  BY <1>u, <1>f, <1>15 DEF Kill, Die, SessionTypeOK
<1>16. CASE UNCHANGED svars
  BY <1>u, <1>16 DEF svars
<1> QED
  BY <1>1, <1>2, <1>3, <1>4, <1>5, <1>6, <1>7, <1>8, <1>9, <1>10, <1>11, <1>12, <1>13, <1>14, <1>15, <1>16
  DEF Next, Request, RegisterStep, LoginStep, FilesStep, Done

\* As long as no call fails a name has one row in table user, although select
\* and insert are two statements outside a transaction.
THEOREM RegistersOnce == Spec => []RegisteredOnce
<1>1. Init => OnceInv
  BY DEF Init, OnceInv, RegisteredOnce, InsertOfNew, Programs
<1>2. OnceInv => RegisteredOnce
  BY DEF OnceInv
<1> QED
  BY <1>1, <1>2, OnceStep, SessionTypeCorrect, PTL DEF Spec

------------------------------------------------------------------------------
(* A token lives as long as its client was told *)

\* Every step keeps it: a new token makes redis and the clients forget the old
\* one together, and a client is told only what was stored.
LEMMA ToldStep == SessionTypeOK /\ ToldStored /\ [Next]_svars => ToldStored'
<1> SUFFICES ASSUME SessionTypeOK, ToldStored, [Next]_svars PROVE ToldStored'
  OBVIOUS
<1> USE DEF SessionTypeOK, ToldStored, Programs, data, reg, log, files
<1>1. ASSUME NEW n \in UserNames, NEW w \in Pwds, RegisterAccept(n, w) PROVE ToldStored'
  BY <1>1 DEF RegisterAccept, Accept
<1>2. ASSUME NEW n \in UserNames, NEW w \in Pwds, LoginAccept(n, w) PROVE ToldStored'
  BY <1>2 DEF LoginAccept, Accept
<1>3. ASSUME NEW n \in UserNames, NEW t \in SentTokens, FilesAccept(n, t)
      PROVE  ToldStored'
  BY <1>3 DEF FilesAccept, Accept
<1>4. CASE RegisterConnect
  BY <1>4 DEF RegisterConnect, Goto, Answer
<1>5. CASE RegisterSelect
  BY <1>5 DEF RegisterSelect, Goto, Answer
<1>6. CASE RegisterInsert
  BY <1>6 DEF RegisterInsert, Answer
<1>7. CASE LoginSelect
  BY <1>7 DEF LoginSelect, Goto, Answer
<1>8. CASE LoginToken
  BY <1>8 DEF LoginToken, Goto, Answer
<1>9. CASE LoginSetex
  <2>1. log.user \in UserNames
    BY <1>9 DEF LoginSetex
  <2>2. ASSUME SetToken
        PROVE  /\ \A n \in UserNames : told'[n] # None => tokens'[n] = told'[n]
               /\ tokens'[log.user] = [token |-> log.token, at |-> now]
    BY <2>1, <2>2 DEF SetToken
  <2>3. \A n \in UserNames : told'[n] # None => tokens'[n] = told'[n]
    BY <1>9, <2>2 DEF LoginSetex
  <2>4. CASE SetToken /\ Goto("login", "log_answer", [log EXCEPT !.checked = now])
    <3>1. log' = [log EXCEPT !.checked = now]
      BY <2>4 DEF Goto
    <3>2. log'.user = log.user /\ log'.token = log.token /\ log'.checked = now
      BY <3>1 DEF Locals
    <3> QED
      BY <2>2, <2>3, <2>4, <3>2
  <2>5. CASE Answer("login", "001") \/ Die("login")
    BY <2>3, <2>5 DEF Answer, Die
  <2> QED
    BY <1>9, <2>4, <2>5 DEF LoginSetex
<1>10. CASE LoginAnswer
  <2>1. log.user \in UserNames
    BY <1>10 DEF LoginAnswer
  <2> QED
    BY <1>10, <2>1 DEF LoginAnswer, Answer
<1>11. CASE FilesFirst
  BY <1>11 DEF FilesFirst, Goto, Die
<1>12. CASE FilesVerify
  BY <1>12 DEF FilesVerify, Goto, Answer, Die
<1>13. CASE FilesList
  BY <1>13 DEF FilesList, Answer
<1>14. CASE Tick
  BY <1>14 DEF Tick
<1>15. ASSUME NEW p \in Programs, Kill(p) PROVE ToldStored'
  BY <1>15 DEF Kill, Die
<1>16. CASE UNCHANGED svars
  BY <1>16 DEF svars
<1> QED
  BY <1>1, <1>2, <1>3, <1>4, <1>5, <1>6, <1>7, <1>8, <1>9, <1>10, <1>11, <1>12, <1>13, <1>14, <1>15, <1>16
  DEF Next, Request, RegisterStep, LoginStep, FilesStep, Done

\* The token of the last 000 is the one that verify_token finds, until it
\* expires or another login replaces it.
THEOREM SessionsKept == Spec => []SessionKept
<1>1. Init => ToldStored
  BY DEF Init, ToldStored, Programs
<1>2. SessionTypeOK /\ ToldStored => SessionKept
  BY DEF SessionTypeOK, ToldStored, SessionKept, Current
<1> QED
  BY <1>1, <1>2, ToldStep, SessionTypeCorrect, PTL DEF Spec

------------------------------------------------------------------------------
(* A listing is sent only for a token that is valid *)

\* A later login does not take the freshness from a check made before it.
LEMMA FreshKept ==
  ASSUME SessionTypeOK, NEW l \in Locals, l.checked <= now, Fresh(l),
         NEW n \in UserNames, NEW t \in Tokens,
         issued' = issued \cup {[user |-> n, token |-> t, at |-> now]}
  PROVE  \E i \in issued' :
           /\ i.user = l.user /\ i.token = l.token
           /\ i.at <= l.checked /\ l.checked < i.at + Life
           /\ \A j \in issued' : j.user = i.user /\ j.at > i.at => j.at >= l.checked
<1>1. PICK i \in issued :
        /\ i.user = l.user /\ i.token = l.token
        /\ i.at <= l.checked /\ l.checked < i.at + Life
        /\ \A j \in issued : j.user = i.user /\ j.at > i.at => j.at >= l.checked
  BY DEF Fresh
<1>2. \A j \in issued' : j.user = i.user /\ j.at > i.at => j.at >= l.checked
  BY <1>1
<1> QED
  BY <1>1, <1>2

\* SETEX keeps redis and the history together.
LEMMA SetTokenIssued ==
  ASSUME SessionTypeOK, TokensIssued, log.user \in UserNames, log.token \in Tokens,
         SetToken, UNCHANGED now
  PROVE  TokensIssued'
<1> DEFINE new == [user |-> log.user, token |-> log.token, at |-> now]
<1>1. issued' = issued \cup {new} /\ new.at = now /\ new.user = log.user
  BY DEF SetToken
<1>2. now \in Nat /\ tokens \in [UserNames -> Issue \cup {None}]
  BY SessionAssumption DEF SessionTypeOK
<1>3. \A i \in issued' : i.at <= now'
  BY <1>1, <1>2 DEF TokensIssued
<1>4. ASSUME NEW n \in UserNames, tokens'[n] # None
      PROVE  /\ [user |-> n, token |-> tokens'[n].token, at |-> tokens'[n].at] \in issued'
             /\ \A j \in issued' : j.user = n => j.at <= tokens'[n].at
  <2>1. CASE n = log.user
    <3>1. tokens'[n].token = log.token /\ tokens'[n].at = now
      BY <1>2, <2>1 DEF SetToken
    <3> QED
      BY <1>1, <1>3, <2>1, <3>1
  <2>2. CASE n # log.user
    <3>1. tokens'[n] = tokens[n]
      BY <1>2, <2>2 DEF SetToken
    <3> QED
      BY <1>1, <1>4, <2>2, <3>1 DEF TokensIssued
  <2> QED
    BY <2>1, <2>2
<1> QED
  BY <1>3, <1>4 DEF TokensIssued

\* The token that GET returns is fresh now.
LEMMA CurrentFresh ==
  ASSUME SessionTypeOK, TokensIssued, NEW n \in UserNames, tokens[n] # None,
         now < tokens[n].at + Life
  PROVE  \E i \in issued :
           /\ i.user = n /\ i.token = tokens[n].token
           /\ i.at <= now /\ now < i.at + Life
           /\ \A j \in issued : j.user = i.user /\ j.at > i.at => j.at >= now
<1> DEFINE i == [user |-> n, token |-> tokens[n].token, at |-> tokens[n].at]
<1>1. i \in issued /\ i.at <= now /\ \A j \in issued : j.user = n => j.at <= i.at
  BY DEF TokensIssued
<1>2. \A j \in issued : j.at \in Nat
  BY SessionAssumption DEF SessionTypeOK
<1>3. \A j \in issued : j.user = i.user /\ j.at > i.at => j.at >= now
  BY <1>1, <1>2
<1> QED
  BY <1>1, <1>3

\* Every step keeps it: the check reads redis, and what is set later is set
\* after the check.
LEMMA ListingStep == SessionTypeOK /\ ListingInv /\ [Next]_svars => ListingInv'
<1> SUFFICES ASSUME SessionTypeOK, ListingInv, [Next]_svars PROVE ListingInv'
  OBVIOUS
<1>0. ASSUME UNCHANGED <<tokens, issued, now>>, answer'.code # "list",
             spc'["files"] = "files_list" => UNCHANGED <<spc["files"], files>>
      PROVE  ListingInv'
  BY <1>0 DEF ListingInv, ListingVerified, TokensIssued, ListingChecked, Fresh
<1> USE DEF SessionTypeOK, ListingInv, Programs, data, reg, log, files
<1>1. ASSUME NEW n \in UserNames, NEW w \in Pwds, RegisterAccept(n, w) PROVE ListingInv'
  BY <1>0, <1>1 DEF RegisterAccept, Accept, NoAnswer
<1>2. ASSUME NEW n \in UserNames, NEW w \in Pwds, LoginAccept(n, w) PROVE ListingInv'
  BY <1>0, <1>2 DEF LoginAccept, Accept, NoAnswer
<1>3. ASSUME NEW n \in UserNames, NEW t \in SentTokens, FilesAccept(n, t)
      PROVE  ListingInv'
  BY <1>0, <1>3 DEF FilesAccept, Accept, NoAnswer
<1>4. CASE RegisterConnect
  BY <1>0, <1>4 DEF RegisterConnect, Goto, Answer, NoAnswer
<1>5. CASE RegisterSelect
  BY <1>0, <1>5 DEF RegisterSelect, Goto, Answer, NoAnswer
<1>6. CASE RegisterInsert
  BY <1>0, <1>6 DEF RegisterInsert, Answer, NoAnswer
<1>7. CASE LoginSelect
  BY <1>0, <1>7 DEF LoginSelect, Goto, Answer, NoAnswer
<1>8. CASE LoginToken
  BY <1>0, <1>8 DEF LoginToken, Goto, Answer, NoAnswer
<1>9. CASE LoginSetex
  <2>1. log.user \in UserNames /\ log.token \in Tokens
    BY <1>9 DEF LoginSetex
  <2>2. UNCHANGED <<now, spc["files"], files>> /\ answer'.code # "list"
    BY <1>9 DEF LoginSetex, Goto, Answer, Die, NoAnswer
  <2>3. CASE SetToken
    <3>1. TokensIssued'
      BY <2>1, <2>2, <2>3, SetTokenIssued
    <3>2. files.checked <= now /\ Fresh(files) => Fresh(files)'
      <4>1. files \in Locals
        OBVIOUS
      <4>2. issued' = issued \cup {[user |-> log.user, token |-> log.token, at |-> now]}
        BY <2>3 DEF SetToken
      <4>3. ASSUME files.checked <= now, Fresh(files)
            PROVE  \E i \in issued' :
                     /\ i.user = files.user /\ i.token = files.token
                     /\ i.at <= files.checked /\ files.checked < i.at + Life
                     /\ \A j \in issued' :
                          j.user = i.user /\ j.at > i.at => j.at >= files.checked
        <5> HIDE DEF SessionTypeOK, files, log
        <5> QED
          BY <2>1, <4>1, <4>2, <4>3, FreshKept
      <4>4. files' = files
        BY <2>2
      <4> QED
        BY <4>3, <4>4 DEF Fresh
    <3> QED
      BY <2>2, <3>1, <3>2 DEF ListingVerified, ListingChecked
  <2>4. CASE UNCHANGED <<tokens, issued, told>>
    BY <2>2, <2>4 DEF ListingVerified, ListingChecked, TokensIssued, Fresh
  <2> QED
    BY <1>9, <2>3, <2>4 DEF LoginSetex
<1>10. CASE LoginAnswer
  BY <1>0, <1>10 DEF LoginAnswer, Answer, NoAnswer
<1>11. CASE FilesFirst
  BY <1>0, <1>11 DEF FilesFirst, Goto, Die, NoAnswer
<1>12. CASE FilesVerify
  <2>1. UNCHANGED <<users, tokens, issued, now>> /\ answer'.code # "list"
    BY <1>12 DEF FilesVerify, Goto, Answer, Die, NoAnswer
  <2>2. TokensIssued'
    BY <2>1 DEF TokensIssued
  <2>3. CASE spc'["files"] = "files_list"
    <3>1. Verified /\ files' = [files EXCEPT !.checked = now]
      BY <1>12, <2>3 DEF FilesVerify, Goto, Answer, Die
    <3>2. /\ files'.user = files.user /\ files'.token = files.token /\ files'.checked = now
      BY <3>1 DEF Locals
    <3>3. /\ files.user \in UserNames /\ tokens[files.user] # None
          /\ files.token = tokens[files.user].token
          /\ now < tokens[files.user].at + Life
      BY <3>1 DEF Verified, Current
    <3>4. \E i \in issued :
            /\ i.user = files.user /\ i.token = tokens[files.user].token
            /\ i.at <= now /\ now < i.at + Life
            /\ \A j \in issued : j.user = i.user /\ j.at > i.at => j.at >= now
      <4> HIDE DEF SessionTypeOK, files
      <4> QED
        BY <3>3, CurrentFresh
    <3>5. Fresh(files)'
      BY <2>1, <3>2, <3>3, <3>4 DEF Fresh
    <3> QED
      BY <2>1, <2>2, <3>2, <3>5 DEF ListingVerified, ListingChecked
  <2> QED
    BY <2>1, <2>2, <2>3 DEF ListingVerified, ListingChecked
<1>13. CASE FilesList
  <2>1. /\ UNCHANGED <<tokens, issued, now>> /\ spc'["files"] = "idle"
        /\ answer'.loc = files /\ Fresh(files)
    BY <1>13 DEF FilesList, Answer, ListingChecked
  <2>2. Fresh(files) => ListingVerified'
    BY <2>1 DEF ListingVerified, Fresh
  <2> QED
    BY <2>1, <2>2 DEF TokensIssued, ListingChecked
<1>14. CASE Tick
  <2>1. UNCHANGED <<tokens, issued, spc, sloc, answer>> /\ now' = now + 1
    BY <1>14 DEF Tick
  <2>2. TokensIssued'
    BY <2>1 DEF TokensIssued
  <2>3. files.checked \in Nat
    BY DEF Locals
  <2> QED
    BY <2>1, <2>2, <2>3 DEF ListingVerified, ListingChecked, Fresh
<1>15. ASSUME NEW p \in Programs, Kill(p) PROVE ListingInv'
  BY <1>0, <1>15 DEF Kill, Die, NoAnswer
<1>16. CASE UNCHANGED svars
  BY <1>16 DEF svars, ListingVerified, TokensIssued, ListingChecked, Fresh
<1> QED
  BY <1>1, <1>2, <1>3, <1>4, <1>5, <1>6, <1>7, <1>8, <1>9, <1>10, <1>11, <1>12, <1>13, <1>14, <1>15, <1>16
  DEF Next, Request, RegisterStep, LoginStep, FilesStep, Done

\* A listing is sent for a user only with a token of the user's last login that
\* had not expired when it was checked, also from old buffers.
THEOREM ListingsVerified == Spec => []ListingVerified
<1>1. Init => ListingInv
  BY DEF Init, ListingInv, ListingVerified, TokensIssued, ListingChecked, NoAnswer, Programs
<1>2. ListingInv => ListingVerified
  BY DEF ListingInv
<1> QED
  BY <1>1, <1>2, ListingStep, SessionTypeCorrect, PTL DEF Spec
=============================================================================
