----------------------------- MODULE PagesProofs -----------------------------
(***************************************************************************)
(* What holds of the pages of the web client for any files, users and      *)
(* bounds.                                                                 *)
(* The upload page: a file that is left unsent is known to the server or   *)
(* too big, however the callbacks interleave, and files that are selected  *)
(* one by one are recorded under their own md5.                            *)
(* Deleting: a user who never sent a token to /delete loses no file.       *)
(* Logging in and listing: a page lists only the files of users whose      *)
(* password was sent from it, and a form that is left alone while it waits *)
(* leaves the current token.                                               *)
(***************************************************************************)
EXTENDS UploadPage, DeletePage, LoginPage, TLAPS

------------------------------------------------------------------------------
(* UploadPage *)

\* A request is a file and an info.
LEMMA PostParts ==
  ASSUME NEW x \in Posts
  PROVE  x[1] \in Files /\ x[2] \in Files \cup {NoInfo} /\ x = <<x[1], x[2]>>
BY DEF Posts

\* One FileReader more, unless the file is too big.
LEMMA ReadersCounted ==
  ASSUME reading \in [Files -> Nat], NEW f \in Files, Md5File(f)
  PROVE  /\ reading' \in [Files -> Nat]
         /\ \A g \in Files : g # f => reading'[g] = reading[g]
         /\ reading'[f] = IF f \in Big THEN reading[f] ELSE reading[f] + 1
BY DEF Md5File

\* One request more for every file that is ready.
LEMMA ReadySent ==
  ASSUME PageTypeOK, Submit
  PROVE  /\ sent' \in [Posts -> Nat]
         /\ \A x \in Posts : sent'[x] = IF status[x[1]] = "ready" /\ x[2] = info
                                        THEN sent[x] + 1 ELSE sent[x]
<1> DEFINE ready == {<<f, info>> : f \in {g \in Files : status[g] = "ready"}}
<1>1. \A x \in Posts : x \in ready <=> status[x[1]] = "ready" /\ x[2] = info
  BY DEF Posts
<1>2. /\ sent' = [x \in Posts |-> IF x \in ready THEN sent[x] + 1 ELSE sent[x]]
      /\ sent \in [Posts -> Nat]
  BY DEF Submit, PageTypeOK
<1> HIDE DEF ready
<1> QED
  BY <1>1, <1>2

\* A row more at most, of the request's content under its info.
LEMMA RowMade ==
  ASSUME PageTypeOK, NEW x \in Posts, ServeUpload(x)
  PROVE  /\ recorded \subseteq recorded' /\ recorded' \subseteq recorded \cup {<<x[2], x[1]>>}
         /\ recorded' \subseteq Files \X Files
         /\ x[2] \in Files
<1>1. x[1] \in Files /\ x[2] \in Files
  BY PostParts DEF ServeUpload
<1> QED
  BY <1>1 DEF ServeUpload, PageTypeOK

\* Who the user is and what is selected stays.
LEMMA UserUnchanged == [UploadNext]_pvars => UNCHANGED <<patient, chosen>>
BY DEF UploadNext, Callback, UploadDone, pvars, user, Select, Load, Md5Known, Md5Unknown,
       Md5Lost, Progress, ServeUpload, Success, Failure

\* The types are kept by every step.
LEMMA PageTypeStep == PageTypeOK /\ [UploadNext]_pvars => PageTypeOK'
<1> SUFFICES ASSUME PageTypeOK, [UploadNext]_pvars PROVE PageTypeOK'
  OBVIOUS
<1>0. /\ status \in [Files -> Statuses] /\ reading \in [Files -> Nat]
      /\ checking \in [Files -> Nat] /\ sent \in [Posts -> Nat] /\ served \in [Posts -> Nat]
      /\ faults \in Nat
  BY DEF PageTypeOK
<1>u. UNCHANGED <<patient, chosen>>
  BY UserUnchanged
<1>1. ASSUME NEW f \in Files, Select(f) PROVE PageTypeOK'
  <2>1. reading' \in [Files -> Nat]
    BY <1>0, <1>1, ReadersCounted DEF Select
  <2> QED
    BY <1>u, <1>1, <2>1 DEF Select, PageTypeOK, Statuses
<1>2. ASSUME NEW f \in Files, Load(f) PROVE PageTypeOK'
  <2>1. reading' \in [Files -> Nat] /\ checking' \in [Files -> Nat]
    BY <1>0, <1>2 DEF Load
  <2> QED
    BY <1>u, <1>2, <2>1 DEF Load, PageTypeOK
<1>3. ASSUME NEW f \in Files, Md5Known(f) \/ Md5Unknown(f) \/ Md5Lost(f) PROVE PageTypeOK'
  <2>1. checking' \in [Files -> Nat]
    BY <1>0, <1>3 DEF Md5Known, Md5Unknown, Md5Lost, Md5Answered
  <2>2. sent' \in [Posts -> Nat]
    BY <1>0, <1>3, ReadySent DEF Md5Known, Md5Unknown, Md5Lost
  <2> QED
    BY <1>u, <1>3, <2>1, <2>2 DEF Md5Known, Md5Unknown, Md5Lost, Fault, PageTypeOK
<1>4. ASSUME NEW x \in Posts, Progress(x) PROVE PageTypeOK'
  <2>1. status' \in [Files -> Statuses]
    BY <1>0, <1>4, PostParts DEF Progress, Statuses
  <2> QED
    BY <1>u, <1>4, <2>1 DEF Progress, PageTypeOK
<1>5. ASSUME NEW x \in Posts, ServeUpload(x) PROVE PageTypeOK'
  <2>1. sent' \in [Posts -> Nat] /\ served' \in [Posts -> Nat]
    BY <1>0, <1>5 DEF ServeUpload
  <2> QED
    BY <1>u, <1>5, <2>1, RowMade DEF ServeUpload, page, PageTypeOK
<1>6. ASSUME NEW x \in Posts, Success(x) \/ Failure(x) PROVE PageTypeOK'
  <2>1. x[1] \in Files
    BY PostParts
  <2>2. reading' \in [Files -> Nat] /\ status' \in [Files -> Statuses]
    BY <1>0, <1>6, <2>1, ReadersCounted DEF Success, Failure, Statuses
  <2>3. sent' \in [Posts -> Nat] /\ served' \in [Posts -> Nat] /\ faults' \in Nat
    BY <1>0, <1>6 DEF Success, Failure, Fault
  <2> QED
    BY <1>u, <1>6, <2>2, <2>3 DEF Success, Failure, PageTypeOK
<1>7. CASE UNCHANGED pvars
  BY <1>u, <1>7 DEF pvars, PageTypeOK
<1> QED
  BY <1>1, <1>2, <1>3, <1>4, <1>5, <1>6, <1>7 DEF UploadNext, Callback, UploadDone

\* The initial states have the types.
LEMMA PageTypeInit == UploadInit => PageTypeOK
BY PageAssumption DEF UploadInit, PageTypeOK, Statuses

\* The variables have their types in every state.
LEMMA PageTypeInvariant == UploadSpec => []PageTypeOK
BY PageTypeInit, PageTypeStep, PTL DEF UploadSpec

------------------------------------------------------------------------------

\* A content that has a row keeps it.
LEMMA KnownStays ==
  ASSUME NEW f, recorded \subseteq recorded', ~Unknown(f)
  PROVE  ~Unknown(f)'
BY DEF Unknown

\* Every step keeps a file that is ready in somebody's hands.
LEMMA ReadyStep == PageTypeOK /\ ReadyInv /\ [UploadNext]_pvars => ReadyInv'
<1> SUFFICES ASSUME PageTypeOK, ReadyInv, [UploadNext]_pvars, faults' = 0,
                    NEW g \in Files, status'[g] = "ready"
             PROVE  Active(g)' \/ ~Unknown(g)' \/ g \in Big
  BY DEF ReadyInv
<1> DEFINE Goal == Active(g)' \/ ~Unknown(g)' \/ g \in Big
<1>0. /\ status \in [Files -> Statuses] /\ reading \in [Files -> Nat]
      /\ checking \in [Files -> Nat] /\ sent \in [Posts -> Nat] /\ served \in [Posts -> Nat]
      /\ faults \in Nat
  BY DEF PageTypeOK
<1>a. /\ Active(g) <=> \/ reading[g] + checking[g] > 0
                       \/ \E x \in Posts : x[1] = g /\ sent[x] + served[x] > 0
      /\ Active(g)' <=> \/ reading'[g] + checking'[g] > 0
                        \/ \E x \in Posts : x[1] = g /\ sent'[x] + served'[x] > 0
  BY DEF Active, Waiting, OnItsWay
<1>b. ASSUME status[g] = "ready", faults = 0
      PROVE  Active(g) \/ ~Unknown(g) \/ g \in Big
  BY <1>b DEF ReadyInv
<1>1. ASSUME NEW f \in Files, Select(f) PROVE Goal
  <2>1. /\ UNCHANGED <<checking, sent, served, recorded, faults>>
        /\ f # g => status'[g] = status[g] /\ reading'[g] = reading[g]
        /\ f = g /\ g \notin Big => reading'[g] = reading[g] + 1
    BY <1>0, <1>1, ReadersCounted DEF Select
  <2> QED
    BY <1>0, <1>a, <1>b, <2>1, KnownStays
<1>2. ASSUME NEW f \in Files, Load(f) PROVE Goal
  <2>1. /\ UNCHANGED <<status, sent, served, recorded, faults>>
        /\ reading'[g] + checking'[g] = reading[g] + checking[g]
    BY <1>0, <1>2 DEF Load
  <2> QED
    BY <1>0, <1>a, <1>b, <2>1, KnownStays
<1>3. ASSUME NEW f \in Files, Md5Known(f) PROVE Goal
  <2>1. /\ UNCHANGED <<status, reading, sent, served, recorded, faults>>
        /\ f = g => ~Unknown(g)
        /\ f # g => checking'[g] = checking[g]
    BY <1>0, <1>3 DEF Md5Known, Md5Answered
  <2> QED
    BY <1>0, <1>a, <1>b, <2>1, KnownStays
<1>4. ASSUME NEW f \in Files, Md5Unknown(f) PROVE Goal
  <2>1. UNCHANGED <<status, served>> /\ <<g, info>> \in Posts
    BY <1>4 DEF Md5Unknown, PageTypeOK, Posts
  <2>2. sent'[<<g, info>>] = sent[<<g, info>>] + 1
    BY <1>4, <2>1, ReadySent DEF Md5Unknown
  <2>3. sent'[<<g, info>>] + served'[<<g, info>>] > 0
    BY <1>0, <2>1, <2>2
  <2> QED
    BY <1>a, <2>1, <2>3
<1>5. ASSUME NEW f \in Files, Md5Lost(f) PROVE FALSE
  BY <1>0, <1>5 DEF Md5Lost, Fault
<1>6. ASSUME NEW x \in Posts, Progress(x) PROVE Goal
  <2>1. /\ UNCHANGED <<reading, checking, sent, served, recorded, faults>>
        /\ status'[g] = status[g]
    BY <1>0, <1>6 DEF Progress
  <2> QED
    BY <1>0, <1>a, <1>b, <2>1, KnownStays
<1>7. ASSUME NEW x \in Posts, ServeUpload(x) PROVE Goal
  <2>1. /\ UNCHANGED <<status, reading, checking, faults>>
        /\ \A y \in Posts : sent'[y] + served'[y] = sent[y] + served[y]
    BY <1>0, <1>7 DEF ServeUpload, page
  <2> QED
    BY <1>0, <1>7, <1>a, <1>b, <2>1, RowMade, KnownStays
<1>8. ASSUME NEW x \in Posts, Success(x) \/ Failure(x) PROVE Goal
  <2>1. x[1] # g /\ status'[g] = status[g]
    BY <1>0, <1>8, PostParts DEF Success, Failure
  <2>2. /\ UNCHANGED <<checking, recorded>> /\ reading'[g] = reading[g] /\ faults = 0
        /\ \A y \in Posts : y # x => sent'[y] = sent[y] /\ served'[y] = served[y]
    BY <1>0, <1>8, <2>1, ReadersCounted, PostParts DEF Success, Failure, Fault
  <2> QED
    BY <1>0, <1>a, <1>b, <2>1, <2>2, KnownStays
<1>9. CASE UNCHANGED pvars
  BY <1>0, <1>a, <1>b, <1>9, KnownStays DEF pvars
<1> QED
  BY <1>1, <1>2, <1>3, <1>4, <1>5, <1>6, <1>7, <1>8, <1>9 DEF UploadNext, Callback, UploadDone

\* However the callbacks of the page interleave with the answers of the md5 and
\* the upload program: when nothing is on its way and no request has failed, a
\* file that is left in the list unsent is one that the server has, or one too
\* big to be read.
THEOREM LeftFilesKnown == UploadSpec => []LeftKnown
<1>1. UploadInit => ReadyInv
  BY DEF UploadInit, ReadyInv
<1>2. PageTypeOK /\ ReadyInv => LeftKnown
  <2> SUFFICES ASSUME PageTypeOK, ReadyInv, Quiet, faults = 0,
                      NEW f \in Files, status[f] = "ready"
               PROVE  ~Unknown(f) \/ f \in Big
    BY DEF LeftKnown
  <2>1. f \notin Waiting /\ ~OnItsWay(f)
    BY DEF Quiet, OnItsWay
  <2> QED
    BY <2>1 DEF ReadyInv, Active
<1> QED
  BY <1>1, <1>2, ReadyStep, PageTypeInvariant, PTL DEF UploadSpec
------------------------------------------------------------------------------

\* The parts of Alone, for one file.
FileAlone(f) ==
  /\ checking[f] > 0 => info = f
  /\ f \notin chosen => status[f] = "none"
  /\ status[f] = "none" => ~Active(f) /\ (f \in chosen => Unknown(f))
  /\ status[f] = "ready" =>
       \/ reading[f] + checking[f] = 0 /\ OnItsWay(f)
       \/ reading[f] + checking[f] = 1 /\ ~OnItsWay(f) /\ Unknown(f)

OwnRows == \A r \in recorded : r[1] = r[2]
OwnPosts == \A x \in Posts : sent[x] + served[x] > 0 => x[1] = x[2]
OneActive == \A f, g \in Files : Active(f) /\ Active(g) => f = g

\* Alone and its primed form in these parts.
LEMMA AloneParts ==
  /\ Alone <=> /\ OwnRows /\ OwnPosts /\ OneActive
               /\ \A f \in Files : FileAlone(f)
  /\ Alone' <=> /\ OwnRows' /\ OwnPosts' /\ OneActive'
                /\ \A f \in Files : FileAlone(f)'
BY DEF Alone, OwnRows, OwnPosts, OneActive, FileAlone

\* When a file is active.
LEMMA ActiveMeans ==
  ASSUME NEW f \in Files
  PROVE  /\ Active(f) <=> reading[f] + checking[f] > 0 \/ OnItsWay(f)
         /\ Active(f)' <=> reading'[f] + checking'[f] > 0 \/ OnItsWay(f)'
         /\ OnItsWay(f) <=> \E x \in Posts : x[1] = f /\ sent[x] + served[x] > 0
         /\ OnItsWay(f)' <=> \E x \in Posts : x[1] = f /\ sent'[x] + served'[x] > 0
BY DEF Active, Waiting, OnItsWay

\* A step that touches nothing of a file leaves its part as it was.
LEMMA FileUntouched ==
  ASSUME NEW f \in Files, FileAlone(f), status'[f] = status[f], reading'[f] = reading[f],
         checking'[f] = checking[f], OnItsWay(f)' <=> OnItsWay(f), Unknown(f)' <=> Unknown(f),
         checking[f] > 0 => info' = info, UNCHANGED chosen
  PROVE  FileAlone(f)' /\ (Active(f)' <=> Active(f))
BY ActiveMeans DEF FileAlone

\* Every step of files that are selected one by one keeps the invariant.
LEMMA AloneStep ==
  ASSUME PageTypeOK, AloneInv, [UploadNext]_pvars
  PROVE  AloneInv'
<1> SUFFICES ASSUME OneByOne' PROVE Alone'
  BY DEF AloneInv
<1>0. /\ status \in [Files -> Statuses] /\ reading \in [Files -> Nat]
      /\ checking \in [Files -> Nat] /\ sent \in [Posts -> Nat] /\ served \in [Posts -> Nat]
      /\ faults \in Nat
  BY DEF PageTypeOK
<1>u. UNCHANGED <<patient, chosen>>
  BY UserUnchanged
<1>f. /\ patient /\ faults = 0 /\ faults' = 0
      /\ \A f \in chosen : f \notin Known /\ f \notin Big /\ f \notin Empty
  <2>1. faults' = faults \/ faults' = faults + 1
    BY DEF UploadNext, Callback, UploadDone, pvars, Select, Load, Md5Known, Md5Unknown,
           Md5Lost, Progress, ServeUpload, Success, Failure, Fault
  <2> QED
    BY <1>0, <1>u, <2>1 DEF OneByOne
<1>i. /\ OwnRows /\ OwnPosts /\ OneActive
      /\ \A f \in Files : FileAlone(f)
  <2>1. OneByOne
    BY <1>u, <1>f DEF OneByOne
  <2> QED
    BY <2>1, AloneParts DEF AloneInv
<1>1. ASSUME NEW f \in Files, Select(f) PROVE Alone'
  <2>1. /\ Quiet /\ f \in chosen
        /\ UNCHANGED <<checking, info, sent, served, recorded, faults>>
        /\ status[f] = "none" /\ status'[f] = "ready" /\ reading'[f] = reading[f] + 1
        /\ \A g \in Files : g # f => status'[g] = status[g] /\ reading'[g] = reading[g]
    BY <1>0, <1>1, <1>f, ReadersCounted DEF Select
  <2>2. \A g \in Files : ~Active(g)
    BY <2>1 DEF Quiet, Active, OnItsWay
  <2>3. /\ \A g \in Files : (OnItsWay(g)' <=> OnItsWay(g)) /\ (Unknown(g)' <=> Unknown(g))
        /\ OwnPosts' /\ OwnRows'
    BY <1>i, <2>1 DEF OnItsWay, Unknown, OwnPosts, OwnRows
  <2>4. \A g \in Files : g # f => FileAlone(g)' /\ ~Active(g)'
    BY <1>u, <1>i, <2>1, <2>2, <2>3, FileUntouched
  <2>5. FileAlone(f)'
    <3>1. reading[f] = 0 /\ checking[f] = 0 /\ ~OnItsWay(f) /\ Unknown(f)
      BY <1>u, <1>0, <1>i, <2>1, <2>2, ActiveMeans DEF FileAlone
    <3> QED
      BY <1>u, <2>1, <2>3, <3>1 DEF FileAlone
  <2>6. OneActive'
    BY <2>4 DEF OneActive
  <2> QED
    BY <2>1, <2>3, <2>4, <2>5, <2>6, AloneParts
<1>2. ASSUME NEW f \in Files, Load(f) PROVE Alone'
  <2>1. /\ UNCHANGED <<status, sent, served, recorded, faults>> /\ info' = f
        /\ reading[f] > 0 /\ reading'[f] + checking'[f] = reading[f] + checking[f]
        /\ \A g \in Files : g # f => reading'[g] = reading[g] /\ checking'[g] = checking[g]
    <3>1. reading[f] > 0 => f \in chosen
      BY <1>0, <1>i, ActiveMeans DEF FileAlone
    <3> QED
      BY <1>0, <1>2, <1>f, <3>1 DEF Load
  <2>2. /\ \A g \in Files : (OnItsWay(g)' <=> OnItsWay(g)) /\ (Unknown(g)' <=> Unknown(g))
        /\ OwnPosts' /\ OwnRows'
    BY <1>i, <2>1 DEF OnItsWay, Unknown, OwnPosts, OwnRows
  <2>3. Active(f) /\ \A g \in Files : g # f => ~Active(g)
    BY <1>0, <1>i, <2>1, ActiveMeans DEF OneActive
  <2>4. \A g \in Files : g # f => FileAlone(g)' /\ ~Active(g)'
    <3>1. \A g \in Files : g # f => ~(checking[g] > 0)
      BY <1>0, <2>3, ActiveMeans
    <3> QED
      BY <1>u, <1>i, <2>1, <2>2, <2>3, <3>1, FileUntouched
  <2>5. FileAlone(f)'
    <3>1. status[f] # "none"
      BY <1>u, <1>i, <2>3 DEF FileAlone
    <3> QED
      BY <1>u, <1>i, <2>1, <2>2, <3>1 DEF FileAlone
  <2>6. OneActive'
    BY <2>4 DEF OneActive
  <2> QED
    BY <2>1, <2>2, <2>4, <2>5, <2>6, AloneParts
<1>3. ASSUME NEW f \in Files, Md5Known(f) \/ (Md5Unknown(f) /\ status[f] # "ready")
      PROVE  Alone'
  <2>0. /\ checking[f] > 0 /\ Md5Answered(f) /\ UNCHANGED <<status, reading, info, served,
                                                         recorded, faults>>
        /\ UNCHANGED sent \/ Submit
    BY <1>3 DEF Md5Known, Md5Unknown
  <2>1. Active(f) /\ (\A g \in Files : g # f => ~Active(g)) /\ status[f] # "none"
    BY <1>0, <1>i, <2>0, ActiveMeans DEF OneActive, FileAlone
  <2>2. \A g \in Files : status[g] # "ready"
    <3>1. status[f] # "ready"
      BY <1>u, <1>0, <1>i, <1>3, <2>0 DEF FileAlone, Md5Known
    <3>2. \A g \in Files : g # f => status[g] # "ready"
      BY <1>u, <1>i, <2>1, ActiveMeans DEF FileAlone
    <3> QED
      BY <3>1, <3>2
  <2>3. \A x \in Posts : sent'[x] = sent[x]
    BY <2>0, <2>2, ReadySent, PostParts
  <2>4. /\ \A g \in Files : (OnItsWay(g)' <=> OnItsWay(g)) /\ (Unknown(g)' <=> Unknown(g))
        /\ OwnPosts' /\ OwnRows'
    BY <1>i, <2>0, <2>3 DEF OnItsWay, Unknown, OwnPosts, OwnRows
  <2>5. /\ \A g \in Files : g # f => checking'[g] = checking[g]
        /\ checking'[f] = checking[f] - 1
    BY <1>0, <2>0 DEF Md5Answered
  <2>6. \A g \in Files : g # f => FileAlone(g)' /\ ~Active(g)'
    BY <1>u, <1>i, <2>0, <2>1, <2>4, <2>5, FileUntouched
  <2>7. FileAlone(f)'
    BY <1>u, <1>i, <2>0, <2>1, <2>2 DEF FileAlone
  <2>8. OneActive'
    BY <2>6 DEF OneActive
  <2> QED
    BY <2>0, <2>4, <2>6, <2>7, <2>8, AloneParts
<1>4. ASSUME NEW f \in Files, Md5Unknown(f), status[f] = "ready"
      PROVE  Alone'
  <2>0. /\ checking[f] > 0 /\ Md5Answered(f) /\ Submit
        /\ UNCHANGED <<status, reading, info, served, recorded, faults>>
    BY <1>4 DEF Md5Unknown
  <2>1. /\ Active(f) /\ (\A g \in Files : g # f => ~Active(g)) /\ info = f
        /\ f \in chosen
    BY <1>0, <1>i, <2>0, ActiveMeans DEF OneActive, FileAlone
  <2>2. \A g \in Files : g # f => status[g] # "ready"
    BY <1>u, <1>i, <2>1, ActiveMeans DEF FileAlone
  <2>3. <<f, f>> \in Posts /\ <<f, f>>[1] = f /\ <<f, f>>[2] = f
    BY DEF Posts
  <2>4. /\ sent'[<<f, f>>] = sent[<<f, f>>] + 1
        /\ \A x \in Posts : x # <<f, f>> => sent'[x] = sent[x]
    BY <1>4, <2>0, <2>1, <2>2, <2>3, ReadySent, PostParts
  <2>5. /\ \A g \in Files : g # f => checking'[g] = checking[g]
        /\ checking'[f] = checking[f] - 1
    BY <1>0, <2>0 DEF Md5Answered
  <2>6. /\ \A g \in Files : Unknown(g)' <=> Unknown(g)
        /\ \A g \in Files : g # f => (OnItsWay(g)' <=> OnItsWay(g))
        /\ OwnRows'
    BY <1>i, <2>0, <2>3, <2>4 DEF OnItsWay, Unknown, OwnRows
  <2>7. OnItsWay(f)'
    BY <1>0, <2>0, <2>3, <2>4 DEF OnItsWay
  <2>8. OwnPosts'
    BY <1>i, <2>0, <2>3, <2>4 DEF OwnPosts
  <2>9. \A g \in Files : g # f => FileAlone(g)' /\ ~Active(g)'
    BY <1>u, <1>i, <2>0, <2>1, <2>5, <2>6, FileUntouched
  <2>10. FileAlone(f)'
    <3>1. reading[f] + checking[f] = 1
      BY <1>u, <1>0, <1>4, <1>i, <2>0 DEF FileAlone
    <3> QED
      BY <1>u, <1>0, <1>4, <2>0, <2>1, <2>5, <2>7, <3>1 DEF FileAlone
  <2>11. OneActive'
    BY <2>9 DEF OneActive
  <2> QED
    BY <2>0, <2>6, <2>8, <2>9, <2>10, <2>11, AloneParts
<1>5. ASSUME NEW x \in Posts, Progress(x) PROVE Alone'
  <2>1. /\ UNCHANGED <<reading, checking, info, sent, served, recorded, faults>>
        /\ sent[x] + served[x] > 0 /\ x[1] \in Files /\ status'[x[1]] = "uploading"
        /\ \A g \in Files : g # x[1] => status'[g] = status[g]
    BY <1>0, <1>5, PostParts DEF Progress
  <2>2. /\ \A g \in Files : (OnItsWay(g)' <=> OnItsWay(g)) /\ (Unknown(g)' <=> Unknown(g))
        /\ \A g \in Files : Active(g)' <=> Active(g)
        /\ OwnPosts' /\ OwnRows' /\ OneActive'
    BY <1>i, <2>1 DEF OnItsWay, Unknown, OwnPosts, OwnRows, Active, Waiting, OneActive
  <2>3. \A g \in Files : FileAlone(g)'
    <3>1. x[1] \in chosen
      BY <1>0, <1>i, <2>1, ActiveMeans DEF FileAlone
    <3> QED
      BY <1>u, <1>i, <2>1, <2>2, <3>1 DEF FileAlone
  <2> QED
    BY <2>1, <2>2, <2>3, AloneParts
<1>6. ASSUME NEW x \in Posts, ServeUpload(x) PROVE Alone'
  <2>1. /\ UNCHANGED <<status, reading, checking, info, faults>> /\ sent[x] > 0
        /\ \A y \in Posts : sent'[y] + served'[y] = sent[y] + served[y]
    BY <1>0, <1>6 DEF ServeUpload, page
  <2>2. x[1] = x[2] /\ x[1] \in Files /\ OnItsWay(x[1])
    BY <1>0, <1>i, <2>1, PostParts DEF OwnPosts, OnItsWay
  <2>3. /\ \A g \in Files : OnItsWay(g)' <=> OnItsWay(g)
        /\ \A g \in Files : Active(g)' <=> Active(g)
        /\ OwnPosts' /\ OneActive'
    BY <1>i, <2>1 DEF OnItsWay, OwnPosts, Active, Waiting, OneActive
  <2>4. OwnRows' /\ \A g \in Files : g # x[1] => (Unknown(g)' <=> Unknown(g))
    BY <1>6, <1>i, <2>2, RowMade DEF OwnRows, Unknown
  <2>5. \A g \in Files : g # x[1] => FileAlone(g)'
    BY <1>u, <1>i, <2>1, <2>3, <2>4, FileUntouched
  <2>6. FileAlone(x[1])'
    <3>1. ASSUME NEW f \in Files, OnItsWay(f), FileAlone(f),
                 OnItsWay(f)' <=> OnItsWay(f), Active(f)' <=> Active(f)
          PROVE  FileAlone(f)'
      BY <1>u, <2>1, <3>1, ActiveMeans DEF FileAlone
    <3>2. \A f \in Files : f = x[1] => FileAlone(f)'
      BY <1>i, <2>2, <2>3, <3>1
    <3> QED
      BY <2>2, <3>2
  <2> QED
    BY <2>1, <2>3, <2>4, <2>5, <2>6, AloneParts
<1>7. ASSUME NEW x \in Posts, Success(x) PROVE Alone'
  <2>1. PICK f \in Files : f = x[1]
    BY PostParts
  <2>2. /\ UNCHANGED <<checking, info, sent, recorded, faults>> /\ served[x] > 0
        /\ served'[x] = served[x] - 1 /\ status'[f] = "success"
        /\ reading'[f] = reading[f] + 1
        /\ \A g \in Files : g # f => status'[g] = status[g] /\ reading'[g] = reading[g]
        /\ \A y \in Posts : y # x => served'[y] = served[y]
    <3>1. served[x] > 0 => f \in chosen
      BY <1>0, <1>i, <2>1, ActiveMeans DEF FileAlone
    <3> QED
      BY <1>0, <1>7, <1>f, <2>1, <3>1, ReadersCounted DEF Success
  <2>3. OnItsWay(f) /\ Active(f) /\ f \in chosen /\ \A g \in Files : g # f => ~Active(g)
    BY <1>0, <1>i, <2>1, <2>2, ActiveMeans DEF OneActive, FileAlone
  <2>4. /\ \A g \in Files : Unknown(g)' <=> Unknown(g)
        /\ \A g \in Files : g # f => (OnItsWay(g)' <=> OnItsWay(g))
        /\ OwnRows'
    BY <1>i, <2>1, <2>2 DEF OnItsWay, Unknown, OwnRows
  <2>5. OwnPosts'
    BY <1>0, <1>i, <2>2 DEF OwnPosts
  <2>6. \A g \in Files : g # f => FileAlone(g)' /\ ~Active(g)'
    BY <1>u, <1>i, <2>2, <2>3, <2>4, FileUntouched
  <2>7. FileAlone(f)'
    BY <1>u, <1>i, <2>2, <2>3 DEF FileAlone
  <2>8. OneActive'
    BY <2>6 DEF OneActive
  <2> QED
    BY <2>2, <2>4, <2>5, <2>6, <2>7, <2>8, AloneParts
<1>8. ASSUME NEW f \in Files, Md5Lost(f) PROVE FALSE
  BY <1>8, <1>f DEF Md5Lost, Fault
<1>9. ASSUME NEW x \in Posts, Failure(x) PROVE FALSE
  <2>1. sent[x] > 0 /\ x[2] = NoInfo
    BY <1>9, <1>f DEF Failure, Fault
  <2>2. x[1] = x[2] /\ x[1] \in Files
    BY <1>0, <1>i, <2>1, PostParts DEF OwnPosts
  <2> QED
    BY <2>1, <2>2, PageAssumption
<1>10. CASE UNCHANGED pvars
  <2>1. UNCHANGED <<status, reading, checking, info, sent, served, recorded, faults>>
    BY <1>10 DEF pvars
  <2> QED
    BY <1>i, <1>u, <2>1, AloneParts
       DEF OwnRows, OwnPosts, OneActive, FileAlone, Active, OnItsWay, Waiting, Unknown
<1> QED
  BY <1>1, <1>2, <1>3, <1>4, <1>5, <1>6, <1>7, <1>8, <1>9, <1>10 DEF UploadNext, Callback, UploadDone

\* Files that are selected one by one are recorded under their own md5, although
\* on-change sets the one info of the page again after every answer.
THEOREM OneByOneContentTrue == UploadSpec => []ContentTrue
<1>1. UploadInit => AloneInv
  BY PageAssumption
     DEF UploadInit, AloneInv, Alone, Active, OnItsWay, Waiting, Unknown, OneByOne
<1>2. PageTypeOK /\ AloneInv /\ [UploadNext]_pvars => AloneInv'
  BY AloneStep
<1>3. AloneInv => ContentTrue
  BY DEF AloneInv, Alone, ContentTrue
<1> QED
  BY <1>1, <1>2, <1>3, PageTypeInvariant, PTL DEF UploadSpec
------------------------------------------------------------------------------
(* DeletePage *)

\* The answer to a click belongs to the same user.
LEMMA ClickAnswered ==
  ASSUME NEW c, "user" \in DOMAIN c, NEW code
  PROVE  /\ "user" \in DOMAIN [c EXCEPT !.code = code]
         /\ [c EXCEPT !.code = code].user = c.user
OBVIOUS

\* Every request leaves the token of a user who sent one, and deletes only
\* from that user's list.
LEMMA HandleKeeps ==
  ASSUME DeleteInv, NEW u \in Owners, NEW k, NEW n \in 0..4,
         NEW code, Handle(u, k, n, code),
         \A c \in clicks' : "user" \in DOMAIN c /\ c.user \in Owners
  PROVE  /\ DeleteInv'
         /\ \A v \in Owners : files[v] \subseteq files'[v] \/ v \in vouched'
<1> DEFINE b == GetJsonInfo(u, k, n)
<1>1. /\ bufs' = b /\ vouched' = IF n = 4 THEN vouched \cup {u} ELSE vouched
      /\ \/ UNCHANGED files
         \/ VerifyBuffers(b) /\ files' = [files EXCEPT ![b.user] = @ \ Named(b)]
  BY DEF Handle
<1>2. b.token = IF n = 4 THEN u ELSE bufs.token
  BY DEF GetJsonInfo
<1>3. b.token \in Owners => b.token \in vouched'
  BY <1>1, <1>2 DEF DeleteInv
<1>4. files' \in [Owners -> SUBSET Names]
  <2>1. files \in [Owners -> SUBSET Names]
    BY DEF DeleteInv
  <2> QED
    BY <1>1, <2>1 DEF VerifyBuffers
<1> HIDE DEF b
<1>5. DeleteInv'
  BY <1>1, <1>3, <1>4 DEF DeleteInv
<1>6. ASSUME NEW v \in Owners PROVE files[v] \subseteq files'[v] \/ v \in vouched'
  <2>1. CASE VerifyBuffers(b) /\ files' = [files EXCEPT ![b.user] = @ \ Named(b)]
    <3>1. b.user \in vouched'
      BY <1>3, <2>1 DEF VerifyBuffers
    <3>2. v # b.user => files'[v] = files[v]
      BY <2>1 DEF DeleteInv
    <3> QED
      BY <3>1, <3>2
  <2> QED
    BY <1>1, <2>1
<1> QED
  BY <1>5, <1>6

\* No other step deletes.
LEMMA DeleteStep ==
  ASSUME DeleteInv, [DeleteNext]_dvars
  PROVE  /\ DeleteInv'
         /\ \A u \in Owners : files[u] \subseteq files'[u] \/ u \in vouched'
<1> DEFINE Goal == /\ DeleteInv'
                   /\ \A u \in Owners : files[u] \subseteq files'[u] \/ u \in vouched'
<1>u. ASSUME UNCHANGED <<bufs, vouched>>, files' \in [Owners -> SUBSET Names],
             \A u \in Owners : files[u] \subseteq files'[u],
             \A c \in clicks' : "user" \in DOMAIN c /\ c.user \in Owners
      PROVE  Goal
  BY <1>u DEF DeleteInv
<1>0. /\ files \in [Owners -> SUBSET Names]
      /\ \A c \in clicks : "user" \in DOMAIN c /\ c.user \in Owners
  BY DEF DeleteInv
<1>1. ASSUME NEW u \in Owners, NEW k \in Names, NEW n \in Counts, Request(u, k, n) PROVE Goal
  <2>1. PICK code : Handle(u, k, n, code)
    BY <1>1 DEF Request
  <2>2. n \in 0..4 /\ \A c \in clicks' : "user" \in DOMAIN c /\ c.user \in Owners
    BY <1>0, <1>1, DeleteAssumption DEF Request
  <2> QED
    BY <2>1, <2>2, HandleKeeps
<1>2. ASSUME NEW u \in Owners, Reload(u) PROVE Goal
  BY <1>0, <1>2, <1>u DEF Reload
<1>3. ASSUME NEW a \in listings, Show(a) PROVE Goal
  BY <1>0, <1>3, <1>u DEF Show
<1>4. ASSUME NEW u \in Owners, NEW i, DeleteRow(u, i) PROVE Goal
  <2> DEFINE c == [id |-> acts + 1, user |-> u, index |-> i, array |-> array[u],
                   name |-> tableData[u][i], code |-> "none"]
  <2>1. clicks' = clicks \cup {c} /\ UNCHANGED <<files, bufs, vouched>>
    BY <1>4 DEF DeleteRow
  <2>2. "user" \in DOMAIN c /\ c.user = u
    OBVIOUS
  <2> HIDE DEF c
  <2>3. \A d \in clicks' : "user" \in DOMAIN d /\ d.user \in Owners
    BY <1>0, <2>1, <2>2
  <2> QED
    BY <1>0, <1>u, <2>1, <2>3
<1>5. ASSUME NEW c \in clicks, ServeDelete(c) PROVE Goal
  <2>1. PICK code : /\ Handle(c.user, c.name, 1, code)
                    /\ clicks' = (clicks \ {c}) \cup {[c EXCEPT !.code = code]}
    BY <1>5 DEF ServeDelete
  <2>2. \A d \in clicks' : "user" \in DOMAIN d /\ d.user \in Owners
    BY <1>0, <2>1, ClickAnswered
  <2>3. c.user \in Owners /\ 1 \in 0..4
    BY <1>0
  <2> QED
    BY <2>1, <2>2, <2>3, HandleKeeps
<1>6. ASSUME NEW c \in clicks, Answer(c) PROVE Goal
  BY <1>0, <1>6, <1>u DEF Answer
<1>7. ASSUME NEW u \in Owners, NEW k \in Names, Upload(u, k) PROVE Goal
  BY <1>0, <1>7, <1>u DEF Upload
<1>8. CASE UNCHANGED dvars
  BY <1>0, <1>8, <1>u DEF dvars
<1> QED
  BY <1>1, <1>2, <1>3, <1>4, <1>5, <1>6, <1>7, <1>8 DEF DeleteNext, DeleteDone

\* Whatever requests leave in the buffers of cgi_filesop and in whatever order:
\* a user who never sent a token to /delete loses no file.
THEOREM OnlyOwnersDelete == DeleteSpec => OwnersDelete
<1>1. DeleteInit => DeleteInv
  BY DeleteAssumption DEF DeleteInit, DeleteInv
<1>2. DeleteInv /\ [DeleteNext]_dvars => DeleteInv'
  BY DeleteStep
<1>3. DeleteInv /\ [DeleteNext]_dvars =>
        [\A u \in Owners : files[u] \subseteq files'[u] \/ u \in vouched']_dvars
  BY DeleteStep
<1> QED
  BY <1>1, <1>2, <1>3, PTL DEF DeleteSpec, OwnersDelete
------------------------------------------------------------------------------
(* LoginPage *)

\* The answer to a call has the fields of a call.
AnswerTo(c, code, w) == [c EXCEPT !.code = code, !.word = w]
AnswerCodes == {"none", "000", "001", "files", "015", "111"}

LEMMA AnswerFields ==
  ASSUME NEW c \in Calls, NEW code \in AnswerCodes, NEW w \in Nat
  PROVE  /\ AnswerTo(c, code, w) \in Calls
         /\ AnswerTo(c, code, w).kind = c.kind
         /\ AnswerTo(c, code, w).user = c.user
         /\ AnswerTo(c, code, w).code = code
         /\ AnswerTo(c, code, w).word = w
BY DEF AnswerTo, AnswerCodes, Calls

\* What is on its way after an answer of the server.
LEMMA CallsAnswered ==
  ASSUME calls \subseteq Calls, NEW c \in calls, NEW code \in AnswerCodes, NEW w \in Nat,
         AnsweredWith(c, code, w)
  PROVE  /\ calls' \subseteq Calls
         /\ \A d \in calls' : \/ d \in calls /\ d # c
                              \/ /\ d.kind = c.kind /\ d.user = c.user
                                 /\ d.code = code /\ d.word = w
<1>1. calls' = (calls \ {c}) \cup {AnswerTo(c, code, w)} /\ c \in Calls
  BY DEF AnsweredWith, AnswerTo
<1> QED
  BY <1>1, AnswerFields

\* The fields of a request of the page.
LEMMA CallMade ==
  ASSUME LoginTypeOK, NEW kind \in {"login", "files"}, NEW u \in Users \cup {Nobody},
         NEW w \in Users \cup {Nobody} \cup Nat
  PROVE  /\ Call(kind, u, w) \in Calls
         /\ Call(kind, u, w).kind = kind /\ Call(kind, u, w).user = u
         /\ Call(kind, u, w).word = w /\ Call(kind, u, w).code = "none"
BY DEF Call, Calls, LoginTypeOK

\* A new token is none that the page has or sends, and one that was the page's
\* own stays so.
LEMMA TokenStaysOwn ==
  ASSUME LoginTypeOK, NEW u \in Users, NEW w, OwnToken(w), issued' = issued + 1,
         tokens' = [tokens EXCEPT ![u] = issued + 1], proved \subseteq proved'
  PROVE  OwnToken(w)'
<1>1. w \in 0..issued /\ issued \in Nat /\ w # issued + 1 /\ w \in 0..issued'
  BY DEF OwnToken, LoginTypeOK
<1>2. ASSUME NEW v \in Users, tokens'[v] = w, w > 0 PROVE v \in proved'
  <2>1. v # u /\ tokens[v] = w
    BY <1>1, <1>2 DEF LoginTypeOK
  <2> QED
    BY <1>2, <2>1 DEF OwnToken
<1> QED
  BY <1>1, <1>2 DEF OwnToken

\* The same when a token is dropped.
LEMMA TokenDropped ==
  ASSUME LoginTypeOK, NEW u \in Users, NEW w, OwnToken(w), UNCHANGED <<issued, proved>>,
         tokens' = [tokens EXCEPT ![u] = 0]
  PROVE  OwnToken(w)'
<1>1. ASSUME NEW v \in Users, tokens'[v] = w, w > 0 PROVE v \in proved'
  <2>1. v # u /\ tokens[v] = w
    BY <1>1 DEF LoginTypeOK
  <2> QED
    BY <1>1, <2>1 DEF OwnToken
<1> QED
  BY <1>1 DEF OwnToken

\* The token that was just made for a user whose password was sent.
LEMMA TokenMade ==
  ASSUME LoginTypeOK, NEW u \in Users, issued' = issued + 1,
         tokens' = [tokens EXCEPT ![u] = issued + 1], proved' = proved \cup {u},
         NEW w, w = issued + 1
  PROVE  OwnToken(w)' /\ tokens'[u] = w
<1>1. issued \in Nat /\ w \in 0..issued' /\ tokens'[u] = w
  BY DEF LoginTypeOK
<1>2. ASSUME NEW v \in Users, tokens'[v] = w PROVE v \in proved'
  <2>1. v # u => tokens'[v] = tokens[v] /\ tokens[v] \in 0..issued
    BY DEF LoginTypeOK
  <2> QED
    BY <1>1, <1>2, <2>1
<1> QED
  BY <1>1, <1>2 DEF OwnToken

------------------------------------------------------------------------------

\* The types are kept by every step.
LEMMA LoginTypeStep == LoginTypeOK /\ [LoginNext]_lvars => LoginTypeOK'
<1> SUFFICES ASSUME LoginTypeOK, [LoginNext]_lvars PROVE LoginTypeOK'
  OBVIOUS
<1> DEFINE WordsOK == \A c \in calls : c.kind = "files" \/ c.code # "none" => c.word \in Nat
<1>0. /\ calls \subseteq Calls /\ WordsOK /\ issued \in Nat /\ tokens \in [Users -> 0..issued]
      /\ \A c \in calls : c.user \in Users \cup {Nobody}
  BY DEF LoginTypeOK, Calls
<1>m. ASSUME NEW u \in Users, issued' = issued + 1,
             tokens' = [tokens EXCEPT ![u] = issued + 1]
      PROVE  /\ issued' \in Nat /\ tokens' \in [Users -> 0..issued']
             /\ expired \subseteq 1..issued'
  <2>1. /\ 0..issued \subseteq 0..issued' /\ issued + 1 \in 0..issued' /\ issued' \in Nat
        /\ 1..issued \subseteq 1..issued'
    BY <1>0, <1>m
  <2> QED
    BY <1>0, <1>m, <2>1 DEF LoginTypeOK
<1>1. ASSUME NEW u \in Users, NEW p \in Users, Type(u, p) PROVE LoginTypeOK'
  BY <1>1 DEF Type, Event, LoginTypeOK
<1>2. CASE Login
  <2>0. PICK a : /\ calls' = calls \cup {a} /\ a \in Calls
                 /\ a.kind = "login" /\ a.code = "none"
    <3>1. /\ loginData.user \in Users \cup {Nobody}
          /\ loginData.pwd \in Users \cup {Nobody} \cup Nat
      BY DEF LoginTypeOK
    <3>2. /\ Call("login", loginData.user, loginData.pwd) \in Calls
          /\ Call("login", loginData.user, loginData.pwd).kind = "login"
          /\ Call("login", loginData.user, loginData.pwd).code = "none"
      BY <3>1, CallMade
    <3> QED
      BY <1>2, <3>2 DEF Login
  <2>1. calls' \subseteq Calls /\ WordsOK'
    BY <1>0, <2>0
  <2> QED
    BY <1>2, <2>1 DEF Login, Event, LoginTypeOK
<1>3. CASE Refresh
  <2>0. PICK a : calls' = calls \cup {a} /\ a \in Calls /\ a.word \in Nat
    <3>1. storage.user \in Users \cup {Nobody} /\ storage.token \in Nat
      BY DEF LoginTypeOK
    <3> QED
      BY <1>3, <3>1, CallMade DEF Refresh
  <2>1. calls' \subseteq Calls /\ WordsOK'
    BY <1>0, <2>0
  <2> QED
    BY <1>3, <2>1 DEF Refresh, Event, LoginTypeOK
<1>4. ASSUME NEW c \in calls, LoginAnswered(c) PROVE LoginTypeOK'
  <2>1. calls' \subseteq Calls /\ WordsOK'
    BY <1>0, <1>4 DEF LoginAnswered
  <2>2. /\ storage' \in [user : Users \cup {Nobody}, token : Nat]
        /\ route' \in {"LoginPage", "FilesPage"}
    BY <1>0, <1>4 DEF LoginAnswered, LoginTypeOK
  <2> QED
    BY <1>4, <2>1, <2>2 DEF LoginAnswered, LoginTypeOK
<1>5. ASSUME NEW c \in calls, RefreshAnswered(c) PROVE LoginTypeOK'
  <2>1. calls' \subseteq Calls /\ WordsOK'
    BY <1>0, <1>5 DEF RefreshAnswered
  <2> QED
    BY <1>5, <2>1 DEF RefreshAnswered, LoginTypeOK
<1>6. ASSUME NEW c \in calls, ServeLogin(c) PROVE LoginTypeOK'
  <2>1. CASE c.user \in Users /\ c.word = c.user /\ AnsweredWith(c, "000", issued + 1)
             /\ issued' = issued + 1 /\ tokens' = [tokens EXCEPT ![c.user] = issued + 1]
             /\ proved' = proved \cup {c.user}
    <3>1. calls' \subseteq Calls /\ WordsOK'
      BY <1>0, <2>1, CallsAnswered DEF AnswerCodes
    <3>2. /\ issued' \in Nat /\ tokens' \in [Users -> 0..issued']
          /\ expired \subseteq 1..issued'
      BY <1>m, <2>1
    <3> QED
      BY <1>6, <2>1, <3>1, <3>2 DEF ServeLogin, LoginTypeOK
  <2>2. CASE AnsweredWith(c, "001", 0) /\ UNCHANGED <<issued, tokens, proved>>
    <3>1. calls' \subseteq Calls /\ WordsOK'
      BY <1>0, <2>2, CallsAnswered DEF AnswerCodes
    <3> QED
      BY <1>6, <2>2, <3>1 DEF ServeLogin, LoginTypeOK
  <2> QED
    BY <1>6, <2>1, <2>2 DEF ServeLogin
<1>7. ASSUME NEW c \in calls, ServeFiles(c) PROVE LoginTypeOK'
  <2>1. PICK code \in {"files", "015", "111"} : AnsweredWith(c, code, 0)
    BY <1>7 DEF ServeFiles
  <2>2. calls' \subseteq Calls /\ WordsOK'
    BY <1>0, <2>1, CallsAnswered DEF AnswerCodes
  <2> QED
    BY <1>7, <2>2 DEF ServeFiles, LoginTypeOK
<1>8. ASSUME NEW u \in Users, LoginElsewhere(u) PROVE LoginTypeOK'
  <2>1. /\ issued' \in Nat /\ tokens' \in [Users -> 0..issued']
        /\ expired \subseteq 1..issued'
    BY <1>m, <1>8 DEF LoginElsewhere
  <2> QED
    BY <1>8, <2>1 DEF LoginElsewhere, Event, LoginTypeOK
<1>9. CASE UNCHANGED lvars
  BY <1>9 DEF lvars, LoginTypeOK
<1>10. ASSUME NEW c \in calls, Lost(c) PROVE LoginTypeOK'
  <2>1. calls' \subseteq Calls /\ WordsOK'
    BY <1>0, <1>10 DEF Lost
  <2> QED
    BY <1>10, <2>1 DEF Lost, LoginTypeOK
<1>11. ASSUME NEW u \in Users, Expire(u) PROVE LoginTypeOK'
  <2>1. tokens[u] \in 1..issued /\ 0 \in 0..issued
    BY <1>0, <1>11 DEF Expire
  <2>2. expired' \subseteq 1..issued' /\ tokens' \in [Users -> 0..issued']
    BY <1>0, <1>11, <2>1 DEF Expire, LoginTypeOK
  <2> QED
    BY <1>11, <2>2 DEF Expire, Event, LoginTypeOK
<1> QED
  BY <1>1, <1>2, <1>3, <1>4, <1>5, <1>6, <1>7, <1>8, <1>9, <1>10, <1>11
     DEF LoginNext, LoginDone

------------------------------------------------------------------------------

\* Every step keeps what the page has and sends its own.
LEMMA ListingStep == LoginTypeOK /\ ListingInv /\ [LoginNext]_lvars => ListingInv'
<1> SUFFICES ASSUME LoginTypeOK, ListingInv, [LoginNext]_lvars PROVE ListingInv'
  OBVIOUS
<1> DEFINE Fine(c) ==
             /\ c.kind = "login" /\ c.code = "000" => OwnToken(c.word)
             /\ c.kind = "files" /\ c.code = "none" => OwnToken(c.word)
             /\ c.kind = "files" /\ c.code = "files" => c.user \in proved
<1>0. /\ OwnToken(storage.token) /\ ListsProved
      /\ \A c \in calls : Fine(c)
      /\ calls \subseteq Calls
  BY DEF ListingInv, LoginTypeOK
<1>q. ASSUME OwnToken(storage.token)', ListsProved', \A c \in calls' : Fine(c)'
      PROVE  ListingInv'
  BY <1>q DEF ListingInv
<1>u. ASSUME UNCHANGED <<tokens, issued, proved>>
      PROVE  /\ \A w : OwnToken(w) => OwnToken(w)'
             /\ \A c \in calls : Fine(c)'
  BY <1>0, <1>u DEF OwnToken
<1> HIDE DEF Fine
<1>1. ASSUME NEW u \in Users, NEW p \in Users, Type(u, p) PROVE ListingInv'
  <2>1. UNCHANGED <<tokens, issued, proved, storage, listed, calls>>
    BY <1>1 DEF Type
  <2> QED
    BY <1>0, <1>q, <1>u, <2>1 DEF ListsProved
<1>2. CASE Login
  <2>1. PICK a : /\ UNCHANGED <<tokens, issued, proved, storage, listed>>
                 /\ calls' = calls \cup {a}
                 /\ a = Call("login", loginData.user, loginData.pwd)
    BY <1>2 DEF Login
  <2>2. Fine(a)'
    BY <2>1 DEF Fine, Call
  <2> QED
    BY <1>0, <1>q, <1>u, <2>1, <2>2 DEF ListsProved
<1>3. CASE Refresh
  <2>1. PICK a : /\ UNCHANGED <<tokens, issued, proved, storage, listed>>
                 /\ calls' = calls \cup {a}
                 /\ a = Call("files", storage.user, storage.token)
    BY <1>3 DEF Refresh
  <2>2. OwnToken(storage.token)'
    BY <1>0, <1>u, <2>1
  <2>3. Fine(a)'
    BY <2>1, <2>2 DEF Fine, Call
  <2> QED
    BY <1>0, <1>q, <1>u, <2>1, <2>2, <2>3 DEF ListsProved
<1>4. ASSUME NEW c \in calls, LoginAnswered(c) PROVE ListingInv'
  <2>1. /\ UNCHANGED <<tokens, issued, proved, listed>> /\ calls' = calls \ {c}
        /\ \/ c.kind = "login" /\ c.code = "000" /\ storage'.token = c.word
           \/ UNCHANGED storage
    BY <1>4 DEF LoginAnswered
  <2>2. c.kind = "login" /\ c.code = "000" => OwnToken(c.word)'
    BY <1>0, <1>u, <2>1 DEF Fine
  <2>3. OwnToken(storage.token)'
    BY <1>0, <1>u, <2>1, <2>2
  <2> QED
    BY <1>0, <1>q, <1>u, <2>1, <2>3 DEF ListsProved
<1>5. ASSUME NEW c \in calls, RefreshAnswered(c) PROVE ListingInv'
  <2>1. /\ UNCHANGED <<tokens, issued, proved, storage>> /\ calls' = calls \ {c}
        /\ c.kind = "files" /\ c.code # "none"
        /\ listed' = IF c.code = "files" THEN c.user ELSE Nobody
    BY <1>5 DEF RefreshAnswered
  <2>2. c.code = "files" => c.user \in proved'
    BY <1>0, <2>1 DEF Fine
  <2>3. ListsProved'
    BY <2>1, <2>2 DEF ListsProved
  <2> QED
    BY <1>0, <1>q, <1>u, <2>1, <2>3
<1>6. ASSUME NEW c \in calls, ServeLogin(c) PROVE ListingInv'
  <2>0. c.kind = "login" /\ UNCHANGED <<storage, listed>>
    BY <1>6 DEF ServeLogin
  <2>1. CASE c.user \in Users /\ c.word = c.user /\ AnsweredWith(c, "000", issued + 1)
             /\ issued' = issued + 1 /\ tokens' = [tokens EXCEPT ![c.user] = issued + 1]
             /\ proved' = proved \cup {c.user}
    <3>1. issued + 1 \in Nat
      BY DEF LoginTypeOK
    <3>2. \A d \in calls' : \/ d \in calls /\ d # c
                            \/ /\ d.kind = c.kind /\ d.user = c.user
                               /\ d.code = "000" /\ d.word = issued + 1
      BY <1>0, <2>1, <3>1, CallsAnswered DEF AnswerCodes
    <3>3. \A w : w = issued + 1 => OwnToken(w)'
      BY <2>1, TokenMade
    <3>4. \A w : OwnToken(w) => OwnToken(w)'
      BY <2>1, TokenStaysOwn
    <3>5. ASSUME NEW d \in calls' PROVE Fine(d)'
      <4>1. CASE d \in calls
        BY <1>0, <2>1, <3>4, <4>1 DEF Fine
      <4>2. CASE d.kind = "login" /\ d.code = "000" /\ d.word = issued + 1
        BY <3>3, <4>2 DEF Fine
      <4> QED
        BY <2>0, <3>2, <4>1, <4>2
    <3>6. ListsProved'
      BY <1>0, <2>0, <2>1 DEF ListsProved
    <3> QED
      BY <1>0, <1>q, <2>0, <3>4, <3>5, <3>6
  <2>2. CASE AnsweredWith(c, "001", 0) /\ UNCHANGED <<issued, tokens, proved>>
    <3>1. \A d \in calls' : \/ d \in calls /\ d # c
                            \/ /\ d.kind = c.kind /\ d.user = c.user
                               /\ d.code = "001" /\ d.word = 0
      BY <1>0, <2>2, CallsAnswered DEF AnswerCodes
    <3>2. ASSUME NEW d \in calls' PROVE Fine(d)'
      <4>1. CASE d \in calls
        BY <1>u, <2>2, <4>1
      <4>2. CASE d.kind = "login" /\ d.code = "001"
        BY <4>2 DEF Fine
      <4> QED
        BY <2>0, <3>1, <4>1, <4>2
    <3> QED
      BY <1>0, <1>q, <1>u, <2>0, <2>2, <3>2 DEF ListsProved
  <2> QED
    BY <1>6, <2>1, <2>2 DEF ServeLogin
<1>7. ASSUME NEW c \in calls, ServeFiles(c) PROVE ListingInv'
  <2>1. /\ c.kind = "files" /\ c.code = "none"
        /\ \/ VerifyToken(c) /\ \E code \in {"files", "015"} : AnsweredWith(c, code, 0)
           \/ AnsweredWith(c, "111", 0)
        /\ UNCHANGED <<tokens, issued, proved, storage, listed>>
    BY <1>7 DEF ServeFiles
  <2>2. VerifyToken(c) => c.user \in proved
    BY <1>0, <2>1 DEF Fine, OwnToken, VerifyToken
  <2>3. PICK code \in {"files", "015", "111"} :
          AnsweredWith(c, code, 0) /\ (code = "files" => VerifyToken(c))
    BY <2>1
  <2>4. \A d \in calls' : \/ d \in calls /\ d # c
                          \/ /\ d.kind = c.kind /\ d.user = c.user
                             /\ d.code = code /\ d.word = 0
    BY <1>0, <2>3, CallsAnswered DEF AnswerCodes
  <2>5. ASSUME NEW d \in calls' PROVE Fine(d)'
    <3>1. CASE d \in calls
      BY <1>u, <2>1, <3>1
    <3>2. CASE d.kind = "files" /\ d.user = c.user /\ d.code = code
      BY <2>1, <2>2, <2>3, <3>2 DEF Fine
    <3> QED
      BY <2>1, <2>4, <3>1, <3>2
  <2> QED
    BY <1>0, <1>q, <1>u, <2>1, <2>5 DEF ListsProved
<1>8. ASSUME NEW u \in Users, LoginElsewhere(u) PROVE ListingInv'
  <2>1. /\ UNCHANGED <<storage, listed, calls, proved>> /\ issued' = issued + 1
        /\ tokens' = [tokens EXCEPT ![u] = issued + 1]
    BY <1>8 DEF LoginElsewhere
  <2>2. \A w : OwnToken(w) => OwnToken(w)'
    BY <2>1, TokenStaysOwn
  <2>3. \A c \in calls' : Fine(c)'
    BY <1>0, <2>1, <2>2 DEF Fine
  <2> QED
    BY <1>0, <1>q, <2>1, <2>2, <2>3 DEF ListsProved
<1>9. CASE UNCHANGED lvars
  BY <1>0, <1>q, <1>u, <1>9 DEF lvars, ListsProved
<1>10. ASSUME NEW c \in calls, Lost(c) PROVE ListingInv'
  <2>1. UNCHANGED <<tokens, issued, proved, storage, listed>> /\ calls' = calls \ {c}
    BY <1>10 DEF Lost
  <2> QED
    BY <1>0, <1>q, <1>u, <2>1 DEF ListsProved
<1>11. ASSUME NEW u \in Users, Expire(u) PROVE ListingInv'
  <2>1. /\ UNCHANGED <<storage, listed, calls, proved, issued>>
        /\ tokens' = [tokens EXCEPT ![u] = 0]
    BY <1>11 DEF Expire
  <2>2. \A w : OwnToken(w) => OwnToken(w)'
    BY <2>1, TokenDropped
  <2>3. \A c \in calls' : Fine(c)'
    BY <1>0, <2>1, <2>2 DEF Fine
  <2> QED
    BY <1>0, <1>q, <2>1, <2>2, <2>3 DEF ListsProved
<1> QED
  BY <1>1, <1>2, <1>3, <1>4, <1>5, <1>6, <1>7, <1>8, <1>9, <1>10, <1>11
     DEF LoginNext, LoginDone

\* The initial states have both.
LEMMA LoginStarts == LoginInit => LoginTypeOK /\ ListingInv
BY LoginAssumption DEF LoginInit, LoginTypeOK, ListingInv, OwnToken, ListsProved

\* Types and ownership hold in every state.
LEMMA ListingInvariant == LoginSpec => [](LoginTypeOK /\ ListingInv)
BY LoginStarts, LoginTypeStep, ListingStep, PTL DEF LoginSpec

\* Whatever the form holds when an answer arrives, and however answers of the
\* login and the files program overtake each other, a page lists the files of
\* a user only if that user's password was sent from it.
THEOREM PagesListProved == LoginSpec => []ListsProved
<1>1. LoginTypeOK /\ ListingInv => ListsProved
  BY DEF ListingInv
<1> QED
  BY <1>1, ListingInvariant, PTL
------------------------------------------------------------------------------

\* A new token differs from all that were made before.
LEMMA DifferStep == LoginTypeOK /\ TokensDiffer /\ [LoginNext]_lvars => TokensDiffer'
<1> SUFFICES ASSUME LoginTypeOK, TokensDiffer, [LoginNext]_lvars PROVE TokensDiffer'
  OBVIOUS
<1>0. issued \in Nat /\ tokens \in [Users -> 0..issued]
  BY DEF LoginTypeOK
<1>1. ASSUME NEW u \in Users, NEW w \in {0, issued + 1},
             tokens' = [tokens EXCEPT ![u] = w]
      PROVE  TokensDiffer'
  <2>1. \A v \in Users : tokens[v] # issued + 1
    BY <1>0
  <2> QED
    BY <1>0, <1>1, <2>1 DEF TokensDiffer
<1>2. CASE UNCHANGED tokens
  BY <1>2 DEF TokensDiffer
<1>3. ASSUME NEW c \in calls, ServeLogin(c) PROVE TokensDiffer'
  BY <1>1, <1>2, <1>3 DEF ServeLogin
<1>4. ASSUME NEW u \in Users, LoginElsewhere(u) \/ Expire(u) PROVE TokensDiffer'
  BY <1>1, <1>4 DEF LoginElsewhere, Expire
<1> QED
  BY <1>2, <1>3, <1>4 DEF LoginNext, LoginDone, Type, Login, Refresh, LoginAnswered,
     RefreshAnswered, ServeFiles, Lost, lvars

\* A page whose form is left alone has one request on its way at most, and
\* what it stores is what the form was sent with.
LEMMA WaitStep == LoginTypeOK /\ TokensDiffer /\ WaitInv /\ [LoginNext]_lvars => WaitInv'
<1> SUFFICES ASSUME steady', LoginTypeOK, TokensDiffer, WaitInv, [LoginNext]_lvars
             PROVE  WaitInv'
  BY DEF WaitInv, StoredCurrent
<1> DEFINE Current(c) ==
             c.kind = "login" =>
               /\ route = "LoginPage" /\ c.user = loginData.user
               /\ c.code = "000" => /\ c.user \in proved
                                    /\ \/ c.user \in elsewhere
                                       \/ tokens[c.user] = Kept(c.word)
           Single == \A c, d \in calls : c.kind = "login" => c = d
<1>p. steady
  <2>1. UNCHANGED steady
    BY DEF LoginNext, Type, Login, Refresh, LoginDone, LoginAnswered, RefreshAnswered,
           ServeLogin, ServeFiles, LoginElsewhere, Lost, Expire, lvars
  <2> QED
    BY <2>1
<1>0. /\ Single /\ StoredCurrent /\ calls \subseteq Calls
      /\ \A c \in calls : Current(c)
  BY <1>p DEF WaitInv, LoginTypeOK
<1>q. ASSUME Single', StoredCurrent', \A c \in calls' : Current(c)' PROVE WaitInv'
  BY <1>q DEF WaitInv
<1> HIDE DEF Current
<1>1. ASSUME NEW u \in Users, NEW p \in Users, Type(u, p) PROVE WaitInv'
  <2>1. calls' = {} /\ UNCHANGED <<route, storage, tokens, proved, elsewhere, expired>>
    BY <1>p, <1>1 DEF Type
  <2> QED
    BY <1>0, <1>p, <1>q, <2>1 DEF StoredCurrent, Kept
<1>2. CASE Login
  <2>1. PICK a : /\ calls' = {a} /\ a = Call("login", loginData.user, loginData.pwd)
                 /\ route = "LoginPage"
                 /\ UNCHANGED <<loginData, route, storage, tokens, proved, elsewhere, expired>>
    BY <1>p, <1>2 DEF Login
  <2>2. Current(a)'
    BY <2>1 DEF Current, Call
  <2> QED
    BY <1>0, <1>p, <1>q, <2>1, <2>2 DEF StoredCurrent, Kept
<1>3. CASE Refresh
  <2>1. PICK a : /\ calls' = calls \cup {a}
                 /\ a = Call("files", storage.user, storage.token)
                 /\ route = "FilesPage"
                 /\ UNCHANGED <<loginData, route, storage, tokens, proved, elsewhere, expired>>
    BY <1>3 DEF Refresh
  <2>2. a.kind = "files" /\ \A c \in calls : c.kind # "login"
    BY <1>0, <2>1 DEF Current, Call
  <2> QED
    BY <1>0, <1>p, <1>q, <2>1, <2>2 DEF Current, StoredCurrent, Kept
<1>4. ASSUME NEW c \in calls, LoginAnswered(c) PROVE WaitInv'
  <2>1. /\ c.kind = "login" /\ calls' = calls \ {c}
        /\ UNCHANGED <<loginData, tokens, proved, elsewhere, expired>>
        /\ \/ c.code = "000" /\ storage'.user = loginData.user /\ storage'.token = c.word
           \/ UNCHANGED <<storage, route>>
    BY <1>4 DEF LoginAnswered
  <2>2. calls' = {}
    BY <1>0, <2>1
  <2>3. StoredCurrent'
    BY <1>0, <1>p, <2>1 DEF Current, StoredCurrent, Kept
  <2> QED
    BY <1>q, <2>2, <2>3
<1>5. ASSUME NEW c \in calls, RefreshAnswered(c) PROVE WaitInv'
  <2>1. /\ calls' = calls \ {c}
        /\ UNCHANGED <<loginData, route, storage, tokens, proved, elsewhere, expired>>
    BY <1>5 DEF RefreshAnswered
  <2> QED
    BY <1>0, <1>p, <1>q, <2>1 DEF Current, StoredCurrent, Kept
<1>6. ASSUME NEW c \in calls, ServeLogin(c) PROVE WaitInv'
  <2>0. /\ c.kind = "login" /\ calls = {c} /\ route = "LoginPage" /\ c.user = loginData.user
        /\ UNCHANGED <<loginData, route, storage, elsewhere, expired>>
    BY <1>0, <1>6 DEF ServeLogin, Current
  <2>1. StoredCurrent'
    BY <1>p, <2>0 DEF StoredCurrent, Kept
  <2>2. CASE c.user \in Users /\ c.word = c.user /\ AnsweredWith(c, "000", issued + 1)
             /\ issued' = issued + 1 /\ tokens' = [tokens EXCEPT ![c.user] = issued + 1]
             /\ proved' = proved \cup {c.user}
    <3>1. /\ issued + 1 \in Nat /\ tokens'[c.user] = issued + 1
          /\ issued + 1 \notin expired
      BY <2>2 DEF LoginTypeOK
    <3>2. \A d \in calls' : /\ d.kind = c.kind /\ d.user = c.user
                            /\ d.code = "000" /\ d.word = issued + 1
      BY <1>0, <2>0, <2>2, <3>1, CallsAnswered DEF AnswerCodes
    <3>3. calls' = {AnswerTo(c, "000", issued + 1)}
      BY <2>0, <2>2 DEF AnsweredWith, AnswerTo
    <3> QED
      BY <1>q, <2>0, <2>1, <2>2, <3>1, <3>2, <3>3 DEF Current, Kept
  <2>3. CASE AnsweredWith(c, "001", 0) /\ UNCHANGED <<issued, tokens, proved>>
    <3>1. \A d \in calls' : d.kind = c.kind /\ d.user = c.user /\ d.code = "001"
      BY <1>0, <2>0, <2>3, CallsAnswered DEF AnswerCodes
    <3>2. calls' = {AnswerTo(c, "001", 0)}
      BY <2>0, <2>3 DEF AnsweredWith, AnswerTo
    <3> QED
      BY <1>q, <2>0, <2>1, <2>3, <3>1, <3>2 DEF Current
  <2> QED
    BY <1>6, <2>2, <2>3 DEF ServeLogin
<1>7. ASSUME NEW c \in calls, ServeFiles(c) PROVE WaitInv'
  <2>1. /\ c.kind = "files"
        /\ UNCHANGED <<loginData, route, storage, tokens, proved, elsewhere, expired>>
        /\ \E code \in {"files", "015", "111"} : AnsweredWith(c, code, 0)
    BY <1>7 DEF ServeFiles
  <2>2. \A d \in calls' : d \in calls \/ d.kind = "files"
    BY <1>0, <2>1, CallsAnswered DEF AnswerCodes
  <2>3. \A d \in calls : d.kind # "login"
    BY <1>0, <2>1
  <2>4. \A d \in calls' : d.kind # "login"
    BY <2>2, <2>3
  <2> QED
    BY <1>0, <1>p, <1>q, <2>1, <2>4 DEF Current, StoredCurrent, Kept
<1>8. ASSUME NEW u \in Users, LoginElsewhere(u) PROVE WaitInv'
  <2>1. /\ UNCHANGED <<loginData, route, storage, calls, proved, expired>>
        /\ elsewhere' = elsewhere \cup {u}
        /\ \A v \in Users : v # u => tokens'[v] = tokens[v]
    BY <1>8 DEF LoginElsewhere, LoginTypeOK
  <2>2. proved \subseteq Users
    BY DEF LoginTypeOK
  <2>3. StoredCurrent'
    BY <1>0, <1>p, <2>1, <2>2 DEF StoredCurrent, Kept
  <2>4. \A c \in calls' : Current(c)'
    BY <1>0, <2>1, <2>2 DEF Current, Kept
  <2> QED
    BY <1>0, <1>q, <2>1, <2>3, <2>4
<1>9. CASE UNCHANGED lvars
  BY <1>0, <1>p, <1>q, <1>9 DEF lvars, Current, StoredCurrent, Kept
<1>10. ASSUME NEW c \in calls, Lost(c) PROVE WaitInv'
  <2>1. /\ calls' = calls \ {c}
        /\ UNCHANGED <<loginData, route, storage, tokens, proved, elsewhere, expired>>
    BY <1>10 DEF Lost
  <2> QED
    BY <1>0, <1>p, <1>q, <2>1 DEF Current, StoredCurrent, Kept
<1>11. ASSUME NEW u \in Users, Expire(u) PROVE WaitInv'
  <2>1. /\ UNCHANGED <<loginData, route, storage, calls, proved, elsewhere>>
        /\ expired' = expired \cup {tokens[u]} /\ tokens[u] # 0
        /\ tokens'[u] = 0 /\ \A v \in Users : v # u => tokens'[v] = tokens[v]
    BY <1>11 DEF Expire, LoginTypeOK
  <2>2. ASSUME NEW v \in Users, NEW w, tokens[v] = Kept(w) PROVE tokens'[v] = Kept(w)'
    <3>1. CASE v = u
      <4>1. w = tokens[u]
        BY <2>1, <2>2, <3>1 DEF Kept
      <4> QED
        BY <2>1, <3>1, <4>1 DEF Kept
    <3>2. CASE v # u
      <4>1. w = tokens[u] => w \in expired \/ tokens[v] = tokens[u]
        BY <2>2 DEF Kept
      <4>2. tokens[v] # tokens[u]
        BY <2>1, <3>2 DEF TokensDiffer
      <4> QED
        BY <2>1, <2>2, <3>2, <4>1, <4>2 DEF Kept
    <3> QED
      BY <3>1, <3>2
  <2>3. proved \subseteq Users
    BY DEF LoginTypeOK
  <2>4. StoredCurrent'
    BY <1>0, <1>p, <2>1, <2>2, <2>3 DEF StoredCurrent
  <2>5. \A c \in calls' : Current(c)'
    BY <1>0, <2>1, <2>2, <2>3 DEF Current
  <2> QED
    BY <1>0, <1>q, <2>1, <2>4, <2>5
<1> QED
  BY <1>1, <1>2, <1>3, <1>4, <1>5, <1>6, <1>7, <1>8, <1>9, <1>10, <1>11
     DEF LoginNext, LoginDone

\* A form that is left alone while it waits leaves the page with the token that
\* redis has for the user it shows, until that user logs in from another browser
\* or the token's 24 hours are over; logins that fail and answers that are lost
\* do not change that.
THEOREM WaitingStoresCurrent == LoginSpec => []StoredCurrent
<1>1. LoginInit => WaitInv /\ TokensDiffer
  BY DEF LoginInit, WaitInv, StoredCurrent, TokensDiffer
<1>2. WaitInv => StoredCurrent
  BY DEF WaitInv
<1> QED
  BY <1>1, <1>2, WaitStep, DifferStep, ListingInvariant, PTL DEF LoginSpec
==============================================================================
