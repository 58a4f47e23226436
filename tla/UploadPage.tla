------------------------------ MODULE UploadPage ------------------------------
(***************************************************************************)
(* The upload page of the web client                                       *)
(* (src/web/clouddisk/src/components/Upload.vue).  For every file that is  *)
(* selected the page computes an md5 and asks the md5 program; when the    *)
(* content is unknown it has el-upload send what is waiting, with the one  *)
(* info object of the page.  Every step is a callback of the browser.      *)
(*                                                                         *)
(* el-upload (element-ui 2.13, not part of the repository) keeps the list  *)
(* of files: a new one is ready, submit sends all that are ready, an event *)
(* of the first request makes a file uploading, an answer makes it success *)
(* or takes it off the list, and on-change is called when a file is added  *)
(* and when it has been sent.                                              *)
(***************************************************************************)
EXTENDS Integers, FiniteSets

CONSTANTS
  Files,    \* files, each with a content of its own
  Known,    \* those whose content the server has from the beginning
  Big,      \* those of 128 MB and more
  Empty,    \* those without a byte
  NoInfo,   \* info.fileInfo is ""
  Waits,    \* sets of files that a user selects waiting for each one
  Rushes,   \* sets of files that a user selects without waiting
  MaxFaults \* bound on requests that fail

ASSUME PageAssumption ==
  /\ Known \subseteq Files /\ Big \subseteq Files /\ Empty \subseteq Files
  /\ Waits \subseteq SUBSET Files /\ Rushes \subseteq SUBSET Files
  /\ NoInfo \notin Files /\ MaxFaults \in Nat

VARIABLES
  patient,  \* does the user wait for a file before selecting another?
  chosen,   \* the files the user selects
  status,   \* file -> its status in the list of el-upload
  reading,  \* file -> FileReaders at work
  checking, \* file -> requests to /md5 on their way
  info,     \* whose user|filename|md5|size is in info.fileInfo
  sent,     \* <<file, info>> -> requests to /upload on their way
  served,   \* <<file, info>> -> those the server has dealt with
  recorded, \* the server: <<md5, content>> of the rows of file_info
  refused,  \* history: files that the md5 program has not found
  posted,   \* history: the <<file, info>> that were sent
  faults    \* requests that failed

pvars == <<patient, chosen, status, reading, checking, info, sent, served, recorded,
           refused, posted, faults>>
user == <<patient, chosen>>
page == <<status, reading, checking, info>>

Posts == Files \X (Files \cup {NoInfo})
Unknown(f) == \A r \in recorded : r[1] # f

UploadInit ==
  /\ patient \in BOOLEAN
  /\ chosen \in IF patient THEN Waits ELSE Rushes
  /\ status = [f \in Files |-> "none"]
  /\ reading = [f \in Files |-> 0]
  /\ checking = [f \in Files |-> 0]
  /\ info = NoInfo
  /\ sent = [x \in Posts |-> 0]
  /\ served = [x \in Posts |-> 0]
  /\ recorded = {<<f, f>> : f \in Known}
  /\ refused = {}
  /\ posted = {}
  /\ faults = 0

Waiting == {f \in Files : reading[f] + checking[f] > 0}
Quiet == Waiting = {} /\ \A x \in Posts : sent[x] + served[x] = 0

\* A request fails, or its answer is lost.
Fault == faults < MaxFaults /\ faults' = faults + 1

------------------------------------------------------------------------------
(* Upload.vue *)

\* md5File begins: a file of 128 MB and more is not read.
Md5File(f) ==
  reading' = IF f \in Big THEN reading ELSE [reading EXCEPT ![f] = @ + 1]

\* The user selects a file; el-upload adds it and calls on-change.  A patient
\* user waits for all that the page has begun, the check that on-change starts
\* again after an answer included, of which the page shows nothing; one who goes
\* by the success that it shows is not patient.
Select(f) ==
  /\ f \in chosen /\ status[f] = "none"
  /\ patient => Quiet
  /\ status' = [status EXCEPT ![f] = "ready"]
  /\ Md5File(f)
  /\ UNCHANGED <<user, checking, info, sent, served, recorded, refused, posted, faults>>

\* Faulty variant: the info is set once.
LoadOnce(f) ==
  /\ reading[f] > 0
  /\ reading' = [reading EXCEPT ![f] = @ - 1]
  /\ info' = IF info = NoInfo THEN f ELSE info
  /\ checking' = [checking EXCEPT ![f] = @ + 1]
  /\ UNCHANGED <<user, status, sent, served, recorded, refused, posted, faults>>

\* freader.onload: the info is set, unless the size is 0, and the md5 checked.
Load(f) ==
  /\ reading[f] > 0
  /\ reading' = [reading EXCEPT ![f] = @ - 1]
  /\ info' = IF f \in Empty THEN info ELSE f
  /\ checking' = [checking EXCEPT ![f] = @ + 1]
  /\ UNCHANGED <<user, status, sent, served, recorded, refused, posted, faults>>

Md5Answered(f) == checking' = [checking EXCEPT ![f] = @ - 1]

\* submit: what is ready is sent with the info of this moment.
Submit ==
  LET ready == {<<f, info>> : f \in {g \in Files : status[g] = "ready"}}
  IN  /\ sent' = [x \in Posts |-> IF x \in ready THEN sent[x] + 1 ELSE sent[x]]
      /\ posted' = posted \cup ready

\* Faulty variant: upload is not called.
Md5UnknownIgnored(f) ==
  /\ checking[f] > 0
  /\ Unknown(f)
  /\ Md5Answered(f)
  /\ refused' = refused \cup {f}
  /\ UNCHANGED <<user, status, reading, info, sent, served, recorded, posted, faults>>

\* The md5 program answers 004 or 005: nothing more is done.  (An expired token
\* or an SQL error is answered 111 or 006 for a known content too and leads to
\* its upload; checks that cannot be made are not modelled.)
Md5Known(f) ==
  /\ checking[f] > 0
  /\ ~Unknown(f)
  /\ Md5Answered(f)
  /\ UNCHANGED <<user, status, reading, info, sent, served, recorded, refused, posted,
                 faults>>

\* It answers 006: upload.
Md5Unknown(f) ==
  /\ checking[f] > 0
  /\ Unknown(f)
  /\ Md5Answered(f)
  /\ refused' = refused \cup {f}
  /\ Submit
  /\ UNCHANGED <<user, status, reading, info, served, recorded, faults>>

\* The request fails: an alert, or nothing.
Md5Lost(f) ==
  /\ checking[f] > 0
  /\ Fault
  /\ Md5Answered(f)
  /\ UNCHANGED <<user, status, reading, info, sent, served, recorded, refused, posted>>

------------------------------------------------------------------------------
(* el-upload and the server *)

\* A progress event of a request.
Progress(x) ==
  /\ sent[x] + served[x] > 0
  /\ status' = [status EXCEPT ![x[1]] = "uploading"]
  /\ UNCHANGED <<user, reading, checking, info, sent, served, recorded, refused, posted,
                 faults>>

\* cgi_upload records what it received under the md5 of the info, unless
\* there is a row and a key on file_info.md5 refuses a second one; its answer
\* 009 is an answer like any other.
ServeUpload(x) ==
  /\ sent[x] > 0
  /\ x[2] # NoInfo
  /\ sent' = [sent EXCEPT ![x] = @ - 1]
  /\ served' = [served EXCEPT ![x] = @ + 1]
  /\ recorded' = IF Unknown(x[2]) THEN recorded \cup {<<x[2], x[1]>>} ELSE recorded
  /\ UNCHANGED <<user, page, refused, posted, faults>>

\* Faulty variant: the status stays.
SuccessKeepsReady(x) ==
  /\ served[x] > 0
  /\ served' = [served EXCEPT ![x] = @ - 1]
  /\ Md5File(x[1])
  /\ UNCHANGED <<user, status, checking, info, sent, recorded, refused, posted, faults>>

\* The answer arrives, and on-change calls md5File again.
Success(x) ==
  /\ served[x] > 0
  /\ served' = [served EXCEPT ![x] = @ - 1]
  /\ status' = [status EXCEPT ![x[1]] = "success"]
  /\ Md5File(x[1])
  /\ UNCHANGED <<user, checking, info, sent, recorded, refused, posted, faults>>

\* The request fails, as it does without an info (strtok's NULL ends the
\* program), or its answer is lost.  The file leaves the list, and md5File is
\* called, too.
Failure(x) ==
  /\ \/ /\ sent[x] > 0
        /\ sent' = [sent EXCEPT ![x] = @ - 1]
        /\ IF x[2] = NoInfo THEN UNCHANGED faults ELSE Fault
        /\ UNCHANGED served
     \/ /\ served[x] > 0
        /\ served' = [served EXCEPT ![x] = @ - 1]
        /\ Fault
        /\ UNCHANGED sent
  /\ status' = [status EXCEPT ![x[1]] = "fail"]
  /\ Md5File(x[1])
  /\ UNCHANGED <<user, checking, info, recorded, refused, posted>>

------------------------------------------------------------------------------

Callback ==
  \/ \E f \in Files : Load(f) \/ Md5Known(f) \/ Md5Unknown(f) \/ Md5Lost(f)
  \/ \E x \in Posts : ServeUpload(x) \/ Success(x) \/ Failure(x)

\* The user has selected all files and nothing is on its way.
UploadDone == Quiet /\ (\A f \in chosen : status[f] # "none") /\ UNCHANGED pvars

UploadNext ==
  \/ \E f \in Files : Select(f)
  \/ Callback
  \/ \E x \in Posts : Progress(x)
  \/ UploadDone

UploadSpec == UploadInit /\ [][UploadNext]_pvars

\* The browser runs the callbacks of what has ended, and requests are answered.
FairUploadSpec == UploadSpec /\ WF_pvars(Callback)

------------------------------------------------------------------------------

\* The user selects one file, waits, and selects the next; the server knows
\* none of them, all can be read, and no request has failed.
OneByOne == patient /\ chosen \cap (Known \cup Big \cup Empty) = {} /\ faults = 0

\* A row of file_info has the content of its md5: when the user waits until the
\* page is done with each file (the check that follows its upload included) and
\* the server knows none of them, no file is sent with the info of another,
\* although on-change sets the info again after every answer.
ContentTrue == OneByOne => \A r \in recorded : r[1] = r[2]

\* In the same case every file arrives at the server.
FilesArrive ==
  \A f \in Files : OneByOne /\ status[f] = "ready" ~> ~OneByOne \/ ~Unknown(f)

\* However the callbacks interleave: when nothing is on its way and no request
\* has failed, a file that is left unsent in the list is one the server knows,
\* or one that is too big to be read.
LeftKnown ==
  Quiet /\ faults = 0 =>
    \A f \in Files : status[f] = "ready" => ~Unknown(f) \/ f \in Big

\* The page comes to rest: asking again after every answer, and sending what
\* is ready whenever a content is unknown, do not keep each other going.
PageSettles == <>[]Quiet

\* "//check md5 first" (Upload.vue:90): a file is sent to /upload only after
\* the md5 program has not found its content.
Md5CheckedFirst == \A x \in posted : x[1] \in refused
------------------------------------------------------------------------------
(* What makes these invariants inductive *)

Statuses == {"none", "ready", "uploading", "success", "fail"}

\* The types of the variables.
PageTypeOK ==
  /\ patient \in BOOLEAN /\ chosen \subseteq Files
  /\ status \in [Files -> Statuses]
  /\ reading \in [Files -> Nat] /\ checking \in [Files -> Nat]
  /\ info \in Files \cup {NoInfo}
  /\ sent \in [Posts -> Nat] /\ served \in [Posts -> Nat]
  /\ recorded \subseteq Files \X Files
  /\ faults \in Nat

\* A request with the file is on its way, and something that is for the file.
OnItsWay(f) == \E x \in Posts : x[1] = f /\ sent[x] + served[x] > 0
Active(f) == f \in Waiting \/ OnItsWay(f)

\* What LeftKnown is without waiting for the page to be quiet.
ReadyInv ==
  faults = 0 =>
    \A f \in Files : status[f] = "ready" => Active(f) \/ ~Unknown(f) \/ f \in Big

\* A file that is selected alone is asked for once and sent once, with its own
\* info; what comes behind its answer is for the same file.
Alone ==
  /\ \A r \in recorded : r[1] = r[2]
  /\ \A x \in Posts : sent[x] + served[x] > 0 => x[1] = x[2]
  /\ \A f, g \in Files : Active(f) /\ Active(g) => f = g
  /\ \A f \in Files :
       /\ checking[f] > 0 => info = f
       /\ f \notin chosen => status[f] = "none"
       /\ status[f] = "none" => ~Active(f) /\ (f \in chosen => Unknown(f))
       /\ status[f] = "ready" =>
            \/ reading[f] + checking[f] = 0 /\ OnItsWay(f)
            \/ reading[f] + checking[f] = 1 /\ ~OnItsWay(f) /\ Unknown(f)

AloneInv == OneByOne => Alone
=============================================================================
