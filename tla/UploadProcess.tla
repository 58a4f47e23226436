--------------------------- MODULE UploadProcess ---------------------------
(***************************************************************************)
(* The processes of src/cgi/cgi_upload.c.  upload_to_dstorage and          *)
(* make_file_url fork a child whose standard output is a pipe and run a    *)
(* FastDFS client in it; the parent reads what the client prints.  When    *)
(* execlp fails the child is not ended: it returns 0 to main, serves the   *)
(* rest of the request and goes on to FCGI_Accept, while its standard      *)
(* output keeps the pipe open and the parent in read.                      *)
(*                                                                         *)
(* Upload has one sequential program in which the clients run; OneAtWork   *)
(* is what makes that sound.                                               *)
(***************************************************************************)
EXTENDS Integers, Sequences, FiniteSets

CONSTANTS
  Pids,          \* process ids: the limit on processes
  First,         \* the process that spawn-fcgi starts
  NoPid,         \* no parent, and a standard output that is no pipe
  FileIds,       \* file ids that FastDFS hands out
  NoFile,        \* an empty buffer
  MaxRequests,   \* bound on the requests
  MaxExecFaults, \* bound on the failures of execlp
  MaxFaults      \* bound on the other failures and kills

ASSUME ProcessAssumption ==
  /\ IsFiniteSet(Pids) /\ First \in Pids /\ NoPid \notin Pids
  /\ NoFile \notin FileIds
  /\ MaxRequests \in Nat /\ MaxExecFaults \in Nat /\ MaxFaults \in Nat

VARIABLES
  proc,       \* process -> where it is, its parent, its pipes and buffers
  storage,    \* the objects in FastDFS
  rows,       \* what was inserted into file_info, with the request
  answers,    \* request -> the codes sent for it
  accepted,   \* requests so far
  execfaults, \* failures of execlp so far
  faults      \* other failures and kills so far

effects == <<storage, rows, answers>>
counts  == <<accepted, execfaults, faults>>
pvars   == <<proc, effects, counts>>

ServerStates == {"accept", "up_fork", "up_read", "up_wait", "url_fork",
                 "url_read", "store"}
ClientStates == {"up_exec", "up_client", "url_exec", "url_client", "exiting"}

Nobody == [at |-> "free", parent |-> NoPid, out |-> NoPid, pipe |-> "empty",
           req |-> 0, fileid |-> NoFile, url |-> NoFile]

At(p, label) == proc[p].at = label
Servers == {p \in Pids : proc[p].at \in ServerStates}
Alive == {p \in Pids : proc[p].at \in ServerStates \cup ClientStates}
Free == {p \in Pids : At(p, "free")}
Zombies(p) == {c \in Pids : proc[c].parent = p /\ At(c, "zombie")}

\* Faulty variant: the parent keeps the write end of its own pipe open.
AtEndHoldsPipe(p) == FALSE

\* read returns nothing: nothing was printed and nobody can print any more.
AtEnd(p) == proc[p].pipe = "empty" /\ \A c \in Alive : proc[c].out # p
Blocked(p) == /\ proc[p].at \in {"up_read", "url_read"}
              /\ proc[p].pipe = "empty" /\ ~AtEnd(p)

Fault == faults < MaxFaults /\ faults' = faults + 1
NoFault == UNCHANGED faults

Init ==
  /\ proc = [p \in Pids |-> IF p = First THEN [Nobody EXCEPT !.at = "accept"]
                                         ELSE Nobody]
  /\ storage = {}
  /\ rows = <<>>
  /\ answers = [r \in 1..MaxRequests |-> {}]
  /\ accepted = 0
  /\ execfaults = 0
  /\ faults = 0

------------------------------------------------------------------------------
(* Steps that both functions have *)

\* END in main: the buffers are cleared and the request is answered.
Finish(p, code) ==
  /\ proc' = [proc EXCEPT ![p].at = "accept", ![p].req = 0,
                          ![p].fileid = NoFile, ![p].url = NoFile]
  /\ answers' = [answers EXCEPT ![proc[p].req] = @ \cup {code}]

\* Process p ends.  Its parent has not waited for it; its children go to init
\* and what they print goes nowhere.
Die(p) ==
  proc' = [q \in Pids |->
    IF q = p
    THEN IF proc[p].parent = NoPid THEN Nobody
         ELSE [Nobody EXCEPT !.at = "zombie", !.parent = proc[p].parent]
    ELSE IF q \in Zombies(p) THEN Nobody
    ELSE [proc[q] EXCEPT !.parent = IF @ = p THEN NoPid ELSE @,
                         !.out = IF @ = p THEN NoPid ELSE @]]

\* pipe and fork: the child has the parent's memory, and the pipe that p reads
\* as its standard output.  pipe may fail, and fork does when there is no
\* process left; then the request has failed.
Fork(p, child, reading) ==
  \/ /\ \E c \in Free :
          proc' = [proc EXCEPT
            ![c] = [proc[p] EXCEPT !.at = child, !.parent = p, !.out = p,
                                   !.pipe = "empty"],
            ![p].at = reading, ![p].pipe = "empty"]
     /\ UNCHANGED <<effects, counts>>
  \/ /\ (Free = {} /\ NoFault) \/ Fault
     /\ Finish(p, "009")
     /\ UNCHANGED <<storage, rows, accepted, execfaults>>

\* execlp; when it fails the child closes its copy of the pipe's write end but
\* not its standard output, and returns 0 to main.
Exec(c, client, goes_on) ==
  /\ \/ /\ proc' = [proc EXCEPT ![c].at = client, ![c].req = 0]
        /\ UNCHANGED execfaults
     \/ /\ execfaults < MaxExecFaults
        /\ execfaults' = execfaults + 1
        /\ proc' = [proc EXCEPT ![c].at = goes_on]
  /\ UNCHANGED <<effects, accepted, faults>>

\* The client has printed text and is about to exit.
Prints(c, text) ==
  proc' = [q \in Pids |->
    IF q = c THEN [proc[c] EXCEPT !.at = "exiting"]
    ELSE IF q = proc[c].out THEN [proc[q] EXCEPT !.pipe = text]
    ELSE proc[q]]

Exit(c) == At(c, "exiting") /\ Die(c) /\ UNCHANGED <<effects, counts>>

------------------------------------------------------------------------------
(* main, to the call of upload_to_dstorage *)

\* Every process in FCGI_Accept waits on the same socket.
Accept(p) ==
  /\ At(p, "accept")
  /\ accepted < MaxRequests
  /\ accepted' = accepted + 1
  /\ proc' = [proc EXCEPT ![p].at = "up_fork", ![p].req = accepted + 1]
  /\ UNCHANGED <<effects, execfaults, faults>>

(* upload_to_dstorage *)

UploadFork(p) == At(p, "up_fork") /\ Fork(p, "up_exec", "up_read")
UploadExec(c) == At(c, "up_exec") /\ Exec(c, "up_client", "url_fork")

\* fdfs_upload_file stores the file and prints its id; failing, it prints
\* nothing, and may have stored the file.
UploadClient(c) ==
  /\ At(c, "up_client")
  /\ \E f \in FileIds \ storage :
       \/ NoFault /\ storage' = storage \cup {f} /\ Prints(c, f)
       \/ Fault /\ storage' \in {storage, storage \cup {f}} /\ Prints(c, "empty")
  /\ UNCHANGED <<rows, answers, accepted, execfaults>>

\* Faulty variant: the length of what was read is not checked.
UploadReadUnchecked(p) ==
  /\ At(p, "up_read") /\ ~Blocked(p)
  /\ proc' = [proc EXCEPT ![p].fileid = proc[p].pipe, ![p].at = "up_wait"]
  /\ UNCHANGED <<effects, counts>>

\* read: the id, or the end of the pipe, which leaves fileid empty.
UploadRead(p) ==
  /\ At(p, "up_read")
  /\ \/ /\ proc[p].pipe # "empty"
        /\ proc' = [proc EXCEPT ![p].fileid = proc[p].pipe, ![p].at = "up_wait"]
        /\ UNCHANGED answers
     \/ AtEnd(p) /\ Finish(p, "009")
  /\ UNCHANGED <<storage, rows, counts>>

\* Faulty variant: nobody waits for the client.
UploadWaitNot(p) ==
  /\ At(p, "up_wait")
  /\ proc' = [proc EXCEPT ![p].at = "url_fork"]
  /\ UNCHANGED <<effects, counts>>

\* wait(NULL): any child that has ended.
UploadWait(p) ==
  /\ At(p, "up_wait")
  /\ \E c \in Zombies(p) :
       proc' = [proc EXCEPT ![p].at = "url_fork", ![c] = Nobody]
  /\ UNCHANGED <<effects, counts>>

(* make_file_url and store_fileinfo_to_mysql *)

UrlFork(p) == At(p, "url_fork") /\ Fork(p, "url_exec", "url_read")

\* Faulty variant: the child closes its standard output as well.
UrlExecClosesOut(c) ==
  /\ At(c, "url_exec")
  /\ \/ /\ proc' = [proc EXCEPT ![c].at = "url_client", ![c].req = 0]
        /\ UNCHANGED execfaults
     \/ /\ execfaults < MaxExecFaults
        /\ execfaults' = execfaults + 1
        /\ proc' = [proc EXCEPT ![c].at = "store", ![c].out = NoPid]
  /\ UNCHANGED <<effects, accepted, faults>>

UrlExec(c) == At(c, "url_exec") /\ Exec(c, "url_client", "store")

\* fdfs_file_info prints the address of a stored object, or a message.
UrlClient(c) ==
  /\ At(c, "url_client")
  /\ \/ NoFault /\ Prints(c, IF proc[c].fileid \in storage THEN "address" ELSE "message")
     \/ Fault /\ Prints(c, "message")
  /\ UNCHANGED <<effects, accepted, execfaults>>

\* Faulty variant: without an address the url is left empty.
UrlReadLenient(p) ==
  /\ At(p, "url_read") /\ ~Blocked(p)
  /\ proc' = [proc EXCEPT
       ![p].url = IF proc[p].pipe = "address" THEN proc[p].fileid ELSE NoFile,
       ![p].at = "store"]
  /\ UNCHANGED <<effects, counts>>

\* read; without an address strstr returns NULL, and searching on from it ends
\* the process.  Nobody waits for the client.
UrlRead(p) ==
  /\ At(p, "url_read") /\ ~Blocked(p)
  /\ IF proc[p].pipe = "address"
     THEN proc' = [proc EXCEPT ![p].url = proc[p].fileid, ![p].at = "store"]
     ELSE Die(p)
  /\ UNCHANGED <<effects, counts>>

Store(p) ==
  /\ At(p, "store")
  /\ \/ /\ NoFault
        /\ rows' = Append(rows, [req |-> proc[p].req, file_id |-> proc[p].fileid,
                                 url |-> proc[p].url])
        /\ Finish(p, "008")
     \/ Fault /\ UNCHANGED rows /\ Finish(p, "009")
  /\ UNCHANGED <<storage, accepted, execfaults>>

\* A server is killed.
Kill(p) ==
  /\ p \in Servers
  /\ Fault
  /\ Die(p)
  /\ UNCHANGED <<effects, accepted, execfaults>>

------------------------------------------------------------------------------

Step(p) ==
  \/ UploadFork(p) \/ UploadExec(p) \/ UploadClient(p) \/ Exit(p)
  \/ UploadRead(p) \/ UploadWait(p)
  \/ UrlFork(p) \/ UrlExec(p) \/ UrlClient(p) \/ UrlRead(p)
  \/ Store(p)

\* No request is left, or nobody accepts one.
Idle ==
  /\ \A p \in Alive : At(p, "accept") \/ Blocked(p)
  /\ accepted = MaxRequests \/ \A p \in Alive : ~At(p, "accept")
  /\ UNCHANGED pvars

Next == (\E p \in Pids : Accept(p) \/ Step(p) \/ Kill(p)) \/ Idle

Spec == Init /\ [][Next]_pvars

\* The scheduler runs every process that is not blocked.
FairSpec == Spec /\ \A p \in Pids : WF_pvars(Step(p))

------------------------------------------------------------------------------
(* Properties *)

Process ==
  [at : ServerStates \cup ClientStates \cup {"free", "zombie"},
   parent : Pids \cup {NoPid}, out : Pids \cup {NoPid},
   pipe : FileIds \cup {"empty", "address", "message"}, req : 0..MaxRequests,
   fileid : FileIds \cup {NoFile}, url : FileIds \cup {NoFile}]

\* Every process has its type, only servers work on a request, and fileid is
\* never what an empty pipe or the other client left.
ProcessTypeOK ==
  /\ proc \in [Pids -> Process]
  /\ \A p \in Servers : At(p, "accept") <=> proc[p].req = 0
  /\ storage \subseteq FileIds
  /\ rows \in Seq([req : 1..MaxRequests, file_id : FileIds \cup {NoFile},
                  url : FileIds \cup {NoFile}])
  /\ answers \in [1..MaxRequests -> SUBSET {"008", "009"}]
  /\ accepted \in 0..MaxRequests
  /\ execfaults \in 0..MaxExecFaults
  /\ faults \in 0..MaxFaults

\* A request has at most one row in file_info, although a failed execlp leaves
\* two processes with it, and a kill of one wakes the other.
RecordedOnce ==
  \A i, j \in 1..Len(rows) : rows[i].req = rows[j].req => i = j

\* At most one process of the family is at work or accepts requests: all others
\* are blocked in read, or run a client for it.  It takes a kill after two
\* failures of execlp to have two: the middle one of three processes goes, and
\* both its parent and its child go on.
OneAtWork ==
  execfaults <= 1 \/ faults = 0 =>
    \A p, q \in Servers : Blocked(p) \/ Blocked(q) \/ p = q

\* wait is called once for the two children of a request: a server collects
\* ended children, but at most one for every request.
ZombiesBounded == \A p \in Servers : Cardinality(Zombies(p)) <= accepted

Success(r) ==
  "008" \in answers[r] =>
    \E i \in 1..Len(rows) :
      /\ rows[i].req = r
      /\ rows[i].file_id \in storage
      /\ rows[i].url = rows[i].file_id

\* As long as execlp works, an upload that was answered with 008 has a row with
\* the id and the url of its object, whatever fails or is killed.
ExecutedUploadStored == execfaults = 0 => \A r \in 1..MaxRequests : Success(r)

\* "//    success: {"code":"008"}" (cgi_upload.c:476): an upload that was
\* answered with 008 has a row with the id and the url of its object.
UploadStored == \A r \in 1..MaxRequests : Success(r)

\* Every request is answered, unless all the processes that serve it have died.
RequestAnswered ==
  \A r \in 1..MaxRequests :
    (accepted >= r) ~> (answers[r] # {} \/ \A p \in Alive : proc[p].req # r)

------------------------------------------------------------------------------
(* What makes these invariants inductive *)

ExecStates == {"up_exec", "url_exec"}
Printing == {"up_client", "url_client"}
ReadStates == {"up_read", "url_read"}

\* The processes that can still print into the pipe that is their output.
Working(c) == proc[c].at \in ServerStates \cup ExecStates \cup Printing

\* A process that only exists for its parent has nothing of its own: no
\* request once it is a client, no children before it is a server.
OwnBuffers ==
  \A c \in Pids :
    /\ proc[c].at \in {"free", "zombie"} => proc[c].out = NoPid
    /\ proc[c].at = "free" => proc[c].parent = NoPid
    /\ proc[c].at \in {"free", "zombie", "exiting"} \cup Printing => proc[c].req = 0
    /\ proc[c].at \in ExecStates => proc[c].req # 0
    /\ proc[c].parent # NoPid => proc[c].parent \in Servers \ {c}
    /\ proc[c].out # NoPid => proc[c].out \in Servers

\* A parent whose child is not done is in read, in front of an empty pipe, and
\* in the read for this child's client; there is one such child.
Families ==
  \A c, p \in Pids : proc[c].out = p /\ Working(c) =>
    /\ proc[p].at \in ReadStates /\ proc[p].pipe = "empty"
    /\ proc[c].at \in {"up_exec", "up_client"} => proc[p].at = "up_read"
    /\ proc[c].at \in {"url_exec", "url_client"} => proc[p].at = "url_read"
    /\ proc[c].at \in ExecStates => proc[c].req = proc[p].req
    /\ \A d \in Pids : proc[d].out = p /\ Working(d) => d = c

\* What upload_to_dstorage reads is a file id.
IdsRead == \A p \in Pids : proc[p].at = "up_read" => proc[p].pipe \in FileIds \cup {"empty"}

ProcessInv == ProcessTypeOK /\ OwnBuffers /\ Families /\ IdsRead

\* The processes from which a request can still reach file_info: not the ones
\* in front of an empty pipe with no client to fill it.
Bearer(p) ==
  /\ proc[p].req # 0
  /\ \/ proc[p].at \notin ReadStates \/ proc[p].pipe # "empty"
     \/ \E c \in Pids : proc[c].out = p /\ proc[c].at \in Printing

\* A request has one bearer, and none once it is recorded.
OneBearer ==
  /\ \A p \in Pids : proc[p].req <= accepted
  /\ \A i \in 1..Len(rows) : rows[i].req <= accepted
  /\ \A p, q \in Pids : Bearer(p) /\ Bearer(q) /\ proc[p].req = proc[q].req => p = q
  /\ \A p \in Pids, i \in 1..Len(rows) : Bearer(p) => rows[i].req # proc[p].req

\* A server, or about to be one, that waits for no process of its kind.
Hindmost(p) ==
  /\ proc[p].at \in ServerStates \cup ExecStates
  /\ \A c \in Pids : proc[c].out = p => proc[c].at \notin ServerStates \cup ExecStates

\* Without kills the family is a chain, in which the last one works; with at
\* most one failure of execlp it has two servers, and one waits for the other.
Chain ==
  /\ faults = 0 => \A p, q \in Pids : Hindmost(p) /\ Hindmost(q) => p = q
  /\ execfaults = 0 =>
       \A p \in Servers :
         /\ \A q \in Servers : p = q
         /\ \A c \in Pids : proc[c].at \in ExecStates => proc[c].out = p
  /\ execfaults <= 1 =>
       \A p, q \in Servers : p = q \/ proc[p].out = q \/ proc[q].out = p

\* As long as execlp works, a server has a file id from its client's output on.
IdsStored ==
  execfaults = 0 =>
    /\ \A p \in Servers :
         /\ At(p, "up_read") /\ proc[p].pipe # "empty" => proc[p].pipe \in storage
         /\ proc[p].at \in {"up_wait", "url_fork", "url_read", "store"}
              => proc[p].fileid \in storage
         /\ At(p, "store") => proc[p].url = proc[p].fileid
    /\ \A r \in 1..MaxRequests : Success(r)

Children(p) == {c \in Pids : proc[c].parent = p}

\* A server at one of its two forks has at least one request more than it has
\* children.
ChildrenBounded ==
  \A p \in Servers :
    Cardinality(Children(p)) <=
      IF proc[p].at \in {"up_fork", "url_fork"} THEN accepted - 1 ELSE accepted
=============================================================================
