------------------------- MODULE UploadProcessProofs -------------------------
(***************************************************************************)
(* Proofs about UploadProcess, for any number of processes, requests and   *)
(* failures.  Every action changes proc in one of six ways (a process goes *)
(* on, finishes, forks, prints, collects a child, dies); the first lemmas  *)
(* say what each way leaves of every process.                              *)
(***************************************************************************)
EXTENDS UploadProcess, FiniteSetTheorems, TLAPS

Typed == proc \in [Pids -> Process]

\* What END in main leaves of a process.
LEMMA FinishFacts ==
  ASSUME Typed, NEW p \in Pids, NEW code, Finish(p, code)
  PROVE  /\ Typed'
         /\ \A q \in Pids : q # p => proc'[q] = proc[q]
         /\ proc'[p] = [at |-> "accept", parent |-> proc[p].parent, out |-> proc[p].out,
                        pipe |-> proc[p].pipe, req |-> 0, fileid |-> NoFile, url |-> NoFile]
<1>1. /\ \A q \in Pids : q # p => proc'[q] = proc[q]
      /\ proc'[p] = [proc[p] EXCEPT !.at = "accept", !.req = 0, !.fileid = NoFile, !.url = NoFile]
      /\ proc' = [q \in Pids |-> proc'[q]]
  BY DEF Typed, Finish
<1>2. proc[p] \in Process
  BY DEF Typed
<1>3. proc'[p] = [at |-> "accept", parent |-> proc[p].parent, out |-> proc[p].out,
                  pipe |-> proc[p].pipe, req |-> 0, fileid |-> NoFile, url |-> NoFile]
  BY <1>1, <1>2 DEF Process
<1>4. proc'[p] \in Process
  BY <1>2, <1>3, ProcessAssumption DEF Process, ServerStates
<1> QED
  BY <1>1, <1>3, <1>4 DEF Typed

ForkOf(p, c, child, reading) ==
  proc' = [proc EXCEPT
    ![c] = [proc[p] EXCEPT !.at = child, !.parent = p, !.out = p, !.pipe = "empty"],
    ![p].at = reading, ![p].pipe = "empty"]

\* What a fork leaves of the parent and makes of the child.
LEMMA ForkFacts ==
  ASSUME Typed, NEW p \in Pids, NEW c \in Pids, c # p,
         NEW child \in ClientStates, NEW reading \in ServerStates,
         ForkOf(p, c, child, reading)
  PROVE  /\ Typed'
         /\ \A q \in Pids : q # p /\ q # c => proc'[q] = proc[q]
         /\ proc'[c] = [at |-> child, parent |-> p, out |-> p, pipe |-> "empty",
                        req |-> proc[p].req, fileid |-> proc[p].fileid, url |-> proc[p].url]
         /\ proc'[p] = [at |-> reading, parent |-> proc[p].parent, out |-> proc[p].out,
                        pipe |-> "empty", req |-> proc[p].req,
                        fileid |-> proc[p].fileid, url |-> proc[p].url]
<1>1. /\ \A q \in Pids : q # p /\ q # c => proc'[q] = proc[q]
      /\ proc'[c] = [proc[p] EXCEPT !.at = child, !.parent = p, !.out = p, !.pipe = "empty"]
      /\ proc'[p] = [proc[p] EXCEPT !.at = reading, !.pipe = "empty"]
      /\ proc' = [q \in Pids |-> proc'[q]]
  BY DEF Typed, ForkOf
<1>2. proc[p] \in Process
  BY DEF Typed
<1>3. proc'[c] = [at |-> child, parent |-> p, out |-> p, pipe |-> "empty",
                  req |-> proc[p].req, fileid |-> proc[p].fileid, url |-> proc[p].url]
  BY <1>1, <1>2 DEF Process
<1>4. proc'[p] = [at |-> reading, parent |-> proc[p].parent, out |-> proc[p].out,
                  pipe |-> "empty", req |-> proc[p].req,
                  fileid |-> proc[p].fileid, url |-> proc[p].url]
  BY <1>1, <1>2 DEF Process
<1>5. proc'[p] \in Process /\ proc'[c] \in Process
  BY <1>2, <1>3, <1>4 DEF Process
<1> QED
  BY <1>1, <1>3, <1>4, <1>5 DEF Typed

\* What a print leaves of the client and of the process that reads it.
LEMMA PrintsFacts ==
  ASSUME Typed, NEW c \in Pids, NEW text \in FileIds \cup {"empty", "address", "message"},
         proc[c].out # c, Prints(c, text)
  PROVE  /\ Typed'
         /\ \A q \in Pids : q # c /\ q # proc[c].out => proc'[q] = proc[q]
         /\ proc'[c] = [at |-> "exiting", parent |-> proc[c].parent, out |-> proc[c].out,
                        pipe |-> proc[c].pipe, req |-> proc[c].req,
                        fileid |-> proc[c].fileid, url |-> proc[c].url]
         /\ \A q \in Pids : q = proc[c].out =>
              proc'[q] = [at |-> proc[q].at, parent |-> proc[q].parent, out |-> proc[q].out,
                          pipe |-> text, req |-> proc[q].req,
                          fileid |-> proc[q].fileid, url |-> proc[q].url]
<1>1. /\ \A q \in Pids : q # c /\ q # proc[c].out => proc'[q] = proc[q]
      /\ proc'[c] = [proc[c] EXCEPT !.at = "exiting"]
      /\ \A q \in Pids : q = proc[c].out => proc'[q] = [proc[q] EXCEPT !.pipe = text]
      /\ proc' = [q \in Pids |-> proc'[q]]
  BY DEF Typed, Prints
<1>2. \A q \in Pids : proc[q] \in Process
  BY DEF Typed
<1>3. proc'[c] = [at |-> "exiting", parent |-> proc[c].parent, out |-> proc[c].out,
                  pipe |-> proc[c].pipe, req |-> proc[c].req,
                  fileid |-> proc[c].fileid, url |-> proc[c].url]
  BY <1>1, <1>2 DEF Process
<1>4. \A q \in Pids : q = proc[c].out =>
        proc'[q] = [at |-> proc[q].at, parent |-> proc[q].parent, out |-> proc[q].out,
                    pipe |-> text, req |-> proc[q].req,
                    fileid |-> proc[q].fileid, url |-> proc[q].url]
  BY <1>1, <1>2 DEF Process
<1>5. proc'[c] \in Process
  BY <1>2, <1>3 DEF Process, ClientStates
<1>6. ASSUME NEW q \in Pids, q = proc[c].out PROVE proc'[q] \in Process
  <2>1. proc[q] \in Process
    BY <1>2
  <2>2. proc'[q] = [at |-> proc[q].at, parent |-> proc[q].parent, out |-> proc[q].out,
                    pipe |-> text, req |-> proc[q].req,
                    fileid |-> proc[q].fileid, url |-> proc[q].url]
    BY <1>4, <1>6
  <2> QED
    BY <2>1, <2>2 DEF Process
<1> QED
  BY <1>1, <1>2, <1>3, <1>4, <1>5, <1>6 DEF Typed

\* What a death leaves: a zombie if there is a parent to collect it, and
\* children without a parent.
LEMMA DieFacts ==
  ASSUME Typed, NEW p \in Pids, Die(p)
  PROVE  /\ Typed'
         /\ proc'[p] = [at |-> IF proc[p].parent = NoPid THEN "free" ELSE "zombie",
                        parent |-> proc[p].parent, out |-> NoPid, pipe |-> "empty",
                        req |-> 0, fileid |-> NoFile, url |-> NoFile]
         /\ \A q \in Pids : q # p /\ q \in Zombies(p) => proc'[q] = Nobody
         /\ \A q \in Pids : q # p /\ q \notin Zombies(p) =>
              proc'[q] = [at |-> proc[q].at,
                          parent |-> IF proc[q].parent = p THEN NoPid ELSE proc[q].parent,
                          out |-> IF proc[q].out = p THEN NoPid ELSE proc[q].out,
                          pipe |-> proc[q].pipe, req |-> proc[q].req,
                          fileid |-> proc[q].fileid, url |-> proc[q].url]
<1> DEFINE New(q) == IF q = p
                     THEN IF proc[p].parent = NoPid THEN Nobody
                          ELSE [Nobody EXCEPT !.at = "zombie", !.parent = proc[p].parent]
                     ELSE IF q \in Zombies(p) THEN Nobody
                     ELSE [proc[q] EXCEPT !.parent = IF @ = p THEN NoPid ELSE @,
                                          !.out = IF @ = p THEN NoPid ELSE @]
<1>1. proc' = [q \in Pids |-> New(q)]
  BY DEF Die
<1>2. \A q \in Pids : proc[q] \in Process
  BY DEF Typed
<1>3. proc'[p] = [at |-> IF proc[p].parent = NoPid THEN "free" ELSE "zombie",
                  parent |-> proc[p].parent, out |-> NoPid, pipe |-> "empty",
                  req |-> 0, fileid |-> NoFile, url |-> NoFile]
  <2>1. proc'[p] = New(p)
    BY <1>1
  <2>2. CASE proc[p].parent = NoPid
    BY <2>1, <2>2 DEF Nobody
  <2>3. CASE proc[p].parent # NoPid
    BY <2>1, <2>3 DEF Nobody
  <2> QED
    BY <2>2, <2>3
<1>4. ASSUME NEW q \in Pids, q # p, q \notin Zombies(p)
      PROVE  proc'[q] = [at |-> proc[q].at,
                         parent |-> IF proc[q].parent = p THEN NoPid ELSE proc[q].parent,
                         out |-> IF proc[q].out = p THEN NoPid ELSE proc[q].out,
                         pipe |-> proc[q].pipe, req |-> proc[q].req,
                         fileid |-> proc[q].fileid, url |-> proc[q].url]
  <2> DEFINE pa == IF proc[q].parent = p THEN NoPid ELSE proc[q].parent
             o == IF proc[q].out = p THEN NoPid ELSE proc[q].out
  <2>1. proc'[q] = [proc[q] EXCEPT !.parent = pa, !.out = o]
    BY <1>1, <1>4
  <2>2. proc[q] \in Process
    BY <1>2
  <2> HIDE DEF pa, o
  <2>3. proc'[q] = [at |-> proc[q].at, parent |-> pa, out |-> o,
                    pipe |-> proc[q].pipe, req |-> proc[q].req,
                    fileid |-> proc[q].fileid, url |-> proc[q].url]
    BY <2>1, <2>2 DEF Process
  <2> QED
    BY <2>3 DEF pa, o
<1>5. proc'[p] \in Process
  BY <1>2, <1>3, ProcessAssumption DEF Process
<1>6. Nobody \in Process
  BY ProcessAssumption DEF Process, Nobody
<1>7. \A q \in Pids : q # p /\ q \in Zombies(p) => proc'[q] = Nobody
  BY <1>1
<1>8. ASSUME NEW q \in Pids, q # p, q \notin Zombies(p) PROVE proc'[q] \in Process
  <2> DEFINE pa == IF proc[q].parent = p THEN NoPid ELSE proc[q].parent
             o == IF proc[q].out = p THEN NoPid ELSE proc[q].out
  <2>1. proc[q] \in Process
    BY <1>2
  <2>2. proc'[q] = [at |-> proc[q].at, parent |-> pa, out |-> o,
                    pipe |-> proc[q].pipe, req |-> proc[q].req,
                    fileid |-> proc[q].fileid, url |-> proc[q].url]
    BY <1>4, <1>8
  <2>3. pa \in Pids \cup {NoPid} /\ o \in Pids \cup {NoPid}
    BY <2>1 DEF Process
  <2> HIDE DEF pa, o
  <2> QED
    BY <2>1, <2>2, <2>3 DEF Process
<1>9. proc' = [q \in Pids |-> proc'[q]]
  BY <1>1
<1>10. \A q \in Pids : proc'[q] \in Process
  BY <1>5, <1>6, <1>7, <1>8
<1>11. Typed'
  BY <1>9, <1>10 DEF Typed
<1> QED
  BY <1>3, <1>4, <1>7, <1>11

------------------------------------------------------------------------------
(* Parents, children and pipes *)

Shape == OwnBuffers /\ Families /\ IdsRead

\* A server that nobody prints for any more goes on to another place.
LEMMA GoesOn ==
  ASSUME Typed, Shape, NEW p \in Servers,
         \A c \in Pids : proc[c].out = p => ~Working(c),
         \A q \in Pids : q # p => proc'[q] = proc[q],
         proc'[p].at \in ServerStates \ {"up_read"},
         proc'[p].parent = proc[p].parent, proc'[p].out = proc[p].out
  PROVE  Shape'
<1>1. p \in Pids /\ proc[p].at \in ServerStates /\ Working(p)
  BY DEF Servers, Working
<1>2. Servers' = Servers
  BY <1>1 DEF Servers
<1>3. OwnBuffers'
  BY <1>1, <1>2 DEF Shape, OwnBuffers, ServerStates, ExecStates, Printing
<1>4. \A c \in Pids : Working(c)' = Working(c)
  BY <1>1 DEF Working
<1>5. \A c \in Pids : proc'[c].out = proc[c].out
  OBVIOUS
<1>6. ASSUME NEW c \in Pids, NEW q \in Pids, proc'[c].out = q, Working(c)'
      PROVE  /\ q # p /\ proc'[q] = proc[q]
             /\ proc[c].out = q /\ Working(c)
             /\ proc'[c] = proc[c] \/ proc'[c].at \in ServerStates
  BY <1>4, <1>5, <1>6
<1>7. Families'
  BY <1>4, <1>5, <1>6 DEF Shape, Families, ServerStates, ExecStates
<1>8. IdsRead'
  BY DEF Shape, IdsRead
<1> QED
  BY <1>3, <1>7, <1>8 DEF Shape

\* A server forks a child for one of the two clients.
LEMMA ForkKeeps ==
  ASSUME Typed, Shape, NEW p \in Servers, NEW c \in Free,
         proc[p].at \notin ReadStates, proc[p].req # 0,
         NEW child, NEW reading,
         \/ child = "up_exec" /\ reading = "up_read"
         \/ child = "url_exec" /\ reading = "url_read",
         \A q \in Pids : q # p /\ q # c => proc'[q] = proc[q],
         proc'[c] = [at |-> child, parent |-> p, out |-> p, pipe |-> "empty",
                     req |-> proc[p].req, fileid |-> proc[p].fileid, url |-> proc[p].url],
         proc'[p] = [at |-> reading, parent |-> proc[p].parent, out |-> proc[p].out,
                     pipe |-> "empty", req |-> proc[p].req,
                     fileid |-> proc[p].fileid, url |-> proc[p].url]
  PROVE  Shape'
<1>1. /\ p \in Pids /\ proc[p].at \in ServerStates /\ Working(p)
      /\ c \in Pids /\ proc[c].at = "free" /\ c # p /\ ~Working(c)
  BY DEF Servers, Free, At, Working, ServerStates, ExecStates, Printing
<1>2. Servers' = Servers
  BY <1>1 DEF Servers, ServerStates
<1>3. \A q \in Pids : proc[q].parent # c /\ proc[q].out # c
  BY <1>1, ProcessAssumption DEF Shape, OwnBuffers, Servers, ServerStates
<1>4. \A q \in Pids : proc[q].out = p => ~Working(q)
  BY <1>1 DEF Shape, Families
<1>5. OwnBuffers'
  <2> SUFFICES ASSUME NEW q \in Pids
               PROVE  (/\ proc[q].at \in {"free", "zombie"} => proc[q].out = NoPid
                       /\ proc[q].at = "free" => proc[q].parent = NoPid
                       /\ proc[q].at \in {"free", "zombie", "exiting"} \cup Printing
                            => proc[q].req = 0
                       /\ proc[q].at \in ExecStates => proc[q].req # 0
                       /\ proc[q].parent # NoPid => proc[q].parent \in Servers \ {q}
                       /\ proc[q].out # NoPid => proc[q].out \in Servers)'
    BY DEF OwnBuffers
  <2>1. CASE q = c
    BY <1>1, <1>2, <2>1 DEF ServerStates, ExecStates, Printing
  <2>2. CASE q = p
    BY <1>1, <1>2, <2>2 DEF Shape, OwnBuffers, ServerStates, ExecStates, Printing
  <2>3. CASE q # p /\ q # c
    BY <1>2, <2>3 DEF Shape, OwnBuffers
  <2> QED
    BY <2>1, <2>2, <2>3
<1>6. \A q \in Pids : q # c => Working(q)' = Working(q) /\ proc'[q].out = proc[q].out
  BY <1>1 DEF Working, ServerStates
<1>7. Families'
  <2> SUFFICES ASSUME NEW d \in Pids, NEW q \in Pids, proc'[d].out = q, Working(d)'
               PROVE  (/\ proc[q].at \in ReadStates /\ proc[q].pipe = "empty"
                       /\ proc[d].at \in {"up_exec", "up_client"} => proc[q].at = "up_read"
                       /\ proc[d].at \in {"url_exec", "url_client"} => proc[q].at = "url_read"
                       /\ proc[d].at \in ExecStates => proc[d].req = proc[q].req
                       /\ \A e \in Pids : proc[e].out = q /\ Working(e) => e = d)'
    BY DEF Families
  <2>1. CASE d = c
    BY <1>1, <1>4, <1>6, <2>1 DEF ReadStates, ExecStates
  <2>2. CASE d # c
    <3>1. proc[d].out = q /\ Working(d) /\ q # p /\ q # c
      BY <1>3, <1>4, <1>6, <2>2
    <3>2. d # p => proc'[d] = proc[d]
      BY <2>2
    <3>3. d = p => proc'[d].at = reading
      OBVIOUS
    <3>4. proc'[q] = proc[q]
      BY <3>1
    <3>5. \A e \in Pids : proc'[e].out = q /\ Working(e)' => e = d
      BY <1>1, <1>6, <3>1 DEF Shape, Families
    <3> QED
      BY <3>1, <3>2, <3>3, <3>4, <3>5 DEF Shape, Families, ExecStates
  <2> QED
    BY <2>1, <2>2
<1>8. IdsRead'
  BY <1>1 DEF Shape, IdsRead
<1> QED
  BY <1>5, <1>7, <1>8 DEF Shape

\* execlp replaces the child by its client, or fails and makes it a server.
LEMMA ExecKeeps ==
  ASSUME Typed, Shape, NEW c \in Pids, proc[c].at \in ExecStates,
         \A q \in Pids : q # c => proc'[q] = proc[q],
         \/ proc[c].at = "up_exec" /\ proc'[c].at = "up_client" /\ proc'[c].req = 0
         \/ proc[c].at = "url_exec" /\ proc'[c].at = "url_client" /\ proc'[c].req = 0
         \/ proc'[c].at \in ServerStates \ {"up_read"},
         proc'[c].parent = proc[c].parent, proc'[c].out = proc[c].out
  PROVE  Shape'
<1>1. Servers \subseteq Servers' /\ c \notin Servers
  BY DEF Servers, ServerStates, ExecStates
<1>2. OwnBuffers'
  <2> SUFFICES ASSUME NEW q \in Pids
               PROVE  (/\ proc[q].at \in {"free", "zombie"} => proc[q].out = NoPid
                       /\ proc[q].at = "free" => proc[q].parent = NoPid
                       /\ proc[q].at \in {"free", "zombie", "exiting"} \cup Printing
                            => proc[q].req = 0
                       /\ proc[q].at \in ExecStates => proc[q].req # 0
                       /\ proc[q].parent # NoPid => proc[q].parent \in Servers \ {q}
                       /\ proc[q].out # NoPid => proc[q].out \in Servers)'
    BY DEF OwnBuffers
  <2>1. CASE q = c
    BY <1>1, <2>1 DEF Shape, OwnBuffers, ServerStates, ExecStates, Printing
  <2>2. CASE q # c
    BY <1>1, <2>2 DEF Shape, OwnBuffers
  <2> QED
    BY <2>1, <2>2
<1>3. \A q \in Pids : Working(q)' = Working(q) /\ proc'[q].out = proc[q].out
  BY DEF Working, ServerStates, ExecStates, Printing
<1>4. \A q \in Pids : proc[q].out # c
  BY <1>1, ProcessAssumption DEF Shape, OwnBuffers
<1>5. Families'
  <2> SUFFICES ASSUME NEW d \in Pids, NEW q \in Pids, proc'[d].out = q, Working(d)'
               PROVE  (/\ proc[q].at \in ReadStates /\ proc[q].pipe = "empty"
                       /\ proc[d].at \in {"up_exec", "up_client"} => proc[q].at = "up_read"
                       /\ proc[d].at \in {"url_exec", "url_client"} => proc[q].at = "url_read"
                       /\ proc[d].at \in ExecStates => proc[d].req = proc[q].req
                       /\ \A e \in Pids : proc[e].out = q /\ Working(e) => e = d)'
    BY DEF Families
  <2>1. proc[d].out = q /\ Working(d) /\ proc'[q] = proc[q]
    BY <1>3, <1>4
  <2>2. \A e \in Pids : proc'[e].out = q /\ Working(e)' => e = d
    BY <1>3, <2>1 DEF Shape, Families
  <2>3. CASE d = c
    BY <2>1, <2>2, <2>3 DEF Shape, Families, ServerStates, ExecStates
  <2>4. CASE d # c
    BY <2>1, <2>2, <2>4 DEF Shape, Families
  <2> QED
    BY <2>3, <2>4
<1>6. IdsRead'
  BY DEF Shape, IdsRead
<1> QED
  BY <1>2, <1>5, <1>6 DEF Shape

\* A client prints, and is no longer one that can.
LEMMA PrintsKeeps ==
  ASSUME Typed, Shape, NEW c \in Pids, proc[c].at \in Printing, NEW text,
         proc[c].at = "up_client" => text \in FileIds \cup {"empty"},
         \A q \in Pids : q # c /\ q # proc[c].out => proc'[q] = proc[q],
         proc'[c].at = "exiting", proc'[c].parent = proc[c].parent,
         proc'[c].out = proc[c].out, proc'[c].req = proc[c].req,
         \A q \in Pids : q = proc[c].out =>
           proc'[q] = [at |-> proc[q].at, parent |-> proc[q].parent, out |-> proc[q].out,
                       pipe |-> text, req |-> proc[q].req,
                       fileid |-> proc[q].fileid, url |-> proc[q].url]
  PROVE  Shape'
<1>1. ASSUME NEW q \in Pids, q # c
      PROVE  /\ proc'[q].at = proc[q].at /\ proc'[q].parent = proc[q].parent
             /\ proc'[q].out = proc[q].out /\ proc'[q].req = proc[q].req
             /\ q = proc[c].out => proc'[q].pipe = text
  <2>1. CASE q = proc[c].out
    <3>1. proc'[q] = [at |-> proc[q].at, parent |-> proc[q].parent, out |-> proc[q].out,
                      pipe |-> text, req |-> proc[q].req,
                      fileid |-> proc[q].fileid, url |-> proc[q].url]
      BY <2>1
    <3> QED
      BY <3>1
  <2>2. CASE q # proc[c].out
    BY <1>1, <2>2
  <2> QED
    BY <2>1, <2>2
<1>2. Servers' = Servers /\ c \notin Servers
  BY <1>1 DEF Servers, ServerStates, Printing
<1>3. OwnBuffers'
  <2> SUFFICES ASSUME NEW q \in Pids
               PROVE  (/\ proc[q].at \in {"free", "zombie"} => proc[q].out = NoPid
                       /\ proc[q].at = "free" => proc[q].parent = NoPid
                       /\ proc[q].at \in {"free", "zombie", "exiting"} \cup Printing
                            => proc[q].req = 0
                       /\ proc[q].at \in ExecStates => proc[q].req # 0
                       /\ proc[q].parent # NoPid => proc[q].parent \in Servers \ {q}
                       /\ proc[q].out # NoPid => proc[q].out \in Servers)'
    BY DEF OwnBuffers
  <2>1. CASE q = c
    BY <1>2, <2>1 DEF Shape, OwnBuffers, ExecStates
  <2>2. CASE q # c
    BY <1>1, <1>2, <2>2 DEF Shape, OwnBuffers
  <2> QED
    BY <2>1, <2>2
<1>4. /\ ~Working(c)' /\ Working(c)
      /\ \A q \in Pids : q # c => Working(q)' = Working(q)
  BY <1>1 DEF Working, ServerStates, ExecStates, Printing
<1>5. Families'
  <2> SUFFICES ASSUME NEW d \in Pids, NEW q \in Pids, proc'[d].out = q, Working(d)'
               PROVE  (/\ proc[q].at \in ReadStates /\ proc[q].pipe = "empty"
                       /\ proc[d].at \in {"up_exec", "up_client"} => proc[q].at = "up_read"
                       /\ proc[d].at \in {"url_exec", "url_client"} => proc[q].at = "url_read"
                       /\ proc[d].at \in ExecStates => proc[d].req = proc[q].req
                       /\ \A e \in Pids : proc[e].out = q /\ Working(e) => e = d)'
    BY DEF Families
  <2>1. d # c /\ proc[d].out = q /\ Working(d)
    BY <1>1, <1>4
  <2>2. q # proc[c].out
    BY <1>4, <2>1 DEF Shape, Families
  <2>3. q # c
    BY <1>2, <2>1, ProcessAssumption DEF Shape, OwnBuffers
  <2>4. proc'[q] = proc[q]
    BY <2>2, <2>3
  <2>5. \A e \in Pids : proc'[e].out = q /\ Working(e)' => e = d
    BY <1>1, <1>4, <2>1 DEF Shape, Families
  <2>6. proc'[d].at = proc[d].at /\ proc'[d].req = proc[d].req
    BY <1>1, <2>1
  <2> QED
    BY <2>1, <2>4, <2>5, <2>6 DEF Shape, Families
<1>6. IdsRead'
  <2> SUFFICES ASSUME NEW q \in Pids, proc'[q].at = "up_read"
               PROVE  proc'[q].pipe \in FileIds \cup {"empty"}
    BY DEF IdsRead
  <2>1. CASE q = proc[c].out
    <3>1. q # c /\ proc[q].at = "up_read"
      BY <1>1, <1>2, <2>1, ProcessAssumption DEF Shape, OwnBuffers
    <3>2. proc[c].at = "up_client"
      BY <1>4, <2>1, <3>1 DEF Shape, Families, Printing
    <3> QED
      BY <1>1, <2>1, <3>1, <3>2
  <2>2. CASE q # proc[c].out
    BY <2>2 DEF Shape, IdsRead
  <2> QED
    BY <2>1, <2>2
<1> QED
  BY <1>3, <1>5, <1>6 DEF Shape

\* Rest(p) lists what a death leaves of the processes that are not collected.
Rest(p) == {q \in Pids : q # p /\ q \notin Zombies(p)}

Died(p) ==
  /\ proc'[p].at \in {"free", "zombie"} /\ proc'[p].parent = proc[p].parent
  /\ proc'[p].out = NoPid /\ proc'[p].req = 0
  /\ proc[p].parent = NoPid <=> proc'[p].at = "free"
  /\ \A q \in Zombies(p) : /\ q \in Pids /\ q # p /\ proc[q].at = "zombie"
                           /\ proc[q].parent = p /\ proc'[q] = Nobody
  /\ \A q \in Rest(p) :
       /\ proc'[q].at = proc[q].at /\ proc'[q].pipe = proc[q].pipe
       /\ proc'[q].req = proc[q].req
       /\ proc'[q].fileid = proc[q].fileid /\ proc'[q].url = proc[q].url
       /\ proc'[q].parent = IF proc[q].parent = p THEN NoPid ELSE proc[q].parent
       /\ proc'[q].out = IF proc[q].out = p THEN NoPid ELSE proc[q].out

\* A process that is a server, or a client that is done, dies.
LEMMA DieEffect ==
  ASSUME Typed, NEW p \in Pids, proc[p].at \in ServerStates \cup {"exiting"}, Die(p)
  PROVE  Typed' /\ Died(p) /\ \A q \in Pids : q = p \/ q \in Zombies(p) \/ q \in Rest(p)
<1>1. /\ Typed'
      /\ proc'[p] = [at |-> IF proc[p].parent = NoPid THEN "free" ELSE "zombie",
                     parent |-> proc[p].parent, out |-> NoPid, pipe |-> "empty",
                     req |-> 0, fileid |-> NoFile, url |-> NoFile]
      /\ \A q \in Pids : q # p /\ q \in Zombies(p) => proc'[q] = Nobody
  BY DieFacts
<1>2. /\ proc'[p].at \in {"free", "zombie"} /\ proc'[p].parent = proc[p].parent
      /\ proc'[p].out = NoPid /\ proc'[p].req = 0
      /\ proc[p].parent = NoPid <=> proc'[p].at = "free"
  BY <1>1
<1>3. \A q \in Zombies(p) : /\ q \in Pids /\ q # p /\ proc[q].at = "zombie"
                            /\ proc[q].parent = p /\ proc'[q] = Nobody
  <2>1. \A q \in Zombies(p) : q \in Pids /\ proc[q].at = "zombie" /\ proc[q].parent = p
    BY DEF Zombies, At
  <2>2. \A q \in Zombies(p) : q # p
    BY <2>1 DEF ServerStates
  <2> QED
    BY <1>1, <2>1, <2>2
<1>4. \A q \in Pids : q # p /\ q \notin Zombies(p) =>
        proc'[q] = [at |-> proc[q].at,
                    parent |-> IF proc[q].parent = p THEN NoPid ELSE proc[q].parent,
                    out |-> IF proc[q].out = p THEN NoPid ELSE proc[q].out,
                    pipe |-> proc[q].pipe, req |-> proc[q].req,
                    fileid |-> proc[q].fileid, url |-> proc[q].url]
  BY DieFacts, Zenon
<1>5. ASSUME NEW q \in Rest(p)
      PROVE  /\ proc'[q].at = proc[q].at /\ proc'[q].pipe = proc[q].pipe
             /\ proc'[q].req = proc[q].req
             /\ proc'[q].fileid = proc[q].fileid /\ proc'[q].url = proc[q].url
             /\ proc'[q].parent = IF proc[q].parent = p THEN NoPid ELSE proc[q].parent
             /\ proc'[q].out = IF proc[q].out = p THEN NoPid ELSE proc[q].out
  <2>1. q \in Pids /\ q # p /\ q \notin Zombies(p)
    BY DEF Rest
  <2>2. proc'[q] = [at |-> proc[q].at,
                    parent |-> IF proc[q].parent = p THEN NoPid ELSE proc[q].parent,
                    out |-> IF proc[q].out = p THEN NoPid ELSE proc[q].out,
                    pipe |-> proc[q].pipe, req |-> proc[q].req,
                    fileid |-> proc[q].fileid, url |-> proc[q].url]
    BY <1>4, <2>1, Zenon
  <2> QED
    BY <2>2
<1> QED
  BY <1>1, <1>2, <1>3, <1>5 DEF Died, Rest

\* A death leaves the families of the others.
LEMMA DieKeeps ==
  ASSUME Typed, Shape, NEW p \in Pids, proc[p].at \in ServerStates \cup {"exiting"},
         Died(p), \A q \in Pids : q = p \/ q \in Zombies(p) \/ q \in Rest(p)
  PROVE  Shape' /\ Servers' = Servers \ {p}
<1>1. /\ proc'[p].at \in {"free", "zombie"} /\ proc'[p].parent = proc[p].parent
      /\ proc'[p].out = NoPid /\ proc'[p].req = 0
      /\ proc[p].parent = NoPid <=> proc'[p].at = "free"
  BY DEF Died
<1>2. \A q \in Zombies(p) : q # p /\ proc[q].at = "zombie" /\ proc'[q] = Nobody
  BY DEF Died
<1>3. \A q \in Rest(p) :
        /\ proc'[q].at = proc[q].at /\ proc'[q].pipe = proc[q].pipe
        /\ proc'[q].req = proc[q].req
        /\ proc'[q].parent = IF proc[q].parent = p THEN NoPid ELSE proc[q].parent
        /\ proc'[q].out = IF proc[q].out = p THEN NoPid ELSE proc[q].out
  BY DEF Died
<1>r. Rest(p) \subseteq Pids /\ p \notin Rest(p) /\ \A q \in Rest(p) : q \notin Zombies(p)
  BY DEF Rest
<1>4. Servers' = Servers \ {p}
  <2>1. \A q \in Pids : proc'[q].at \in ServerStates <=> q # p /\ proc[q].at \in ServerStates
    BY <1>1, <1>2, <1>3, <1>r DEF Nobody, ServerStates
  <2> QED
    BY <2>1 DEF Servers
<1>5. \A q \in Pids : q = p \/ q \in Zombies(p) \/ q \in Rest(p)
  OBVIOUS
<1>o. OwnBuffers
  BY DEF Shape
<1>6. OwnBuffers'
  <2> SUFFICES ASSUME NEW q \in Pids
               PROVE  (/\ proc[q].at \in {"free", "zombie"} => proc[q].out = NoPid
                       /\ proc[q].at = "free" => proc[q].parent = NoPid
                       /\ proc[q].at \in {"free", "zombie", "exiting"} \cup Printing
                            => proc[q].req = 0
                       /\ proc[q].at \in ExecStates => proc[q].req # 0
                       /\ proc[q].parent # NoPid => proc[q].parent \in Servers \ {q}
                       /\ proc[q].out # NoPid => proc[q].out \in Servers)'
    BY DEF OwnBuffers
  <2>1. CASE q = p
    BY <1>1, <1>4, <1>o, <2>1 DEF OwnBuffers, ExecStates, Printing
  <2>2. CASE q \in Zombies(p)
    BY <1>2, <2>2 DEF Nobody, ExecStates
  <2>3. CASE q \in Rest(p)
    <3>1. /\ proc[q].at \in {"free", "zombie"} => proc[q].out = NoPid
          /\ proc[q].at = "free" => proc[q].parent = NoPid
          /\ proc[q].at \in {"free", "zombie", "exiting"} \cup Printing => proc[q].req = 0
          /\ proc[q].at \in ExecStates => proc[q].req # 0
          /\ proc[q].parent # NoPid => proc[q].parent \in Servers \ {q}
          /\ proc[q].out # NoPid => proc[q].out \in Servers
      BY <1>o, <2>3 DEF OwnBuffers
    <3> QED
      BY <1>3, <1>4, <1>r, <2>3, <3>1
  <2> QED
    BY <1>5, <2>1, <2>2, <2>3
<1>7. \A q \in Pids : Working(q)' => q \in Rest(p) /\ Working(q)
  BY <1>1, <1>2, <1>3, <1>5 DEF Working, Nobody, ServerStates, ExecStates, Printing
<1>8. Families'
  <2> SUFFICES ASSUME NEW d \in Pids, NEW q \in Pids, proc'[d].out = q, Working(d)'
               PROVE  (/\ proc[q].at \in ReadStates /\ proc[q].pipe = "empty"
                       /\ proc[d].at \in {"up_exec", "up_client"} => proc[q].at = "up_read"
                       /\ proc[d].at \in {"url_exec", "url_client"} => proc[q].at = "url_read"
                       /\ proc[d].at \in ExecStates => proc[d].req = proc[q].req
                       /\ \A e \in Pids : proc[e].out = q /\ Working(e) => e = d)'
    BY DEF Families
  <2>1. d \in Rest(p) /\ Working(d) /\ proc[d].out = q /\ q # p
    BY <1>3, <1>7, <1>r, ProcessAssumption
  <2>2. q \in Servers
    BY <1>o, <2>1, ProcessAssumption DEF OwnBuffers
  <2>3. q \in Rest(p)
    BY <1>2, <1>5, <2>1, <2>2 DEF Servers, ServerStates
  <2>4. \A e \in Pids : proc'[e].out = q /\ Working(e)' => proc[e].out = q /\ Working(e)
    BY <1>3, <1>7, <1>r, ProcessAssumption
  <2>5. \A e \in Pids : proc'[e].out = q /\ Working(e)' => e = d
    BY <2>1, <2>4 DEF Shape, Families
  <2>6. /\ proc'[d].at = proc[d].at /\ proc'[d].req = proc[d].req
        /\ proc'[q].at = proc[q].at /\ proc'[q].req = proc[q].req
        /\ proc'[q].pipe = proc[q].pipe
    BY <1>3, <2>1, <2>3
  <2> QED
    BY <2>1, <2>5, <2>6 DEF Shape, Families
<1>9. IdsRead'
  BY <1>1, <1>2, <1>3, <1>5 DEF Shape, IdsRead, Nobody
<1> QED
  BY <1>4, <1>6, <1>8, <1>9 DEF Shape

\* wait collects a child.
LEMMA WaitKeeps ==
  ASSUME Typed, Shape, NEW p \in Pids, At(p, "up_wait"), NEW c \in Zombies(p),
         proc' = [proc EXCEPT ![p].at = "url_fork", ![c] = Nobody]
  PROVE  /\ c \in Pids /\ c # p /\ proc[c].at = "zombie" /\ proc[c].parent = p
         /\ Typed' /\ Shape'
         /\ proc'[c] = Nobody
         /\ \A q \in Pids : q # p /\ q # c => proc'[q] = proc[q]
         /\ proc'[p] = [at |-> "url_fork", parent |-> proc[p].parent, out |-> proc[p].out,
                        pipe |-> proc[p].pipe, req |-> proc[p].req,
                        fileid |-> proc[p].fileid, url |-> proc[p].url]
<1>1. c \in Pids /\ c # p /\ proc[c].at = "zombie" /\ proc[c].parent = p
  BY DEF Zombies, At
<1>2. /\ proc'[c] = Nobody
      /\ \A q \in Pids : q # p /\ q # c => proc'[q] = proc[q]
      /\ proc'[p] = [proc[p] EXCEPT !.at = "url_fork"]
      /\ proc' = [q \in Pids |-> proc'[q]]
  BY <1>1 DEF Typed
<1>3. proc[p] \in Process
  BY DEF Typed
<1>4. proc'[p] = [at |-> "url_fork", parent |-> proc[p].parent, out |-> proc[p].out,
                  pipe |-> proc[p].pipe, req |-> proc[p].req,
                  fileid |-> proc[p].fileid, url |-> proc[p].url]
  BY <1>2, <1>3 DEF Process
<1>5. proc'[p] \in Process
  BY <1>3, <1>4 DEF Process, ServerStates
<1>6. Nobody \in Process
  BY ProcessAssumption DEF Process, Nobody
<1>7. Typed'
  BY <1>2, <1>5, <1>6 DEF Typed
<1>a. /\ proc'[p].at = "url_fork" /\ proc'[p].parent = proc[p].parent
      /\ proc'[p].out = proc[p].out /\ proc'[p].req = proc[p].req
      /\ proc'[c].at = "free" /\ proc'[c].parent = NoPid
      /\ proc'[c].out = NoPid /\ proc'[c].req = 0
  BY <1>2, <1>4 DEF Nobody
<1>8. p \in Servers /\ Servers' = Servers
  <2>1. \A q \in Pids : proc'[q].at \in ServerStates <=> proc[q].at \in ServerStates
    BY <1>1, <1>2, <1>a DEF ServerStates, At
  <2>2. proc[p].at \in ServerStates
    BY DEF ServerStates, At
  <2> QED
    BY <2>1, <2>2 DEF Servers
<1>9. OwnBuffers'
  <2> SUFFICES ASSUME NEW q \in Pids
               PROVE  (/\ proc[q].at \in {"free", "zombie"} => proc[q].out = NoPid
                       /\ proc[q].at = "free" => proc[q].parent = NoPid
                       /\ proc[q].at \in {"free", "zombie", "exiting"} \cup Printing
                            => proc[q].req = 0
                       /\ proc[q].at \in ExecStates => proc[q].req # 0
                       /\ proc[q].parent # NoPid => proc[q].parent \in Servers \ {q}
                       /\ proc[q].out # NoPid => proc[q].out \in Servers)'
    BY DEF OwnBuffers
  <2>1. CASE q = c
    BY <1>a, <2>1 DEF ExecStates
  <2>2. CASE q = p
    BY <1>a, <1>8, <2>2 DEF Shape, OwnBuffers, ExecStates, Printing
  <2>3. CASE q # p /\ q # c
    BY <1>2, <1>8, <2>3 DEF Shape, OwnBuffers
  <2> QED
    BY <2>1, <2>2, <2>3
<1>10. \A q \in Pids : Working(q)' => Working(q) /\ q # c /\ proc'[q].out = proc[q].out
  BY <1>2, <1>a, <1>8 DEF Working, Servers, ServerStates, ExecStates, Printing
<1>11. Families'
  <2> SUFFICES ASSUME NEW d \in Pids, NEW q \in Pids, proc'[d].out = q, Working(d)'
               PROVE  (/\ proc[q].at \in ReadStates /\ proc[q].pipe = "empty"
                       /\ proc[d].at \in {"up_exec", "up_client"} => proc[q].at = "up_read"
                       /\ proc[d].at \in {"url_exec", "url_client"} => proc[q].at = "url_read"
                       /\ proc[d].at \in ExecStates => proc[d].req = proc[q].req
                       /\ \A e \in Pids : proc[e].out = q /\ Working(e) => e = d)'
    BY DEF Families
  <2>1. Working(d) /\ d # c /\ proc[d].out = q
    BY <1>10
  <2>2. q # p /\ q # c
    BY <1>1, <2>1 DEF Shape, Families, At, ReadStates
  <2>f. /\ proc[q].at \in ReadStates /\ proc[q].pipe = "empty"
        /\ proc[d].at \in {"up_exec", "up_client"} => proc[q].at = "up_read"
        /\ proc[d].at \in {"url_exec", "url_client"} => proc[q].at = "url_read"
        /\ proc[d].at \in ExecStates => proc[d].req = proc[q].req
        /\ \A e \in Pids : proc[e].out = q /\ Working(e) => e = d
    BY <2>1 DEF Shape, Families
  <2>3. \A e \in Pids : proc'[e].out = q /\ Working(e)' => e = d
    BY <1>10, <2>f
  <2>4. d # p => proc'[d] = proc[d]
    BY <1>2, <2>1
  <2> QED
    BY <1>2, <1>a, <2>2, <2>3, <2>4, <2>f DEF ExecStates
<1>12. IdsRead'
  BY <1>2, <1>a DEF Shape, IdsRead
<1> QED
  BY <1>1, <1>2, <1>4, <1>7, <1>9, <1>11, <1>12 DEF Shape

------------------------------------------------------------------------------
(* What each action does to the processes *)

Same(S) == \A q \in Pids : q \notin S => proc'[q] = proc[q]

Becomes(p, a, pi, r, f, u) ==
  /\ proc'[p].at = a /\ proc'[p].pipe = pi /\ proc'[p].req = r
  /\ proc'[p].fileid = f /\ proc'[p].url = u
  /\ proc'[p].parent = proc[p].parent /\ proc'[p].out = proc[p].out

\* A process that changes in its own fields.
LEMMA Updated ==
  ASSUME Typed, NEW p \in Pids, NEW a, NEW r \in 0..MaxRequests,
         NEW f \in FileIds \cup {NoFile}, NEW u \in FileIds \cup {NoFile},
         a \in ServerStates \cup ClientStates,
         \A q \in Pids : q # p => proc'[q] = proc[q],
         proc' = [q \in Pids |-> proc'[q]],
         proc'[p] = [at |-> a, parent |-> proc[p].parent, out |-> proc[p].out,
                     pipe |-> proc[p].pipe, req |-> r, fileid |-> f, url |-> u]
  PROVE  Typed' /\ Same({p}) /\ Becomes(p, a, proc[p].pipe, r, f, u)
<1>1. \A q \in Pids : proc[q] \in Process
  BY DEF Typed
<1>2. proc[p] \in Process
  BY <1>1
<1>3. proc'[p] \in Process
  BY <1>2 DEF Process
<1>4. \A q \in Pids : proc'[q] \in Process
  BY <1>1, <1>3
<1>5. Typed'
  BY <1>4 DEF Typed
<1>6. Becomes(p, a, proc[p].pipe, r, f, u)
  BY DEF Becomes
<1> QED
  BY <1>5, <1>6 DEF Same

\* A request is accepted.
LEMMA AcceptEffect ==
  ASSUME Typed, accepted \in Nat, NEW p \in Pids, Accept(p)
  PROVE  /\ Typed' /\ Same({p})
         /\ Becomes(p, "up_fork", proc[p].pipe, accepted + 1, proc[p].fileid, proc[p].url)
<1>1. proc[p] \in Process
  BY DEF Typed
<1>2. /\ \A q \in Pids : q # p => proc'[q] = proc[q]
      /\ proc'[p] = [proc[p] EXCEPT !.at = "up_fork", !.req = accepted + 1]
      /\ proc' = [q \in Pids |-> proc'[q]]
  BY DEF Accept, Typed
<1>3. proc'[p] = [at |-> "up_fork", parent |-> proc[p].parent, out |-> proc[p].out,
                  pipe |-> proc[p].pipe, req |-> accepted + 1,
                  fileid |-> proc[p].fileid, url |-> proc[p].url]
  BY <1>1, <1>2 DEF Process
<1>4. accepted + 1 \in 0..MaxRequests
  BY ProcessAssumption DEF Accept
<1>5. proc[p].fileid \in FileIds \cup {NoFile} /\ proc[p].url \in FileIds \cup {NoFile}
  BY <1>1 DEF Process
<1>6. "up_fork" \in ServerStates \cup ClientStates
  BY DEF ServerStates
<1> QED
  BY <1>2, <1>3, <1>4, <1>5, <1>6, Updated

\* A request is answered.
LEMMA FinishEffect ==
  ASSUME Typed, NEW p \in Pids, NEW code, Finish(p, code)
  PROVE  /\ Typed' /\ Same({p})
         /\ Becomes(p, "accept", proc[p].pipe, 0, NoFile, NoFile)
<1>1. /\ Typed'
      /\ \A q \in Pids : q # p => proc'[q] = proc[q]
      /\ proc'[p] = [at |-> "accept", parent |-> proc[p].parent, out |-> proc[p].out,
                     pipe |-> proc[p].pipe, req |-> 0, fileid |-> NoFile, url |-> NoFile]
  BY FinishFacts
<1> QED
  BY <1>1 DEF Same, Becomes

\* The child of a fork, before execlp.
Forked(p, c, child, reading) ==
  /\ Same({p, c})
  /\ Becomes(p, reading, "empty", proc[p].req, proc[p].fileid, proc[p].url)
  /\ proc'[c].at = child /\ proc'[c].parent = p /\ proc'[c].out = p
  /\ proc'[c].pipe = "empty" /\ proc'[c].req = proc[p].req
  /\ proc'[c].fileid = proc[p].fileid

\* A fork makes the child, or fails and the request is answered.
LEMMA ForkEffect ==
  ASSUME Typed, Shape, NEW p \in Servers, NEW child, NEW reading,
         proc[p].at \notin ReadStates, proc[p].req # 0,
         \/ child = "up_exec" /\ reading = "up_read"
         \/ child = "url_exec" /\ reading = "url_read",
         Fork(p, child, reading)
  PROVE  \/ /\ Typed' /\ Shape' /\ UNCHANGED <<effects, counts>>
            /\ \E c \in Free : Forked(p, c, child, reading)
         \/ Finish(p, "009") /\ (NoFault \/ Fault) /\ UNCHANGED <<storage, rows, accepted, execfaults>>
<1>1. CASE (\E c \in Free : ForkOf(p, c, child, reading)) /\ UNCHANGED <<effects, counts>>
  <2>1. PICK c \in Free : ForkOf(p, c, child, reading)
    BY <1>1, Zenon
  <2>2. p \in Pids /\ c \in Pids /\ c # p
    BY DEF Servers, Free, At, ServerStates
  <2>3. child \in ClientStates /\ reading \in ServerStates
    BY DEF ClientStates, ServerStates
  <2>4. /\ Typed'
        /\ \A q \in Pids : q # p /\ q # c => proc'[q] = proc[q]
        /\ proc'[c] = [at |-> child, parent |-> p, out |-> p, pipe |-> "empty",
                       req |-> proc[p].req, fileid |-> proc[p].fileid, url |-> proc[p].url]
        /\ proc'[p] = [at |-> reading, parent |-> proc[p].parent, out |-> proc[p].out,
                       pipe |-> "empty", req |-> proc[p].req,
                       fileid |-> proc[p].fileid, url |-> proc[p].url]
    BY <2>1, <2>2, <2>3, ForkFacts
  <2>5. Shape'
    BY <2>4, ForkKeeps
  <2>6. Forked(p, c, child, reading)
    BY <2>4 DEF Forked, Same, Becomes
  <2> QED
    BY <1>1, <2>4, <2>5, <2>6
<1>2. CASE /\ (Free = {} /\ NoFault) \/ Fault
           /\ Finish(p, "009")
           /\ UNCHANGED <<storage, rows, accepted, execfaults>>
  BY <1>2
<1> QED
  BY <1>1, <1>2, Zenon DEF Fork, ForkOf

\* execlp replaces the child by the client, or fails and it goes on.
LEMMA ExecEffect ==
  ASSUME Typed, NEW c \in Pids, NEW client, NEW goes_on,
         client \in ServerStates \cup ClientStates, goes_on \in ServerStates \cup ClientStates,
         Exec(c, client, goes_on)
  PROVE  /\ Typed' /\ Same({c}) /\ UNCHANGED <<effects, accepted, faults>>
         /\ \/ /\ Becomes(c, client, proc[c].pipe, 0, proc[c].fileid, proc[c].url)
               /\ UNCHANGED execfaults
            \/ /\ Becomes(c, goes_on, proc[c].pipe, proc[c].req, proc[c].fileid, proc[c].url)
               /\ execfaults < MaxExecFaults /\ execfaults' = execfaults + 1
<1>1. proc[c] \in Process
  BY DEF Typed
<1>2. /\ proc[c].fileid \in FileIds \cup {NoFile} /\ proc[c].url \in FileIds \cup {NoFile}
      /\ 0 \in 0..MaxRequests /\ proc[c].req \in 0..MaxRequests
  BY <1>1, ProcessAssumption DEF Process
<1>3. CASE proc' = [proc EXCEPT ![c].at = client, ![c].req = 0] /\ UNCHANGED execfaults
  <2>1. /\ \A q \in Pids : q # c => proc'[q] = proc[q]
        /\ proc'[c] = [proc[c] EXCEPT !.at = client, !.req = 0]
        /\ proc' = [q \in Pids |-> proc'[q]]
    BY <1>3 DEF Typed
  <2>2. proc'[c] = [at |-> client, parent |-> proc[c].parent, out |-> proc[c].out,
                    pipe |-> proc[c].pipe, req |-> 0,
                    fileid |-> proc[c].fileid, url |-> proc[c].url]
    BY <1>1, <2>1 DEF Process
  <2>3. Typed' /\ Same({c}) /\ Becomes(c, client, proc[c].pipe, 0, proc[c].fileid, proc[c].url)
    BY <1>2, <2>1, <2>2, Updated
  <2> QED
    BY <1>3, <2>3 DEF Exec
<1>4. CASE /\ execfaults < MaxExecFaults /\ execfaults' = execfaults + 1
           /\ proc' = [proc EXCEPT ![c].at = goes_on]
  <2>1. /\ \A q \in Pids : q # c => proc'[q] = proc[q]
        /\ proc'[c] = [proc[c] EXCEPT !.at = goes_on]
        /\ proc' = [q \in Pids |-> proc'[q]]
    BY <1>4 DEF Typed
  <2>2. proc'[c] = [at |-> goes_on, parent |-> proc[c].parent, out |-> proc[c].out,
                    pipe |-> proc[c].pipe, req |-> proc[c].req,
                    fileid |-> proc[c].fileid, url |-> proc[c].url]
    BY <1>1, <2>1 DEF Process
  <2>3. Typed' /\ Same({c})
        /\ Becomes(c, goes_on, proc[c].pipe, proc[c].req, proc[c].fileid, proc[c].url)
    BY <1>2, <2>1, <2>2, Updated
  <2> QED
    BY <1>4, <2>3 DEF Exec
<1> QED
  BY <1>3, <1>4 DEF Exec

\* A client prints: what its reader has in the pipe.
Printed(c, text) ==
  /\ Same({c, proc[c].out})
  /\ Becomes(c, "exiting", proc[c].pipe, proc[c].req, proc[c].fileid, proc[c].url)
  /\ \A q \in Pids : q = proc[c].out =>
       Becomes(q, proc[q].at, text, proc[q].req, proc[q].fileid, proc[q].url)

\* A print changes the client and the pipe of its reader.
LEMMA PrintsEffect ==
  ASSUME Typed, Shape, NEW c \in Pids, proc[c].at \in Printing,
         NEW text \in FileIds \cup {"empty", "address", "message"},
         proc[c].at = "up_client" => text \in FileIds \cup {"empty"},
         Prints(c, text)
  PROVE  Typed' /\ Shape' /\ Printed(c, text)
<1>1. proc[c].out # c
  BY ProcessAssumption DEF Shape, OwnBuffers, Servers, ServerStates, Printing
<1>2. /\ Typed'
      /\ \A q \in Pids : q # c /\ q # proc[c].out => proc'[q] = proc[q]
      /\ proc'[c] = [at |-> "exiting", parent |-> proc[c].parent, out |-> proc[c].out,
                     pipe |-> proc[c].pipe, req |-> proc[c].req,
                     fileid |-> proc[c].fileid, url |-> proc[c].url]
      /\ \A q \in Pids : q = proc[c].out =>
           proc'[q] = [at |-> proc[q].at, parent |-> proc[q].parent, out |-> proc[q].out,
                       pipe |-> text, req |-> proc[q].req,
                       fileid |-> proc[q].fileid, url |-> proc[q].url]
  BY <1>1, PrintsFacts
<1>3. Becomes(c, "exiting", proc[c].pipe, proc[c].req, proc[c].fileid, proc[c].url)
  BY <1>2 DEF Becomes
<1>4. ASSUME NEW q \in Pids, q = proc[c].out
      PROVE  Becomes(q, proc[q].at, text, proc[q].req, proc[q].fileid, proc[q].url)
  <2>1. proc'[q] = [at |-> proc[q].at, parent |-> proc[q].parent, out |-> proc[q].out,
                    pipe |-> text, req |-> proc[q].req,
                    fileid |-> proc[q].fileid, url |-> proc[q].url]
    BY <1>2, <1>4
  <2> QED
    BY <2>1 DEF Becomes
<1>5. Same({c, proc[c].out})
  BY <1>2 DEF Same
<1>6. /\ proc'[c].at = "exiting" /\ proc'[c].parent = proc[c].parent
      /\ proc'[c].out = proc[c].out /\ proc'[c].req = proc[c].req
  BY <1>3 DEF Becomes
<1>7. Shape'
  BY <1>2, <1>6, PrintsKeeps
<1> QED
  BY <1>2, <1>3, <1>4, <1>5, <1>7 DEF Printed

------------------------------------------------------------------------------
(* Types, families and pipes together *)

Row == [req : 1..MaxRequests, file_id : FileIds \cup {NoFile}, url : FileIds \cup {NoFile}]

Requests == \A p \in Servers : At(p, "accept") <=> proc[p].req = 0

Data ==
  /\ storage \subseteq FileIds
  /\ rows \in Seq(Row)
  /\ answers \in [1..MaxRequests -> SUBSET {"008", "009"}]
  /\ accepted \in 0..MaxRequests
  /\ execfaults \in 0..MaxExecFaults
  /\ faults \in 0..MaxFaults

\* The invariant by its parts.
LEMMA InvParts == ProcessInv <=> Typed /\ Shape /\ Requests /\ Data
BY DEF ProcessInv, ProcessTypeOK, Typed, Shape, Requests, Data, Row

\* The same after a step.
LEMMA InvPartsPrimed == ProcessInv' <=> Typed' /\ Shape' /\ Requests' /\ Data'
BY DEF ProcessInv, ProcessTypeOK, Typed, Shape, Requests, Data, Row

\* The failures that the environment has left are counted.
LEMMA FaultType ==
  ASSUME Data, NoFault \/ Fault
  PROVE  faults' \in 0..MaxFaults /\ (faults' = 0 => NoFault)
BY ProcessAssumption DEF Data, NoFault, Fault

\* A server goes on with its request, or is done with it.
LEMMA GoesOnStep ==
  ASSUME Typed, Shape, Requests, NEW p \in Servers,
         \A c \in Pids : proc[c].out = p => ~Working(c),
         Typed', Same({p}), NEW a, NEW pi, NEW r, NEW f, NEW u,
         Becomes(p, a, pi, r, f, u),
         a \in ServerStates \ {"up_read"}, a = "accept" <=> r = 0
  PROVE  Shape' /\ Requests'
<1>1. /\ \A q \in Pids : q # p => proc'[q] = proc[q]
      /\ proc'[p].at \in ServerStates \ {"up_read"}
      /\ proc'[p].at = "accept" <=> proc'[p].req = 0
      /\ proc'[p].parent = proc[p].parent /\ proc'[p].out = proc[p].out
  BY DEF Same, Becomes
<1>2. Shape'
  BY <1>1, GoesOn
<1>3. Requests'
  BY <1>1 DEF Requests, Servers, At
<1> QED
  BY <1>2, <1>3

\* A server that is not in read has no child that could print.
LEMMA NotReading ==
  ASSUME Shape, NEW p \in Pids, proc[p].at \notin ReadStates \/ proc[p].pipe # "empty"
  PROVE  \A c \in Pids : proc[c].out = p => ~Working(c)
BY DEF Shape, Families

\* Neither has one at the end of its pipe.
LEMMA Ended ==
  ASSUME NEW p \in Pids, AtEnd(p)
  PROVE  \A c \in Pids : proc[c].out = p => ~Working(c)
BY DEF AtEnd, Alive, Working, ServerStates, ClientStates, ExecStates, Printing

\* A server answers its request and takes the next.
LEMMA FinishStep ==
  ASSUME ProcessInv, NEW p \in Servers, proc[p].req # 0,
         \A c \in Pids : proc[c].out = p => ~Working(c),
         NEW code \in {"008", "009"}, Finish(p, code), rows' \in Seq(Row),
         UNCHANGED <<storage, accepted, execfaults>>, NoFault \/ Fault
  PROVE  /\ ProcessInv' /\ Same({p})
         /\ Becomes(p, "accept", proc[p].pipe, 0, NoFile, NoFile)
<1>1. Typed /\ Shape /\ Requests /\ Data /\ p \in Pids
  BY InvParts DEF Servers
<1>2. Typed' /\ Same({p}) /\ Becomes(p, "accept", proc[p].pipe, 0, NoFile, NoFile)
  BY <1>1, FinishEffect
<1>3. Shape' /\ Requests'
  <2>1. "accept" \in ServerStates \ {"up_read"}
    BY DEF ServerStates
  <2> QED
    BY <1>1, <1>2, <2>1, GoesOnStep
<1>4. proc[p].req \in 1..MaxRequests
  <2>1. proc[p].req \in 0..MaxRequests
    BY <1>1 DEF Typed, Process
  <2> QED
    BY <2>1
<1>5. answers' \in [1..MaxRequests -> SUBSET {"008", "009"}]
  BY <1>1, <1>4 DEF Finish, Data
<1>6. Data'
  BY <1>1, <1>5, FaultType DEF Data
<1> QED
  BY <1>2, <1>3, <1>6, InvPartsPrimed

\* A process dies.
LEMMA DieStep ==
  ASSUME ProcessInv, NEW p \in Pids, proc[p].at \in ServerStates \cup {"exiting"},
         Die(p), UNCHANGED <<effects, accepted, execfaults>>, NoFault \/ Fault
  PROVE  /\ ProcessInv' /\ Died(p) /\ Servers' = Servers \ {p}
         /\ \A q \in Pids : q = p \/ q \in Zombies(p) \/ q \in Rest(p)
<1>1. Typed /\ Shape /\ Requests /\ Data
  BY InvParts
<1>2. Typed' /\ Died(p) /\ \A q \in Pids : q = p \/ q \in Zombies(p) \/ q \in Rest(p)
  BY <1>1, DieEffect
<1>3. Shape' /\ Servers' = Servers \ {p}
  BY <1>1, <1>2, DieKeeps
<1>4. Requests'
  <2>1. \A q \in Servers' : proc'[q].at = proc[q].at /\ proc'[q].req = proc[q].req
    BY <1>2, <1>3 DEF Died, Servers, ServerStates
  <2> QED
    BY <1>1, <1>3, <2>1 DEF Requests, At
<1>5. Data'
  BY <1>1, FaultType DEF Data, effects
<1> QED
  BY <1>2, <1>3, <1>4, <1>5, InvPartsPrimed

------------------------------------------------------------------------------
(* The kinds of step *)

Childless(p) == \A c \in Pids : proc[c].out = p => ~Working(c)

AcceptKind(p) ==
  /\ p \in Servers /\ At(p, "accept") /\ Same({p})
  /\ Becomes(p, "up_fork", proc[p].pipe, accepted + 1, proc[p].fileid, proc[p].url)
  /\ accepted < MaxRequests /\ accepted' = accepted + 1
  /\ UNCHANGED <<effects, execfaults, faults>>

ForkKind(p, c) ==
  /\ p \in Servers /\ c \in Free /\ Childless(p) /\ UNCHANGED <<effects, counts>>
  /\ \/ At(p, "up_fork") /\ Forked(p, c, "up_exec", "up_read")
     \/ At(p, "url_fork") /\ Forked(p, c, "url_exec", "url_read")

AnswerKind(p, code) ==
  /\ p \in Servers /\ proc[p].req # 0 /\ Childless(p) /\ Same({p})
  /\ Becomes(p, "accept", proc[p].pipe, 0, NoFile, NoFile)
  /\ answers' = [answers EXCEPT ![proc[p].req] = @ \cup {code}]
  /\ \/ code = "009" /\ UNCHANGED rows
     \/ /\ code = "008" /\ At(p, "store")
        /\ rows' = Append(rows, [req |-> proc[p].req, file_id |-> proc[p].fileid,
                                 url |-> proc[p].url])
  /\ NoFault \/ Fault
  /\ UNCHANGED <<storage, accepted, execfaults>>

ClientKind(c) ==
  /\ c \in Pids /\ Same({c}) /\ UNCHANGED <<effects, counts>>
  /\ \/ /\ At(c, "up_exec")
        /\ Becomes(c, "up_client", proc[c].pipe, 0, proc[c].fileid, proc[c].url)
     \/ /\ At(c, "url_exec")
        /\ Becomes(c, "url_client", proc[c].pipe, 0, proc[c].fileid, proc[c].url)

FailKind(c) ==
  /\ c \in Pids /\ proc[c].at \in ExecStates /\ Same({c})
  /\ execfaults' = execfaults + 1 /\ UNCHANGED <<effects, accepted, faults>>
  /\ \E a \in {"url_fork", "store"} :
       Becomes(c, a, proc[c].pipe, proc[c].req, proc[c].fileid, proc[c].url)

PrintKind(c, text) ==
  /\ c \in Pids /\ proc[c].at \in Printing /\ Printed(c, text)
  /\ storage \subseteq storage'
  /\ At(c, "up_client") => text \in storage' \cup {"empty"}
  /\ NoFault \/ Fault
  /\ UNCHANGED <<rows, answers, accepted, execfaults>>

ReadKind(p) ==
  /\ p \in Servers /\ proc[p].pipe # "empty" /\ Childless(p) /\ Same({p})
  /\ UNCHANGED <<effects, counts>>
  /\ \/ /\ At(p, "up_read")
        /\ Becomes(p, "up_wait", proc[p].pipe, proc[p].req, proc[p].pipe, proc[p].url)
     \/ /\ At(p, "url_read")
        /\ Becomes(p, "store", proc[p].pipe, proc[p].req, proc[p].fileid, proc[p].fileid)

WaitKind(p, c) ==
  /\ p \in Servers /\ At(p, "up_wait") /\ Childless(p) /\ Same({p, c})
  /\ c \in Pids /\ At(c, "zombie") /\ proc[c].parent = p /\ proc'[c] = Nobody
  /\ Becomes(p, "url_fork", proc[p].pipe, proc[p].req, proc[p].fileid, proc[p].url)
  /\ UNCHANGED <<effects, counts>>

DieKind(p) ==
  /\ p \in Pids /\ Died(p) /\ Servers' = Servers \ {p}
  /\ \A q \in Pids : q = p \/ q \in Zombies(p) \/ q \in Rest(p)
  /\ \/ proc[p].at = "exiting"
     \/ proc[p].at = "url_read" /\ ~Blocked(p)
     \/ p \in Servers /\ Fault
  /\ NoFault \/ Fault
  /\ UNCHANGED <<effects, accepted, execfaults>>

Kinds ==
  \/ \E p \in Pids : AcceptKind(p) \/ ReadKind(p) \/ DieKind(p)
  \/ \E p, c \in Pids : ForkKind(p, c) \/ WaitKind(p, c)
  \/ \E p \in Pids, code \in {"008", "009"} : AnswerKind(p, code)
  \/ \E c \in Pids : ClientKind(c) \/ FailKind(c)
  \/ \E c \in Pids, text \in FileIds \cup {"empty", "address", "message"} : PrintKind(c, text)
  \/ UNCHANGED pvars

\* A server is one of the processes, and one at work has a request.
LEMMA ServerFacts ==
  ASSUME Requests, NEW p \in Pids, proc[p].at \in ServerStates
  PROVE  p \in Servers /\ (proc[p].at # "accept" => proc[p].req # 0)
BY DEF Servers, Requests, At

\* Accepting a request.
LEMMA AcceptStep ==
  ASSUME ProcessInv, NEW p \in Pids, Accept(p)
  PROVE  ProcessInv' /\ Kinds
<1>1. Typed /\ Shape /\ Requests /\ Data
  BY InvParts
<1>2. accepted \in Nat /\ At(p, "accept") /\ p \in Servers
  BY <1>1, ServerFacts DEF Data, Accept, At, ServerStates
<1>3. Childless(p)
  BY <1>1, <1>2, NotReading DEF Childless, At, ReadStates
<1>4. /\ Typed' /\ Same({p})
      /\ Becomes(p, "up_fork", proc[p].pipe, accepted + 1, proc[p].fileid, proc[p].url)
  BY <1>2, <1>1, AcceptEffect
<1>5. Shape' /\ Requests'
  <2>1. "up_fork" \in ServerStates \ {"up_read"} /\ accepted + 1 # 0
    BY <1>2 DEF ServerStates
  <2> QED
    BY <1>1, <1>2, <1>3, <1>4, <2>1, GoesOnStep DEF Childless
<1>6. Data'
  BY <1>1, ProcessAssumption DEF Data, Accept, effects
<1>7. AcceptKind(p)
  BY <1>2, <1>4 DEF AcceptKind, Accept
<1> QED
  BY <1>4, <1>5, <1>6, <1>7, InvPartsPrimed DEF Kinds

\* The two forks.
LEMMA ForkStep ==
  ASSUME ProcessInv, NEW p \in Pids, UploadFork(p) \/ UrlFork(p)
  PROVE  ProcessInv' /\ Kinds
<1>1. Typed /\ Shape /\ Requests /\ Data
  BY InvParts
<1>2. PICK child, reading :
        /\ \/ child = "up_exec" /\ reading = "up_read" /\ At(p, "up_fork")
           \/ child = "url_exec" /\ reading = "url_read" /\ At(p, "url_fork")
        /\ Fork(p, child, reading)
  BY DEF UploadFork, UrlFork
<1>3. p \in Servers /\ proc[p].req # 0 /\ proc[p].at \notin ReadStates
  BY <1>1, <1>2, ServerFacts DEF At, ServerStates, ReadStates
<1>4. Childless(p)
  BY <1>1, <1>3, NotReading DEF Childless
<1>5. \/ /\ Typed' /\ Shape' /\ UNCHANGED <<effects, counts>>
         /\ \E c \in Free : Forked(p, c, child, reading)
      \/ /\ Finish(p, "009") /\ (NoFault \/ Fault)
         /\ UNCHANGED <<storage, rows, accepted, execfaults>>
  BY <1>1, <1>2, <1>3, ForkEffect
<1>6. CASE /\ Typed' /\ Shape' /\ UNCHANGED <<effects, counts>>
           /\ \E c \in Free : Forked(p, c, child, reading)
  <2>1. PICK c \in Free : Forked(p, c, child, reading)
    BY <1>6
  <2>2. c \in Pids /\ c # p /\ proc'[c].at \notin ServerStates
    BY <1>2, <1>3, <2>1 DEF Free, Servers, At, Forked, ServerStates
  <2>3. proc'[p].at # "accept" /\ proc'[p].req # 0
    BY <1>2, <1>3, <2>1 DEF Forked, Becomes
  <2>4. Requests'
    BY <1>1, <2>1, <2>2, <2>3 DEF Requests, Servers, At, Forked, Same
  <2>5. Data'
    BY <1>1, <1>6 DEF Data, effects, counts
  <2>6. ForkKind(p, c)
    BY <1>2, <1>3, <1>4, <1>6, <2>1 DEF ForkKind
  <2> QED
    BY <1>6, <2>2, <2>4, <2>5, <2>6, InvPartsPrimed DEF Kinds
<1>7. CASE /\ Finish(p, "009") /\ (NoFault \/ Fault)
           /\ UNCHANGED <<storage, rows, accepted, execfaults>>
  <2>1. rows' \in Seq(Row)
    BY <1>1, <1>7 DEF Data
  <2>2. /\ ProcessInv' /\ Same({p})
        /\ Becomes(p, "accept", proc[p].pipe, 0, NoFile, NoFile)
    BY <1>3, <1>4, <1>7, <2>1, FinishStep DEF Childless
  <2>3. AnswerKind(p, "009")
    BY <1>3, <1>4, <1>7, <2>2 DEF AnswerKind, Finish
  <2> QED
    BY <2>2, <2>3 DEF Kinds
<1> QED
  BY <1>5, <1>6, <1>7

\* The two calls of execlp.
LEMMA ExecStep ==
  ASSUME ProcessInv, NEW c \in Pids, UploadExec(c) \/ UrlExec(c)
  PROVE  ProcessInv' /\ Kinds
<1>1. Typed /\ Shape /\ Requests /\ Data
  BY InvParts
<1>2. PICK client, goes_on :
        /\ \/ At(c, "up_exec") /\ client = "up_client" /\ goes_on = "url_fork"
           \/ At(c, "url_exec") /\ client = "url_client" /\ goes_on = "store"
        /\ Exec(c, client, goes_on)
  BY DEF UploadExec, UrlExec
<1>3. client \in ServerStates \cup ClientStates /\ goes_on \in ServerStates \cup ClientStates
  BY <1>2 DEF ServerStates, ClientStates
<1>4. proc[c].at \in ExecStates /\ proc[c].req # 0
  BY <1>1, <1>2 DEF At, ExecStates, Shape, OwnBuffers
<1>5. /\ Typed' /\ Same({c}) /\ UNCHANGED <<effects, accepted, faults>>
      /\ \/ /\ Becomes(c, client, proc[c].pipe, 0, proc[c].fileid, proc[c].url)
            /\ UNCHANGED execfaults
         \/ /\ Becomes(c, goes_on, proc[c].pipe, proc[c].req, proc[c].fileid, proc[c].url)
            /\ execfaults < MaxExecFaults /\ execfaults' = execfaults + 1
  BY <1>1, <1>2, <1>3, ExecEffect
<1>6. /\ \A q \in Pids : q # c => proc'[q] = proc[q]
      /\ \/ proc[c].at = "up_exec" /\ proc'[c].at = "up_client" /\ proc'[c].req = 0
         \/ proc[c].at = "url_exec" /\ proc'[c].at = "url_client" /\ proc'[c].req = 0
         \/ proc'[c].at \in ServerStates \ {"up_read", "accept"} /\ proc'[c].req # 0
      /\ proc'[c].parent = proc[c].parent /\ proc'[c].out = proc[c].out
  BY <1>2, <1>4, <1>5 DEF Same, Becomes, At, ServerStates
<1>7. Shape'
  BY <1>1, <1>4, <1>6, ExecKeeps
<1>8. Requests'
  BY <1>1, <1>6 DEF Requests, Servers, At, ServerStates
<1>9. Data'
  BY <1>1, <1>5, ProcessAssumption DEF Data, effects
<1>10. CASE UNCHANGED execfaults /\ Becomes(c, client, proc[c].pipe, 0, proc[c].fileid, proc[c].url)
  <2>1. ClientKind(c)
    BY <1>2, <1>5, <1>10 DEF ClientKind, counts
  <2> QED
    BY <1>5, <1>7, <1>8, <1>9, <2>1, InvPartsPrimed DEF Kinds
<1>11. CASE /\ Becomes(c, goes_on, proc[c].pipe, proc[c].req, proc[c].fileid, proc[c].url)
            /\ execfaults' = execfaults + 1
  <2>1. FailKind(c)
    BY <1>2, <1>4, <1>5, <1>11 DEF FailKind
  <2> QED
    BY <1>5, <1>7, <1>8, <1>9, <2>1, InvPartsPrimed DEF Kinds
<1> QED
  BY <1>5, <1>10, <1>11

\* The two clients.
LEMMA ClientStep ==
  ASSUME ProcessInv, NEW c \in Pids, UploadClient(c) \/ UrlClient(c)
  PROVE  ProcessInv' /\ Kinds
<1>1. Typed /\ Shape /\ Requests /\ Data
  BY InvParts
<1>2. PICK text \in FileIds \cup {"empty", "address", "message"} :
        /\ proc[c].at \in Printing /\ Prints(c, text)
        /\ storage \subseteq storage' /\ storage' \subseteq FileIds
        /\ At(c, "up_client") => text \in storage' \cup {"empty"}
        /\ NoFault \/ Fault
        /\ UNCHANGED <<rows, answers, accepted, execfaults>>
  <2>1. CASE UploadClient(c)
    <3>1. PICK f \in FileIds \ storage :
            \/ NoFault /\ storage' = storage \cup {f} /\ Prints(c, f)
            \/ Fault /\ storage' \in {storage, storage \cup {f}} /\ Prints(c, "empty")
      BY <2>1, Zenon DEF UploadClient
    <3>2. CASE NoFault /\ storage' = storage \cup {f} /\ Prints(c, f)
      <4>1. /\ proc[c].at \in Printing /\ storage \subseteq storage' /\ storage' \subseteq FileIds
            /\ f \in storage' /\ UNCHANGED <<rows, answers, accepted, execfaults>>
        BY <1>1, <2>1, <3>2 DEF UploadClient, At, Printing, Data
      <4> QED
        BY <3>2, <4>1
    <3>3. CASE Fault /\ storage' \in {storage, storage \cup {f}} /\ Prints(c, "empty")
      <4>1. /\ proc[c].at \in Printing /\ storage \subseteq storage' /\ storage' \subseteq FileIds
            /\ UNCHANGED <<rows, answers, accepted, execfaults>>
        BY <1>1, <2>1, <3>3 DEF UploadClient, At, Printing, Data
      <4> QED
        BY <3>3, <4>1
    <3> QED
      BY <3>1, <3>2, <3>3
  <2>2. CASE UrlClient(c)
    <3>1. /\ proc[c].at \in Printing /\ ~At(c, "up_client")
          /\ storage' = storage /\ storage' \subseteq FileIds
          /\ UNCHANGED <<rows, answers, accepted, execfaults>>
      BY <1>1, <2>2 DEF UrlClient, At, Printing, Data, effects
    <3>2. PICK text \in {"address", "message"} : Prints(c, text) /\ (NoFault \/ Fault)
      BY <2>2 DEF UrlClient
    <3> QED
      BY <3>1, <3>2
  <2> QED
    BY <2>1, <2>2
<1>3. At(c, "up_client") => text \in FileIds \cup {"empty"}
  BY <1>2
<1>4. Typed' /\ Shape' /\ Printed(c, text)
  BY <1>1, <1>2, <1>3, PrintsEffect DEF At
<1>5. \A q \in Pids : q \in Servers' =>
        q \in Servers /\ proc'[q].at = proc[q].at /\ proc'[q].req = proc[q].req
  <2> SUFFICES ASSUME NEW q \in Pids, proc'[q].at \in ServerStates
               PROVE  proc'[q].at = proc[q].at /\ proc'[q].req = proc[q].req
    BY DEF Servers
  <2>1. q # c
    BY <1>4 DEF Printed, Becomes, ServerStates
  <2>2. CASE q = proc[c].out
    BY <1>4, <2>2 DEF Printed, Becomes
  <2>3. CASE q # proc[c].out
    BY <1>4, <2>1, <2>3 DEF Printed, Same
  <2> QED
    BY <2>2, <2>3
<1>6. Requests'
  BY <1>1, <1>5 DEF Requests, At, Servers
<1>7. Data'
  BY <1>1, <1>2, FaultType DEF Data
<1>8. PrintKind(c, text)
  BY <1>2, <1>4 DEF PrintKind
<1> QED
  BY <1>4, <1>6, <1>7, <1>8, InvPartsPrimed DEF Kinds

\* read in upload_to_dstorage.
LEMMA UploadReadStep ==
  ASSUME ProcessInv, NEW p \in Pids, UploadRead(p)
  PROVE  ProcessInv' /\ Kinds
<1>1. Typed /\ Shape /\ Requests /\ Data
  BY InvParts
<1>2. p \in Servers /\ proc[p].req # 0 /\ proc[p].at = "up_read"
  BY <1>1, ServerFacts DEF UploadRead, At, ServerStates
<1>3. CASE /\ proc[p].pipe # "empty"
           /\ proc' = [proc EXCEPT ![p].fileid = proc[p].pipe, ![p].at = "up_wait"]
           /\ UNCHANGED answers
  <2>1. proc[p] \in Process
    BY <1>1 DEF Typed
  <2>2. /\ \A q \in Pids : q # p => proc'[q] = proc[q]
        /\ proc'[p] = [proc[p] EXCEPT !.fileid = proc[p].pipe, !.at = "up_wait"]
        /\ proc' = [q \in Pids |-> proc'[q]]
    BY <1>1, <1>3 DEF Typed
  <2>3. proc'[p] = [at |-> "up_wait", parent |-> proc[p].parent, out |-> proc[p].out,
                    pipe |-> proc[p].pipe, req |-> proc[p].req,
                    fileid |-> proc[p].pipe, url |-> proc[p].url]
    BY <2>1, <2>2 DEF Process
  <2>4. /\ proc[p].pipe \in FileIds \cup {NoFile} /\ proc[p].url \in FileIds \cup {NoFile}
        /\ proc[p].req \in 0..MaxRequests
    BY <1>1, <1>2, <1>3, <2>1 DEF Process, Shape, IdsRead
  <2>5. "up_wait" \in ServerStates \ {"up_read"}
    BY DEF ServerStates
  <2>6. /\ Typed' /\ Same({p})
        /\ Becomes(p, "up_wait", proc[p].pipe, proc[p].req, proc[p].pipe, proc[p].url)
    BY <1>1, <2>2, <2>3, <2>4, <2>5, Updated
  <2>7. Childless(p)
    BY <1>1, <1>3, NotReading DEF Childless
  <2>8. Shape' /\ Requests'
    BY <1>1, <1>2, <2>5, <2>6, <2>7, GoesOnStep DEF Childless
  <2>9. UNCHANGED <<effects, counts>>
    BY <1>3 DEF UploadRead, effects
  <2>10. Data'
    BY <1>1, <2>9 DEF Data, effects, counts
  <2>11. ReadKind(p)
    BY <1>2, <1>3, <2>6, <2>7, <2>9 DEF ReadKind, At
  <2> QED
    BY <2>6, <2>8, <2>10, <2>11, InvPartsPrimed DEF Kinds
<1>4. CASE AtEnd(p) /\ Finish(p, "009")
  <2>1. rows' \in Seq(Row) /\ UNCHANGED <<storage, rows, accepted, execfaults>> /\ NoFault
    BY <1>1 DEF Data, UploadRead, counts, NoFault
  <2>2. Childless(p)
    BY <1>4, Ended DEF Childless
  <2>3. /\ ProcessInv' /\ Same({p})
        /\ Becomes(p, "accept", proc[p].pipe, 0, NoFile, NoFile)
    BY <1>2, <1>4, <2>1, <2>2, FinishStep DEF Childless
  <2>4. AnswerKind(p, "009")
    BY <1>2, <1>4, <2>1, <2>2, <2>3 DEF AnswerKind, Finish
  <2> QED
    BY <2>3, <2>4 DEF Kinds
<1> QED
  BY <1>3, <1>4 DEF UploadRead

\* wait in upload_to_dstorage.
LEMMA UploadWaitStep ==
  ASSUME ProcessInv, NEW p \in Pids, UploadWait(p)
  PROVE  ProcessInv' /\ Kinds
<1>1. Typed /\ Shape /\ Requests /\ Data
  BY InvParts
<1>2. p \in Servers /\ proc[p].req # 0 /\ At(p, "up_wait")
  BY <1>1, ServerFacts DEF UploadWait, At, ServerStates
<1>3. PICK c \in Zombies(p) : proc' = [proc EXCEPT ![p].at = "url_fork", ![c] = Nobody]
  BY DEF UploadWait
<1>4. /\ c \in Pids /\ c # p /\ proc[c].at = "zombie" /\ proc[c].parent = p
      /\ Typed' /\ Shape'
      /\ proc'[c] = Nobody
      /\ \A q \in Pids : q # p /\ q # c => proc'[q] = proc[q]
      /\ proc'[p] = [at |-> "url_fork", parent |-> proc[p].parent, out |-> proc[p].out,
                     pipe |-> proc[p].pipe, req |-> proc[p].req,
                     fileid |-> proc[p].fileid, url |-> proc[p].url]
  BY <1>1, <1>2, <1>3, WaitKeeps
<1>5. /\ Same({p, c})
      /\ Becomes(p, "url_fork", proc[p].pipe, proc[p].req, proc[p].fileid, proc[p].url)
  BY <1>4 DEF Same, Becomes
<1>6. /\ proc'[p].at = "url_fork" /\ proc'[p].req = proc[p].req
      /\ proc'[c].at = "free"
  BY <1>4, <1>5 DEF Becomes, Nobody
<1>7. Requests'
  BY <1>1, <1>2, <1>4, <1>6 DEF Requests, Servers, At, ServerStates
<1>8. UNCHANGED <<effects, counts>>
  BY DEF UploadWait
<1>9. Data'
  BY <1>1, <1>8 DEF Data, effects, counts
<1>10. Childless(p)
  BY <1>1, <1>2, NotReading DEF Childless, At, ReadStates
<1>11. WaitKind(p, c)
  BY <1>2, <1>4, <1>5, <1>8, <1>10 DEF WaitKind, At
<1> QED
  BY <1>4, <1>7, <1>9, <1>11, InvPartsPrimed DEF Kinds

\* read in make_file_url.
LEMMA UrlReadStep ==
  ASSUME ProcessInv, NEW p \in Pids, UrlRead(p)
  PROVE  ProcessInv' /\ Kinds
<1>1. Typed /\ Shape /\ Requests /\ Data
  BY InvParts
<1>2. /\ p \in Servers /\ proc[p].req # 0 /\ proc[p].at = "url_read"
      /\ proc[p].at \in ServerStates
  BY <1>1, ServerFacts DEF UrlRead, At, ServerStates
<1>3. ~Blocked(p) /\ UNCHANGED <<effects, counts>>
  BY DEF UrlRead
<1>4. CASE /\ proc[p].pipe = "address"
           /\ proc' = [proc EXCEPT ![p].url = proc[p].fileid, ![p].at = "store"]
  <2>1. proc[p] \in Process
    BY <1>1 DEF Typed
  <2>2. /\ \A q \in Pids : q # p => proc'[q] = proc[q]
        /\ proc'[p] = [proc[p] EXCEPT !.url = proc[p].fileid, !.at = "store"]
        /\ proc' = [q \in Pids |-> proc'[q]]
    BY <1>1, <1>4 DEF Typed
  <2>3. proc'[p] = [at |-> "store", parent |-> proc[p].parent, out |-> proc[p].out,
                    pipe |-> proc[p].pipe, req |-> proc[p].req,
                    fileid |-> proc[p].fileid, url |-> proc[p].fileid]
    BY <2>1, <2>2 DEF Process
  <2>4. proc[p].fileid \in FileIds \cup {NoFile} /\ proc[p].req \in 0..MaxRequests
    BY <2>1 DEF Process
  <2>5. "store" \in ServerStates \ {"up_read"}
    BY DEF ServerStates
  <2>6. /\ Typed' /\ Same({p})
        /\ Becomes(p, "store", proc[p].pipe, proc[p].req, proc[p].fileid, proc[p].fileid)
    BY <1>1, <2>2, <2>3, <2>4, <2>5, Updated
  <2>7. Childless(p)
    BY <1>1, <1>4, NotReading DEF Childless
  <2>8. Shape' /\ Requests'
    BY <1>1, <1>2, <2>5, <2>6, <2>7, GoesOnStep DEF Childless
  <2>9. Data'
    BY <1>1, <1>3 DEF Data, effects, counts
  <2>10. ReadKind(p)
    BY <1>2, <1>3, <1>4, <2>6, <2>7 DEF ReadKind, At
  <2> QED
    BY <2>6, <2>8, <2>9, <2>10, InvPartsPrimed DEF Kinds
<1>5. CASE Die(p)
  <2>1. UNCHANGED <<effects, accepted, execfaults>> /\ NoFault
    BY <1>3 DEF counts, NoFault
  <2>2. /\ ProcessInv' /\ Died(p) /\ Servers' = Servers \ {p}
        /\ \A q \in Pids : q = p \/ q \in Zombies(p) \/ q \in Rest(p)
    BY <1>2, <1>5, <2>1, DieStep
  <2>3. DieKind(p)
    BY <1>2, <1>3, <2>1, <2>2 DEF DieKind
  <2> QED
    BY <2>2, <2>3 DEF Kinds
<1> QED
  BY <1>4, <1>5 DEF UrlRead

\* store_fileinfo_to_mysql.
LEMMA StoreStep ==
  ASSUME ProcessInv, NEW p \in Pids, Store(p)
  PROVE  ProcessInv' /\ Kinds
<1>1. Typed /\ Shape /\ Requests /\ Data
  BY InvParts
<1>2. p \in Servers /\ proc[p].req # 0 /\ At(p, "store")
  BY <1>1, ServerFacts DEF Store, At, ServerStates
<1>3. Childless(p)
  BY <1>1, <1>2, NotReading DEF Childless, At, ReadStates
<1>4. UNCHANGED <<storage, accepted, execfaults>>
  BY DEF Store
<1>5. [req |-> proc[p].req, file_id |-> proc[p].fileid, url |-> proc[p].url] \in Row
  <2>1. proc[p] \in Process
    BY <1>1 DEF Typed
  <2>2. proc[p].req \in 1..MaxRequests
    BY <1>2, <2>1 DEF Process
  <2> QED
    BY <2>1, <2>2 DEF Process, Row
<1>6. PICK code \in {"008", "009"} :
        /\ \/ code = "009" /\ UNCHANGED rows
           \/ /\ code = "008"
              /\ rows' = Append(rows, [req |-> proc[p].req, file_id |-> proc[p].fileid,
                                       url |-> proc[p].url])
        /\ NoFault \/ Fault
        /\ Finish(p, code)
  BY Zenon DEF Store
<1>7. rows' \in Seq(Row)
  <2>1. rows \in Seq(Row)
    BY <1>1 DEF Data
  <2> QED
    BY <1>5, <1>6, <2>1
<1>8. /\ ProcessInv' /\ Same({p})
      /\ Becomes(p, "accept", proc[p].pipe, 0, NoFile, NoFile)
  BY <1>2, <1>3, <1>4, <1>6, <1>7, FinishStep DEF Childless
<1>9. AnswerKind(p, code)
  BY <1>2, <1>3, <1>4, <1>6, <1>8 DEF AnswerKind, Finish
<1> QED
  BY <1>8, <1>9 DEF Kinds

\* A client exits, a server is killed.
LEMMA EndStep ==
  ASSUME ProcessInv, NEW p \in Pids, Exit(p) \/ Kill(p)
  PROVE  ProcessInv' /\ Kinds
<1>1. /\ proc[p].at \in ServerStates \cup {"exiting"} /\ Die(p)
      /\ UNCHANGED <<effects, accepted, execfaults>> /\ (NoFault \/ Fault)
      /\ proc[p].at = "exiting" \/ (p \in Servers /\ Fault)
  <2>1. CASE Exit(p)
    BY <2>1 DEF Exit, At, counts, NoFault
  <2>2. CASE Kill(p)
    BY <2>2 DEF Kill, Servers
  <2> QED
    BY <2>1, <2>2
<1>2. /\ ProcessInv' /\ Died(p) /\ Servers' = Servers \ {p}
      /\ \A q \in Pids : q = p \/ q \in Zombies(p) \/ q \in Rest(p)
  BY <1>1, DieStep
<1>3. DieKind(p)
  BY <1>1, <1>2 DEF DieKind
<1> QED
  BY <1>2, <1>3 DEF Kinds

\* Every step keeps types, families and pipes, and is of one of the kinds.
LEMMA ProcessStep == ProcessInv /\ [Next]_pvars => ProcessInv' /\ Kinds
<1> SUFFICES ASSUME ProcessInv, [Next]_pvars PROVE ProcessInv' /\ Kinds
  OBVIOUS
<1>1. ASSUME NEW p \in Pids, Accept(p) \/ Step(p) \/ Kill(p)
      PROVE  ProcessInv' /\ Kinds
  <2>1. CASE Accept(p)
    BY <2>1, AcceptStep
  <2>2. CASE UploadFork(p) \/ UrlFork(p)
    BY <2>2, ForkStep
  <2>3. CASE UploadExec(p) \/ UrlExec(p)
    BY <2>3, ExecStep
  <2>4. CASE UploadClient(p) \/ UrlClient(p)
    BY <2>4, ClientStep
  <2>5. CASE UploadRead(p)
    BY <2>5, UploadReadStep
  <2>6. CASE UploadWait(p)
    BY <2>6, UploadWaitStep
  <2>7. CASE UrlRead(p)
    BY <2>7, UrlReadStep
  <2>8. CASE Store(p)
    BY <2>8, StoreStep
  <2>9. CASE Exit(p) \/ Kill(p)
    BY <2>9, EndStep
  <2> QED
    BY <1>1, <2>1, <2>2, <2>3, <2>4, <2>5, <2>6, <2>7, <2>8, <2>9 DEF Step
<1>2. CASE UNCHANGED pvars
  <2>1. Typed /\ Shape /\ Requests /\ Data
    BY InvParts
  <2>2. /\ UNCHANGED <<proc, storage, rows, answers, accepted, execfaults, faults>>
    BY <1>2 DEF pvars, effects, counts
  <2>3. Typed' /\ Requests' /\ Data'
    BY <2>1, <2>2 DEF Typed, Requests, Servers, At, Data
  <2>4. Shape'
    BY <2>1, <2>2 DEF Shape, OwnBuffers, Families, IdsRead, Working, Servers
  <2> QED
    BY <1>2, <2>3, <2>4, InvPartsPrimed DEF Kinds
<1> QED
  BY <1>1, <1>2 DEF Next, Idle

\* One process accepts, nobody else is there.
LEMMA ProcessInit == Init => ProcessInv
<1> SUFFICES ASSUME Init PROVE ProcessInv
  OBVIOUS
<1>1. Nobody \in Process /\ [Nobody EXCEPT !.at = "accept"] \in Process
  BY ProcessAssumption DEF Nobody, Process, ServerStates
<1>2. Typed
  BY <1>1, ProcessAssumption DEF Init, Typed
<1>3. \A p \in Pids :
        /\ proc[p].at = IF p = First THEN "accept" ELSE "free"
        /\ proc[p].parent = NoPid /\ proc[p].out = NoPid /\ proc[p].req = 0
  BY DEF Init, Nobody
<1>4. Shape
  BY <1>3, ProcessAssumption
  DEF Shape, OwnBuffers, Families, IdsRead, ExecStates, Printing
<1>5. Requests
  BY <1>3 DEF Requests, Servers, At, ServerStates
<1>6. Data
  BY ProcessAssumption DEF Init, Data
<1> QED
  BY <1>2, <1>4, <1>5, <1>6, InvParts

\* Types, families and pipes hold in every state.
LEMMA ProcessInvariant == Spec => []ProcessInv
BY ProcessInit, ProcessStep, PTL DEF Spec

\* The processes of cgi_upload have their types: servers alone work on a
\* request, and what upload_to_dstorage reads into fileid is a file id.
THEOREM ProcessTypeCorrect == Spec => []ProcessTypeOK
<1>1. ProcessInv => ProcessTypeOK
  BY DEF ProcessInv
<1> QED
  BY <1>1, ProcessInvariant, PTL

------------------------------------------------------------------------------
(* A request is recorded once *)

BearerInv == OneBearer /\ RecordedOnce

\* A step that makes nobody a bearer and records nothing.
LEMMA NoNewBearer ==
  ASSUME ProcessInv, BearerInv, UNCHANGED <<rows, accepted>>,
         \A q \in Pids : proc'[q].req = 0 \/ proc'[q].req = proc[q].req,
         \A q \in Pids : Bearer(q)' => Bearer(q) /\ proc'[q].req = proc[q].req
  PROVE  BearerInv'
<1>1. accepted \in Nat
  BY InvParts DEF Data
<1> QED
  BY <1>1 DEF BearerInv, OneBearer, RecordedOnce

\* Accepting makes a bearer of a request that nobody has.
LEMMA AcceptBears ==
  ASSUME ProcessInv, BearerInv, NEW p \in Pids, AcceptKind(p)
  PROVE  BearerInv'
<1>1. /\ accepted \in Nat /\ accepted' = accepted + 1 /\ UNCHANGED rows
      /\ rows \in Seq(Row)
  BY InvParts DEF Data, AcceptKind, effects
<1>2. \A q \in Pids : q # p => proc'[q] = proc[q]
  BY DEF AcceptKind, Same
<1>3. /\ proc'[p].req = accepted + 1 /\ proc'[p].out = proc[p].out
      /\ proc[p].at = "accept" /\ proc'[p].at = "up_fork"
  BY DEF AcceptKind, Becomes, At
<1>4. \A q \in Pids : q # p /\ Bearer(q)' => Bearer(q)
  BY <1>2, <1>3 DEF Bearer, Printing
<1>5. \A q \in Pids : proc[q].req \in Nat /\ proc[q].req <= accepted
  BY InvParts DEF Typed, Process, BearerInv, OneBearer
<1>6. \A i \in 1..Len(rows) : rows[i].req \in Nat /\ rows[i].req <= accepted
  <2>1. \A i \in 1..Len(rows) : rows[i] \in Row
    BY <1>1
  <2> QED
    BY <2>1 DEF Row, BearerInv, OneBearer
<1>7. \A q \in Pids : proc'[q].req <= accepted'
  BY <1>1, <1>2, <1>3, <1>5
<1>8. \A i \in 1..Len(rows') : rows'[i].req <= accepted'
  BY <1>1, <1>6
<1>9. \A q, d \in Pids :
        Bearer(q)' /\ Bearer(d)' /\ proc'[q].req = proc'[d].req => q = d
  BY <1>1, <1>2, <1>3, <1>4, <1>5 DEF BearerInv, OneBearer
<1>10. \A q \in Pids, i \in 1..Len(rows') : Bearer(q)' => rows'[i].req # proc'[q].req
  BY <1>1, <1>2, <1>3, <1>4, <1>6 DEF BearerInv, OneBearer
<1>11. RecordedOnce'
  BY <1>1 DEF BearerInv, RecordedOnce
<1> QED
  BY <1>7, <1>8, <1>9, <1>10, <1>11 DEF BearerInv, OneBearer

\* A fork hands the request to the child, execlp hands it back.
LEMMA HandedOver ==
  ASSUME ProcessInv, BearerInv, UNCHANGED <<rows, accepted>>,
         NEW p \in Pids, NEW c \in Pids, Bearer(p), proc'[c].req = proc[p].req,
         ~Bearer(p)',
         \A q \in Pids : \/ proc'[q].req = 0 \/ proc'[q].req = proc[q].req
                         \/ proc'[q].req = proc[p].req,
         \A q \in Pids : q # c /\ Bearer(q)' => Bearer(q) /\ proc'[q].req = proc[q].req
  PROVE  BearerInv'
<1>1. accepted \in Nat
  BY InvParts DEF Data
<1>2. \A q \in Pids : proc'[q].req <= accepted'
  BY <1>1 DEF BearerInv, OneBearer
<1>3. \A i \in 1..Len(rows') : rows'[i].req <= accepted'
  BY DEF BearerInv, OneBearer
<1>4. \A q \in Pids : q # c /\ Bearer(q)' => proc'[q].req # proc'[c].req
  BY DEF BearerInv, OneBearer
<1>5. \A q, d \in Pids :
        Bearer(q)' /\ Bearer(d)' /\ proc'[q].req = proc'[d].req => q = d
  BY <1>4 DEF BearerInv, OneBearer
<1>6. \A q \in Pids, i \in 1..Len(rows') : Bearer(q)' => rows'[i].req # proc'[q].req
  BY DEF BearerInv, OneBearer
<1>7. RecordedOnce'
  BY DEF BearerInv, RecordedOnce
<1> QED
  BY <1>2, <1>3, <1>5, <1>6, <1>7 DEF BearerInv, OneBearer

\* fork.
LEMMA ForkBears ==
  ASSUME ProcessInv, BearerInv, NEW p \in Pids, NEW c \in Pids, ForkKind(p, c)
  PROVE  BearerInv'
<1>1. /\ p \in Servers /\ proc[c].at = "free" /\ c # p
      /\ proc[p].at \in {"up_fork", "url_fork"} /\ UNCHANGED <<rows, accepted>>
  BY DEF ForkKind, Free, Servers, At, ServerStates, effects, counts
<1>2. proc[p].req # 0
  BY <1>1, InvParts DEF Requests, At
<1>3. /\ \A q \in Pids : q # p /\ q # c => proc'[q] = proc[q]
      /\ proc'[c].at \in ExecStates /\ proc'[c].req = proc[p].req
      /\ proc'[p].at \in ReadStates /\ proc'[p].pipe = "empty" /\ proc'[p].req = proc[p].req
      /\ proc'[p].out = proc[p].out
  BY DEF ForkKind, Forked, Same, Becomes, ExecStates, ReadStates
<1>4. \A d \in Pids : proc'[d].at \in Printing =>
        proc[d].at \in Printing /\ proc'[d].out = proc[d].out
  BY <1>1, <1>3 DEF Printing, ExecStates, ReadStates
<1>5. \A d \in Pids : proc[d].out = p => proc[d].at \notin Printing
  BY DEF ForkKind, Childless, Working
<1>6. Bearer(p) /\ ~Bearer(p)'
  BY <1>1, <1>2, <1>3, <1>4, <1>5 DEF Bearer, ReadStates
<1>7. \A q \in Pids : q # c /\ Bearer(q)' => Bearer(q) /\ proc'[q].req = proc[q].req
  BY <1>3, <1>4, <1>6 DEF Bearer
<1>8. \A q \in Pids : proc'[q].req = proc[q].req \/ proc'[q].req = proc[p].req
  BY <1>3
<1> QED
  BY <1>1, <1>3, <1>6, <1>7, <1>8, HandedOver

\* A successful execlp.
LEMMA ClientBears ==
  ASSUME ProcessInv, BearerInv, NEW c \in Pids, ClientKind(c)
  PROVE  BearerInv'
<1>1. Typed /\ Shape
  BY InvParts
<1>2. /\ proc[c].at \in ExecStates /\ proc[c].at \notin Printing /\ UNCHANGED <<rows, accepted>>
      /\ proc'[c].req = 0 /\ proc'[c].out = proc[c].out
      /\ \A q \in Pids : q # c => proc'[q] = proc[q]
  BY DEF ClientKind, At, ExecStates, Printing, effects, counts, Same, Becomes
<1>3. proc[c].req # 0 /\ Bearer(c) /\ ~Bearer(c)'
  BY <1>1, <1>2 DEF Shape, OwnBuffers, Bearer, ExecStates, ReadStates
<1>4. \A q \in Pids : q # proc[c].out /\ Bearer(q)' => Bearer(q) /\ proc'[q].req = proc[q].req
  BY <1>2, <1>3 DEF Bearer
<1>5. \A q \in Pids : proc'[q].req = 0 \/ proc'[q].req = proc[q].req
  BY <1>2
<1>6. CASE proc[c].out \in Pids
  <2>1. proc[proc[c].out].req = proc[c].req /\ proc[c].out # c
    BY <1>1, <1>2, <1>6
    DEF Shape, Families, OwnBuffers, Working, Servers, ExecStates, ServerStates
  <2>2. proc'[proc[c].out].req = proc[c].req
    BY <1>2, <1>6, <2>1
  <2> QED
    BY <1>2, <1>3, <1>4, <1>5, <1>6, <2>2, HandedOver
<1>7. CASE proc[c].out \notin Pids
  BY <1>2, <1>4, <1>5, <1>7, NoNewBearer
<1> QED
  BY <1>6, <1>7

\* A failed execlp, a read, a wait: whoever goes on had the request.
LEMMA OthersBear ==
  ASSUME ProcessInv, BearerInv, NEW p \in Pids, NEW c \in Pids,
         FailKind(p) \/ ReadKind(p) \/ WaitKind(p, c)
  PROVE  BearerInv'
<1>1. Typed /\ Shape /\ Requests
  BY InvParts
<1>2. UNCHANGED <<rows, accepted>>
  BY DEF FailKind, ReadKind, WaitKind, effects, counts
<1>3. CASE FailKind(p)
  <2>1. /\ proc[p].at \in ExecStates /\ proc'[p].req = proc[p].req
        /\ proc'[p].out = proc[p].out /\ proc'[p].at \notin Printing
        /\ \A q \in Pids : q # p => proc'[q] = proc[q]
    BY <1>3 DEF FailKind, Same, Becomes, Printing
  <2>2. Bearer(p)
    BY <1>1, <2>1 DEF Shape, OwnBuffers, Bearer, ExecStates, ReadStates
  <2>3. \A q \in Pids : Bearer(q)' => Bearer(q) /\ proc'[q].req = proc[q].req
    BY <2>1, <2>2 DEF Bearer
  <2> QED
    BY <1>2, <2>1, <2>3, NoNewBearer
<1>4. CASE ReadKind(p)
  <2>1. /\ p \in Servers /\ proc[p].at # "accept" /\ proc[p].pipe # "empty"
        /\ proc'[p].req = proc[p].req
        /\ proc'[p].out = proc[p].out /\ proc'[p].at \notin Printing
        /\ \A q \in Pids : q # p => proc'[q] = proc[q]
    BY <1>4 DEF ReadKind, Same, Becomes, Printing, At
  <2>2. Bearer(p)
    BY <1>1, <2>1 DEF Requests, Bearer, At
  <2>3. \A q \in Pids : Bearer(q)' => Bearer(q) /\ proc'[q].req = proc[q].req
    BY <2>1, <2>2 DEF Bearer
  <2> QED
    BY <1>2, <2>1, <2>3, NoNewBearer
<1>5. CASE WaitKind(p, c)
  <2>1. /\ p \in Servers /\ proc[p].at = "up_wait" /\ proc'[p].req = proc[p].req
        /\ proc'[p].out = proc[p].out /\ proc'[p].at \notin Printing
        /\ proc'[c].at = "free" /\ proc'[c].req = 0
        /\ \A q \in Pids : q # p /\ q # c => proc'[q] = proc[q]
    BY <1>5 DEF WaitKind, Same, Becomes, Printing, At, Nobody
  <2>2. Bearer(p)
    BY <1>1, <2>1 DEF Requests, Bearer, At, ReadStates
  <2>3. \A q \in Pids : Bearer(q)' => Bearer(q) /\ proc'[q].req = proc[q].req
    BY <2>1, <2>2 DEF Bearer, Printing
  <2> QED
    BY <1>2, <2>1, <2>3, NoNewBearer
<1> QED
  BY <1>3, <1>4, <1>5

\* A client's output makes nobody a bearer who was not waiting for it.
LEMMA PrintBears ==
  ASSUME ProcessInv, BearerInv, NEW c \in Pids,
         NEW text \in FileIds \cup {"empty", "address", "message"}, PrintKind(c, text)
  PROVE  BearerInv'
<1>1. Shape
  BY InvParts
<1>2. UNCHANGED <<rows, accepted>> /\ proc[c].at \in Printing /\ proc[c].req = 0
  BY <1>1 DEF PrintKind, Shape, OwnBuffers
<1>3. /\ proc'[c].at = "exiting" /\ proc'[c].req = 0
      /\ \A q \in Pids : q # c /\ q # proc[c].out => proc'[q] = proc[q]
      /\ \A q \in Pids : q = proc[c].out =>
           proc'[q].at = proc[q].at /\ proc'[q].req = proc[q].req /\ proc'[q].out = proc[q].out
  BY <1>2 DEF PrintKind, Printed, Same, Becomes
<1>4. \A d \in Pids : proc'[d].at \in Printing =>
        proc[d].at \in Printing /\ proc'[d].out = proc[d].out
  BY <1>3 DEF Printing
<1>5. \A q \in Pids : q = proc[c].out /\ proc[q].req # 0 => Bearer(q)
  BY <1>2 DEF Bearer
<1>6. \A q \in Pids : Bearer(q)' => Bearer(q) /\ proc'[q].req = proc[q].req
  <2> SUFFICES ASSUME NEW q \in Pids, Bearer(q)'
               PROVE  Bearer(q) /\ proc'[q].req = proc[q].req
    OBVIOUS
  <2>1. q # c
    BY <1>3 DEF Bearer
  <2>2. CASE q = proc[c].out
    BY <1>3, <1>5, <2>2 DEF Bearer
  <2>3. CASE q # proc[c].out
    BY <1>3, <1>4, <2>1, <2>3 DEF Bearer
  <2> QED
    BY <2>2, <2>3
<1>7. \A q \in Pids : proc'[q].req = 0 \/ proc'[q].req = proc[q].req
  BY <1>3
<1> QED
  BY <1>2, <1>6, <1>7, NoNewBearer

\* A death makes no bearer: whoever waited for the dead reads an empty pipe.
LEMMA DieBears ==
  ASSUME ProcessInv, BearerInv, NEW p \in Pids, DieKind(p)
  PROVE  BearerInv'
<1>1. Died(p) /\ UNCHANGED <<rows, accepted>>
  BY DEF DieKind, effects
<1>2. \A q \in Pids : q = p \/ q \in Zombies(p) \/ q \in Rest(p)
  BY DEF DieKind
<1>3. proc'[p].req = 0 /\ proc'[p].at \in {"free", "zombie"}
  BY <1>1 DEF Died
<1>4. \A q \in Zombies(p) : proc'[q].req = 0 /\ proc'[q].at = "free"
  BY <1>1 DEF Died, Nobody
<1>5. \A q \in Rest(p) : /\ proc'[q].at = proc[q].at /\ proc'[q].pipe = proc[q].pipe
                         /\ proc'[q].req = proc[q].req
                         /\ proc'[q].out = NoPid \/ proc'[q].out = proc[q].out
  BY <1>1 DEF Died
<1>6. \A d \in Pids : proc'[d].at \in Printing => proc[d].at \in Printing /\ d \in Rest(p)
  BY <1>2, <1>3, <1>4, <1>5 DEF Printing
<1>7. \A q \in Pids : Bearer(q)' => Bearer(q) /\ proc'[q].req = proc[q].req
  <2> SUFFICES ASSUME NEW q \in Pids, Bearer(q)'
               PROVE  Bearer(q) /\ proc'[q].req = proc[q].req
    OBVIOUS
  <2>1. q \in Rest(p)
    BY <1>2, <1>3, <1>4 DEF Bearer
  <2>2. ASSUME NEW d \in Pids, proc'[d].out = q, proc'[d].at \in Printing
        PROVE  proc[d].out = q /\ proc[d].at \in Printing
    BY <1>5, <1>6, <2>2, ProcessAssumption
  <2> QED
    BY <1>5, <2>1, <2>2 DEF Bearer
<1>8. \A q \in Pids : proc'[q].req = 0 \/ proc'[q].req = proc[q].req
  BY <1>2, <1>3, <1>4, <1>5
<1> QED
  BY <1>1, <1>7, <1>8, NoNewBearer

\* The bearer that records its request ceases to be one.
LEMMA AnswerBears ==
  ASSUME ProcessInv, BearerInv, NEW p \in Pids, NEW code, AnswerKind(p, code)
  PROVE  BearerInv'
<1>1. Typed /\ Shape /\ Requests /\ Data
  BY InvParts
<1>2. /\ proc'[p].req = 0 /\ proc'[p].at = "accept" /\ proc'[p].out = proc[p].out
      /\ proc[p].req # 0 /\ UNCHANGED accepted
      /\ \A q \in Pids : q # p => proc'[q] = proc[q]
  BY DEF AnswerKind, Same, Becomes
<1>3. \A q \in Pids : Bearer(q)' => q # p /\ Bearer(q) /\ proc'[q].req = proc[q].req
  BY <1>2 DEF Bearer, Printing
<1>4. \A q \in Pids : proc'[q].req = 0 \/ proc'[q].req = proc[q].req
  BY <1>2
<1>5. CASE UNCHANGED rows
  BY <1>2, <1>3, <1>4, <1>5, NoNewBearer
<1>6. CASE /\ At(p, "store")
           /\ rows' = Append(rows, [req |-> proc[p].req, file_id |-> proc[p].fileid,
                                    url |-> proc[p].url])
  <2>1. Bearer(p)
    BY <1>2, <1>6 DEF Bearer, At, ReadStates
  <2>2. rows \in Seq(Row) /\ accepted \in Nat
    BY <1>1 DEF Data
  <2>3. /\ Len(rows') = Len(rows) + 1 /\ Len(rows) \in Nat
        /\ \A i \in 1..Len(rows) : rows'[i] = rows[i]
        /\ rows'[Len(rows) + 1].req = proc[p].req
    BY <1>6, <2>2
  <2>4. \A i \in 1..Len(rows') : i \in 1..Len(rows) \/ i = Len(rows) + 1
    BY <2>3
  <2>5. \A i \in 1..Len(rows) : rows[i].req # proc[p].req
    BY <2>1 DEF BearerInv, OneBearer
  <2>6. RecordedOnce'
    BY <2>3, <2>4, <2>5 DEF BearerInv, RecordedOnce
  <2>7. \A q \in Pids : proc'[q].req <= accepted'
    BY <1>2, <1>4, <2>2 DEF BearerInv, OneBearer
  <2>8. \A i \in 1..Len(rows') : rows'[i].req <= accepted'
    BY <1>2, <2>3, <2>4 DEF BearerInv, OneBearer
  <2>9. \A q, d \in Pids :
          Bearer(q)' /\ Bearer(d)' /\ proc'[q].req = proc'[d].req => q = d
    BY <1>3 DEF BearerInv, OneBearer
  <2>10. \A q \in Pids : Bearer(q)' => proc'[q].req # proc[p].req
    BY <1>3, <2>1 DEF BearerInv, OneBearer
  <2>11. \A q \in Pids, i \in 1..Len(rows') : Bearer(q)' => rows'[i].req # proc'[q].req
    BY <1>3, <2>3, <2>4, <2>10 DEF BearerInv, OneBearer
  <2> QED
    BY <2>6, <2>7, <2>8, <2>9, <2>11 DEF BearerInv, OneBearer
<1> QED
  BY <1>5, <1>6 DEF AnswerKind

\* A request has one bearer, and none once it is recorded, in every state.
LEMMA BearerInvariant == Spec => []BearerInv
<1>1. Init => BearerInv
  <2> SUFFICES ASSUME Init PROVE BearerInv
    OBVIOUS
  <2>1. \A p \in Pids : proc[p].req = 0
    BY DEF Init, Nobody
  <2>2. rows = <<>> /\ accepted = 0
    BY DEF Init
  <2> QED
    BY <2>1, <2>2 DEF BearerInv, OneBearer, RecordedOnce, Bearer
<1>2. ProcessInv /\ BearerInv /\ [Next]_pvars => BearerInv'
  <2> SUFFICES ASSUME ProcessInv, BearerInv, Kinds PROVE BearerInv'
    BY ProcessStep
  <2>1. ASSUME NEW p \in Pids, AcceptKind(p) \/ ReadKind(p) \/ DieKind(p) PROVE BearerInv'
    BY <2>1, AcceptBears, OthersBear, DieBears
  <2>2. ASSUME NEW p \in Pids, NEW c \in Pids, ForkKind(p, c) \/ WaitKind(p, c)
        PROVE  BearerInv'
    BY <2>2, ForkBears, OthersBear
  <2>3. ASSUME NEW p \in Pids, NEW code \in {"008", "009"}, AnswerKind(p, code)
        PROVE  BearerInv'
    BY <2>3, AnswerBears
  <2>4. ASSUME NEW c \in Pids, ClientKind(c) \/ FailKind(c) PROVE BearerInv'
    BY <2>4, ClientBears, OthersBear
  <2>5. ASSUME NEW c \in Pids, NEW text \in FileIds \cup {"empty", "address", "message"},
               PrintKind(c, text)
        PROVE  BearerInv'
    BY <2>5, PrintBears
  <2>6. CASE UNCHANGED pvars
    BY <2>6 DEF pvars, effects, counts, BearerInv, OneBearer, RecordedOnce, Bearer
  <2> QED
    BY <2>1, <2>2, <2>3, <2>4, <2>5, <2>6, Zenon DEF Kinds
<1> QED
  BY <1>1, <1>2, ProcessInvariant, PTL DEF Spec

\* A request reaches file_info at most once, whichever process of a fork goes
\* on with it, and whatever fails or is killed.
THEOREM RequestsRecordedOnce == Spec => []RecordedOnce
<1>1. BearerInv => RecordedOnce
  BY DEF BearerInv
<1> QED
  BY <1>1, BearerInvariant, PTL

------------------------------------------------------------------------------
(* One process is at work *)

Kin(c) == proc[c].at \in ServerStates \cup ExecStates
OneLast == \A p, q \in Pids : Hindmost(p) /\ Hindmost(q) => p = q
OneServer ==
  \A p \in Servers :
    /\ \A q \in Servers : p = q
    /\ \A c \in Pids : proc[c].at \in ExecStates => proc[c].out = p
TwoServers == \A p, q \in Servers : p = q \/ proc[p].out = q \/ proc[q].out = p

\* The invariant by its parts.
LEMMA ChainParts ==
  /\ Chain <=> /\ faults = 0 => OneLast
               /\ execfaults = 0 => OneServer
               /\ execfaults <= 1 => TwoServers
  /\ Chain' <=> /\ faults' = 0 => OneLast'
                /\ execfaults' = 0 => OneServer'
                /\ execfaults' <= 1 => TwoServers'
BY DEF Chain, OneLast, OneServer, TwoServers

\* Who has no child of its kind.
LEMMA HindmostDef ==
  /\ \A p \in Pids :
       Hindmost(p) <=> Kin(p) /\ \A c \in Pids : proc[c].out = p => ~Kin(c)
  /\ \A p \in Pids :
       Hindmost(p)' <=> Kin(p)' /\ \A c \in Pids : proc'[c].out = p => ~Kin(c)'
BY DEF Hindmost, Kin

\* A step that changes nobody's kind and no pipe's end.
LEMMA SameKin ==
  ASSUME \A c \in Pids : Kin(c)' = Kin(c),
         \A c \in Pids : Kin(c) => proc'[c].out = proc[c].out
  PROVE  OneLast => OneLast'
<1>1. \A p \in Pids : Hindmost(p)' => Hindmost(p)
  BY HindmostDef
<1> QED
  BY <1>1 DEF OneLast

\* The last of the chain hands over to o.
LEMMA NewLast ==
  ASSUME NEW p \in Pids, Hindmost(p), NEW o,
         \A q \in Pids : Hindmost(q)' /\ q # o => Hindmost(q) /\ q # p
  PROVE  OneLast => OneLast'
BY DEF OneLast

\* A step that leaves the servers.
LEMMA SameServers ==
  ASSUME Servers' = Servers, \A q \in Servers : proc'[q].out = proc[q].out,
         \A c \in Pids : proc'[c].at \in ExecStates =>
           \/ proc[c].at \in ExecStates /\ proc'[c].out = proc[c].out
           \/ proc'[c].out \in Servers
  PROVE  (OneServer => OneServer') /\ (TwoServers => TwoServers')
<1>1. OneServer => OneServer'
  BY DEF OneServer
<1>2. TwoServers => TwoServers'
  BY DEF TwoServers
<1> QED
  BY <1>1, <1>2

\* A server goes on: accept, an answer, a read, a wait.
LEMMA GoesOnChain ==
  ASSUME ProcessInv, Chain, NEW p \in Servers, NEW c \in Pids, proc[c].at = "zombie" \/ c = p,
         c # p => proc'[c].at = "free", Same({p, c}), proc'[p].at \in ServerStates,
         proc'[p].out = proc[p].out, UNCHANGED execfaults, faults' = 0 => faults = 0
  PROVE  Chain'
<1>1. p \in Pids /\ proc[p].at \in ServerStates
  BY DEF Servers
<1>2. /\ \A q \in Pids : q # p /\ q # c => proc'[q] = proc[q]
      /\ c # p => proc'[c].at = "free" /\ proc[c].at = "zombie"
  BY DEF Same
<1>3. \A q \in Pids : Kin(q)' = Kin(q) /\ (Kin(q) => proc'[q].out = proc[q].out)
  BY <1>1, <1>2 DEF Kin, ServerStates, ExecStates
<1>4. \A q \in Pids : proc'[q].at \in ServerStates <=> proc[q].at \in ServerStates
  BY <1>1, <1>2 DEF ServerStates
<1>5. Servers' = Servers /\ \A q \in Servers : proc'[q].out = proc[q].out
  BY <1>3, <1>4 DEF Servers, Kin
<1>6. \A d \in Pids : proc'[d].at \in ExecStates =>
        proc[d].at \in ExecStates /\ proc'[d].out = proc[d].out
  BY <1>1, <1>2 DEF ServerStates, ExecStates
<1> QED
  BY <1>3, <1>5, <1>6, SameKin, SameServers, ChainParts

\* fork: the child is the last of the chain.
LEMMA ForkChain ==
  ASSUME ProcessInv, Chain, NEW p \in Pids, NEW c \in Pids, ForkKind(p, c)
  PROVE  Chain'
<1>1. Shape
  BY InvParts
<1>2. /\ p \in Servers /\ proc[p].at \in ServerStates /\ proc[c].at = "free" /\ c # p
      /\ UNCHANGED <<execfaults, faults>>
  BY DEF ForkKind, Free, Servers, At, ServerStates, counts
<1>3. /\ \A q \in Pids : q # p /\ q # c => proc'[q] = proc[q]
      /\ proc'[c].at \in ExecStates /\ proc'[c].out = p
      /\ proc'[p].at \in ServerStates /\ proc'[p].out = proc[p].out
  BY DEF ForkKind, Forked, Same, Becomes, ExecStates, ServerStates
<1>4. Hindmost(p)
  BY <1>2, HindmostDef DEF ForkKind, Childless, Working, Kin
<1>5. \A q \in Pids : Hindmost(q)' /\ q # c => Hindmost(q) /\ q # p
  <2>1. \A q \in Pids : q # c => Kin(q)' = Kin(q) /\ proc'[q].out = proc[q].out
    BY <1>2, <1>3 DEF Kin
  <2>2. Kin(c)' /\ ~Kin(c)
    BY <1>2, <1>3 DEF Kin, ServerStates, ExecStates
  <2> QED
    BY <1>3, <2>1, <2>2, HindmostDef
<1>6. Servers' = Servers
  BY <1>2, <1>3 DEF Servers, ServerStates, ExecStates
<1>7. \A q \in Servers : proc'[q].out = proc[q].out
  BY <1>2, <1>3 DEF Servers, ServerStates
<1>8. \A d \in Pids : proc'[d].at \in ExecStates =>
        \/ proc[d].at \in ExecStates /\ proc'[d].out = proc[d].out
        \/ proc'[d].out \in Servers
  BY <1>2, <1>3 DEF ServerStates, ExecStates
<1> QED
  BY <1>2, <1>4, <1>5, <1>6, <1>7, <1>8, NewLast, SameServers, ChainParts

\* execlp, which works: the parent is the last of the chain.
LEMMA ClientChain ==
  ASSUME ProcessInv, Chain, NEW c \in Pids, ClientKind(c)
  PROVE  Chain'
<1>1. Shape
  BY InvParts
<1>2. /\ proc[c].at \in ExecStates /\ proc'[c].at \in Printing
      /\ proc'[c].out = proc[c].out /\ UNCHANGED <<execfaults, faults>>
      /\ \A q \in Pids : q # c => proc'[q] = proc[q]
  BY DEF ClientKind, At, ExecStates, Printing, counts, Same, Becomes
<1>3. \A q \in Pids : proc[q].out # c
  BY <1>1, <1>2, ProcessAssumption DEF Shape, OwnBuffers, Servers, ServerStates, ExecStates
<1>4. Hindmost(c)
  BY <1>2, <1>3, HindmostDef DEF Kin
<1>5. \A q \in Pids : Hindmost(q)' /\ q # proc[c].out => Hindmost(q) /\ q # c
  <2>1. ~Kin(c)' /\ \A q \in Pids : q # c => Kin(q)' = Kin(q) /\ proc'[q].out = proc[q].out
    BY <1>2 DEF Kin, Printing, ServerStates, ExecStates
  <2> QED
    BY <2>1, HindmostDef
<1>6. Servers' = Servers
  BY <1>2 DEF Servers, ServerStates, ExecStates, Printing
<1>7. \A q \in Servers : proc'[q].out = proc[q].out
  BY <1>2 DEF Servers
<1>8. \A d \in Pids : proc'[d].at \in ExecStates =>
        proc[d].at \in ExecStates /\ proc'[d].out = proc[d].out
  BY <1>2
<1> QED
  BY <1>2, <1>4, <1>5, <1>6, <1>7, <1>8, NewLast, SameServers, ChainParts

\* execlp, which fails: the child is a second server, that its parent waits for.
LEMMA FailChain ==
  ASSUME ProcessInv, Chain, NEW c \in Pids, FailKind(c)
  PROVE  Chain'
<1>1. execfaults \in Nat /\ execfaults' = execfaults + 1 /\ UNCHANGED faults
  BY InvParts DEF Data, FailKind
<1>2. /\ proc[c].at \in ExecStates /\ proc'[c].at \in ServerStates
      /\ proc'[c].out = proc[c].out
      /\ \A q \in Pids : q # c => proc'[q] = proc[q]
  BY DEF FailKind, Same, Becomes, ServerStates
<1>3. \A q \in Pids : Kin(q)' = Kin(q) /\ proc'[q].out = proc[q].out
  BY <1>2 DEF Kin
<1>4. OneLast => OneLast'
  BY <1>3, SameKin
<1>5. OneServer => TwoServers'
  BY <1>2 DEF OneServer, TwoServers, Servers, ServerStates, ExecStates
<1> QED
  BY <1>1, <1>4, <1>5, ChainParts

\* A print changes nobody of the chain.
LEMMA PrintChain ==
  ASSUME ProcessInv, Chain, NEW c \in Pids, NEW text, PrintKind(c, text)
  PROVE  Chain'
<1>1. /\ UNCHANGED execfaults /\ (faults' = 0 => faults = 0)
      /\ proc[c].at \in Printing /\ proc'[c].at = "exiting"
  BY InvParts, FaultType DEF PrintKind, Printed, Becomes, NoFault
<1>2. \A q \in Pids : q # c => proc'[q].at = proc[q].at /\ proc'[q].out = proc[q].out
  <2>1. \A q \in Pids : q # c /\ q # proc[c].out => proc'[q] = proc[q]
    BY DEF PrintKind, Printed, Same
  <2>2. \A q \in Pids : q = proc[c].out => proc'[q].at = proc[q].at /\ proc'[q].out = proc[q].out
    BY DEF PrintKind, Printed, Becomes
  <2> QED
    BY <2>1, <2>2
<1>3. \A q \in Pids : Kin(q)' = Kin(q) /\ (Kin(q) => proc'[q].out = proc[q].out)
  BY <1>1, <1>2 DEF Kin, Printing, ServerStates, ExecStates
<1>4. Servers' = Servers
  BY <1>1, <1>2 DEF Servers, Printing, ServerStates
<1>5. \A q \in Servers : proc'[q].out = proc[q].out
  BY <1>3 DEF Servers, Kin
<1>6. \A d \in Pids : proc'[d].at \in ExecStates =>
        proc[d].at \in ExecStates /\ proc'[d].out = proc[d].out
  BY <1>1, <1>2 DEF ExecStates
<1> QED
  BY <1>1, <1>3, <1>4, <1>5, <1>6, SameKin, SameServers, ChainParts

\* A death: only the last of the chain dies by itself, and then the process
\* that reads its output is the last.
LEMMA DieChain ==
  ASSUME ProcessInv, Chain, NEW p \in Pids, DieKind(p)
  PROVE  Chain'
<1>1. Shape /\ Data
  BY InvParts
<1>2. Died(p) /\ UNCHANGED execfaults /\ Servers' = Servers \ {p}
  BY DEF DieKind
<1>3. \A q \in Pids : q = p \/ q \in Zombies(p) \/ q \in Rest(p)
  BY DEF DieKind
<1>4. proc'[p].at \in {"free", "zombie"} /\ proc'[p].out = NoPid
  BY <1>2 DEF Died
<1>5. \A q \in Zombies(p) : q # p /\ proc[q].at = "zombie" /\ proc'[q].at = "free"
  BY <1>2 DEF Died, Nobody
<1>6. /\ \A q \in Rest(p) :
           /\ proc'[q].at = proc[q].at
           /\ proc'[q].out = IF proc[q].out = p THEN NoPid ELSE proc[q].out
      /\ p \notin Rest(p)
  BY <1>2 DEF Died, Rest
<1>7. /\ ~Kin(p)'
      /\ \A q \in Pids : q # p => Kin(q)' = Kin(q)
      /\ \A q \in Pids : q # p /\ Kin(q) =>
           proc'[q].out = IF proc[q].out = p THEN NoPid ELSE proc[q].out
  BY <1>3, <1>4, <1>5, <1>6 DEF Kin, ServerStates, ExecStates
<1>8. OneServer => OneServer'
  <2>1. \A c \in Pids : proc'[c].at \in ExecStates =>
          /\ proc[c].at \in ExecStates
          /\ proc'[c].out = IF proc[c].out = p THEN NoPid ELSE proc[c].out
    BY <1>3, <1>4, <1>5, <1>6 DEF ExecStates
  <2> QED
    BY <1>2, <2>1 DEF OneServer
<1>9. TwoServers => TwoServers'
  <2>1. \A q \in Servers' : proc'[q].out = IF proc[q].out = p THEN NoPid ELSE proc[q].out
    BY <1>2, <1>7 DEF Servers, Kin
  <2> QED
    BY <1>2, <2>1 DEF TwoServers
<1>10. ASSUME faults' = 0 PROVE faults = 0 /\ (OneLast => OneLast')
  <2>1. NoFault /\ ~Fault
    BY <1>1, <1>10, FaultType DEF DieKind, NoFault, Fault, Data
  <2>2. CASE proc[p].at = "exiting"
    <3>1. \A q \in Pids : proc[q].out # p
      BY <1>1, <2>2, ProcessAssumption DEF Shape, OwnBuffers, Servers, ServerStates
    <3>2. ~Kin(p)
      BY <2>2 DEF Kin, ServerStates, ExecStates
    <3>3. \A q \in Pids : Kin(q)' = Kin(q) /\ (Kin(q) => proc'[q].out = proc[q].out)
      BY <1>7, <3>1, <3>2 DEF Kin
    <3> QED
      BY <1>10, <2>1, <3>3, SameKin DEF NoFault
  <2>3. CASE proc[p].at = "url_read" /\ ~Blocked(p)
    <3>1. Childless(p)
      BY <1>1, <2>3, NotReading, Ended DEF Blocked, Childless
    <3>2. Hindmost(p)
      BY <2>3, <3>1, HindmostDef DEF Childless, Working, Kin, ServerStates
    <3>3. \A q \in Pids : Hindmost(q)' /\ q # proc[p].out => Hindmost(q) /\ q # p
      BY <1>7, HindmostDef, ProcessAssumption
    <3> QED
      BY <1>10, <2>1, <3>2, <3>3, NewLast DEF NoFault
  <2> QED
    BY <2>1, <2>2, <2>3 DEF DieKind
<1> QED
  BY <1>2, <1>8, <1>9, <1>10, ChainParts

\* Whoever is not blocked waits for no process of its kind.
LEMMA UnblockedLast ==
  ASSUME ProcessInv, NEW p \in Servers, ~Blocked(p)
  PROVE  Hindmost(p)
<1>1. Shape /\ p \in Pids /\ Kin(p)
  BY InvParts DEF Servers, Kin
<1>2. Childless(p)
  <2>1. CASE proc[p].at \notin ReadStates \/ proc[p].pipe # "empty"
    BY <1>1, <2>1, NotReading DEF Childless
  <2>2. CASE proc[p].at \in ReadStates /\ proc[p].pipe = "empty"
    BY <1>1, <2>2, Ended DEF Childless, Blocked, ReadStates
  <2> QED
    BY <2>1, <2>2
<1> QED
  BY <1>1, <1>2, HindmostDef DEF Childless, Working, Kin

\* With at most one failure of execlp, or none of anything else, at most one
\* process of the family is at work: the sequential program of Upload.
THEOREM OneWorks == Spec => []OneAtWork
<1>1. Init => Chain
  <2> SUFFICES ASSUME Init PROVE Chain
    OBVIOUS
  <2>1. \A p \in Pids : proc[p].at = IF p = First THEN "accept" ELSE "free"
    BY DEF Init, Nobody
  <2> QED
    BY <2>1 DEF Chain, Hindmost, Servers, ServerStates, ExecStates
<1>2. ProcessInv /\ Chain /\ [Next]_pvars => Chain'
  <2> SUFFICES ASSUME ProcessInv, Chain, Kinds PROVE Chain'
    BY ProcessStep
  <2>1. ASSUME NEW p \in Pids, AcceptKind(p) \/ ReadKind(p) PROVE Chain'
    <3>1. /\ p \in Servers /\ Same({p, p}) /\ proc'[p].at \in ServerStates
          /\ proc'[p].out = proc[p].out /\ UNCHANGED <<execfaults, faults>>
      BY <2>1 DEF AcceptKind, ReadKind, Same, Becomes, ServerStates, counts
    <3> QED
      BY <3>1, GoesOnChain
  <2>2. ASSUME NEW p \in Pids, DieKind(p) PROVE Chain'
    BY <2>2, DieChain
  <2>3. ASSUME NEW p \in Pids, NEW c \in Pids, ForkKind(p, c) PROVE Chain'
    BY <2>3, ForkChain
  <2>4. ASSUME NEW p \in Pids, NEW c \in Pids, WaitKind(p, c) PROVE Chain'
    <3>1. /\ p \in Servers /\ Same({p, c}) /\ proc'[p].at \in ServerStates
          /\ proc[c].at = "zombie" /\ proc'[c].at = "free"
          /\ proc'[p].out = proc[p].out /\ UNCHANGED <<execfaults, faults>>
      BY <2>4 DEF WaitKind, Becomes, ServerStates, counts, Nobody, At
    <3> QED
      BY <3>1, GoesOnChain
  <2>5. ASSUME NEW p \in Pids, NEW code \in {"008", "009"}, AnswerKind(p, code)
        PROVE  Chain'
    <3>1. /\ p \in Servers /\ Same({p, p}) /\ proc'[p].at \in ServerStates
          /\ proc'[p].out = proc[p].out /\ UNCHANGED execfaults
      BY <2>5 DEF AnswerKind, Same, Becomes, ServerStates
    <3>2. faults' = 0 => faults = 0
      BY <2>5, InvParts, FaultType DEF AnswerKind, NoFault
    <3> QED
      BY <3>1, <3>2, GoesOnChain
  <2>6. ASSUME NEW c \in Pids, ClientKind(c) PROVE Chain'
    BY <2>6, ClientChain
  <2>7. ASSUME NEW c \in Pids, FailKind(c) PROVE Chain'
    BY <2>7, FailChain
  <2>8. ASSUME NEW c \in Pids, NEW text \in FileIds \cup {"empty", "address", "message"},
               PrintKind(c, text)
        PROVE  Chain'
    BY <2>8, PrintChain
  <2>9. CASE UNCHANGED pvars
    BY <2>9 DEF pvars, effects, counts, Chain, Hindmost, Servers
  <2> QED
    BY <2>1, <2>2, <2>3, <2>4, <2>5, <2>6, <2>7, <2>8, <2>9, Zenon DEF Kinds
<1>3. ProcessInv /\ Chain => OneAtWork
  <2> SUFFICES ASSUME ProcessInv, Chain, execfaults <= 1 \/ faults = 0,
                      NEW p \in Servers, NEW q \in Servers, p # q
               PROVE  Blocked(p) \/ Blocked(q)
    BY DEF OneAtWork
  <2>1. p \in Pids /\ q \in Pids
    BY DEF Servers
  <2>2. CASE faults = 0
    BY <2>1, <2>2, UnblockedLast, ChainParts DEF OneLast
  <2>3. CASE execfaults <= 1
    <3>1. proc[p].out = q \/ proc[q].out = p
      BY <2>3, ChainParts DEF TwoServers
    <3>2. ASSUME NEW c \in Servers, NEW d \in Pids, proc[c].out = d PROVE Blocked(d)
      <4>1. Working(c) /\ c \in Alive
        BY DEF Working, Servers, Alive
      <4>2. proc[d].at \in ReadStates /\ proc[d].pipe = "empty"
        BY <3>2, <4>1, InvParts DEF Shape, Families, Servers
      <4> QED
        BY <3>2, <4>1, <4>2 DEF Blocked, AtEnd, ReadStates
    <3> QED
      BY <2>1, <3>1, <3>2
  <2> QED
    BY <2>2, <2>3
<1> QED
  BY <1>1, <1>2, <1>3, ProcessInvariant, PTL DEF Spec

------------------------------------------------------------------------------
(* What was answered with success is stored *)

\* A server keeps what it knows of its object.
Knows(p) ==
  /\ At(p, "up_read") /\ proc[p].pipe # "empty" => proc[p].pipe \in storage
  /\ proc[p].at \in {"up_wait", "url_fork", "url_read", "store"} => proc[p].fileid \in storage
  /\ At(p, "store") => proc[p].url = proc[p].fileid

\* The invariant by its parts.
LEMMA StoredParts ==
  /\ IdsStored <=> (execfaults = 0 => /\ \A p \in Servers : Knows(p)
                                      /\ \A r \in 1..MaxRequests : Success(r))
  /\ IdsStored' <=> (execfaults' = 0 => /\ \A p \in Servers' : Knows(p)'
                                        /\ \A r \in 1..MaxRequests : Success(r)')
BY DEF IdsStored, Knows

\* What was recorded stays true: rows and objects are only added.
LEMMA SuccessKept ==
  ASSUME storage \subseteq storage', UNCHANGED <<rows, answers>>,
         NEW r \in 1..MaxRequests, Success(r)
  PROVE  Success(r)'
BY DEF Success

\* A process whose place and buffers stay knows what it knew.
LEMMA KnowsKept ==
  ASSUME storage \subseteq storage', NEW q \in Pids, Knows(q),
         proc'[q].at = proc[q].at, proc'[q].pipe = proc[q].pipe,
         proc'[q].fileid = proc[q].fileid, proc'[q].url = proc[q].url
  PROVE  Knows(q)'
BY DEF Knows, At

\* Every step keeps it, as long as execlp works.
LEMMA StoredStep == ProcessInv /\ IdsStored /\ [Next]_pvars => IdsStored'
<1> SUFFICES ASSUME ProcessInv, IdsStored, Kinds, execfaults' = 0
             PROVE  /\ \A q \in Servers' : Knows(q)'
                    /\ \A r \in 1..MaxRequests : Success(r)'
  BY ProcessStep, StoredParts
<1>0. Typed /\ Shape /\ Requests /\ Data /\ execfaults \in Nat
  BY InvParts DEF Data
<1> DEFINE Known == \A q \in Servers : Knows(q)
           All == \A r \in 1..MaxRequests : Success(r)
<1>1. ASSUME NEW p \in Pids, AcceptKind(p)
      PROVE  (\A q \in Servers' : Knows(q)') /\ \A r \in 1..MaxRequests : Success(r)'
  <2>1. UNCHANGED <<storage, rows, answers, execfaults>> /\ Known /\ All
    BY <1>1, StoredParts DEF AcceptKind, effects
  <2>2. /\ \A q \in Pids : q # p => proc'[q] = proc[q]
        /\ proc'[p].at = "up_fork"
    BY <1>1 DEF AcceptKind, Same, Becomes
  <2>3. \A q \in Servers' : q # p => q \in Servers
    BY <2>2 DEF Servers
  <2>4. \A q \in Servers' : Knows(q)'
    BY <2>1, <2>2, <2>3 DEF Knows, At, Servers
  <2> QED
    BY <2>1, <2>4, SuccessKept
<1>2. ASSUME NEW p \in Pids, ReadKind(p)
      PROVE  (\A q \in Servers' : Knows(q)') /\ \A r \in 1..MaxRequests : Success(r)'
  <2>1. UNCHANGED <<storage, rows, answers, execfaults>> /\ Known /\ All
    BY <1>2, StoredParts DEF ReadKind, effects, counts
  <2>2. /\ \A q \in Pids : q # p => proc'[q] = proc[q]
        /\ p \in Servers /\ proc[p].pipe # "empty"
        /\ \/ /\ proc[p].at = "up_read" /\ proc'[p].at = "up_wait"
              /\ proc'[p].fileid = proc[p].pipe
           \/ /\ proc[p].at = "url_read" /\ proc'[p].at = "store"
              /\ proc'[p].fileid = proc[p].fileid /\ proc'[p].url = proc[p].fileid
    BY <1>2 DEF ReadKind, Same, Becomes, At
  <2>3. Knows(p)'
    BY <2>1, <2>2 DEF Knows, At
  <2>4. \A q \in Servers' : q # p => q \in Servers
    BY <2>2 DEF Servers
  <2>5. \A q \in Servers' : Knows(q)'
    BY <2>1, <2>2, <2>3, <2>4 DEF Knows, At, Servers
  <2> QED
    BY <2>1, <2>5, SuccessKept
<1>3. ASSUME NEW p \in Pids, DieKind(p)
      PROVE  (\A q \in Servers' : Knows(q)') /\ \A r \in 1..MaxRequests : Success(r)'
  <2>1. UNCHANGED <<storage, rows, answers, execfaults>> /\ Known /\ All
    BY <1>3, StoredParts DEF DieKind, effects
  <2>2. \A q \in Servers' :
          /\ q \in Servers /\ proc'[q].at = proc[q].at /\ proc'[q].pipe = proc[q].pipe
          /\ proc'[q].fileid = proc[q].fileid /\ proc'[q].url = proc[q].url
    BY <1>3 DEF DieKind, Died, Servers, ServerStates
  <2>3. \A q \in Servers' : Knows(q)'
    BY <2>1, <2>2, KnowsKept DEF Servers
  <2> QED
    BY <2>1, <2>3, SuccessKept
<1>4. ASSUME NEW p \in Pids, NEW c \in Pids, ForkKind(p, c)
      PROVE  (\A q \in Servers' : Knows(q)') /\ \A r \in 1..MaxRequests : Success(r)'
  <2>1. UNCHANGED <<storage, rows, answers, execfaults>> /\ Known /\ All
    BY <1>4, StoredParts DEF ForkKind, effects, counts
  <2>2. /\ \A q \in Pids : q # p /\ q # c => proc'[q] = proc[q]
        /\ p \in Servers /\ proc'[c].at \notin ServerStates
        /\ proc'[p].fileid = proc[p].fileid /\ proc'[p].pipe = "empty"
        /\ \/ proc'[p].at = "up_read"
           \/ proc[p].at = "url_fork" /\ proc'[p].at = "url_read"
    BY <1>4 DEF ForkKind, Forked, Same, Becomes, At, ServerStates
  <2>3. Knows(p)'
    BY <2>1, <2>2 DEF Knows, At
  <2>4. \A q \in Servers' : q # c /\ (q # p => q \in Servers)
    BY <2>2 DEF Servers
  <2>5. \A q \in Servers' : Knows(q)'
    BY <2>1, <2>2, <2>3, <2>4 DEF Knows, At, Servers
  <2> QED
    BY <2>1, <2>5, SuccessKept
<1>5. ASSUME NEW p \in Pids, NEW c \in Pids, WaitKind(p, c)
      PROVE  (\A q \in Servers' : Knows(q)') /\ \A r \in 1..MaxRequests : Success(r)'
  <2>1. UNCHANGED <<storage, rows, answers, execfaults>> /\ Known /\ All
    BY <1>5, StoredParts DEF WaitKind, effects, counts
  <2>2. /\ \A q \in Pids : q # p /\ q # c => proc'[q] = proc[q]
        /\ p \in Servers /\ proc'[c].at \notin ServerStates
        /\ proc'[p].fileid = proc[p].fileid
        /\ proc[p].at = "up_wait" /\ proc'[p].at = "url_fork"
    BY <1>5 DEF WaitKind, Same, Becomes, At, ServerStates, Nobody
  <2>3. Knows(p)'
    BY <2>1, <2>2 DEF Knows, At
  <2>4. \A q \in Servers' : q # c /\ (q # p => q \in Servers)
    BY <2>2 DEF Servers
  <2>5. \A q \in Servers' : Knows(q)'
    BY <2>1, <2>2, <2>3, <2>4 DEF Knows, At, Servers
  <2> QED
    BY <2>1, <2>5, SuccessKept
<1>6. ASSUME NEW p \in Pids, NEW code \in {"008", "009"}, AnswerKind(p, code)
      PROVE  (\A q \in Servers' : Knows(q)') /\ \A r \in 1..MaxRequests : Success(r)'
  <2>1. UNCHANGED <<storage, execfaults>> /\ Known /\ All
    BY <1>6, StoredParts DEF AnswerKind
  <2>2. /\ \A q \in Pids : q # p => proc'[q] = proc[q]
        /\ p \in Servers /\ proc'[p].at = "accept" /\ proc[p].req # 0
        /\ answers' = [answers EXCEPT ![proc[p].req] = @ \cup {code}]
    BY <1>6 DEF AnswerKind, Same, Becomes
  <2>3. \A q \in Servers' : q # p => q \in Servers
    BY <2>2 DEF Servers
  <2>4. \A q \in Servers' : Knows(q)'
    BY <2>1, <2>2, <2>3 DEF Knows, At, Servers
  <2>5. answers \in [1..MaxRequests -> SUBSET {"008", "009"}] /\ rows \in Seq(Row)
    BY <1>0 DEF Data
  <2>6. CASE code = "009" /\ UNCHANGED rows
    <3>1. \A r \in 1..MaxRequests : "008" \in answers'[r] => "008" \in answers[r]
      BY <2>2, <2>5, <2>6
    <3> QED
      BY <2>1, <2>4, <2>6, <3>1 DEF Success
  <2>7. CASE /\ At(p, "store")
             /\ rows' = Append(rows, [req |-> proc[p].req, file_id |-> proc[p].fileid,
                                      url |-> proc[p].url])
    <3>1. /\ Len(rows') = Len(rows) + 1 /\ Len(rows) \in Nat
          /\ \A i \in 1..Len(rows) : rows'[i] = rows[i]
          /\ rows'[Len(rows) + 1] = [req |-> proc[p].req, file_id |-> proc[p].fileid,
                                     url |-> proc[p].url]
      BY <2>5, <2>7
    <3>2. proc[p].fileid \in storage /\ proc[p].url = proc[p].fileid
      BY <2>1, <2>2, <2>7 DEF Knows, At
    <3>3. ASSUME NEW r \in 1..MaxRequests PROVE Success(r)'
      <4>1. CASE r = proc[p].req
        <5> DEFINE n == Len(rows) + 1
        <5>1. /\ n \in 1..Len(rows') /\ rows'[n].req = r
              /\ rows'[n].file_id \in storage' /\ rows'[n].url = rows'[n].file_id
          BY <2>1, <3>1, <3>2, <4>1
        <5> HIDE DEF n
        <5> QED
          BY <5>1 DEF Success
      <4>2. CASE r # proc[p].req
        <5>1. answers'[r] = answers[r]
          BY <2>2, <2>5, <4>2
        <5>2. \A i \in 1..Len(rows) : i \in 1..Len(rows') /\ rows'[i] = rows[i]
          BY <3>1
        <5>3. Success(r)
          BY <2>1
        <5> QED
          BY <2>1, <5>1, <5>2, <5>3 DEF Success
      <4> QED
        BY <4>1, <4>2
    <3> QED
      BY <2>4, <3>3
  <2> QED
    BY <1>6, <2>6, <2>7 DEF AnswerKind
<1>7. ASSUME NEW c \in Pids, ClientKind(c)
      PROVE  (\A q \in Servers' : Knows(q)') /\ \A r \in 1..MaxRequests : Success(r)'
  <2>1. UNCHANGED <<storage, rows, answers, execfaults>> /\ Known /\ All
    BY <1>7, StoredParts DEF ClientKind, effects, counts
  <2>2. /\ \A q \in Pids : q # c => proc'[q] = proc[q]
        /\ proc'[c].at \notin ServerStates
    BY <1>7 DEF ClientKind, Same, Becomes, ServerStates
  <2>3. \A q \in Servers' : q # c /\ q \in Servers
    BY <2>2 DEF Servers
  <2>4. \A q \in Servers' : Knows(q)'
    BY <2>1, <2>2, <2>3 DEF Knows, At, Servers
  <2> QED
    BY <2>1, <2>4, SuccessKept
<1>8. ASSUME NEW c \in Pids, FailKind(c) PROVE FALSE
  BY <1>0, <1>8 DEF FailKind
<1>9. ASSUME NEW c \in Pids, NEW text \in FileIds \cup {"empty", "address", "message"},
             PrintKind(c, text)
      PROVE  (\A q \in Servers' : Knows(q)') /\ \A r \in 1..MaxRequests : Success(r)'
  <2>1. UNCHANGED <<rows, answers, execfaults>> /\ storage \subseteq storage' /\ Known /\ All
    BY <1>9, StoredParts DEF PrintKind
  <2>2. /\ \A q \in Pids : q # c /\ q # proc[c].out => proc'[q] = proc[q]
        /\ proc'[c].at \notin ServerStates
    BY <1>9 DEF PrintKind, Printed, Same, Becomes, ServerStates
  <2>3. ASSUME NEW q \in Servers' PROVE Knows(q)'
    <3>1. q \in Pids /\ q # c
      BY <2>2 DEF Servers
    <3>2. CASE q # proc[c].out
      <4>1. proc'[q] = proc[q] /\ q \in Servers
        BY <2>2, <3>1, <3>2 DEF Servers
      <4> QED
        BY <2>1, <3>1, <4>1, KnowsKept
    <3>3. CASE q = proc[c].out
      <4>1. /\ proc'[q].at = proc[q].at /\ proc'[q].pipe = text
            /\ proc'[q].fileid = proc[q].fileid /\ proc'[q].url = proc[q].url
        BY <1>9, <3>1, <3>3 DEF PrintKind, Printed, Becomes
      <4>2. q \in Servers
        BY <3>1, <4>1 DEF Servers
      <4>3. proc'[q].at = "up_read" => proc[c].at = "up_client"
        BY <1>0, <1>9, <3>1, <3>3, <4>1
        DEF PrintKind, Shape, Families, Working, Printing
      <4>4. proc'[q].at = "up_read" => text \in storage' \cup {"empty"}
        BY <1>9, <4>3 DEF PrintKind, At
      <4> QED
        BY <2>1, <4>1, <4>2, <4>4 DEF Knows, At
    <3> QED
      BY <3>2, <3>3
  <2> QED
    BY <2>1, <2>3, SuccessKept
<1>10. CASE UNCHANGED pvars
  <2>1. UNCHANGED <<proc, storage, rows, answers, execfaults>> /\ Known /\ All
    BY <1>10, StoredParts DEF pvars, effects, counts
  <2> QED
    BY <2>1 DEF Knows, At, Servers, Success
<1> QED
  BY <1>1, <1>2, <1>3, <1>4, <1>5, <1>6, <1>7, <1>8, <1>9, <1>10, Zenon DEF Kinds

\* As long as execlp works, an upload answered with 008 has a row with the id
\* and the url of its object, whatever else fails and whoever is killed.
THEOREM ExecutedUploadsStored == Spec => []ExecutedUploadStored
<1>1. Init => IdsStored
  <2> SUFFICES ASSUME Init PROVE IdsStored
    OBVIOUS
  <2>1. \A p \in Pids : proc[p].at \in {"accept", "free"}
    BY DEF Init, Nobody
  <2>2. \A r \in 1..MaxRequests : answers[r] = {}
    BY DEF Init
  <2> QED
    BY <2>1, <2>2 DEF IdsStored, Success, Servers, At
<1>2. IdsStored => ExecutedUploadStored
  BY DEF IdsStored, ExecutedUploadStored
<1> QED
  BY <1>1, <1>2, StoredStep, ProcessInvariant, PTL DEF Spec

------------------------------------------------------------------------------
(* Children that nobody waits for *)

Bound(p) == IF proc[p].at \in {"up_fork", "url_fork"} THEN accepted - 1 ELSE accepted

\* The number of children is a number, and the bound is that of the invariant.
LEMMA ChildrenFacts ==
  /\ \A p : IsFiniteSet(Children(p)) /\ Cardinality(Children(p)) \in Nat
  /\ ChildrenBounded <=> \A p \in Servers : Cardinality(Children(p)) <= Bound(p)
  /\ ChildrenBounded' <=> \A p \in Servers' : Cardinality(Children(p)') <= Bound(p)'
<1>1. ASSUME NEW p PROVE IsFiniteSet(Children(p)) /\ Cardinality(Children(p)) \in Nat
  <2>1. Children(p) \subseteq Pids /\ IsFiniteSet(Pids)
    BY ProcessAssumption DEF Children
  <2> QED
    BY <2>1, FS_Subset, FS_CardinalityType
<1> QED
  BY <1>1 DEF ChildrenBounded, Bound

\* A step after which a server has the children it had, and no smaller bound.
LEMMA SameChildren ==
  ASSUME ProcessInv, ChildrenBounded, NEW q \in Servers,
         \A c \in Pids : proc'[c].parent = q <=> proc[c].parent = q,
         Bound(q) \in Int, Bound(q)' \in Int, Bound(q)' >= Bound(q)
  PROVE  Cardinality(Children(q)') <= Bound(q)'
<1>1. Children(q)' = Children(q)
  BY DEF Children
<1> QED
  BY <1>1, ChildrenFacts

\* Every step keeps it: the second child of a request is the one that no wait
\* is called for.
LEMMA ChildrenStep == ProcessInv /\ BearerInv /\ ChildrenBounded /\ [Next]_pvars => ChildrenBounded'
<1> SUFFICES ASSUME ProcessInv, BearerInv, ChildrenBounded, Kinds, NEW q \in Servers'
             PROVE  Cardinality(Children(q)') <= Bound(q)'
  BY ProcessStep, ChildrenFacts
<1> DEFINE Goal == Cardinality(Children(q)') <= Bound(q)'
<1>0. Typed /\ Shape /\ Requests /\ accepted \in Nat /\ q \in Pids
  BY InvParts DEF Data, Servers
<1>1. ASSUME NEW p \in Pids, \/ AcceptKind(p) \/ ReadKind(p)
                             \/ \E code \in {"008", "009"} : AnswerKind(p, code)
      PROVE  Goal
  <2>1. /\ \A d \in Pids : d # p => proc'[d] = proc[d]
        /\ p \in Servers /\ proc'[p].parent = proc[p].parent
        /\ \/ accepted' = accepted + 1 /\ proc[p].at = "accept"
           \/ accepted' = accepted /\ proc'[p].at \notin {"up_fork", "url_fork"}
    BY <1>1 DEF AcceptKind, ReadKind, AnswerKind, Same, Becomes, counts, At
  <2>2. q \in Servers
    BY <2>1 DEF Servers
  <2>3. Bound(q) \in Int /\ Bound(q)' \in Int /\ Bound(q)' >= Bound(q)
    BY <1>0, <2>1 DEF Bound
  <2>4. \A d \in Pids : proc'[d].parent = q <=> proc[d].parent = q
    BY <2>1
  <2> QED
    BY <2>2, <2>3, <2>4, SameChildren
<1>2. ASSUME NEW p \in Pids, DieKind(p) PROVE Goal
  <2>1. q \in Servers /\ q # p /\ proc'[q].at = proc[q].at /\ UNCHANGED accepted
    BY <1>2 DEF DieKind, Died, Servers, ServerStates
  <2>2. \A d \in Pids : proc'[d].parent = q <=> proc[d].parent = q
    <3>1. proc'[p].parent = proc[p].parent
      BY <1>2 DEF DieKind, Died
    <3>2. \A d \in Zombies(p) : proc[d].parent = p /\ proc'[d].parent = NoPid
      BY <1>2 DEF DieKind, Died, Nobody
    <3>3. \A d \in Rest(p) :
            proc'[d].parent = IF proc[d].parent = p THEN NoPid ELSE proc[d].parent
      BY <1>2 DEF DieKind, Died
    <3> QED
      BY <1>0, <1>2, <2>1, <3>1, <3>2, <3>3, ProcessAssumption DEF DieKind
  <2>3. Bound(q) \in Int /\ Bound(q)' \in Int /\ Bound(q)' >= Bound(q)
    BY <1>0, <2>1 DEF Bound
  <2> QED
    BY <2>1, <2>2, <2>3, SameChildren
<1>3. ASSUME NEW p \in Pids, NEW c \in Pids, ForkKind(p, c) PROVE Goal
  <2>1. /\ p \in Servers /\ proc[c].at = "free" /\ c # p
        /\ proc[p].at \in {"up_fork", "url_fork"} /\ UNCHANGED accepted
    BY <1>3 DEF ForkKind, Free, Servers, At, ServerStates, counts
  <2>2. /\ \A d \in Pids : d # p /\ d # c => proc'[d] = proc[d]
        /\ proc'[c].at \notin ServerStates /\ proc'[c].parent = p
        /\ proc'[p].at \in ReadStates /\ proc'[p].parent = proc[p].parent
    BY <1>3 DEF ForkKind, Forked, Same, Becomes, ReadStates, ServerStates
  <2>3. q # c /\ q \in Servers /\ proc[c].parent = NoPid
    BY <1>0, <2>1, <2>2 DEF Servers, Shape, OwnBuffers
  <2>4. CASE q # p
    <3>1. \A d \in Pids : proc'[d].parent = q <=> proc[d].parent = q
      BY <1>0, <2>2, <2>3, <2>4, ProcessAssumption
    <3>2. Bound(q) \in Int /\ Bound(q)' \in Int /\ Bound(q)' >= Bound(q)
      BY <1>0, <2>1, <2>2, <2>3, <2>4 DEF Bound
    <3> QED
      BY <2>3, <3>1, <3>2, SameChildren
  <2>5. CASE q = p
    <3>1. Children(p)' = Children(p) \cup {c} /\ c \notin Children(p)
      BY <1>0, <2>1, <2>2, <2>3, <2>5, ProcessAssumption DEF Children
    <3>2. Cardinality(Children(p)') = Cardinality(Children(p)) + 1
      BY <3>1, ChildrenFacts, FS_AddElement
    <3>3. Cardinality(Children(p)) <= accepted - 1
      BY <2>1, ChildrenFacts DEF Bound
    <3>4. Bound(p)' = accepted
      BY <2>1, <2>2 DEF Bound, ReadStates
    <3>5. Cardinality(Children(p)) \in Nat
      BY ChildrenFacts
    <3> QED
      BY <1>0, <2>5, <3>2, <3>3, <3>4, <3>5
  <2> QED
    BY <2>4, <2>5
<1>4. ASSUME NEW p \in Pids, NEW c \in Pids, WaitKind(p, c) PROVE Goal
  <2>1. /\ p \in Servers /\ proc[c].at = "zombie" /\ proc[c].parent = p /\ c # p
        /\ proc[p].at = "up_wait" /\ UNCHANGED accepted
        /\ proc'[c].at = "free" /\ proc'[c].parent = NoPid
        /\ \A d \in Pids : d # p /\ d # c => proc'[d] = proc[d]
        /\ proc'[p].at = "url_fork" /\ proc'[p].parent = proc[p].parent
    BY <1>4 DEF WaitKind, Same, Becomes, At, counts, Nobody
  <2>2. q # c /\ q \in Servers
    BY <2>1 DEF Servers, ServerStates
  <2>3. CASE q # p
    <3>1. \A d \in Pids : proc'[d].parent = q <=> proc[d].parent = q
      BY <1>0, <2>1, <2>2, <2>3, ProcessAssumption
    <3>2. Bound(q) \in Int /\ Bound(q)' \in Int /\ Bound(q)' >= Bound(q)
      BY <1>0, <2>1, <2>2, <2>3 DEF Bound
    <3> QED
      BY <2>2, <3>1, <3>2, SameChildren
  <2>4. CASE q = p
    <3>1. Children(p)' = Children(p) \ {c} /\ c \in Children(p)
      BY <1>0, <1>4, <2>1, <2>4, ProcessAssumption DEF Children
    <3>2. Cardinality(Children(p)') = Cardinality(Children(p)) - 1
      BY <3>1, ChildrenFacts, FS_RemoveElement
    <3>3. Cardinality(Children(p)) <= accepted
      BY <2>1, ChildrenFacts DEF Bound
    <3>4. Bound(p)' = accepted - 1
      BY <2>1 DEF Bound
    <3>5. Cardinality(Children(p)) \in Nat
      BY ChildrenFacts
    <3> QED
      BY <1>0, <2>4, <3>2, <3>3, <3>4, <3>5
  <2> QED
    BY <2>3, <2>4
<1>5. ASSUME NEW c \in Pids, ClientKind(c) \/ FailKind(c) PROVE Goal
  <2>1. /\ proc[c].at \in ExecStates /\ proc'[c].parent = proc[c].parent
        /\ UNCHANGED accepted
        /\ \A d \in Pids : d # c => proc'[d] = proc[d]
    BY <1>5 DEF ClientKind, FailKind, At, ExecStates, counts, Same, Becomes
  <2>2. CASE q # c
    <3>1. q \in Servers /\ \A d \in Pids : proc'[d].parent = q <=> proc[d].parent = q
      BY <2>1, <2>2 DEF Servers
    <3>2. Bound(q) \in Int /\ Bound(q)' \in Int /\ Bound(q)' >= Bound(q)
      BY <1>0, <2>1, <2>2 DEF Bound
    <3> QED
      BY <3>1, <3>2, SameChildren
  <2>3. CASE q = c
    <3>1. \A d \in Pids : proc[d].parent # c
      BY <1>0, <2>1, ProcessAssumption
      DEF Shape, OwnBuffers, Servers, ServerStates, ExecStates
    <3>2. Children(q)' = {}
      BY <2>1, <2>3, <3>1 DEF Children
    <3>3. proc[c].req \in Nat /\ proc[c].req # 0 /\ proc[c].req <= accepted
      <4>1. proc[c] \in Process
        BY <1>0 DEF Typed
      <4>2. proc[c].req \in Nat
        BY <4>1 DEF Process
      <4> QED
        BY <1>0, <2>1, <4>2 DEF Shape, OwnBuffers, BearerInv, OneBearer
    <3>4. Bound(q)' \in Int /\ Bound(q)' >= 0
      BY <1>0, <2>1, <3>3 DEF Bound
    <3>5. Cardinality({}) = 0
      BY FS_EmptySet
    <3> QED
      BY <3>2, <3>4, <3>5
  <2> QED
    BY <2>2, <2>3
<1>6. ASSUME NEW c \in Pids, NEW text \in FileIds \cup {"empty", "address", "message"},
             PrintKind(c, text)
      PROVE  Goal
  <2>1. /\ \A d \in Pids : d # c /\ d # proc[c].out => proc'[d] = proc[d]
        /\ \A d \in Pids : d = proc[c].out =>
             proc'[d].at = proc[d].at /\ proc'[d].parent = proc[d].parent
        /\ proc'[c].at = "exiting" /\ proc'[c].parent = proc[c].parent /\ UNCHANGED accepted
    BY <1>6 DEF PrintKind, Printed, Same, Becomes
  <2>2. \A d \in Pids : proc'[d].parent = proc[d].parent
    BY <2>1
  <2>3. q # c /\ proc'[q].at = proc[q].at
    BY <1>0, <2>1 DEF Servers, ServerStates
  <2>4. q \in Servers
    BY <1>0, <2>3 DEF Servers
  <2>5. Bound(q) \in Int /\ Bound(q)' \in Int /\ Bound(q)' >= Bound(q)
    BY <1>0, <2>1, <2>3 DEF Bound
  <2> QED
    BY <2>2, <2>4, <2>5, SameChildren
<1>7. CASE UNCHANGED pvars
  <2>1. UNCHANGED <<proc, accepted>> /\ q \in Servers
    BY <1>7 DEF pvars, counts, Servers
  <2>2. Bound(q) \in Int /\ Bound(q)' = Bound(q)
    BY <1>0, <2>1 DEF Bound
  <2> QED
    BY <2>1, <2>2, SameChildren
<1> QED
  <2>1. CASE \E p \in Pids : AcceptKind(p) \/ ReadKind(p) \/ DieKind(p)
    BY <1>1, <1>2, <2>1
  <2>2. CASE \E p, c \in Pids : ForkKind(p, c) \/ WaitKind(p, c)
    BY <1>3, <1>4, <2>2
  <2>3. CASE \E p \in Pids, code \in {"008", "009"} : AnswerKind(p, code)
    BY <1>1, <2>3
  <2>4. CASE \E c \in Pids : ClientKind(c) \/ FailKind(c)
    BY <1>5, <2>4
  <2>5. CASE \E c \in Pids, text \in FileIds \cup {"empty", "address", "message"} :
               PrintKind(c, text)
    BY <1>6, <2>5
  <2> QED
    BY <1>7, <2>1, <2>2, <2>3, <2>4, <2>5 DEF Kinds

\* wait is called for one of the two children of a request: a server never has
\* more ended children than requests were accepted.
THEOREM ZombiesAreBounded == Spec => []ZombiesBounded
<1>1. Init => ChildrenBounded
  <2> SUFFICES ASSUME Init, NEW p \in Servers PROVE Cardinality(Children(p)) <= Bound(p)
    BY ChildrenFacts
  <2>1. /\ \A c \in Pids : proc[c].parent = NoPid
        /\ \A c \in Pids : proc[c].at \in {"accept", "free"}
    BY DEF Init, Nobody
  <2>2. Children(p) = {}
    BY <2>1, ProcessAssumption DEF Children, Servers
  <2>3. Bound(p) = 0
    BY <2>1 DEF Bound, Init, Servers
  <2> QED
    BY <2>2, <2>3, FS_EmptySet
<1>2. ProcessInv /\ ChildrenBounded => ZombiesBounded
  <2> SUFFICES ASSUME ProcessInv, ChildrenBounded, NEW p \in Servers
               PROVE  Cardinality(Zombies(p)) <= accepted
    BY DEF ZombiesBounded
  <2>1. Zombies(p) \subseteq Children(p)
    BY DEF Zombies, Children
  <2>2. Cardinality(Zombies(p)) \in Nat /\ Cardinality(Zombies(p)) <= Cardinality(Children(p))
    BY <2>1, ChildrenFacts, FS_Subset, FS_CardinalityType
  <2>3. Cardinality(Children(p)) <= accepted /\ accepted \in Nat /\ Cardinality(Children(p)) \in Nat
    BY InvParts, ChildrenFacts DEF Bound, Data
  <2> QED
    BY <2>2, <2>3
<1> QED
  BY <1>1, <1>2, ChildrenStep, ProcessInvariant, BearerInvariant, PTL DEF Spec
=============================================================================
