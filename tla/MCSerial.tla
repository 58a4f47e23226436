------------------------------ MODULE MCSerial ------------------------------
(***************************************************************************)
(* Instances of FileStore in which the clients wait for each other's       *)
(* answers: one for the counters of the files, one for the three copies of *)
(* the list of shared files, and one with three members in the ranking,    *)
(* over which ZLEXCOUNT answers 0, 1 and 2.  In a fourth one they do not   *)
(* wait, and the ranking is built while files are shared and downloaded.   *)
(* A behaviour belongs to one instance from its start on, whose clients    *)
(* ask for some of the files.                                              *)
(***************************************************************************)
EXTENDS MCFileStore

CONSTANT f5

VARIABLE instance

EveryCommand == AllCommands \cup ShareOnlyCommands
FiveFiles == FourFiles \cup {f5}
ShortPages == {<<0, 1>>, <<1, 1>>}

Files ==
  INSTANCE SharedFiles WITH
    Commands <- {"upload", "md5", "del", "share", "save"},
    Serial <- TRUE, ListedOnly <- TRUE, MaxRequests <- 6, MaxFaults <- 2
Shared ==
  INSTANCE SharedFiles WITH
    Commands <- {"upload", "del", "share", "pv", "cancel", "pvdesc"},
    Serial <- TRUE, ListedOnly <- TRUE, MaxRequests <- 7, MaxFaults <- 1
Three ==
  INSTANCE SharedFiles WITH
    Commands <- {"share", "pv", "cancel", "del"},
    Serial <- TRUE, ListedOnly <- FALSE, MaxRequests <- 7, MaxFaults <- 0
Ranking ==
  INSTANCE SharedFiles WITH
    Commands <- {"share", "pv", "pvdesc"}, Pages <- ShortPages,
    Serial <- FALSE, ListedOnly <- FALSE, MaxRequests <- 5, MaxFaults <- 0

\* The files that the clients of an instance ask for, and the ids that FastDFS
\* has for them.
Asked ==
  CASE instance = "files" -> [user : {u1, u2}, md5 : {m1}, name : {n1, n2}]
    [] instance = "shared" -> [user : {u1}, md5 : {m1, m2}, name : {n1}]
    [] instance = "three" -> [user : {u1}, md5 : {m1, m2}, name : {n1}]
                               \cup [user : {u1}, md5 : {m1}, name : {n2}]
    [] instance = "ranking" -> [user : {u1}, md5 : {m1}, name : {n1, n2}]
Ids == IF instance = "shared" THEN FileIds ELSE FourFiles

InOrder == <<f1, f2, f3, f4, f5>>

MCInit == Init /\ instance \in {"files", "shared", "three", "ranking"}

MCNext ==
  /\ \/ instance = "files" /\ Files!Next
     \/ instance = "shared" /\ Shared!Next
     \/ instance = "three" /\ Three!Next
     \/ instance = "ranking" /\ Ranking!Next
  /\ \A p \in Programs : loc'[p].key \in Asked \cup {NoKey}
  /\ \A i \in 1..4 : content'[InOrder[i]] = NoMd5 => content'[InOrder[i + 1]] = NoMd5
  /\ storage' \subseteq Ids
  /\ UNCHANGED instance

MCSpec == MCInit /\ [][MCNext]_<<vars, instance>>

\* Where only u1 asks, a state with the users exchanged is reached only if both
\* have nothing, and is then the same state.
SerialSymmetry == Permutations(Users)

-----------------------------------------------------------------------------
(* The properties of Accounts and SharedFiles that are stated for some of  *)
(* the instances                                                           *)

\* Without a failure the ranking never shows more downloads than were counted;
\* it is refused (015) only when no file is shared or their number has been
\* counted down to none, and the delete of a listed file (014) only while the
\* scores differ or for a member that was left behind.
RankingTrue ==
  /\ instance \in {"shared", "three"} => ScoresNotAbove
  /\ instance = "shared" => RankingAnswered /\ DeleteRefused

\* Without cancels and deletes, no shared file is missing from the ranking once
\* share_file, pv_file and the building of the ranking have ended, however they
\* interleave.
RankingComplete == instance = "ranking" => NothingMissing
=============================================================================
