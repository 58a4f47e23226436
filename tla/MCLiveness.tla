----------------------------- MODULE MCLiveness -----------------------------
(***************************************************************************)
(* Instances of FileStore without failures, under fairness: the programs   *)
(* of the files, those of the shared files, and the loops over the ranking *)
(* next to share_file and cancel_share_file alone.  A behaviour belongs to *)
(* one of them from its start on.                                          *)
(***************************************************************************)
EXTENDS MCFileStore

VARIABLE instance

Files ==
  INSTANCE SharedFiles WITH
    Commands <- DeployedCommands, ListedOnly <- FALSE, MaxRequests <- 4
Shared ==
  INSTANCE SharedFiles WITH
    Commands <- ShareOnlyCommands, ListedOnly <- FALSE, MaxRequests <- 3
Ranking ==
  INSTANCE SharedFiles WITH
    Commands <- {"share", "cancel", "pvdesc"}, ListedOnly <- FALSE, MaxRequests <- 4

MCInit == Init /\ instance \in {"files", "shared", "ranking"}

MCNext ==
  /\ \/ instance = "files" /\ Files!Next
     \/ instance = "shared" /\ Shared!Next
     \/ instance = "ranking" /\ Ranking!Next
  /\ UNCHANGED instance

\* The steps behind FCGI_Accept are the same in every instance.
MCFairSpec == MCInit /\ [][MCNext]_<<vars, instance>> /\ Fairness
=============================================================================
