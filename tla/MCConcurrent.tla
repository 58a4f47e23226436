---------------------------- MODULE MCConcurrent ----------------------------
(***************************************************************************)
(* Two instances of FileStore that share the state and the properties: the *)
(* deployed programs, whose clients send anything to a schema without      *)
(* keys; and the programs with share_file enabled, for clients that act on *)
(* what they are shown.  A behaviour belongs to one of them from its start *)
(* on.                                                                     *)
(***************************************************************************)
EXTENDS MCFileStore

VARIABLE instance

Deployed ==
  INSTANCE SharedFiles WITH
    Commands <- DeployedCommands, UniqueKeys <- FALSE, ListedOnly <- FALSE,
    MaxRequests <- 4, MaxFaults <- 2
WithSharing ==
  INSTANCE SharedFiles WITH
    Commands <- AllCommands, UniqueKeys <- TRUE, ListedOnly <- TRUE,
    MaxRequests <- 5, MaxFaults <- 1

MCInit == Init /\ instance \in {"deployed", "sharing"}

MCNext ==
  /\ \/ instance = "deployed" /\ Deployed!Next
     \/ instance = "sharing" /\ WithSharing!Next
  /\ UNCHANGED instance

MCSpec == MCInit /\ [][MCNext]_<<vars, instance>>
=============================================================================
