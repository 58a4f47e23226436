------------------------------ MODULE MCPages ------------------------------
(***************************************************************************)
(* The pages of the web client, each with the part of the server that      *)
(* answers it.  A behaviour is that of one page.                           *)
(***************************************************************************)
EXTENDS UploadPage, DeletePage, LoginPage

VARIABLE shown  \* the page

MCInit ==
  /\ shown \in {"upload", "delete", "login"}
  /\ UploadInit /\ (shown # "upload" => patient)
  /\ DeleteInit
  /\ LoginInit /\ (shown # "login" => ~steady)

MCNext ==
  /\ \/ shown = "upload" /\ UploadNext /\ UNCHANGED <<dvars, lvars>>
     \/ shown = "delete" /\ DeleteNext /\ UNCHANGED <<pvars, lvars>>
     \/ shown = "login" /\ LoginNext /\ UNCHANGED <<pvars, dvars>>
  /\ UNCHANGED shown

\* The callbacks of the upload page run, as in UploadPage.
MCSpec ==
  /\ MCInit /\ [][MCNext]_<<shown, pvars, dvars, lvars>>
  /\ WF_pvars(shown = "upload" /\ Callback)
=============================================================================
