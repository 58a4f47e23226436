----------------------------- MODULE MCHelpers -----------------------------
(***************************************************************************)
(* The helpers of the programs, each for every input up to its bound: the  *)
(* taking apart of an upload's body (Receive), the texts of cgi_util.c     *)
(* (CgiText), base64 (Base64) and the md5 digest (Md5Digest).  A behaviour *)
(* runs one of them.                                                       *)
(***************************************************************************)
EXTENDS Receive, CgiText, Base64, Md5Digest

VARIABLE helper  \* the helper that is run

\* The key that is looked for in a query is a name of one character.
OneCharacter == <<"c">>

MCInit ==
  /\ helper \in {"receive", "cgi", "base64", "md5"}
  /\ Init
  /\ helper # "receive" => data = <<>> /\ old = <<>>
  /\ TextInit
  /\ OctetsInit
  /\ Md5Init

MCNext ==
  /\ \/ helper = "receive" /\ Next /\ UNCHANGED <<text, octets, mvars>>
     \/ helper = "cgi" /\ TextNext /\ UNCHANGED <<rvars, octets, mvars>>
     \/ helper = "base64" /\ OctetsNext /\ UNCHANGED <<rvars, text, mvars>>
     \/ helper = "md5" /\ Md5Next /\ UNCHANGED <<rvars, text, octets>>
  /\ UNCHANGED helper

MCSpec == MCInit /\ [][MCNext]_<<helper, rvars, text, octets, mvars>>
=============================================================================
