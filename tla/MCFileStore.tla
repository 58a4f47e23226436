---------------------------- MODULE MCFileStore ----------------------------
(***************************************************************************)
(* Values of the constants of FileStore for TLC.                           *)
(***************************************************************************)
EXTENDS SharedFiles, TLC

CONSTANTS u1, u2, m1, m2, n1, n2, f1, f2, f3, f4

OneUser == {u1}
TwoUsers == {u1, u2}
OneMd5 == {m1}
TwoMd5s == {m1, m2}
OneName == {n1}
TwoNames == {n1, n2}
TwoFiles == {f1, f2}
ThreeFiles == {f1, f2, f3}
FourFiles == {f1, f2, f3, f4}

\* The order of the redis members: by md5, then by name.
Lex ==
  [x \in ShareKey |-> (IF x.md5 = m1 THEN 0 ELSE 2) + (IF x.name = n1 THEN 0 ELSE 1)]
FirstPage == {<<0, 2>>}

DeployedCommands == {"upload", "md5", "del"}
AllCommands == DeployedCommands \cup {"share"}
ShareOnlyCommands == {"share", "pv", "cancel", "save", "count", "normal", "pvdesc"}

Symmetry ==
  Permutations(Users) \cup Permutations(Md5s) \cup Permutations(Names)
    \cup Permutations(FileIds)
=============================================================================
