----------------------------- MODULE MCSession -----------------------------
(***************************************************************************)
(* Instances of Session for TLC.                                           *)
(***************************************************************************)
EXTENDS Session, TLC

CONSTANTS n1, n2

TwoUserNames == {n1, n2}

Symmetry == Permutations(UserNames)
=============================================================================
