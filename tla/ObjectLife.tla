------------------------------ MODULE ObjectLife ------------------------------
(***************************************************************************)
(* What the programs promise about the life of an object in FastDFS,       *)
(* seen from outside: the storage hands out an id once, an object is       *)
(* pending until its row is in file_info, it is linked as long as a row    *)
(* names it, and only an object that no row names, and that no upload is   *)
(* going to name, is removed.  An object never comes back.                 *)
(***************************************************************************)
CONSTANT FileIds

VARIABLE phase  \* file id -> where its object is in its life

Phases == {"free", "pending", "linked", "orphan", "removed"}

Init == phase = [f \in FileIds |-> "free"]

Move(f, from, to) == phase[f] = from /\ phase' = [phase EXCEPT ![f] = to]

\* FastDFS stores an object, and cgi_upload learns of it.
Store(f) == Move(f, "free", "pending")

\* FastDFS stores an object, and the answer is lost.
Lose(f) == Move(f, "free", "orphan")

\* A row is inserted for the object, or its upload fails first.
Link(f) == Move(f, "pending", "linked")
Abandon(f) == Move(f, "pending", "orphan")

\* The rows of a content are deleted: one statement, as many objects as rows.
Unlink(F) ==
  /\ \A f \in F : phase[f] = "linked"
  /\ phase' = [f \in FileIds |-> IF f \in F THEN "orphan" ELSE phase[f]]

\* fdfs_delete_file.
Remove(f) == Move(f, "orphan", "removed")

Next ==
  \/ \E f \in FileIds : Store(f) \/ Lose(f) \/ Link(f) \/ Abandon(f) \/ Remove(f)
  \/ \E F \in SUBSET FileIds : Unlink(F)

Spec == Init /\ [][Next]_phase

\* An object that loses its row does not stay (where no call fails).
UnlinkedGo ==
  \A f \in FileIds :
    (phase[f] = "linked" /\ <>(phase[f] = "orphan")) ~> (phase[f] = "removed")
==================================================
