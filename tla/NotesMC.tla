------------------------------ MODULE NotesMC ------------------------------
(***************************************************************************)
(* Notes on a small instance: two texts, one of which holds a secret that  *)
(* redaction cuts out. The users are interchangeable.                      *)
(***************************************************************************)
EXTENDS Notes, TLC

MCClean == [b \in Bodies |-> IF b = "secret" THEN "cut" ELSE b]
Symmetry == Permutations(Users)
=============================================================================
