---------------------------- MODULE NoteHistory ----------------------------
(***************************************************************************)
(* What a note's version store promises: versions are only ever added, a   *)
(* new version is a child of the one that is current at that moment, and   *)
(* going back makes an older version current without writing one. Notes    *)
(* implements it.                                                          *)
(*                                                                         *)
(* A version is the sequence of the texts saved from the root down to it:  *)
(* version_id is a hash of the note, the parent and the body, so two       *)
(* versions with the same sequence are one row.                            *)
(***************************************************************************)
EXTENDS Sequences, Naturals

CONSTANT Bodies   \* the texts a note can have
VARIABLES
  versions,       \* the versions written so far
  current         \* the head, <<>> before the note exists

history == <<versions, current>>

Init == versions = {} /\ current = <<>>

Extend(b) ==
  /\ current' = Append(current, b)
  /\ versions' = versions \cup {current'}

GoBack(v) == v \in versions /\ current' = v /\ UNCHANGED versions

Next == \/ \E b \in Bodies : Extend(b)
        \/ \E v \in versions : GoBack(v)

Spec == Init /\ [][Next]_history
=============================================================================
