----------------------------- MODULE SnapshotsMC -----------------------------
(***************************************************************************)
(* Snapshots on a small instance: one URL in the note, one the site may    *)
(* redirect it to. The processes are interchangeable.                      *)
(***************************************************************************)
EXTENDS Snapshots, TLC

Symmetry == Permutations(Procs)
=============================================================================
