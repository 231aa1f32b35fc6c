----------------------------- MODULE JobQueueMC -----------------------------
(***************************************************************************)
(* JobQueue on a small instance: an enrich row the inline path also runs,  *)
(* and a refresh row whose type registers a dead-letter hook.              *)
(***************************************************************************)
EXTENDS JobQueue

MCKeys == {"enrich n", "refresh x"}
MCHookKeys == {"refresh x"}
MCInlineKeys == {"enrich n"}
MCKeyRank == [k \in MCKeys |-> IF k = "enrich n" THEN 1 ELSE 2]
MCDelay == [n \in 1..MaxAttempts |-> Backoff(1, 2, n)]
=============================================================================
