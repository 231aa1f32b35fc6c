---------------------------- MODULE JobLifecycle ----------------------------
(***************************************************************************)
(* What the jobs queue promises about a row, whatever processes work it:   *)
(* the pending -> running -> done/failed/dead lifecycle of docs/storage.md *)
(* with the retries hidden. A row is worked by one claim at a time, every  *)
(* failure is charged once, the row is given up exactly when its budget is *)
(* spent, one live row exists per key, and a success is final, even one    *)
(* that arrives after the row was given up.                                *)
(***************************************************************************)
EXTENDS Integers

CONSTANTS
  Rows,    \* row identifiers
  Keys,    \* what a row can be for
  NoKey,   \* the key of a row that does not exist yet
  Budget   \* failures a row may have before it is given up

VARIABLE row

Phases == {"none", "waiting", "working", "done", "dead"}
Live == {"waiting", "working"}

Init ==
  row \in [Rows -> {[phase |-> "none", key |-> NoKey, failures |-> 0]}
                   \cup [phase : {"working"}, key : Keys, failures : {0}]]

Submit(i) ==
  /\ row[i].phase = "none"
  /\ \E k \in Keys :
       /\ \A j \in Rows : row[j].key = k => row[j].phase \notin Live
       /\ row'[i] = [phase |-> "waiting", key |-> k, failures |-> 0]

\* Row i enters a phase with that many failures charged to it.
Enters(i, phase, failures) ==
  row'[i] = [phase |-> phase, key |-> row[i].key, failures |-> failures]

Start(i) ==
  /\ row[i].phase = "waiting"
  /\ Enters(i, "working", row[i].failures)

Release(i) ==
  /\ row[i].phase = "working"
  /\ Enters(i, "waiting", row[i].failures)

Retry(i) ==
  /\ row[i].phase = "working"
  /\ row[i].failures + 1 < Budget
  /\ Enters(i, "waiting", row[i].failures + 1)

GiveUp(i) ==
  /\ row[i].phase = "working"
  /\ row[i].failures + 1 = Budget
  /\ Enters(i, "dead", row[i].failures + 1)

Finish(i) ==
  /\ row[i].phase \in {"waiting", "working", "dead"}
  /\ Enters(i, "done", row[i].failures)

RowStep(i) ==
  \/ Submit(i) \/ Start(i) \/ Release(i)
  \/ Retry(i) \/ GiveUp(i) \/ Finish(i)

\* One transaction may move several rows, each by one of these steps.
Next ==
  /\ row' \in [Rows -> [phase : Phases, key : Keys \cup {NoKey}, failures : Nat]]
  /\ \A i \in Rows : row'[i] = row[i] \/ RowStep(i)

Spec == Init /\ [][Next]_row
=============================================================================
