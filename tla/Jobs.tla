-------------------------------- MODULE Jobs --------------------------------
(***************************************************************************)
(* The rules of src/lode/jobs.py that every writer of the jobs table       *)
(* shares: the row, the live statuses of the partial unique index, the     *)
(* retry policy and the compare-and-swap guard on a claim.                 *)
(*                                                                         *)
(* A row is a record; a timestamp is a natural number of ticks, and Null   *)
(* is SQL's NULL in claimed_at (the clock starts at 1).                    *)
(***************************************************************************)
EXTENDS Integers, FiniteSets, FiniteSetsExt

CONSTANTS
  Keys,         \* the (type, target_version) pairs a row can be for
  MaxAttempts,  \* settings.retry_max_attempts
  Delay         \* Delay[n]: the backoff after the n-th failed attempt

ASSUME MaxAttemptsAssumption == MaxAttempts \in Nat \ {0}
ASSUME DelayAssumption == Delay \in [1..MaxAttempts -> Nat \ {0}]

Null == 0
NoKey == "no key"

LiveStatuses == {"pending", "running", "failed"}
Statuses == LiveStatuses \cup {"absent", "done", "dead"}

Row == [status : Statuses, key : Keys \cup {NoKey}, attempts : Nat,
        nextAt : Nat, claimedAt : Nat]

NoRow == [status |-> "absent", key |-> NoKey, attempts |-> 0,
          nextAt |-> 0, claimedAt |-> Null]

\* The row an INSERT of enqueue_derive_jobs creates at time t.
NewRow(k, t) == [status |-> "pending", key |-> k, attempts |-> 0,
                 nextAt |-> t, claimedAt |-> Null]

IsLive(row) == row.status \in LiveStatuses

\* backoff_next_attempt_at: exponential, capped. An instance gives Delay
\* its value with this operator.
Backoff(base, cap, n) == Min({base * 2^(n - 1), cap})

\* next_failure_state and the SET clause that records it: one more attempt
\* is charged, and the row is dead at the last one or waits for its backoff.
AfterFailure(row, attempts, t) ==
  IF attempts + 1 >= MaxAttempts
  THEN [row EXCEPT !.status = "dead", !.attempts = attempts + 1]
  ELSE [row EXCEPT !.status = "failed", !.attempts = attempts + 1,
                   !.nextAt = t + Delay[attempts + 1]]

\* cas_update_running's WHERE clause, for the claim a caller remembers.
HoldsClaim(row, claimedAt) ==
  row.status = "running" /\ row.claimedAt = claimedAt
=============================================================================
