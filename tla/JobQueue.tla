------------------------------ MODULE JobQueue ------------------------------
(***************************************************************************)
(* The durable jobs queue of lode as the per-job path works it: rows are   *)
(* enqueued by writers, a `lode work` drain reclaims stale claims, resets  *)
(* due retries and claims rows one by one, and the inline fast path of     *)
(* `lode add` claims and runs one row without taking the worker lock.      *)
(*                                                                         *)
(* Every SQL statement that another process can run between is a step of   *)
(* its own: the SELECT and the UPDATE of a claim, run_one's read of the    *)
(* row, the handler's outcome, a dead-letter hook, and the SELECT and the  *)
(* transaction of the crash reclaim. A crash forgets a process's memory    *)
(* and leaves the table alone. Batch-submitted enrich rows are the subject *)
(* of EnrichBatch.                                                         *)
(***************************************************************************)
EXTENDS Jobs

CONSTANTS
  Workers,      \* processes that drain the queue (`lode work`)
  Adders,       \* processes that run one row inline (`lode add`)
  HookKeys,     \* the keys whose type registers a dead-letter hook
  InlineKeys,   \* the keys the inline fast path runs (type enrich)
  KeyRank,      \* _claim_one's order of the types: embed, enrich, the rest
  StaleTimeout, \* settings.stale_running_timeout_s
  Suspends,     \* can a process be suspended past StaleTimeout between two
                \* adjacent statements (a paused or descheduled process)?
  MaxRows,      \* bound: rows ever inserted
  MaxCrashes,   \* bound: processes killed
  MaxAuthErrors \* bound: handlers that meet a missing credential

Procs == Workers \cup Adders
JobIds == 1..MaxRows

ASSUME ProcsAssumption == Workers \cap Adders = {}
ASSUME KeysAssumption ==
  /\ HookKeys \subseteq Keys
  /\ InlineKeys \subseteq Keys
  /\ KeyRank \in [Keys -> Nat]
  /\ NoKey \notin Keys
ASSUME TimeoutAssumption == StaleTimeout \in Nat \ {0}
ASSUME SuspendsAssumption == Suspends \in BOOLEAN
ASSUME BoundsAssumption ==
  /\ MaxRows \in Nat \ {0}
  /\ MaxCrashes \in Nat
  /\ MaxAuthErrors \in Nat

VARIABLES
  job,        \* the jobs table, by row id
  now,        \* lode.jobs.now(), taken to be common to the processes
  pc,         \* where each process is
  picked,     \* the row a process's claim SELECT returned, 0 for none
  sampled,    \* the clock a process read before that SELECT
  remembered, \* the claims (id, attempts, claimed_at) a process has read
  hookDue,    \* the rows a process drove to dead and owes the hook
  crashes,    \* processes killed so far
  authErrors, \* missing-credential failures so far
  charged,    \* history: failures recorded against each row
  hookRuns,   \* history: dead-letter hooks run for each row
  claimant    \* history: the processes that made a row's current claim

vars == <<job, now, pc, picked, sampled, remembered, hookDue, crashes,
          authErrors, charged, hookRuns, claimant>>

local == <<picked, sampled, remembered, hookDue>>
history == <<charged, hookRuns, claimant>>
bounds == <<crashes, authErrors>>

Claim == [id : JobIds, attempts : Nat, claimedAt : Nat]

\* INTEGER PRIMARY KEY: only a migration deletes rows, so the next id is the
\* lowest one never used.
IsNextId(i) ==
  \A j \in JobIds : job[j].status = "absent" <=> i <= j

LiveFor(k) == {i \in JobIds : IsLive(job[i]) /\ job[i].key = k}
RememberedClaim(i) == [id |-> i, attempts |-> job[i].attempts,
                       claimedAt |-> job[i].claimedAt]

\* Where a process goes when it has finished with a row.
AfterRow(p) == IF p \in Workers THEN "loop" ELSE "idle"

\* A row whose processing was cut off before this version of the program
\* recorded claim times reads back with a NULL claimed_at.
LegacyRow(k) == [NewRow(k, 1) EXCEPT !.status = "running"]

Init ==
  /\ \E k \in Keys, first \in BOOLEAN :
       job = [i \in JobIds |->
                IF i = 1 /\ first THEN LegacyRow(k) ELSE NoRow]
  /\ now = 1
  /\ pc = [p \in Procs |-> "idle"]
  /\ picked = [p \in Procs |-> 0]
  /\ sampled = [p \in Procs |-> 0]
  /\ remembered = [p \in Procs |-> {}]
  /\ hookDue = [p \in Procs |-> {}]
  /\ crashes = 0
  /\ authErrors = 0
  /\ charged = [i \in JobIds |-> 0]
  /\ hookRuns = [i \in JobIds |-> 0]
  /\ claimant = [i \in JobIds |-> {}]

\* A process leaves the row it was working on, and its memory of it.
Leave(p, to) ==
  /\ pc' = [pc EXCEPT ![p] = to]
  /\ picked' = [picked EXCEPT ![p] = 0]
  /\ sampled' = [sampled EXCEPT ![p] = 0]
  /\ remembered' = [remembered EXCEPT ![p] = {}]

-----------------------------------------------------------------------------
(* The writers that enqueue: save, ingest and the reconcile scan all run   *)
(* the same INSERT ... ON CONFLICT DO NOTHING.                             *)

Enqueue(k) ==
  /\ LiveFor(k) = {}
  /\ \E i \in JobIds :
       /\ IsNextId(i)
       /\ job' = [job EXCEPT ![i] = NewRow(k, now)]
  /\ UNCHANGED <<now, pc, local, bounds, history>>

-----------------------------------------------------------------------------
(* drain: reclaim stale claims, reset due retries, then claim and run.     *)

\* Slip: SQL's `claimed_at <= cutoff` alone, which no NULL satisfies.
IsStaleUnlessNull(row) ==
  row.status = "running" /\ row.claimedAt # Null
  /\ row.claimedAt + StaleTimeout <= now

IsStale(row) ==
  /\ row.status = "running"
  /\ row.claimedAt = Null \/ row.claimedAt + StaleTimeout <= now

\* _reclaim_stale_running's SELECT.
SelectStale(w) ==
  /\ pc[w] = "idle"
  /\ pc' = [pc EXCEPT ![w] = "reclaim"]
  /\ remembered' = [remembered EXCEPT ![w] =
       {RememberedClaim(i) : i \in {j \in JobIds : IsStale(job[j])}}]
  /\ UNCHANGED <<job, now, picked, sampled, hookDue, bounds, history>>

\* _reclaim_stale_running's transaction: each selected claim that is still
\* in place is failed by the retry policy, and the rows that died owe their
\* hook once it has committed.
ReclaimStale(w) ==
  LET held == {c \in remembered[w] : HoldsClaim(job[c.id], c.claimedAt)}
      rows == {c.id : c \in held}
      attemptsOf(i) == (CHOOSE c \in held : c.id = i).attempts
      failed == [i \in JobIds |-> AfterFailure(job[i], attemptsOf(i), now)]
  IN  /\ pc[w] = "reclaim"
      /\ job' = [i \in JobIds |-> IF i \in rows THEN failed[i] ELSE job[i]]
      /\ charged' = [i \in JobIds |->
                       IF i \in rows THEN charged[i] + 1 ELSE charged[i]]
      /\ hookDue' = [hookDue EXCEPT ![w] =
           {i \in rows : failed[i].status = "dead" /\ job[i].key \in HookKeys}]
      /\ remembered' = [remembered EXCEPT ![w] = {}]
      /\ pc' = [pc EXCEPT ![w] = "reclaimHooks"]
      /\ UNCHANGED <<now, picked, sampled, bounds, hookRuns, claimant>>

\* _reset_retryable: every failed row whose backoff has elapsed.
ResetRetryable(w) ==
  /\ pc[w] = "reclaimHooks"
  /\ hookDue[w] = {}
  /\ job' = [i \in JobIds |->
               IF job[i].status = "failed" /\ job[i].nextAt <= now
               THEN [job[i] EXCEPT !.status = "pending"]
               ELSE job[i]]
  /\ pc' = [pc EXCEPT ![w] = "loop"]
  /\ UNCHANGED <<now, local, bounds, history>>

Claimable == {i \in JobIds : job[i].status = "pending" /\ job[i].nextAt <= now}

\* ORDER BY type rank, id.
Precedes(i, j) ==
  \/ KeyRank[job[i].key] < KeyRank[job[j].key]
  \/ KeyRank[job[i].key] = KeyRank[job[j].key] /\ i <= j

\* _claim_one's SELECT, with the clock its caller read just before.
SelectClaim(p, i) ==
  /\ picked' = [picked EXCEPT ![p] = i]
  /\ sampled' = [sampled EXCEPT ![p] = now]
  /\ pc' = [pc EXCEPT ![p] = "selected"]
  /\ UNCHANGED <<job, now, remembered, hookDue, bounds, history>>

WorkerSelects(w) ==
  /\ pc[w] = "loop"
  /\ \E i \in Claimable :
       /\ \A j \in Claimable : Precedes(i, j)
       /\ SelectClaim(w, i)

\* Nothing claimable: drain returns.
DrainEnds(w) ==
  /\ pc[w] = "loop"
  /\ Claimable = {}
  /\ pc' = [pc EXCEPT ![w] = "idle"]
  /\ UNCHANGED <<job, now, local, bounds, history>>

\* claim_and_run_one on the row its own add has just enqueued.
AdderSelects(a, k) ==
  /\ pc[a] = "idle"
  /\ \E i \in Claimable :
       /\ job[i].key = k
       /\ \A j \in Claimable : job[j].key = k => i <= j
       /\ SelectClaim(a, i)

\* Slip: the UPDATE does not look at the status again.
ClaimRowUnchecked(p) ==
  /\ pc[p] = "selected"
  /\ job' = [job EXCEPT ![picked[p]].status = "running",
                        ![picked[p]].claimedAt = sampled[p]]
  /\ claimant' = [claimant EXCEPT ![picked[p]] = {p}]
  /\ pc' = [pc EXCEPT ![p] = "claimed"]
  /\ UNCHANGED <<now, local, bounds, charged, hookRuns>>

\* _claim_one's UPDATE finds the row still pending.
ClaimRow(p) ==
  LET i == picked[p]
  IN  /\ pc[p] = "selected"
      /\ job[i].status = "pending"
      /\ job' = [job EXCEPT ![i] = [@ EXCEPT !.status = "running",
                                            !.claimedAt = sampled[p]]]
      /\ claimant' = [claimant EXCEPT ![i] = {p}]
      /\ pc' = [pc EXCEPT ![p] = "claimed"]
      /\ UNCHANGED <<now, local, bounds, charged, hookRuns>>

\* Another process took the row first: rowcount 0, so _claim_one returns
\* None and the whole drain (or the inline run) ends.
LoseClaim(p) ==
  /\ pc[p] = "selected"
  /\ job[picked[p]].status # "pending"
  /\ Leave(p, "idle")
  /\ UNCHANGED <<job, now, hookDue, bounds, history>>

-----------------------------------------------------------------------------
(* run_one.                                                                *)

\* The SELECT that opens run_one. It reads the row as it is now.
ReadRow(p) ==
  /\ pc[p] = "claimed"
  /\ remembered' = [remembered EXCEPT ![p] = {RememberedClaim(picked[p])}]
  /\ sampled' = [sampled EXCEPT ![p] = 0]
  /\ pc' = [pc EXCEPT ![p] = "running"]
  /\ UNCHANGED <<job, now, picked, hookDue, bounds, history>>

\* The handler returned: the success UPDATE is not guarded by the claim.
Succeed(p) ==
  /\ pc[p] = "running"
  /\ job' = [job EXCEPT ![picked[p]] = [@ EXCEPT !.status = "done"]]
  /\ Leave(p, AfterRow(p))
  /\ UNCHANGED <<now, hookDue, bounds, history>>

\* The handler raised: record_job_failure, then the hook if this very call
\* drove the row to dead.
FailHeld(p) ==
  \E c \in remembered[p] :
    LET row == AfterFailure(job[c.id], c.attempts, now)
        owed == IF row.status = "dead" /\ row.key \in HookKeys
                THEN {c.id} ELSE {}
    IN  /\ pc[p] = "running"
        /\ HoldsClaim(job[c.id], c.claimedAt)
        /\ job' = [job EXCEPT ![c.id] = row]
        /\ charged' = [charged EXCEPT ![c.id] = @ + 1]
        /\ hookDue' = [hookDue EXCEPT ![p] = owed]
        /\ Leave(p, IF owed = {} THEN AfterRow(p) ELSE "runHook")
        /\ UNCHANGED <<now, bounds, hookRuns, claimant>>

\* The handler raised but the claim was lost: claim_lost, no update, no hook.
FailLost(p) ==
  /\ pc[p] = "running"
  /\ \A c \in remembered[p] : ~HoldsClaim(job[c.id], c.claimedAt)
  /\ Leave(p, AfterRow(p))
  /\ UNCHANGED <<job, now, hookDue, bounds, history>>

\* Slip: the row goes back to pending whatever has become of it.
AuthFailUnguarded(p) ==
  /\ pc[p] = "running"
  /\ authErrors < MaxAuthErrors
  /\ authErrors' = authErrors + 1
  /\ job' = [job EXCEPT ![picked[p]].status = "pending"]
  /\ Leave(p, "idle")
  /\ UNCHANGED <<now, hookDue, crashes, history>>

\* The handler met a missing credential: the claim, if still held, goes back
\* to pending uncharged, and the exception ends the drain or the inline run.
AuthFail(p) ==
  /\ pc[p] = "running"
  /\ authErrors < MaxAuthErrors
  /\ authErrors' = authErrors + 1
  /\ \E c \in remembered[p] :
       job' = IF HoldsClaim(job[c.id], c.claimedAt)
              THEN [job EXCEPT ![c.id] = [@ EXCEPT !.status = "pending"]]
              ELSE job
  /\ Leave(p, "idle")
  /\ UNCHANGED <<now, hookDue, crashes, history>>

\* _run_dead_letter_hook, after the commit that drove the row to dead.
RunHook(p) ==
  \E i \in hookDue[p] :
    /\ pc[p] \in {"reclaimHooks", "runHook"}
    /\ hookRuns' = [hookRuns EXCEPT ![i] = @ + 1]
    /\ hookDue' = [hookDue EXCEPT ![p] = @ \ {i}]
    /\ pc' = IF pc[p] = "runHook" THEN [pc EXCEPT ![p] = AfterRow(p)] ELSE pc
    /\ UNCHANGED <<job, now, picked, sampled, remembered, bounds,
                   charged, claimant>>

-----------------------------------------------------------------------------
(* The environment.                                                        *)

\* A process is killed: its memory is gone, its claims stay in the table.
Crash(p) ==
  /\ pc[p] # "idle"
  /\ crashes < MaxCrashes
  /\ crashes' = crashes + 1
  /\ Leave(p, "idle")
  /\ hookDue' = [hookDue EXCEPT ![p] = {}]
  /\ UNCHANGED <<job, now, authErrors, history>>

\* Time matters to a row that waits for its backoff or to become stale.
Waits(row) ==
  \/ row.status \in {"failed", "pending"} /\ row.nextAt > now
  \/ row.status = "running" /\ row.claimedAt + StaleTimeout > now

\* Unless processes are suspended, less than StaleTimeout passes between the
\* clock reading of a claim and run_one's read of the row.
Prompt ==
  \A p \in Procs :
    pc[p] \in {"selected", "claimed"} => now + 1 < sampled[p] + StaleTimeout

Tick ==
  /\ \E i \in JobIds : Waits(job[i])
  /\ Suspends \/ Prompt
  /\ now' = now + 1
  /\ UNCHANGED <<job, pc, local, bounds, history>>

-----------------------------------------------------------------------------
ProcStep(p) ==
  \/ ClaimRow(p)
  \/ LoseClaim(p)
  \/ ReadRow(p)
  \/ Succeed(p)
  \/ FailHeld(p)
  \/ FailLost(p)
  \/ AuthFail(p)
  \/ RunHook(p)

WorkerStep(w) ==
  \/ SelectStale(w)
  \/ ReclaimStale(w)
  \/ ResetRetryable(w)
  \/ WorkerSelects(w)
  \/ DrainEnds(w)
  \/ ProcStep(w)

Next ==
  \/ \E k \in Keys : Enqueue(k)
  \/ \E w \in Workers : WorkerStep(w)
  \/ \E a \in Adders : ProcStep(a)
  \/ \E a \in Adders, k \in InlineKeys : AdderSelects(a, k)
  \/ \E p \in Procs : Crash(p)
  \/ Tick

Spec == Init /\ [][Next]_vars

\* `lode work --loop` keeps draining, a handler returns or raises, an inline
\* run goes on once it has begun, and time passes. Nobody must enqueue.
Fairness ==
  /\ \A w \in Workers : WF_vars(WorkerStep(w))
  /\ \A a \in Adders : WF_vars(ProcStep(a))
  /\ WF_vars(Tick)

FairSpec == Spec /\ Fairness

-----------------------------------------------------------------------------
(* Properties.                                                             *)

TypeOK ==
  /\ job \in [JobIds -> Row]
  /\ now \in Nat \ {0}
  /\ pc \in [Procs -> {"idle", "reclaim", "reclaimHooks", "loop", "selected",
                       "claimed", "running", "runHook"}]
  /\ picked \in [Procs -> 0..MaxRows]
  /\ \A p \in Procs :
       pc[p] \in {"selected", "claimed", "running"} => picked[p] \in JobIds
  /\ sampled \in [Procs -> Nat]
  /\ remembered \in [Procs -> SUBSET Claim]
  /\ hookDue \in [Procs -> SUBSET JobIds]
  /\ crashes \in Nat
  /\ authErrors \in Nat
  /\ charged \in [JobIds -> Nat]
  /\ hookRuns \in [JobIds -> Nat]
  /\ claimant \in [JobIds -> SUBSET Procs]

\* At most one live row per (type, target_version), whatever a stalled, late
\* or crashed runner writes: idx_jobs_live guards the INSERTs only, so no
\* UPDATE may bring a row that has left the live set back into it.
OneLiveRowPerKey ==
  \A i, j \in JobIds :
    IsLive(job[i]) /\ IsLive(job[j]) /\ job[i].key = job[j].key => i = j

\* A row is charged within its budget and is dead only at its last attempt.
AttemptsWithinBudget ==
  \A i \in JobIds :
    /\ job[i].attempts <= MaxAttempts
    /\ IsLive(job[i]) => job[i].attempts < MaxAttempts
    /\ job[i].status = "dead" => job[i].attempts = MaxAttempts

\* The dead-letter hook runs at most once for a row, and only for one whose
\* attempts were exhausted, whoever else failed, reclaimed or finished it.
HookAtMostOnce ==
  \A i \in JobIds :
    /\ hookRuns[i] <= 1
    /\ hookRuns[i] = 1 => job[i].attempts = MaxAttempts

\* done is final and a dead row can only be finished by a late success
\* (docs/storage.md, "a late success WINS").
TerminalStaysTerminal ==
  [][\A i \in JobIds :
       /\ job[i].status = "done" => job'[i] = job[i]
       /\ job[i].status = "dead" =>
            job'[i] \in {job[i], [job[i] EXCEPT !.status = "done"]}]_vars

\* Two failures of a row are two attempts charged to it: no recorded failure
\* is overwritten by a writer that read the row before it.
EveryFailureCharged ==
  \A i \in JobIds : job[i].attempts = charged[i]

\* A runner's failure or reset lands only on the claim that runner made.
OnlyClaimantReleases ==
  [][\A p \in Procs, i \in JobIds :
       /\ pc[p] = "running" /\ pc'[p] # "running"
       /\ job[i].status = "running"
       /\ job'[i].status \in {"failed", "dead", "pending"}
       => p \in claimant[i]]_vars

\* The crash reclaim takes a claim away only once it has really gone stale.
ReclaimOnlyStale ==
  [][\A w \in Workers, i \in JobIds :
       /\ pc[w] = "reclaim" /\ pc'[w] = "reclaimHooks"
       /\ job'[i] # job[i]
       => IsStale(job[i])]_vars

\* Every live row is eventually done or dead, through any crashes, retries,
\* reclaims and lost claims.
EveryRowSettles ==
  \A i \in JobIds : IsLive(job[i]) ~> job[i].status \in {"done", "dead"}

\* What a status is in the lifecycle the queue promises.
PhaseOf(status) ==
  CASE status = "absent" -> "none"
    [] status \in {"pending", "failed"} -> "waiting"
    [] status = "running" -> "working"
    [] OTHER -> status

LifecycleRow ==
  [i \in JobIds |-> [phase |-> PhaseOf(job[i].status), key |-> job[i].key,
                     failures |-> job[i].attempts]]

Lifecycle ==
  INSTANCE JobLifecycle WITH
    Rows <- JobIds, Budget <- MaxAttempts, row <- LifecycleRow

\* The retries, claims, reclaims and crashes of several processes amount to
\* one history per row, in which each failure is charged once, the row is
\* given up at the last one, and a success is final.
ImplementsLifecycle == Lifecycle!Spec
=============================================================================
