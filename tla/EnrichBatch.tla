----------------------------- MODULE EnrichBatch -----------------------------
(***************************************************************************)
(* The enrich rows of the jobs table as a drain works them: the collect    *)
(* pre-step polls every recorded batch, the submit pre-step claims pending *)
(* rows and hands them to the LLM provider as one batch, and the main loop *)
(* runs what is left, after the embed jobs. `lode add` runs a new row      *)
(* inline meanwhile, without the worker lock.                              *)
(*                                                                         *)
(* Each transaction and each call to the provider is a step of its own,    *)
(* and the drain can be killed between any two of them. Time is two bits:  *)
(* a failed row's backoff has elapsed, or a running row's claim has        *)
(* outlived stale_running_timeout_s, when the row is ripe.                 *)
(***************************************************************************)
EXTENDS Integers, FiniteSets, FiniteSetsExt

CONSTANTS
  MaxRows,       \* bound: enrich rows
  Inlined,       \* the rows `lode add` enqueued; an import, an ingest or the
                 \* reconcile scan enqueued the others
  Gateable,      \* bound: rows whose version may be gated out
  MaxBatches,    \* bound: batches the provider accepts
  MaxCrashes,    \* bound: processes killed
  MaxAttempts,   \* settings.retry_max_attempts
  FlushSize,     \* settings.enrichment_batch_flush_size
  CollectBudget, \* settings.batch_collect_failure_budget
  LateFailures   \* can a statement after the provider's accept raise
                 \* (the handle's UPDATE or the egress audit's INSERT)?

ASSUME EnrichBatchAssumption ==
  /\ {MaxRows, MaxBatches, MaxAttempts, FlushSize, CollectBudget} \subseteq Nat \ {0}
  /\ MaxCrashes \in Nat
  /\ Inlined \cup Gateable \subseteq 1..MaxRows
  /\ LateFailures \in BOOLEAN

Rows == 1..MaxRows
Batches == 1..MaxBatches
None == 0

VARIABLES
  row,      \* the enrich rows of the jobs table
  owner,    \* whose claimed_at a row carries: the drain's or an inline add's
  inline,   \* the inline run of each row's own add
  batch,    \* the provider's batches
  embed,    \* an embed job is pending
  keyed,    \* the provider's credential is configured
  gated,    \* the rows whose version is deleted, purged or no_egress
  enriched, \* the versions whose annotations are stored
  pc,       \* where the drain is
  todo,     \* the handles it has still to poll
  cur,      \* the handle whose results it is applying
  unread,   \* the rows whose results it has still to apply
  picked,   \* the rows of its SELECT, of its claim, or the row it runs
  crashes   \* processes killed so far

local == <<todo, cur, unread, picked>>
world == <<inline, embed, keyed, gated, crashes>>
vars == <<row, owner, inline, batch, embed, keyed, gated, enriched, pc, todo,
          cur, unread, picked, crashes>>

Row == [status : {"pending", "running", "failed", "done", "dead"},
        attempts : 0..MaxAttempts, handle : {None} \cup Batches,
        fails : 0..CollectBudget, ripe : BOOLEAN]

Init ==
  /\ row = [i \in Rows |-> [status |-> "pending", attempts |-> 0,
                            handle |-> None, fails |-> 0, ripe |-> FALSE]]
  /\ owner = [i \in Rows |-> "nobody"]
  /\ inline = [i \in Rows |-> IF i \in Inlined THEN "due" ELSE "over"]
  /\ batch = [b \in Batches |-> [state |-> "unused", of |-> {}, good |-> {}]]
  /\ embed \in BOOLEAN
  /\ keyed \in BOOLEAN
  /\ gated = {}
  /\ enriched = {}
  /\ pc = "idle"
  /\ todo = {} /\ cur = None /\ unread = {} /\ picked = {}
  /\ crashes = 0

RunningOn(b) == {i \in Rows : row[i].status = "running" /\ row[i].handle = b}
Pending == {i \in Rows : row[i].status = "pending"}

\* record_job_failure, for a claim that is in place.
Charge(r) ==
  IF r.attempts + 1 >= MaxAttempts
  THEN [r EXCEPT !.status = "dead", !.attempts = @ + 1]
  ELSE [r EXCEPT !.status = "failed", !.attempts = @ + 1, !.ripe = FALSE]

\* A claim: the status CAS and claimed_at, by a process.
ClaimAll(S, who) ==
  /\ row' = [i \in Rows |-> IF i \in S
               THEN [row[i] EXCEPT !.status = "running", !.ripe = FALSE]
               ELSE row[i]]
  /\ owner' = [i \in Rows |-> IF i \in S THEN who ELSE owner[i]]

SetStatus(S, status) ==
  row' = [i \in Rows |-> IF i \in S THEN [row[i] EXCEPT !.status = status]
                                    ELSE row[i]]

-----------------------------------------------------------------------------
(* _batch_collect_enrich.                                                  *)

\* The SELECT of the handles in flight.
StartDrain ==
  /\ pc = "idle"
  /\ pc' = "collect"
  /\ todo' = {row[i].handle : i \in {j \in Rows : row[j].status = "running"}}
             \ {None}
  /\ UNCHANGED <<row, owner, batch, world, enriched, cur, unread, picked>>

\* _reset_batch_collect_failures: a poll that did not raise.
PollAnswered(b) ==
  /\ row' = [i \in Rows |-> IF i \in RunningOn(b)
               THEN [row[i] EXCEPT !.fails = 0] ELSE row[i]]
  /\ todo' = todo \ {b}
  /\ pc' = "collect"

\* _record_batch_collect_failure: the poll raised, so every running row of
\* the handle counts it, and they all die when one has reached the budget.
PollRaised(b) ==
  LET spent == \E j \in RunningOn(b) : row[j].fails + 1 >= CollectBudget
  IN  /\ row' = [i \in Rows |->
           IF i \in RunningOn(b)
           THEN [row[i] EXCEPT !.fails = @ + 1,
                               !.status = IF spent THEN "dead" ELSE @]
           ELSE row[i]]
      /\ todo' = todo \ {b}
      /\ pc' = "collect"

PollPending(b) ==
  /\ pc = "collect" /\ b \in todo /\ keyed
  /\ batch[b].state = "cooking"
  /\ PollAnswered(b)
  /\ UNCHANGED <<owner, batch, world, enriched, cur, unread, picked>>

\* The poll raises before a result is read, or a result's transaction does.
PollRaises(b) ==
  /\ \/ pc = "collect" /\ b \in todo /\ keyed
     \/ pc \in {"apply", "receipt"} /\ b = cur
  /\ PollRaised(b)
  /\ cur' = None
  /\ unread' = {}
  /\ picked' = {}
  /\ UNCHANGED <<owner, batch, world, enriched>>

\* A missing credential ends the collect step at once; drain stashes it.
CollectAuth ==
  /\ pc = "collect" /\ todo # {} /\ ~keyed
  /\ pc' = "submit"
  /\ todo' = {}
  /\ UNCHANGED <<row, owner, batch, world, enriched, cur, unread, picked>>

\* The batch has ended: job_map is the running rows of the handle.
PollEnded(b) ==
  /\ pc = "collect" /\ b \in todo /\ keyed
  /\ batch[b].state = "ended"
  /\ pc' = "apply"
  /\ cur' = b
  /\ unread' = RunningOn(b) \cap batch[b].of
  /\ UNCHANGED <<row, owner, batch, world, enriched, todo, picked>>

\* Slip: the receipt is written before the annotations are.
ApplySuccessReceiptFirst(i) ==
  /\ pc = "apply" /\ i \in unread /\ i \in batch[cur].good
  /\ SetStatus({i}, "done")
  /\ picked' = {i}
  /\ pc' = "receipt"
  /\ UNCHANGED <<owner, batch, world, enriched, todo, cur, unread>>

\* A succeeded result: _write_enrichment commits, then the receipt does.
ApplySuccess(i) ==
  /\ pc = "apply" /\ i \in unread /\ i \in batch[cur].good
  /\ enriched' = enriched \cup {i}
  /\ picked' = {i}
  /\ pc' = "receipt"
  /\ UNCHANGED <<row, owner, batch, world, todo, cur, unread>>

WriteReceipt ==
  /\ pc = "receipt"
  /\ SetStatus(picked, "done")
  /\ unread' = unread \ picked
  /\ picked' = {}
  /\ pc' = "apply"
  /\ UNCHANGED <<owner, batch, world, enriched, todo, cur>>

\* An errored, expired, canceled or unparsable result: _mark_job_failed,
\* with the claim it reads from the row.
ApplyFailure(i) ==
  /\ pc = "apply" /\ i \in unread /\ i \notin batch[cur].good
  /\ row' = IF row[i].status = "running"
            THEN [row EXCEPT ![i] = Charge(@)] ELSE row
  /\ unread' = unread \ {i}
  /\ UNCHANGED <<owner, batch, world, enriched, pc, todo, cur, picked>>

AllApplied ==
  /\ pc = "apply" /\ unread = {}
  /\ PollAnswered(cur)
  /\ cur' = None
  /\ UNCHANGED <<owner, batch, world, enriched, unread, picked>>

CollectEnds ==
  /\ pc = "collect" /\ todo = {}
  /\ pc' = "submit"
  /\ UNCHANGED <<row, owner, batch, world, enriched, local>>

-----------------------------------------------------------------------------
(* _batch_submit_enrich and submit_enrich_batch.                           *)

\* The SELECT: the FlushSize oldest pending rows.
SubmitSelects ==
  /\ pc = "submit"
  /\ picked' = {i \in Pending : Cardinality({j \in Pending : j < i}) < FlushSize}
  /\ pc' = IF picked' = {} THEN "reclaim" ELSE "selected"
  /\ UNCHANGED <<row, owner, batch, world, enriched, todo, cur, unread>>

\* A statement before submit_enrich_batch raises: drain stashes it.
SubmitEscapes ==
  /\ pc \in {"submit", "selected"}
  /\ picked' = {}
  /\ pc' = "reclaim"
  /\ UNCHANGED <<row, owner, batch, world, enriched, todo, cur, unread>>

\* The claiming transaction: a row an inline add took meanwhile is dropped.
SubmitClaims ==
  /\ pc = "selected"
  /\ ClaimAll(picked \cap Pending, "drain")
  /\ picked' = picked \cap Pending
  /\ pc' = IF picked' = {} THEN "reclaim" ELSE "claimed"
  /\ UNCHANGED <<batch, world, enriched, todo, cur, unread>>

\* Rows whose version must not be sent are done before the send; with no
\* other row nothing is sent.
GateOut ==
  /\ pc = "claimed" /\ keyed
  /\ SetStatus(picked \cap gated, "done")
  /\ pc' = IF picked \subseteq gated THEN "reclaim" ELSE "send"
  /\ picked' = picked \ gated
  /\ UNCHANGED <<owner, batch, world, enriched, todo, cur, unread>>

\* The provider accepts the rows that were not gated out.
Send ==
  /\ pc = "send" /\ keyed
  /\ \E b \in Batches :
       /\ batch[b].state = "unused"
       /\ \A c \in Batches : c < b => batch[c].state # "unused"
       /\ batch' = [batch EXCEPT ![b] =
                      [state |-> "cooking", of |-> picked, good |-> {}]]
       /\ cur' = b
  /\ pc' = "sent"
  /\ UNCHANGED <<row, owner, world, enriched, todo, unread, picked>>

\* The handle is recorded on every row sent, whatever its status.
RecordHandle ==
  /\ pc = "sent"
  /\ row' = [i \in Rows |-> IF i \in batch[cur].of
               THEN [row[i] EXCEPT !.status = "running", !.handle = cur]
               ELSE row[i]]
  /\ pc' = "audit"
  /\ UNCHANGED <<owner, batch, world, enriched, local>>

\* log_egress.
Audit ==
  /\ pc = "audit"
  /\ pc' = "reclaim"
  /\ picked' = {}
  /\ cur' = None
  /\ UNCHANGED <<row, owner, batch, world, enriched, todo, unread>>

\* Slip: the missing credential is not stashed but ends the drain.
SubmitAuthEndsDrain ==
  /\ pc \in {"claimed", "send"} /\ ~keyed
  /\ SetStatus({i \in picked : row[i].status = "running"}, "pending")
  /\ pc' = "idle"
  /\ picked' = {}
  /\ UNCHANGED <<owner, batch, world, enriched, todo, cur, unread>>

\* A missing credential: the claimed rows go back uncharged, guarded by
\* their status alone, and drain stashes the exception.
SubmitAuth ==
  /\ pc \in {"claimed", "send"} /\ ~keyed
  /\ SetStatus({i \in picked : row[i].status = "running"}, "pending")
  /\ pc' = "reclaim"
  /\ picked' = {}
  /\ UNCHANGED <<owner, batch, world, enriched, todo, cur, unread>>

\* Anything else that raises inside submit_enrich_batch: failed, uncharged.
SubmitFails ==
  /\ \/ pc \in {"claimed", "send"}
     \/ LateFailures /\ pc \in {"sent", "audit"}
  /\ row' = [i \in Rows |-> IF i \in picked /\ row[i].status = "running"
               THEN [row[i] EXCEPT !.status = "failed", !.ripe = FALSE]
               ELSE row[i]]
  /\ pc' = "reclaim"
  /\ picked' = {}
  /\ cur' = None
  /\ UNCHANGED <<owner, batch, world, enriched, todo, unread>>

-----------------------------------------------------------------------------
(* The rest of the drain.                                                  *)

\* Slip: batch rows are not spared.
ReclaimBatchRows ==
  /\ pc = "reclaim"
  /\ row' = [i \in Rows |-> IF row[i].status = "running" /\ row[i].ripe
               THEN Charge(row[i]) ELSE row[i]]
  /\ pc' = "reset"
  /\ UNCHANGED <<owner, batch, world, enriched, local>>

\* _reclaim_stale_running: the stale claims of rows without a handle.
Reclaim ==
  /\ pc = "reclaim"
  /\ row' = [i \in Rows |->
       IF row[i].status = "running" /\ row[i].handle = None /\ row[i].ripe
       THEN Charge(row[i]) ELSE row[i]]
  /\ pc' = "reset"
  /\ UNCHANGED <<owner, batch, world, enriched, local>>

\* _reset_retryable.
ResetRetryable ==
  /\ pc = "reset"
  /\ SetStatus({i \in Rows : row[i].status = "failed" /\ row[i].ripe}, "pending")
  /\ pc' = "loop"
  /\ UNCHANGED <<owner, batch, world, enriched, local>>

\* The main loop takes the embed jobs first.
RunEmbed ==
  /\ pc = "loop" /\ embed
  /\ embed' = FALSE
  /\ UNCHANGED <<row, owner, inline, batch, keyed, gated, enriched, pc, local,
                 crashes>>

\* _claim_one, taken whole: JobQueue has its SELECT and its UPDATE apart.
LoopClaims ==
  /\ pc = "loop" /\ ~embed /\ Pending # {}
  /\ ClaimAll({Min(Pending)}, "drain")
  /\ picked' = {Min(Pending)}
  /\ pc' = "run"
  /\ UNCHANGED <<batch, world, enriched, todo, cur, unread>>

\* _enrich_handler returns: the version was gated out, or enriched.
RunWrites ==
  /\ pc = "run"
  /\ keyed \/ picked \subseteq gated
  /\ enriched' = enriched \cup (picked \ gated)
  /\ pc' = "wrote"
  /\ UNCHANGED <<row, owner, batch, world, local>>

RunSucceeds ==
  /\ pc = "wrote"
  /\ SetStatus(picked, "done")
  /\ picked' = {}
  /\ pc' = "loop"
  /\ UNCHANGED <<owner, batch, world, enriched, todo, cur, unread>>

\* It raises: record_job_failure, if the claim is still in place.
RunFails ==
  /\ pc = "run"
  /\ row' = [i \in Rows |->
       IF i \in picked /\ row[i].status = "running" /\ owner[i] = "drain"
       THEN Charge(row[i]) ELSE row[i]]
  /\ picked' = {}
  /\ pc' = "loop"
  /\ UNCHANGED <<owner, batch, world, enriched, todo, cur, unread>>

\* It misses the credential: the row goes back and the drain ends.
RunAuth ==
  /\ pc = "run" /\ ~keyed
  /\ SetStatus({i \in picked : row[i].status = "running" /\ owner[i] = "drain"},
               "pending")
  /\ picked' = {}
  /\ pc' = "idle"
  /\ UNCHANGED <<owner, batch, world, enriched, todo, cur, unread>>

DrainEnds ==
  /\ pc = "loop" /\ ~embed /\ Pending = {}
  /\ pc' = "idle"
  /\ UNCHANGED <<row, owner, batch, world, enriched, local>>

\* The process is killed: only the tables and the provider are left.
Crash ==
  /\ pc # "idle" /\ crashes < MaxCrashes
  /\ crashes' = crashes + 1
  /\ pc' = "idle"
  /\ todo' = {} /\ cur' = None /\ unread' = {} /\ picked' = {}
  /\ UNCHANGED <<row, owner, inline, batch, embed, keyed, gated, enriched>>

-----------------------------------------------------------------------------
(* The inline run of `lode add`, however long after its save: by then the   *)
(* row may have been tried, or sent, by a drain.                           *)

AddClaims(i) ==
  /\ inline[i] = "due"
  /\ row[i].status = "pending"
  /\ ClaimAll({i}, "add")
  /\ inline' = [inline EXCEPT ![i] = "running"]
  /\ UNCHANGED <<batch, embed, keyed, gated, enriched, pc, local, crashes>>

AddWrites(i) ==
  /\ inline[i] = "running"
  /\ keyed \/ i \in gated
  /\ enriched' = enriched \cup ({i} \ gated)
  /\ inline' = [inline EXCEPT ![i] = "wrote"]
  /\ UNCHANGED <<row, owner, batch, embed, keyed, gated, pc, local, crashes>>

AddSucceeds(i) ==
  /\ inline[i] = "wrote"
  /\ SetStatus({i}, "done")
  /\ inline' = [inline EXCEPT ![i] = "over"]
  /\ UNCHANGED <<owner, batch, embed, keyed, gated, enriched, pc, local,
                 crashes>>

AddFails(i) ==
  /\ inline[i] = "running"
  /\ row' = IF row[i].status = "running" /\ owner[i] = "add"
            THEN [row EXCEPT ![i] = Charge(@)] ELSE row
  /\ inline' = [inline EXCEPT ![i] = "over"]
  /\ UNCHANGED <<owner, batch, embed, keyed, gated, enriched, pc, local,
                 crashes>>

AddAuth(i) ==
  /\ inline[i] = "running" /\ ~keyed
  /\ SetStatus({j \in {i} : row[j].status = "running" /\ owner[j] = "add"}, "pending")
  /\ inline' = [inline EXCEPT ![i] = "over"]
  /\ UNCHANGED <<owner, batch, embed, keyed, gated, enriched, pc, local,
                 crashes>>

\* The add never reaches its inline run, or is killed in it.
AddGone(i) ==
  /\ \/ inline[i] = "due" /\ UNCHANGED crashes
     \/ /\ inline[i] \in {"running", "wrote"}
        /\ crashes < MaxCrashes
        /\ crashes' = crashes + 1
  /\ inline' = [inline EXCEPT ![i] = "over"]
  /\ UNCHANGED <<row, owner, batch, embed, keyed, gated, enriched, pc, local>>

-----------------------------------------------------------------------------
(* The environment.                                                        *)

\* The backoff of a failed row, or the timeout of a claim, elapses.
Ripen(i) ==
  /\ row[i].status \in {"failed", "running"} /\ ~row[i].ripe
  /\ row' = [row EXCEPT ![i] = [@ EXCEPT !.ripe = TRUE]]
  /\ UNCHANGED <<owner, batch, world, enriched, pc, local>>

\* The provider finishes a batch; good are the rows it succeeded for.
BatchEnds(b) ==
  /\ batch[b].state = "cooking"
  /\ \E good \in SUBSET batch[b].of :
       batch' = [batch EXCEPT ![b] = [@ EXCEPT !.state = "ended", !.good = good]]
  /\ UNCHANGED <<row, owner, world, enriched, pc, local>>

\* A capture, an edit or the reconcile scan enqueues an embed job.
EnqueueEmbed ==
  /\ ~embed
  /\ embed' = TRUE
  /\ UNCHANGED <<row, owner, inline, batch, keyed, gated, enriched, pc, local,
                 crashes>>

\* The user sets or removes the provider's credential.
ChangeKey ==
  /\ keyed' = ~keyed
  /\ UNCHANGED <<row, owner, inline, batch, embed, gated, enriched, pc, local,
                 crashes>>

\* A version is deleted, purged or marked no_egress.
Gate(i) ==
  /\ i \in Gateable \ gated
  /\ gated' = gated \cup {i}
  /\ UNCHANGED <<row, owner, inline, batch, embed, keyed, enriched, pc, local,
                 crashes>>

DrainStep ==
  \/ StartDrain \/ CollectAuth \/ WriteReceipt \/ AllApplied \/ CollectEnds
  \/ \E b \in Batches : PollPending(b) \/ PollRaises(b) \/ PollEnded(b)
  \/ \E i \in Rows : ApplySuccess(i) \/ ApplyFailure(i)
  \/ SubmitSelects \/ SubmitEscapes \/ SubmitClaims \/ GateOut \/ Send
  \/ RecordHandle \/ Audit \/ SubmitAuth \/ SubmitFails
  \/ Reclaim \/ ResetRetryable \/ RunEmbed \/ LoopClaims \/ RunWrites
  \/ RunSucceeds \/ RunFails \/ RunAuth \/ DrainEnds

AddStep(i) ==
  \/ AddClaims(i) \/ AddWrites(i) \/ AddSucceeds(i)
  \/ AddFails(i) \/ AddAuth(i) \/ AddGone(i)

Next ==
  \/ DrainStep
  \/ Crash
  \/ \E i \in Rows : AddStep(i) \/ Ripen(i) \/ Gate(i)
  \/ \E b \in Batches : BatchEnds(b)
  \/ EnqueueEmbed
  \/ ChangeKey

Spec == Init /\ [][Next]_vars

\* `lode work --loop` drains again and again, the provider finishes every
\* batch, and time passes. An inline run may stall for ever.
Fairness ==
  /\ WF_vars(DrainStep)
  /\ \A i \in Rows : WF_vars(Ripen(i))
  /\ \A b \in Batches : WF_vars(BatchEnds(b))

FairSpec == Spec /\ Fairness

-----------------------------------------------------------------------------
(* Properties.                                                             *)

TypeOK ==
  /\ row \in [Rows -> Row]
  /\ owner \in [Rows -> {"nobody", "drain", "add"}]
  /\ inline \in [Rows -> {"due", "running", "wrote", "over"}]
  /\ batch \in [Batches -> [state : {"unused", "cooking", "ended"},
                            of : SUBSET Rows, good : SUBSET Rows]]
  /\ embed \in BOOLEAN /\ keyed \in BOOLEAN
  /\ gated \subseteq Rows /\ enriched \subseteq Rows
  /\ pc \in {"idle", "collect", "apply", "receipt", "submit", "selected",
             "claimed", "send", "sent", "audit", "reclaim", "reset", "loop",
             "run", "wrote"}
  /\ todo \subseteq Batches /\ cur \in {None} \cup Batches
  /\ unread \subseteq Rows /\ picked \subseteq Rows
  /\ crashes \in 0..MaxCrashes

\* A done row is a version whose annotations are stored, or one that must not
\* be enriched: no crash between the two commits marks a result nobody kept.
DoneHasAnnotations ==
  \A i \in Rows : row[i].status = "done" => i \in enriched \cup gated

\* A row whose recorded batch is still with the provider is neither put back
\* in the queue, by a reclaim, a restart or a retry, where it would be sent and
\* paid for again (docs/storage.md, "that's money in flight"), nor given up
\* before the count of a row of its batch has reached the budget. (The count
\* need not be its own: rows of one batch may have brought different ones.)
InFlightRowsWait ==
  \A i \in Rows, b \in Batches :
    row[i].handle = b /\ batch[b].state = "cooking"
      => \/ row[i].status \in {"running", "done"}
         \/ /\ row[i].status = "dead"
            /\ \E j \in Rows : row[j].handle = b /\ row[j].fails = CollectBudget

\* An embed job is always reached, whatever becomes of the enrich work ahead
\* of it in the pass: a failing poll, a missing credential, a failed submit.
EmbedNotStarved == embed ~> ~embed

\* ... and, with a credential and once no more embed jobs come in ahead of them,
\* every enrich row is done or dead for good: a batch that cannot be collected
\* does not keep its rows running for ever.
RowsSettle ==
  /\ EmbedNotStarved
  /\ <>[](keyed /\ ~embed) => <>[](\A i \in Rows : row[i].status \in {"done", "dead"})
=============================================================================
