--------------------------- MODULE JobQueueProofs ---------------------------
(***************************************************************************)
(* Theorems about JobQueue, for every number of processes, rows, keys and  *)
(* attempts, and about the lock that leaves one worker to drain it.        *)
(***************************************************************************)
EXTENDS JobQueue, WorkerLock, TLAPS

USE DEF Null, NoKey

-----------------------------------------------------------------------------
(* What the shared rules of the jobs table return.                         *)

\* A recorded failure leaves a well-typed row: the backoff is looked up only
\* when the row is retried.
LEMMA AfterFailureType ==
  ASSUME NEW r \in Row, NEW n \in Nat, NEW t \in Nat
  PROVE  /\ AfterFailure(r, n, t) \in Row
         /\ AfterFailure(r, n, t).status \in {"failed", "dead"}
         /\ AfterFailure(r, n, t).key = r.key
         /\ AfterFailure(r, n, t).attempts = n + 1
         /\ AfterFailure(r, n, t).claimedAt = r.claimedAt
         /\ AfterFailure(r, n, t).status = "failed" => n + 1 < MaxAttempts
         /\ AfterFailure(r, n, t).status = "dead" => n + 1 >= MaxAttempts
<1>1. CASE n + 1 >= MaxAttempts
  <2>1. n + 1 \in Nat
    OBVIOUS
  <2> QED
    BY <1>1, <2>1 DEF AfterFailure, Row, Statuses, LiveStatuses
<1>2. CASE ~(n + 1 >= MaxAttempts)
  <2>1. Delay[n + 1] \in Nat
    BY <1>2, MaxAttemptsAssumption, DelayAssumption
  <2>2. t + Delay[n + 1] \in Nat
    BY <2>1
  <2>3. n + 1 \in Nat /\ n + 1 < MaxAttempts
    BY <1>2, MaxAttemptsAssumption
  <2> QED
    BY <1>2, <2>2, <2>3 DEF AfterFailure, Row, Statuses, LiveStatuses
<1> QED
  BY <1>1, <1>2

LEMMA FailureStatus ==
  ASSUME NEW r \in Row, NEW n \in Nat, NEW t \in Nat
  PROVE  AfterFailure(r, n, t).status \in {"failed", "dead"}
BY AfterFailureType

LEMMA FailureAttempts ==
  ASSUME NEW r \in Row, NEW n \in Nat, NEW t \in Nat
  PROVE  AfterFailure(r, n, t).attempts = n + 1
BY AfterFailureType

LEMMA FailureKey ==
  ASSUME NEW r \in Row, NEW n \in Nat, NEW t \in Nat
  PROVE  AfterFailure(r, n, t).key = r.key
BY AfterFailureType

\* Setting the status of a row, or its status and claim time.
LEMMA StatusUpdate ==
  ASSUME NEW r \in Row, NEW s \in Statuses
  PROVE  /\ [r EXCEPT !.status = s] \in Row
         /\ [r EXCEPT !.status = s].status = s
         /\ [r EXCEPT !.status = s].key = r.key
         /\ [r EXCEPT !.status = s].attempts = r.attempts
         /\ [r EXCEPT !.status = s].claimedAt = r.claimedAt
BY DEF Row

LEMMA ClaimUpdate ==
  ASSUME NEW r \in Row, NEW t \in Nat
  PROVE  /\ [r EXCEPT !.status = "running", !.claimedAt = t] \in Row
         /\ [r EXCEPT !.status = "running", !.claimedAt = t].status = "running"
         /\ [r EXCEPT !.status = "running", !.claimedAt = t].key = r.key
         /\ [r EXCEPT !.status = "running", !.claimedAt = t].attempts = r.attempts
         /\ [r EXCEPT !.status = "running", !.claimedAt = t].claimedAt = t
BY DEF Row, Statuses, LiveStatuses

LEMMA NewRowType ==
  ASSUME NEW k \in Keys, NEW t \in Nat
  PROVE  NewRow(k, t) \in Row /\ LegacyRow(k) \in Row /\ NoRow \in Row
BY DEF NewRow, LegacyRow, NoRow, Row, Statuses, LiveStatuses

-----------------------------------------------------------------------------
(* Type correctness.                                                       *)

LEMMA TypeInit == Init => TypeOK
<1> SUFFICES ASSUME Init PROVE TypeOK
  OBVIOUS
<1>1. job \in [JobIds -> Row]
  <2>1. PICK k \in Keys, first \in BOOLEAN :
          job = [i \in JobIds |-> IF i = 1 /\ first THEN LegacyRow(k) ELSE NoRow]
    BY DEF Init
  <2> QED
    BY <2>1, NewRowType
<1>2. /\ picked \in [Procs -> 0..MaxRows]
      /\ now \in Nat \ {0}
  BY BoundsAssumption DEF Init
<1> QED
  BY <1>1, <1>2 DEF Init, TypeOK

\* The claims a process reads from the table are well typed.
LEMMA RememberedClaimType ==
  ASSUME TypeOK, NEW i \in JobIds
  PROVE  RememberedClaim(i) \in Claim
BY DEF TypeOK, RememberedClaim, Claim, Row

LEMMA TypeNext == TypeOK /\ [Next]_vars => TypeOK'
<1> SUFFICES ASSUME TypeOK, [Next]_vars PROVE TypeOK'
  OBVIOUS
<1> USE BoundsAssumption DEF TypeOK
<1>1. ASSUME NEW k \in Keys, Enqueue(k) PROVE TypeOK'
  BY <1>1, NewRowType DEF Enqueue, local, bounds, history
<1>2. ASSUME NEW w \in Procs, SelectStale(w) PROVE TypeOK'
  <2>1. {RememberedClaim(i) : i \in {j \in JobIds : IsStale(job[j])}} \in SUBSET Claim
    BY RememberedClaimType
  <2> QED
    BY <1>2, <2>1 DEF SelectStale, bounds, history
<1>3. ASSUME NEW w \in Procs, ReclaimStale(w) PROVE TypeOK'
  <2> DEFINE held == {c \in remembered[w] : HoldsClaim(job[c.id], c.claimedAt)}
             rows == {c.id : c \in held}
             attemptsOf(i) == (CHOOSE c \in held : c.id = i).attempts
             failed == [i \in JobIds |-> AfterFailure(job[i], attemptsOf(i), now)]
  <2>1. ASSUME NEW i \in rows PROVE i \in JobIds /\ failed[i] \in Row
    <3>1. PICK c \in held : c.id = i
      OBVIOUS
    <3>2. held \subseteq Claim
      OBVIOUS
    <3>3. attemptsOf(i) \in Nat /\ i \in JobIds
      BY <3>1, <3>2 DEF Claim
    <3> QED
      BY <3>3, AfterFailureType
  <2>2. job' \in [JobIds -> Row]
    BY <1>3, <2>1 DEF ReclaimStale
  <2>3. hookDue' \in [Procs -> SUBSET JobIds]
    BY <1>3, <2>1 DEF ReclaimStale
  <2>4. charged' \in [JobIds -> Nat]
    BY <1>3 DEF ReclaimStale
  <2> QED
    BY <1>3, <2>2, <2>3, <2>4 DEF ReclaimStale, bounds
<1>4. ASSUME NEW w \in Procs, ResetRetryable(w) PROVE TypeOK'
  <2>1. job' \in [JobIds -> Row]
    BY <1>4, StatusUpdate DEF ResetRetryable, Statuses, LiveStatuses
  <2> QED
    BY <1>4, <2>1 DEF ResetRetryable, local, bounds, history
<1>5. ASSUME NEW p \in Procs, NEW i \in JobIds, SelectClaim(p, i) PROVE TypeOK'
  BY <1>5, SMTT(30) DEF SelectClaim, bounds, history, JobIds
<1>6. ASSUME NEW w \in Procs, DrainEnds(w) PROVE TypeOK'
  BY <1>6 DEF DrainEnds, local, bounds, history
<1>7. ASSUME NEW p \in Procs, ClaimRow(p) PROVE TypeOK'
  <2>1. picked[p] \in JobIds /\ sampled[p] \in Nat
    BY <1>7 DEF ClaimRow
  <2>2. [job[picked[p]] EXCEPT !.status = "running", !.claimedAt = sampled[p]] \in Row
    BY <2>1, ClaimUpdate DEF TypeOK
  <2>3. job' = [job EXCEPT ![picked[p]] =
                  [job[picked[p]] EXCEPT !.status = "running", !.claimedAt = sampled[p]]]
    BY <1>7 DEF ClaimRow
  <2> QED
    BY <1>7, <2>1, <2>2, <2>3 DEF ClaimRow, local, bounds
<1>8. ASSUME NEW p \in Procs, LoseClaim(p) PROVE TypeOK'
  BY <1>8 DEF LoseClaim, Leave, bounds, history
<1>9. ASSUME NEW p \in Procs, ReadRow(p) PROVE TypeOK'
  <2>1. picked[p] \in JobIds
    BY <1>9 DEF ReadRow
  <2> QED
    BY <1>9, <2>1, RememberedClaimType DEF ReadRow, bounds, history
<1>10. ASSUME NEW p \in Procs, Succeed(p) PROVE TypeOK'
  <2>1. job' \in [JobIds -> Row]
    BY <1>10, StatusUpdate DEF Succeed, Statuses, LiveStatuses
  <2> QED
    BY <1>10, <2>1 DEF Succeed, Leave, AfterRow, bounds, history
<1>11. ASSUME NEW p \in Procs, FailHeld(p) PROVE TypeOK'
  <2>1. PICK c \in remembered[p] :
          LET row == AfterFailure(job[c.id], c.attempts, now)
              owed == IF row.status = "dead" /\ row.key \in HookKeys
                      THEN {c.id} ELSE {}
          IN  /\ job' = [job EXCEPT ![c.id] = row]
              /\ charged' = [charged EXCEPT ![c.id] = @ + 1]
              /\ hookDue' = [hookDue EXCEPT ![p] = owed]
              /\ Leave(p, IF owed = {} THEN AfterRow(p) ELSE "runHook")
              /\ UNCHANGED <<now, bounds, hookRuns, claimant>>
    BY <1>11 DEF FailHeld
  <2>2. c.id \in JobIds /\ c.attempts \in Nat
    BY <2>1 DEF Claim
  <2>3. AfterFailure(job[c.id], c.attempts, now) \in Row
    BY <2>2, AfterFailureType
  <2> QED
    BY <2>1, <2>2, <2>3 DEF Leave, AfterRow, bounds
<1>12. ASSUME NEW p \in Procs, FailLost(p) PROVE TypeOK'
  BY <1>12 DEF FailLost, Leave, AfterRow, bounds, history
<1>13. ASSUME NEW p \in Procs, AuthFail(p) PROVE TypeOK'
  <2>1. PICK c \in remembered[p] :
          job' = IF HoldsClaim(job[c.id], c.claimedAt)
                 THEN [job EXCEPT ![c.id] = [job[c.id] EXCEPT !.status = "pending"]]
                 ELSE job
    BY <1>13 DEF AuthFail
  <2>2. c.id \in JobIds
    BY <2>1 DEF Claim
  <2>3. [job[c.id] EXCEPT !.status = "pending"] \in Row
    BY <2>2, StatusUpdate DEF Statuses, LiveStatuses
  <2>4. job' \in [JobIds -> Row]
    BY <2>1, <2>2, <2>3
  <2> QED
    BY <1>13, <2>4 DEF AuthFail, Leave, history
<1>14. ASSUME NEW p \in Procs, RunHook(p) PROVE TypeOK'
  BY <1>14 DEF RunHook, AfterRow, bounds
<1>15. ASSUME NEW p \in Procs, Crash(p) PROVE TypeOK'
  BY <1>15 DEF Crash, Leave, history
<1>16. CASE Tick
  BY <1>16 DEF Tick, local, bounds, history
<1>17. CASE UNCHANGED vars
  BY <1>17 DEF vars, local, bounds, history
<1> QED
  BY <1>1, <1>2, <1>3, <1>4, <1>5, <1>6, <1>7, <1>8, <1>9, <1>10, <1>11,
     <1>12, <1>13, <1>14, <1>15, <1>16, <1>17
  DEF Next, WorkerStep, ProcStep, WorkerSelects, AdderSelects, Claimable, Procs

\* Every reachable state of the queue is well typed.
THEOREM TypeCorrect == Spec => []TypeOK
<1> QED
  BY TypeInit, TypeNext, PTL DEF Spec

-----------------------------------------------------------------------------
(* What one step may do to a row. Every later proof is about these moves.  *)

KeepsHistory(i) == charged'[i] = charged[i] /\ claimant'[i] = claimant[i]

Keeps(i) == job'[i] = job[i] /\ KeepsHistory(i)

Inserts(i) ==
  /\ IsNextId(i)
  /\ \E k \in Keys : LiveFor(k) = {} /\ job'[i] = NewRow(k, now)
  /\ \A j \in JobIds \ {i} : job'[j] = job[j]
  /\ KeepsHistory(i)

Claims(i) ==
  \E p \in Procs :
    /\ pc[p] = "selected" /\ picked[p] = i
    /\ job[i].status = "pending"
    /\ job'[i] = [job[i] EXCEPT !.status = "running", !.claimedAt = sampled[p]]
    /\ charged'[i] = charged[i]
    /\ claimant'[i] = {p}

\* Process p acts on a claim to row i it remembers and then forgets.
Uses(p, i, c) ==
  /\ c \in remembered[p] /\ c.id = i
  /\ HoldsClaim(job[i], c.claimedAt)
  /\ remembered'[p] = {}

Resets(i) ==
  /\ \/ job[i].status = "failed"
     \/ \E p \in Procs : pc[p] = "running" /\ \E c \in Claim : Uses(p, i, c)
  /\ job'[i] = [job[i] EXCEPT !.status = "pending"]
  /\ KeepsHistory(i)

Fails(i) ==
  \E p \in Procs, c \in Claim :
    /\ pc[p] \in {"reclaim", "running"}
    /\ Uses(p, i, c)
    /\ job'[i] = AfterFailure(job[i], c.attempts, now)
    /\ charged'[i] = charged[i] + 1
    /\ claimant'[i] = claimant[i]

Finishes(i) ==
  /\ \E p \in Procs : pc[p] = "running" /\ picked[p] = i
  /\ job'[i] = [job[i] EXCEPT !.status = "done"]
  /\ KeepsHistory(i)

Moves(i) ==
  Keeps(i) \/ Inserts(i) \/ Claims(i) \/ Resets(i) \/ Fails(i) \/ Finishes(i)

\* An INSERT takes an id that was never used.
LEMMA InsertsAbsent ==
  ASSUME NEW i \in JobIds, Inserts(i)
  PROVE  job[i].status = "absent"
<1>1. i <= i
  BY BoundsAssumption DEF JobIds
<1> QED
  BY <1>1 DEF Inserts, IsNextId

\* Whatever the step, a row is kept, inserted, claimed, reset, failed by a
\* process that holds its claim, or finished by a process that ran it.
LEMMA RowMoves ==
  ASSUME TypeOK, [Next]_vars, NEW i \in JobIds
  PROVE  Moves(i)
<1> USE DEF Moves, KeepsHistory
<1>1. ASSUME NEW k \in Keys, Enqueue(k) PROVE Moves(i)
  BY <1>1 DEF TypeOK, Enqueue, history, Inserts, Keeps
<1>2. ASSUME NEW w \in Procs, ReclaimStale(w) PROVE Moves(i)
  <2> DEFINE held == {c \in remembered[w] : HoldsClaim(job[c.id], c.claimedAt)}
             rows == {c.id : c \in held}
             attemptsOf(j) == (CHOOSE c \in held : c.id = j).attempts
             failed == [j \in JobIds |-> AfterFailure(job[j], attemptsOf(j), now)]
  <2>1. /\ job' = [j \in JobIds |-> IF j \in rows THEN failed[j] ELSE job[j]]
        /\ charged' = [j \in JobIds |->
                         IF j \in rows THEN charged[j] + 1 ELSE charged[j]]
        /\ UNCHANGED claimant
        /\ pc[w] = "reclaim" /\ remembered'[w] = {}
    BY <1>2 DEF ReclaimStale, TypeOK
  <2>2. CASE i \in rows
    <3> DEFINE c == CHOOSE d \in held : d.id = i
    <3>1. c \in held /\ c.id = i
      BY <2>2
    <3>2. job'[i] = AfterFailure(job[i], c.attempts, now)
      BY <2>1, <2>2
    <3>3. charged'[i] = charged[i] + 1
      BY <2>1, <2>2
    <3>4. c \in Claim /\ Uses(w, i, c)
      BY <2>1, <3>1 DEF TypeOK, Uses
    <3> HIDE DEF c
    <3> QED
      BY <2>1, <3>2, <3>3, <3>4 DEF Fails
  <2>3. CASE i \notin rows
    BY <2>1, <2>3 DEF Keeps
  <2> QED
    BY <2>2, <2>3
<1>3. ASSUME NEW w \in Procs, ResetRetryable(w) PROVE Moves(i)
  BY <1>3 DEF ResetRetryable, history, Resets, Keeps
<1>4. ASSUME NEW p \in Procs, ClaimRow(p) PROVE Moves(i)
  <2>1. CASE i = picked[p]
    <3>1. job'[i] = [job[i] EXCEPT !.status = "running", !.claimedAt = sampled[p]]
      BY <1>4, <2>1 DEF ClaimRow, TypeOK
    <3>2. claimant'[i] = {p}
      BY <1>4, <2>1 DEF ClaimRow, TypeOK
    <3> QED
      BY <1>4, <2>1, <3>1, <3>2 DEF ClaimRow, Claims
  <2>2. CASE i # picked[p]
    BY <1>4, <2>2 DEF ClaimRow, TypeOK, Keeps
  <2> QED
    BY <2>1, <2>2
<1>5. ASSUME NEW p \in Procs, Succeed(p) PROVE Moves(i)
  BY <1>5 DEF TypeOK, Succeed, history, Finishes, Keeps
<1>6. ASSUME NEW p \in Procs, FailHeld(p) PROVE Moves(i)
  <2>1. PICK c \in remembered[p] :
          /\ HoldsClaim(job[c.id], c.claimedAt)
          /\ job' = [job EXCEPT ![c.id] = AfterFailure(job[c.id], c.attempts, now)]
          /\ charged' = [charged EXCEPT ![c.id] = @ + 1]
          /\ pc[p] = "running" /\ remembered' = [remembered EXCEPT ![p] = {}]
          /\ UNCHANGED claimant
    BY <1>6 DEF FailHeld, Leave
  <2>2. CASE i = c.id
    <3>1. c \in Claim /\ Uses(p, i, c)
      BY <2>1, <2>2 DEF TypeOK, Uses
    <3>2. /\ job'[i] = AfterFailure(job[i], c.attempts, now)
          /\ charged'[i] = charged[i] + 1
          /\ claimant'[i] = claimant[i]
      BY <2>1, <2>2 DEF TypeOK
    <3> QED
      BY <2>1, <3>1, <3>2 DEF Fails
  <2>3. CASE i # c.id
    BY <2>1, <2>3 DEF TypeOK, Keeps
  <2> QED
    BY <2>2, <2>3
<1>7. ASSUME NEW p \in Procs, AuthFail(p) PROVE Moves(i)
  <2>1. PICK c \in remembered[p] :
          job' = IF HoldsClaim(job[c.id], c.claimedAt)
                 THEN [job EXCEPT ![c.id] = [job[c.id] EXCEPT !.status = "pending"]]
                 ELSE job
    BY <1>7 DEF AuthFail
  <2>2. /\ UNCHANGED <<charged, claimant>>
        /\ pc[p] = "running" /\ remembered'[p] = {}
    BY <1>7 DEF AuthFail, Leave, history, TypeOK
  <2>3. CASE c.id = i /\ HoldsClaim(job[i], c.claimedAt)
    <3>1. c \in Claim /\ Uses(p, i, c)
      BY <2>1, <2>2, <2>3 DEF TypeOK, Uses
    <3>2. job'[i] = [job[i] EXCEPT !.status = "pending"]
      BY <2>1, <2>3 DEF TypeOK
    <3> QED
      BY <2>2, <3>1, <3>2 DEF Resets
  <2>4. CASE ~(c.id = i /\ HoldsClaim(job[i], c.claimedAt))
    BY <2>1, <2>2, <2>4 DEF TypeOK, Keeps
  <2> QED
    BY <2>3, <2>4
<1>8. CASE UNCHANGED <<job, charged, claimant>>
  BY <1>8 DEF Keeps
<1> QED
  BY <1>1, <1>2, <1>3, <1>4, <1>5, <1>6, <1>7, <1>8
  DEF Next, WorkerStep, ProcStep, WorkerSelects, AdderSelects, Procs, SelectStale,
      SelectClaim, DrainEnds, LoseClaim, ReadRow, FailLost, RunHook, Crash, Tick,
      vars, history

-----------------------------------------------------------------------------
(* One live row per key.                                                   *)

\* A row that is live after a step was live before it, for the same key,
\* unless the step inserted it.
LEMMA LiveRowsStayOrAreInserted ==
  ASSUME TypeOK, [Next]_vars, NEW i \in JobIds, IsLive(job'[i])
  PROVE  (IsLive(job[i]) /\ job'[i].key = job[i].key) \/ Inserts(i)
<1>0. job[i] \in Row
  BY DEF TypeOK
<1>1. CASE Keeps(i)
  BY <1>1 DEF Keeps
<1>2. CASE Claims(i)
  <2>1. PICK p \in Procs :
          job'[i] = [job[i] EXCEPT !.status = "running", !.claimedAt = sampled[p]]
    BY <1>2 DEF Claims
  <2>2. job'[i].key = job[i].key
    BY <1>0, <2>1 DEF Row
  <2> QED
    BY <1>2, <2>2 DEF Claims, IsLive, LiveStatuses
<1>3. CASE Resets(i)
  <2>1. "pending" \in Statuses
    BY DEF Statuses, LiveStatuses
  <2>2. job'[i].key = job[i].key
    BY <1>0, <1>3, <2>1, StatusUpdate DEF Resets
  <2> QED
    BY <1>3, <2>2 DEF Resets, Uses, HoldsClaim, IsLive, LiveStatuses
<1>4. CASE Fails(i)
  <2>1. PICK c \in Claim :
          /\ HoldsClaim(job[i], c.claimedAt)
          /\ job'[i] = AfterFailure(job[i], c.attempts, now)
    BY <1>4 DEF Fails, Uses
  <2>2. c.attempts \in Nat /\ now \in Nat
    BY <2>1 DEF TypeOK, Claim
  <2>3. AfterFailure(job[i], c.attempts, now).key = job[i].key
    BY <1>0, <2>2, FailureKey
  <2>4. job'[i].key = job[i].key
    BY <2>1, <2>3
  <2> QED
    BY <2>1, <2>4 DEF HoldsClaim, IsLive, LiveStatuses
<1>5. CASE Finishes(i)
  <2>1. job'[i].status = "done"
    BY <1>0, <1>5, StatusUpdate DEF Finishes, Statuses
  <2> QED
    BY <2>1 DEF IsLive, LiveStatuses
<1> QED
  BY <1>1, <1>2, <1>3, <1>4, <1>5, RowMoves DEF Moves

LEMMA OneLiveInit == Init => OneLiveRowPerKey
<1> SUFFICES ASSUME Init PROVE OneLiveRowPerKey
  OBVIOUS
<1>1. PICK k \in Keys, first \in BOOLEAN :
        job = [i \in JobIds |-> IF i = 1 /\ first THEN LegacyRow(k) ELSE NoRow]
  BY DEF Init
<1>2. \A i \in JobIds : IsLive(job[i]) => i = 1
  BY <1>1 DEF IsLive, LiveStatuses, NoRow
<1> QED
  BY <1>2 DEF OneLiveRowPerKey

LEMMA OneLiveNext == TypeOK /\ OneLiveRowPerKey /\ [Next]_vars => OneLiveRowPerKey'
<1> SUFFICES ASSUME TypeOK, OneLiveRowPerKey, [Next]_vars,
                    NEW i \in JobIds, NEW j \in JobIds,
                    IsLive(job'[i]), IsLive(job'[j]), job'[i].key = job'[j].key
             PROVE  i = j
  BY DEF OneLiveRowPerKey
<1>1. ASSUME NEW a \in JobIds, NEW b \in JobIds, a # b, Inserts(a),
             IsLive(job'[b]), job'[a].key = job'[b].key
      PROVE  FALSE
  <2>1. PICK k \in Keys : LiveFor(k) = {} /\ job'[a] = NewRow(k, now)
    BY <1>1 DEF Inserts
  <2>2. job'[b] = job[b]
    BY <1>1 DEF Inserts
  <2>3. job[b].key = k /\ IsLive(job[b])
    BY <1>1, <2>1, <2>2 DEF NewRow
  <2> QED
    BY <2>1, <2>3 DEF LiveFor
<1>2. CASE Inserts(i)
  BY <1>1, <1>2
<1>3. CASE Inserts(j)
  BY <1>1, <1>3
<1>4. CASE ~Inserts(i) /\ ~Inserts(j)
  BY <1>4, LiveRowsStayOrAreInserted DEF OneLiveRowPerKey
<1> QED
  BY <1>2, <1>3, <1>4

\* At most one live row per (type, target_version): the ON CONFLICT of the
\* INSERT is enough, because no UPDATE of any process brings back a row that
\* left the live set (enqueue_derive_jobs, idx_jobs_live).
THEOREM OneLiveRow == Spec => []OneLiveRowPerKey
<1>1. Init => TypeOK /\ OneLiveRowPerKey
  BY TypeInit, OneLiveInit
<1>2. TypeOK /\ OneLiveRowPerKey /\ [Next]_vars => (TypeOK /\ OneLiveRowPerKey)'
  BY TypeNext, OneLiveNext
<1> QED
  BY <1>1, <1>2, PTL DEF Spec

-----------------------------------------------------------------------------
(* Terminal rows.                                                          *)

\* One step of a finished or dead row.
LEMMA TerminalStep ==
  ASSUME TypeOK, [Next]_vars, NEW i \in JobIds
  PROVE  /\ job[i].status = "done" => job'[i] = job[i]
         /\ job[i].status = "dead" =>
              job'[i] \in {job[i], [job[i] EXCEPT !.status = "done"]}
<1>0. job[i] \in Row
  BY DEF TypeOK
<1>1. SUFFICES ASSUME job[i].status \in {"done", "dead"}
               PROVE  Keeps(i) \/ Finishes(i)
  <2>1. job[i].status = "done" => [job[i] EXCEPT !.status = "done"] = job[i]
    BY <1>0 DEF Row
  <2> QED
    BY <2>1 DEF Keeps, Finishes
<1>2. ~Claims(i) /\ ~Resets(i) /\ ~Fails(i)
  BY <1>1 DEF Claims, Resets, Fails, Uses, HoldsClaim
<1>3. ~Inserts(i)
  BY <1>1, InsertsAbsent
<1> QED
  BY <1>2, <1>3, RowMoves DEF Moves

\* done is final and dead yields only to a late success, whatever stalled
\* runner, reclaim, retry reset or missing credential comes after it.
THEOREM TerminalIsTerminal == Spec => TerminalStaysTerminal
<1>1. TypeOK /\ [Next]_vars =>
        [\A i \in JobIds :
           /\ job[i].status = "done" => job'[i] = job[i]
           /\ job[i].status = "dead" =>
                job'[i] \in {job[i], [job[i] EXCEPT !.status = "done"]}]_vars
  BY TerminalStep
<1> QED
  BY <1>1, TypeCorrect, PTL DEF Spec, TerminalStaysTerminal

-----------------------------------------------------------------------------
(* The retry budget.                                                       *)

\* A row that does not exist has been charged nothing, and a claim read at
\* the last attempt was read from a row that is over.
BudgetInv ==
  /\ AttemptsWithinBudget
  /\ \A i \in JobIds : job[i].status = "absent" => job[i].attempts = 0
  /\ \A p \in Procs : \A c \in remembered[p] :
       c.attempts < MaxAttempts \/ job[c.id].status \in {"done", "dead"}

LEMMA BudgetInit == Init => BudgetInv
<1> SUFFICES ASSUME Init PROVE BudgetInv
  OBVIOUS
<1>0. PICK k \in Keys, first \in BOOLEAN :
        job = [i \in JobIds |-> IF i = 1 /\ first THEN LegacyRow(k) ELSE NoRow]
  BY DEF Init
<1>1. \A i \in JobIds : job[i].attempts = 0 /\ job[i].status \in {"absent", "running"}
  BY <1>0 DEF LegacyRow, NewRow, NoRow
<1>2. \A p \in Procs : remembered[p] = {}
  BY DEF Init
<1> QED
  BY <1>1, <1>2, MaxAttemptsAssumption
  DEF BudgetInv, AttemptsWithinBudget, IsLive, LiveStatuses

\* One step of one row against its budget.
LEMMA BudgetOfRow ==
  ASSUME TypeOK, BudgetInv, [Next]_vars, NEW i \in JobIds
  PROVE  /\ job'[i].attempts <= MaxAttempts
         /\ IsLive(job'[i]) => job'[i].attempts < MaxAttempts
         /\ job'[i].status = "dead" => job'[i].attempts = MaxAttempts
         /\ job'[i].status = "absent" => job'[i].attempts = 0
<1> USE MaxAttemptsAssumption
<1>0. job[i] \in Row /\ job[i].attempts \in Nat
  BY DEF TypeOK, Row
<1>. /\ job[i].attempts <= MaxAttempts
     /\ IsLive(job[i]) => job[i].attempts < MaxAttempts
     /\ job[i].status = "dead" => job[i].attempts = MaxAttempts
     /\ job[i].status = "absent" => job[i].attempts = 0
  BY DEF BudgetInv, AttemptsWithinBudget
<1>1. CASE Keeps(i)
  BY <1>1 DEF Keeps
<1>2. CASE Inserts(i)
  BY <1>2 DEF Inserts, NewRow, IsLive, LiveStatuses
<1>3. CASE Claims(i)
  <2>1. job'[i].attempts = job[i].attempts /\ job'[i].status = "running"
    BY <1>0, <1>3 DEF Claims, Row
  <2> QED
    BY <1>0, <1>3, <2>1 DEF Claims, IsLive, LiveStatuses
<1>4. CASE Resets(i)
  <2>1. job'[i].attempts = job[i].attempts /\ job'[i].status = "pending"
    BY <1>0, <1>4 DEF Resets, Row
  <2> QED
    BY <1>0, <1>4, <2>1 DEF Resets, Uses, HoldsClaim, IsLive, LiveStatuses
<1>5. CASE Fails(i)
  <2>1. PICK c \in Claim :
          /\ c.attempts < MaxAttempts \/ job[i].status \in {"done", "dead"}
          /\ HoldsClaim(job[i], c.claimedAt)
          /\ job'[i] = AfterFailure(job[i], c.attempts, now)
    BY <1>5 DEF Fails, Uses, BudgetInv
  <2>2. c.attempts \in Nat /\ now \in Nat /\ c.attempts < MaxAttempts
    BY <2>1 DEF TypeOK, Claim, HoldsClaim
  <2>3. /\ job'[i].attempts = c.attempts + 1
        /\ job'[i].status \in {"failed", "dead"}
        /\ job'[i].status = "failed" => c.attempts + 1 < MaxAttempts
        /\ job'[i].status = "dead" => c.attempts + 1 >= MaxAttempts
    <3>1. ASSUME NEW n \in Nat, NEW t \in Nat
          PROVE  /\ AfterFailure(job[i], n, t).attempts = n + 1
                 /\ AfterFailure(job[i], n, t).status \in {"failed", "dead"}
                 /\ AfterFailure(job[i], n, t).status = "failed" => n + 1 < MaxAttempts
                 /\ AfterFailure(job[i], n, t).status = "dead" => n + 1 >= MaxAttempts
      BY <1>0, AfterFailureType
    <3> QED
      BY <2>1, <2>2, <3>1
  <2> QED
    BY <2>2, <2>3 DEF IsLive, LiveStatuses
<1>6. CASE Finishes(i)
  <2>1. job'[i].attempts = job[i].attempts /\ job'[i].status = "done"
    BY <1>0, <1>6 DEF Finishes, Row
  <2> QED
    BY <2>1 DEF IsLive, LiveStatuses
<1> QED
  BY <1>1, <1>2, <1>3, <1>4, <1>5, <1>6, RowMoves DEF Moves

\* A process's memory only grows by reading rows as they are.
LEMMA RememberedMoves ==
  ASSUME TypeOK, [Next]_vars, NEW p \in Procs, NEW c \in remembered'[p]
  PROVE  \/ c \in remembered[p]
         \/ c.id \in JobIds /\ c = RememberedClaim(c.id) /\ UNCHANGED job
            /\ \/ p \in Workers /\ pc[p] = "idle" /\ IsStale(job[c.id])
               \/ pc[p] = "claimed" /\ c.id = picked[p]
<1>1. ASSUME NEW w \in Workers, SelectStale(w), w = p PROVE
        /\ c.id \in JobIds /\ c = RememberedClaim(c.id) /\ UNCHANGED job
        /\ p \in Workers /\ pc[p] = "idle" /\ IsStale(job[c.id])
  <2>1. c \in {RememberedClaim(i) : i \in {j \in JobIds : IsStale(job[j])}}
    BY <1>1 DEF SelectStale, TypeOK
  <2> QED
    BY <1>1, <2>1 DEF RememberedClaim, SelectStale
<1>2. ASSUME ReadRow(p) PROVE
        /\ c.id \in JobIds /\ c = RememberedClaim(c.id) /\ UNCHANGED job
        /\ pc[p] = "claimed" /\ c.id = picked[p]
  BY <1>2 DEF ReadRow, TypeOK, RememberedClaim
<1>3. CASE remembered'[p] \in {remembered[p], {}}
  BY <1>3
<1>4. \/ \E w \in Workers : SelectStale(w)
      \/ \E q \in Procs : ReadRow(q)
      \/ \E q \in Procs : remembered' = [remembered EXCEPT ![q] = {}]
      \/ UNCHANGED remembered
  BY ZenonT(30) DEF Next, WorkerStep, ProcStep, WorkerSelects, AdderSelects, Procs, Enqueue,
         ReclaimStale, ResetRetryable, SelectClaim, DrainEnds, ClaimRow,
         LoseClaim, Succeed, FailHeld, FailLost, AuthFail, RunHook, Crash, Tick,
         Leave, local, vars
<1>5. ASSUME NEW w \in Workers, SelectStale(w), w # p PROVE remembered'[p] = remembered[p]
  BY <1>5 DEF SelectStale, TypeOK
<1>6. ASSUME NEW q \in Procs, ReadRow(q), q # p PROVE remembered'[p] = remembered[p]
  BY <1>6 DEF ReadRow, TypeOK
<1>7. ASSUME NEW q \in Procs, remembered' = [remembered EXCEPT ![q] = {}]
      PROVE  remembered'[p] \in {remembered[p], {}}
  BY <1>7 DEF TypeOK
<1> QED
  BY <1>1, <1>2, <1>3, <1>4, <1>5, <1>6, <1>7

LEMMA BudgetNext == TypeOK /\ BudgetInv /\ [Next]_vars => BudgetInv'
<1> SUFFICES ASSUME TypeOK, BudgetInv, [Next]_vars PROVE BudgetInv'
  OBVIOUS
<1>1. AttemptsWithinBudget' /\ \A i \in JobIds :
        job'[i].status = "absent" => job'[i].attempts = 0
  BY BudgetOfRow DEF AttemptsWithinBudget
<1>2. ASSUME NEW p \in Procs, NEW c \in remembered'[p]
      PROVE  c.attempts < MaxAttempts \/ job'[c.id].status \in {"done", "dead"}
  <2>1. CASE c \in remembered[p]
    <3>1. c.id \in JobIds
      BY <2>1 DEF TypeOK, Claim
    <3>2. CASE job[c.id].status \in {"done", "dead"}
      <4>1. job[c.id] \in Row
        BY <3>1 DEF TypeOK
      <4> QED
        BY <3>1, <3>2, <4>1, TerminalStep DEF Row
    <3> QED
      BY <2>1, <3>2 DEF BudgetInv
  <2>2. CASE c.id \in JobIds /\ c = RememberedClaim(c.id) /\ UNCHANGED job
    <3>1. job[c.id] \in Row
      BY <2>2 DEF TypeOK
    <3>2. c.attempts = job[c.id].attempts
      BY <2>2 DEF RememberedClaim
    <3>3. /\ IsLive(job[c.id]) => job[c.id].attempts < MaxAttempts
          /\ job[c.id].status = "absent" => job[c.id].attempts = 0
      BY <2>2 DEF BudgetInv, AttemptsWithinBudget
    <3>4. job'[c.id] = job[c.id]
      BY <2>2
    <3>5. IsLive(job[c.id]) \/ job[c.id].status \in {"absent", "done", "dead"}
      BY <3>1 DEF Row, Statuses, IsLive
    <3> QED
      BY <3>2, <3>3, <3>4, <3>5, MaxAttemptsAssumption
  <2> QED
    BY <1>2, <2>1, <2>2, RememberedMoves
<1> QED
  BY <1>1, <1>2 DEF BudgetInv

\* A row is dead exactly at the end of its retry budget and never charged
\* past it (next_failure_state, record_job_failure, _reclaim_stale_running).
THEOREM BudgetRespected == Spec => []AttemptsWithinBudget
<1>1. Init => TypeOK /\ BudgetInv
  BY TypeInit, BudgetInit
<1>2. TypeOK /\ BudgetInv /\ [Next]_vars => (TypeOK /\ BudgetInv)'
  BY TypeNext, BudgetNext
<1>3. BudgetInv => AttemptsWithinBudget
  BY DEF BudgetInv
<1> QED
  BY <1>1, <1>2, <1>3, PTL DEF Spec

-----------------------------------------------------------------------------
(* The dead-letter hook.                                                   *)

\* A row that ended, now or before, at its last attempt.
Over(i) == job[i].status \in {"done", "dead"} /\ job[i].attempts = MaxAttempts

\* A hook is owed by at most one process, for a row that is over and whose
\* hook has not run.
HookInv ==
  /\ \A i \in JobIds : hookRuns[i] <= 1
  /\ \A i \in JobIds : hookRuns[i] = 1 => Over(i)
  /\ \A p \in Procs : \A i \in hookDue[p] : Over(i) /\ hookRuns[i] = 0
  /\ \A p, q \in Procs : p # q => hookDue[p] \cap hookDue[q] = {}

LEMMA HookInit == Init => HookInv
BY DEF Init, HookInv

LEMMA OverStays ==
  ASSUME TypeOK, [Next]_vars, NEW i \in JobIds, Over(i)
  PROVE  Over(i)'
<1>1. job[i] \in Row
  BY DEF TypeOK
<1> QED
  BY <1>1, TerminalStep DEF Over, Row

\* A process that comes to owe hooks owes them for rows its own step drove
\* from running to dead.
LEMMA HookDueMoves ==
  ASSUME TypeOK, [Next]_vars
  PROVE  \/ UNCHANGED <<hookDue, hookRuns>>
         \/ \E p \in Procs, due \in SUBSET JobIds :
              /\ hookDue' = [hookDue EXCEPT ![p] = due]
              /\ UNCHANGED hookRuns
              /\ \A i \in due : job[i].status = "running" /\ job'[i].status = "dead"
         \/ \E p \in Procs : \E i \in hookDue[p] :
              /\ hookRuns' = [hookRuns EXCEPT ![i] = @ + 1]
              /\ hookDue' = [hookDue EXCEPT ![p] = @ \ {i}]
<1> DEFINE Owes(p) ==
      \E due \in SUBSET JobIds :
        /\ hookDue' = [hookDue EXCEPT ![p] = due]
        /\ UNCHANGED hookRuns
        /\ \A i \in due : job[i].status = "running" /\ job'[i].status = "dead"
<1>1. ASSUME NEW w \in Procs, ReclaimStale(w) PROVE Owes(w)
  <2> DEFINE held == {c \in remembered[w] : HoldsClaim(job[c.id], c.claimedAt)}
             rows == {c.id : c \in held}
             attemptsOf(i) == (CHOOSE c \in held : c.id = i).attempts
             failed == [i \in JobIds |-> AfterFailure(job[i], attemptsOf(i), now)]
             due == {i \in rows : failed[i].status = "dead" /\ job[i].key \in HookKeys}
  <2>1. /\ job' = [i \in JobIds |-> IF i \in rows THEN failed[i] ELSE job[i]]
        /\ hookDue' = [hookDue EXCEPT ![w] = due]
        /\ UNCHANGED hookRuns
    BY <1>1 DEF ReclaimStale
  <2>2. \A i \in rows : i \in JobIds /\ job[i].status = "running"
    BY DEF HoldsClaim, TypeOK, Claim
  <2>3. \A i \in due : job[i].status = "running" /\ job'[i].status = "dead"
    BY <2>1, <2>2
  <2>4. due \in SUBSET JobIds
    BY <2>2
  <2> HIDE DEF due
  <2> QED
    BY <2>1, <2>3, <2>4
<1>2. ASSUME NEW p \in Procs, FailHeld(p) PROVE Owes(p)
  <2>1. PICK c \in remembered[p] :
          LET row == AfterFailure(job[c.id], c.attempts, now)
              owed == IF row.status = "dead" /\ row.key \in HookKeys
                      THEN {c.id} ELSE {}
          IN  /\ HoldsClaim(job[c.id], c.claimedAt)
              /\ job' = [job EXCEPT ![c.id] = row]
              /\ hookDue' = [hookDue EXCEPT ![p] = owed]
              /\ UNCHANGED hookRuns
    BY <1>2 DEF FailHeld
  <2> DEFINE row == AfterFailure(job[c.id], c.attempts, now)
             owed == IF row.status = "dead" /\ row.key \in HookKeys
                     THEN {c.id} ELSE {}
  <2>2. c.id \in JobIds
    BY <2>1 DEF TypeOK, Claim
  <2>3. \A i \in owed : job[i].status = "running" /\ job'[i].status = "dead"
    BY <2>1, <2>2 DEF HoldsClaim, TypeOK
  <2>4. owed \in SUBSET JobIds
    BY <2>2
  <2>5. hookDue' = [hookDue EXCEPT ![p] = owed] /\ UNCHANGED hookRuns
    BY <2>1
  <2> HIDE DEF owed
  <2> QED
    BY <2>3, <2>4, <2>5
<1>3. ASSUME NEW p \in Procs, Crash(p) PROVE Owes(p)
  <2> DEFINE due == {i \in JobIds : FALSE}
  <2>1. hookDue' = [hookDue EXCEPT ![p] = due] /\ UNCHANGED hookRuns
    BY <1>3 DEF Crash, history
  <2>2. due \in SUBSET JobIds
    OBVIOUS
  <2>3. \A i \in due : job[i].status = "running" /\ job'[i].status = "dead"
    OBVIOUS
  <2> HIDE DEF due
  <2> QED
    BY <2>1, <2>2, <2>3
<1>4. ASSUME NEW p \in Procs, RunHook(p)
      PROVE  \E i \in hookDue[p] :
               /\ hookRuns' = [hookRuns EXCEPT ![i] = @ + 1]
               /\ hookDue' = [hookDue EXCEPT ![p] = @ \ {i}]
  BY <1>4 DEF RunHook
<1>5. \/ \E w \in Procs : ReclaimStale(w)
      \/ \E p \in Procs : FailHeld(p) \/ Crash(p) \/ RunHook(p)
      \/ UNCHANGED <<hookDue, hookRuns>>
  BY DEF Next, WorkerStep, ProcStep, WorkerSelects, AdderSelects, Procs, Enqueue,
         SelectStale, ResetRetryable, SelectClaim, DrainEnds, ClaimRow, LoseClaim,
         ReadRow, Succeed, FailLost, AuthFail, Tick, local, history, vars
<1> HIDE DEF Owes
<1>6. (\E p \in Procs : Owes(p)) \/ (\E p \in Procs : RunHook(p))
      \/ UNCHANGED <<hookDue, hookRuns>>
  BY <1>1, <1>2, <1>3, <1>5
<1> QED
  BY <1>4, <1>6 DEF Owes

LEMMA HookNext == TypeOK /\ BudgetInv /\ HookInv /\ [Next]_vars => HookInv'
<1> SUFFICES ASSUME TypeOK, BudgetInv, HookInv, [Next]_vars PROVE HookInv'
  OBVIOUS
<1>1. \A i \in JobIds : Over(i) => Over(i)'
  BY OverStays
<1>2. hookDue \in [Procs -> SUBSET JobIds] /\ hookRuns \in [JobIds -> Nat]
  BY DEF TypeOK
<1>3. CASE UNCHANGED <<hookDue, hookRuns>>
  BY <1>1, <1>2, <1>3 DEF HookInv
<1>4. ASSUME NEW p \in Procs, NEW due \in SUBSET JobIds,
             hookDue' = [hookDue EXCEPT ![p] = due],
             UNCHANGED hookRuns,
             \A i \in due : job[i].status = "running" /\ job'[i].status = "dead"
      PROVE  HookInv'
  <2>1. \A i \in due : ~Over(i)
    BY <1>4 DEF Over
  <2>2. \A i \in due : Over(i)'
    BY <1>4, BudgetOfRow DEF Over
  <2>3. \A i \in due : hookRuns'[i] = 0 /\ \A q \in Procs : i \notin hookDue[q]
    BY <1>2, <1>4, <2>1 DEF HookInv
  <2> QED
    BY <1>1, <1>2, <1>4, <2>2, <2>3 DEF HookInv
<1>5. ASSUME NEW p \in Procs, NEW i \in hookDue[p],
             hookRuns' = [hookRuns EXCEPT ![i] = @ + 1],
             hookDue' = [hookDue EXCEPT ![p] = @ \ {i}]
      PROVE  HookInv'
  <2>1. i \in JobIds /\ Over(i) /\ hookRuns[i] = 0
    BY <1>2 DEF HookInv
  <2>2. hookRuns'[i] = 1 /\ \A j \in JobIds \ {i} : hookRuns'[j] = hookRuns[j]
    BY <1>2, <1>5, <2>1
  <2>3. \A q \in Procs : hookDue'[q] \subseteq hookDue[q] /\ i \notin hookDue'[q]
    BY <1>2, <1>5 DEF HookInv
  <2> QED
    BY <1>1, <1>2, <2>1, <2>2, <2>3 DEF HookInv
<1> QED
  BY <1>3, <1>4, <1>5, HookDueMoves

\* The hook runs at most once for a row, and only for one that used up its
\* attempts, although the runner, the reclaim and another drain may all find
\* the row failing (run_one's claim_lost test, _reclaim_stale_running).
THEOREM HookRunsOnce == Spec => []HookAtMostOnce
<1>1. Init => TypeOK /\ BudgetInv /\ HookInv
  BY TypeInit, BudgetInit, HookInit
<1>2. TypeOK /\ BudgetInv /\ HookInv /\ [Next]_vars => (TypeOK /\ BudgetInv /\ HookInv)'
  BY TypeNext, BudgetNext, HookNext
<1>3. HookInv => HookAtMostOnce
  BY DEF HookInv, HookAtMostOnce, Over
<1> QED
  BY <1>1, <1>2, <1>3, PTL DEF Spec

-----------------------------------------------------------------------------
(* Claims, when no process is suspended past the staleness timeout between *)
(* two adjacent statements.                                                *)

\* Where a step leaves a process and what it remembers.
Rests(q) ==
  /\ pc'[q] \in {"idle", "loop", "runHook", "reclaimHooks"}
  /\ \/ remembered'[q] = {}
     \/ remembered'[q] = remembered[q] /\ pc[q] \notin {"reclaim", "running"}

Stands(q) ==
  /\ pc'[q] = pc[q] /\ picked'[q] = picked[q]
  /\ sampled'[q] = sampled[q] /\ remembered'[q] = remembered[q]

Picks(q) ==
  /\ pc[q] \in {"loop", "idle"} /\ pc'[q] = "selected"
  /\ picked'[q] \in Claimable
  /\ sampled'[q] = now /\ remembered'[q] = remembered[q]
  /\ UNCHANGED <<job, now, claimant>>

LEMMA ProcMoves ==
  ASSUME TypeOK, [Next]_vars, NEW q \in Procs
  PROVE  Rests(q) \/ Stands(q) \/ Picks(q) \/ ClaimRow(q) \/ ReadRow(q) \/ SelectStale(q)
<1> USE DEF TypeOK
<1>1. CASE \E p \in Procs : ReclaimStale(p) \/ ResetRetryable(p) \/ DrainEnds(p) \/ RunHook(p)
  BY <1>1 DEF ReclaimStale, ResetRetryable, DrainEnds, RunHook, AfterRow, local, Rests, Stands
<1>2. ASSUME NEW p \in Procs, LoseClaim(p) \/ Succeed(p) \/ FailHeld(p) \/ FailLost(p)
                               \/ AuthFail(p) \/ Crash(p)
      PROVE  Rests(q) \/ Stands(q)
  <2>1. PICK to \in {"idle", "loop", "runHook"} : Leave(p, to)
    BY <1>2 DEF LoseClaim, Succeed, FailHeld, FailLost, AuthFail, Crash, AfterRow
  <2> QED
    BY <2>1 DEF Leave, Rests, Stands
<1>3. ASSUME NEW p \in Procs, NEW i \in Claimable, SelectClaim(p, i), pc[p] \in {"loop", "idle"}
      PROVE  Picks(q) \/ Stands(q)
  <2>1. picked' = [picked EXCEPT ![p] = i] /\ sampled' = [sampled EXCEPT ![p] = now]
        /\ pc' = [pc EXCEPT ![p] = "selected"]
        /\ UNCHANGED <<job, now, remembered, claimant>>
    BY <1>3 DEF SelectClaim, history
  <2> QED
    BY <1>3, <2>1 DEF Picks, Stands
<1>4. ASSUME NEW p \in Procs, ClaimRow(p) \/ ReadRow(p) \/ SelectStale(p), p # q
      PROVE  Stands(q)
  BY <1>4 DEF ClaimRow, ReadRow, SelectStale, local, Stands
<1>5. CASE UNCHANGED <<pc, picked, sampled, remembered>>
  BY <1>5 DEF Stands
<1> QED
  BY <1>1, <1>2, <1>3, <1>4, <1>5, SMTT(30)
  DEF Next, WorkerStep, ProcStep, WorkerSelects, AdderSelects, Procs,
      Enqueue, Tick, local, vars

LEMMA TimeMoves ==
  ASSUME TypeOK, [Next]_vars
  PROVE  now' = now \/ Tick
BY ZenonT(30)
   DEF Next, WorkerStep, ProcStep, WorkerSelects, AdderSelects, Enqueue, SelectStale,
       ReclaimStale, ResetRetryable, SelectClaim, DrainEnds, ClaimRow, LoseClaim,
       ReadRow, Succeed, FailHeld, FailLost, AuthFail, RunHook, Crash, vars

\* A claim that has gone stale: only such a claim can be taken away from the
\* process that made it.
Expired(c) == c.claimedAt = Null \/ c.claimedAt + StaleTimeout <= now

\* A claim being made is younger than the timeout.
FreshSamples ==
  \A p \in Procs : pc[p] \in {"selected", "claimed"} =>
    /\ sampled[p] # Null
    /\ sampled[p] <= now
    /\ now < sampled[p] + StaleTimeout

\* A row just claimed is still that process's, or a late success ended it.
ClaimedIsOwn ==
  \A p \in Procs : pc[p] = "claimed" =>
    \/ /\ HoldsClaim(job[picked[p]], sampled[p])
       /\ claimant[picked[p]] = {p}
    \/ job[picked[p]].status = "done"

\* What the reclaim selected has expired.
SelectedExpired ==
  \A p \in Procs : pc[p] = "reclaim" => \A c \in remembered[p] : Expired(c)

\* A runner's claim is its own, or has expired, or its row is done.
RunnersClaim ==
  \A p \in Procs : pc[p] = "running" => \A c \in remembered[p] :
    /\ HoldsClaim(job[c.id], c.claimedAt) =>
         claimant[c.id] = {p} /\ c.claimedAt # Null
    /\ \/ HoldsClaim(job[c.id], c.claimedAt)
       \/ Expired(c)
       \/ job[c.id].status = "done"

\* Only a runner and a reclaim remember anything, and while a remembered
\* claim is in place its attempts are the row's.
MemoryIsCurrent ==
  \A p \in Procs :
    /\ pc[p] \notin {"reclaim", "running"} => remembered[p] = {}
    /\ \A c \in remembered[p] :
         HoldsClaim(job[c.id], c.claimedAt) => c.attempts = job[c.id].attempts

ClaimInv ==
  /\ FreshSamples
  /\ ClaimedIsOwn
  /\ SelectedExpired
  /\ RunnersClaim
  /\ MemoryIsCurrent
  /\ EveryFailureCharged

LEMMA ClaimInit == Init => ClaimInv
<1> SUFFICES ASSUME Init PROVE ClaimInv
  OBVIOUS
<1>0. PICK k \in Keys, first \in BOOLEAN :
        job = [i \in JobIds |-> IF i = 1 /\ first THEN LegacyRow(k) ELSE NoRow]
  BY DEF Init
<1>1. \A i \in JobIds : job[i].attempts = 0
  BY <1>0 DEF LegacyRow, NewRow, NoRow
<1> QED
  BY <1>1 DEF Init, ClaimInv, FreshSamples, ClaimedIsOwn, SelectedExpired,
              RunnersClaim, MemoryIsCurrent, EveryFailureCharged

LEMMA FreshNext ==
  ASSUME ~Suspends, TypeOK, FreshSamples, [Next]_vars
  PROVE  FreshSamples'
<1> USE TimeoutAssumption
<1> SUFFICES ASSUME NEW p \in Procs, pc'[p] \in {"selected", "claimed"}
             PROVE  /\ sampled'[p] # Null
                    /\ sampled'[p] <= now'
                    /\ now' < sampled'[p] + StaleTimeout
  BY DEF FreshSamples
<1>0. now \in Nat \ {0} /\ now' \in Nat \ {0} /\ sampled[p] \in Nat /\ sampled'[p] \in Nat
  BY TypeNext DEF TypeOK
<1>1. CASE Tick
  <2>1. /\ pc[p] \in {"selected", "claimed"}
        /\ sampled'[p] = sampled[p]
        /\ now' = now + 1
        /\ now + 1 < sampled[p] + StaleTimeout
    BY <1>1 DEF Tick, Prompt, local
  <2> QED
    BY <1>0, <2>1 DEF FreshSamples
<1>2. CASE now' = now /\ Stands(p)
  BY <1>2 DEF FreshSamples, Stands
<1>3. CASE Picks(p)
  BY <1>0, <1>3 DEF Picks
<1>4. CASE now' = now /\ ClaimRow(p)
  BY <1>4 DEF FreshSamples, ClaimRow, local
<1>5. ~Rests(p) /\ ~ReadRow(p) /\ ~SelectStale(p)
  BY DEF Rests, ReadRow, SelectStale, TypeOK
<1> QED
  BY <1>1, <1>2, <1>3, <1>4, <1>5, ProcMoves, TimeMoves

\* Nobody but its claimant, or a reclaim that found it expired, fails or
\* resets a claim that is in place.
LEMMA WhoTakesAClaim ==
  ASSUME TypeOK, ClaimInv, [Next]_vars, NEW i \in JobIds,
         Fails(i) \/ Resets(i), job[i].status = "running"
  PROVE  \/ \E p \in Procs : claimant[i] = {p} /\ pc[p] = "running" /\ remembered'[p] = {}
         \/ Expired(job[i])
<1>1. PICK p \in Procs, c \in Claim : pc[p] \in {"reclaim", "running"} /\ Uses(p, i, c)
  BY DEF Fails, Resets
<1>2. CASE pc[p] = "reclaim"
  BY <1>1, <1>2 DEF ClaimInv, SelectedExpired, Uses, HoldsClaim, Expired
<1>3. CASE pc[p] = "running"
  BY <1>1, <1>3 DEF ClaimInv, RunnersClaim, Uses
<1> QED
  BY <1>1, <1>2, <1>3

LEMMA ExpiredStays ==
  ASSUME TypeOK, [Next]_vars, NEW c, c.claimedAt \in Nat, Expired(c)
  PROVE  Expired(c)'
<1>1. now' \in Nat /\ now \in Nat /\ (now' = now \/ now' = now + 1)
  BY TimeMoves, TypeNext DEF Tick, TypeOK
<1> QED
  BY <1>1, TimeoutAssumption DEF Expired

\* What a step does to a row that is running: it stays as it is, is finished,
\* or is taken from its claimant by one of the two above.
LEMMA RunningRowStep ==
  ASSUME TypeOK, [Next]_vars, NEW i \in JobIds, job[i].status = "running"
  PROVE  \/ job'[i] = job[i] /\ claimant'[i] = claimant[i]
         \/ job'[i].status = "done"
         \/ Fails(i) \/ Resets(i)
<1>1. ~Inserts(i) /\ ~Claims(i)
  BY InsertsAbsent DEF Claims
<1>2. Finishes(i) => job'[i].status = "done"
  BY DEF Finishes, TypeOK, Row
<1> QED
  BY <1>1, <1>2, RowMoves DEF Moves, Keeps, KeepsHistory

LEMMA ClaimedIsOwnNext ==
  ASSUME ~Suspends, TypeOK, ClaimInv, [Next]_vars
  PROVE  ClaimedIsOwn'
<1> SUFFICES ASSUME NEW p \in Procs, pc'[p] = "claimed"
             PROVE  \/ /\ HoldsClaim(job'[picked'[p]], sampled'[p])
                       /\ claimant'[picked'[p]] = {p}
                    \/ job'[picked'[p]].status = "done"
  BY DEF ClaimedIsOwn
<1>1. CASE ClaimRow(p)
  <2>1. picked[p] \in JobIds /\ sampled[p] \in Nat
    BY <1>1 DEF ClaimRow, TypeOK
  <2>2. /\ job'[picked[p]] = [job[picked[p]] EXCEPT !.status = "running",
                                                  !.claimedAt = sampled[p]]
        /\ claimant'[picked[p]] = {p}
        /\ picked'[p] = picked[p] /\ sampled'[p] = sampled[p]
    BY <1>1, <2>1 DEF ClaimRow, TypeOK, local
  <2>3. job[picked[p]] \in Row
    BY <2>1 DEF TypeOK
  <2> QED
    BY <2>1, <2>2, <2>3 DEF HoldsClaim, Row
<1>2. CASE Stands(p)
  <2> DEFINE i == picked[p]
  <2>0. pc[p] = "claimed" /\ i \in JobIds /\ picked'[p] = i /\ sampled'[p] = sampled[p]
    BY <1>2 DEF Stands, TypeOK
  <2> HIDE DEF i
  <2>1. CASE job[i].status = "done"
    BY <2>0, <2>1, TerminalStep
  <2>2. CASE HoldsClaim(job[i], sampled[p]) /\ claimant[i] = {p}
    <3>1. job[i].status = "running" /\ job[i].claimedAt = sampled[p]
      BY <2>2 DEF HoldsClaim
    <3>2. ~Expired(job[i])
      BY <2>0, <3>1, TimeoutAssumption
      DEF Expired, ClaimInv, FreshSamples, TypeOK
    <3>3. ~(Fails(i) \/ Resets(i))
      BY <2>0, <2>2, <3>1, <3>2, WhoTakesAClaim
    <3> QED
      BY <2>0, <2>2, <3>1, <3>3, RunningRowStep
  <2> QED
    BY <2>0, <2>1, <2>2 DEF ClaimInv, ClaimedIsOwn, i
<1>3. ~Rests(p) /\ ~Picks(p) /\ ~ReadRow(p) /\ ~SelectStale(p)
  BY DEF Rests, Picks, ReadRow, SelectStale, TypeOK
<1> QED
  BY <1>1, <1>2, <1>3, ProcMoves

LEMMA SelectedExpiredNext ==
  ASSUME TypeOK, SelectedExpired, [Next]_vars
  PROVE  SelectedExpired'
<1> SUFFICES ASSUME NEW p \in Procs, pc'[p] = "reclaim", NEW c \in remembered'[p]
             PROVE  Expired(c)'
  BY DEF SelectedExpired
<1>1. CASE SelectStale(p)
  <2>1. PICK i \in JobIds : IsStale(job[i]) /\ c = RememberedClaim(i)
    BY <1>1 DEF SelectStale, TypeOK
  <2>2. now' = now
    BY <1>1 DEF SelectStale
  <2> QED
    BY <2>1, <2>2 DEF IsStale, RememberedClaim, Expired
<1>2. CASE Stands(p)
  <2>1. c \in remembered[p] /\ pc[p] = "reclaim"
    BY <1>2 DEF Stands
  <2>2. Expired(c) /\ c.claimedAt \in Nat
    BY <2>1 DEF SelectedExpired, TypeOK, Claim
  <2> QED
    BY <2>2, ExpiredStays
<1>3. ~Rests(p) /\ ~Picks(p) /\ ~ReadRow(p) /\ ~ClaimRow(p)
  BY DEF Rests, Picks, ReadRow, ClaimRow, TypeOK
<1> QED
  BY <1>1, <1>2, <1>3, ProcMoves

\* A claim that is not in place before a step is in place after it only if
\* the step made it, which takes a pending row and a fresh clock reading.
LEMMA ClaimsAreNew ==
  ASSUME TypeOK, ClaimInv, [Next]_vars, NEW c \in Claim,
         HoldsClaim(job'[c.id], c.claimedAt), ~HoldsClaim(job[c.id], c.claimedAt)
  PROVE  ~Expired(c) /\ job[c.id].status = "pending"
<1> DEFINE i == c.id
<1>0. i \in JobIds /\ job[i] \in Row /\ c.claimedAt \in Nat
  BY DEF TypeOK, Claim
<1> HIDE DEF i
<1>1. CASE Claims(i)
  <2>1. PICK p \in Procs :
          /\ pc[p] = "selected" /\ job[i].status = "pending"
          /\ job'[i] = [job[i] EXCEPT !.status = "running", !.claimedAt = sampled[p]]
    BY <1>1 DEF Claims
  <2>2. sampled[p] \in Nat
    BY DEF TypeOK
  <2>3. c.claimedAt = sampled[p]
    BY <1>0, <2>1, <2>2 DEF HoldsClaim, Row, i
  <2> QED
    BY <2>1, <2>2, <2>3, TimeoutAssumption
    DEF ClaimInv, FreshSamples, Expired, TypeOK, i
<1>2. CASE Keeps(i)
  BY <1>2 DEF Keeps, i
<1>3. CASE Inserts(i)
  BY <1>3 DEF Inserts, NewRow, HoldsClaim, i
<1>4. CASE Resets(i)
  <2>1. job'[i].status = "pending"
    BY <1>0, <1>4 DEF Resets, Row
  <2> QED
    BY <2>1 DEF HoldsClaim, i
<1>5. CASE Fails(i)
  <2>1. PICK d \in Claim : job'[i] = AfterFailure(job[i], d.attempts, now)
    BY <1>5 DEF Fails
  <2>2. d.attempts \in Nat /\ now \in Nat
    BY DEF Claim, TypeOK
  <2>3. AfterFailure(job[i], d.attempts, now).status \in {"failed", "dead"}
    BY <1>0, <2>2, FailureStatus
  <2>4. job'[i].status \in {"failed", "dead"}
    BY <2>1, <2>3
  <2> QED
    BY <2>4 DEF HoldsClaim, i
<1>6. CASE Finishes(i)
  <2>1. job'[i].status = "done"
    BY <1>0, <1>6 DEF Finishes, Row
  <2> QED
    BY <2>1 DEF HoldsClaim, i
<1> QED
  BY <1>0, <1>1, <1>2, <1>3, <1>4, <1>5, <1>6, RowMoves DEF Moves

LEMMA RunnersClaimNext ==
  ASSUME ~Suspends, TypeOK, ClaimInv, [Next]_vars
  PROVE  RunnersClaim'
<1> SUFFICES ASSUME NEW p \in Procs, pc'[p] = "running", NEW c \in remembered'[p]
             PROVE  /\ HoldsClaim(job'[c.id], c.claimedAt) =>
                         claimant'[c.id] = {p} /\ c.claimedAt # Null
                    /\ \/ HoldsClaim(job'[c.id], c.claimedAt)
                       \/ Expired(c)'
                       \/ job'[c.id].status = "done"
  BY DEF RunnersClaim
<1>1. CASE ReadRow(p)
  <2>1. /\ pc[p] = "claimed" /\ picked[p] \in JobIds
        /\ c = RememberedClaim(picked[p])
        /\ UNCHANGED <<job, claimant>>
    BY <1>1 DEF ReadRow, TypeOK, history
  <2>2. c.id = picked[p] /\ c.claimedAt = job[picked[p]].claimedAt
    BY <2>1 DEF RememberedClaim
  <2>3. CASE job[picked[p]].status = "done"
    BY <2>1, <2>2, <2>3 DEF HoldsClaim
  <2>4. CASE HoldsClaim(job[picked[p]], sampled[p]) /\ claimant[picked[p]] = {p}
    <3>1. sampled[p] # Null
      BY <2>1 DEF ClaimInv, FreshSamples
    <3> QED
      BY <2>1, <2>2, <2>4, <3>1 DEF HoldsClaim
  <2> QED
    BY <2>1, <2>3, <2>4 DEF ClaimInv, ClaimedIsOwn
<1>2. CASE Stands(p)
  <2>1. c \in remembered[p] /\ pc[p] = "running" /\ c \in Claim
    BY <1>2 DEF Stands, TypeOK
  <2>2. c.id \in JobIds /\ c.claimedAt \in Nat
    BY <2>1 DEF Claim
  <2>3. Expired(c) => Expired(c)'
    BY <2>2, ExpiredStays
  <2>4. job[c.id].status = "done" => job'[c.id].status = "done"
    BY <2>2, TerminalStep
  <2>5. CASE HoldsClaim(job[c.id], c.claimedAt)
    <3>0. /\ job[c.id].status = "running" /\ job[c.id].claimedAt = c.claimedAt
          /\ claimant[c.id] = {p} /\ c.claimedAt # Null
      BY <2>1, <2>5 DEF ClaimInv, RunnersClaim, HoldsClaim
    <3>1. CASE job'[c.id] = job[c.id] /\ claimant'[c.id] = claimant[c.id]
      BY <2>5, <3>0, <3>1
    <3>2. CASE job'[c.id].status = "done"
      BY <3>2 DEF HoldsClaim
    <3>3. CASE Fails(c.id) \/ Resets(c.id)
      <4>1. remembered'[p] # {}
        OBVIOUS
      <4>2. Expired(job[c.id])
        BY <2>2, <3>0, <3>3, <4>1, WhoTakesAClaim
      <4>3. Expired(c)'
        BY <2>3, <3>0, <4>2 DEF Expired
      <4>4. job'[c.id].status # "running"
        <5>1. CASE Fails(c.id)
          <6>1. PICK d \in Claim : job'[c.id] = AfterFailure(job[c.id], d.attempts, now)
            BY <5>1 DEF Fails
          <6>2. d.attempts \in Nat /\ now \in Nat /\ job[c.id] \in Row
            BY <2>2 DEF Claim, TypeOK
          <6>3. job'[c.id].status \in {"failed", "dead"}
            BY <6>1, <6>2, FailureStatus
          <6> QED
            BY <6>3
        <5>2. CASE Resets(c.id)
          <6>1. job[c.id] \in Row
            BY <2>2 DEF TypeOK
          <6>2. job'[c.id].status = "pending"
            BY <5>2, <6>1 DEF Resets, Row
          <6> QED
            BY <6>2
        <5> QED
          BY <3>3, <5>1, <5>2
      <4> QED
        BY <4>3, <4>4 DEF HoldsClaim
    <3> QED
      BY <2>2, <3>0, <3>1, <3>2, <3>3, RunningRowStep
  <2>6. CASE ~HoldsClaim(job[c.id], c.claimedAt)
    <3>1. Expired(c) \/ job[c.id].status = "done"
      BY <2>1, <2>6 DEF ClaimInv, RunnersClaim
    <3>2. ~HoldsClaim(job'[c.id], c.claimedAt)
      BY <2>1, <2>6, <3>1, ClaimsAreNew
    <3> QED
      BY <2>3, <2>4, <3>1, <3>2
  <2> QED
    BY <2>5, <2>6
<1>3. ~Rests(p) /\ ~Picks(p) /\ ~ClaimRow(p) /\ ~SelectStale(p)
  BY DEF Rests, Picks, ClaimRow, SelectStale, TypeOK
<1> QED
  BY <1>1, <1>2, <1>3, ProcMoves

LEMMA MemoryIsCurrentNext ==
  ASSUME TypeOK, ClaimInv, [Next]_vars
  PROVE  MemoryIsCurrent'
<1>1. ASSUME NEW p \in Procs, pc'[p] \notin {"reclaim", "running"}
      PROVE  remembered'[p] = {}
  BY <1>1, ProcMoves
  DEF Rests, Stands, Picks, ClaimRow, ReadRow, SelectStale, local, TypeOK,
      ClaimInv, MemoryIsCurrent
<1>2. ASSUME NEW p \in Procs, NEW c \in remembered'[p],
             HoldsClaim(job'[c.id], c.claimedAt)
      PROVE  c.attempts = job'[c.id].attempts
  <2>1. CASE c.id \in JobIds /\ c = RememberedClaim(c.id) /\ UNCHANGED job
    BY <2>1 DEF RememberedClaim
  <2>2. CASE c \in remembered[p]
    <3>0. c \in Claim /\ c.id \in JobIds /\ job[c.id] \in Row
      BY <2>2 DEF TypeOK, Claim
    <3>1. CASE HoldsClaim(job[c.id], c.claimedAt)
      <4>1. c.attempts = job[c.id].attempts /\ job[c.id].status = "running"
        BY <2>2, <3>1 DEF ClaimInv, MemoryIsCurrent, HoldsClaim
      <4>2. ~(Fails(c.id) \/ Resets(c.id))
        <5>1. CASE Fails(c.id)
          <6>1. PICK d \in Claim : job'[c.id] = AfterFailure(job[c.id], d.attempts, now)
            BY <5>1 DEF Fails
          <6>2. d.attempts \in Nat /\ now \in Nat
            BY DEF Claim, TypeOK
          <6>3. job'[c.id].status \in {"failed", "dead"}
            BY <3>0, <6>1, <6>2, FailureStatus
          <6> QED
            BY <1>2, <6>3 DEF HoldsClaim
        <5>2. CASE Resets(c.id)
          BY <1>2, <3>0, <5>2 DEF Resets, Row, HoldsClaim
        <5> QED
          BY <5>1, <5>2
      <4> QED
        BY <1>2, <3>0, <4>1, <4>2, RunningRowStep DEF HoldsClaim
    <3>2. CASE ~HoldsClaim(job[c.id], c.claimedAt)
      <4>1. ~Expired(c) /\ job[c.id].status = "pending"
        BY <1>2, <3>0, <3>2, ClaimsAreNew
      <4>2. pc[p] \in {"reclaim", "running"}
        BY <2>2 DEF ClaimInv, MemoryIsCurrent
      <4> QED
        BY <2>2, <3>2, <4>1, <4>2 DEF ClaimInv, SelectedExpired, RunnersClaim
    <3> QED
      BY <3>1, <3>2
  <2> QED
    BY <2>1, <2>2, RememberedMoves
<1> QED
  BY <1>1, <1>2 DEF MemoryIsCurrent

LEMMA ChargedNext ==
  ASSUME TypeOK, BudgetInv, ClaimInv, [Next]_vars
  PROVE  EveryFailureCharged'
<1> SUFFICES ASSUME NEW i \in JobIds PROVE job'[i].attempts = charged'[i]
  BY DEF EveryFailureCharged
<1>0. job[i] \in Row /\ job[i].attempts = charged[i]
  BY DEF TypeOK, ClaimInv, EveryFailureCharged
<1>1. CASE Keeps(i) \/ Claims(i) \/ Resets(i) \/ Finishes(i)
  BY <1>0, <1>1 DEF Keeps, Claims, Resets, Finishes, KeepsHistory, Row
<1>2. CASE Inserts(i)
  <2>1. job[i].status = "absent"
    BY <1>2, InsertsAbsent
  <2>2. job[i].attempts = 0
    BY <2>1 DEF BudgetInv
  <2>3. job'[i].attempts = 0 /\ charged'[i] = charged[i]
    BY <1>2 DEF Inserts, NewRow, KeepsHistory
  <2> QED
    BY <1>0, <2>2, <2>3
<1>3. CASE Fails(i)
  <2>1. PICK p \in Procs, c \in Claim :
          /\ Uses(p, i, c)
          /\ job'[i] = AfterFailure(job[i], c.attempts, now)
          /\ charged'[i] = charged[i] + 1
    BY <1>3 DEF Fails
  <2>2. c.attempts = job[i].attempts
    BY <2>1 DEF Uses, ClaimInv, MemoryIsCurrent
  <2>3. c.attempts \in Nat /\ now \in Nat
    BY <2>1 DEF Claim, TypeOK
  <2>4. job'[i].attempts = c.attempts + 1
    BY <1>0, <2>1, <2>3, FailureAttempts
  <2> QED
    BY <1>0, <2>1, <2>2, <2>4
<1> QED
  BY <1>1, <1>2, <1>3, RowMoves DEF Moves

LEMMA ClaimNext ==
  ASSUME ~Suspends
  PROVE  TypeOK /\ BudgetInv /\ ClaimInv /\ [Next]_vars => ClaimInv'
<1> SUFFICES ASSUME TypeOK, BudgetInv, ClaimInv, [Next]_vars PROVE ClaimInv'
  OBVIOUS
<1>1. FreshSamples'
  BY FreshNext DEF ClaimInv
<1>2. ClaimedIsOwn' /\ SelectedExpired'
  BY ClaimedIsOwnNext, SelectedExpiredNext DEF ClaimInv
<1>3. RunnersClaim' /\ MemoryIsCurrent'
  BY RunnersClaimNext, MemoryIsCurrentNext
<1>4. EveryFailureCharged'
  BY ChargedNext
<1> QED
  BY <1>1, <1>2, <1>3, <1>4 DEF ClaimInv

LEMMA ClaimsHold ==
  ASSUME ~Suspends
  PROVE  Spec => [](TypeOK /\ BudgetInv /\ ClaimInv)
<1>1. Init => TypeOK /\ BudgetInv /\ ClaimInv
  BY TypeInit, BudgetInit, ClaimInit
<1>2. TypeOK /\ BudgetInv /\ ClaimInv /\ [Next]_vars => (TypeOK /\ BudgetInv /\ ClaimInv)'
  BY TypeNext, BudgetNext, ClaimNext
<1> QED
  BY <1>1, <1>2, PTL DEF Spec

\* No failure is lost: however runners stall, are reclaimed and come back
\* late, each failure recorded against a row is one attempt charged to it
\* (cas_update_running's guard on the exact claim).
THEOREM FailuresAreCharged ==
  ASSUME ~Suspends
  PROVE  Spec => []EveryFailureCharged
<1>1. ClaimInv => EveryFailureCharged
  BY DEF ClaimInv
<1> QED
  BY <1>1, ClaimsHold, PTL

\* A runner leaves its row by its own step, and only two of those steps
\* touch the row without finishing it.
LEMMA WhoLeaves ==
  ASSUME TypeOK, [Next]_vars, NEW p \in Procs, NEW i \in JobIds,
         pc[p] = "running", pc'[p] # "running", job'[i] # job[i]
  PROVE  Succeed(p) \/ FailHeld(p) \/ AuthFail(p)
<1>1. ASSUME NEW q \in Procs, q # p
      PROVE  /\ ~Succeed(q) /\ ~FailHeld(q) /\ ~FailLost(q) /\ ~AuthFail(q)
             /\ ~Crash(q) /\ ~LoseClaim(q) /\ ~ClaimRow(q) /\ ~ReadRow(q)
             /\ ~SelectStale(q) /\ ~ReclaimStale(q) /\ ~ResetRetryable(q)
             /\ ~DrainEnds(q) /\ ~RunHook(q)
             /\ \A j \in JobIds : ~SelectClaim(q, j)
  BY <1>1 DEF TypeOK, Succeed, FailHeld, FailLost, AuthFail, Crash, LoseClaim,
     ClaimRow, ReadRow, SelectStale, ReclaimStale, ResetRetryable, DrainEnds,
     RunHook, SelectClaim, Leave
<1>2. /\ ~FailLost(p) /\ ~Crash(p) /\ ~LoseClaim(p) /\ ~ClaimRow(p) /\ ~ReadRow(p)
      /\ ~SelectStale(p) /\ ~ReclaimStale(p) /\ ~ResetRetryable(p)
      /\ ~DrainEnds(p) /\ ~RunHook(p)
      /\ \A j \in JobIds : ~SelectClaim(p, j)
  BY DEF FailLost, Crash, LoseClaim, ClaimRow, ReadRow, SelectStale, ReclaimStale,
     ResetRetryable, DrainEnds, RunHook, SelectClaim
<1>3. ~Tick /\ ~UNCHANGED vars /\ \A k \in Keys : ~Enqueue(k)
  BY DEF Tick, vars, Enqueue
<1> QED
  BY <1>1, <1>2, <1>3
  DEF Next, WorkerStep, ProcStep, WorkerSelects, AdderSelects, Procs, Claimable

\* A runner's failure or missing credential releases only the claim that
\* runner made, never one that another process has made since.
THEOREM ClaimantReleases ==
  ASSUME ~Suspends
  PROVE  Spec => OnlyClaimantReleases
<1> DEFINE Released ==
      \A p \in Procs, i \in JobIds :
        /\ pc[p] = "running" /\ pc'[p] # "running"
        /\ job[i].status = "running"
        /\ job'[i].status \in {"failed", "dead", "pending"}
        => p \in claimant[i]
<1>1. ASSUME TypeOK, ClaimInv, [Next]_vars PROVE Released
  <2> SUFFICES ASSUME NEW p \in Procs, NEW i \in JobIds,
                      pc[p] = "running", pc'[p] # "running",
                      job[i].status = "running",
                      job'[i].status \in {"failed", "dead", "pending"}
               PROVE  p \in claimant[i]
    OBVIOUS
  <2>1. PICK c \in remembered[p] : HoldsClaim(job[i], c.claimedAt) /\ c.id = i
    <3>1. CASE FailHeld(p)
      BY <1>1, <3>1 DEF FailHeld, TypeOK
    <3>2. CASE AuthFail(p)
      BY <1>1, <3>2 DEF AuthFail, TypeOK
    <3>3. CASE Succeed(p)
      BY <1>1, <3>3 DEF Succeed, TypeOK, Row
    <3> QED
      BY <1>1, <3>1, <3>2, <3>3, WhoLeaves
  <2> QED
    BY <1>1, <2>1 DEF ClaimInv, RunnersClaim
<1> HIDE DEF Released
<1>2. TypeOK /\ ClaimInv /\ [Next]_vars => [Released]_vars
  BY <1>1
<1>3. Spec => [][Released]_vars
  BY <1>2, ClaimsHold, PTL DEF Spec
<1> QED
  BY <1>3 DEF OnlyClaimantReleases, Released

\* The only step that takes a process from its selection of stale claims to
\* the hooks they owe is the transaction that fails them.
LEMMA WhoReclaims ==
  ASSUME TypeOK, [Next]_vars, NEW p \in Procs,
         pc[p] = "reclaim", pc'[p] = "reclaimHooks"
  PROVE  ReclaimStale(p)
<1>1. ASSUME NEW q \in Procs
      PROVE  /\ ~Succeed(q) /\ ~FailHeld(q) /\ ~FailLost(q) /\ ~AuthFail(q)
             /\ ~Crash(q) /\ ~LoseClaim(q) /\ ~ClaimRow(q) /\ ~ReadRow(q)
             /\ ~SelectStale(q) /\ ~ResetRetryable(q)
             /\ ~DrainEnds(q) /\ ~RunHook(q)
             /\ \A j \in JobIds : ~SelectClaim(q, j)
             /\ ReclaimStale(q) => q = p
  BY DEF TypeOK, Succeed, FailHeld, FailLost, AuthFail, Crash, LoseClaim,
     ClaimRow, ReadRow, SelectStale, ReclaimStale, ResetRetryable, DrainEnds,
     RunHook, SelectClaim, Leave, AfterRow
<1>2. ~Tick /\ ~UNCHANGED vars /\ \A k \in Keys : ~Enqueue(k)
  BY DEF Tick, vars, Enqueue
<1> QED
  BY <1>1, <1>2
  DEF Next, WorkerStep, ProcStep, WorkerSelects, AdderSelects, Procs, Claimable

\* A live worker's claim is never taken by the crash reclaim before it has
\* outlived the timeout, even when the row was finished, failed or claimed
\* again between the reclaim's SELECT and its transaction
\* (_reclaim_stale_running). No assumption on suspended processes is needed.
THEOREM ReclaimsAreStale == Spec => ReclaimOnlyStale
<1> DEFINE TakenAreStale ==
      \A w \in Workers, i \in JobIds :
        /\ pc[w] = "reclaim" /\ pc'[w] = "reclaimHooks"
        /\ job'[i] # job[i]
        => IsStale(job[i])
<1>1. ASSUME TypeOK, SelectedExpired, [Next]_vars PROVE TakenAreStale
  <2> SUFFICES ASSUME NEW w \in Workers, NEW i \in JobIds,
                      pc[w] = "reclaim", pc'[w] = "reclaimHooks",
                      job'[i] # job[i]
               PROVE  IsStale(job[i])
    OBVIOUS
  <2>1. w \in Procs /\ ReclaimStale(w)
    BY <1>1, WhoReclaims DEF Procs
  <2>2. PICK c \in remembered[w] : c.id = i /\ HoldsClaim(job[i], c.claimedAt)
    BY <2>1 DEF ReclaimStale
  <2>3. Expired(c)
    BY <1>1, <2>1, <2>2 DEF SelectedExpired
  <2> QED
    BY <2>2, <2>3 DEF IsStale, HoldsClaim, Expired
<1> HIDE DEF TakenAreStale
<1>2. Init => TypeOK /\ SelectedExpired
  BY TypeInit, ClaimInit DEF ClaimInv
<1>3. TypeOK /\ SelectedExpired /\ [Next]_vars => (TypeOK /\ SelectedExpired)'
  BY TypeNext, SelectedExpiredNext
<1>4. TypeOK /\ SelectedExpired /\ [Next]_vars => [TakenAreStale]_vars
  BY <1>1
<1>5. Spec => [][TakenAreStale]_vars
  BY <1>2, <1>3, <1>4, PTL DEF Spec
<1> QED
  BY <1>5 DEF ReclaimOnlyStale, TakenAreStale

-----------------------------------------------------------------------------
(* The refinement: the rows of the queue live the lifecycle of             *)
(* JobLifecycle.                                                           *)

\* Nobody runs a row that was never inserted.
PickedExists ==
  \A p \in Procs :
    pc[p] \in {"selected", "claimed", "running"} => job[picked[p]].status # "absent"

LEMMA ExistingStay ==
  ASSUME TypeOK, [Next]_vars, NEW i \in JobIds, job[i].status # "absent"
  PROVE  job'[i].status # "absent"
<1>0. job[i] \in Row /\ now \in Nat
  BY DEF TypeOK
<1>1. CASE Keeps(i)
  BY <1>1 DEF Keeps
<1>2. ~Inserts(i)
  BY InsertsAbsent
<1>3. CASE Claims(i)
  BY <1>0, <1>3 DEF Claims, Row
<1>4. CASE Resets(i)
  BY <1>0, <1>4 DEF Resets, Row
<1>5. CASE Finishes(i)
  BY <1>0, <1>5 DEF Finishes, Row
<1>6. CASE Fails(i)
  <2>1. PICK c \in Claim : job'[i] = AfterFailure(job[i], c.attempts, now)
    BY <1>6 DEF Fails
  <2>2. job'[i].status \in {"failed", "dead"}
    BY <1>0, <2>1, FailureStatus DEF Claim
  <2> QED
    BY <2>2
<1> QED
  BY <1>1, <1>2, <1>3, <1>4, <1>5, <1>6, RowMoves DEF Moves

LEMMA PickedExistsNext ==
  ASSUME TypeOK, PickedExists, [Next]_vars
  PROVE  PickedExists'
<1> SUFFICES ASSUME NEW p \in Procs, pc'[p] \in {"selected", "claimed", "running"}
             PROVE  job'[picked'[p]].status # "absent"
  BY DEF PickedExists
<1>1. ASSUME pc[p] \in {"selected", "claimed", "running"}, picked'[p] = picked[p]
      PROVE  job'[picked'[p]].status # "absent"
  BY <1>1, ExistingStay DEF TypeOK, PickedExists
<1>2. CASE Stands(p)
  BY <1>1, <1>2 DEF Stands
<1>3. CASE ClaimRow(p) \/ ReadRow(p)
  BY <1>1, <1>3 DEF ClaimRow, ReadRow, local
<1>4. CASE Picks(p)
  BY <1>4 DEF Picks, Claimable
<1>5. ~Rests(p) /\ ~SelectStale(p)
  BY DEF Rests, SelectStale, TypeOK
<1> QED
  BY <1>2, <1>3, <1>4, <1>5, ProcMoves

LEMMA LifecycleInit == Init => Lifecycle!Init
<1> SUFFICES ASSUME Init PROVE Lifecycle!Init
  OBVIOUS
<1>0. PICK k \in Keys, first \in BOOLEAN :
        job = [i \in JobIds |-> IF i = 1 /\ first THEN LegacyRow(k) ELSE NoRow]
  BY DEF Init
<1> DEFINE states == {[phase |-> "none", key |-> NoKey, failures |-> 0]}
                     \cup [phase : {"working"}, key : Keys, failures : {0}]
<1>1. ASSUME NEW i \in JobIds
      PROVE  [phase |-> PhaseOf(job[i].status), key |-> job[i].key,
              failures |-> job[i].attempts] \in states
  <2>1. CASE i = 1 /\ first
    BY <1>0, <2>1 DEF LegacyRow, NewRow, PhaseOf
  <2>2. CASE ~(i = 1 /\ first)
    BY <1>0, <2>2 DEF NoRow, PhaseOf
  <2> QED
    BY <2>1, <2>2
<1> QED
  BY <1>1 DEF Lifecycle!Init, LifecycleRow

\* What a step does to one row is a step of its lifecycle, or hidden.
LEMMA LifecycleRowStep ==
  ASSUME TypeOK, BudgetInv, MemoryIsCurrent, PickedExists, [Next]_vars,
         NEW i \in JobIds
  PROVE  LifecycleRow'[i] = LifecycleRow[i] \/ Lifecycle!RowStep(i)
<1> DEFINE old == LifecycleRow[i]
           new == LifecycleRow'[i]
<1>0. /\ old = [phase |-> PhaseOf(job[i].status), key |-> job[i].key,
                failures |-> job[i].attempts]
      /\ new = [phase |-> PhaseOf(job'[i].status), key |-> job'[i].key,
                failures |-> job'[i].attempts]
      /\ job[i] \in Row /\ now \in Nat
  BY DEF LifecycleRow, TypeOK
<1>1. CASE Keeps(i)
  BY <1>0, <1>1 DEF Keeps
<1>2. CASE Inserts(i)
  <2>1. PICK k \in Keys : LiveFor(k) = {} /\ job'[i] = NewRow(k, now)
    BY <1>2 DEF Inserts
  <2>2. old.phase = "none"
    BY <1>0, <1>2, InsertsAbsent DEF PhaseOf
  <2>3. new = [phase |-> "waiting", key |-> k, failures |-> 0]
    BY <1>0, <2>1 DEF NewRow, PhaseOf
  <2>4. ASSUME NEW j \in JobIds, LifecycleRow[j].key = k
        PROVE  LifecycleRow[j].phase \notin {"waiting", "working"}
    <3>1. ~IsLive(job[j])
      BY <2>1, <2>4 DEF LiveFor, LifecycleRow
    <3>2. LifecycleRow[j].phase = PhaseOf(job[j].status) /\ job[j].status \in Statuses
      BY DEF LifecycleRow, TypeOK, Row
    <3> QED
      BY <3>1, <3>2 DEF IsLive, LiveStatuses, Statuses, PhaseOf
  <2>5. Lifecycle!Submit(i)
    BY <2>2, <2>3, <2>4 DEF Lifecycle!Submit, Lifecycle!Live
  <2> QED
    BY <2>5 DEF Lifecycle!RowStep
<1>3. CASE Claims(i)
  <2>1. PICK t : job'[i] = [job[i] EXCEPT !.status = "running", !.claimedAt = t]
    BY <1>3 DEF Claims
  <2>2. job'[i].status = "running" /\ job'[i].key = job[i].key
        /\ job'[i].attempts = job[i].attempts /\ job[i].status = "pending"
    BY <1>0, <1>3, <2>1 DEF Row, Claims
  <2>3. old.phase = "waiting"
        /\ new = [phase |-> "working", key |-> old.key, failures |-> old.failures]
    BY <1>0, <2>2 DEF PhaseOf
  <2> QED
    BY <2>3 DEF Lifecycle!RowStep, Lifecycle!Start, Lifecycle!Enters
<1>4. CASE Resets(i)
  <2>1. job'[i].status = "pending" /\ job'[i].key = job[i].key
        /\ job'[i].attempts = job[i].attempts /\ job[i].status \in {"failed", "running"}
    BY <1>0, <1>4 DEF Row, Resets, Uses, HoldsClaim
  <2>2. CASE job[i].status = "failed"
    BY <1>0, <2>1, <2>2 DEF PhaseOf
  <2>3. CASE job[i].status = "running"
    <3>1. old.phase = "working"
          /\ new = [phase |-> "waiting", key |-> old.key, failures |-> old.failures]
      BY <1>0, <2>1, <2>3 DEF PhaseOf
    <3> QED
      BY <3>1 DEF Lifecycle!RowStep, Lifecycle!Release, Lifecycle!Enters
  <2> QED
    BY <2>1, <2>2, <2>3
<1>5. CASE Fails(i)
  <2>1. PICK p \in Procs, c \in Claim :
          c \in remembered[p] /\ c.id = i /\ HoldsClaim(job[i], c.claimedAt)
          /\ job'[i] = AfterFailure(job[i], c.attempts, now)
    BY <1>5 DEF Fails, Uses
  <2>2. job'[i] = AfterFailure(job[i], job[i].attempts, now)
    BY <2>1 DEF MemoryIsCurrent
  <2>3. job[i].attempts \in Nat /\ job[i].attempts < MaxAttempts
        /\ job[i].status = "running"
    BY <1>0, <2>1 DEF BudgetInv, AttemptsWithinBudget, HoldsClaim, IsLive, LiveStatuses, Row
  <2>4. job'[i].key = job[i].key
    BY <1>0, <2>2, <2>3, FailureKey
  <2>5. job'[i].attempts = job[i].attempts + 1
    BY <1>0, <2>2, <2>3, FailureAttempts
  <2>6. CASE job[i].attempts + 1 >= MaxAttempts
    <3>1. job'[i].status = "dead"
      BY <1>0, <2>2, <2>6 DEF AfterFailure, Row
    <3>2. PhaseOf(job[i].status) = "working" /\ PhaseOf(job'[i].status) = "dead"
      BY <2>3, <3>1 DEF PhaseOf
    <3>3. /\ old = [phase |-> "working", key |-> job[i].key,
                     failures |-> job[i].attempts]
          /\ new = [phase |-> "dead", key |-> job[i].key,
                     failures |-> job[i].attempts + 1]
      BY <1>0, <2>4, <2>5, <3>2
    <3>4. job[i].attempts + 1 = MaxAttempts
      BY <2>3, <2>6, MaxAttemptsAssumption
    <3>5. old.phase = "working" /\ old.failures + 1 = MaxAttempts
      BY <3>3, <3>4
    <3> QED
      BY <3>3, <3>5 DEF Lifecycle!RowStep, Lifecycle!GiveUp, Lifecycle!Enters
  <2>7. CASE ~(job[i].attempts + 1 >= MaxAttempts)
    <3>1. job'[i].status = "failed"
      BY <1>0, <2>2, <2>7 DEF AfterFailure, Row
    <3>2. PhaseOf(job[i].status) = "working" /\ PhaseOf(job'[i].status) = "waiting"
      BY <2>3, <3>1 DEF PhaseOf
    <3>3. /\ old = [phase |-> "working", key |-> job[i].key,
                     failures |-> job[i].attempts]
          /\ new = [phase |-> "waiting", key |-> job[i].key,
                     failures |-> job[i].attempts + 1]
      BY <1>0, <2>4, <2>5, <3>2
    <3>4. job[i].attempts + 1 < MaxAttempts
      BY <2>3, <2>7, MaxAttemptsAssumption
    <3>5. old.phase = "working" /\ old.failures + 1 < MaxAttempts
      BY <3>3, <3>4
    <3> QED
      BY <3>3, <3>5 DEF Lifecycle!RowStep, Lifecycle!Retry, Lifecycle!Enters
  <2> QED
    BY <2>6, <2>7
<1>6. CASE Finishes(i)
  <2>1. job'[i].status = "done" /\ job'[i].key = job[i].key
        /\ job'[i].attempts = job[i].attempts
        /\ job[i].status \in Statuses \ {"absent"}
    BY <1>0, <1>6 DEF Row, Finishes, PickedExists
  <2>2. new = [phase |-> "done", key |-> old.key, failures |-> old.failures]
        /\ old.phase \in {"waiting", "working", "dead", "done"}
    BY <1>0, <2>1 DEF PhaseOf, Statuses, LiveStatuses
  <2>3. CASE old.phase = "done"
    BY <1>0, <2>1, <2>2, <2>3
  <2>4. CASE old.phase # "done"
    BY <2>2, <2>4 DEF Lifecycle!RowStep, Lifecycle!Finish, Lifecycle!Enters
  <2> QED
    BY <2>3, <2>4
<1> QED
  BY <1>1, <1>2, <1>3, <1>4, <1>5, <1>6, RowMoves DEF Moves

LEMMA LifecycleType ==
  ASSUME TypeOK'
  PROVE  LifecycleRow' \in [JobIds -> [phase : Lifecycle!Phases,
                                       key : Keys \cup {NoKey}, failures : Nat]]
<1>1. ASSUME NEW i \in JobIds PROVE PhaseOf(job'[i].status) \in Lifecycle!Phases
  BY DEF TypeOK, Row, Statuses, LiveStatuses, PhaseOf, Lifecycle!Phases
<1>2. \A i \in JobIds : job'[i].key \in Keys \cup {NoKey} /\ job'[i].attempts \in Nat
  BY DEF TypeOK, Row
<1> QED
  BY <1>1, <1>2 DEF LifecycleRow

\* The queue implements the lifecycle: behind any number of workers, inline
\* runs, retries, reclaims and crashes, each row has one history, in which
\* it is worked by one claim at a time, charged once per failure, given up
\* exactly when the budget is spent, and finished for good.
THEOREM QueueImplementsLifecycle ==
  ASSUME ~Suspends
  PROVE  Spec => ImplementsLifecycle
<1>1. Init => PickedExists
  BY DEF Init, PickedExists
<1>2. TypeOK /\ PickedExists /\ [Next]_vars => PickedExists'
  BY PickedExistsNext
<1>3. ASSUME TypeOK, BudgetInv, ClaimInv, PickedExists, [Next]_vars
      PROVE  [Lifecycle!Next]_LifecycleRow
  <2>1. TypeOK'
    BY <1>3, TypeNext
  <2>2. \A i \in JobIds : LifecycleRow'[i] = LifecycleRow[i] \/ Lifecycle!RowStep(i)
    BY <1>3, LifecycleRowStep DEF ClaimInv
  <2>3. LifecycleRow' \in [JobIds -> [phase : Lifecycle!Phases,
                                       key : Keys \cup {NoKey}, failures : Nat]]
    BY <2>1, LifecycleType
  <2> QED
    BY <2>2, <2>3 DEF Lifecycle!Next
<1> QED
  BY <1>1, <1>2, <1>3, ClaimsHold, LifecycleInit, PTL
  DEF Spec, ImplementsLifecycle, Lifecycle!Spec

-----------------------------------------------------------------------------
(* The worker's lock. When no worker starts while another is acquiring it, *)
(* at most one worker runs, whatever pids are reused and whoever is killed *)
(* when. With Overlap = TRUE two that start together both get it.          *)

\* One worker acquires at a time, and what it has found out is still so: a
\* running worker is the one it read from the file, and there is none when
\* it overwrites the file.
AcquirerAlone ==
  \A p \in Pids :
    doing[p] \in Acquiring =>
      /\ \A q \in Pids : doing[q] \in Acquiring => q = p
      /\ doing[p] = "probe" => \A q \in Pids : doing[q] = "held" => seen[p] = q
      /\ doing[p] \in {"write", "fill"} => \A q \in Pids : doing[q] # "held"

LockInv == LockTypeOK /\ HolderIsNamed /\ AcquirerAlone

\* The type holds in every initial state and is kept by every step.
LEMMA LockInitTypeOK == LockInit => LockTypeOK
  BY WorkerLockAssumption DEF LockInit, LockTypeOK

LEMMA LockNextTypeOK == LockTypeOK /\ [LockNext]_lockVars => LockTypeOK'
<1> SUFFICES ASSUME LockTypeOK, [LockNext]_lockVars PROVE LockTypeOK'
  OBVIOUS
<1>1. CASE UNCHANGED lockVars
  BY <1>1 DEF LockTypeOK, lockVars
<1>2. ASSUME NEW p \in Pids,
             Start(p) \/ StartOther(p) \/ OtherEnds(p) \/ Exists(p)
      PROVE  LockTypeOK'
  BY <1>2 DEF LockTypeOK, Start, StartOther, OtherEnds, Exists, Go, Acquiring
<1>3. ASSUME NEW p \in Pids, ReadPid(p) \/ Probe(p)
      PROVE  LockTypeOK'
  BY <1>3 DEF LockTypeOK, ReadPid, Probe, Go, Acquiring
<1>4. ASSUME NEW p \in Pids, Truncate(p) \/ Fill(p) \/ Release(p)
      PROVE  LockTypeOK'
  BY <1>4 DEF LockTypeOK, Truncate, Fill, Release, Go, Acquiring
<1>5. ASSUME NEW p \in Pids, Kill(p) PROVE LockTypeOK'
  BY <1>5, WorkerLockAssumption DEF LockTypeOK, Kill, Go, Acquiring
<1> QED
  BY <1>1, <1>2, <1>3, <1>4, <1>5 DEF LockNext, AcquireStep

\* The lock's state is always well formed, overlapping starts or not.
THEOREM LockTypeCorrect == LockSpec => []LockTypeOK
<1>1. LockInit => LockTypeOK
  BY LockInitTypeOK
<1>2. LockTypeOK /\ [LockNext]_lockVars => LockTypeOK'
  BY LockNextTypeOK
<1> QED
  BY <1>1, <1>2, PTL DEF LockSpec

LEMMA InitLockInv == LockInit => LockInv
  BY LockInitTypeOK DEF LockInit, LockInv, HolderIsNamed, AcquirerAlone, Acquiring

LEMMA NextLockInv ==
  ASSUME ~Overlap, LockInv, [LockNext]_lockVars
  PROVE  LockInv'
<1>0. LockTypeOK'
  BY LockNextTypeOK DEF LockInv
<1> USE DEF LockInv, LockTypeOK, HolderIsNamed, AcquirerAlone, Acquiring
<1>1. CASE UNCHANGED lockVars
  BY <1>1 DEF lockVars
<1>2. ASSUME NEW p \in Pids, Start(p) PROVE LockInv'
  BY <1>0, <1>2 DEF Start, Go
<1>3. ASSUME NEW p \in Pids, StartOther(p) \/ OtherEnds(p) PROVE LockInv'
  BY <1>0, <1>3 DEF StartOther, OtherEnds, Go
<1>4. ASSUME NEW p \in Pids, Exists(p) PROVE LockInv'
  <2>1. file = "absent" => \A q \in Pids : doing[q] # "held"
    BY WorkerLockAssumption
  <2> QED
    BY <1>0, <1>4, <2>1 DEF Exists, Go
<1>5. ASSUME NEW p \in Pids, ReadPid(p) PROVE LockInv'
  <2>1. \A q \in Pids : doing[q] = "held" => seen'[p] = q
    BY <1>5, WorkerLockAssumption DEF ReadPid
  <2> QED
    BY <1>0, <1>5, <2>1 DEF ReadPid, Go
<1>6. ASSUME NEW p \in Pids, Probe(p) PROVE LockInv'
  <2>1. ~PidAlive(seen[p]) => \A q \in Pids : doing[q] # "held"
    BY <1>6 DEF Probe, PidAlive
  <2> QED
    BY <1>0, <1>6, <2>1 DEF Probe, Go
<1>7. ASSUME NEW p \in Pids, Truncate(p) PROVE LockInv'
  BY <1>0, <1>7 DEF Truncate, Go
<1>8. ASSUME NEW p \in Pids, Fill(p) PROVE LockInv'
  BY <1>0, <1>8 DEF Fill, Go
<1>9. ASSUME NEW p \in Pids, Release(p) PROVE LockInv'
  <2>1. \A q \in Pids : doing[q] = "held" => q = p
    BY <1>9 DEF Release
  <2> QED
    BY <1>0, <1>9, <2>1 DEF Release, Go
<1>10. ASSUME NEW p \in Pids, Kill(p) PROVE LockInv'
  BY <1>0, <1>10 DEF Kill, Go
<1> QED
  BY <1>1, <1>2, <1>3, <1>4, <1>5, <1>6, <1>7, <1>8, <1>9, <1>10
  DEF LockNext, AcquireStep

LEMMA LockInvariant == ASSUME ~Overlap PROVE LockSpec => []LockInv
<1>1. LockInit => LockInv
  BY InitLockInv
<1>2. LockInv /\ [LockNext]_lockVars => LockInv'
  BY NextLockInv
<1> QED
  BY <1>1, <1>2, PTL DEF LockSpec

\* A running worker finds its own pid in the file as long as it runs.
THEOREM HolderNamed == ASSUME ~Overlap PROVE LockSpec => []HolderIsNamed
<1>1. LockInv => HolderIsNamed
  BY DEF LockInv
<1> QED
  BY <1>1, LockInvariant, PTL

\* At most one worker runs (lock.py:3), if starts do not overlap.
THEOREM MutualExclusion == ASSUME ~Overlap PROVE LockSpec => []AtMostOneWorker
<1>1. LockInv => AtMostOneWorker
  BY DEF LockInv, HolderIsNamed, AtMostOneWorker
<1> QED
  BY <1>1, LockInvariant, PTL
=============================================================================
