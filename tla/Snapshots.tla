------------------------------ MODULE Snapshots ------------------------------
(***************************************************************************)
(* Mirrored external sources: a save links a note to a URL and enqueues a  *)
(* refresh, a worker claims it, fetches the page and ingests it as a       *)
(* snapshot under the URL the fetch ended at, and re-points the note's     *)
(* edge there. A refresh that dies owes a hook that writes a tombstone.    *)
(* The reconcile scan refreshes what is past its TTL, and `lode ask`       *)
(* ingests what it fetches without a job.                                  *)
(*                                                                         *)
(* A snapshot is one of an external's possible contents: snapshot_id is a  *)
(* hash of the two, so the same content is the same row. Each transaction  *)
(* is a step; a fetch and the ingest of its result are apart. The claim    *)
(* and the crash reclaim are single steps here: JobQueue takes them apart. *)
(***************************************************************************)
EXTENDS Integers, FiniteSets

CONSTANTS
  Externals,    \* canonical URLs
  Pasted,       \* the ones the note's body holds
  Target,       \* where the site redirects every URL once it has moved
  Procs,        \* workers and asks
  Pages,        \* the texts the page can have
  Ttl,          \* settings.refresh_ttl_s
  StaleTimeout, \* settings.stale_running_timeout_s
  MaxAttempts,  \* settings.retry_max_attempts
  MaxTime,      \* bound: the clock
  MaxJobs,      \* bound: refresh jobs of an external
  MaxEdges,     \* bound: the note's edges
  MaxEvents     \* bound: asks, changes of the source, kills and failures

ASSUME SnapshotsAssumption ==
  /\ Target \in Externals
  /\ Pasted \subseteq Externals
  /\ Pages \cap {"gone", "dead", "no head"} = {}
  /\ {Ttl, StaleTimeout, MaxAttempts, MaxTime, MaxJobs, MaxEdges}
       \subseteq Nat \ {0}
  /\ MaxEvents \in Nat

Gone == "gone"    \* the tombstone of a fetch that failed for good
Dead == "dead"    \* the tombstone of a refresh that died
Contents == Pages \cup {Gone, Dead}
NoHead == "no head"
Never == 0
NoWork == [ext |-> Target, id |-> 0, claimedAt |-> Never, attempts |-> 0,
           at |-> Target, content |-> Gone]
NoScan == [found |-> {}, at |-> Never]

VARIABLES
  snaps,    \* fetched_at of each ok snapshot, Never when there is none: a
            \* tombstone's is never read
  head,     \* externals.head_snapshot_id
  edges,    \* how many edges the note has to each external
  refresh,  \* the latest refresh row of each external
  embedded, \* the snapshots with an embed job that is not dead
  indexed,  \* the snapshots in the lexical index
  page,     \* what the site serves now
  moved,    \* has the site moved?
  now,      \* lode.jobs.now()
  pc,       \* where each process is
  work,     \* the claim a process remembers, and what it has fetched
  scan,     \* what a reconcile scan found stale and has not enqueued yet
  events,   \* asks, changes of the source, kills and failures so far
  okAt,     \* history: when a fetch of each external last succeeded
  returned, \* history: externals whose head came back with its old fetched_at
  lost      \* history: the work that will not be done again

vars == <<snaps, head, edges, refresh, embedded, indexed, page, moved, now,
          pc, work, scan, events, okAt, returned, lost>>
mirror == <<snaps, head, embedded, indexed, okAt, returned>>
site == <<page, moved>>

Init ==
  /\ snaps = [e \in Externals |-> [c \in Pages |-> Never]]
  /\ head = [e \in Externals |-> NoHead]
  /\ edges = [e \in Externals |-> 0]
  /\ refresh = [e \in Externals |-> [id |-> 0, status |-> "none",
                                     claimedAt |-> Never, attempts |-> 0]]
  /\ embedded = {} /\ indexed = {}
  /\ page \in Pages /\ moved = FALSE
  /\ now = 1
  /\ pc = [p \in Procs |-> "idle"]
  /\ work = [p \in Procs |-> NoWork]
  /\ scan = NoScan
  /\ events = 0
  /\ okAt = [e \in Externals |-> Never]
  /\ returned = {} /\ lost = {}

IsOk(c) == c \in Pages
IsLive(e) == refresh[e].status \in {"pending", "failed", "running"}
Go(p, to) == pc' = [pc EXCEPT ![p] = to]
Leave(p) == Go(p, "idle") /\ work' = [work EXCEPT ![p] = NoWork]

\* One more of what is bounded by MaxEvents.
Happens == events < MaxEvents /\ events' = events + 1

\* enqueue_derive_jobs: nothing where a live row is already there.
Enqueue(S) ==
  refresh' = [e \in Externals |->
    IF e \in S /\ ~IsLive(e)
    THEN [id |-> refresh[e].id + 1, status |-> "pending",
          claimedAt |-> Never, attempts |-> 0]
    ELSE refresh[e]]

-----------------------------------------------------------------------------
(* The save path, and the reconcile scan.                                  *)

\* The handler of e's refresh has re-pointed e's edges and not yet returned.
HasRepointed(e) ==
  \E p \in Procs : pc[p] = "finish" /\ work[p].ext = e /\ work[p].at # e

\* Slip: no refresh for a URL that has had one.
SaveOnce(e) ==
  /\ edges[e] = 0
  /\ edges' = [edges EXCEPT ![e] = 1]
  /\ Enqueue({e} \cap {f \in Externals : refresh[f].id = 0})
  /\ lost' = IF IsLive(e) /\ HasRepointed(e)
             THEN lost \cup {<<e, NoHead>>} ELSE lost
  /\ UNCHANGED <<mirror, site, scan, now, pc, work, events>>

\* _link_and_enqueue: a URL the note has no edge to yet.
Save(e) ==
  /\ edges[e] = 0
  /\ edges' = [edges EXCEPT ![e] = 1]
  /\ Enqueue({e})
  /\ lost' = IF IsLive(e) /\ HasRepointed(e)
             THEN lost \cup {<<e, NoHead>>} ELSE lost
  /\ UNCHANGED <<mirror, site, scan, now, pc, work, events>>

Stale ==
  {e \in Externals : /\ head[e] \in Pages
                     /\ snaps[e][head[e]] + Ttl <= now
                     /\ ~IsLive(e)}

\* _refresh_stale_step: what is stale is selected in one statement and
\* enqueued in a later transaction. A scan that was to enqueue and was killed
\* leaves nothing, and the next one takes its place.
Scan ==
  /\ Stale # {}
  /\ scan' = [found |-> Stale, at |-> now]
  /\ UNCHANGED <<mirror, edges, refresh, site, now, pc, work, events, lost>>

Sweep ==
  /\ scan.found # {}
  /\ Enqueue(scan.found)
  /\ scan' = NoScan
  /\ UNCHANGED <<mirror, edges, site, now, pc, work, events, lost>>

Heads == {<<e, head[e]>> : e \in {f \in Externals : head[f] # NoHead}}
OkHeads == {s \in Heads : IsOk(s[2])}

\* _embed_gap_step's snapshot arm.
EmbedGap ==
  /\ OkHeads \ embedded # {}
  /\ embedded' = embedded \cup OkHeads
  /\ UNCHANGED <<snaps, head, indexed, okAt, returned, edges, refresh, site, scan,
                 now, pc, work, events, lost>>

\* An embed job exhausts its attempts.
EmbedDies(s) ==
  /\ s \in embedded
  /\ Happens
  /\ embedded' = embedded \ {s}
  /\ UNCHANGED <<snaps, head, indexed, okAt, returned, edges, refresh, site, scan,
                 now, pc, work, lost>>

-----------------------------------------------------------------------------
(* The refresh handler.                                                    *)

\* A claim. A failed row is reset to pending once its backoff has passed.
Claim(p, e) ==
  /\ pc[p] = "idle"
  /\ refresh[e].status \in {"pending", "failed"}
  /\ refresh' = [refresh EXCEPT ![e] = [@ EXCEPT !.status = "running",
                                                 !.claimedAt = now]]
  /\ work' = [work EXCEPT ![p] =
       [NoWork EXCEPT !.ext = e, !.id = refresh[e].id, !.claimedAt = now,
                      !.attempts = refresh[e].attempts]]
  /\ Go(p, "fetch")
  /\ UNCHANGED <<mirror, edges, site, scan, now, events, lost>>

\* fetch_for_ask: the same fetch and ingest, for a question and no job.
Ask(p, e) ==
  /\ pc[p] = "idle"
  /\ Happens
  /\ work' = [work EXCEPT ![p] = [NoWork EXCEPT !.ext = e]]
  /\ Go(p, "fetch")
  /\ UNCHANGED <<mirror, edges, refresh, site, scan, now, lost>>

\* fetch_and_extract returned: a text, or a permanent failure, and the URL
\* the redirects ended at. An ask raises on anything but a text.
Fetch(p) ==
  /\ pc[p] = "fetch"
  /\ IF page = Gone /\ work[p].id = 0
     THEN Leave(p)
     ELSE /\ work' = [work EXCEPT
               ![p].content = page,
               ![p].at = IF moved THEN Target ELSE work[p].ext]
          /\ Go(p, "ingest")
  /\ UNCHANGED <<mirror, edges, refresh, site, scan, now, events, lost>>

\* record_job_failure, if row id of e is still the claim made at claimedAt.
FailClaim(e, w) ==
  refresh' = [refresh EXCEPT ![e].attempts = w.attempts + 1,
    ![e].status = IF w.attempts + 1 >= MaxAttempts THEN "dead" ELSE "failed"]
HoldsClaim(e, w) ==
  /\ refresh[e].status = "running"
  /\ refresh[e].id = w.id /\ refresh[e].claimedAt = w.claimedAt

\* A transient failure, or an index write that fails: charged to the claim if
\* that is still in place. An ask has no claim.
HandlerRaises(p) ==
  LET w == work[p]
      e == w.ext
  IN  /\ pc[p] \in {"fetch", "index"}
      /\ IF w.id # 0 /\ HoldsClaim(e, w)
         THEN /\ FailClaim(e, w)
              /\ IF refresh'[e].status = "dead"
                 THEN Go(p, "hook") /\ UNCHANGED work
                 ELSE Leave(p)
         ELSE Leave(p) /\ UNCHANGED refresh
      /\ IF pc[p] = "index"
         THEN Happens /\ lost' = lost \cup {<<w.at, w.content>>}
         ELSE UNCHANGED <<events, lost>>
      /\ UNCHANGED <<mirror, edges, site, scan, now>>

\* ingest_snapshot's transaction: the head is read under the write lock. The
\* snapshot is keyed by its content, so one that was there already keeps its
\* row; its fetched_at moves only if it is the head.
Store(e, c) ==
  /\ snaps' = IF IsOk(c) /\ (snaps[e][c] = Never \/ head[e] = c)
              THEN [snaps EXCEPT ![e][c] = now] ELSE snaps
  /\ head' = [head EXCEPT ![e] = c]
  /\ embedded' = IF head[e] # c /\ IsOk(c)
                 THEN embedded \cup {<<e, c>>} ELSE embedded
  /\ okAt' = IF IsOk(c) THEN [okAt EXCEPT ![e] = now] ELSE okAt
  /\ returned' = IF head[e] # c /\ IsOk(c) /\ snaps[e][c] # Never
                 THEN returned \cup {e} ELSE returned \ {e}

AfterIngest(p) == IF work[p].at # work[p].ext /\ work[p].id # 0
                  THEN "repoint" ELSE "finish"

\* ingest_snapshot returns after its transaction, or goes on to the index.
NeedsIndex(e, c) == head[e] # c /\ IsOk(c)

Ingest(p) ==
  LET e == work[p].at
      c == work[p].content
  IN  /\ pc[p] = "ingest"
      /\ Store(e, c)
      /\ Go(p, IF NeedsIndex(e, c) THEN "index" ELSE AfterIngest(p))
      /\ UNCHANGED <<edges, refresh, indexed, site, scan, now, work, events, lost>>

\* Slip: the snapshot is indexed under the URL before its redirects.
IndexUnderPasted(p) ==
  LET s == <<work[p].ext, work[p].content>>
  IN  /\ pc[p] = "index"
      /\ indexed' = indexed \cup {s}
      /\ lost' = lost \ {s}
      /\ Go(p, AfterIngest(p))
      /\ UNCHANGED <<snaps, head, embedded, okAt, returned, edges, refresh,
                     site, scan, now, work, events>>

\* _index_snapshot_fts, which replaces what is there.
Index(p) ==
  LET s == <<work[p].at, work[p].content>>
  IN  /\ pc[p] = "index"
      /\ indexed' = indexed \cup {s}
      /\ lost' = lost \ {s}
      /\ Go(p, AfterIngest(p))
      /\ UNCHANGED <<snaps, head, embedded, okAt, returned, edges, refresh,
                     site, scan, now, work, events>>

\* _repoint_edges, for every edge of a user.
Repoint(p) ==
  LET old == work[p].ext
      new == work[p].at
  IN  /\ pc[p] = "repoint"
      /\ edges' = [edges EXCEPT ![old] = 0, ![new] = @ + edges[old]]
      /\ Go(p, "finish")
      /\ UNCHANGED <<mirror, refresh, site, scan, now, work, events, lost>>

\* The handler returned: its row is done, whatever has become of the claim.
Finish(p) ==
  LET e == work[p].ext
  IN  /\ pc[p] = "finish"
      /\ IF work[p].id # 0 /\ refresh[e].id = work[p].id
         THEN refresh' = [refresh EXCEPT ![e].status = "done"]
         ELSE UNCHANGED refresh
      /\ Leave(p)
      /\ UNCHANGED <<mirror, edges, site, scan, now, events, lost>>

-----------------------------------------------------------------------------
(* The dead-letter tombstone.                                              *)

\* _reclaim_stale_running. The worker that buries a row owes its hook.
Reclaim(p, e) ==
  LET row == refresh[e]
      w == [NoWork EXCEPT !.ext = e, !.id = row.id, !.claimedAt = row.claimedAt,
                          !.attempts = row.attempts]
  IN  /\ pc[p] = "idle"
      /\ row.status = "running" /\ row.claimedAt + StaleTimeout <= now
      /\ FailClaim(e, w)
      /\ IF refresh'[e].status = "dead"
         THEN Go(p, "hook") /\ work' = [work EXCEPT ![p] = w]
         ELSE UNCHANGED <<pc, work>>
      /\ UNCHANGED <<mirror, edges, site, scan, now, events, lost>>

\* Slip: a success in the instant of the claim does not count.
BeatenAfter(e, claimedAt) ==
  head[e] \in Pages /\ snaps[e][head[e]] > claimedAt

\* The late-success guard: skip_if_head_at_or_after.
Beaten(e, claimedAt) ==
  head[e] \in Pages /\ snaps[e][head[e]] >= claimedAt

\* _refresh_dead_letter_hook: one transaction, guard and write.
Hook(p) ==
  LET e == work[p].ext
  IN  /\ pc[p] = "hook"
      /\ IF Beaten(e, work[p].claimedAt)
         THEN UNCHANGED mirror
         ELSE Store(e, Dead) /\ UNCHANGED indexed
      /\ Leave(p)
      /\ UNCHANGED <<edges, refresh, site, scan, now, events, lost>>

\* The process is killed, or the hook raises, which is logged and forgotten.
Dies(p) ==
  /\ pc[p] # "idle"
  /\ Happens
  /\ lost' = CASE pc[p] = "hook"  -> lost \cup {<<work[p].ext, Dead>>}
              [] pc[p] = "index" -> lost \cup {<<work[p].at, work[p].content>>}
              [] OTHER           -> lost
  /\ Leave(p)
  /\ UNCHANGED <<mirror, edges, refresh, site, scan, now>>

-----------------------------------------------------------------------------
(* The source, and time.                                                   *)

Publish(c) ==
  /\ page # c /\ page' = c
  /\ Happens
  /\ UNCHANGED <<mirror, moved, scan, edges, refresh, now, pc, work, lost>>

Move ==
  /\ ~moved /\ moved' = TRUE
  /\ Happens
  /\ UNCHANGED <<mirror, page, scan, edges, refresh, now, pc, work, lost>>

Tick ==
  /\ now < MaxTime /\ now' = now + 1
  /\ UNCHANGED <<mirror, site, scan, edges, refresh, pc, work, events, lost>>

\* Bounds: how many refresh jobs and edges there are to follow.
Room(S) == \A e \in S : IsLive(e) \/ refresh[e].id < MaxJobs
EdgeRoom == \A e \in Externals : edges[e] < MaxEdges

Next ==
  \/ \E e \in Pasted : Room({e}) /\ EdgeRoom /\ Save(e)
  \/ Room(Stale) /\ Scan
  \/ Room(scan.found) /\ Sweep
  \/ EmbedGap
  \/ \E s \in embedded : EmbedDies(s)
  \/ \E p \in Procs, e \in Externals : Claim(p, e) \/ Ask(p, e) \/ Reclaim(p, e)
  \/ \E p \in Procs :
       \/ Fetch(p) \/ HandlerRaises(p) \/ Ingest(p) \/ Index(p) \/ Repoint(p)
       \/ Finish(p) \/ Hook(p) \/ Dies(p)
  \/ \E c \in Pages \cup {Gone} : Publish(c)
  \/ Move
  \/ Tick

Spec == Init /\ [][Next]_vars

-----------------------------------------------------------------------------
(* Properties.                                                             *)

\* The shape of the mirror and of its workers' memory.
TypeOK ==
  /\ snaps \in [Externals -> [Pages -> 0..MaxTime]]
  /\ head \in [Externals -> Contents \cup {NoHead}]
  /\ \A e \in Externals : head[e] \in Pages => snaps[e][head[e]] # Never
  /\ edges \in [Externals -> Nat]
  /\ refresh \in [Externals ->
       [id : 0..MaxJobs, claimedAt : 0..MaxTime, attempts : 0..MaxAttempts,
        status : {"none", "pending", "running", "failed", "done", "dead"}]]
  /\ embedded \cup indexed \subseteq Externals \X Contents
  /\ page \in Pages \cup {Gone} /\ moved \in BOOLEAN
  /\ scan \in [found : SUBSET Externals, at : 0..MaxTime]
  /\ now \in 1..MaxTime /\ events \in 0..MaxEvents
  /\ pc \in [Procs -> {"idle", "fetch", "ingest", "index", "repoint", "finish",
                      "hook"}]
  /\ \A p \in Procs : {work[p].ext, work[p].at} \subseteq Externals

\* The dead-letter hook burying a head, for a claim made at claimedAt.
Buries(p) ==
  /\ pc[p] = "hook" /\ pc'[p] = "idle"
  /\ IsOk(head[work[p].ext]) /\ head'[work[p].ext] = Dead
IsLate(p) == okAt[work[p].ext] >= work[p].claimedAt

\* worker.py:1597-1614, docs/storage.md:1178-1209: when a fetch has succeeded
\* at or after the claim whose death the hook reports, the hook leaves the
\* external alone - whether the fetch brought a new page or the same one,
\* whoever made it, and however late the hook runs. TLC refutes it, and no run
\* checks it.
LateSuccessKept == [][\A p \in Procs : Buries(p) => ~IsLate(p)]_vars

\* The same, for the cases the program really covers: a page that came back
\* as it was before some other head keeps its first fetched_at
\* (externals.py:473-477), and until it is fetched once more the guard is
\* blind to it.
LateSuccessKeptUnlessReturned ==
  [][\A p \in Procs : Buries(p) /\ IsLate(p) => work[p].ext \in returned]_vars

\* docs/storage.md:1211-1221: a refresh that no save asks for is enqueued only
\* when the last successful fetch is a TTL old, unchanged pages included
\* (again but for a page that came back). What is ingested after the scan has
\* read the store, a page or a tombstone, comes too late to stop it.
SweepCadence ==
  [][\A e \in Externals :
       refresh'[e].id # refresh[e].id /\ edges' = edges
         => \/ okAt[e] + Ttl <= now
            \/ scan.at <= okAt[e] \/ ~IsOk(head[e])
            \/ e \in returned]_vars

\* docs/externals.md, fetch outcomes: a note's edge ends at an external that
\* has a snapshot, if only a tombstone, or is about to get one. Two things lose
\* it for good: a tombstone never written, and a save that finds the refresh
\* live although its handler has already re-pointed the edges elsewhere.
CitedResolves ==
  \A e \in Externals : edges[e] > 0 =>
    \/ head[e] # NoHead
    \/ IsLive(e)
    \/ \E p \in Procs : pc[p] = "hook" /\ work[p].ext = e
    \/ {<<e, Dead>>, <<e, NoHead>>} \cap lost # {}

\* externals.py:485-490, reconcile.py:219-227: no tombstone is ever embedded or
\* indexed, by an ingest or by the gap sweep, whatever it raced with.
TombstonesStayOut == embedded \cup indexed \subseteq Externals \X Pages

\* externals.py:485-491: the page at the head can be searched for, or is being
\* indexed, or the process that was to index it died.
OkHeadIndexed ==
  \A s \in OkHeads :
    \/ s \in indexed \cup lost
    \/ \E p \in Procs : pc[p] = "index" /\ <<work[p].at, work[p].content>> = s
=============================================================================
