---------------------------- MODULE DerivedProofs ----------------------------
(***************************************************************************)
(* What readers are shown of the derived rows follows the text: the safety  *)
(* properties of Derived for any tags, links, workers, releases, versions  *)
(* and number of commands.                                                 *)
(***************************************************************************)
EXTENDS Derived, FiniteSetTheorems, TLAPS

\* What a worker or a gate works on is a version that exists; the gate and the
\* commands that rewrite a chain are never of one owner.
Grounded ==
  /\ \A w \in Workers : run[w].pc # "idle" => run[w].version # NoVersion
  /\ \A v \in Versions : gate[v] = "pending" => external /\ v <= head
  /\ external => purged = {}

\* What the rows promise, given what they are.
RowsFollow == FreshFollowsHead /\ PurgeSweepsDerived

DerivedInv == TypeOK /\ Grounded /\ RowsFollow

-----------------------------------------------------------------------------
(* What the operators on rows return *)

LEMMA Bounds ==
  /\ MaxVersions \in Nat /\ Releases \in Nat \ {0} /\ MaxEvents \in Nat
  /\ OwnerOK => head \in 0..MaxVersions /\ 1..head \subseteq Versions
<1>1. MaxVersions \in Nat /\ Releases \in Nat \ {0} /\ MaxEvents \in Nat
  BY DerivedAssumption
<1>2. ASSUME OwnerOK PROVE head \in 0..MaxVersions /\ 1..head \subseteq Versions
  <2>1. head \in Nat /\ head <= MaxVersions
    BY <1>2 DEF OwnerOK, head
  <2> QED
    BY <1>1, <2>1 DEF Versions
<1> QED
  BY <1>1, <1>2

\* A new row of the model is an orphan of nothing: fresh, of its version.
LEMMA NewRow ==
  ASSUME NEW t, NEW v, NEW m
  PROVE  LET q == Row(t, "ai", "fresh", v, m) IN
         /\ q.term = t /\ q.by = "ai" /\ q.status = "fresh"
         /\ q.version = v /\ q.model = m /\ AI(q)
         /\ t \in Terms /\ v \in 0..MaxVersions /\ m \in 1..Releases => q \in Rows
BY DEF Row, Rows, AI

\* Enriching v leaves the other rows, and adds only what nobody suppressed.
LEMMA EnrichedRows ==
  ASSUME OwnerOK, release \in 1..Releases, NEW v \in 1..head,
         NEW out \in SUBSET Terms, NEW q \in Enriched(v, out)
  PROVE  /\ q \in Rows
         /\ \/ q \in rows
            \/ q.version = v /\ AI(q) /\ q.term \in out /\ ~Suppressed(q.term)
<1>1. CASE q \in rows
  BY <1>1 DEF OwnerOK
<1>2. CASE q \notin rows
  <2>1. PICK t \in out : ~Suppressed(t) /\ q = Row(t, "ai", "fresh", v, release)
    BY <1>2 DEF Enriched
  <2>2. v \in 0..MaxVersions
    BY Bounds
  <2> QED
    BY <2>1, <2>2, NewRow
<1> QED
  BY <1>1, <1>2

\* Re-anchoring to v takes each row of the model to the text of v or orphans
\* it where it was; the user's rows stay.
Anchored(r, q, v, text) ==
  /\ q.term = r.term /\ q.by = r.by
  /\ AI(r) => \/ q.status = "fresh" /\ q.version = v
              \/ q.status = "orphaned" /\ q.version = r.version
  /\ ~AI(r) => q = r

LEMMA ReanchoredRows ==
  ASSUME rows \subseteq Rows, NEW v \in 0..MaxVersions,
         NEW text \in SUBSET Terms, NEW q \in Reanchored(v, text)
  PROVE  q \in Rows /\ \E r \in rows : Anchored(r, q, v, text)
<1>1. PICK r \in rows :
        q = IF ~AI(r) THEN r
            ELSE IF r.term \in text THEN [r EXCEPT !.status = "fresh", !.version = v]
            ELSE [r EXCEPT !.status = Classify(r, text)]
  BY DEF Reanchored
<1>2. r \in Rows
  OBVIOUS
<1>3. CASE ~AI(r)
  BY <1>1, <1>2, <1>3 DEF Anchored
<1>4. CASE AI(r) /\ r.term \in text
  <2>1. q = [r EXCEPT !.status = "fresh", !.version = v]
    BY <1>1, <1>4
  <2> QED
    BY <2>1, <1>2, <1>4 DEF Rows, Anchored, AI
<1>5. CASE AI(r) /\ r.term \notin text
  <2>1. q = [r EXCEPT !.status = "orphaned"]
    BY <1>1, <1>5 DEF Classify
  <2> QED
    BY <2>1, <1>2, <1>5 DEF Rows, Anchored, AI
<1> QED
  BY <1>3, <1>4, <1>5

-----------------------------------------------------------------------------
(* What a step leaves alone *)

\* A step that only moves work: the owner, the rows and the gate stay.
LEMMA OwnerStays ==
  ASSUME DerivedInv, UNCHANGED owner, UNCHANGED <<rows, late>>
  PROVE  OwnerOK' /\ RowsFollow' /\ head' = head /\ (external => purged = {})'
BY DEF DerivedInv, TypeOK, OwnerOK, Grounded, RowsFollow, FreshFollowsHead,
       PurgeSweepsDerived, owner, head, AI

LEMMA QueueStep ==
  ASSUME DerivedInv, UNCHANGED owner, UNCHANGED <<rows, late, gate>>, WorkOK',
         \A w \in Workers : run'[w].pc # "idle" => run'[w].version # NoVersion
  PROVE  DerivedInv'
<1>1. OwnerOK' /\ RowsFollow' /\ head' = head /\ (external => purged = {})'
  BY OwnerStays
<1>2. Grounded'
  BY <1>1 DEF DerivedInv, Grounded, owner
<1> QED
  BY <1>1, <1>2 DEF DerivedInv, TypeOK

\* Enqueueing, and counting an event, keep their types.
LEMMA EnqueuedType ==
  ASSUME WorkOK, NEW v \in Versions
  PROVE  Enqueued(v) \in [Versions -> {"none", "pending", "running", "dead", "done"}]
BY DEF WorkOK, Enqueued

LEMMA BeginsType ==
  ASSUME WorkOK, Begins
  PROVE  events' \in 0..MaxEvents
BY Bounds DEF WorkOK, Begins

\* The run of one worker changes.
LEMMA RunStep ==
  ASSUME DerivedInv, NEW w \in Workers,
         NEW pc \in {"idle", "calling", "wrote", "written"}, NEW v \in 0..head,
         pc # "idle" => v # NoVersion,
         run' = [run EXCEPT ![w] = [pc |-> pc, version |-> v]]
  PROVE  /\ run' \in [Workers -> [pc : {"idle", "calling", "wrote", "written"},
                                  version : 0..head]]
         /\ \A u \in Workers : run'[u].pc # "idle" => run'[u].version # NoVersion
<1>1. run \in [Workers -> [pc : {"idle", "calling", "wrote", "written"},
                           version : 0..head]]
  BY DEF DerivedInv, TypeOK, WorkOK
<1>2. \A u \in Workers : run'[u] = IF u = w THEN [pc |-> pc, version |-> v] ELSE run[u]
  BY <1>1
<1>3. [pc |-> pc, version |-> v] \in [pc : {"idle", "calling", "wrote", "written"},
                                      version : 0..head]
  OBVIOUS
<1>4. ASSUME NEW u \in Workers, run'[u].pc # "idle"
      PROVE  run'[u].version # NoVersion
  BY <1>2, <1>4 DEF DerivedInv, Grounded
<1> QED
  BY <1>1, <1>3, <1>4

\* A worker in the middle of a job is on a version that exists.
LEMMA Busy ==
  ASSUME DerivedInv, NEW w \in Workers
  PROVE  /\ run[w] = [pc |-> run[w].pc, version |-> run[w].version]
         /\ run[w].pc \in {"idle", "calling", "wrote", "written"}
         /\ run[w].version \in 0..head
         /\ run[w].pc # "idle" => run[w].version \in 1..head /\ run[w].version \in Versions
<1>1. run[w] \in [pc : {"idle", "calling", "wrote", "written"}, version : 0..head]
  BY DEF DerivedInv, TypeOK, WorkOK
<1>2. run[w].pc # "idle" => run[w].version # 0
  BY DEF DerivedInv, Grounded, NoVersion
<1>3. head \in 0..MaxVersions /\ 1..head \subseteq Versions
  BY Bounds DEF DerivedInv, TypeOK
<1>4. run[w].version \in 0..head
  BY <1>1
<1>5. run[w].version # 0 => run[w].version \in 1..head
  BY <1>3, <1>4
<1> QED
  BY <1>1, <1>2, <1>3, <1>5

LEMMA Advances ==
  ASSUME DerivedInv, NEW w \in Workers, run[w].pc # "idle",
         NEW pc \in {"wrote", "written"}, run' = [run EXCEPT ![w].pc = pc]
  PROVE  /\ run' \in [Workers -> [pc : {"idle", "calling", "wrote", "written"},
                                  version : 0..head]]
         /\ \A u \in Workers : run'[u].pc # "idle" => run'[u].version # NoVersion
<1> DEFINE v == run[w].version
<1>1. run \in [Workers -> [pc : {"idle", "calling", "wrote", "written"},
                           version : 0..head]]
  BY DEF DerivedInv, TypeOK, WorkOK
<1>2. v \in 0..head /\ v # NoVersion
  <2>1. v \in 1..head /\ v \in 0..head
    BY Busy
  <2> QED
    BY <2>1 DEF NoVersion
<1>3. [run[w] EXCEPT !.pc = pc] = [pc |-> pc, version |-> v]
  BY <1>1
<1>4. run' = [run EXCEPT ![w] = [pc |-> pc, version |-> v]]
  BY <1>1, <1>3
<1> QED
  BY <1>2, <1>4, RunStep

-----------------------------------------------------------------------------
(* Enrich jobs *)

LEMMA ReadStep ==
  ASSUME DerivedInv, NEW w \in Workers, NEW v \in Versions, EnrichRead(w, v)
  PROVE  DerivedInv'
<1> DEFINE pc == IF Sendable(v) THEN "calling" ELSE "written"
<1>1. WorkOK /\ v \in 1..head /\ head \in 0..MaxVersions
  BY Bounds DEF DerivedInv, TypeOK, EnrichRead
<1>2. /\ run' \in [Workers -> [pc : {"idle", "calling", "wrote", "written"},
                               version : 0..head]]
      /\ \A u \in Workers : run'[u].pc # "idle" => run'[u].version # NoVersion
  <2>1. run' = [run EXCEPT ![w] = [pc |-> pc, version |-> v]]
    BY DEF EnrichRead
  <2>2. pc \in {"idle", "calling", "wrote", "written"} /\ v \in 0..head /\ v # NoVersion
    BY <1>1 DEF NoVersion
  <2> QED
    BY <2>1, <2>2, RunStep
<1>3. /\ job' \in [Versions -> {"none", "pending", "running", "dead", "done"}]
      /\ skipped' \subseteq 1..head
  BY <1>1 DEF EnrichRead, WorkOK
<1>4. UNCHANGED owner /\ UNCHANGED <<rows, late, gate>> /\ head' = head
  BY DEF EnrichRead, owner, head
<1>5. WorkOK'
  BY <1>1, <1>2, <1>3, <1>4 DEF EnrichRead, WorkOK
<1> QED
  BY <1>2, <1>4, <1>5, QueueStep

LEMMA LogStep ==
  ASSUME DerivedInv, NEW w \in Workers, LogEgress(w)
  PROVE  DerivedInv'
<1> DEFINE v == run[w].version
<1>1. WorkOK /\ v \in 1..head /\ v \in 0..head /\ v # NoVersion
  <2>1. v \in 1..head /\ v \in 0..head
    BY Busy DEF LogEgress
  <2> QED
    BY <2>1 DEF DerivedInv, TypeOK, NoVersion
<1>2. /\ run' \in [Workers -> [pc : {"idle", "calling", "wrote", "written"},
                               version : 0..head]]
      /\ \A u \in Workers : run'[u].pc # "idle" => run'[u].version # NoVersion
  BY Advances DEF LogEgress
<1>3. UNCHANGED owner /\ UNCHANGED <<rows, late, gate>> /\ head' = head
  BY DEF LogEgress, owner, history, head
<1>4. egressLog' \subseteq (1..head) \X (1..release)
  <2>1. release \in 1..release
    BY <1>1, Bounds DEF WorkOK
  <2>2. <<v, release>> \in (1..head) \X (1..release)
    BY <1>1, <2>1
  <2>3. egressLog' = egressLog \cup {<<v, release>>}
    BY DEF LogEgress
  <2> QED
    BY <1>1, <2>2, <2>3 DEF WorkOK
<1>5. WorkOK'
  BY <1>1, <1>2, <1>3, <1>4 DEF LogEgress, WorkOK, history
<1> QED
  BY <1>2, <1>3, <1>5, QueueStep

LEMMA DoneStep ==
  ASSUME DerivedInv, NEW w \in Workers, EnrichDone(w)
  PROVE  DerivedInv'
<1> DEFINE v == run[w].version
<1>1. WorkOK /\ v \in Versions /\ head \in 0..MaxVersions
  BY Busy, Bounds DEF DerivedInv, TypeOK, EnrichDone
<1>2. /\ run' \in [Workers -> [pc : {"idle", "calling", "wrote", "written"},
                               version : 0..head]]
      /\ \A u \in Workers : run'[u].pc # "idle" => run'[u].version # NoVersion
  <2>1. run' = [run EXCEPT ![w] = [pc |-> "idle", version |-> 0]] /\ 0 \in 0..head
    BY <1>1 DEF EnrichDone, NoRun, NoVersion
  <2> QED
    BY <2>1, RunStep
<1>3. UNCHANGED owner /\ UNCHANGED <<rows, late, gate>> /\ head' = head
  BY DEF EnrichDone, owner, history, head
<1>4. /\ job' \in [Versions -> {"none", "pending", "running", "dead", "done"}]
      /\ done' \in [Versions -> SUBSET (1..release)]
  <2>1. release \in 1..release
    BY <1>1, Bounds DEF WorkOK
  <2> QED
    BY <1>1, <2>1 DEF EnrichDone, WorkOK
<1>5. WorkOK'
  BY <1>1, <1>2, <1>3, <1>4 DEF EnrichDone, WorkOK, history
<1> QED
  BY <1>2, <1>3, <1>5, QueueStep

LEMMA FailStep ==
  ASSUME DerivedInv, NEW w \in Workers, EnrichFails(w)
  PROVE  DerivedInv'
<1>1. WorkOK /\ run[w].version \in Versions /\ head \in 0..MaxVersions
  BY Busy, Bounds DEF DerivedInv, TypeOK, EnrichFails
<1>2. /\ run' \in [Workers -> [pc : {"idle", "calling", "wrote", "written"},
                               version : 0..head]]
      /\ \A u \in Workers : run'[u].pc # "idle" => run'[u].version # NoVersion
  <2>1. run' = [run EXCEPT ![w] = [pc |-> "idle", version |-> 0]] /\ 0 \in 0..head
    BY <1>1 DEF EnrichFails, NoRun, NoVersion
  <2> QED
    BY <2>1, RunStep
<1>3. UNCHANGED owner /\ UNCHANGED <<rows, late, gate>> /\ head' = head
  BY DEF EnrichFails, owner, history, head
<1>4. job' \in [Versions -> {"none", "pending", "running", "dead", "done"}]
  BY <1>1 DEF EnrichFails, WorkOK
<1>5. WorkOK'
  BY <1>1, <1>2, <1>3, <1>4, BeginsType DEF EnrichFails, WorkOK, history
<1> QED
  BY <1>2, <1>3, <1>5, QueueStep

-----------------------------------------------------------------------------
(* What asks for another enrichment *)

\* A step that leaves the runs alone.
LEMMA AskStep ==
  ASSUME DerivedInv, UNCHANGED owner, UNCHANGED <<rows, late, gate, run>>, WorkOK'
  PROVE  DerivedInv'
<1>1. \A w \in Workers : run'[w].pc # "idle" => run'[w].version # NoVersion
  BY DEF DerivedInv, Grounded
<1> QED
  BY <1>1, QueueStep

LEMMA GapStep ==
  ASSUME DerivedInv, EnrichGap \/ Reenrich
  PROVE  DerivedInv'
<1>1. WorkOK /\ head \in Versions
  <2>1. head \in 0..MaxVersions /\ head > 0
    BY Bounds DEF DerivedInv, TypeOK, EnrichGap, Reenrich, Eligible
  <2> QED
    BY <2>1, Bounds DEF DerivedInv, TypeOK, Versions
<1>2. /\ job' \in [Versions -> {"none", "pending", "running", "dead", "done"}]
      /\ events' \in 0..MaxEvents
  <2>1. job' = Enqueued(head)
    BY DEF EnrichGap, Reenrich
  <2>2. events' \in 0..MaxEvents
    BY <1>1, BeginsType DEF EnrichGap, Reenrich, WorkOK
  <2> QED
    BY <1>1, <2>1, <2>2, EnqueuedType
<1>3. /\ UNCHANGED owner /\ UNCHANGED <<rows, late, gate, run>>
      /\ UNCHANGED <<done, release, egressLog, skipped>> /\ head' = head
  BY DEF EnrichGap, Reenrich, owner, history, head
<1>4. WorkOK'
  BY <1>1, <1>2, <1>3 DEF WorkOK
<1> QED
  BY <1>3, <1>4, AskStep

LEMMA UpgradeStep ==
  ASSUME DerivedInv, Upgrade
  PROVE  DerivedInv'
<1>1. WorkOK /\ events' \in 0..MaxEvents
  BY BeginsType DEF DerivedInv, TypeOK, Upgrade
<1>2. release' \in 1..Releases /\ 1..release \subseteq 1..release'
  BY <1>1, Bounds DEF Upgrade, WorkOK
<1>3. /\ UNCHANGED owner /\ UNCHANGED <<rows, late, gate, run>>
      /\ UNCHANGED <<job, done, egressLog, skipped>> /\ head' = head
  BY DEF Upgrade, owner, history, head
<1>4. /\ done' \in [Versions -> SUBSET (1..release')]
      /\ egressLog' \subseteq (1..head) \X (1..release')
  <2>1. \A v \in Versions : done'[v] \in SUBSET (1..release')
    BY <1>1, <1>2, <1>3 DEF WorkOK
  <2> QED
    BY <1>1, <1>2, <1>3, <2>1 DEF WorkOK
<1>5. WorkOK'
  BY <1>1, <1>2, <1>3, <1>4 DEF WorkOK
<1> QED
  BY <1>3, <1>5, AskStep

-----------------------------------------------------------------------------
(* Steps that write rows *)

\* What an answer leaves: rows of the versions there were, and the version it
\* was read from counted as late when the head has moved on.
LEMMA WriteStep ==
  ASSUME DerivedInv, NEW w \in Workers, NEW out \in SUBSET Terms,
         EnrichWrite(w, out)
  PROVE  DerivedInv'
<1> DEFINE v == run[w].version
<1>1. /\ OwnerOK /\ WorkOK /\ release \in 1..Releases
      /\ v \in 1..head /\ v # NoVersion /\ head \in 0..MaxVersions
  <2>1. v \in 1..head /\ v \in 0..head
    BY Busy DEF EnrichWrite
  <2> QED
    BY <2>1, Bounds DEF DerivedInv, TypeOK, WorkOK, NoVersion
<1>2. /\ run' \in [Workers -> [pc : {"idle", "calling", "wrote", "written"},
                               version : 0..head]]
      /\ \A u \in Workers : run'[u].pc # "idle" => run'[u].version # NoVersion
  BY Advances DEF EnrichWrite
<1>3. /\ UNCHANGED owner /\ UNCHANGED gate /\ head' = head
      /\ UNCHANGED <<external, chain, deleted, purged, noEgress>>
      /\ rows' = Enriched(v, out) /\ late \subseteq late'
      /\ late' \subseteq late \cup {v} /\ (v # head \/ v \in purged => v \in late')
  BY DEF EnrichWrite, owner, head
<1>4. \A q \in rows' :
        /\ q \in Rows
        /\ q \in rows \/ (q.version = v /\ AI(q) /\ q.term \in out)
  BY <1>1, <1>3, EnrichedRows
<1>5. OwnerOK'
  <2>1. \A q \in rows' : q.version <= head /\ (AI(q) <=> q.version # NoVersion)
    BY <1>1, <1>4 DEF OwnerOK
  <2> QED
    BY <1>1, <1>3, <1>4, <2>1 DEF OwnerOK, AI
<1>6. FreshFollowsHead'
  <2> SUFFICES ASSUME ~external, NEW q \in rows', AI(q), q.status = "fresh"
               PROVE  q.version = head \/ q.version \in late'
    BY <1>3 DEF FreshFollowsHead, AI
  <2> QED
    BY <1>3, <1>4 DEF DerivedInv, RowsFollow, FreshFollowsHead
<1>7. PurgeSweepsDerived'
  <2> SUFFICES ASSUME NEW q \in rows', AI(q), q.term \in Tags, q.version \in purged
               PROVE  q.version \in late'
    BY <1>3 DEF PurgeSweepsDerived, AI
  <2> QED
    BY <1>3, <1>4 DEF DerivedInv, RowsFollow, PurgeSweepsDerived
<1>8. WorkOK'
  BY <1>1, <1>2, <1>3 DEF EnrichWrite, WorkOK
<1>9. Grounded'
  BY <1>2, <1>3 DEF DerivedInv, Grounded
<1> QED
  BY <1>5, <1>6, <1>7, <1>8, <1>9 DEF DerivedInv, TypeOK, RowsFollow

\* A step that moves the head up or leaves it, and leaves what workers hold.
LEMMA WorkStays ==
  ASSUME DerivedInv, head \in Nat, head' \in Nat, head <= head',
         UNCHANGED <<run, release, done, egressLog, skipped>>,
         job' \in [Versions -> {"none", "pending", "running", "dead", "done"}],
         gate' \in [Versions -> {"none", "pending", "material", "carried"}],
         events' \in 0..MaxEvents
  PROVE  WorkOK' /\ \A u \in Workers : run'[u].pc # "idle" => run'[u].version # NoVersion
<1>1. WorkOK /\ 0..head \subseteq 0..head' /\ 1..head \subseteq 1..head'
  BY DEF DerivedInv, TypeOK
<1>2. run' \in [Workers -> [pc : {"idle", "calling", "wrote", "written"},
                            version : 0..head']]
  <2>1. run \in [Workers -> [pc : {"idle", "calling", "wrote", "written"},
                             version : 0..head]]
    BY <1>1 DEF WorkOK
  <2>2. \A u \in Workers : run[u] \in [pc : {"idle", "calling", "wrote", "written"},
                                       version : 0..head']
    BY <1>1, <2>1
  <2> QED
    BY <2>1, <2>2
<1>3. egressLog \subseteq (1..head') \X (1..release) /\ skipped \subseteq 1..head'
  BY <1>1 DEF WorkOK
<1>4. WorkOK'
  BY <1>1, <1>2, <1>3 DEF WorkOK
<1> QED
  BY <1>4 DEF DerivedInv, Grounded

\* A new text takes the fresh rows with it or orphans them.
LEMMA SaveStep ==
  ASSUME DerivedInv, NEW text \in SUBSET Terms, Save(text)
  PROVE  DerivedInv'
<1>1. /\ OwnerOK /\ WorkOK /\ head \in 0..MaxVersions /\ head < MaxVersions
      /\ MaxVersions \in Nat /\ head + 1 \in Versions
  BY Bounds DEF DerivedInv, TypeOK, Save, Versions
<1>2. /\ ~external /\ UNCHANGED <<external, deleted, purged, noEgress, gate>>
      /\ UNCHANGED <<done, run, release, egressLog, events, skipped>>
      /\ chain' = Append(chain, text) /\ late' = late \cap purged
      /\ job' = Enqueued(head + 1)
      /\ rows' = IF head = 0 THEN rows ELSE Reanchored(head + 1, text)
  BY DEF Save
<1>3. chain' \in Seq(SUBSET Terms) /\ head' = head + 1
  BY <1>1, <1>2 DEF OwnerOK, head
<1>4. \A q \in rows' :
        /\ q \in Rows /\ q.version <= head + 1
        /\ AI(q) <=> q.version # NoVersion
        /\ AI(q) => \/ q.version = head + 1
                    \/ q.status = "orphaned" /\ \E r \in rows :
                         AI(r) /\ q.term = r.term /\ q.version = r.version
  <2>1. CASE head = 0
    <3>1. ASSUME NEW q \in rows PROVE q \in Rows /\ ~AI(q) /\ q.version = 0
      BY <1>1, <2>1, <3>1 DEF OwnerOK, Rows, NoVersion
    <3> QED
      BY <1>2, <2>1, <3>1 DEF NoVersion
  <2>2. CASE head # 0
    <3>1. TAKE q \in rows'
    <3>2. q \in Reanchored(head + 1, text)
      BY <1>2, <2>2, <3>1
    <3>3. q \in Rows /\ \E r \in rows : Anchored(r, q, head + 1, text)
      BY <1>1, <3>2, ReanchoredRows DEF OwnerOK
    <3>4. PICK r \in rows : Anchored(r, q, head + 1, text)
      BY <3>3
    <3>5. /\ r \in Rows /\ r.version <= head /\ (AI(r) <=> r.version # NoVersion)
          /\ r.version \in Nat
      BY <1>1 DEF OwnerOK, Rows
    <3>6. CASE AI(r)
      BY <1>1, <3>3, <3>4, <3>5, <3>6 DEF Anchored, AI, NoVersion
    <3>7. CASE ~AI(r)
      BY <1>1, <3>3, <3>4, <3>5, <3>7 DEF Anchored, AI
    <3> QED
      BY <3>6, <3>7
  <2> QED
    BY <2>1, <2>2
<1>5. OwnerOK'
  BY <1>1, <1>2, <1>3, <1>4 DEF OwnerOK, AI
<1>6. FreshFollowsHead'
  BY <1>3, <1>4 DEF FreshFollowsHead, AI
<1>7. PurgeSweepsDerived'
  <2> SUFFICES ASSUME NEW q \in rows', AI(q), q.term \in Tags, q.version \in purged
               PROVE  q.version \in late
    BY <1>2 DEF PurgeSweepsDerived, AI
  <2>1. q.version # head + 1
    BY <1>1 DEF OwnerOK
  <2>2. PICK r \in rows : AI(r) /\ q.term = r.term /\ q.version = r.version
    BY <1>4, <2>1
  <2> QED
    BY <2>2 DEF DerivedInv, RowsFollow, PurgeSweepsDerived
<1>8. WorkOK' /\ \A u \in Workers : run'[u].pc # "idle" => run'[u].version # NoVersion
  <2>1. job' \in [Versions -> {"none", "pending", "running", "dead", "done"}]
    BY <1>1, <1>2, EnqueuedType
  <2> QED
    BY <1>1, <1>2, <1>3, <2>1, WorkStays DEF WorkOK
<1>9. Grounded'
  BY <1>2, <1>8 DEF DerivedInv, Grounded
<1> QED
  BY <1>5, <1>6, <1>7, <1>8, <1>9 DEF DerivedInv, TypeOK, RowsFollow

LEMMA IngestStep ==
  ASSUME DerivedInv, NEW text \in SUBSET Terms, Ingest(text)
  PROVE  DerivedInv'
<1>1. /\ OwnerOK /\ WorkOK /\ head \in 0..MaxVersions /\ head < MaxVersions
      /\ MaxVersions \in Nat /\ head + 1 \in Versions
  BY Bounds DEF DerivedInv, TypeOK, Ingest, Versions
<1>2. /\ external /\ UNCHANGED <<external, deleted, purged, noEgress, rows, job>>
      /\ UNCHANGED <<done, run, release, egressLog, events, late, skipped>>
      /\ chain' = Append(chain, text) /\ gate' = [gate EXCEPT ![head + 1] = "pending"]
  BY DEF Ingest, history
<1>3. chain' \in Seq(SUBSET Terms) /\ head' = head + 1
  BY <1>1, <1>2 DEF OwnerOK, head
<1>4. OwnerOK'
  <2>1. \A r \in rows : r.version <= head + 1
    <3>1. TAKE r \in rows
    <3>2. r.version \in Nat /\ r.version <= head
      BY <1>1 DEF OwnerOK, Rows
    <3> QED
      BY <1>1, <3>2
  <2>2. purged \subseteq 1..(head + 1) /\ late \subseteq 1..(head + 1)
    BY <1>1 DEF OwnerOK
  <2> QED
    BY <1>1, <1>2, <1>3, <2>1, <2>2 DEF OwnerOK, AI
<1>5. RowsFollow'
  BY <1>2 DEF DerivedInv, RowsFollow, FreshFollowsHead, PurgeSweepsDerived, AI
<1>6. WorkOK' /\ \A u \in Workers : run'[u].pc # "idle" => run'[u].version # NoVersion
  <2>1. gate' \in [Versions -> {"none", "pending", "material", "carried"}]
    BY <1>1, <1>2 DEF WorkOK
  <2> QED
    BY <1>1, <1>2, <1>3, <2>1, WorkStays DEF WorkOK
<1>7. Grounded'
  <2>1. \A v \in Versions : gate'[v] = "pending" => v <= head + 1
    <3>1. TAKE v \in Versions
    <3>2. v \in Nat /\ (gate[v] = "pending" => v <= head)
      BY DEF DerivedInv, Grounded, Versions
    <3>3. gate'[v] = IF v = head + 1 THEN "pending" ELSE gate[v]
      BY <1>1, <1>2 DEF WorkOK
    <3> QED
      BY <1>1, <3>2, <3>3
  <2> QED
    BY <1>2, <1>3, <1>6, <2>1 DEF DerivedInv, Grounded
<1> QED
  BY <1>4, <1>5, <1>6, <1>7 DEF DerivedInv, TypeOK

\* The rows of an external follow no head: the gate carries them over.
LEMMA GateDecides ==
  ASSUME DerivedInv, NEW v \in Versions, GateMaterial(v) \/ GateImmaterial(v)
  PROVE  DerivedInv'
<1>1. /\ OwnerOK /\ WorkOK /\ head \in 0..MaxVersions /\ external /\ v \in 1..head
      /\ v \in 0..MaxVersions /\ purged = {} /\ chain[v] \in SUBSET Terms
  <2>1. OwnerOK /\ WorkOK /\ external /\ purged = {} /\ v <= head /\ v \in 1..MaxVersions
    BY DEF DerivedInv, TypeOK, Grounded, GateMaterial, GateImmaterial, Versions
  <2>2. head \in 0..MaxVersions
    BY <2>1, Bounds
  <2>3. chain[v] \in SUBSET Terms
    BY <2>1, <2>2 DEF OwnerOK, head
  <2> QED
    BY <2>1, <2>2, <2>3
<1>2. /\ UNCHANGED owner /\ UNCHANGED <<external, deleted, purged, noEgress, chain>>
      /\ head' = head /\ late' = late
      /\ UNCHANGED <<done, run, release, egressLog, events, late, skipped>>
      /\ rows' = rows \/ rows' = Reanchored(v, chain[v])
  BY DEF GateMaterial, GateImmaterial, owner, history, head
<1>3. /\ job' \in [Versions -> {"none", "pending", "running", "dead", "done"}]
      /\ gate' \in [Versions -> {"none", "pending", "material", "carried"}]
      /\ \A u \in Versions : gate'[u] = "pending" => gate[u] = "pending"
  BY <1>1, EnqueuedType DEF GateMaterial, GateImmaterial, WorkOK
<1> DEFINE Filed(q) == /\ q \in Rows /\ q.version <= head
                       /\ AI(q) <=> q.version # NoVersion
<1>4. \A q \in rows' : Filed(q)
  <2>1. ASSUME rows' = rows PROVE \A q \in rows' : Filed(q)
    BY <1>1, <2>1 DEF OwnerOK
  <2>2. ASSUME rows' = Reanchored(v, chain[v]) PROVE \A q \in rows' : Filed(q)
    <3>1. TAKE q \in rows'
    <3>2. q \in Rows /\ \E r \in rows : Anchored(r, q, v, chain[v])
      BY <1>1, <2>2, ReanchoredRows DEF OwnerOK
    <3>3. PICK r \in rows : Anchored(r, q, v, chain[v])
      BY <3>2
    <3>4. r.version <= head /\ (AI(r) <=> r.version # NoVersion)
      BY <1>1 DEF OwnerOK
    <3> QED
      BY <1>1, <3>2, <3>3, <3>4 DEF Anchored, AI, NoVersion
  <2> QED
    BY <1>2, <2>1, <2>2
<1>5. OwnerOK'
  BY <1>1, <1>2, <1>4 DEF OwnerOK, AI
<1>6. RowsFollow'
  BY <1>1, <1>2 DEF RowsFollow, FreshFollowsHead, PurgeSweepsDerived
<1>7. WorkOK' /\ \A u \in Workers : run'[u].pc # "idle" => run'[u].version # NoVersion
  <2>1. events' \in 0..MaxEvents
    BY <1>1, <1>2 DEF WorkOK
  <2> QED
    BY <1>1, <1>2, <1>3, <2>1, WorkStays
<1>8. Grounded'
  BY <1>2, <1>3, <1>7 DEF DerivedInv, Grounded
<1> QED
  BY <1>5, <1>6, <1>7, <1>8 DEF DerivedInv, TypeOK

-----------------------------------------------------------------------------
(* The user's other commands *)

\* A command on a note, or on the flags of an owner, leaves the work there is.
LEMMA CommandStep ==
  ASSUME DerivedInv, Begins, head' = head, OwnerOK', RowsFollow',
         UNCHANGED <<external, job, done, gate, run, release, egressLog>>,
         UNCHANGED skipped, (external => purged = {})'
  PROVE  DerivedInv'
<1>1. head \in Nat /\ head <= head /\ WorkOK
  BY Bounds DEF DerivedInv, TypeOK
<1>2. WorkOK' /\ \A u \in Workers : run'[u].pc # "idle" => run'[u].version # NoVersion
  BY <1>1, WorkStays, BeginsType DEF WorkOK
<1>3. Grounded'
  BY <1>2 DEF DerivedInv, Grounded
<1> QED
  BY <1>2, <1>3 DEF DerivedInv, TypeOK

\* A curated row becomes the user's tombstone, of no version.
LEMMA CurateStep ==
  ASSUME DerivedInv, NEW r \in rows, Curate(r)
  PROVE  DerivedInv'
<1> DEFINE q == [r EXCEPT !.by = "user", !.status = "orphaned", !.version = NoVersion]
<1>1. OwnerOK /\ head \in 0..MaxVersions /\ r \in Rows
  BY Bounds DEF DerivedInv, TypeOK, OwnerOK
<1>2. q \in Rows /\ ~AI(q) /\ q.version = NoVersion /\ q.version <= head
  <2>1. q.by = "user" /\ q.version = NoVersion
    BY <1>1 DEF Rows
  <2>2. q \in Rows
    <3>1. NoVersion \in 0..MaxVersions
      BY Bounds DEF NoVersion
    <3> QED
      BY <1>1, <3>1 DEF Rows
  <2>3. NoVersion <= head
    BY <1>1 DEF NoVersion
  <2> QED
    BY <2>1, <2>2, <2>3 DEF AI
<1>3. rows' = (rows \ {r}) \cup {q}
  BY DEF Curate
<1> HIDE DEF q
<1>4. /\ UNCHANGED <<external, deleted, purged, noEgress, chain>>
      /\ head' = head /\ late' = late
  BY DEF Curate, owner, history, head
<1>5. OwnerOK'
  BY <1>1, <1>2, <1>3, <1>4 DEF OwnerOK, AI
<1>6. RowsFollow'
  BY <1>2, <1>3, <1>4 DEF DerivedInv, RowsFollow, FreshFollowsHead, PurgeSweepsDerived, AI
<1>7. (external => purged = {})'
  BY <1>4 DEF DerivedInv, Grounded
<1> QED
  BY <1>4, <1>5, <1>6, <1>7, CommandStep DEF Curate, history

LEMMA FlagStep ==
  ASSUME DerivedInv, SetNoEgress \/ DeleteOrRecover
  PROVE  DerivedInv'
<1>1. /\ OwnerOK /\ head' = head /\ UNCHANGED <<external, chain, purged, rows, late>>
      /\ deleted' \in BOOLEAN /\ noEgress' \in BOOLEAN
  BY DEF SetNoEgress, DeleteOrRecover, history, head, DerivedInv, TypeOK, OwnerOK
<1>2. OwnerOK'
  BY <1>1 DEF OwnerOK, AI
<1>3. RowsFollow' /\ (external => purged = {})'
  BY <1>1 DEF DerivedInv, Grounded, RowsFollow, FreshFollowsHead, PurgeSweepsDerived, AI
<1> QED
  BY <1>1, <1>2, <1>3, CommandStep DEF SetNoEgress, DeleteOrRecover, history

\* Every version of the chain is purged, so every annotation goes.
LEMMA PurgeStep ==
  ASSUME DerivedInv, Purge
  PROVE  DerivedInv'
<1>1. OwnerOK /\ head \in 0..MaxVersions /\ head \in Nat
  BY Bounds DEF DerivedInv, TypeOK
<1>2. /\ ~external /\ UNCHANGED <<external, deleted, noEgress, late>>
      /\ chain' = [v \in 1..head |-> {}] /\ purged' = 1..head
      /\ rows' = {r \in rows : ~(AI(r) /\ r.term \in Tags)}
  BY DEF Purge, Swept, history
<1>3. chain' \in Seq(SUBSET Terms) /\ head' = head
  <2>1. chain' \in Seq(SUBSET Terms)
    BY <1>1, <1>2
  <2>2. DOMAIN chain' = 1..head
    BY <1>2
  <2> QED
    BY <1>1, <2>1, <2>2 DEF head
<1>4. OwnerOK'
  BY <1>1, <1>2, <1>3 DEF OwnerOK, AI
<1>5. FreshFollowsHead'
  BY <1>2, <1>3 DEF DerivedInv, RowsFollow, FreshFollowsHead, AI
<1>6. PurgeSweepsDerived'
  BY <1>2 DEF PurgeSweepsDerived, AI
<1>7. RowsFollow' /\ (external => purged = {})'
  BY <1>2, <1>5, <1>6 DEF RowsFollow
<1> QED
  BY <1>2, <1>3, <1>4, <1>7, CommandStep DEF Purge, history

-----------------------------------------------------------------------------
(* How many rows of a term are shown *)

ShownOf(t) == {r \in Shown : r.term = t}

\* There are only so many rows of a term.
LEMMA FewRows ==
  ASSUME rows \subseteq Rows, NEW t
  PROVE  IsFiniteSet(ShownOf(t))
<1> DEFINE Kinds == {"ai", "user"} \X {"fresh", "orphaned"}
           Marks == (0..MaxVersions) \X (1..Releases)
           f == [r \in ShownOf(t) |-> <<<<r.by, r.status>>, <<r.version, r.model>>>>]
<1>1. IsFiniteSet(Kinds)
  <2>1. IsFiniteSet({"ai"} \cup {"user"}) /\ IsFiniteSet({"fresh"} \cup {"orphaned"})
    BY FS_Singleton, FS_AddElement
  <2>2. IsFiniteSet({"ai", "user"}) /\ IsFiniteSet({"fresh", "orphaned"})
    <3>1. {"ai"} \cup {"user"} = {"ai", "user"} /\ {"fresh"} \cup {"orphaned"} = {"fresh", "orphaned"}
      OBVIOUS
    <3> QED
      BY <2>1, <3>1
  <2> QED
    BY <2>2, FS_Product
<1>2. IsFiniteSet(Marks)
  <2>1. IsFiniteSet(0..MaxVersions) /\ IsFiniteSet(1..Releases)
    BY Bounds, FS_Interval
  <2> QED
    BY <2>1, FS_Product
<1>3. IsFiniteSet(Kinds \X Marks)
  <2> HIDE DEF Kinds, Marks
  <2> QED
    BY <1>1, <1>2, FS_Product
<1>4. \A r \in ShownOf(t) : r \in Rows /\ r.term = t
  BY DEF ShownOf, Shown
<1>5. f \in [ShownOf(t) -> Kinds \X Marks]
  BY <1>4 DEF Rows
<1>6. ASSUME NEW r \in ShownOf(t), NEW q \in ShownOf(t), f[r] = f[q]
      PROVE  r = q
  <2>1. r.by = q.by /\ r.status = q.status /\ r.version = q.version /\ r.model = q.model
    BY <1>6
  <2> QED
    BY <2>1, <1>4 DEF Rows
<1>7. f \in Injection(ShownOf(t), Kinds \X Marks)
  <2> HIDE DEF Kinds, Marks
  <2>1. DOMAIN f = ShownOf(t)
    OBVIOUS
  <2> HIDE DEF f
  <2> QED
    BY <1>5, <1>6, <2>1 DEF Injection, IsInjective
<1> HIDE DEF Kinds, Marks, f
<1> QED
  BY <1>3, <1>7, FS_Injection

\* A step after which no other row of t is shown shows no more of them.
LEMMA NoneAdded ==
  ASSUME rows \subseteq Rows, NEW t, ShownOf(t)' \subseteq ShownOf(t)
  PROVE  Cardinality(ShownOf(t)') <= Cardinality(ShownOf(t))
BY FewRows, FS_Subset

\* Re-anchoring makes at most one row of each.
LEMMA ReanchoringShowsNoMore ==
  ASSUME rows \subseteq Rows, NEW v \in 0..MaxVersions, NEW text \in SUBSET Terms,
         rows' = Reanchored(v, text), NEW t
  PROVE  Cardinality(ShownOf(t)') <= Cardinality(ShownOf(t))
<1> DEFINE G(r) == IF ~AI(r) THEN r
                   ELSE IF r.term \in text THEN [r EXCEPT !.status = "fresh", !.version = v]
                   ELSE [r EXCEPT !.status = Classify(r, text)]
           f == [r \in ShownOf(t) |-> G(r)]
           image == {f[r] : r \in ShownOf(t)}
<1>1. rows' = {G(r) : r \in rows}
  BY DEF Reanchored
<1>2. ASSUME NEW r \in rows
      PROVE  G(r).term = r.term /\ (~AI(r) => G(r) = r)
  BY <1>2 DEF Rows
<1>3. ShownOf(t)' \subseteq image
  <2> SUFFICES ASSUME NEW q \in ShownOf(t)'
               PROVE  q \in image
    OBVIOUS
  <2>1. q \in rows' /\ q.term = t /\ ~(q.by = "user" /\ q.status = "orphaned")
    BY DEF ShownOf, Shown
  <2>2. PICK r \in rows : q = G(r)
    BY <1>1, <2>1
  <2>3. r.term = t /\ (~AI(r) => q = r)
    BY <1>2, <2>1, <2>2
  <2> HIDE DEF G
  <2>4. r \in ShownOf(t)
    BY <2>1, <2>3 DEF ShownOf, Shown, AI
  <2> QED
    BY <2>2, <2>4
<1> HIDE DEF G
<1>4. f \in Surjection(ShownOf(t), image)
  <2>1. f \in [ShownOf(t) -> image]
    OBVIOUS
  <2>2. \A q \in image : \E r \in ShownOf(t) : f[r] = q
    OBVIOUS
  <2> HIDE DEF f, image
  <2> QED
    BY <2>1, <2>2 DEF Surjection
<1> HIDE DEF f, image
<1>5. IsFiniteSet(ShownOf(t))
  BY FewRows
<1>6. IsFiniteSet(image) /\ Cardinality(image) <= Cardinality(ShownOf(t))
  BY <1>4, <1>5, FS_Surjection
<1>7. IsFiniteSet(ShownOf(t)') /\ Cardinality(ShownOf(t)') <= Cardinality(image)
  BY <1>3, <1>6, FS_Subset
<1>8. /\ Cardinality(ShownOf(t)) \in Nat /\ Cardinality(image) \in Nat
      /\ Cardinality(ShownOf(t)') \in Nat
  BY <1>5, <1>6, <1>7, FS_CardinalityType
<1> QED
  BY <1>6, <1>7, <1>8

\* No step of Next shows one row more of a term that the user has deleted.
LEMMA SuppressedStaysDown ==
  ASSUME DerivedInv, [Next]_vars, NEW t \in Terms, Suppressed(t)
  PROVE  Cardinality(ShownOf(t)') <= Cardinality(ShownOf(t))
<1>1. OwnerOK /\ rows \subseteq Rows /\ head \in 0..MaxVersions /\ MaxVersions \in Nat
  BY Bounds DEF DerivedInv, TypeOK, OwnerOK
<1>2. ASSUME rows' \subseteq rows
      PROVE  Cardinality(ShownOf(t)') <= Cardinality(ShownOf(t))
  <2>1. ShownOf(t)' \subseteq ShownOf(t)
    BY <1>2 DEF ShownOf, Shown
  <2> QED
    BY <1>1, <2>1, NoneAdded
<1>3. ASSUME NEW text \in SUBSET Terms, Save(text)
      PROVE  Cardinality(ShownOf(t)') <= Cardinality(ShownOf(t))
  <2>1. CASE head = 0
    BY <1>2, <1>3, <2>1 DEF Save
  <2>2. CASE head # 0
    <3>1. rows' = Reanchored(head + 1, text) /\ head + 1 \in 0..MaxVersions
      BY <1>1, <1>3, <2>2 DEF Save
    <3> QED
      BY <1>1, <3>1, ReanchoringShowsNoMore
  <2> QED
    BY <2>1, <2>2
<1>4. ASSUME NEW v \in Versions, GateImmaterial(v)
      PROVE  Cardinality(ShownOf(t)') <= Cardinality(ShownOf(t))
  <2>1. rows' = Reanchored(v, chain[v])
    BY <1>4 DEF GateImmaterial
  <2>2. v \in 0..MaxVersions /\ chain[v] \in SUBSET Terms
    <3>1. v \in 1..MaxVersions /\ v <= head
      BY <1>4 DEF GateImmaterial, DerivedInv, Grounded, Versions
    <3> QED
      BY <1>1, <3>1 DEF OwnerOK, head
  <2> QED
    BY <1>1, <2>1, <2>2, ReanchoringShowsNoMore
<1>5. ASSUME NEW w \in Workers, NEW out \in SUBSET Terms, EnrichWrite(w, out)
      PROVE  Cardinality(ShownOf(t)') <= Cardinality(ShownOf(t))
  <2>1. run[w].version \in 1..head /\ release \in 1..Releases
    BY <1>5, Busy DEF EnrichWrite, DerivedInv, TypeOK, WorkOK
  <2>2. rows' = Enriched(run[w].version, out)
    BY <1>5 DEF EnrichWrite
  <2>3. \A q \in rows' : q \in rows \/ q.term # t
    BY <1>1, <2>1, <2>2, EnrichedRows
  <2>4. ShownOf(t)' \subseteq ShownOf(t)
    BY <2>3 DEF ShownOf, Shown
  <2> QED
    BY <1>1, <2>4, NoneAdded
<1>6. ASSUME NEW r \in rows, Curate(r)
      PROVE  Cardinality(ShownOf(t)') <= Cardinality(ShownOf(t))
  <2> DEFINE q == [r EXCEPT !.by = "user", !.status = "orphaned", !.version = NoVersion]
  <2>1. rows' = (rows \ {r}) \cup {q}
    BY <1>6 DEF Curate
  <2>2. q.by = "user" /\ q.status = "orphaned"
    BY <1>1, <1>6 DEF Rows
  <2> HIDE DEF q
  <2>3. ShownOf(t)' \subseteq ShownOf(t)
    BY <2>1, <2>2 DEF ShownOf, Shown
  <2> QED
    BY <1>1, <2>3, NoneAdded
<1>7. CASE Purge
  BY <1>2, <1>7 DEF Purge, Swept
<1>8. CASE \E text \in SUBSET Terms : Ingest(text)
  BY <1>2, <1>8 DEF Ingest
<1>9. CASE \E v \in Versions : GateMaterial(v)
  BY <1>2, <1>9 DEF GateMaterial
<1>10. CASE \E w \in Workers : \/ \E v \in Versions : EnrichRead(w, v)
                              \/ LogEgress(w) \/ EnrichDone(w) \/ EnrichFails(w)
  BY <1>2, <1>10 DEF EnrichRead, LogEgress, EnrichDone, EnrichFails
<1>11. CASE EnrichGap \/ Reenrich \/ Upgrade \/ SetNoEgress \/ DeleteOrRecover
  BY <1>2, <1>11 DEF EnrichGap, Reenrich, Upgrade, SetNoEgress, DeleteOrRecover
<1>12. CASE UNCHANGED vars
  BY <1>2, <1>12 DEF vars
<1> QED
  BY <1>3, <1>4, <1>5, <1>6, <1>7, <1>8, <1>9, <1>10, <1>11, <1>12 DEF Next

-----------------------------------------------------------------------------

\* Initially there are no versions and no rows, and no step of Next disturbs
\* the invariant.
THEOREM DerivedInvariant == Spec => []DerivedInv
<1>1. Init => DerivedInv
  <2> SUFFICES ASSUME Init PROVE DerivedInv
    OBVIOUS
  <2>1. head = 0 /\ MaxVersions \in Nat /\ Releases \in Nat \ {0} /\ MaxEvents \in Nat
    BY Bounds DEF Init, head
  <2>2. OwnerOK
    <3>1. chain \in Seq(SUBSET Terms) /\ head <= MaxVersions
      BY <2>1 DEF Init
    <3>2. /\ external \in BOOLEAN /\ deleted \in BOOLEAN /\ noEgress \in BOOLEAN
          /\ rows = {} /\ purged = {} /\ late = {}
      BY DEF Init
    <3> QED
      BY <3>1, <3>2 DEF OwnerOK
  <2>3. WorkOK
    <3>1. NoRun \in [pc : {"idle", "calling", "wrote", "written"}, version : 0..head]
      BY <2>1 DEF NoRun, NoVersion
    <3> QED
      BY <2>1, <3>1 DEF Init, WorkOK
  <2>4. Grounded
    BY DEF Init, Grounded, NoRun
  <2>5. RowsFollow
    BY DEF Init, RowsFollow, FreshFollowsHead, PurgeSweepsDerived
  <2> QED
    BY <2>2, <2>3, <2>4, <2>5 DEF DerivedInv, TypeOK
<1>2. DerivedInv /\ [Next]_vars => DerivedInv'
  <2> SUFFICES ASSUME DerivedInv, [Next]_vars PROVE DerivedInv'
    OBVIOUS
  <2>1. CASE \E text \in SUBSET Terms : Save(text) \/ Ingest(text)
    BY <2>1, SaveStep, IngestStep
  <2>2. CASE \E v \in Versions : GateMaterial(v) \/ GateImmaterial(v)
    BY <2>2, GateDecides
  <2>3. CASE \E w \in Workers :
               \/ \E v \in Versions : EnrichRead(w, v)
               \/ \E out \in SUBSET Terms : EnrichWrite(w, out)
               \/ LogEgress(w) \/ EnrichDone(w) \/ EnrichFails(w)
    BY <2>3, ReadStep, WriteStep, LogStep, DoneStep, FailStep
  <2>4. CASE EnrichGap \/ Reenrich \/ Upgrade
    BY <2>4, GapStep, UpgradeStep
  <2>5. CASE \/ \E r \in rows : Curate(r)
             \/ SetNoEgress \/ DeleteOrRecover \/ Purge
    BY <2>5, CurateStep, FlagStep, PurgeStep
  <2>6. CASE UNCHANGED vars
    <3>1. UNCHANGED owner /\ UNCHANGED <<rows, late, gate, run>> /\ head' = head
      BY <2>6 DEF vars, owner, head
    <3>2. WorkOK'
      BY <2>6, <3>1 DEF vars, DerivedInv, TypeOK, WorkOK
    <3> QED
      BY <3>1, <3>2, AskStep
  <2> QED
    BY <2>1, <2>2, <2>3, <2>4, <2>5, <2>6 DEF Next
<1> QED
  BY <1>1, <1>2, PTL DEF Spec

\* Every variable of the derived layer keeps its type, whatever the workers,
\* the gate and the user do (TypeOK).
THEOREM DerivedTypeCorrect == Spec => []TypeOK
<1>1. DerivedInv => TypeOK
  BY DEF DerivedInv
<1> QED
  BY <1>1, DerivedInvariant, PTL

\* What a note shows as fresh was derived from its head, or by a job that read
\* an older version and wrote after the save (staleness.py, enrich.py).
THEOREM FreshIsOfTheHead == Spec => []FreshFollowsHead
<1>1. DerivedInv => FreshFollowsHead
  BY DEF DerivedInv, RowsFollow
<1> QED
  BY <1>1, DerivedInvariant, PTL

\* A purge leaves no annotation of the text it destroyed but what a job that
\* had read the text before writes after (versions.py purge, enrich.py).
THEOREM PurgeLeavesNoAnnotation == Spec => []PurgeSweepsDerived
<1>1. DerivedInv => PurgeSweepsDerived
  BY DEF DerivedInv, RowsFollow
<1> QED
  BY <1>1, DerivedInvariant, PTL

\* A suggestion that the user deleted is not shown again by any enrichment,
\* re-anchoring, gate or purge (curation.py, staleness.py).
THEOREM DeletedStaysDeleted == Spec => NoResurrection
<1>1. ASSUME DerivedInv, [Next]_vars
      PROVE  [\A t \in Terms : Suppressed(t) =>
                Cardinality({r \in Shown' : r.term = t})
                  <= Cardinality({r \in Shown : r.term = t})]_vars
  BY <1>1, SuppressedStaysDown DEF ShownOf
<1> QED
  BY <1>1, DerivedInvariant, PTL DEF Spec, NoResurrection
=============================================================================
