------------------------------ MODULE Derived ------------------------------
(***************************************************************************)
(* The AI-derived rows of one owner, a note or a mirrored external: written *)
(* by enrich jobs that read a version, wait for the LLM and write back,     *)
(* while saves re-anchor them to the new text, embed jobs of snapshots      *)
(* decide whether to enrich again, and the user curates, withholds, deletes *)
(* and purges.                                                              *)
(*                                                                         *)
(* A text is the set of terms it mentions. `rows` stands for annotations    *)
(* and edges together: a term is a tag or a link, and only a tag is an      *)
(* annotation. Nothing writes quoted_text, so a row is fresh or orphaned.   *)
(***************************************************************************)
EXTENDS Naturals, FiniteSets, Sequences

CONSTANTS
  Tags,         \* payloads of annotations
  Links,        \* targets of inferred edges
  Workers,      \* a drain, and a `lode add` that enriches what it saved
  Releases,     \* prompt version and model of a release, in order
  MaxVersions,  \* bound: versions of the note, snapshots of the external
  MaxEvents     \* bound: user commands, upgrades and failed runs

ASSUME DerivedAssumption ==
  /\ Tags \cap Links = {} /\ Releases \in Nat \ {0}
  /\ MaxVersions \in Nat /\ MaxEvents \in Nat

Terms == Tags \cup Links
Versions == 1..MaxVersions
NoVersion == 0

VARIABLES
  external,   \* whether the owner is an external; never changes
  chain,      \* the terms of each version, oldest first; the last is the head
  deleted,    \* the note's head is a tombstone above that version
  purged,     \* versions whose body purge overwrote
  noEgress,   \* the owner's no_egress flag
  rows,       \* annotations and edges
  job,        \* status of the newest enrich job of each version
  done,       \* the prompt_ver values of the done enrich jobs of each version
  gate,       \* the embed job of each snapshot, and what its gate decided
  run,        \* what each worker is in the middle of
  release,    \* the release the processes run
  egressLog,  \* versions sent to the LLM, with the model
  events,     \* commands, upgrades and failed runs so far
  late,       \* history: versions written after their text was replaced
  skipped     \* history: versions whose enrich job ended without a call

vars == <<external, chain, deleted, purged, noEgress, rows, job, done, gate,
          run, release, egressLog, events, late, skipped>>
owner == <<external, chain, deleted, purged, noEgress>>
history == <<late, skipped>>

head == Len(chain)
NoRun == [pc |-> "idle", version |-> NoVersion]

Init ==
  /\ external \in BOOLEAN
  /\ chain = <<>> /\ deleted = FALSE /\ purged = {} /\ noEgress \in BOOLEAN
  /\ rows = {}
  /\ job = [v \in Versions |-> "none"] /\ done = [v \in Versions |-> {}]
  /\ gate = [v \in Versions |-> "none"]
  /\ run = [w \in Workers |-> NoRun]
  /\ release = 1 /\ egressLog = {}
  /\ events = 0 /\ late = {} /\ skipped = {}

-----------------------------------------------------------------------------
(* Rows *)

Row(t, by, status, v, model) ==
  [term |-> t, by |-> by, status |-> status, version |-> v, model |-> model]
AI(r) == r.by = "ai"

\* is_annotation_suppressed, is_edge_suppressed.
Suppressed(t) == \E r \in rows : r.term = t /\ r.by = "user"

\* Slip: a suggestion the user has decided about is written again.
EnrichedAnyway(v, out) ==
  {r \in rows : ~(AI(r) /\ r.version = v)}
    \cup {Row(t, "ai", "fresh", v, release) : t \in out}

\* What the rows become when the enrichment of v finds `out`.
Enriched(v, out) ==
  {r \in rows : ~(AI(r) /\ r.version = v)}
    \cup {Row(t, "ai", "fresh", v, release) : t \in {x \in out : ~Suppressed(x)}}

\* _classify without a quoted text.
Classify(r, text) == IF r.term \in text THEN "fresh" ELSE "orphaned"

\* Slip: a row that stays fresh keeps the version it was derived from.
ReanchoredInPlace(v, text) ==
  {IF AI(r) THEN [r EXCEPT !.status = Classify(r, text)] ELSE r : r \in rows}

\* reanchor_annotations, reanchor_edges.
Reanchored(v, text) ==
  {IF ~AI(r) THEN r
   ELSE IF r.term \in text THEN [r EXCEPT !.status = "fresh", !.version = v]
   ELSE [r EXCEPT !.status = Classify(r, text)] : r \in rows}

\* enqueue_derive_jobs.
Enqueued(v) == [job EXCEPT ![v] = IF @ = "running" THEN @ ELSE "pending"]

Begins == events < MaxEvents /\ events' = events + 1

-----------------------------------------------------------------------------
(* What moves the head *)

\* Repository.save of a note: the version, its jobs and the re-anchoring of
\* the rows in one transaction.
Save(text) ==
  /\ ~external /\ ~deleted /\ head < MaxVersions
  /\ head > 0 => chain[head] # text \/ head \in purged
  /\ chain' = Append(chain, text)
  /\ job' = Enqueued(head + 1)
  /\ rows' = IF head = 0 THEN rows ELSE Reanchored(head + 1, text)
  /\ late' = late \cap purged
  /\ UNCHANGED <<external, deleted, purged, noEgress, done, gate, run,
                 release, egressLog, events, skipped>>

\* ingest_snapshot of a text not seen before. The enrichment waits for the
\* gate of the embed job.
Ingest(text) ==
  /\ external /\ head < MaxVersions /\ \A v \in 1..head : chain[v] # text
  /\ chain' = Append(chain, text)
  /\ gate' = [gate EXCEPT ![head + 1] = "pending"]
  /\ UNCHANGED <<external, deleted, purged, noEgress, rows, job, done, run,
                 release, egressLog, events>> /\ UNCHANGED history

\* _predecessor_snapshot: the newest snapshot other than v.
Predecessor(v) == IF v = head THEN head - 1 ELSE head

\* gate_reenrich after the vectors of snapshot v are written: enrich again
\* when the change is material or there is nothing to compare with, and
\* otherwise carry the rows over. Whether a change is material is the
\* embedder's verdict.
GateMaterial(v) ==
  /\ gate[v] = "pending"
  /\ gate' = [gate EXCEPT ![v] = "material"] /\ job' = Enqueued(v)
  /\ UNCHANGED <<rows, done, run, release, egressLog, events>>
  /\ UNCHANGED owner /\ UNCHANGED history

GateImmaterial(v) ==
  /\ gate[v] = "pending" /\ Predecessor(v) # NoVersion
  /\ gate' = [gate EXCEPT ![v] = "carried"]
  /\ rows' = Reanchored(v, chain[v])
  /\ UNCHANGED <<job, done, run, release, egressLog, events>>
  /\ UNCHANGED owner /\ UNCHANGED history

-----------------------------------------------------------------------------
(* Enrich jobs *)

\* The live and no_egress gates of _resolve_enrich_target. A deleted note's
\* older version passes: only the tombstone itself is not live.
Sendable(v) == v \notin purged /\ ~noEgress

\* A worker claims the job of v and reads its text.
EnrichRead(w, v) ==
  /\ run[w].pc = "idle" /\ v \in 1..head /\ job[v] = "pending"
  /\ job' = [job EXCEPT ![v] = "running"]
  /\ run' = [run EXCEPT ![w] =
               [pc |-> IF Sendable(v) THEN "calling" ELSE "written", version |-> v]]
  /\ skipped' = IF Sendable(v) THEN skipped \ {v} ELSE skipped \cup {v}
  /\ UNCHANGED <<rows, done, gate, release, egressLog, events, late>>
  /\ UNCHANGED owner

\* The LLM answers with any terms; the rows are written in one transaction
\* and the send is logged in the next.
EnrichWrite(w, out) ==
  LET v == run[w].version IN
  /\ run[w].pc = "calling"
  /\ rows' = Enriched(v, out)
  /\ late' = IF v # head \/ v \in purged THEN late \cup {v} ELSE late
  /\ run' = [run EXCEPT ![w].pc = "wrote"]
  /\ UNCHANGED <<job, done, gate, release, egressLog, events, skipped>>
  /\ UNCHANGED owner

LogEgress(w) ==
  /\ run[w].pc = "wrote"
  /\ egressLog' = egressLog \cup {<<run[w].version, release>>}
  /\ run' = [run EXCEPT ![w].pc = "written"]
  /\ UNCHANGED <<rows, job, done, gate, release, events>>
  /\ UNCHANGED owner /\ UNCHANGED history

\* The job row is done, under the prompt of this release, called or not.
EnrichDone(w) ==
  LET v == run[w].version IN
  /\ run[w].pc = "written"
  /\ job' = [job EXCEPT ![v] = "done"]
  /\ done' = [done EXCEPT ![v] = @ \cup {release}]
  /\ run' = [run EXCEPT ![w] = NoRun]
  /\ UNCHANGED <<rows, gate, release, egressLog, events>>
  /\ UNCHANGED owner /\ UNCHANGED history

\* The handler raises, or its process dies and the claim is reclaimed: the
\* row is retried until its budget is spent.
EnrichFails(w) ==
  /\ Begins /\ run[w].pc # "idle"
  /\ \E status \in {"pending", "dead"} :
       job' = [job EXCEPT ![run[w].version] = status]
  /\ run' = [run EXCEPT ![w] = NoRun]
  /\ UNCHANGED <<rows, done, gate, release, egressLog>>
  /\ UNCHANGED owner /\ UNCHANGED history

-----------------------------------------------------------------------------
(* What asks for another enrichment *)

\* A live head of a note that may be sent.
Eligible == ~external /\ head > 0 /\ ~deleted /\ Sendable(head)

\* Slip: any done job counts, whatever prompt it ran under.
DoneUnderAnyPrompt(v) == done[v] # {}
DoneUnderPrompt(v) == release \in done[v]

\* _enrich_gap_step: its SELECT and its inserts in one step, so a version that
\* stops being the head in between, which gets a job all the same, does not here.
EnrichGap ==
  /\ Eligible /\ job[head] \notin {"pending", "running"} /\ ~DoneUnderPrompt(head)
  /\ job' = Enqueued(head)
  /\ UNCHANGED <<rows, done, gate, run, release, egressLog, events>>
  /\ UNCHANGED owner /\ UNCHANGED history

\* stale_enrichment_heads: an annotation of the head by another model.
OfAnotherModel ==
  \E r \in rows : AI(r) /\ r.term \in Tags /\ r.version = head /\ r.model # release

\* `lode reenrich`.
Reenrich ==
  /\ Begins /\ head > 0 /\ ~deleted /\ Sendable(head) /\ OfAnotherModel
  /\ job' = Enqueued(head)
  /\ UNCHANGED <<rows, done, gate, run, release, egressLog>>
  /\ UNCHANGED owner /\ UNCHANGED history

\* The user installs the next release while nothing runs.
Upgrade ==
  /\ Begins /\ release < Releases /\ \A w \in Workers : run[w] = NoRun
  /\ release' = release + 1
  /\ UNCHANGED <<rows, job, done, gate, run, egressLog>>
  /\ UNCHANGED owner /\ UNCHANGED history

-----------------------------------------------------------------------------
(* The user's other commands *)

\* delete_annotation, delete_edge: the row becomes the user's tombstone.
Curate(r) ==
  /\ Begins /\ r \in rows
  /\ rows' = (rows \ {r})
               \cup {[r EXCEPT !.by = "user", !.status = "orphaned", !.version = NoVersion]}
  /\ UNCHANGED <<job, done, gate, run, release, egressLog>>
  /\ UNCHANGED owner /\ UNCHANGED history

\* set_no_egress of a note or an external: a flip of the flag alone.
SetNoEgress ==
  /\ Begins /\ head > 0 /\ noEgress' = ~noEgress
  /\ UNCHANGED <<external, chain, deleted, purged, rows, job, done, gate,
                 run, release, egressLog>> /\ UNCHANGED history

\* delete moves the head to a tombstone, recover moves it back; neither
\* re-anchors a row.
DeleteOrRecover ==
  /\ Begins /\ ~external /\ head > 0 /\ deleted' = ~deleted
  /\ UNCHANGED <<external, chain, purged, noEgress, rows, job, done, gate,
                 run, release, egressLog>> /\ UNCHANGED history

\* Slip: only the rows of the head go.
HeadSwept == {r \in rows : ~(AI(r) /\ r.term \in Tags /\ r.version = head)}

\* The annotations of every version of the chain go; the edges stay.
Swept == {r \in rows : ~(AI(r) /\ r.term \in Tags)}

\* purge: every body becomes the marker, which mentions nothing.
Purge ==
  /\ Begins /\ ~external /\ head > 0
  /\ chain' = [v \in 1..head |-> {}] /\ purged' = 1..head
  /\ rows' = Swept
  /\ UNCHANGED <<external, deleted, noEgress, job, done, gate, run, release,
                 egressLog>> /\ UNCHANGED history

-----------------------------------------------------------------------------
(* What a reader is shown *)

\* display_annotations, display_edges: all but the user's tombstones.
Shown == {r \in rows : ~(r.by = "user" /\ r.status = "orphaned")}

\* _enrichment_state of a note: "pending" while its head has a live job, and a
\* tombstone head has none. Whether it is "failed" or "ready" after that tells
\* no two states apart.
ShowsPending == ~deleted /\ job[head] \in {"pending", "running"}

-----------------------------------------------------------------------------

Next ==
  \/ \E text \in SUBSET Terms : Save(text) \/ Ingest(text)
  \/ \E v \in Versions : GateMaterial(v) \/ GateImmaterial(v)
  \/ \E w \in Workers : \/ \E v \in Versions : EnrichRead(w, v)
                        \/ \E out \in SUBSET Terms : EnrichWrite(w, out)
                        \/ LogEgress(w) \/ EnrichDone(w) \/ EnrichFails(w)
  \/ EnrichGap \/ Reenrich \/ Upgrade
  \/ \E r \in rows : Curate(r)
  \/ SetNoEgress \/ DeleteOrRecover \/ Purge

Spec == Init /\ [][Next]_vars

\* A drain works every pending job off and scans for gaps on every pass.
FairSpec ==
  /\ Spec
  /\ \A w \in Workers :
       /\ \A v \in Versions : WF_vars(EnrichRead(w, v))
       /\ WF_vars(\E out \in SUBSET Terms : EnrichWrite(w, out))
       /\ WF_vars(LogEgress(w)) /\ WF_vars(EnrichDone(w))
  /\ \A v \in Versions : WF_vars(GateMaterial(v) \/ GateImmaterial(v))
  /\ WF_vars(EnrichGap)

-----------------------------------------------------------------------------
(* Properties *)

Rows == [term : Terms, by : {"ai", "user"}, status : {"fresh", "orphaned"},
         version : 0..MaxVersions, model : 1..Releases]

OwnerOK ==
  /\ external \in BOOLEAN /\ deleted \in BOOLEAN /\ noEgress \in BOOLEAN
  /\ chain \in Seq(SUBSET Terms) /\ head <= MaxVersions
  /\ rows \subseteq Rows
  /\ \A r \in rows : r.version <= head /\ (AI(r) <=> r.version # NoVersion)
  /\ purged \subseteq 1..head /\ late \subseteq 1..head

WorkOK ==
  /\ job \in [Versions -> {"none", "pending", "running", "dead", "done"}]
  /\ gate \in [Versions -> {"none", "pending", "material", "carried"}]
  /\ release \in 1..Releases /\ done \in [Versions -> SUBSET (1..release)]
  /\ run \in [Workers -> [pc : {"idle", "calling", "wrote", "written"},
                          version : 0..head]]
  /\ egressLog \subseteq (1..head) \X (1..release) /\ skipped \subseteq 1..head
  /\ events \in 0..MaxEvents

TypeOK == OwnerOK /\ WorkOK

\* A fresh row of a note was derived from the text the reader sees: every
\* save, with whatever enrichments it interrupts, leaves the fresh rows on the
\* head. The exception is a job that reads one version and writes after the
\* next was saved, which nothing stops.
FreshFollowsHead ==
  ~external => \A r \in rows :
    AI(r) /\ r.status = "fresh" => r.version = head \/ r.version \in late

\* A purge leaves no annotation derived from the text it destroyed, from any
\* version of the chain, orphaned rows included; again unless a job had read
\* the text before and wrote after.
PurgeSweepsDerived ==
  \A r \in rows : AI(r) /\ r.term \in Tags /\ r.version \in purged
                    => r.version \in late

\* What the user deleted does not come back: once a term has the user's
\* tombstone, no enrichment, re-anchoring or purge shows it in one row more.
NoResurrection ==
  [][\A t \in Terms : Suppressed(t) =>
       Cardinality({r \in Shown' : r.term = t}) <= Cardinality({r \in Shown : r.term = t})]_vars

\* When the user and the failures stop, an enrichment is not left owing: a
\* note's head that may be sent was sent by the current release, a snapshot
\* whose change was material was sent or its job died, and a note does not
\* show "pending" for ever. A job that was skipped counts: a head that was
\* withheld when its job ran is done for good.
Sent(v) == <<v, release>> \in egressLog \/ v \in skipped
HeadsGetEnriched ==
  <>[](/\ Eligible => Sent(head)
       /\ ~external /\ head > 0 => ~ShowsPending
       /\ \A v \in 1..head : gate[v] = "material" =>
            job[v] = "dead" \/ v \in skipped \/ \E m \in 1..Releases : <<v, m>> \in egressLog)

\* The reading of the gap scan as a promise: a head that may be sent and that
\* the scan no longer asks for has been enriched by this release. TLC refutes
\* it, and no run checks it: HeadsGetEnriched is what is left of it.
DoneMeansEnriched ==
  Eligible /\ job[head] = "done" /\ release \in done[head] => <<head, release>> \in egressLog
=============================================================================
