------------------------------- MODULE Notes -------------------------------
(***************************************************************************)
(* One note: its version chain behind a compare-and-swap on the head, the  *)
(* editors, deletes, recoveries and the purge that move it, and the two    *)
(* regenerable legs that follow it, the lexical index and the vectors.     *)
(*                                                                         *)
(* A version is the sequence of texts from the root down to it (the        *)
(* version_id is a hash of note, parent and body), and `vers` is the       *)
(* versions table. A user's process holds what it read across two          *)
(* transactions: the head an editor or the browse list loaded, the parent  *)
(* `lode recover` looked up. The cache write of a save or a recovery comes *)
(* after its commit, as a step of its own.                                 *)
(***************************************************************************)
EXTENDS Naturals, Sequences, FiniteSets

CONSTANTS
  Users,        \* processes that edit: TUI screens and CLI commands
  Texts,        \* the texts a user can type
  Marker,       \* the body purge writes
  Clean,        \* Clean[b]: what redact_before_index makes of a body
  NoText,       \* nothing indexed, or no draft
  Drafts,       \* draft files
  MaxVersions,  \* bound: rows of the versions table
  MaxEvents     \* bound: commands, crashes, failed embed runs, drops

ASSUME NotesAssumption ==
  /\ Marker \notin Texts /\ NoText \notin Texts \cup {Marker}
  /\ DOMAIN Clean = Texts \cup {Marker} /\ Clean[Marker] = Marker
  /\ Drafts \subseteq Nat \ {0}
  /\ MaxVersions \in Nat /\ MaxEvents \in Nat

Bodies == Texts \cup {Marker}
NoVersion == <<>>

VARIABLES
  vers,      \* the versions table: op and body of each row
  head,      \* notes.head_version_id, NoVersion before the note exists
  fts,       \* the text passages_fts holds for each version
  job,       \* the embed job of each version
  vectors,   \* the text whose vectors the store holds for each version
  pc,        \* what each user is in the middle of
  mem,       \* what each user's process holds: a version, a text, a draft
  drafts,    \* the draft files
  scan,      \* the head and body a lexical_gap pass has read
  run,       \* the version and body a running embed job has read
  events,    \* edits, deletes, purges, repairs, crashes, failed embed runs
             \* and dropped tables so far
  dropped    \* history: versions whose vectors went with a dropped table

vars == <<vers, head, fts, job, vectors, pc, mem, drafts, scan, run,
          events, dropped>>
user == <<pc, mem, drafts>>
embedding == <<job, vectors, run, dropped>>

Nothing == [version |-> NoVersion, text |-> NoText]
Forgot == [version |-> NoVersion, text |-> NoText, draft |-> 0]

Init ==
  /\ vers = <<>> /\ head = NoVersion
  /\ fts = <<>> /\ job = <<>> /\ vectors = <<>>
  /\ pc = [u \in Users |-> "idle"]
  /\ mem = [u \in Users |-> Forgot]
  /\ drafts = [d \in Drafts |-> NoText]
  /\ scan = Nothing /\ run = Nothing
  /\ events = 0 /\ dropped = {}

-----------------------------------------------------------------------------
(* Rows, and the compare-and-swap *)

Rows == DOMAIN vers
Parent(v) == SubSeq(v, 1, Len(v) - 1)
Text(v) == vers[v].body
Deleted(v) == vers[v].op = "delete"
Exists == head # NoVersion
Live == Exists /\ ~Deleted(head)
Purged == Exists /\ vers[head].purged

With(f, v, x) == [w \in DOMAIN f \cup {v} |-> IF w = v THEN x ELSE f[w]]
Row(op, b) == [op |-> op, body |-> b, purged |-> FALSE]
At(f, v) == IF v \in DOMAIN f THEN f[v] ELSE NoText

\* Slip: an update takes the place of the version it is based on.
WrittenOver(v, op, b) == With([w \in Rows \ {head} |-> vers[w]], v, Row(op, b))

\* _write_version.
Written(v, op, b) == With(vers, v, Row(op, b))

\* Slip: the parent is not compared with the head.
HoldsAnyHead(parent) == TRUE

\* The compare of _save_core, delete and _cas_head: the head is still the
\* version the caller built on.
HoldsHead(parent) == parent = head

\* A step of user u that leaves it at pc `to`, holding m.
Moves(u, to, m) == pc' = [pc EXCEPT ![u] = to] /\ mem' = [mem EXCEPT ![u] = m]
Done(u) == Moves(u, "idle", Forgot)
Begins == events < MaxEvents /\ events' = events + 1

\* enqueue_derive_jobs: an embed job, unless one is live.
Enqueued(v) == IF At(job, v) \in {"pending", "running"} THEN job
               ELSE With(job, v, "pending")

FreeDrafts == {d \in Drafts : drafts[d] = NoText}

-----------------------------------------------------------------------------
(* Saving: a capture, an editor, and the reconcile screen's re-apply *)

\* A root version. note_id is a fresh uuid, so nobody else has created it.
Create(u, b) ==
  /\ pc[u] = "idle" /\ ~Exists
  /\ head' = <<b>> /\ vers' = Written(head', "create", b)
  /\ job' = Enqueued(head')
  /\ Moves(u, "indexing", [version |-> head', text |-> b, draft |-> 0])
  /\ UNCHANGED <<events, fts, vectors, drafts, scan, run, dropped>>

\* The edit screen loads a live head and remembers it as its parent.
LoadHead(u) ==
  /\ Begins /\ pc[u] = "idle" /\ Live
  /\ Moves(u, "editing", [Forgot EXCEPT !.version = head])
  /\ UNCHANGED <<vers, head, fts, drafts, scan>> /\ UNCHANGED embedding

\* An editor saves what was typed, a conflict screen the buffer it kept.
Submits(u, b) == \/ pc[u] = "editing"
                 \/ pc[u] = "conflict" /\ b = mem[u].text

\* Slip: the superseded draft is dropped before the renewed one is written,
\* and the renewed one is forgotten.
ReleasedEarly(u) == [d \in Drafts |-> NoText]

\* The draft files once u's conflict is resolved.
Released(u) == [d \in Drafts |-> IF d = mem[u].draft THEN NoText ELSE drafts[d]]

\* An update: the version, its embed job and the head in one transaction.
SaveLands(u, b) ==
  /\ Submits(u, b) /\ HoldsHead(mem[u].version)
  /\ b # Text(head) /\ Append(head, b) \notin Rows
  /\ Cardinality(Rows) < MaxVersions
  /\ head' = Append(head, b) /\ vers' = Written(head', "update", b)
  /\ job' = Enqueued(head')
  /\ Moves(u, "indexing", [version |-> head', text |-> b,
                           draft |-> mem[u].draft])
  /\ UNCHANGED <<events, fts, vectors, drafts, scan, run, dropped>>

\* The head's body is what is saved: no row, no job, no cache write.
SaveDeduped(u, b) ==
  /\ Submits(u, b) /\ HoldsHead(mem[u].version) /\ b = Text(head)
  /\ drafts' = Released(u) /\ Done(u)
  /\ UNCHANGED <<events, vers, head, fts, scan>> /\ UNCHANGED embedding

\* The version id is taken by an older child of the head: the INSERT fails
\* and the error leaves the screen.
SaveCollides(u, b) ==
  /\ Submits(u, b) /\ HoldsHead(mem[u].version)
  /\ b # Text(head) /\ Append(head, b) \in Rows
  /\ Done(u)
  /\ UNCHANGED <<events, vers, head, fts, drafts, scan>> /\ UNCHANGED embedding

\* The head has moved: the buffer goes to a new draft, and the conflict
\* takes the new head as the parent of a re-apply. A conflict that is
\* renewed drops its older draft after the new one is written.
SaveRejected(u, b) ==
  /\ Submits(u, b) /\ ~HoldsHead(mem[u].version)
  /\ \E d \in FreeDrafts :
       /\ drafts' = [Released(u) EXCEPT ![d] = b]
       /\ Moves(u, "conflict", [version |-> head, text |-> b, draft |-> d])
  /\ UNCHANGED <<events, vers, head, fts, scan>> /\ UNCHANGED embedding

Discard(u) ==
  /\ pc[u] = "conflict" /\ drafts' = Released(u) /\ Done(u)
  /\ UNCHANGED <<events, vers, head, fts, scan>> /\ UNCHANGED embedding

\* Slip: the late cache write goes to the head of the moment.
IndexesTheHead(u) == With(fts, head, Clean[mem[u].text])

\* LexicalCacheBackend.index, of the version the save committed, redacted.
Indexes(u) == With(fts, mem[u].version, Clean[mem[u].text])

\* The cache write after a save or a recovery, then the conflict's draft.
IndexSaved(u) ==
  /\ pc[u] = "indexing"
  /\ fts' = Indexes(u) /\ drafts' = Released(u) /\ Done(u)
  /\ UNCHANGED <<events, vers, head, scan>> /\ UNCHANGED embedding

\* The process ends in the middle, or its user leaves the screen: what is
\* committed and the draft files stay.
Crash(u) ==
  /\ Begins /\ pc[u] # "idle" /\ Done(u)
  /\ UNCHANGED <<vers, head, fts, drafts, scan>> /\ UNCHANGED embedding

-----------------------------------------------------------------------------
(* Delete, recover, purge *)

\* The browse list shows the head it read.
BrowseHead(u) ==
  /\ Begins /\ pc[u] = "idle" /\ Live
  /\ Moves(u, "deleting", [Forgot EXCEPT !.version = head])
  /\ UNCHANGED <<vers, head, fts, drafts, scan>> /\ UNCHANGED embedding

\* The existing tombstone of an earlier delete is reused.
WithTombstone(v, b) == IF v \in Rows THEN vers ELSE Written(v, "delete", b)

\* A tombstone under the head.
Delete(u) ==
  /\ pc[u] = "deleting" /\ HoldsHead(mem[u].version)
  /\ LET b == Text(head) IN
     /\ head' = Append(head, b)
     /\ head' \in Rows \/ Cardinality(Rows) < MaxVersions
     /\ vers' = WithTombstone(head', b)
  /\ Moves(u, "evicting", [Forgot EXCEPT !.version = head'])
  /\ UNCHANGED <<events, fts, drafts, scan>> /\ UNCHANGED embedding

\* Then its own index rows are evicted.
Evict(u) ==
  /\ pc[u] = "evicting"
  /\ fts' = [v \in DOMAIN fts \ {mem[u].version} |-> fts[v]]
  /\ Done(u) /\ UNCHANGED <<events, vers, head, drafts, scan>>
  /\ UNCHANGED embedding

DeleteRejected(u) ==
  /\ pc[u] = "deleting" /\ ~HoldsHead(mem[u].version) /\ Done(u)
  /\ UNCHANGED <<events, vers, head, fts, drafts, scan>> /\ UNCHANGED embedding

\* What note_head_op_and_parent gives `lode recover` to go back to.
RecoveryTarget(v) == Parent(v)

LookUp(u) ==
  /\ pc[u] = "idle" /\ Exists /\ Deleted(head)
  /\ Moves(u, "recovering", [Forgot EXCEPT !.version = RecoveryTarget(head)])
  /\ UNCHANGED <<events, vers, head, fts, drafts, scan>> /\ UNCHANGED embedding

\* The head is re-pointed with no compare-and-swap.
Recover(u) ==
  /\ pc[u] = "recovering" /\ mem[u].version \in Rows
  /\ head' = mem[u].version
  /\ Moves(u, "indexing", [mem[u] EXCEPT !.text = Text(head')])
  /\ UNCHANGED <<events, vers, fts, drafts, scan>> /\ UNCHANGED embedding

\* The UPDATE of versions.purge: every row of the chain.
PurgedRows == [v \in Rows |-> [vers[v] EXCEPT !.body = Marker, !.purged = TRUE]]

\* `lode purge` builds its Repository without a cache, so nothing is evicted.
Purge(u) ==
  /\ Begins /\ pc[u] = "idle" /\ Exists
  /\ vers' = PurgedRows
  /\ UNCHANGED <<head, fts, scan>> /\ UNCHANGED user /\ UNCHANGED embedding

-----------------------------------------------------------------------------
(* The regenerable legs: `lode reindex-lexical`, the reconcile scan and the
   embed worker *)

\* lexical_gap reads a live, unpurged head with no rows.
LexicalGap == Live /\ ~Purged /\ At(fts, head) = NoText

ReadsHead == scan = Nothing /\ scan' = [version |-> head, text |-> Text(head)]

GapRead ==
  /\ LexicalGap /\ ReadsHead
  /\ UNCHANGED <<vers, head, fts, events>> /\ UNCHANGED user
  /\ UNCHANGED embedding

\* `lode reindex-lexical` reads every live head, a purged one too.
ReindexRead ==
  /\ Begins /\ Live /\ ReadsHead
  /\ UNCHANGED <<vers, head, fts>> /\ UNCHANGED user /\ UNCHANGED embedding

\* The body goes to the index as it was read, not redacted.
ScanIndex ==
  /\ scan # Nothing
  /\ fts' = With(fts, scan.version, scan.text) /\ scan' = Nothing
  /\ UNCHANGED <<events, vers, head>> /\ UNCHANGED user /\ UNCHANGED embedding

\* embed_gap: a live, unpurged head with no job but a dead one.
EmbedGapHead ==
  Live /\ ~Purged /\ At(job, head) \notin {"pending", "running", "done"}

EmbedGap ==
  /\ EmbedGapHead /\ job' = Enqueued(head)
  /\ UNCHANGED <<events, vers, head, fts, scan, vectors, run, dropped>>
  /\ UNCHANGED user

\* `lode reembed`: whatever became of the last job.
Reembed ==
  /\ Begins /\ Live /\ At(job, head) = "done" /\ job' = Enqueued(head)
  /\ UNCHANGED <<vers, head, fts, scan, vectors, run, dropped>>
  /\ UNCHANGED user

\* A worker claims a job and reads the body it will embed.
EmbedClaim ==
  /\ run = Nothing
  /\ \E v \in Rows :
       /\ At(job, v) = "pending" /\ job' = [job EXCEPT ![v] = "running"]
       /\ run' = [version |-> v, text |-> Clean[Text(v)]]
  /\ UNCHANGED <<events, vers, head, fts, scan, vectors, dropped>>
  /\ UNCHANGED user

\* replace_vectors.
EmbedWrite ==
  /\ run # Nothing /\ At(vectors, run.version) # run.text
  /\ vectors' = With(vectors, run.version, run.text)
  /\ dropped' = dropped \ {run.version}
  /\ UNCHANGED <<events, vers, head, fts, scan, job, run>>
  /\ UNCHANGED user

\* Slip: the job is finished before its vectors are written.
WroteOrNot(v, b) == TRUE

\* The handler returns once the store holds what it embedded.
Wrote(v, b) == At(vectors, v) = b

EmbedDone ==
  /\ run # Nothing /\ Wrote(run.version, run.text)
  /\ job' = [job EXCEPT ![run.version] = "done"] /\ run' = Nothing
  /\ UNCHANGED <<events, vers, head, fts, scan, vectors, dropped>>
  /\ UNCHANGED user

\* The run fails, or its worker is killed and the row reclaimed: the job
\* waits again, or is dead at its last attempt.
EmbedFails ==
  /\ run # Nothing /\ Begins
  /\ \E s \in {"pending", "dead"} : job' = [job EXCEPT ![run.version] = s]
  /\ run' = Nothing
  /\ UNCHANGED <<vers, head, fts, scan, vectors, dropped>>
  /\ UNCHANGED user

\* The store's schema no longer matches the settings: the table is dropped
\* and made anew the next time it is opened.
DropVectors ==
  /\ vectors # <<>> /\ Begins
  /\ vectors' = <<>> /\ dropped' = dropped \cup DOMAIN vectors
  /\ UNCHANGED <<vers, head, fts, scan, job, run>> /\ UNCHANGED user

-----------------------------------------------------------------------------
Save(u) == \E b \in Texts : SaveLands(u, b) \/ SaveDeduped(u, b)
                            \/ SaveCollides(u, b) \/ SaveRejected(u, b)

Next ==
  \/ \E u \in Users :
       \/ \E b \in Texts : Create(u, b)
       \/ LoadHead(u) \/ Save(u) \/ Discard(u) \/ IndexSaved(u) \/ Crash(u)
       \/ BrowseHead(u) \/ Delete(u) \/ Evict(u) \/ DeleteRejected(u)
       \/ LookUp(u) \/ Recover(u) \/ Purge(u)
  \/ GapRead \/ ReindexRead \/ ScanIndex \/ EmbedGap \/ Reembed
  \/ EmbedClaim \/ EmbedWrite \/ EmbedDone \/ EmbedFails \/ DropVectors

\* The worker keeps draining and scanning; no user has to do anything.
Fairness ==
  /\ WF_vars(GapRead) /\ WF_vars(ScanIndex)
  /\ WF_vars(EmbedGap) /\ WF_vars(EmbedClaim)
  /\ WF_vars(EmbedWrite) /\ WF_vars(EmbedDone)

Spec == Init /\ [][Next]_vars
FairSpec == Spec /\ Fairness

-----------------------------------------------------------------------------
(* Properties *)

Indexable == Bodies \cup {Clean[b] : b \in Bodies} \cup {NoText}

TypeOK ==
  /\ \A v \in Rows : vers[v] \in [op : {"create", "update", "delete"},
                                  body : Bodies, purged : BOOLEAN]
  /\ head \in Rows \cup {NoVersion}
  /\ \A v \in DOMAIN fts : v \in Rows /\ fts[v] \in Indexable
  /\ DOMAIN job \cup DOMAIN vectors \cup dropped \subseteq Rows
  /\ pc \in [Users -> {"idle", "editing", "conflict", "indexing", "deleting",
                       "evicting", "recovering"}]
  /\ mem \in [Users -> [version : Rows \cup {NoVersion},
                        text : Bodies \cup {NoText}, draft : Drafts \cup {0}]]
  /\ drafts \in [Drafts -> Texts \cup {NoText}]
  /\ {scan, run} \subseteq [version : Rows \cup {NoVersion}, text : Indexable]
  /\ events \in Nat

IsAncestor(a, v) == Len(a) <= Len(v) /\ SubSeq(v, 1, Len(a)) = a

\* Every version's parent is a row, the note has a head once it exists, and
\* a body that was not purged is the one its version_id was made from.
ChainSound ==
  /\ \A v \in Rows : Len(v) = 1 \/ Parent(v) \in Rows
  /\ Rows # {} => head \in Rows
  /\ \A v \in Rows : ~vers[v].purged => vers[v].body = v[Len(v)]

\* A purge leaves no older text behind: the ancestors of a purged version
\* are purged, whichever version was the head and whatever was saved since.
PurgeSweepsChain ==
  \A v, a \in Rows : IsAncestor(a, v) /\ vers[v].purged => vers[a].purged

\* No save or delete overwrites what its user has not seen: a new version, or
\* a tombstone, goes under the head by a user who had loaded that head. (Only
\* a recovery looked up earlier may go forward to an older child of the head.)
NoLostUpdate ==
  [][\A v \in {head'} : v # head /\ Exists /\ Parent(v) = head
                          /\ (v \notin Rows \/ Deleted(v))
       => \E u \in Users : pc'[u] # pc[u] /\ mem[u].version = head]_vars

\* What the two legs hold for a live head is its own text, however late a
\* cache write or an embed run of an older version lands.
SearchIsCurrent ==
  Live /\ ~Purged =>
    /\ At(fts, head) \in {NoText, Text(head), Clean[Text(head)]}
    /\ At(vectors, head) \in {NoText, Clean[Text(head)]}

\* A rejected text is on disk until it is saved or discarded: a draft file
\* goes only when its text is the head's, another draft's, indexed as a
\* saved version, or dropped by its user.
DraftsKept ==
  [][\A d \in Drafts : drafts[d] # NoText /\ drafts'[d] = NoText =>
       \/ \E e \in Drafts : drafts'[e] = drafts[d]
       \/ \E u \in Users : /\ mem[u].draft = d
                           /\ \/ pc[u] = "indexing"
                              \/ pc[u] = "conflict" /\ pc'[u] = "idle"]_vars

\* A live head does not stay out of the lexical index after a crash between
\* a commit and its cache write, nor without vectors after failures, dead
\* jobs and kills, unless its vectors went with a dropped table: a done job
\* hides that from embed_gap until `lode reembed`.
HeadsStaySearchable ==
  /\ []<>~LexicalGap
  /\ []<>~(Live /\ ~Purged /\ head \notin DOMAIN vectors \cup dropped)

\* The store implements the abstract history.
History == INSTANCE NoteHistory WITH versions <- Rows, current <- head
ImplementsHistory == History!Spec

-----------------------------------------------------------------------------
(* What the documentation says: TLC refutes it, and no run checks it *)

\* docs/externals.md, "Hard delete": every derived entry of a purged version
\* is dropped, so once nobody is in the middle of anything the legs hold
\* none of the old text.
PurgeReachesTheLegs ==
  scan = Nothing /\ run = Nothing /\ (\A u \in Users : pc[u] = "idle") =>
    \A v \in Rows : vers[v].purged =>
      At(fts, v) \in {NoText, Marker} /\ At(vectors, v) \in {NoText, Marker}

\* repository.py, "redact-before-index": every engine sees the same text.
LegsAgree ==
  \A v \in Rows : At(fts, v) # NoText /\ At(vectors, v) # NoText
                    /\ ~vers[v].purged => fts[v] = vectors[v]

\* cli/recover.py: a note that is not tombstoned is refused.
RecoversOnlyDeleted ==
  [][\A u \in Users : pc[u] = "recovering" /\ pc'[u] = "indexing"
       => Deleted(head)]_vars
=============================================================================
