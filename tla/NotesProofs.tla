----------------------------- MODULE NotesProofs -----------------------------
(***************************************************************************)
(* No save, delete or recovery loses a version or a rejected text, and the *)
(* search legs hold a live head's own text: the safety properties of Notes *)
(* and its step-by-step implementation of NoteHistory, for any users,      *)
(* texts, draft files and bounds.                                          *)
(***************************************************************************)
EXTENDS Notes, SequenceTheorems, TLAPS

Last(v) == v[Len(v)]

\* The versions table: every row's ancestors are rows, its text is the one its
\* version_id was made from until it is purged, and a tombstone stands under a
\* version that is none.
Chain ==
  /\ \A v \in Rows : /\ v \in Seq(Bodies) \ {NoVersion}
                     /\ \A n \in 1..Len(v) : SubSeq(v, 1, n) \in Rows
                     /\ vers[v].purged \/ vers[v].body = Last(v)
                     /\ Deleted(v) => /\ Parent(v) \in Rows
                                      /\ ~Deleted(Parent(v))
  /\ head = NoVersion => Rows = {}

\* A text that was read from version v, or cleaned of its secrets.
Fits(v, t) == vers[v].purged \/ t \in {Last(v), Clean[Last(v)]}
FitsClean(v, t) == vers[v].purged \/ t = Clean[Last(v)]

\* What the legs hold, or are about to.
FtsFits == \A v \in DOMAIN fts : v \in Rows /\ Fits(v, fts[v])
VectorsFit == \A v \in DOMAIN vectors : v \in Rows /\ FitsClean(v, vectors[v])
ScanFits == scan # Nothing => scan.version \in Rows /\ Fits(scan.version, scan.text)
RunFits == run # Nothing => run.version \in Rows /\ FitsClean(run.version, run.text)
Legs == FtsFits /\ VectorsFit /\ ScanFits /\ RunFits

\* What a user is in the middle of: a delete or a recovery is of a version that
\* is not a tombstone, what is to be indexed is the version's own text, and a
\* conflict's text is in its draft.
Desk(u) ==
  /\ pc[u] # "idle" => mem[u].version \in Rows
  /\ pc[u] \in {"deleting", "recovering"} => ~Deleted(mem[u].version)
  /\ pc[u] = "indexing" =>
       /\ mem[u].text \in Bodies
       /\ vers[mem[u].version].purged \/ mem[u].text = Last(mem[u].version)
  /\ pc[u] \notin {"conflict", "indexing"} => mem[u].draft = 0
  /\ pc[u] = "conflict" => /\ mem[u].draft \in Drafts /\ mem[u].text \in Texts
                           /\ drafts[mem[u].draft] = mem[u].text
  /\ mem[u].draft \in Drafts => drafts[mem[u].draft] # NoText

\* No two conflicts have one draft.
Apart == \A u, w \in Users : u # w /\ mem[u].draft = mem[w].draft => mem[u].draft = 0

NotesInv == TypeOK /\ Chain /\ Legs /\ (\A u \in Users : Desk(u)) /\ Apart

-----------------------------------------------------------------------------
(* Versions and tables *)

LEMMA Constants ==
  /\ Marker \notin Texts /\ NoText \notin Bodies /\ Marker \in Bodies
  /\ Texts \subseteq Bodies /\ Clean[Marker] = Marker
  /\ 0 \notin Drafts /\ MaxEvents \in Nat
  BY NotesAssumption DEF Bodies

\* Under a version hangs its child: a longer chain, with the same ancestors.
LEMMA ChildOf ==
  ASSUME NEW h \in Seq(Bodies), NEW b \in Bodies
  PROVE  LET v == Append(h, b) IN
         /\ v \in Seq(Bodies) \ {NoVersion} /\ v # h
         /\ Parent(v) = h /\ Last(v) = b
         /\ \A n \in 1..Len(v) :
              SubSeq(v, 1, n) = IF n = Len(v) THEN v ELSE SubSeq(h, 1, n)
<1> DEFINE v == Append(h, b)
<1>1. /\ v \in Seq(Bodies) /\ v # <<>> /\ Len(v) = Len(h) + 1 /\ Len(h) \in Nat
      /\ \A i \in 1..Len(h) : v[i] = h[i]
      /\ v[Len(h) + 1] = b
  BY AppendProperties, LenProperties
<1>2. Last(v) = b
  BY <1>1 DEF Last
<1>3. SubSeq(v, 1, Len(v)) = v /\ SubSeq(h, 1, Len(h)) = h
  BY <1>1, SubSeqFull
<1>4. ASSUME NEW n \in 1..Len(h) PROVE SubSeq(v, 1, n) = SubSeq(h, 1, n)
  <2>1. v = h \o <<b>> /\ <<b>> \in Seq(Bodies)
    BY AppendIsConcat
  <2>2. 1 \in 1..Len(h) /\ n \in 1..Len(h)
    BY <1>1
  <2> QED
    BY <2>1, <2>2, SubSeqOfConcat1
<1>5. Parent(v) = h
  <2>1. CASE Len(h) = 0
    <3>1. h = <<>>
      BY <2>1, EmptySeq
    <3>2. SubSeq(v, 1, 0) = <<>>
      BY SubSeqEmpty
    <3> QED
      BY <1>1, <2>1, <3>1, <3>2 DEF Parent
  <2>2. CASE Len(h) # 0
    <3>1. Len(h) \in 1..Len(h) /\ Len(v) - 1 = Len(h)
      BY <1>1, <2>2
    <3> QED
      BY <1>3, <1>4, <3>1 DEF Parent
  <2> QED
    BY <2>1, <2>2
<1>6. v # h
  BY <1>1
<1>7. \A n \in 1..Len(v) : n = Len(v) \/ n \in 1..Len(h)
  BY <1>1
<1>8. \A n \in 1..Len(v) :
        SubSeq(v, 1, n) = IF n = Len(v) THEN v ELSE SubSeq(h, 1, n)
  BY <1>3, <1>4, <1>7
<1> QED
  BY <1>1, <1>2, <1>5, <1>6, <1>8 DEF NoVersion

\* The versions table is only ever added to, and what is purged stays so.
Grows ==
  /\ Rows \subseteq Rows'
  /\ \A v \in Rows : vers'[v].op = vers[v].op
                     /\ (vers[v].purged => vers'[v].purged)

LEMMA GrowsFits ==
  ASSUME Grows, NEW v \in Rows, NEW t
  PROVE  (Fits(v, t) => Fits(v, t)') /\ (FitsClean(v, t) => FitsClean(v, t)')
  BY DEF Grows, Fits, FitsClean

\* ... so whoever read it before still holds what it says.
LEMMA StillFits ==
  ASSUME TypeOK, Legs, Grows
  PROVE  /\ fts' = fts => FtsFits'
         /\ vectors' = vectors => VectorsFit'
         /\ scan' = scan => ScanFits'
         /\ run' = run => RunFits'
<1>1. ASSUME NEW v \in Rows, NEW t
      PROVE  /\ v \in Rows' /\ (Fits(v, t) => Fits(v, t)')
             /\ FitsClean(v, t) => FitsClean(v, t)'
  BY GrowsFits DEF Grows
<1>2. fts' = fts => FtsFits'
  BY <1>1 DEF Legs, FtsFits, Fits
<1>3. vectors' = vectors => VectorsFit'
  BY <1>1 DEF Legs, VectorsFit, FitsClean
<1>4. scan' = scan => ScanFits'
  BY <1>1 DEF Legs, ScanFits, Fits, Nothing, NoVersion
<1>5. run' = run => RunFits'
  BY <1>1 DEF Legs, RunFits, FitsClean, Nothing, NoVersion
<1> QED
  BY <1>2, <1>3, <1>4, <1>5

LEMMA StillAtDesk ==
  ASSUME TypeOK, Grows, NEW u \in Users, Desk(u),
         pc'[u] = pc[u], mem'[u] = mem[u],
         mem[u].draft \in Drafts => drafts'[mem[u].draft] = drafts[mem[u].draft]
  PROVE  Desk(u)'
  BY DEF Desk, Grows, Deleted

\* A new version under the head, or the first.
LEMMA Adds ==
  ASSUME TypeOK, Chain, NEW h \in Rows \cup {NoVersion}, NEW b \in Bodies,
         NEW op \in {"create", "update", "delete"},
         op = "delete" => h \in Rows /\ ~Deleted(h),
         head' = Append(h, b), head' \notin Rows, vers' = Written(head', op, b)
  PROVE  /\ Grows /\ Chain' /\ Rows' = Rows \cup {head'}
         /\ Last(head') = b /\ head' # h
         /\ \A w \in Rows' : vers'[w] \in [op : {"create", "update", "delete"},
                                           body : Bodies, purged : BOOLEAN]
<1> DEFINE v == head'
<1>1. h \in Seq(Bodies)
  BY EmptySeq DEF Chain, NoVersion
<1>2. /\ v \in Seq(Bodies) \ {NoVersion} /\ v # h /\ Parent(v) = h /\ Last(v) = b
      /\ \A n \in 1..Len(v) :
           SubSeq(v, 1, n) = IF n = Len(v) THEN v ELSE SubSeq(h, 1, n)
  BY <1>1, ChildOf
<1>3. /\ Rows' = Rows \cup {v} /\ vers'[v] = Row(op, b)
      /\ \A w \in Rows : vers'[w] = vers[w]
  <2>1. vers' = With(vers, v, Row(op, b))
    BY DEF Written
  <2>2. /\ DOMAIN vers' = DOMAIN vers \cup {v} /\ vers'[v] = Row(op, b)
        /\ \A w \in DOMAIN vers : w # v => vers'[w] = vers[w]
    BY <2>1 DEF With
  <2> QED
    BY <2>2 DEF Rows
<1>4. Row(op, b) \in [op : {"create", "update", "delete"},
                      body : Bodies, purged : BOOLEAN]
      /\ Row(op, b).body = b /\ Row(op, b).op = op /\ Row(op, b).purged = FALSE
  BY DEF Row
<1>5. Grows
  BY <1>3 DEF Grows
<1>6. ASSUME NEW n \in 1..Len(v) PROVE SubSeq(v, 1, n) \in Rows'
  <2>1. CASE n = Len(v)
    BY <1>2, <1>3, <2>1
  <2>2. CASE n # Len(v)
    <3>1. h # <<>> /\ n \in 1..Len(h)
      <4>1. Len(v) = Len(h) + 1 /\ Len(h) \in Nat
        BY <1>1, AppendProperties, LenProperties
      <4>2. n \in 1..Len(h)
        BY <2>2, <4>1
      <4> QED
        BY <4>2, EmptySeq
    <3>2. h \in Rows
      BY <3>1 DEF NoVersion
    <3> QED
      BY <1>2, <1>3, <2>2, <3>1, <3>2 DEF Chain
  <2> QED
    BY <2>1, <2>2
<1>7. ASSUME NEW w \in Rows'
      PROVE  /\ w \in Seq(Bodies) \ {NoVersion}
             /\ \A n \in 1..Len(w) : SubSeq(w, 1, n) \in Rows'
             /\ vers'[w].purged \/ vers'[w].body = Last(w)
             /\ vers'[w].op = "delete" =>
                  Parent(w) \in Rows' /\ vers'[Parent(w)].op # "delete"
  <2>1. CASE w = v
    BY <1>2, <1>3, <1>4, <1>6, <2>1 DEF Deleted
  <2>2. CASE w \in Rows
    BY <1>3, <2>2 DEF Chain, Deleted
  <2> QED
    BY <1>3, <2>1, <2>2
<1>8. Chain'
  BY <1>2, <1>7 DEF Chain, Deleted, Parent, Last
<1> QED
  BY <1>2, <1>3, <1>4, <1>5, <1>8 DEF TypeOK

-----------------------------------------------------------------------------
(* What the steps have in common *)

Pcs == {"idle", "editing", "conflict", "indexing", "deleting", "evicting",
        "recovering"}
Memory == [version : Rows \cup {NoVersion}, text : Bodies \cup {NoText},
           draft : Drafts \cup {0}]
RowsTyped == \A v \in Rows : vers[v] \in [op : {"create", "update", "delete"},
                                          body : Bodies, purged : BOOLEAN]

\* What of the type invariant a growing versions table leaves as it was.
LEMMA TypesGrow ==
  ASSUME TypeOK, Rows \subseteq Rows'
  PROVE  /\ fts' = fts => \A v \in DOMAIN fts' : v \in Rows' /\ fts'[v] \in Indexable
         /\ job' = job => DOMAIN job' \subseteq Rows'
         /\ vectors' = vectors => DOMAIN vectors' \subseteq Rows'
         /\ dropped' = dropped => dropped' \subseteq Rows'
         /\ Memory \subseteq Memory'
         /\ scan' = scan => scan' \in [version : Rows' \cup {NoVersion}, text : Indexable]
         /\ run' = run => run' \in [version : Rows' \cup {NoVersion}, text : Indexable]
<1>1. [version : Rows \cup {NoVersion}, text : Indexable]
        \subseteq [version : Rows' \cup {NoVersion}, text : Indexable]
  OBVIOUS
<1>2. Memory \subseteq Memory'
  BY DEF Memory
<1> QED
  BY <1>1, <1>2 DEF TypeOK

\* A user's step at a desk of its own leaves the others at theirs.
LEMMA OthersStay ==
  ASSUME NotesInv, Grows, NEW u \in Users, NEW to \in Pcs, NEW m \in Memory',
         Moves(u, to, m),
         \A d \in Drafts : drafts'[d] = drafts[d] \/ d = mem[u].draft
                           \/ drafts[d] = NoText,
         m.draft \in {0, mem[u].draft} \/ drafts[m.draft] = NoText
  PROVE  /\ pc' \in [Users -> Pcs] /\ mem' \in [Users -> Memory']
         /\ pc'[u] = to /\ mem'[u] = m
         /\ \A w \in Users \ {u} : Desk(w)'
         /\ Apart'
<1>1. TypeOK /\ (\A w \in Users : Desk(w)) /\ Apart
  BY DEF NotesInv
<1>2. pc \in [Users -> Pcs] /\ mem \in [Users -> Memory] /\ Memory \subseteq Memory'
  BY <1>1, TypesGrow DEF TypeOK, Pcs, Memory, Grows
<1>3. /\ pc' \in [Users -> Pcs] /\ mem' \in [Users -> Memory']
      /\ pc'[u] = to /\ mem'[u] = m
      /\ \A w \in Users \ {u} : pc'[w] = pc[w] /\ mem'[w] = mem[w]
  BY <1>2 DEF Moves
<1>4. ASSUME NEW w \in Users \ {u} PROVE Desk(w)'
  <2>1. ASSUME mem[w].draft \in Drafts
        PROVE  drafts'[mem[w].draft] = drafts[mem[w].draft]
    <3>1. drafts[mem[w].draft] # NoText
      BY <1>1, <2>1 DEF Desk
    <3>2. mem[w].draft # mem[u].draft
      BY <1>1, <2>1, Constants DEF Apart
    <3> QED
      BY <2>1, <3>1, <3>2
  <2> QED
    BY <1>1, <1>3, <2>1, StillAtDesk
<1>5. ASSUME NEW w \in Users \ {u}, mem[w].draft = m.draft PROVE m.draft = 0
  <2>1. mem[w].draft \in Drafts \cup {0}
    BY <1>2 DEF Memory
  <2>2. mem[w].draft \in Drafts => drafts[mem[w].draft] # NoText
    BY <1>1 DEF Desk
  <2> QED
    BY <1>1, <1>5, <2>1, <2>2 DEF Apart
<1>6. Apart'
  <2> SUFFICES ASSUME NEW w \in Users, NEW x \in Users, w # x,
                      mem'[w].draft = mem'[x].draft
               PROVE  mem'[w].draft = 0
    BY DEF Apart
  <2>1. CASE w = u
    BY <1>3, <1>5, <2>1
  <2>2. CASE x = u
    BY <1>3, <1>5, <2>2
  <2>3. CASE w # u /\ x # u
    BY <1>1, <1>3, <2>3 DEF Apart
  <2> QED
    BY <2>1, <2>2, <2>3
<1> QED
  BY <1>3, <1>4, <1>6

\* The parts of NotesInv after a step.
LEMMA Assembled ==
  ASSUME RowsTyped', (head \in Rows \cup {NoVersion})',
         (\A v \in DOMAIN fts : v \in Rows /\ fts[v] \in Indexable)',
         (DOMAIN job \subseteq Rows)', (DOMAIN vectors \subseteq Rows)',
         (dropped \subseteq Rows)',
         pc' \in [Users -> Pcs], mem' \in [Users -> Memory'],
         drafts' \in [Drafts -> Texts \cup {NoText}],
         scan' \in [version : Rows' \cup {NoVersion}, text : Indexable],
         run' \in [version : Rows' \cup {NoVersion}, text : Indexable],
         events' \in Nat,
         Chain', FtsFits', VectorsFit', ScanFits', RunFits',
         \A u \in Users : Desk(u)', Apart'
  PROVE  NotesInv'
<1>1. TypeOK'
  BY DEF TypeOK, RowsTyped, Pcs, Memory
<1> QED
  BY <1>1 DEF NotesInv, Legs

\* A user's step that leaves the tables alone.
LEMMA AtOneDesk ==
  ASSUME NotesInv, NEW u \in Users, NEW to \in Pcs, NEW m \in Memory,
         Moves(u, to, m),
         vers' = vers, fts' = fts, scan' = scan, job' = job, vectors' = vectors,
         run' = run, dropped' = dropped,
         head' = head \/ head' \in Rows, events' \in Nat,
         drafts' \in [Drafts -> Texts \cup {NoText}],
         \A d \in Drafts : drafts'[d] = drafts[d] \/ d = mem[u].draft
                           \/ drafts[d] = NoText,
         m.draft \in {0, mem[u].draft} \/ drafts[m.draft] = NoText,
         pc'[u] = to /\ mem'[u] = m => Desk(u)'
  PROVE  NotesInv'
<1>1. TypeOK /\ Chain /\ Legs /\ (\A w \in Users : Desk(w)) /\ Apart
  BY DEF NotesInv
<1>2. Grows /\ Rows' = Rows /\ Memory' = Memory
  BY DEF Grows, Rows, Memory
<1>3. /\ pc' \in [Users -> Pcs] /\ mem' \in [Users -> Memory']
      /\ pc'[u] = to /\ mem'[u] = m
      /\ \A w \in Users \ {u} : Desk(w)'
      /\ Apart'
  BY <1>2, OthersStay
<1>4. \A w \in Users : Desk(w)'
  BY <1>3
<1>5. Chain'
  BY <1>1, <1>2 DEF Chain, Deleted
<1>6. FtsFits' /\ VectorsFit' /\ ScanFits' /\ RunFits'
  BY <1>1, <1>2, StillFits
<1>7. RowsTyped' /\ head' \in Rows' \cup {NoVersion}
  BY <1>1, <1>2 DEF TypeOK, RowsTyped
<1>8. /\ \A v \in DOMAIN fts' : v \in Rows' /\ fts'[v] \in Indexable
      /\ DOMAIN job' \subseteq Rows' /\ DOMAIN vectors' \subseteq Rows'
      /\ dropped' \subseteq Rows'
      /\ scan' \in [version : Rows' \cup {NoVersion}, text : Indexable]
      /\ run' \in [version : Rows' \cup {NoVersion}, text : Indexable]
  BY <1>1, <1>2, TypesGrow
<1> QED
  BY <1>3, <1>4, <1>5, <1>6, <1>7, <1>8, Assembled

\* What the process remembers once it has read a version.
LEMMA Remembers ==
  ASSUME NEW v \in Rows
  PROVE  /\ [Forgot EXCEPT !.version = v] \in Memory /\ Forgot \in Memory
         /\ [Forgot EXCEPT !.version = v].version = v
         /\ [Forgot EXCEPT !.version = v].draft = 0
         /\ Forgot.draft = 0
  BY DEF Forgot, Memory

-----------------------------------------------------------------------------
(* The steps of the users *)

LEMMA InitNotesInv == Init => NotesInv
<1> SUFFICES ASSUME Init PROVE NotesInv
  OBVIOUS
<1> USE DEF Init, NoVersion
<1>1. Rows = {} /\ DOMAIN fts = {} /\ DOMAIN job = {} /\ DOMAIN vectors = {}
  BY EmptySeq DEF Rows
<1>2. Forgot \in Memory
  BY DEF Forgot, Memory
<1>3. TypeOK
  <2>1. mem \in [Users -> Memory]
    BY <1>2
  <2>2. {scan, run} \subseteq [version : Rows \cup {NoVersion}, text : Indexable]
    BY DEF Nothing, Indexable
  <2> QED
    BY <1>1, <2>1, <2>2 DEF TypeOK, Memory
<1>4. Chain /\ Legs
  BY <1>1 DEF Chain, Legs, FtsFits, VectorsFit, ScanFits, RunFits
<1>5. \A u \in Users : Desk(u)
  BY Constants DEF Desk, Forgot
<1>6. Apart
  BY DEF Apart, Forgot
<1> QED
  BY <1>3, <1>4, <1>5, <1>6 DEF NotesInv

\* The steps in which a user's process reads the head, or forgets what it held.
LEMMA ReadsKeep ==
  ASSUME NotesInv, NEW u \in Users, NEW b,
         LoadHead(u) \/ BrowseHead(u) \/ LookUp(u) \/ Crash(u) \/ DeleteRejected(u)
           \/ SaveCollides(u, b)
  PROVE  NotesInv'
<1> USE DEF embedding
<1>1. TypeOK /\ Chain /\ (\A w \in Users : Desk(w))
  BY DEF NotesInv
<1>2. /\ vers' = vers /\ fts' = fts /\ scan' = scan /\ job' = job
      /\ vectors' = vectors /\ run' = run /\ dropped' = dropped
      /\ head' = head /\ drafts' = drafts
  BY DEF LoadHead, BrowseHead, LookUp, Crash, DeleteRejected, SaveCollides
<1>3. events' \in Nat
  <2>1. events' = events \/ events' = events + 1
    BY DEF LoadHead, BrowseHead, LookUp, Crash, DeleteRejected, SaveCollides, Begins
  <2> QED
    BY <1>1, <2>1 DEF TypeOK
<1>4. drafts' \in [Drafts -> Texts \cup {NoText}]
  BY <1>1, <1>2 DEF TypeOK
<1>5. CASE LoadHead(u) \/ BrowseHead(u) \/ LookUp(u)
  <2>1. PICK v \in Rows, to \in {"editing", "deleting", "recovering"} :
          /\ Moves(u, to, [Forgot EXCEPT !.version = v])
          /\ to \in {"deleting", "recovering"} => ~Deleted(v)
    <3>1. CASE LoadHead(u)
      BY <1>1, <3>1 DEF LoadHead, Live, Exists, TypeOK
    <3>2. CASE BrowseHead(u)
      BY <1>1, <3>2 DEF BrowseHead, Live, Exists, TypeOK
    <3>3. CASE LookUp(u)
      <4>1. head \in Rows /\ Deleted(head)
        BY <1>1, <3>3 DEF LookUp, Exists, TypeOK
      <4>2. Parent(head) \in Rows /\ ~Deleted(Parent(head))
        BY <1>1, <4>1 DEF Chain
      <4> QED
        BY <3>3, <4>2 DEF LookUp, RecoveryTarget
    <3> QED
      BY <1>5, <3>1, <3>2, <3>3
  <2> DEFINE m == [Forgot EXCEPT !.version = v]
  <2>2. m \in Memory /\ m.version = v /\ m.draft = 0
    BY Remembers
  <2>3. Moves(u, to, m)
    BY <2>1
  <2> HIDE DEF m
  <2>4. pc'[u] = to /\ mem'[u] = m => Desk(u)'
    BY <1>2, <2>1, <2>2, Constants DEF Desk, Deleted, Rows
  <2>5. to \in Pcs
    BY DEF Pcs
  <2> QED
    BY <1>2, <1>3, <1>4, <2>2, <2>3, <2>4, <2>5, AtOneDesk
<1>6. CASE Crash(u) \/ DeleteRejected(u) \/ SaveCollides(u, b)
  <2>1. Moves(u, "idle", Forgot)
    BY <1>6 DEF Crash, DeleteRejected, SaveCollides, Done
  <2>2. Forgot \in Memory /\ Forgot.draft = 0
    BY DEF Forgot, Memory
  <2>3. pc'[u] = "idle" /\ mem'[u] = Forgot => Desk(u)'
    BY <2>2, Constants DEF Desk
  <2>4. "idle" \in Pcs
    BY DEF Pcs
  <2> QED
    BY <1>2, <1>3, <1>4, <2>1, <2>2, <2>3, <2>4, AtOneDesk
<1> QED
  BY <1>5, <1>6

\* A save that writes no row, and a discard: the draft goes with the conflict.
LEMMA ReleasesKeep ==
  ASSUME NotesInv, NEW u \in Users, NEW b,
         SaveDeduped(u, b) \/ Discard(u)
  PROVE  NotesInv'
<1> USE DEF embedding
<1>1. TypeOK /\ (\A w \in Users : Desk(w))
  BY DEF NotesInv
<1>2. /\ vers' = vers /\ fts' = fts /\ scan' = scan /\ job' = job
      /\ vectors' = vectors /\ run' = run /\ dropped' = dropped
      /\ head' = head /\ drafts' = Released(u) /\ events' = events
      /\ Moves(u, "idle", Forgot)
  BY DEF SaveDeduped, Discard, Done
<1>3. /\ drafts' \in [Drafts -> Texts \cup {NoText}]
      /\ \A d \in Drafts : drafts'[d] = drafts[d] \/ d = mem[u].draft
  BY <1>1, <1>2 DEF Released, TypeOK
<1>4. Forgot \in Memory /\ Forgot.draft = 0 /\ events' \in Nat
  BY <1>1, <1>2 DEF Forgot, Memory, TypeOK
<1>5. pc'[u] = "idle" /\ mem'[u] = Forgot => Desk(u)'
  BY <1>4, Constants DEF Desk
<1>6. "idle" \in Pcs
  BY DEF Pcs
<1> QED
  BY <1>2, <1>3, <1>4, <1>5, <1>6, AtOneDesk

\* A rejected text goes to a draft that is nobody's.
LEMMA SaveRejectedKeeps ==
  ASSUME NotesInv, NEW u \in Users, NEW b \in Texts, SaveRejected(u, b)
  PROVE  NotesInv'
<1> USE DEF embedding, SaveRejected
<1>1. TypeOK /\ Chain /\ (\A w \in Users : Desk(w))
  BY DEF NotesInv
<1>2. PICK d \in FreeDrafts :
        /\ drafts' = [Released(u) EXCEPT ![d] = b]
        /\ Moves(u, "conflict", [version |-> head, text |-> b, draft |-> d])
  OBVIOUS
<1>3. d \in Drafts /\ drafts[d] = NoText
  BY DEF FreeDrafts
<1>4. /\ drafts' \in [Drafts -> Texts \cup {NoText}] /\ drafts'[d] = b
      /\ \A e \in Drafts : drafts'[e] = drafts[e] \/ e = mem[u].draft
                           \/ drafts[e] = NoText
  BY <1>1, <1>2, <1>3 DEF Released, TypeOK
<1> DEFINE m == [version |-> head, text |-> b, draft |-> d]
<1>5. m \in Memory /\ m.version = head /\ m.text = b /\ m.draft = d
  BY <1>1, <1>3, Constants DEF Memory, TypeOK
<1>6. Moves(u, "conflict", m)
  BY <1>2
<1>7. head \in Rows
  <2>1. mem[u].version \in Rows
    BY <1>1 DEF Submits, Desk
  <2> QED
    BY <1>1, <2>1 DEF Chain, TypeOK
<1> HIDE DEF m
<1>8. pc'[u] = "conflict" /\ mem'[u] = m => Desk(u)'
  BY <1>3, <1>4, <1>5, <1>7, Constants DEF Desk, Rows, Bodies
<1>9. "conflict" \in Pcs /\ events' \in Nat
  BY <1>1 DEF Pcs, TypeOK
<1> QED
  BY <1>3, <1>4, <1>5, <1>6, <1>8, <1>9, AtOneDesk

\* A recovery makes an older version current again.
LEMMA RecoverKeeps ==
  ASSUME NotesInv, NEW u \in Users, Recover(u)
  PROVE  NotesInv'
<1> USE DEF embedding, Recover
<1>1. TypeOK /\ Chain /\ (\A w \in Users : Desk(w))
  BY DEF NotesInv
<1> DEFINE v == mem[u].version
           t == Text(v)
           m == [mem[u] EXCEPT !.text = t]
<1>2. /\ v \in Rows /\ head' = v /\ t \in Bodies /\ mem[u] \in Memory
      /\ vers[v].purged \/ t = Last(v)
  BY <1>1 DEF Chain, Text, TypeOK, Memory
<1>3. mem[u].draft = 0
  BY <1>1 DEF Desk
<1>4. Moves(u, "indexing", m)
  OBVIOUS
<1> HIDE DEF t
<1>5. m \in Memory /\ m.version = v /\ m.text = t /\ m.draft = 0
  BY <1>2, <1>3, Zenon DEF Memory
<1> HIDE DEF m, v
<1>6. pc'[u] = "indexing" /\ mem'[u] = m => Desk(u)'
  BY <1>2, <1>5, Constants DEF Desk, Rows
<1>7. "indexing" \in Pcs /\ events' \in Nat /\ drafts' \in [Drafts -> Texts \cup {NoText}]
  BY <1>1 DEF Pcs, TypeOK
<1> QED
  BY <1>2, <1>4, <1>5, <1>6, <1>7, AtOneDesk

\* The cache write of what was committed, however late.
LEMMA IndexSavedKeeps ==
  ASSUME NotesInv, NEW u \in Users, IndexSaved(u)
  PROVE  NotesInv'
<1> USE DEF embedding, IndexSaved
<1>1. TypeOK /\ Chain /\ Legs /\ (\A w \in Users : Desk(w))
  BY DEF NotesInv
<1>2. Grows /\ Rows' = Rows /\ Memory' = Memory
  BY DEF Grows, Rows, Memory
<1> DEFINE v == mem[u].version
           t == Clean[mem[u].text]
<1>3. v \in Rows /\ t \in Indexable /\ Fits(v, t)
  BY <1>1 DEF Desk, Indexable, Fits
<1>4. fts' = With(fts, v, t) /\ drafts' = Released(u) /\ Moves(u, "idle", Forgot)
  BY DEF Indexes, Done
<1>5. /\ drafts' \in [Drafts -> Texts \cup {NoText}]
      /\ \A d \in Drafts : drafts'[d] = drafts[d] \/ d = mem[u].draft
  BY <1>1, <1>4 DEF Released, TypeOK
<1> HIDE DEF v, t
<1>6. Forgot \in Memory /\ Forgot.draft = 0 /\ "idle" \in Pcs
  BY DEF Forgot, Memory, Pcs
<1>7. /\ pc' \in [Users -> Pcs] /\ mem' \in [Users -> Memory']
      /\ pc'[u] = "idle" /\ mem'[u] = Forgot
      /\ \A w \in Users \ {u} : Desk(w)'
      /\ Apart'
  BY <1>2, <1>4, <1>5, <1>6, OthersStay
<1>8. \A w \in Users : Desk(w)'
  BY <1>6, <1>7, Constants DEF Desk
<1>9. /\ \A w \in DOMAIN fts' : w \in Rows' /\ fts'[w] \in Indexable
      /\ FtsFits'
  <2>1. \A w \in DOMAIN fts' : \/ w = v /\ fts'[w] = t
                               \/ w \in DOMAIN fts /\ fts'[w] = fts[w]
    BY <1>4 DEF With
  <2> QED
    BY <1>1, <1>2, <1>3, <2>1 DEF TypeOK, Legs, FtsFits, Fits
<1>10. VectorsFit' /\ ScanFits' /\ RunFits'
  BY <1>1, <1>2, StillFits
<1>11. Chain' /\ RowsTyped' /\ head' \in Rows' \cup {NoVersion}
  BY <1>1, <1>2 DEF Chain, Deleted, TypeOK, RowsTyped
<1>12. /\ DOMAIN job' \subseteq Rows' /\ DOMAIN vectors' \subseteq Rows'
       /\ dropped' \subseteq Rows' /\ events' \in Nat
       /\ scan' \in [version : Rows' \cup {NoVersion}, text : Indexable]
       /\ run' \in [version : Rows' \cup {NoVersion}, text : Indexable]
  BY <1>1, <1>2, TypesGrow DEF TypeOK
<1> QED
  BY <1>5, <1>7, <1>8, <1>9, <1>10, <1>11, <1>12, Assembled

\* A job for a version is a job of a row.
LEMMA EnqueuedRows ==
  ASSUME NEW v \in Rows, DOMAIN job \subseteq Rows
  PROVE  DOMAIN Enqueued(v) \subseteq Rows
  BY DEF Enqueued, With

\* A version that is written: at its user's desk it is still to be indexed.
LEMMA LandsKeep ==
  ASSUME NotesInv, NEW u \in Users, NEW b \in Texts,
         Create(u, b) \/ SaveLands(u, b)
  PROVE  NotesInv'
<1>1. TypeOK /\ Chain /\ Legs /\ (\A w \in Users : Desk(w))
  BY DEF NotesInv
<1>2. /\ fts' = fts /\ vectors' = vectors /\ drafts' = drafts /\ scan' = scan
      /\ run' = run /\ dropped' = dropped /\ events' = events
      /\ job' = Enqueued(head')
      /\ head' \notin Rows
      /\ \E op \in {"create", "update"} : vers' = Written(head', op, b)
      /\ head' = Append(head, b)
  <2>1. CASE Create(u, b)
    <3>1. head = <<>> /\ Rows = {}
      BY <1>1, <2>1 DEF Create, Exists, Chain, NoVersion
    <3>2. <<b>> = Append(<<>>, b)
      BY EmptySeq, AppendProperties, Constants
    <3> QED
      BY <2>1, <3>1, <3>2 DEF Create
  <2>2. CASE SaveLands(u, b)
    BY <2>2 DEF SaveLands
  <2> QED
    BY <2>1, <2>2
<1> DEFINE v == head'
           k == IF pc[u] = "idle" THEN 0 ELSE mem[u].draft
           m == [version |-> v, text |-> b, draft |-> k]
<1>3. Moves(u, "indexing", m)
  <2>1. CASE Create(u, b)
    BY <2>1 DEF Create
  <2>2. CASE SaveLands(u, b)
    BY <2>2 DEF SaveLands, Submits
  <2> QED
    BY <2>1, <2>2
<1>4. b \in Bodies /\ head \in Rows \cup {NoVersion}
  BY <1>1, Constants DEF TypeOK
<1>5. /\ Grows /\ Chain' /\ Rows' = Rows \cup {v}
      /\ Last(v) = b
      /\ \A w \in Rows' : vers'[w] \in [op : {"create", "update", "delete"},
                                        body : Bodies, purged : BOOLEAN]
  BY <1>1, <1>2, <1>4, Adds
<1>6. k \in {0, mem[u].draft} /\ k \in Drafts \cup {0}
  BY <1>1 DEF TypeOK
<1> HIDE DEF k
<1>7. m \in Memory' /\ m.version = v /\ m.text = b /\ m.draft = k
  BY <1>4, <1>5, <1>6 DEF Memory
<1> HIDE DEF m
<1>8. "indexing" \in Pcs
  BY DEF Pcs
<1>9. /\ pc' \in [Users -> Pcs] /\ mem' \in [Users -> Memory']
      /\ pc'[u] = "indexing" /\ mem'[u] = m
      /\ \A w \in Users \ {u} : Desk(w)'
      /\ Apart'
  BY <1>2, <1>3, <1>5, <1>6, <1>7, <1>8, OthersStay
<1>10. Desk(u)'
  <2>1. k \in Drafts => drafts[k] # NoText
    BY <1>1, <1>6, Constants DEF Desk
  <2> QED
    BY <1>2, <1>4, <1>5, <1>7, <1>9, <2>1 DEF Desk
<1>11. FtsFits' /\ VectorsFit' /\ ScanFits' /\ RunFits'
  BY <1>1, <1>2, <1>5, StillFits
<1>12. /\ \A w \in DOMAIN fts' : w \in Rows' /\ fts'[w] \in Indexable
       /\ DOMAIN vectors' \subseteq Rows' /\ dropped' \subseteq Rows'
       /\ scan' \in [version : Rows' \cup {NoVersion}, text : Indexable]
       /\ run' \in [version : Rows' \cup {NoVersion}, text : Indexable]
  BY <1>1, <1>2, <1>5, TypesGrow
<1>13. DOMAIN job' \subseteq Rows'
  BY <1>1, <1>2, <1>5 DEF Enqueued, With, TypeOK
<1>14. drafts' \in [Drafts -> Texts \cup {NoText}] /\ events' \in Nat
       /\ head' \in Rows' \cup {NoVersion}
  BY <1>1, <1>2, <1>5 DEF TypeOK
<1>15. RowsTyped'
  BY <1>5 DEF RowsTyped
<1> QED
  BY <1>5, <1>9, <1>10, <1>11, <1>12, <1>13, <1>14, <1>15, Assembled

\* A tombstone under a head that is none, or one that is there already.
LEMMA DeleteKeeps ==
  ASSUME NotesInv, NEW u \in Users, Delete(u)
  PROVE  NotesInv'
<1> USE DEF embedding
<1>1. TypeOK /\ Chain /\ Legs /\ (\A w \in Users : Desk(w))
  BY DEF NotesInv
<1>2. /\ head \in Rows /\ ~Deleted(head)
      /\ head' = Append(head, Text(head)) /\ vers' = WithTombstone(head', Text(head))
      /\ fts' = fts /\ vectors' = vectors /\ drafts' = drafts /\ scan' = scan
      /\ run' = run /\ dropped' = dropped /\ events' = events /\ job' = job
      /\ Moves(u, "evicting", [Forgot EXCEPT !.version = head'])
  BY <1>1 DEF Delete, Desk, HoldsHead
<1>3. Text(head) \in Bodies
  BY <1>1, <1>2 DEF TypeOK, Text
<1>4. Grows /\ Chain' /\ head' \in Rows' /\ RowsTyped'
  <2>1. CASE head' \in Rows
    <3>1. vers' = vers /\ Rows' = Rows /\ head' # NoVersion
      BY <1>1, <1>2, <2>1 DEF WithTombstone, Rows, Chain
    <3>2. Chain'
      BY <1>1, <3>1 DEF Chain, Deleted
    <3> QED
      BY <1>1, <2>1, <3>1, <3>2 DEF Grows, RowsTyped, TypeOK
  <2>2. CASE head' \notin Rows
    <3>1. vers' = Written(head', "delete", Text(head))
      BY <1>2, <2>2 DEF WithTombstone
    <3>2. /\ Grows /\ Chain' /\ Rows' = Rows \cup {head'}
          /\ \A w \in Rows' : vers'[w] \in [op : {"create", "update", "delete"},
                                            body : Bodies, purged : BOOLEAN]
      BY <1>1, <1>2, <1>3, <2>2, <3>1, Adds
    <3> QED
      BY <3>2 DEF RowsTyped
  <2> QED
    BY <2>1, <2>2
<1>5. Rows \subseteq Rows'
  BY <1>4 DEF Grows
<1> DEFINE m == [Forgot EXCEPT !.version = head']
<1>6. m \in Memory' /\ m.version = head' /\ m.draft = 0 /\ "evicting" \in Pcs
  BY <1>4 DEF Forgot, Memory, Pcs
<1> HIDE DEF m
<1>7. /\ pc' \in [Users -> Pcs] /\ mem' \in [Users -> Memory']
      /\ pc'[u] = "evicting" /\ mem'[u] = m
      /\ \A w \in Users \ {u} : Desk(w)'
      /\ Apart'
  BY <1>2, <1>4, <1>6, OthersStay DEF m
<1>8. \A w \in Users : Desk(w)'
  BY <1>4, <1>6, <1>7, Constants DEF Desk
<1>9. FtsFits' /\ \A w \in DOMAIN fts' : w \in Rows' /\ fts'[w] \in Indexable
  BY <1>1, <1>2, <1>4, <1>5, StillFits, TypesGrow
<1>10. VectorsFit' /\ ScanFits' /\ RunFits'
  BY <1>1, <1>2, <1>4, StillFits
<1>11. /\ DOMAIN job' \subseteq Rows' /\ DOMAIN vectors' \subseteq Rows'
       /\ dropped' \subseteq Rows'
       /\ scan' \in [version : Rows' \cup {NoVersion}, text : Indexable]
       /\ run' \in [version : Rows' \cup {NoVersion}, text : Indexable]
  BY <1>1, <1>2, <1>5, TypesGrow
<1>12. drafts' \in [Drafts -> Texts \cup {NoText}] /\ events' \in Nat
       /\ head' \in Rows' \cup {NoVersion}
  BY <1>1, <1>2, <1>4 DEF TypeOK
<1> QED
  BY <1>4, <1>7, <1>8, <1>9, <1>10, <1>11, <1>12, Assembled

\* The tombstone's own index rows go.
LEMMA EvictKeeps ==
  ASSUME NotesInv, NEW u \in Users, Evict(u)
  PROVE  NotesInv'
<1> USE DEF embedding, Evict
<1>1. TypeOK /\ Chain /\ Legs /\ (\A w \in Users : Desk(w))
  BY DEF NotesInv
<1>2. Grows /\ Rows' = Rows /\ Memory' = Memory /\ Moves(u, "idle", Forgot)
  BY DEF Grows, Rows, Memory, Done
<1>3. Forgot \in Memory /\ Forgot.draft = 0 /\ "idle" \in Pcs
  BY DEF Forgot, Memory, Pcs
<1>4. /\ pc' \in [Users -> Pcs] /\ mem' \in [Users -> Memory']
      /\ pc'[u] = "idle" /\ mem'[u] = Forgot
      /\ \A w \in Users \ {u} : Desk(w)'
      /\ Apart'
  BY <1>2, <1>3, OthersStay
<1>5. \A w \in Users : Desk(w)'
  BY <1>3, <1>4, Constants DEF Desk
<1>6. FtsFits' /\ \A w \in DOMAIN fts' : w \in Rows' /\ fts'[w] \in Indexable
  <2>1. \A w \in DOMAIN fts' : w \in DOMAIN fts /\ fts'[w] = fts[w]
    OBVIOUS
  <2> QED
    BY <1>1, <1>2, <2>1 DEF TypeOK, Legs, FtsFits, Fits
<1>7. VectorsFit' /\ ScanFits' /\ RunFits'
  BY <1>1, <1>2, StillFits
<1>8. Chain' /\ RowsTyped' /\ head' \in Rows' \cup {NoVersion}
  BY <1>1, <1>2 DEF Chain, Deleted, TypeOK, RowsTyped
<1>9. /\ DOMAIN job' \subseteq Rows' /\ DOMAIN vectors' \subseteq Rows'
      /\ dropped' \subseteq Rows' /\ events' \in Nat
      /\ drafts' \in [Drafts -> Texts \cup {NoText}]
      /\ scan' \in [version : Rows' \cup {NoVersion}, text : Indexable]
      /\ run' \in [version : Rows' \cup {NoVersion}, text : Indexable]
  BY <1>1, <1>2, TypesGrow DEF TypeOK
<1> QED
  BY <1>4, <1>5, <1>6, <1>7, <1>8, <1>9, Assembled

-----------------------------------------------------------------------------
(* Purge, the worker and the scan *)

\* The steps that leave every user where it was.
LEMMA AtNoDesk ==
  ASSUME NotesInv, Grows, pc' = pc, mem' = mem, drafts' = drafts, head' = head,
         events' \in Nat, RowsTyped', Chain',
         (\A v \in DOMAIN fts : v \in Rows /\ fts[v] \in Indexable)', FtsFits',
         DOMAIN job' \subseteq Rows', DOMAIN vectors' \subseteq Rows', VectorsFit',
         dropped' \subseteq Rows',
         scan' \in [version : Rows' \cup {NoVersion}, text : Indexable], ScanFits',
         run' \in [version : Rows' \cup {NoVersion}, text : Indexable], RunFits'
  PROVE  NotesInv'
<1>1. TypeOK /\ (\A w \in Users : Desk(w)) /\ Apart
  BY DEF NotesInv
<1>2. \A w \in Users : Desk(w)'
  BY <1>1, StillAtDesk
<1>3. Apart'
  BY <1>1 DEF Apart
<1>4. Memory \subseteq Memory'
  BY <1>1, TypesGrow DEF Grows
<1>5. /\ pc' \in [Users -> Pcs] /\ mem' \in [Users -> Memory']
      /\ drafts' \in [Drafts -> Texts \cup {NoText}]
      /\ head' \in Rows' \cup {NoVersion}
  BY <1>1, <1>4 DEF TypeOK, Pcs, Memory, Grows
<1> QED
  BY <1>2, <1>3, <1>5, Assembled

LEMMA BeginsCounts == events \in Nat /\ (Begins \/ events' = events) => events' \in Nat
  BY DEF Begins

\* Every row of the chain is purged at once.
LEMMA PurgeKeeps ==
  ASSUME NotesInv, NEW u \in Users, Purge(u)
  PROVE  NotesInv'
<1> USE DEF Purge, user, embedding
<1>1. TypeOK /\ Chain /\ Legs
  BY DEF NotesInv
<1>2. ASSUME NEW v \in Rows
      PROVE  /\ vers'[v].op = vers[v].op /\ vers'[v].purged = TRUE
             /\ vers'[v] \in [op : {"create", "update", "delete"},
                              body : Bodies, purged : BOOLEAN]
  <2>1. vers'[v] = [vers[v] EXCEPT !.body = Marker, !.purged = TRUE]
    BY DEF PurgedRows
  <2>2. vers[v] \in [op : {"create", "update", "delete"}, body : Bodies,
                     purged : BOOLEAN]
    BY <1>1 DEF TypeOK
  <2>3. Marker \in Bodies /\ TRUE \in BOOLEAN
    BY Constants
  <2> QED
    BY <2>1, <2>2, <2>3, Zenon
<1>3. Rows' = Rows
  BY DEF PurgedRows, Rows
<1>4. Grows /\ RowsTyped'
  BY <1>2, <1>3 DEF Grows, RowsTyped
<1>5. Chain'
  BY <1>1, <1>2, <1>3 DEF Chain, Deleted
<1>6. FtsFits' /\ VectorsFit' /\ ScanFits' /\ RunFits'
  BY <1>1, <1>4, StillFits
<1>7. events' \in Nat
  BY <1>1, BeginsCounts DEF TypeOK
<1>8. /\ \A w \in DOMAIN fts' : w \in Rows' /\ fts'[w] \in Indexable
      /\ DOMAIN job' \subseteq Rows' /\ DOMAIN vectors' \subseteq Rows'
      /\ dropped' \subseteq Rows'
      /\ scan' \in [version : Rows' \cup {NoVersion}, text : Indexable]
      /\ run' \in [version : Rows' \cup {NoVersion}, text : Indexable]
  BY <1>1, <1>3, TypesGrow
<1> QED
  BY <1>4, <1>5, <1>6, <1>7, <1>8, AtNoDesk

\* The lexical leg: what a pass read of the head it writes later.
LEMMA ScanKeeps ==
  ASSUME NotesInv, GapRead \/ ReindexRead \/ ScanIndex
  PROVE  NotesInv'
<1> USE DEF user, embedding
<1>1. TypeOK /\ Chain /\ Legs
  BY DEF NotesInv
<1>2. /\ vers' = vers /\ head' = head /\ pc' = pc /\ mem' = mem /\ drafts' = drafts
      /\ job' = job /\ vectors' = vectors /\ run' = run /\ dropped' = dropped
      /\ Begins \/ events' = events
  BY DEF GapRead, ReindexRead, ScanIndex
<1>3. Grows /\ Rows' = Rows /\ RowsTyped' /\ events' \in Nat
  BY <1>1, <1>2, BeginsCounts DEF Grows, Rows, RowsTyped, TypeOK
<1>4. Chain'
  BY <1>1, <1>2, <1>3 DEF Chain, Deleted
<1>5. VectorsFit' /\ RunFits'
  BY <1>1, <1>2, <1>3, StillFits
<1>6. /\ DOMAIN job' \subseteq Rows' /\ DOMAIN vectors' \subseteq Rows'
      /\ dropped' \subseteq Rows'
      /\ run' \in [version : Rows' \cup {NoVersion}, text : Indexable]
  BY <1>1, <1>2, <1>3, TypesGrow
<1>7. /\ scan' \in [version : Rows' \cup {NoVersion}, text : Indexable] /\ ScanFits'
      /\ \A w \in DOMAIN fts' : w \in Rows' /\ fts'[w] \in Indexable
      /\ FtsFits'
  <2>1. CASE GapRead \/ ReindexRead
    <3>1. head \in Rows /\ fts' = fts /\ scan' = [version |-> head, text |-> Text(head)]
      BY <1>1, <2>1 DEF GapRead, ReindexRead, LexicalGap, Live, Exists, ReadsHead, TypeOK
    <3>2. Text(head) \in Indexable /\ Fits(head, Text(head))
      BY <1>1, <3>1 DEF TypeOK, Text, Indexable, Fits, Chain
    <3>3. FtsFits'
      BY <1>1, <1>3, <3>1, StillFits
    <3>4. Fits(head, Text(head))'
      BY <1>2, <3>2 DEF Fits, Text
    <3> QED
      BY <1>1, <1>2, <1>3, <3>1, <3>2, <3>3, <3>4 DEF TypeOK, ScanFits, Text
  <2>2. CASE ScanIndex
    <3>1. /\ scan.version \in Rows /\ Fits(scan.version, scan.text)
          /\ scan.text \in Indexable /\ scan' = Nothing
          /\ fts' = With(fts, scan.version, scan.text)
      BY <1>1, <2>2 DEF ScanIndex, Legs, ScanFits, TypeOK
    <3>2. \A w \in DOMAIN fts' : \/ w = scan.version /\ fts'[w] = scan.text
                                 \/ w \in DOMAIN fts /\ fts'[w] = fts[w]
      BY <3>1 DEF With
    <3>3. Nothing \in [version : Rows' \cup {NoVersion}, text : Indexable]
      BY DEF Nothing, Indexable
    <3>4. \A w \in DOMAIN fts' : w \in Rows' /\ fts'[w] \in Indexable
      BY <1>1, <1>3, <3>1, <3>2 DEF TypeOK
    <3>5. FtsFits'
      BY <1>1, <1>2, <1>3, <3>1, <3>2 DEF Legs, FtsFits, Fits
    <3> QED
      BY <3>1, <3>3, <3>4, <3>5 DEF ScanFits
  <2> QED
    BY <2>1, <2>2
<1> QED
  BY <1>2, <1>3, <1>4, <1>5, <1>6, <1>7, AtNoDesk

\* The semantic leg: what a run read of a version it writes later.
LEMMA EmbedKeeps ==
  ASSUME NotesInv,
         EmbedGap \/ Reembed \/ EmbedClaim \/ EmbedWrite \/ EmbedDone \/ EmbedFails
           \/ DropVectors
  PROVE  NotesInv'
<1> USE DEF user
<1>1. TypeOK /\ Chain /\ Legs
  BY DEF NotesInv
<1>2. /\ vers' = vers /\ head' = head /\ pc' = pc /\ mem' = mem /\ drafts' = drafts
      /\ fts' = fts /\ scan' = scan
      /\ Begins \/ events' = events
  BY DEF EmbedGap, Reembed, EmbedClaim, EmbedWrite, EmbedDone, EmbedFails, DropVectors
<1>3. Grows /\ Rows' = Rows /\ RowsTyped' /\ events' \in Nat
  BY <1>1, <1>2, BeginsCounts DEF Grows, Rows, RowsTyped, TypeOK
<1>4. Chain'
  BY <1>1, <1>2, <1>3 DEF Chain, Deleted
<1>5. FtsFits' /\ ScanFits'
  BY <1>1, <1>2, <1>3, StillFits
<1>6. /\ \A w \in DOMAIN fts' : w \in Rows' /\ fts'[w] \in Indexable
      /\ scan' \in [version : Rows' \cup {NoVersion}, text : Indexable]
  BY <1>1, <1>2, <1>3, TypesGrow
<1>7. Nothing \in [version : Rows' \cup {NoVersion}, text : Indexable]
  BY DEF Nothing, Indexable
<1>8. DOMAIN job' \subseteq Rows'
  <2>1. CASE EmbedGap \/ Reembed
    <3>1. head \in Rows /\ job' = Enqueued(head)
      BY <1>1, <2>1 DEF EmbedGap, Reembed, EmbedGapHead, Live, Exists, TypeOK
    <3> QED
      BY <1>1, <1>3, <3>1, EnqueuedRows DEF TypeOK
  <2>2. CASE EmbedClaim \/ EmbedDone \/ EmbedFails
    BY <1>1, <1>3, <2>2 DEF EmbedClaim, EmbedDone, EmbedFails, TypeOK
  <2>3. CASE EmbedWrite \/ DropVectors
    BY <1>1, <1>3, <2>3 DEF EmbedWrite, DropVectors, TypeOK
  <2> QED
    BY <2>1, <2>2, <2>3
<1>9. DOMAIN vectors' \subseteq Rows' /\ VectorsFit' /\ dropped' \subseteq Rows'
  <2>1. CASE EmbedWrite
    <3>1. /\ run.version \in Rows /\ FitsClean(run.version, run.text)
          /\ vectors' = With(vectors, run.version, run.text)
          /\ dropped' \subseteq dropped
      BY <1>1, <2>1 DEF EmbedWrite, Legs, RunFits
    <3>2. \A w \in DOMAIN vectors' : \/ w = run.version /\ vectors'[w] = run.text
                                     \/ w \in DOMAIN vectors /\ vectors'[w] = vectors[w]
      BY <3>1 DEF With
    <3> QED
      BY <1>1, <1>2, <1>3, <3>1, <3>2 DEF TypeOK, Legs, VectorsFit, FitsClean
  <2>2. CASE DropVectors
    <3>1. DOMAIN vectors' = {} /\ dropped' = dropped \cup DOMAIN vectors
      BY <2>2, EmptySeq DEF DropVectors
    <3> QED
      BY <1>1, <1>3, <3>1 DEF TypeOK, VectorsFit
  <2>3. CASE vectors' = vectors /\ dropped' = dropped
    <3>1. VectorsFit'
      BY <1>1, <1>3, <2>3, StillFits
    <3> QED
      BY <1>1, <1>3, <2>3, <3>1 DEF TypeOK
  <2> QED
    BY <2>1, <2>2, <2>3 DEF EmbedGap, Reembed, EmbedClaim, EmbedDone, EmbedFails
<1>10. run' \in [version : Rows' \cup {NoVersion}, text : Indexable] /\ RunFits'
  <2>1. CASE EmbedClaim
    <3>1. PICK v \in Rows : run' = [version |-> v, text |-> Clean[Text(v)]]
      BY <2>1 DEF EmbedClaim
    <3>2. Text(v) \in Bodies /\ FitsClean(v, Clean[Text(v)])
      BY <1>1 DEF TypeOK, Text, FitsClean, Chain
    <3>3. Clean[Text(v)] \in Indexable
      BY <3>2 DEF Indexable
    <3>4. run'.version = v /\ run'.text = Clean[Text(v)]
      BY <3>1
    <3>5. vers'[v].purged \/ Clean[Text(v)] = Clean[Last(v)]
      BY <1>2, <3>2 DEF FitsClean
    <3> QED
      BY <1>3, <3>1, <3>3, <3>4, <3>5 DEF RunFits, FitsClean
  <2>2. CASE EmbedDone \/ EmbedFails
    BY <1>7, <2>2 DEF EmbedDone, EmbedFails, RunFits
  <2>3. CASE run' = run
    <3>1. RunFits'
      BY <1>1, <1>3, <2>3, StillFits
    <3> QED
      BY <1>1, <1>3, <2>3, <3>1 DEF TypeOK
  <2> QED
    BY <2>1, <2>2, <2>3 DEF EmbedGap, Reembed, EmbedWrite, DropVectors
<1> QED
  BY <1>2, <1>3, <1>4, <1>5, <1>6, <1>8, <1>9, <1>10, AtNoDesk

-----------------------------------------------------------------------------
(* The theorems *)

LEMMA NextNotesInv == NotesInv /\ [Next]_vars => NotesInv'
<1> SUFFICES ASSUME NotesInv, [Next]_vars PROVE NotesInv'
  OBVIOUS
<1>1. CASE \E u \in Users, b \in Texts : Create(u, b)
  BY <1>1, LandsKeep
<1>2. CASE \E u \in Users : Save(u)
  <2>1. PICK u \in Users, b \in Texts :
          SaveLands(u, b) \/ SaveDeduped(u, b) \/ SaveCollides(u, b) \/ SaveRejected(u, b)
    BY <1>2 DEF Save
  <2> QED
    BY <2>1, LandsKeep, ReleasesKeep, ReadsKeep, SaveRejectedKeeps
<1>3. CASE \E u \in Users : LoadHead(u) \/ Crash(u) \/ BrowseHead(u)
                            \/ DeleteRejected(u) \/ LookUp(u) \/ Discard(u)
  BY <1>3, ReadsKeep, ReleasesKeep
<1>4. CASE \E u \in Users : IndexSaved(u) \/ Delete(u) \/ Evict(u)
                            \/ Recover(u) \/ Purge(u)
  BY <1>4, IndexSavedKeeps, DeleteKeeps, EvictKeeps, RecoverKeeps, PurgeKeeps
<1>5. CASE GapRead \/ ReindexRead \/ ScanIndex
  BY <1>5, ScanKeeps
<1>6. CASE EmbedGap \/ Reembed \/ EmbedClaim \/ EmbedWrite \/ EmbedDone \/ EmbedFails
             \/ DropVectors
  BY <1>6, EmbedKeeps
<1>7. CASE UNCHANGED vars
  BY <1>7 DEF vars, NotesInv, TypeOK, Chain, Legs, FtsFits, VectorsFit, ScanFits,
              RunFits, Fits, FitsClean, Desk, Apart, Rows, Deleted
<1> QED
  BY <1>1, <1>2, <1>3, <1>4, <1>5, <1>6, <1>7 DEF Next

\* The table is a chain, the legs hold its texts, and every process holds what
\* the version it read says, whatever is committed, purged or killed meanwhile.
THEOREM NotesInvariant == Spec => []NotesInv
<1> QED
  BY InitNotesInv, NextNotesInv, PTL DEF Spec

\* Every variable keeps its type, and the legs hold entries of rows only.
THEOREM NotesTypeCorrect == Spec => []TypeOK
<1>1. NotesInv => TypeOK
  BY DEF NotesInv
<1> QED
  BY <1>1, NotesInvariant, PTL

\* Every version's parent is a row, the note has a head once it exists, and a
\* text that was not purged is the one its version_id was made from.
THEOREM ChainIsSound == Spec => []ChainSound
<1>1. NotesInv => ChainSound
  <2> SUFFICES ASSUME NotesInv PROVE ChainSound
    OBVIOUS
  <2>1. TypeOK /\ Chain
    BY DEF NotesInv
  <2>2. ASSUME NEW v \in Rows, Len(v) # 1 PROVE Parent(v) \in Rows
    <3>1. v \in Seq(Bodies) /\ v # <<>>
      BY <2>1 DEF Chain, NoVersion
    <3>2. Len(v) \in Nat \ {0}
      BY <3>1, EmptySeq
    <3> DEFINE n == Len(v)
    <3>3. n - 1 \in 1..n
      <4>1. n \in Nat \ {0} /\ n # 1
        BY <2>2, <3>2
      <4> HIDE DEF n
      <4> QED
        BY <4>1
    <3> QED
      BY <2>1, <3>3 DEF Chain, Parent
  <2>3. Rows # {} => head \in Rows
    BY <2>1 DEF Chain, TypeOK
  <2>4. \A v \in Rows : ~vers[v].purged => vers[v].body = v[Len(v)]
    BY <2>1 DEF Chain, Last
  <2> QED
    BY <2>2, <2>3, <2>4 DEF ChainSound
<1> QED
  BY <1>1, NotesInvariant, PTL

\* What the two legs hold for a live head is its own text, however late a
\* cache write or an embed run of an older version lands.
THEOREM SearchHoldsTheHead == Spec => []SearchIsCurrent
<1>1. NotesInv => SearchIsCurrent
  <2> SUFFICES ASSUME NotesInv, Live, ~Purged
               PROVE  /\ At(fts, head) \in {NoText, Text(head), Clean[Text(head)]}
                      /\ At(vectors, head) \in {NoText, Clean[Text(head)]}
    BY DEF SearchIsCurrent
  <2>1. head \in Rows /\ ~vers[head].purged /\ Text(head) = Last(head)
    BY DEF NotesInv, TypeOK, Chain, Live, Exists, Purged, Text
  <2>2. head \in DOMAIN fts => fts[head] \in {Text(head), Clean[Text(head)]}
    BY <2>1 DEF NotesInv, Legs, FtsFits, Fits
  <2>3. head \in DOMAIN vectors => vectors[head] = Clean[Text(head)]
    BY <2>1 DEF NotesInv, Legs, VectorsFit, FitsClean
  <2> QED
    BY <2>2, <2>3 DEF At
<1> QED
  BY <1>1, NotesInvariant, PTL

\* No save or delete overwrites what its user has not seen: a new version, or
\* a tombstone, goes under the head by a user who had loaded that head.
THEOREM NothingIsOverwritten == Spec => NoLostUpdate
<1>1. ASSUME NotesInv, [Next]_vars
      PROVE  [\A v \in {head'} : v # head /\ Exists /\ Parent(v) = head
                                 /\ (v \notin Rows \/ Deleted(v))
                => \E u \in Users : pc'[u] # pc[u] /\ mem[u].version = head]_vars
  <2> SUFFICES ASSUME Next, head' # head, Exists,
                      head' \notin Rows \/ Deleted(head')
               PROVE  \E u \in Users : pc'[u] # pc[u] /\ mem[u].version = head
    BY <1>1 DEF vars
  <2>1. TypeOK /\ \A u \in Users : Desk(u)
    BY <1>1 DEF NotesInv
  <2>2. ASSUME NEW u \in Users, NEW b, SaveLands(u, b) \/ Delete(u)
        PROVE  pc'[u] # pc[u] /\ mem[u].version = head
    <3>1. pc[u] \in {"editing", "conflict", "deleting"} /\ mem[u].version = head
      BY <2>2 DEF SaveLands, Delete, Submits, HoldsHead
    <3>2. pc'[u] \in {"indexing", "evicting"}
      BY <2>1, <2>2 DEF SaveLands, Delete, Moves, TypeOK
    <3> QED
      BY <3>1, <3>2
  <2>3. ASSUME NEW u \in Users, Recover(u) PROVE FALSE
    BY <2>1, <2>3 DEF Recover, Desk
  <2>4. ASSUME NEW u \in Users, NEW b,
               Create(u, b) \/ LoadHead(u) \/ SaveDeduped(u, b) \/ SaveCollides(u, b)
                 \/ SaveRejected(u, b) \/ Discard(u) \/ IndexSaved(u) \/ Crash(u)
                 \/ BrowseHead(u) \/ Evict(u) \/ DeleteRejected(u) \/ LookUp(u)
                 \/ Purge(u)
        PROVE  FALSE
    BY <2>4 DEF Create, LoadHead, SaveDeduped, SaveCollides, SaveRejected, Discard,
                IndexSaved, Crash, BrowseHead, Evict, DeleteRejected, LookUp, Purge
  <2>5. ASSUME GapRead \/ ReindexRead \/ ScanIndex \/ EmbedGap \/ Reembed
                 \/ EmbedClaim \/ EmbedWrite \/ EmbedDone \/ EmbedFails \/ DropVectors
        PROVE  FALSE
    BY <2>5 DEF GapRead, ReindexRead, ScanIndex, EmbedGap, Reembed, EmbedClaim,
                EmbedWrite, EmbedDone, EmbedFails, DropVectors
  <2> QED
    BY <2>2, <2>3, <2>4, <2>5 DEF Next, Save
<1> QED
  BY <1>1, NotesInvariant, PTL DEF NoLostUpdate, Spec

\* A rejected text is on disk until it is saved or discarded, whoever else is
\* saving, discarding or killed.
THEOREM RejectedTextIsKept == Spec => DraftsKept
<1>1. ASSUME NotesInv, [Next]_vars
      PROVE  [\A d \in Drafts : drafts[d] # NoText /\ drafts'[d] = NoText =>
                \/ \E e \in Drafts : drafts'[e] = drafts[d]
                \/ \E u \in Users : /\ mem[u].draft = d
                                    /\ \/ pc[u] = "indexing"
                                       \/ pc[u] = "conflict" /\ pc'[u] = "idle"]_vars
  <2> SUFFICES ASSUME Next, NEW d \in Drafts, drafts[d] # NoText, drafts'[d] = NoText
               PROVE  \/ \E e \in Drafts : drafts'[e] = drafts[d]
                      \/ \E u \in Users : /\ mem[u].draft = d
                                          /\ \/ pc[u] = "indexing"
                                             \/ pc[u] = "conflict" /\ pc'[u] = "idle"
    BY <1>1
  <2>1. TypeOK /\ \A u \in Users : Desk(u)
    BY <1>1 DEF NotesInv
  <2>2. ASSUME NEW u \in Users, mem[u].draft = d
        PROVE  /\ pc[u] \in {"conflict", "indexing"}
               /\ pc[u] = "conflict" => drafts[d] = mem[u].text
    BY <2>1, <2>2, Constants DEF Desk
  <2>3. ASSUME NEW u \in Users, NEW b, SaveDeduped(u, b) \/ Discard(u) \/ IndexSaved(u)
        PROVE  /\ mem[u].draft = d
               /\ pc[u] = "indexing" \/ (pc[u] = "conflict" /\ pc'[u] = "idle")
    <3>1. drafts' = Released(u) /\ Done(u)
      BY <2>3 DEF SaveDeduped, Discard, IndexSaved
    <3>2. mem[u].draft = d
      BY <2>1, <3>1 DEF Released
    <3>3. pc'[u] = "idle"
      BY <2>1, <3>1 DEF Done, Moves, TypeOK
    <3> QED
      BY <2>2, <3>2, <3>3
  <2>4. ASSUME NEW u \in Users, NEW b \in Texts, SaveRejected(u, b)
        PROVE  \E e \in Drafts : drafts'[e] = drafts[d]
    <3>1. PICK e \in FreeDrafts : drafts' = [Released(u) EXCEPT ![e] = b]
      BY <2>4 DEF SaveRejected
    <3>2. e \in Drafts /\ drafts'[e] = b /\ b # NoText
      BY <2>1, <3>1, Constants DEF FreeDrafts, Released
    <3>3. mem[u].draft = d
      BY <2>1, <3>1, <3>2 DEF Released
    <3>4. pc[u] \in {"editing", "conflict"} /\ (pc[u] = "conflict" => b = mem[u].text)
      BY <2>4 DEF SaveRejected, Submits
    <3> QED
      BY <2>2, <3>2, <3>3, <3>4
  <2>5. ASSUME NEW u \in Users, NEW b,
               Create(u, b) \/ LoadHead(u) \/ SaveLands(u, b) \/ SaveCollides(u, b)
                 \/ Crash(u) \/ BrowseHead(u) \/ Delete(u) \/ Evict(u)
                 \/ DeleteRejected(u) \/ LookUp(u) \/ Recover(u) \/ Purge(u)
        PROVE  FALSE
    BY <2>5 DEF Create, LoadHead, SaveLands, SaveCollides, Crash, BrowseHead, Delete,
                Evict, DeleteRejected, LookUp, Recover, Purge, user
  <2>6. ASSUME GapRead \/ ReindexRead \/ ScanIndex \/ EmbedGap \/ Reembed
                 \/ EmbedClaim \/ EmbedWrite \/ EmbedDone \/ EmbedFails \/ DropVectors
        PROVE  FALSE
    BY <2>6 DEF GapRead, ReindexRead, ScanIndex, EmbedGap, Reembed, EmbedClaim,
                EmbedWrite, EmbedDone, EmbedFails, DropVectors, user
  <2> QED
    BY <2>3, <2>4, <2>5, <2>6 DEF Next, Save
<1> QED
  BY <1>1, NotesInvariant, PTL DEF DraftsKept, Spec

\* A row above a purged one is purged: what is written later is not above it.
LEMMA SweepKept == NotesInv /\ PurgeSweepsChain /\ [Next]_vars => PurgeSweepsChain'
<1> SUFFICES ASSUME NotesInv, PurgeSweepsChain, [Next]_vars,
                    NEW v \in Rows', NEW a \in Rows',
                    IsAncestor(a, v), vers'[v].purged
             PROVE  vers'[a].purged
  BY DEF PurgeSweepsChain, IsAncestor
<1>1. TypeOK /\ Chain /\ \A u \in Users : Desk(u)
  BY DEF NotesInv
<1>2. CASE vers' = vers
  BY <1>2 DEF PurgeSweepsChain, Rows
<1>3. ASSUME NEW u \in Users, Purge(u) PROVE vers'[a].purged
  <2>1. vers' = PurgedRows /\ a \in Rows
    BY <1>3 DEF Purge, PurgedRows, Rows
  <2>2. vers'[a] = [vers[a] EXCEPT !.body = Marker, !.purged = TRUE]
    BY <2>1 DEF PurgedRows
  <2>3. vers[a] \in [op : {"create", "update", "delete"}, body : Bodies,
                     purged : BOOLEAN]
    BY <1>1, <2>1 DEF TypeOK
  <2> QED
    BY <2>2, <2>3, Zenon
<1>4. ASSUME NEW w, NEW op, NEW b, w \notin Rows, vers' = Written(w, op, b)
      PROVE  vers'[a].purged
  <2>1. /\ Rows' = Rows \cup {w} /\ vers'[w] = Row(op, b)
        /\ \A x \in Rows : vers'[x] = vers[x]
    BY <1>4 DEF Written, With, Rows
  <2>2. v # w /\ v \in Rows /\ vers[v].purged
    BY <2>1 DEF Row
  <2>3. a \in Rows
    <3>1. a \in Seq(Bodies) /\ a # <<>> /\ v \in Seq(Bodies)
      BY <1>1, <2>2, NextNotesInv DEF NotesInv, Chain, NoVersion
    <3>2. Len(a) \in 1..Len(v)
      <4>1. Len(a) \in Nat \ {0} /\ Len(v) \in Nat /\ Len(a) <= Len(v)
        BY <3>1, EmptySeq, LenProperties DEF IsAncestor
      <4> QED
        BY <4>1
    <3> QED
      BY <1>1, <2>2, <3>2 DEF Chain, IsAncestor
  <2> QED
    BY <2>1, <2>2, <2>3 DEF PurgeSweepsChain
<1>5. ASSUME NEW u \in Users, NEW b,
             Create(u, b) \/ SaveLands(u, b) \/ Delete(u)
      PROVE  vers'[a].purged
  <2>1. CASE Create(u, b)
    <3>1. Rows = {}
      BY <1>1, <2>1 DEF Create, Exists, Chain
    <3> QED
      BY <1>4, <2>1, <3>1 DEF Create
  <2>2. CASE SaveLands(u, b)
    BY <1>4, <2>2 DEF SaveLands
  <2>3. CASE Delete(u)
    <3>1. vers' = WithTombstone(head', Text(head))
      BY <2>3 DEF Delete
    <3> QED
      BY <1>2, <1>4, <3>1 DEF WithTombstone
  <2> QED
    BY <1>5, <2>1, <2>2, <2>3
<1>6. ASSUME NEW u \in Users, NEW b,
             LoadHead(u) \/ SaveDeduped(u, b) \/ SaveCollides(u, b) \/ SaveRejected(u, b)
               \/ Discard(u) \/ IndexSaved(u) \/ Crash(u) \/ BrowseHead(u)
               \/ Evict(u) \/ DeleteRejected(u) \/ LookUp(u) \/ Recover(u)
      PROVE  vers' = vers
  BY <1>6 DEF LoadHead, SaveDeduped, SaveCollides, SaveRejected, Discard, IndexSaved,
              Crash, BrowseHead, Evict, DeleteRejected, LookUp, Recover
<1>7. ASSUME \/ GapRead \/ ReindexRead \/ ScanIndex \/ EmbedGap \/ Reembed
             \/ EmbedClaim \/ EmbedWrite \/ EmbedDone \/ EmbedFails \/ DropVectors
             \/ UNCHANGED vars
      PROVE  vers' = vers
  BY <1>7 DEF GapRead, ReindexRead, ScanIndex, EmbedGap, Reembed, EmbedClaim,
              EmbedWrite, EmbedDone, EmbedFails, DropVectors, vars
<1> QED
  BY <1>2, <1>3, <1>5, <1>6, <1>7 DEF Next, Save

\* A purge leaves no older text behind: the ancestors of a purged version are
\* purged, whichever version was the head and whatever was saved since.
THEOREM PurgeReachesAncestors == Spec => []PurgeSweepsChain
<1>1. Init => PurgeSweepsChain
  BY EmptySeq DEF Init, PurgeSweepsChain, Rows
<1> QED
  BY <1>1, SweepKept, NotesInvariant, PTL DEF Spec

-----------------------------------------------------------------------------
(* The abstract history *)

\* Every step writes a child of the head, goes back to a version that is there,
\* or leaves the history alone.
LEMMA StepIsHistory == NotesInv /\ [Next]_vars => [History!Next]_<<Rows, head>>
<1> SUFFICES ASSUME NotesInv, [Next]_vars
             PROVE  History!Next \/ (Rows' = Rows /\ head' = head)
  BY DEF History!history
<1>1. TypeOK /\ Chain /\ \A u \in Users : Desk(u)
  BY DEF NotesInv
<1>2. ASSUME NEW b \in Bodies, head' = Append(head, b), Rows' = Rows \cup {head'}
      PROVE  History!Next
  BY <1>2 DEF History!Next, History!Extend
<1>3. ASSUME NEW v, NEW op, NEW b, vers' = Written(v, op, b)
      PROVE  Rows' = Rows \cup {v}
  BY <1>3 DEF Written, With, Rows
<1>4. ASSUME NEW u \in Users, NEW b \in Texts, Create(u, b) PROVE History!Next
  <2>1. head = <<>> /\ b \in Bodies
    BY <1>4, Constants DEF Create, Exists, NoVersion
  <2>2. head' = Append(head, b)
    BY <1>4, <2>1, EmptySeq, AppendProperties DEF Create
  <2>3. Rows' = Rows \cup {head'}
    BY <1>3, <1>4 DEF Create
  <2> QED
    BY <1>2, <2>1, <2>2, <2>3
<1>5. ASSUME NEW u \in Users, NEW b \in Texts, SaveLands(u, b) PROVE History!Next
  BY <1>2, <1>3, <1>5, Constants DEF SaveLands
<1>6. ASSUME NEW u \in Users, Delete(u) PROVE History!Next
  <2>1. /\ head \in Rows /\ head' = Append(head, Text(head))
        /\ vers' = WithTombstone(head', Text(head))
    BY <1>1, <1>6 DEF Delete, HoldsHead, Desk
  <2>2. Text(head) \in Bodies
    BY <1>1, <2>1 DEF TypeOK, Text
  <2>3. Rows' = Rows \cup {head'}
    BY <1>3, <2>1 DEF WithTombstone, Rows
  <2> QED
    BY <1>2, <2>1, <2>2, <2>3
<1>7. ASSUME NEW u \in Users, Recover(u) PROVE History!Next
  <2>1. head' \in Rows /\ Rows' = Rows
    BY <1>7 DEF Recover, Rows
  <2> QED
    BY <2>1 DEF History!Next, History!GoBack
<1>8. ASSUME NEW u \in Users, NEW b,
             LoadHead(u) \/ SaveDeduped(u, b) \/ SaveCollides(u, b) \/ SaveRejected(u, b)
               \/ Discard(u) \/ IndexSaved(u) \/ Crash(u) \/ BrowseHead(u)
               \/ Evict(u) \/ DeleteRejected(u) \/ LookUp(u) \/ Purge(u)
      PROVE  Rows' = Rows /\ head' = head
  <2>1. head' = head /\ (vers' = vers \/ vers' = PurgedRows)
    BY <1>8 DEF LoadHead, SaveDeduped, SaveCollides, SaveRejected, Discard, IndexSaved,
                Crash, BrowseHead, Evict, DeleteRejected, LookUp, Purge
  <2> QED
    BY <2>1 DEF Rows, PurgedRows
<1>9. ASSUME \/ GapRead \/ ReindexRead \/ ScanIndex \/ EmbedGap \/ Reembed
             \/ EmbedClaim \/ EmbedWrite \/ EmbedDone \/ EmbedFails \/ DropVectors
             \/ UNCHANGED vars
      PROVE  Rows' = Rows /\ head' = head
  BY <1>9 DEF GapRead, ReindexRead, ScanIndex, EmbedGap, Reembed, EmbedClaim,
              EmbedWrite, EmbedDone, EmbedFails, DropVectors, vars, Rows
<1> QED
  BY <1>4, <1>5, <1>6, <1>7, <1>8, <1>9 DEF Next, Save

\* The store implements the abstract history: versions are only added, each
\* under the head of that moment, and going back writes none.
THEOREM StoreImplementsHistory == Spec => ImplementsHistory
<1>1. Init => History!Init
  BY EmptySeq DEF Init, History!Init, Rows, NoVersion
<1>2. NotesInv /\ [Next]_vars => [History!Next]_History!history
  BY StepIsHistory DEF History!history
<1> QED
  BY <1>1, <1>2, NotesInvariant, PTL DEF Spec, ImplementsHistory, History!Spec
=============================================================================
