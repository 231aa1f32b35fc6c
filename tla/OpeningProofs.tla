---------------------------- MODULE OpeningProofs ----------------------------
(***************************************************************************)
(* Whoever opens the file opens it current, and migrating it loses nothing: *)
(* the safety properties of Opening for any processes, tables, columns and  *)
(* old files, and any number of crashes and writes. Then the terminal UI    *)
(* over the open file: the safety properties of Screens for any notes and   *)
(* texts and any depth of the stack. The two share no definition.           *)
(***************************************************************************)
EXTENDS Opening, Screens, FiniteSetTheorems, SequenceTheorems,
        WellFoundedInduction, TLAPS

Fields == {"version", "tables", "columns", "egress", "index", "jobs", "sent"}

\* The jobs of one key: finitely many rows, by id.
IsJobs(js) ==
  /\ \E n \in Nat : DOMAIN js \subseteq 1..n
  /\ \A i \in DOMAIN js : js[i] \in {"pending", "failed"}

\* What the migrations are there to reach.
UpToDate(d) == d.egress = "target" /\ d.index = "wide" /\ Unique(d)

\* A database is up to date before it has its first table, and once it has the
\* version; at version 1 it has the new egress_log, and before that no egress
\* row says where a call went.
Sound(d) ==
  /\ DOMAIN d = Fields /\ d.version \in 0..SchemaVersion
  /\ d.tables \subseteq Named /\ d.columns \subseteq Columns /\ IsJobs(d.jobs)
  /\ "notes" \notin d.tables \/ d.version = SchemaVersion => UpToDate(d)
  /\ d.version = 1 => d.egress = "target"
  /\ d.version = 0 => \A r \in d.sent : r = [id |-> r.id, to |-> "none"]

Pcs == {"closed", "script", "alter", "version", "jobs", "commit", "open"}
Holding == {"version", "jobs", "commit"}

TypeOK ==
  /\ pc \in [Processes -> Pcs] /\ fresh \in [Processes -> BOOLEAN]
  /\ todo \in [Processes -> [tables : Seq(Named), columns : SUBSET Columns]]
  /\ lock \in Processes \cup {NoOne}
  /\ Sound(db) /\ Sound(work)

\* A process is past a step of init_db only if what the step is for is there,
\* whether it did it itself or found it done.
Progress(p) ==
  /\ pc[p] = "script" =>
       /\ \A t \in Named \ db.tables :
            \E i \in DOMAIN todo[p].tables : todo[p].tables[i] = t
       /\ todo[p].columns = Columns
  /\ pc[p] \notin {"closed", "script"} => db.tables = Named
  /\ pc[p] = "alter" => Columns \ todo[p].columns \subseteq db.columns
  /\ pc[p] \in Holding \cup {"open"} => db.columns = Columns
  /\ fresh[p] /\ pc[p] # "closed" => UpToDate(db)
  /\ pc[p] = "open" => db.version = SchemaVersion
  /\ pc[p] \in Holding <=> lock = p

\* What the transaction would leave has everything the committed database has.
Transaction ==
  /\ lock = NoOne => work = db
  /\ lock # NoOne =>
       /\ work.tables = db.tables /\ work.columns = db.columns
       /\ db.sent \subseteq work.sent
       /\ Live(db.jobs) # {} => Live(work.jobs) # {}
       /\ pc[lock] = "version" => work = db
       /\ pc[lock] = "jobs" => work.egress = "target" /\ work.jobs = db.jobs
       /\ pc[lock] = "commit" => work.version = SchemaVersion

OpeningInv == TypeOK /\ (\A p \in Processes : Progress(p)) /\ Transaction

-----------------------------------------------------------------------------
(* Tables and jobs *)

LEMMA TablesAreNamed ==
  /\ Tables \in Seq(Named) /\ "notes" \in Named /\ "egress_log" \in Named
  /\ \A t \in Named : \E i \in DOMAIN Tables : Tables[i] = t
<1>1. /\ Len(Tables) \in Nat /\ DOMAIN Tables = 1..Len(Tables)
      /\ Tables \in [1..Len(Tables) -> STRING]
  BY OpeningAssumption, LenProperties
<1>2. Tables \in [1..Len(Tables) -> Named]
  BY <1>1 DEF Named
<1>3. Tables \in Seq(Named)
  BY <1>1, <1>2, SeqDef
<1>4. 1 \in DOMAIN Tables
  <2>1. PICK i \in DOMAIN Tables : Tables[i] = "egress_log"
    BY OpeningAssumption
  <2> QED
    BY <1>1, <2>1
<1> QED
  BY <1>3, <1>4, OpeningAssumption DEF Named

\* Of finitely many ids there is a newest one.
LEMMA NewestExists ==
  ASSUME NEW n \in Nat, NEW S \in SUBSET (1..n), S # {}
  PROVE  MaxId(S) \in S
<1> DEFINE below == {n - i : i \in S}
<1>1. below \subseteq Nat /\ below # {}
  <2>1. \A i \in S : n - i \in Nat
    OBVIOUS
  <2> QED
    BY <2>1
<1>2. PICK m \in below : \A k \in below : ~(<<k, m>> \in OpToRel(<, Nat))
  BY <1>1, NatLessThanWellFounded, WFMin
<1>3. PICK i \in S : m = n - i
  BY <1>2
<1>4. \A j \in S : j <= i
  <2> SUFFICES ASSUME NEW j \in S, ~(j <= i) PROVE FALSE
    OBVIOUS
  <2>1. n - j \in below /\ n - j < m /\ n - j \in Nat /\ m \in Nat
    BY <1>3
  <2> QED
    BY <2>1, <1>2 DEF OpToRel
<1> QED
  BY <1>3, <1>4 DEF MaxId

\* Thinning out the failed rows leaves a live row where there was one.
LEMMA DedupedLives ==
  ASSUME NEW js, IsJobs(js)
  PROVE  /\ IsJobs(Deduped(js))
         /\ Live(js) # {} => Live(Deduped(js)) # {}
<1> DEFINE failed == {i \in DOMAIN js : js[i] = "failed"}
<1>1. CASE failed = {}
  BY <1>1 DEF Deduped
<1>2. CASE failed # {} /\ Live(js) \ failed # {}
  <2>1. Deduped(js) = Keep(js, {i \in DOMAIN js : i \notin failed})
    BY <1>2 DEF Deduped
  <2> QED
    BY <1>2, <2>1 DEF IsJobs, Keep, Live
<1>3. CASE failed # {} /\ Live(js) \ failed = {}
  <2>1. Deduped(js) = Keep(js, {i \in DOMAIN js : i \in failed => i = MaxId(failed)})
    BY <1>3 DEF Deduped
  <2>2. MaxId(failed) \in failed
    <3>1. PICK n \in Nat : DOMAIN js \subseteq 1..n
      BY DEF IsJobs
    <3>2. failed \in SUBSET (1..n)
      BY <3>1
    <3> QED
      BY <1>3, <3>2, NewestExists
  <2> QED
    BY <2>1, <2>2 DEF IsJobs, Keep, Live
<1> QED
  BY <1>1, <1>2, <1>3

\* A row less, or a row in another status, leaves as few live rows.
LEMMA OneJobAtMost ==
  ASSUME NEW d, NEW e, IsJobs(d.jobs), IsJobs(e.jobs), Unique(d),
         DOMAIN e.jobs \subseteq DOMAIN d.jobs
  PROVE  Unique(e)
<1>1. \A js : IsJobs(js) => Live(js) = DOMAIN js /\ IsFiniteSet(Live(js))
  <2> SUFFICES ASSUME NEW js, IsJobs(js)
               PROVE  Live(js) = DOMAIN js /\ IsFiniteSet(DOMAIN js)
    OBVIOUS
  <2>1. Live(js) = DOMAIN js
    BY DEF IsJobs, Live
  <2>2. PICK n \in Nat : DOMAIN js \subseteq 1..n
    BY DEF IsJobs
  <2>3. IsFiniteSet(1..n)
    BY <2>2, FS_Interval
  <2> QED
    BY <2>1, <2>2, <2>3, FS_Subset
<1>2. Live(e.jobs) \subseteq Live(d.jobs) /\ IsFiniteSet(Live(d.jobs))
  BY <1>1
<1>3. /\ Cardinality(Live(e.jobs)) \in Nat /\ Cardinality(Live(d.jobs)) \in Nat
      /\ Cardinality(Live(e.jobs)) <= Cardinality(Live(d.jobs))
  BY <1>2, FS_Subset, FS_CardinalityType
<1> QED
  BY <1>3 DEF Unique

LEMMA CreatedSound ==
  ASSUME NEW d, Sound(d), NEW t \in Named
  PROVE  /\ Sound(Created(d, t))
         /\ Created(d, t).tables = d.tables \cup {t}
         /\ \A f \in {"version", "columns", "jobs", "sent"} : Created(d, t)[f] = d[f]
         /\ UpToDate(d) => UpToDate(Created(d, t))
<1>1. CASE t \in d.tables
  BY <1>1 DEF Created
<1>2. CASE t \notin d.tables
  <2> DEFINE egress == IF t = "egress_log" THEN "target" ELSE d.egress
             index == IF t = "jobs" THEN "wide" ELSE d.index
             e == [d EXCEPT !.tables = d.tables \cup {t}, !.egress = egress,
                            !.index = index]
  <2>1. Created(d, t) = e
    BY <1>2, Zenon DEF Created
  <2>2. /\ DOMAIN e = Fields /\ e.tables = d.tables \cup {t}
        /\ e.egress = egress /\ e.index = index
        /\ \A f \in {"version", "columns", "jobs", "sent"} : e[f] = d[f]
    BY DEF Sound, Fields
  <2> HIDE DEF e
  <2>3. UpToDate(d) => UpToDate(e)
    BY <2>2 DEF UpToDate, Unique
  <2> QED
    BY <2>1, <2>2, <2>3 DEF Sound
<1> QED
  BY <1>1, <1>2

-----------------------------------------------------------------------------

LEMMA InitOpeningInv == Init => OpeningInv
<1> SUFFICES ASSUME Init PROVE OpeningInv
  OBVIOUS
<1>1. \A js \in OldJobs : IsJobs(js)
  <2> SUFFICES ASSUME NEW js \in OldJobs PROVE IsJobs(js)
    OBVIOUS
  <2>1. /\ Len(js) \in Nat /\ DOMAIN js = 1..Len(js)
        /\ js \in [1..Len(js) -> {"pending", "failed"}]
    BY OpeningAssumption, LenProperties
  <2> QED
    BY <2>1 DEF IsJobs
<1>2. Sound(Empty)
  <2>1. DOMAIN <<>> = {} /\ Live(<<>>) = {}
    BY EmptySeq, LenProperties DEF Live
  <2>2. Unique(Empty) /\ IsJobs(<<>>)
    BY <2>1, FS_EmptySet DEF Unique, Empty, IsJobs
  <2> QED
    BY <2>2 DEF Sound, Empty, UpToDate, Fields, SchemaVersion
<1>3. \A d \in OldFiles : Sound(d)
  <2> SUFFICES ASSUME NEW js \in OldJobs, NEW ts \in {Named, Named \ {"egress_log"}},
                      NEW v \in 0..1
               PROVE  Sound(OldFile(v, ts, js))
    BY DEF OldFiles
  <2> DEFINE d == OldFile(v, ts, js)
  <2>1. /\ DOMAIN d = Fields /\ d.version = v /\ d.tables = ts /\ d.columns = {}
        /\ d.jobs = js /\ d.egress = IF v = 0 THEN "old" ELSE "target"
        /\ v = 0 => \A r \in d.sent : r = [id |-> 1, to |-> "none"]
    BY DEF OldFile, Fields
  <2> HIDE DEF d
  <2>2. Sound(d)
    BY <1>1, <2>1, TablesAreNamed DEF Sound, SchemaVersion
  <2> QED
    BY <2>2 DEF d
<1>4. <<>> \in Seq(Named)
  OBVIOUS
<1>5. TypeOK
  BY <1>2, <1>3, <1>4 DEF Init, TypeOK, Pcs
<1> QED
  BY <1>5, OpeningAssumption
  DEF Init, OpeningInv, Progress, Transaction, Holding, NoOne

-----------------------------------------------------------------------------
(* The steps of init_db *)

\* A step that alters neither database nor lock, nor moves another process.
LEMMA ProbeKeeps ==
  ASSUME OpeningInv, NEW p \in Processes, Probe(p) PROVE OpeningInv'
<1>1. TypeOK'
  <2>1. [tables |-> Tables, columns |-> Columns]
          \in [tables : Seq(Named), columns : SUBSET Columns]
    BY TablesAreNamed
  <2> QED
    BY <2>1 DEF Probe, Goes, OpeningInv, TypeOK, Pcs, IsFresh
<1>2. IsFresh(db) => UpToDate(db)
  BY DEF IsFresh, OpeningInv, TypeOK, Sound
<1>3. \A q \in Processes : Progress(q)'
  BY <1>2, TablesAreNamed
  DEF Probe, At, Goes, OpeningInv, TypeOK, Progress, Holding, UpToDate
<1>4. Transaction'
  BY DEF Probe, At, Goes, OpeningInv, TypeOK, Progress, Transaction, Holding
<1> QED
  BY <1>1, <1>3, <1>4 DEF OpeningInv

LEMMA ScriptKeeps ==
  ASSUME OpeningInv, NEW p \in Processes, Script(p) PROVE OpeningInv'
<1>1. CASE todo[p].tables = <<>>
  <2>1. /\ pc' = [pc EXCEPT ![p] = "alter"]
        /\ UNCHANGED <<db, work, todo, lock, fresh>> /\ pc[p] = "script"
    BY <1>1 DEF Script, Goes, At
  <2>2. TypeOK'
    BY <2>1 DEF OpeningInv, TypeOK, Pcs
  <2>3. db.tables = Named
    <3>1. DOMAIN <<>> = {}
      BY EmptySeq, LenProperties
    <3>2. db.tables \subseteq Named /\ Progress(p)
      BY DEF OpeningInv, TypeOK, Sound
    <3> QED
      BY <1>1, <2>1, <3>1, <3>2 DEF Progress
  <2>4. \A q \in Processes : Progress(q)'
    BY <2>1, <2>3 DEF OpeningInv, TypeOK, Progress, Holding, UpToDate
  <2>5. Transaction'
    BY <2>1 DEF OpeningInv, TypeOK, Progress, Transaction, Holding
  <2> QED
    BY <2>2, <2>4, <2>5 DEF OpeningInv
<1>2. CASE todo[p].tables # <<>>
  <2> DEFINE ts == todo[p].tables
             t == Head(ts)
  <2>1. /\ ts \in Seq(Named) /\ t \in Named /\ Tail(ts) \in Seq(Named)
        /\ \A i \in DOMAIN ts : ts[i] = t \/ \E j \in DOMAIN Tail(ts) : Tail(ts)[j] = ts[i]
    <3>1. ts \in Seq(Named)
      BY DEF OpeningInv, TypeOK
    <3>2. /\ t \in Named /\ Tail(ts) \in Seq(Named) /\ Len(Tail(ts)) = Len(ts) - 1
          /\ \A i \in 1..Len(Tail(ts)) : Tail(ts)[i] = ts[i + 1]
          /\ Len(ts) \in Nat \ {0} /\ DOMAIN ts = 1..Len(ts)
          /\ DOMAIN Tail(ts) = 1..Len(Tail(ts))
      BY <1>2, <3>1, HeadTailProperties, EmptySeq, LenProperties
    <3>3. \A i \in DOMAIN ts : i # 1 =>
            i - 1 \in DOMAIN Tail(ts) /\ Tail(ts)[i - 1] = ts[i]
      BY <3>2
    <3>4. ts[1] = t
      OBVIOUS
    <3> QED
      BY <3>1, <3>2, <3>3, <3>4
  <2>2. /\ db' = Created(db, t) /\ work' = IF Free THEN db' ELSE work
        /\ todo' = [todo EXCEPT ![p].tables = Tail(ts)]
        /\ UNCHANGED <<pc, lock, fresh>> /\ pc[p] = "script"
    BY <1>2 DEF Script, At
  <2>3. /\ Sound(db') /\ db'.tables = db.tables \cup {t}
        /\ db'.version = db.version /\ db'.columns = db.columns
        /\ db'.jobs = db.jobs /\ db'.sent = db.sent
        /\ UpToDate(db) => UpToDate(db')
    BY <2>1, <2>2, CreatedSound DEF OpeningInv, TypeOK
  <2>4. ~Free => db' = db
    <3>1. 1 \in DOMAIN ts /\ ts[1] = t
      BY <1>2, <2>1, EmptySeq, LenProperties
    <3> QED
      BY <3>1, <2>2 DEF Script, Created
  <2> HIDE DEF ts, t
  <2>5. todo' \in [Processes -> [tables : Seq(Named), columns : SUBSET Columns]]
    BY <2>1, <2>2 DEF OpeningInv, TypeOK
  <2>6. TypeOK'
    BY <2>2, <2>3, <2>5 DEF OpeningInv, TypeOK
  <2>7. \A q \in Processes : /\ todo'[q].columns = todo[q].columns
                             /\ todo'[q].tables = IF q = p THEN Tail(ts) ELSE todo[q].tables
    BY <2>2 DEF OpeningInv, TypeOK
  <2>8. \A q \in Processes : Progress(q)'
    <3> SUFFICES ASSUME NEW q \in Processes PROVE Progress(q)'
      OBVIOUS
    <3>1. Progress(q)
      BY DEF OpeningInv
    <3>2. db.tables = Named => db'.tables = Named
      BY <2>1, <2>3
    <3>3. CASE q = p
      <4>1. \A u \in Named \ db'.tables :
              \E i \in DOMAIN Tail(ts) : Tail(ts)[i] = u
        <5> SUFFICES ASSUME NEW u \in Named \ db'.tables
                     PROVE  \E i \in DOMAIN Tail(ts) : Tail(ts)[i] = u
          OBVIOUS
        <5>1. u \notin db.tables /\ u # t
          BY <2>3
        <5>2. PICK i \in DOMAIN ts : ts[i] = u
          BY <5>1, <3>1, <3>3, <2>2 DEF Progress, ts
        <5> QED
          BY <5>1, <5>2, <2>1
      <4> QED
        BY <4>1, <3>1, <3>2, <3>3, <2>2, <2>3, <2>7 DEF Progress, Holding
    <3>4. CASE q # p
      BY <3>1, <3>2, <3>4, <2>2, <2>3, <2>7 DEF Progress, Holding
    <3> QED
      BY <3>3, <3>4
  <2>9. Transaction'
    BY <2>2, <2>4 DEF OpeningInv, Transaction, Free
  <2> QED
    BY <2>6, <2>8, <2>9 DEF OpeningInv
<1> QED
  BY <1>1, <1>2

\* A column is missing after its ALTER only if somebody else has seen to it.
LEMMA AlterKeeps ==
  ASSUME OpeningInv, NEW p \in Processes, Alter(p) PROVE OpeningInv'
<1>1. PICK c \in todo[p].columns :
        /\ todo' = [todo EXCEPT ![p].columns = @ \ {c}]
        /\ IF Free THEN db' = [db EXCEPT !.columns = @ \cup {c}] /\ work' = db'
                   ELSE UNCHANGED <<db, work>>
  BY DEF Alter
<1>2. UNCHANGED <<lock, pc, fresh>> /\ pc[p] = "alter"
  BY DEF Alter, At
<1>3. todo[p].columns \subseteq Columns
  BY DEF OpeningInv, TypeOK
<1>4. /\ Sound(db') /\ db'.tables = db.tables /\ db'.version = db.version
      /\ db'.columns = IF Free THEN db.columns \cup {c} ELSE db.columns
      /\ UpToDate(db) => UpToDate(db')
  <2>1. /\ DOMAIN db' = Fields
        /\ db'.columns = IF Free THEN db.columns \cup {c} ELSE db.columns
        /\ \A f \in Fields \ {"columns"} : db'[f] = db[f]
    BY <1>1 DEF OpeningInv, TypeOK, Sound, Fields
  <2>2. UpToDate(db) => UpToDate(db')
    BY <2>1 DEF Fields, UpToDate, Unique
  <2>3. /\ db'.version = db.version /\ db'.tables = db.tables
        /\ db'.egress = db.egress /\ db'.jobs = db.jobs /\ db'.sent = db.sent
    BY <2>1 DEF Fields
  <2>4. Sound(db) /\ db'.columns \subseteq Columns
    BY <1>3, <2>1 DEF OpeningInv, TypeOK, Sound
  <2>5. Sound(db')
    BY <2>1, <2>2, <2>3, <2>4 DEF Sound
  <2> QED
    BY <2>1, <2>2, <2>3, <2>5
<1>5. ~Free => db.columns = Columns
  BY DEF OpeningInv, TypeOK, Progress, Free, Holding
<1>6. todo' \in [Processes -> [tables : Seq(Named), columns : SUBSET Columns]]
  BY <1>1 DEF OpeningInv, TypeOK
<1>7. TypeOK'
  BY <1>1, <1>2, <1>4, <1>6 DEF OpeningInv, TypeOK
<1>8. \A q \in Processes : /\ todo'[q].tables = todo[q].tables
                           /\ todo'[q].columns = IF q = p THEN todo[p].columns \ {c}
                                                 ELSE todo[q].columns
  BY <1>1 DEF OpeningInv, TypeOK
<1>9. \A q \in Processes : Progress(q)'
  <2> SUFFICES ASSUME NEW q \in Processes PROVE Progress(q)'
    OBVIOUS
  <2>1. Progress(q) /\ Progress(p) /\ db.columns \subseteq Columns
    BY DEF OpeningInv, TypeOK, Sound
  <2>2. CASE q = p
    BY <2>1, <2>2, <1>2, <1>3, <1>4, <1>5, <1>8 DEF Progress, Holding
  <2>3. CASE q # p
    BY <2>1, <2>3, <1>2, <1>3, <1>4, <1>8 DEF Progress, Holding
  <2> QED
    BY <2>2, <2>3
<1>10. Transaction'
  BY <1>1, <1>2 DEF OpeningInv, Transaction, Free
<1> QED
  BY <1>7, <1>9, <1>10 DEF OpeningInv

LEMMA BackfillKeeps ==
  ASSUME OpeningInv, NEW p \in Processes, Backfill(p) PROVE OpeningInv'
<1>1. /\ lock = NoOne /\ lock' = p /\ work' = db /\ pc' = [pc EXCEPT ![p] = "version"]
      /\ UNCHANGED <<db, fresh, todo>> /\ pc[p] = "alter" /\ todo[p].columns = {}
  BY DEF Backfill, Free, Goes, At
<1>2. TypeOK'
  BY <1>1 DEF OpeningInv, TypeOK, Pcs
<1>3. db.columns = Columns
  BY <1>1 DEF OpeningInv, TypeOK, Sound, Progress
<1>4. NoOne \notin Processes
  BY OpeningAssumption DEF NoOne
<1>5. \A q \in Processes : Progress(q)'
  <2> SUFFICES ASSUME NEW q \in Processes PROVE Progress(q)'
    OBVIOUS
  <2>1. Progress(q) /\ Progress(p) /\ pc'[q] = IF q = p THEN "version" ELSE pc[q]
    BY <1>1 DEF OpeningInv, TypeOK
  <2>2. UNCHANGED <<db, fresh, todo>> /\ (UpToDate(db) => UpToDate(db'))
    BY <1>1 DEF UpToDate, Unique
  <2> QED
    BY <1>1, <1>3, <1>4, <2>1, <2>2 DEF Progress, Holding
<1>6. Transaction'
  BY <1>1, <1>4 DEF OpeningInv, TypeOK, Transaction
<1> QED
  BY <1>2, <1>5, <1>6 DEF OpeningInv

-----------------------------------------------------------------------------
(* The transaction *)

\* Who is past the backfill holds the lock; until the migrations begin it
\* sees the committed database.
LEMMA InTheTransaction ==
  ASSUME OpeningInv, NEW p \in Processes, pc[p] \in Holding
  PROVE  /\ lock = p /\ lock # NoOne /\ Sound(db) /\ Sound(work)
         /\ pc[p] = "version" => work = db
<1>1. p # NoOne
  BY OpeningAssumption DEF NoOne
<1>2. lock = p
  BY DEF OpeningInv, Progress
<1> QED
  BY <1>1, <1>2 DEF OpeningInv, TypeOK, Transaction

\* A step inside the transaction that changes what it sees.
LEMMA InsideKeeps ==
  ASSUME OpeningInv, NEW p \in Processes, lock = p, pc[p] \in Holding,
         NEW l \in {"jobs", "commit"}, Goes(p, l),
         UNCHANGED <<db, lock, fresh, todo>>, Sound(work'),
         work'.tables = db.tables, work'.columns = db.columns,
         db.sent \subseteq work'.sent,
         Live(db.jobs) # {} => Live(work'.jobs) # {},
         l = "jobs" => work'.egress = "target" /\ work'.jobs = db.jobs,
         l = "commit" => work'.version = SchemaVersion
  PROVE  OpeningInv'
<1>1. pc' = [pc EXCEPT ![p] = l] /\ p # NoOne
  BY OpeningAssumption DEF Goes, NoOne
<1>2. TypeOK'
  BY <1>1 DEF OpeningInv, TypeOK, Pcs
<1>3. \A q \in Processes : Progress(q)'
  BY <1>1 DEF OpeningInv, TypeOK, Progress, Holding, UpToDate
<1>4. Transaction'
  BY <1>1 DEF OpeningInv, TypeOK, Transaction
<1> QED
  BY <1>2, <1>3, <1>4 DEF OpeningInv

LEMMA StampKeeps ==
  ASSUME OpeningInv, NEW p \in Processes, Stamp(p) PROVE OpeningInv'
<1>1. /\ pc[p] = "version" /\ lock = p /\ work = db /\ Sound(db) /\ lock # NoOne
      /\ work' = [work EXCEPT !.version = SchemaVersion]
  BY InTheTransaction DEF Stamp, At, Holding
<1>2. UpToDate(db)
  BY <1>1 DEF Stamp, Current, OpeningInv, Progress, Sound
<1>3. /\ DOMAIN work' = Fields /\ work'.version = SchemaVersion
      /\ \A f \in Fields \ {"version"} : work'[f] = work[f]
  BY <1>1 DEF Sound, Fields
<1>4. Sound(work')
  BY <1>1, <1>2, <1>3 DEF Sound, UpToDate, Unique, Fields, SchemaVersion
<1> QED
  BY <1>1, <1>3, <1>4, InsideKeeps DEF Stamp, Fields, Holding

LEMMA MigrateEgressKeeps ==
  ASSUME OpeningInv, NEW p \in Processes, MigrateEgress(p) PROVE OpeningInv'
<1>1. /\ pc[p] = "version" /\ lock = p /\ work = db /\ Sound(db) /\ lock # NoOne
      /\ work' = IF db.version < 1 THEN V1(db) ELSE db
      /\ db.version \in {0, 1}
  <2>1. pc[p] = "version" /\ lock = p /\ work = db /\ Sound(db) /\ lock # NoOne
    BY InTheTransaction DEF MigrateEgress, At, Holding
  <2>2. ~fresh[p]
    BY DEF MigrateEgress, Current, SchemaVersion
  <2> QED
    BY <2>1, <2>2 DEF MigrateEgress, InTransaction, Current, Sound, SchemaVersion
<1>2. CASE db.version = 1
  <2>1. work' = db /\ db.egress = "target"
    BY <1>1, <1>2 DEF Sound
  <2> QED
    BY <1>1, <2>1, InsideKeeps DEF MigrateEgress, InTransaction, Holding
<1>3. CASE db.version = 0
  <2> DEFINE sent == {[id |-> r.id, to |-> "none"] : r \in db.sent}
  <2>1. work' = [db EXCEPT !.egress = "target", !.sent = sent]
    BY <1>1, <1>3 DEF V1
  <2>2. db.sent \subseteq sent
    BY <1>1, <1>3 DEF Sound
  <2>3. \A r \in sent : r = [id |-> r.id, to |-> "none"]
    OBVIOUS
  <2> HIDE DEF sent
  <2>4. /\ DOMAIN work' = Fields /\ work'.sent = sent /\ work'.egress = "target"
        /\ \A f \in Fields \ {"egress", "sent"} : work'[f] = db[f]
    BY <1>1, <2>1 DEF Sound, Fields
  <2>5. Sound(work')
    BY <1>1, <1>3, <2>3, <2>4 DEF Sound, UpToDate, Unique, Fields
  <2> QED
    BY <1>1, <2>2, <2>4, <2>5, InsideKeeps
    DEF MigrateEgress, InTransaction, Fields, Holding
<1> QED
  BY <1>1, <1>2, <1>3

LEMMA MigrateJobsKeeps ==
  ASSUME OpeningInv, NEW p \in Processes, MigrateJobs(p) PROVE OpeningInv'
<1> DEFINE d == V2(work)
<1>1. /\ pc[p] = "jobs" /\ lock = p /\ Sound(db) /\ Sound(work) /\ lock # NoOne
      /\ work.egress = "target" /\ work.jobs = db.jobs
      /\ work.tables = db.tables /\ work.columns = db.columns
      /\ db.sent \subseteq work.sent /\ UNCHANGED <<db, fresh, todo>>
  BY InTheTransaction
  DEF MigrateJobs, At, OpeningInv, Transaction, Holding
<1>2. CASE Unique(d)
  <2>1. /\ work' = [d EXCEPT !.version = SchemaVersion] /\ Goes(p, "commit")
        /\ UNCHANGED lock
    BY <1>2 DEF MigrateJobs
  <2>2. IsJobs(Deduped(db.jobs)) /\ (Live(db.jobs) # {} => Live(Deduped(db.jobs)) # {})
    BY <1>1, DedupedLives DEF Sound
  <2> DEFINE js == Deduped(db.jobs)
  <2>3. d = [work EXCEPT !.index = "wide", !.jobs = js]
    BY <1>1 DEF V2
  <2> HIDE DEF d, js
  <2>4. /\ DOMAIN work' = Fields /\ work'.version = SchemaVersion
        /\ work'.index = "wide" /\ work'.jobs = js /\ d.jobs = js
        /\ \A f \in {"egress", "tables", "columns", "sent"} : work'[f] = work[f]
    BY <1>1, <2>1, <2>3 DEF Sound, Fields
  <2>5. Sound(work')
    BY <1>1, <1>2, <2>2, <2>4 DEF Sound, UpToDate, Unique, SchemaVersion, js
  <2> QED
    BY <1>1, <2>1, <2>2, <2>4, <2>5, InsideKeeps DEF Holding, js
<1>3. CASE ~Unique(d)
  <2>1. work' = db /\ lock' = NoOne /\ pc' = [pc EXCEPT ![p] = "closed"]
    BY <1>3 DEF MigrateJobs, Goes
  <2>2. TypeOK'
    BY <1>1, <2>1 DEF OpeningInv, TypeOK, Pcs
  <2>3. \A q \in Processes : Progress(q)'
    BY <1>1, <2>1, OpeningAssumption
    DEF OpeningInv, TypeOK, Progress, Holding, UpToDate, NoOne
  <2> QED
    BY <1>1, <2>1, <2>2, <2>3 DEF OpeningInv, Transaction
<1> QED
  BY <1>2, <1>3

LEMMA CommitKeeps ==
  ASSUME OpeningInv, NEW p \in Processes, Commit(p) PROVE OpeningInv'
<1>1. /\ pc[p] = "commit" /\ lock = p /\ lock # NoOne /\ Sound(work)
      /\ db' = work /\ work' = work /\ lock' = NoOne
      /\ pc' = [pc EXCEPT ![p] = "open"] /\ UNCHANGED <<fresh, todo>>
  BY InTheTransaction DEF Commit, At, Goes, Holding
<1>2. /\ work.version = SchemaVersion /\ UpToDate(work)
      /\ work.tables = db.tables /\ work.columns = db.columns
  BY <1>1 DEF OpeningInv, Transaction, Sound
<1>3. TypeOK'
  BY <1>1 DEF OpeningInv, TypeOK, Pcs
<1>4. \A q \in Processes : Progress(q)'
  <2> SUFFICES ASSUME NEW q \in Processes PROVE Progress(q)'
    OBVIOUS
  <2>1. Progress(q) /\ Progress(p) /\ pc'[q] = IF q = p THEN "open" ELSE pc[q]
    BY <1>1 DEF OpeningInv, TypeOK
  <2>2. q # NoOne
    BY OpeningAssumption DEF NoOne
  <2> QED
    BY <1>1, <1>2, <2>1, <2>2 DEF Progress, Holding
<1> QED
  BY <1>1, <1>3, <1>4 DEF OpeningInv, Transaction

LEMMA CrashKeeps ==
  ASSUME OpeningInv, NEW p \in Processes, Crash(p) PROVE OpeningInv'
<1>1. /\ pc' = [pc EXCEPT ![p] = "closed"] /\ UNCHANGED <<db, fresh, todo>>
      /\ IF lock = p THEN lock' = NoOne /\ work' = db ELSE UNCHANGED <<lock, work>>
  BY DEF Crash, Goes
<1>2. TypeOK'
  BY <1>1 DEF OpeningInv, TypeOK, Pcs
<1>3. NoOne \notin Processes
  BY OpeningAssumption DEF NoOne
<1>4. \A q \in Processes : Progress(q)'
  <2> SUFFICES ASSUME NEW q \in Processes PROVE Progress(q)'
    OBVIOUS
  <2>1. Progress(q) /\ Progress(p) /\ pc'[q] = IF q = p THEN "closed" ELSE pc[q]
    BY <1>1 DEF OpeningInv, TypeOK
  <2>2. UNCHANGED <<db, fresh, todo>> /\ (UpToDate(db) => UpToDate(db'))
    BY <1>1 DEF UpToDate, Unique
  <2> QED
    BY <1>1, <1>3, <2>1, <2>2 DEF Progress, Holding
<1>5. Transaction'
  <2>1. CASE lock = p
    BY <1>1, <2>1 DEF OpeningInv, Transaction
  <2>2. CASE lock # p
    BY <1>1, <2>2 DEF OpeningInv, TypeOK, Transaction
  <2> QED
    BY <2>1, <2>2
<1> QED
  BY <1>2, <1>4, <1>5 DEF OpeningInv

-----------------------------------------------------------------------------
(* What is written meanwhile *)

\* A write of a process that has opened the file.
LEMMA WriteKeeps ==
  ASSUME OpeningInv, NEW p \in Processes, Writes(p),
         \A f \in Fields \ {"jobs", "sent"} : db'[f] = db[f],
         DOMAIN db' = Fields, IsJobs(db'.jobs), Unique(db')
  PROVE  OpeningInv'
<1>1. /\ pc[p] = "open" /\ lock = NoOne /\ work' = db'
      /\ UNCHANGED <<lock, pc, fresh, todo>>
  BY DEF Writes, At, Free
<1>2. db.version = SchemaVersion
  BY <1>1 DEF OpeningInv, Progress
<1>3. /\ db'.version = SchemaVersion /\ db'.tables = db.tables
      /\ db'.columns = db.columns /\ db'.egress = db.egress /\ db'.index = db.index
  BY <1>2 DEF Fields
<1>4. Sound(db') /\ UpToDate(db')
  BY <1>2, <1>3 DEF OpeningInv, TypeOK, Sound, UpToDate, SchemaVersion
<1>5. TypeOK'
  BY <1>1, <1>4 DEF OpeningInv, TypeOK
<1>6. \A q \in Processes : Progress(q)'
  BY <1>1, <1>3, <1>4 DEF OpeningInv, Progress
<1> QED
  BY <1>1, <1>5, <1>6 DEF OpeningInv, Transaction

LEMMA OpenIsUpToDate ==
  ASSUME OpeningInv, NEW p \in Processes, pc[p] = "open"
  PROVE  UpToDate(db) /\ IsJobs(db.jobs) /\ DOMAIN db = Fields
  BY DEF OpeningInv, TypeOK, Progress, Sound

LEMMA EnqueueKeeps ==
  ASSUME OpeningInv, NEW p \in Processes, Enqueue(p) PROVE OpeningInv'
<1>1. UpToDate(db) /\ IsJobs(db.jobs) /\ DOMAIN db = Fields
  BY OpenIsUpToDate DEF Enqueue, Writes, At
<1> DEFINE js == <<"pending">>
<1>2. DOMAIN js = 1..1 /\ js[1] = "pending"
  OBVIOUS
<1>3. IsJobs(js) /\ Live(js) = {1}
  BY <1>2 DEF IsJobs, Live
<1> HIDE DEF js
<1>4. db' = [db EXCEPT !.jobs = js]
  BY DEF Enqueue, js
<1>5. /\ DOMAIN db' = Fields /\ db'.jobs = js
      /\ \A f \in Fields \ {"jobs", "sent"} : db'[f] = db[f]
  BY <1>1, <1>4 DEF Fields
<1>6. Unique(db')
  BY <1>3, <1>5, FS_Singleton DEF Unique
<1> QED
  BY <1>3, <1>5, <1>6, WriteKeeps DEF Enqueue

LEMMA FailsKeeps ==
  ASSUME OpeningInv, NEW p \in Processes, Fails(p) PROVE OpeningInv'
<1>1. UpToDate(db) /\ IsJobs(db.jobs) /\ DOMAIN db = Fields
  BY OpenIsUpToDate DEF Fails, Writes, At
<1>2. PICK i \in DOMAIN db.jobs : db' = [db EXCEPT !.jobs[i] = "failed"]
  BY DEF Fails
<1> DEFINE js == [db.jobs EXCEPT ![i] = "failed"]
<1>3. db' = [db EXCEPT !.jobs = js]
  BY <1>2
<1>4. DOMAIN js = DOMAIN db.jobs /\ IsJobs(js)
  BY <1>1 DEF IsJobs
<1> HIDE DEF js
<1>5. /\ DOMAIN db' = Fields /\ db'.jobs = js
      /\ \A f \in Fields \ {"jobs", "sent"} : db'[f] = db[f]
  BY <1>1, <1>3 DEF Fields
<1>6. Unique(db')
  BY <1>1, <1>4, <1>5, OneJobAtMost DEF UpToDate
<1> QED
  BY <1>4, <1>5, <1>6, WriteKeeps DEF Fails

LEMMA LogToolKeeps ==
  ASSUME OpeningInv, NEW p \in Processes, LogTool(p) PROVE OpeningInv'
<1>1. UpToDate(db) /\ IsJobs(db.jobs) /\ DOMAIN db = Fields
  BY OpenIsUpToDate DEF LogTool, Writes, At
<1>2. /\ DOMAIN db' = Fields /\ \A f \in Fields \ {"sent"} : db'[f] = db[f]
  BY <1>1 DEF LogTool, Fields
<1>3. db'.jobs = db.jobs
  BY <1>2 DEF Fields
<1>4. Unique(db')
  BY <1>1, <1>3 DEF UpToDate, Unique
<1> QED
  BY <1>1, <1>2, <1>3, <1>4, WriteKeeps DEF LogTool

-----------------------------------------------------------------------------

LEMMA NextOpeningInv == OpeningInv /\ [Next]_vars => OpeningInv'
<1> SUFFICES ASSUME OpeningInv, [Next]_vars PROVE OpeningInv'
  OBVIOUS
<1>1. ASSUME NEW p \in Processes, Opens(p) PROVE OpeningInv'
  BY <1>1, ProbeKeeps, ScriptKeeps, AlterKeeps, BackfillKeeps, StampKeeps,
     MigrateEgressKeeps, MigrateJobsKeeps, CommitKeeps DEF Opens
<1>2. CASE UNCHANGED vars
  <2>1. UNCHANGED <<db, work, lock, pc, fresh, todo>>
    BY <1>2 DEF vars
  <2>2. TypeOK' /\ Transaction'
    BY <2>1 DEF OpeningInv, TypeOK, Transaction
  <2>3. \A p \in Processes : Progress(p)'
    BY <2>1 DEF OpeningInv, Progress
  <2> QED
    BY <2>2, <2>3 DEF OpeningInv
<1> QED
  BY <1>1, <1>2, CrashKeeps, EnqueueKeeps, FailsKeeps, LogToolKeeps DEF Next

\* Every reachable state satisfies the inductive invariant.
THEOREM OpeningInvariant == Spec => []OpeningInv
  BY InitOpeningInv, NextOpeningInv, PTL DEF Spec

\* No connection that init_db returned is to a database of another schema,
\* however many processes opened the file at once and died doing so.
THEOREM OpenIsCurrent == Spec => []OpenMeansCurrent
<1>1. OpeningInv => OpenMeansCurrent
  <2> SUFFICES ASSUME OpeningInv, NEW p \in Processes, pc[p] = "open"
               PROVE  /\ db.version = SchemaVersion /\ db.tables = Named
                      /\ db.columns = Columns
                      /\ db.egress = "target" /\ db.index = "wide"
    BY DEF OpenMeansCurrent, At
  <2> QED
    BY OpenIsUpToDate DEF OpeningInv, Progress, UpToDate
<1> QED
  BY <1>1, OpeningInvariant, PTL

\* What a step may do to the rows there are.
RowsKept(d, e) ==
  /\ \A r \in d.sent : r \in e.sent
  /\ Live(d.jobs) # {} => Live(e.jobs) # {}

LEMMA StepKeepsRows ==
  ASSUME OpeningInv, [Next]_vars PROVE RowsKept(db, db')
<1>1. CASE UNCHANGED db
  BY <1>1 DEF RowsKept
<1>2. ASSUME NEW p \in Processes, Script(p) PROVE RowsKept(db, db')
  <2>1. CASE todo[p].tables = <<>>
    BY <1>2, <2>1 DEF Script, RowsKept
  <2>2. CASE todo[p].tables # <<>>
    <3>1. todo[p].tables \in Seq(Named)
      BY DEF OpeningInv, TypeOK
    <3>2. Head(todo[p].tables) \in Named
      BY <2>2, <3>1, HeadTailProperties
    <3>3. db'.jobs = db.jobs /\ db'.sent = db.sent
      BY <1>2, <2>2, <3>2, CreatedSound DEF Script, OpeningInv, TypeOK
    <3> QED
      BY <3>3 DEF RowsKept
  <2> QED
    BY <2>1, <2>2
<1>3. ASSUME NEW p \in Processes, Alter(p) PROVE RowsKept(db, db')
  <2>1. PICK c : IF Free THEN db' = [db EXCEPT !.columns = @ \cup {c}]
                         ELSE UNCHANGED db
    BY <1>3 DEF Alter
  <2>2. db'.jobs = db.jobs /\ db'.sent = db.sent
    BY <2>1 DEF OpeningInv, TypeOK, Sound, Fields
  <2> QED
    BY <2>2 DEF RowsKept
<1>4. ASSUME NEW p \in Processes, Commit(p) PROVE RowsKept(db, db')
  <2>1. lock # NoOne /\ db' = work
    BY <1>4, InTheTransaction DEF Commit, At, Holding
  <2> QED
    BY <2>1 DEF OpeningInv, Transaction, RowsKept
<1>5. ASSUME NEW p \in Processes, Enqueue(p) PROVE RowsKept(db, db')
  <2>1. DOMAIN db = Fields /\ db' = [db EXCEPT !.jobs = <<"pending">>]
    BY <1>5 DEF Enqueue, OpeningInv, TypeOK, Sound
  <2>2. db'.sent = db.sent
    BY <2>1 DEF Fields
  <2> QED
    BY <1>5, <2>2 DEF Enqueue, RowsKept
<1>6. ASSUME NEW p \in Processes, Fails(p) PROVE RowsKept(db, db')
  <2>1. PICK i \in DOMAIN db.jobs : db' = [db EXCEPT !.jobs[i] = "failed"]
    BY <1>6 DEF Fails
  <2> DEFINE js == [db.jobs EXCEPT ![i] = "failed"]
  <2>2. db' = [db EXCEPT !.jobs = js] /\ i \in Live(js)
    BY <2>1 DEF Live
  <2> HIDE DEF js
  <2>3. db'.sent = db.sent /\ db'.jobs = js
    BY <2>2 DEF OpeningInv, TypeOK, Sound, Fields
  <2> QED
    BY <2>2, <2>3 DEF RowsKept
<1>7. ASSUME NEW p \in Processes, LogTool(p) PROVE RowsKept(db, db')
  <2>1. PICK r : db' = [db EXCEPT !.sent = @ \cup {r}]
    BY <1>7 DEF LogTool
  <2>2. db'.sent = db.sent \cup {r} /\ db'.jobs = db.jobs
    BY <2>1 DEF OpeningInv, TypeOK, Sound, Fields
  <2> QED
    BY <2>2 DEF RowsKept
<1>8. ASSUME NEW p \in Processes,
             Probe(p) \/ Backfill(p) \/ Stamp(p) \/ MigrateEgress(p)
               \/ MigrateJobs(p) \/ Crash(p)
      PROVE  UNCHANGED db
  BY <1>8 DEF Probe, Backfill, Stamp, MigrateEgress, InTransaction, MigrateJobs,
              Crash
<1> QED
  BY <1>1, <1>2, <1>3, <1>4, <1>5, <1>6, <1>7, <1>8 DEF Next, Opens, vars

\* No step loses an egress row, where one says a call went, or the last live
\* job of a key; and a database with the version has one live job at most.
THEOREM MigratingLosesNothing == Spec => NothingLost
<1>1. OpeningInv /\ OpeningInv' /\ [Next]_vars =>
        [/\ \A r \in db.sent : r \in db'.sent
         /\ Live(db.jobs) # {} => Live(db'.jobs) # {}
         /\ db'.version = SchemaVersion => Cardinality(Live(db'.jobs)) <= 1]_vars
  <2> SUFFICES ASSUME OpeningInv, OpeningInv', [Next]_vars
               PROVE  /\ RowsKept(db, db')
                      /\ db'.version = SchemaVersion => Unique(db')
    BY DEF RowsKept, Unique
  <2> QED
    BY StepKeepsRows DEF OpeningInv, TypeOK, Sound, UpToDate
<1> QED
  BY <1>1, OpeningInvariant, PTL DEF Spec, NothingLost

-----------------------------------------------------------------------------
(* The screens: what stands on what *)

Listings == UNION {[D -> [head : Nat, withheld : BOOLEAN]] : D \in SUBSET Notes}

EditWindows == [kind : {"edit"}, note : Notes, head : Nat, body : Bodies,
                text : Bodies, withheld : BOOLEAN]

\* What each kind of screen remembers.
Windows ==
  [kind : {"capture"}, text : Texts \cup {Blank}, pending : BOOLEAN]
    \cup [kind : Lists, at : Nat, rows : Listings]
    \cup EditWindows
    \cup [kind : {"reconcile"}, note : Notes, text : Bodies, head : Nat,
          quits : BOOLEAN]
    \cup [kind : {"discard"}, quits : BOOLEAN]
    \cup [kind : {"clear", "delete"}, note : Notes]
    \cup [kind : {"view", "peek"}]

Panels == [timer : BOOLEAN, pass : Texts \cup {NoText},
           shown : Texts \cup {NoText}]

ScreensTypeOK ==
  /\ notes \in [Notes -> [head : Nat, body : Bodies, live : BOOLEAN,
                         withheld : BOOLEAN]]
  /\ stack \in Seq(Windows)
  /\ app \in {"open", "exited", "crashed"} /\ (app = "open" <=> stack # <<>>)
  /\ panel \in Panels
  /\ typed \in 0..MaxTyped /\ elsewhere \in 0..MaxElsewhere
  /\ lost \subseteq BOOLEAN

\* A screen over another: capture is over none, nothing is over a modal one,
\* an editor is over a list, a discard dialog over an editor, and a rejected
\* save over the editor whose text it holds.
On(s, u) ==
  /\ s.kind # "capture" /\ u.kind \notin Modal
  /\ s.kind = "edit" => u.kind \in Lists
  /\ s.kind = "reconcile" => u.kind = "edit" /\ u.text = s.text
  /\ s.kind = "discard" => u.kind \in Editors /\ (s.quits \/ u.kind = "edit")
  /\ s.kind = "clear" => u.kind \in {"browse", "edit"}
  /\ s.kind = "delete" => u.kind = "browse"

\* No list read the notes later than now.
ReadBy(s) == s.kind \in Lists => s.at <= elsewhere

Stacked ==
  /\ \A i \in 1..Len(stack) : ReadBy(stack[i])
  /\ stack # <<>> => stack[1].kind = "capture"
  /\ \A i \in 1..Len(stack) : i > 1 => On(stack[i], stack[i - 1])

\* What the panel shows, or is going to show, is about the text of capture.
PanelKnows ==
  LET text == stack[1].text IN
  app = "open" =>
    /\ text = Blank => panel = Quiet
    /\ (~panel.timer /\ panel.pass # NoText) => panel.pass = text
    /\ PanelFollowsText

ScreensInv ==
  /\ ScreensTypeOK
  /\ Stacked
  /\ PanelKnows
  /\ ListsAreCurrent
  /\ EditedTextKept


NoteRows == [head : Nat, body : Bodies, live : BOOLEAN, withheld : BOOLEAN]

LEMMA StackLengths ==
  ASSUME ScreensTypeOK
  PROVE  /\ Len(stack) \in Nat
         /\ \A i \in 1..Len(stack) : stack[i] \in Windows
         /\ app = "open" => Len(stack) > 0 /\ Top = stack[Len(stack)] /\ Top \in Windows
<1>1. Len(stack) \in Nat /\ \A i \in 1..Len(stack) : stack[i] \in Windows
  BY ElementOfSeq, LenProperties DEF ScreensTypeOK
<1>2. ASSUME app = "open" PROVE Len(stack) > 0
  BY <1>1, <1>2, EmptySeq DEF ScreensTypeOK
<1>3. Top = stack[Len(stack)]
  BY DEF Top, Last
<1> QED
  BY <1>1, <1>2, <1>3

\* The first m screens as they were, and one on top.
LEMMA OneOnTop ==
  ASSUME ScreensTypeOK, NEW m \in 0..Len(stack), NEW t \in Windows,
         stack' = Append(SubSeq(stack, 1, m), t)
  PROVE  /\ stack' \in Seq(Windows) /\ stack' # <<>>
         /\ Len(stack') = m + 1 /\ stack'[m + 1] = t
         /\ \A i \in 1..m : stack'[i] = stack[i]
<1> DEFINE q == SubSeq(stack, 1, m)
<1>0. Len(stack) \in Nat /\ m \in Nat /\ m <= Len(stack) /\ 1 \in Nat
  BY StackLengths
<1>1. q \in Seq(Windows) /\ Len(q) = m /\ \A i \in 1..m : q[i] = stack[i]
  <2>1. \A i \in 1..m : stack[i] \in Windows
    BY <1>0, StackLengths
  <2> QED
    BY <1>0, <2>1, SubSeqProperties DEF ScreensTypeOK
<1> HIDE DEF q
<1>2. /\ Append(q, t) \in Seq(Windows) /\ Append(q, t) # <<>>
      /\ Len(Append(q, t)) = Len(q) + 1
      /\ \A i \in 1..Len(q) : Append(q, t)[i] = q[i]
      /\ Append(q, t)[Len(q) + 1] = t
  BY <1>1, AppendProperties
<1> QED
  BY <1>1, <1>2 DEF q

\* What a reloaded screen is: the same, but a list has the notes as they are.
LEMMA ReloadedScreen ==
  ASSUME notes' \in [Notes -> NoteRows], elsewhere' \in Nat, NEW s \in Windows
  PROVE  /\ Reloaded(s) \in Windows /\ Reloaded(s).kind = s.kind
         /\ s.kind \notin Lists => Reloaded(s) = s
         /\ s.kind \in Lists =>
              /\ Reloaded(s).at = elsewhere'
              /\ \A n \in DOMAIN Reloaded(s).rows :
                   notes'[n].live /\ Reloaded(s).rows[n] = Row(n)'
<1>1. CASE s.kind \notin Lists
  BY <1>1 DEF Reloaded
<1>2. CASE s.kind \in Lists
  <2> DEFINE L == {m \in Notes : notes'[m].live}
             rows == [n \in L |-> [head |-> notes'[n].head, withheld |-> notes'[n].withheld]]
  <2>1. s \in [kind : Lists, at : Nat, rows : Listings]
    BY <1>2 DEF Windows, EditWindows, Lists
  <2>2. rows \in [L -> [head : Nat, withheld : BOOLEAN]]
    BY DEF NoteRows
  <2>3. rows \in Listings
    BY <2>2 DEF Listings
  <2>4. Reloaded(s) = [s EXCEPT !.at = elsewhere', !.rows = rows]
    BY <1>2 DEF Reloaded, Read
  <2>5. \A n \in DOMAIN rows : notes'[n].live /\ rows[n] = Row(n)'
    BY DEF Row
  <2> HIDE DEF rows, L
  <2>6. /\ Reloaded(s) \in [kind : Lists, at : Nat, rows : Listings]
        /\ Reloaded(s).kind = s.kind /\ Reloaded(s).at = elsewhere'
        /\ Reloaded(s).rows = rows
    BY <2>1, <2>3, <2>4
  <2> QED
    BY <1>2, <2>5, <2>6 DEF Windows, EditWindows
<1> QED
  BY <1>1, <1>2

\* Only what is dropped unsettled, by the one who works on it, is lost.
LEMMA SettledKept ==
  ASSUME ScreensTypeOK, EditedTextKept, NEW k, NEW own, NEW settled,
         Drops(k, own, settled),
         own \in 1..Len(stack) =>
           \/ ~Unsaved(stack[own])
           \/ stack[own].text \in settled \cup Drafted,
         k \in Nat \ {0}
  PROVE  EditedTextKept' /\ lost' \subseteq BOOLEAN
<1> DEFINE Dropped == {j \in k..Len(stack) :
                         Unsaved(stack[j]) /\ stack[j].text \notin settled \cup Drafted}
           more == {i = own : i \in Dropped}
<1>1. lost' = lost \cup more
  BY DEF Drops
<1>2. own \notin Dropped
  BY StackLengths
<1> HIDE DEF Dropped
<1>3. more \subseteq BOOLEAN /\ TRUE \notin more
  BY <1>2, Zenon
<1> QED
  BY <1>1, <1>3, Zenon DEF EditedTextKept, ScreensTypeOK

\* The same screens below, and one on top that is read again if it is a list.
LEMMA Arrives ==
  ASSUME ScreensInv, app = "open", app' = "open",
         NEW m \in 0..Len(stack), NEW t \in Windows,
         stack' = Append(SubSeq(stack, 1, m), Reloaded(t)),
         m = 0 => t.kind = "capture",
         m > 0 => On(t, stack[m]),
         notes' \in [Notes -> NoteRows], typed' \in 0..MaxTyped,
         UNCHANGED elsewhere,
         panel' \in Panels,
         PanelKnows', EditedTextKept', lost' \subseteq BOOLEAN
  PROVE  ScreensInv'
<1>0. ScreensTypeOK /\ Stacked /\ elsewhere' \in Nat /\ Len(stack) \in Nat
  BY StackLengths, ScreensAssumption DEF ScreensInv, ScreensTypeOK
<1> DEFINE r == Reloaded(t)
<1>1. /\ r \in Windows /\ r.kind = t.kind
      /\ t.kind \notin Lists => r = t
      /\ t.kind \in Lists =>
              /\ r.at = elsewhere'
              /\ \A n \in DOMAIN r.rows : notes'[n].live /\ r.rows[n] = Row(n)'
  BY <1>0, ReloadedScreen
<1> HIDE DEF r
<1>2. /\ stack' \in Seq(Windows) /\ stack' # <<>>
      /\ Len(stack') = m + 1 /\ stack'[m + 1] = r
      /\ \A i \in 1..m : stack'[i] = stack[i]
  BY <1>0, <1>1, OneOnTop DEF r
<1>3. ScreensTypeOK'
  BY <1>0, <1>2 DEF ScreensTypeOK, NoteRows
<1>4. Stacked'
  <2>1. ASSUME NEW i \in 1..(m + 1) PROVE ReadBy(stack[i])'
    <3>1. CASE i \in 1..m
      BY <1>0, <1>2, <3>1 DEF Stacked, ReadBy
    <3>2. CASE i = m + 1
      BY <1>0, <1>1, <1>2, <3>2 DEF ReadBy
    <3> QED
      BY <1>0, <3>1, <3>2
  <2>2. stack'[1].kind = "capture"
    <3>1. CASE m = 0
      BY <1>1, <1>2, <3>1
    <3>2. CASE m > 0
      <4>1. 1 \in 1..m /\ stack # <<>>
        BY <1>0, <3>2, EmptySeq
      <4> QED
        BY <1>0, <1>2, <4>1 DEF Stacked
    <3> QED
      BY <1>0, <3>1, <3>2
  <2>3. m > 0 => On(r, stack[m])
    <3>1. ASSUME m > 0 PROVE On(r, stack[m])
      BY <1>1, <3>1 DEF On, Lists
    <3> QED
      BY <3>1
  <2>4. ASSUME NEW i \in 1..(m + 1), i > 1 PROVE On(stack'[i], stack'[i - 1])
    <3>1. CASE i \in 1..m
      <4>1. i - 1 \in 1..m /\ i \in 1..Len(stack)
        BY <1>0, <2>4, <3>1
      <4> QED
        BY <1>0, <1>2, <2>4, <3>1, <4>1 DEF Stacked
    <3>2. CASE i = m + 1
      <4>1. m > 0 /\ i - 1 = m /\ m \in 1..m
        BY <2>4, <3>2
      <4> QED
        BY <1>2, <2>3, <3>2, <4>1
    <3>3. i \in 1..m \/ i = m + 1
      BY <1>0
    <3> QED
      BY <3>1, <3>2, <3>3
  <2> QED
    BY <1>2, <2>1, <2>2, <2>4 DEF Stacked, On
<1>5. ListsAreCurrent'
  <2>1. Top' = r
    BY <1>2 DEF Top, Last
  <2> QED
    BY <1>1, <2>1 DEF ListsAreCurrent, Shows
<1> QED
  BY <1>3, <1>4, <1>5 DEF ScreensInv

\* Nothing happens in capture, so the panel stays right.
LEMMA PanelStays ==
  ASSUME PanelKnows, UNCHANGED panel,
         app' = "open" => app = "open" /\ stack'[1].text = stack[1].text
  PROVE  PanelKnows'
  BY DEF PanelKnows, PanelFollowsText, Quiet


LEMMA FirstIsCapture ==
  ASSUME ScreensInv, app = "open"
  PROVE  /\ stack[1].kind = "capture"
         /\ \A i \in 2..Len(stack) : On(stack[i], stack[i - 1])
         /\ \A i \in 2..Len(stack) : stack[i].kind # "capture"
         /\ stack[1] \in Windows /\ 1 \in 1..Len(stack)
<1>1. stack # <<>> /\ Len(stack) \in Nat /\ Len(stack) > 0
  BY StackLengths DEF ScreensInv, ScreensTypeOK
<1>2. \A i \in 2..Len(stack) : i \in 1..Len(stack) /\ i > 1
  BY <1>1
<1>3. \A i \in 2..Len(stack) : On(stack[i], stack[i - 1])
  BY <1>2 DEF ScreensInv, Stacked
<1>4. \A i \in 2..Len(stack) : stack[i].kind # "capture"
  BY <1>3 DEF On
<1>5. 1 \in 1..Len(stack)
  BY <1>1
<1> QED
  BY <1>1, <1>3, <1>4, <1>5, StackLengths DEF ScreensInv, Stacked

\* What is resumed is the top.
LEMMA ResumedAppend ==
  ASSUME NEW q \in Seq(Windows), NEW s \in Windows
  PROVE  Resumed(Append(q, s)) = Append(q, Reloaded(s))
<1> DEFINE a == Append(q, s)
<1>1. Len(q) \in Nat /\ a \in Seq(Windows) /\ Len(a) = Len(q) + 1 /\ a[Len(q) + 1] = s
      /\ \A i \in 1..Len(q) : a[i] = q[i]
  BY LenProperties, AppendProperties
<1>2. Front(a) = q
  <2>1. Front(a) = SubSeq(a, 1, Len(q))
    BY <1>1 DEF Front
  <2>2. /\ SubSeq(a, 1, Len(q)) \in Seq(Windows) /\ Len(SubSeq(a, 1, Len(q))) = Len(q)
        /\ \A i \in 1..Len(q) : SubSeq(a, 1, Len(q))[i] = a[i]
    <3>1. \A i \in 1..Len(q) : a[i] \in Windows
      BY <1>1, ElementOfSeq
    <3>2. 1 \in Nat /\ Len(q) \in Nat /\ Len(q) - 1 + 1 = Len(q)
      BY <1>1
    <3> HIDE DEF a
    <3> QED
      BY <1>1, <3>1, <3>2, SubSeqProperties
  <2> QED
    BY <1>1, <2>1, <2>2, SeqEqual
<1>3. Last(a) = s
  BY <1>1 DEF Last
<1> QED
  BY <1>2, <1>3 DEF Resumed

\* What is resumed below the k topmost screens.
LEMMA ResumedBelow ==
  ASSUME ScreensTypeOK, NEW k \in 0..(Len(stack) - 1)
  PROVE  /\ Len(stack) - k - 1 \in 0..Len(stack) /\ Len(stack) - k \in 1..Len(stack)
         /\ Last(Below(k)) = stack[Len(stack) - k]
         /\ Below(k) = Append(SubSeq(stack, 1, Len(stack) - k - 1), stack[Len(stack) - k])
<1> DEFINE n == Len(stack)
           m == n - k
           b == SubSeq(stack, 1, m)
           f == SubSeq(stack, 1, m - 1)
<1>1. /\ n \in Nat /\ m \in 1..n /\ m - 1 \in 0..n /\ k \in Nat /\ m - 1 <= m /\ 1 \in Nat
      /\ \A i \in 1..m : i \in 1..n
      /\ \A i \in 1..(m - 1) : i \in 1..n
  BY StackLengths
<1>2. \A i \in 1..n : stack[i] \in Windows
  BY StackLengths
<1> HIDE DEF n, m
<1>3. /\ b \in Seq(Windows) /\ Len(b) = m /\ \A i \in 1..m : b[i] = stack[i]
  BY <1>1, <1>2, SubSeqProperties DEF ScreensTypeOK
<1>4. /\ f \in Seq(Windows) /\ Len(f) = m - 1 /\ \A i \in 1..(m - 1) : f[i] = stack[i]
  BY <1>1, <1>2, SubSeqProperties DEF ScreensTypeOK
<1> HIDE DEF b, f
<1>5. stack[m] \in Windows
  BY <1>1, <1>2
<1>6. /\ Append(f, stack[m]) \in Seq(Windows) /\ Len(Append(f, stack[m])) = m
      /\ \A i \in 1..(m - 1) : Append(f, stack[m])[i] = stack[i]
      /\ Append(f, stack[m])[m] = stack[m]
  BY <1>1, <1>4, <1>5, AppendProperties
<1>7. b = Append(f, stack[m])
  <2>1. \A i \in 1..m : b[i] = Append(f, stack[m])[i]
    BY <1>1, <1>3, <1>6
  <2> QED
    BY <1>3, <1>6, <2>1, SeqEqual
<1>8. Last(b) = stack[m]
  BY <1>1, <1>3 DEF Last
<1> QED
  BY <1>1, <1>7, <1>8 DEF Below, b, f, m, n

\* A screen is pushed, and resumed as it is.
LEMMA PushKeeps ==
  ASSUME ScreensInv, app = "open", NEW s \in Windows, Pushes(s), On(s, Top),
         notes' \in [Notes -> NoteRows],
         UNCHANGED <<app, panel, typed, elsewhere, lost>>
  PROVE  ScreensInv'
<1> DEFINE n == Len(stack)
<1>0. ScreensTypeOK /\ n \in Nat /\ n > 0 /\ Top = stack[n] /\ 1 \in 1..n
  BY StackLengths DEF ScreensInv
<1>1. SubSeq(stack, 1, n) = stack
  BY <1>0, SubSeqFull DEF ScreensTypeOK
<1>2. stack' = Append(stack, Reloaded(s))
  BY <1>0, ResumedAppend DEF Pushes, ScreensTypeOK
<1>3. UNCHANGED <<stack[1]>>
  <2>1. Reloaded(s) \in Windows
    BY <1>0, ReloadedScreen, ScreensAssumption DEF ScreensTypeOK
  <2> QED
    BY <1>0, <1>2, <2>1, AppendProperties DEF ScreensTypeOK
<1>4. PanelKnows'
  BY <1>3, PanelStays DEF ScreensInv
<1> QED
  <2>1. n \in 0..n /\ stack' = Append(SubSeq(stack, 1, n), Reloaded(s))
    BY <1>0, <1>1, <1>2
  <2>2. EditedTextKept' /\ lost' \subseteq BOOLEAN /\ typed' \in 0..MaxTyped
        /\ panel' \in Panels
    BY <1>0 DEF ScreensInv, ScreensTypeOK, EditedTextKept
  <2>3. On(s, stack[n]) /\ n # 0 /\ app' = "open" /\ elsewhere' = elsewhere
    BY <1>0
  <2> HIDE DEF n
  <2> QED
    BY <1>4, <2>1, <2>2, <2>3, Arrives DEF n

\* The k topmost screens close, and the one below is resumed.
LEMMA CloseKeeps ==
  ASSUME ScreensInv, app = "open", NEW k \in 0..(Len(stack) - 1), Closes(k),
         notes' \in [Notes -> NoteRows],
         UNCHANGED <<app, panel, typed, elsewhere>>,
         EditedTextKept', lost' \subseteq BOOLEAN
  PROVE  ScreensInv'
<1> DEFINE n == Len(stack)
           m == n - k - 1
           t == stack[n - k]
<1>0. ScreensTypeOK /\ n \in Nat /\ m \in 0..n /\ n - k \in 1..n /\ m + 1 = n - k
  BY StackLengths, ResumedBelow DEF ScreensInv
<1>1. t \in Windows
  BY <1>0, StackLengths
<1>2. SubSeq(stack, 1, m) \in Seq(Windows)
  <2>1. 1 \in Nat /\ m \in Nat /\ \A i \in 1..m : i \in 1..n
    BY <1>0
  <2>2. \A i \in 1..m : stack[i] \in Windows
    BY <1>0, <2>1, StackLengths
  <2> QED
    BY <2>1, <2>2, SubSeqProperties DEF ScreensTypeOK
<1>3. stack' = Append(SubSeq(stack, 1, m), Reloaded(t))
  BY <1>0, <1>1, <1>2, ResumedBelow, ResumedAppend DEF Closes
<1>4. m = 0 => t.kind = "capture"
  <2> HIDE DEF m
  <2>1. ASSUME m = 0 PROVE n - k = 1
    BY <1>0, <2>1, SMT
  <2> QED
    BY <2>1, FirstIsCapture
<1>5. m > 0 => On(t, stack[m])
  <2>1. ASSUME m > 0 PROVE n - k \in 2..n /\ (n - k) - 1 = m
    BY <1>0, <2>1
  <2> QED
    BY <2>1, FirstIsCapture
<1> HIDE DEF m
<1>6. stack'[1] = stack[1] \/ (m = 0 /\ stack'[1] = Reloaded(stack[1]))
  <2>1. Reloaded(t) \in Windows
    BY <1>0, <1>1, ReloadedScreen, ScreensAssumption DEF ScreensTypeOK
  <2>2. stack'[m + 1] = Reloaded(t) /\ \A i \in 1..m : stack'[i] = stack[i]
    BY <1>0, <1>3, <2>1, OneOnTop
  <2>3. m > 0 => 1 \in 1..m
    BY <1>0
  <2>4. CASE m = 0
    <3>1. n - k = 1 /\ m + 1 = 1
      BY <1>0, <2>4, SMT
    <3>2. stack'[1] = Reloaded(stack[1])
      BY <2>2, <3>1
    <3> QED
      BY <2>4, <3>2
  <2>5. CASE m > 0
    BY <2>2, <2>3, <2>5
  <2>6. m = 0 \/ m > 0
    BY <1>0
  <2> QED
    BY <2>4, <2>5, <2>6
<1>7. stack'[1] = stack[1]
  <2>1. stack[1].kind \notin Lists
    BY FirstIsCapture DEF Lists
  <2> QED
    BY <1>6, <2>1 DEF Reloaded
<1>8. PanelKnows'
  BY <1>7, PanelStays DEF ScreensInv
<1> HIDE DEF t
<1> QED
  BY <1>0, <1>1, <1>3, <1>4, <1>5, <1>8, Arrives DEF ScreensInv, ScreensTypeOK

\* The app ends.
LEMMA ExitKeeps ==
  ASSUME ScreensInv, app' \in {"exited", "crashed"}, stack' = <<>>,
         notes' \in [Notes -> NoteRows],
         UNCHANGED <<panel, typed, elsewhere>>,
         EditedTextKept', lost' \subseteq BOOLEAN
  PROVE  ScreensInv'
<1>1. ScreensTypeOK'
  BY EmptySeq DEF ScreensInv, ScreensTypeOK, NoteRows
<1>2. Stacked'
  BY EmptySeq DEF Stacked
<1> QED
  BY <1>1, <1>2 DEF ScreensInv, PanelKnows, ListsAreCurrent, Shows


\* The k topmost screens close, or all of them do; the one the user works on
\* is settled.
LEMMA LeavesKeeps ==
  ASSUME ScreensInv, app = "open", NEW k \in 1..Len(stack), NEW quits \in BOOLEAN,
         NEW settled, Leaves(k, quits, settled), quits \/ k < Len(stack),
         \/ ~Unsaved(stack[Len(stack) - k + 1])
         \/ stack[Len(stack) - k + 1].text \in settled \cup Drafted,
         notes' \in [Notes -> NoteRows], UNCHANGED <<panel, typed, elsewhere>>
  PROVE  ScreensInv'
<1> DEFINE own == Len(stack) - k + 1
<1>0. /\ ScreensTypeOK /\ EditedTextKept /\ Len(stack) \in Nat
      /\ own \in Nat \ {0} /\ 1 \in Nat \ {0}
  BY StackLengths DEF ScreensInv
<1>1. CASE quits
  <2>1. app' = "exited" /\ stack' = <<>> /\ Drops(1, own, settled)
    BY <1>1 DEF Leaves, Exits
  <2>2. EditedTextKept' /\ lost' \subseteq BOOLEAN
    BY <1>0, <2>1, SettledKept
  <2> QED
    BY <2>1, <2>2, ExitKeeps
<1>2. CASE ~quits
  <2>1. app' = app /\ Closes(k) /\ Drops(own, own, settled)
    BY <1>2 DEF Leaves, Pops
  <2>2. EditedTextKept' /\ lost' \subseteq BOOLEAN
    BY <1>0, <2>1, SettledKept
  <2>3. k \in 0..(Len(stack) - 1)
    BY <1>0, <1>2
  <2> QED
    BY <2>1, <2>2, <2>3, CloseKeeps
<1> QED
  BY <1>1, <1>2

\* Notes stay well formed, whatever is saved.
LEMMA SavedNotes ==
  ASSUME ScreensTypeOK, NEW s \in Windows, s.kind \in {"edit", "reconcile"}, Saved(s)
  PROVE  notes' \in [Notes -> NoteRows]
<1>1. s.note \in Notes /\ s.text \in Bodies
  BY DEF Windows, EditWindows, Lists
<1>2. notes \in [Notes -> NoteRows] /\ notes[s.note] \in NoteRows
  BY <1>1 DEF ScreensTypeOK, NoteRows
<1>3. ASSUME NEW r \in NoteRows PROVE Rewritten(r, s.text) \in NoteRows
  <2>1. r.head + 1 \in Nat
    BY DEF NoteRows
  <2> QED
    BY <1>1, <2>1 DEF Rewritten, NoteRows
<1> QED
  BY <1>1, <1>2, <1>3 DEF Saved

LEMMA CapturedNotes ==
  ASSUME ScreensTypeOK, NEW n \in Notes, NEW text \in Bodies, NEW pending \in BOOLEAN,
         Captured(n, text, pending)
  PROVE  notes' \in [Notes -> NoteRows]
<1>1. [head |-> 1, body |-> text, live |-> TRUE, withheld |-> pending] \in NoteRows
  BY DEF NoteRows
<1> QED
  BY <1>1 DEF Captured, ScreensTypeOK, NoteRows

LEMMA ChangedNotes ==
  ASSUME ScreensTypeOK, NEW n \in Notes
  PROVE  /\ Tombstoned(n) \in [Notes -> NoteRows] /\ Toggled(n) \in [Notes -> NoteRows]
         /\ [notes EXCEPT ![n].head = @ + 1, ![n].body = Theirs] \in [Notes -> NoteRows]
<1>1. notes \in [Notes -> NoteRows] /\ notes[n] \in NoteRows
  BY DEF ScreensTypeOK, NoteRows
<1>2. ASSUME NEW r \in NoteRows
      PROVE  /\ Buried(r) \in NoteRows
             /\ [r EXCEPT !.withheld = ~@] \in NoteRows
             /\ [r EXCEPT !.head = @ + 1, !.body = Theirs] \in NoteRows
  <2>1. r.head + 1 \in Nat /\ (~r.withheld) \in BOOLEAN /\ Theirs \in Bodies
    BY DEF NoteRows, Bodies
  <2> QED
    BY <2>1 DEF NoteRows, Buried
<1>3. ASSUME NEW v \in NoteRows PROVE [notes EXCEPT ![n] = v] \in [Notes -> NoteRows]
  BY <1>1
<1> DEFINE flipped == [notes[n] EXCEPT !.withheld = ~@]
           edited == [notes[n] EXCEPT !.head = @ + 1, !.body = Theirs]
<1>4. Buried(notes[n]) \in NoteRows /\ flipped \in NoteRows /\ edited \in NoteRows
  BY <1>1, <1>2
<1>5. /\ Tombstoned(n) = [notes EXCEPT ![n] = Buried(notes[n])]
      /\ Toggled(n) = [notes EXCEPT ![n] = flipped]
  BY <1>1 DEF Tombstoned, Toggled
<1>6. [notes EXCEPT ![n].head = @ + 1, ![n].body = Theirs] = [notes EXCEPT ![n] = edited]
  BY <1>1
<1> HIDE DEF flipped, edited
<1> QED
  BY <1>3, <1>4, <1>5, <1>6

\* The editor that is k-th from the top saves, with what stands over it.
LEMMA SavesKeep ==
  ASSUME ScreensInv, app = "open", NEW k \in 1..(Len(stack) - 1),
         NEW s, s = stack[Len(stack) - k + 1], s.kind = "edit",
         NEW quits \in BOOLEAN, Saves(s, k, quits),
         UNCHANGED <<panel, typed, elsewhere>>
  PROVE  ScreensInv'
<1> DEFINE n == Len(stack)
           p == n - k + 1
<1>0. /\ ScreensTypeOK /\ EditedTextKept /\ n \in Nat /\ p \in 2..n /\ p \in 1..n
      /\ n - (k - 1) = p /\ k - 1 \in 0..(n - 1) /\ k < n /\ k \in 1..n
      /\ p - 1 \in 1..n /\ p - 1 > 0
      /\ notes \in [Notes -> NoteRows]
  BY StackLengths DEF ScreensInv, ScreensTypeOK, NoteRows
<1>1. /\ s \in EditWindows
      /\ s \in Windows /\ s.kind \notin Lists
  <2>1. s \in Windows
    BY <1>0, StackLengths
  <2> QED
    BY <2>1 DEF Windows, EditWindows, Lists
<1>2. On(s, stack[p - 1])
  BY <1>0, FirstIsCapture
<1>3. CASE s.text = Blank /\ stack' = Below(k - 1) /\ Stays /\ UNCHANGED notes
  <2>1. /\ stack' = Append(SubSeq(stack, 1, p - 1), s) /\ p - 1 \in 0..n
    BY <1>0, <1>3, ResumedBelow
  <2>2. s = Reloaded(s)
    BY <1>1 DEF Reloaded
  <2>3. stack'[1] = stack[1]
    <3>1. 1 \in 1..(p - 1)
      BY <1>0
    <3> QED
      BY <1>0, <1>1, <2>1, <3>1, OneOnTop
  <2>4. PanelKnows'
    BY <1>3, <2>3, PanelStays DEF ScreensInv, Stays
  <2>5. EditedTextKept' /\ lost' \subseteq BOOLEAN /\ app' = "open" /\ typed' \in 0..MaxTyped
        /\ notes' \in [Notes -> NoteRows] /\ elsewhere' = elsewhere
        /\ panel' \in Panels
    BY <1>0, <1>3 DEF ScreensTypeOK, EditedTextKept, Stays
  <2>6. stack' = Append(SubSeq(stack, 1, p - 1), Reloaded(s))
    BY <2>1, <2>2
  <2>7. UNCHANGED elsewhere /\ (p - 1 = 0 => s.kind = "capture") /\ p - 1 \in 0..Len(stack)
    BY <1>0, <2>1, <2>5
  <2> HIDE DEF p
  <2> QED
    BY <1>1, <1>2, <2>4, <2>5, <2>6, <2>7, Arrives
<1>4. CASE Lands(s) /\ Saved(s) /\ Leaves(k, quits, {s.text})
  <2>1. notes' \in [Notes -> NoteRows]
    BY <1>0, <1>1, <1>4, SavedNotes
  <2> QED
    BY <1>0, <1>4, <2>1, LeavesKeeps
<1>5. CASE /\ stack' = Append(Below(k - 1), Conflict(s, quits))
           /\ Stays /\ UNCHANGED notes
  <2> DEFINE c == Conflict(s, quits)
  <2>1. /\ c \in Windows /\ c.kind = "reconcile" /\ c.kind \notin Lists /\ c.text = s.text
    <3>1. notes[s.note].head \in Nat
      BY <1>0, <1>1 DEF NoteRows, EditWindows
    <3> QED
      BY <1>1, <3>1 DEF Conflict, Windows, EditWindows, Lists
  <2> HIDE DEF c
  <2>2. stack' = Append(SubSeq(stack, 1, p), Reloaded(c))
    BY <1>0, <1>5, <2>1 DEF Below, Reloaded, c
  <2>3. On(c, stack[p])
    BY <2>1 DEF On, Modal, Dialogs
  <2>4. stack'[1] = stack[1]
    <3>1. 1 \in 1..p /\ p \in 0..n
      BY <1>0
    <3> QED
      BY <1>0, <2>1, <2>2, <3>1, OneOnTop DEF Reloaded
  <2>5. PanelKnows'
    BY <1>5, <2>4, PanelStays DEF ScreensInv, Stays
  <2>6. EditedTextKept' /\ lost' \subseteq BOOLEAN /\ app' = "open" /\ typed' \in 0..MaxTyped
        /\ notes' \in [Notes -> NoteRows] /\ elsewhere' = elsewhere
        /\ panel' \in Panels
    BY <1>0, <1>5 DEF ScreensTypeOK, EditedTextKept, Stays
  <2>7. p \in 0..n /\ p # 0
    BY <1>0
  <2> HIDE DEF p
  <2> QED
    BY <2>1, <2>2, <2>3, <2>5, <2>6, <2>7, Arrives
<1> QED
  BY <1>3, <1>4, <1>5 DEF Saves


\* The top of the stack, and what it is on.
LEMMA TopStands ==
  ASSUME ScreensInv, app = "open"
  PROVE  /\ Len(stack) \in Nat /\ Len(stack) > 0 /\ 1 \in 1..Len(stack)
         /\ Top = stack[Len(stack)] /\ Top \in Windows
         /\ notes \in [Notes -> NoteRows]
         /\ Top.kind = "capture" => Len(stack) = 1
         /\ Top.kind # "capture" =>
              /\ Len(stack) > 1 /\ 1 \in 0..(Len(stack) - 1)
              /\ On(Top, stack[Len(stack) - 1])
              /\ Last(Below(1)) = stack[Len(stack) - 1]
              /\ stack[Len(stack) - 1] \in Windows
              /\ stack[Len(stack) - 1].kind # "capture" => Len(stack) > 2
<1> DEFINE n == Len(stack)
<1>1. /\ ScreensTypeOK /\ n \in Nat /\ n > 0 /\ Top = stack[n] /\ Top \in Windows
      /\ notes \in [Notes -> NoteRows]
  BY StackLengths DEF ScreensInv, ScreensTypeOK, NoteRows
<1>2. /\ stack[1].kind = "capture"
      /\ \A i \in 2..n : On(stack[i], stack[i - 1]) /\ stack[i].kind # "capture"
      /\ \A i \in 1..n : stack[i] \in Windows
  BY <1>1, FirstIsCapture, StackLengths
<1> HIDE DEF n
<1>3. n > 1 => n \in 2..n /\ 1 \in 0..(n - 1) /\ n - 1 \in 1..n
  BY <1>1
<1>4. n > 1 => Last(Below(1)) = stack[n - 1]
  BY <1>1, <1>3, ResumedBelow DEF n
<1>5. ~(n > 1) => n = 1
  BY <1>1
<1>6. n = 2 => n - 1 = 1
  OBVIOUS
<1>7. n > 1 => n = 2 \/ n > 2
  BY <1>1
<1> QED
  BY <1>1, <1>2, <1>3, <1>4, <1>5, <1>6, <1>7 DEF n

LEMMA NoteOfRow ==
  ASSUME ScreensTypeOK, NEW n \in Notes
  PROVE  notes[n].head \in Nat /\ notes[n].body \in Bodies /\ notes[n].withheld \in BOOLEAN
  BY DEF ScreensTypeOK

LEMMA AppCrashKeeps ==
  ASSUME ScreensInv, Crashes, UNCHANGED <<notes, panel, typed, elsewhere>>
  PROVE  ScreensInv'
<1>1. /\ app' = "crashed" /\ stack' = <<>> /\ lost' = lost
      /\ EditedTextKept' /\ lost' \subseteq BOOLEAN /\ notes' \in [Notes -> NoteRows]
  BY DEF Crashes, ScreensInv, ScreensTypeOK, EditedTextKept, NoteRows
<1> QED
  BY <1>1, ExitKeeps

LEMMA MovesKeep ==
  ASSUME ScreensInv,
         \/ \E kind \in Lists : OpenList(kind)
         \/ OpenView("view") \/ OpenView("peek") \/ Back
         \/ \E n \in Notes : OpenEditor(n) \/ Inspect(n) \/ AskDelete(n)
  PROVE  ScreensInv'
<1>0. app = "open"
  BY DEF OpenList, OpenView, Back, OpenEditor, Inspect, AskDelete, Shows
<1>1. ScreensTypeOK /\ EditedTextKept
  BY DEF ScreensInv
<1>2. ASSUME NEW kind \in Lists, OpenList(kind) PROVE ScreensInv'
  <2>1. List(kind) \in Windows /\ On(List(kind), Top)
    <3>1. <<>> \in [{} -> [head : Nat, withheld : BOOLEAN]] /\ {} \in SUBSET Notes
      BY EmptySeq
    <3>2. <<>> \in Listings
      BY <3>1 DEF Listings
    <3>3. List(kind).kind \notin {"capture", "edit", "reconcile", "discard", "clear", "delete"}
      BY DEF List, Lists
    <3>4. List(kind) \in [kind : Lists, at : Nat, rows : Listings]
      BY <3>2 DEF List
    <3>5. Top.kind \notin Modal
      BY <1>2 DEF OpenList
    <3> QED
      BY <3>3, <3>4, <3>5 DEF Windows, EditWindows, On
  <2> QED
    BY <1>0, <1>2, <2>1, PushKeeps, TopStands DEF OpenList, Stays
<1>3. ASSUME NEW kind \in {"view", "peek"}, OpenView(kind) PROVE ScreensInv'
  <2>1. [kind |-> kind] \in Windows /\ On([kind |-> kind], Top)
    BY <1>3 DEF OpenView, Windows, EditWindows, On
  <2> QED
    BY <1>0, <1>3, <2>1, PushKeeps, TopStands DEF OpenView, Stays
<1>4. CASE Back
  <2>1. Top.kind \notin {"capture", "edit"}
    BY <1>4 DEF Back, Shows, Lists
  <2>2. /\ Pops(1, {}) /\ app' = app /\ UNCHANGED <<notes, panel, typed, elsewhere>>
    BY <1>4 DEF Back
  <2>3. ~Unsaved(stack[Len(stack)])
    BY <1>0, <2>1, TopStands DEF Unsaved
  <2>4. Leaves(1, FALSE, {})
    BY <2>2 DEF Leaves
  <2>5. /\ 1 \in 1..Len(stack) /\ 1 < Len(stack) /\ Len(stack) - 1 + 1 = Len(stack)
        /\ notes' \in [Notes -> NoteRows]
    BY <1>0, <2>1, <2>2, TopStands
  <2> QED
    BY <1>0, <2>2, <2>3, <2>4, <2>5, LeavesKeeps
<1>5. ASSUME NEW n \in Notes, OpenEditor(n) PROVE ScreensInv'
  <2> DEFINE s == [kind |-> "edit", note |-> n, head |-> notes[n].head,
                   body |-> notes[n].body, text |-> notes[n].body,
                   withheld |-> notes[n].withheld]
  <2>1. CASE Pushes(s) /\ Stays
    <3>1. s \in Windows
      BY <1>1, NoteOfRow DEF Windows, EditWindows
    <3>2. On(s, Top)
      BY <1>5 DEF OpenEditor, Shows, On, Modal, Dialogs, Lists
    <3> HIDE DEF s
    <3> QED
      BY <1>0, <1>5, <2>1, <3>1, <3>2, PushKeeps, TopStands DEF OpenEditor, Stays
  <2>2. CASE Crashes
    BY <1>5, <2>2, AppCrashKeeps DEF OpenEditor
  <2> QED
    BY <1>5, <2>1, <2>2 DEF OpenEditor
<1>6. ASSUME NEW n \in Notes, Inspect(n) PROVE ScreensInv'
  <2>1. CASE Pushes([kind |-> "peek"]) /\ Stays
    <3>1. [kind |-> "peek"] \in Windows /\ On([kind |-> "peek"], Top)
      BY <1>6 DEF Inspect, Shows, Windows, EditWindows, On, Modal, Dialogs
    <3> QED
      BY <1>0, <1>6, <2>1, <3>1, PushKeeps, TopStands DEF Inspect, Stays
  <2>2. CASE Crashes
    BY <1>6, <2>2, AppCrashKeeps DEF Inspect
  <2> QED
    BY <1>6, <2>1, <2>2 DEF Inspect
<1>7. ASSUME NEW n \in Notes, AskDelete(n) PROVE ScreensInv'
  <2> DEFINE s == [kind |-> "delete", note |-> n]
  <2>1. s \in Windows /\ On(s, Top)
    BY <1>7 DEF AskDelete, Shows, Windows, EditWindows, On, Modal, Dialogs
  <2> HIDE DEF s
  <2> QED
    BY <1>0, <1>7, <2>1, PushKeeps, TopStands DEF AskDelete, Stays, s
<1> QED
  BY <1>2, <1>3, <1>4, <1>5, <1>6, <1>7


LEMMA TypeKeeps ==
  ASSUME ScreensInv, NEW t \in Texts \cup {Blank}, Type(t)
  PROVE  ScreensInv'
<1> DEFINE s == [Top EXCEPT !.text = t]
           m == Len(stack) - 1
<1>0. /\ app = "open" /\ app' = app /\ Top.kind \in Editors /\ UNCHANGED <<notes, elsewhere, lost>>
      /\ typed < MaxTyped /\ typed' = typed + 1
      /\ stack' = Append(SubSeq(stack, 1, m), s)
      /\ panel' = IF Top.kind = "capture" THEN Updated(panel, t) ELSE panel
  BY DEF Type, Shows, Below
<1>1. /\ ScreensTypeOK /\ m \in 0..Len(stack) /\ Len(stack) \in Nat /\ m \in Nat
      /\ m # 0 => m > 0
  BY <1>0, TopStands DEF ScreensInv
<1>2. s \in Windows /\ s.kind = Top.kind /\ s.kind \notin Lists /\ s.text = t
  <2>1. CASE Top.kind = "capture"
    <3>1. Top \in [kind : {"capture"}, text : Texts \cup {Blank}, pending : BOOLEAN]
      BY <1>0, <2>1, TopStands DEF Windows, EditWindows, Lists
    <3>2. s \in [kind : {"capture"}, text : Texts \cup {Blank}, pending : BOOLEAN]
      BY <3>1
    <3> QED
      BY <2>1, <3>1, <3>2 DEF Windows, EditWindows, Lists
  <2>2. CASE Top.kind = "edit"
    <3>1. /\ Top \in EditWindows
          /\ t \in Bodies
      BY <1>0, <2>2, TopStands DEF Windows, EditWindows, Lists, Bodies
    <3>2. s \in EditWindows
      BY <3>1 DEF EditWindows
    <3> QED
      BY <2>2, <3>1, <3>2 DEF Windows, EditWindows, Lists
  <2> QED
    BY <1>0, <2>1, <2>2 DEF Editors
<1>3. stack' = Append(SubSeq(stack, 1, m), Reloaded(s))
  BY <1>0, <1>2 DEF Reloaded
<1>4. /\ m = 0 => s.kind = "capture"
      /\ m > 0 => Top.kind = "edit" /\ On(Top, stack[m])
  BY <1>0, <1>1, <1>2, TopStands DEF Editors
<1>5. m > 0 => On(s, stack[m])
  BY <1>2, <1>4 DEF On
<1>6. /\ m = 0 => stack'[1] = s
      /\ m > 0 => stack'[1] = stack[1]
  <2>1. /\ stack'[m + 1] = s /\ \A i \in 1..m : stack'[i] = stack[i]
    BY <1>0, <1>1, <1>2, OneOnTop
  <2>2. m = 0 => m + 1 = 1
    BY <1>1
  <2>3. m > 0 => 1 \in 1..m
    BY <1>1
  <2> HIDE DEF m, s
  <2> QED
    BY <2>1, <2>2, <2>3
<1>7. m > 0 <=> Top.kind # "capture"
  BY <1>0, <1>1, <1>4, TopStands
<1> HIDE DEF s, m
<1>8. panel \in Panels
  BY <1>1 DEF ScreensTypeOK
<1>9. panel' \in Panels
  BY <1>0, <1>8 DEF Updated, Quiet, Panels
<1>10. PanelKnows'
  <2>1. CASE m > 0
    BY <1>0, <1>6, <1>7, <2>1, PanelStays DEF ScreensInv
  <2>2. CASE m = 0
    <3>1. stack'[1].text = t /\ panel' = Updated(panel, t)
      BY <1>0, <1>1, <1>2, <1>6, <1>7, <2>2
    <3>2. CASE t = Blank
      BY <3>1, <3>2 DEF PanelKnows, PanelFollowsText, Updated, Quiet
    <3>3. CASE t # Blank
      <4>1. panel'.timer = TRUE
        BY <1>8, <3>1, <3>3 DEF Updated
      <4> QED
        BY <3>1, <3>3, <4>1 DEF PanelKnows, PanelFollowsText, Panels
    <3> QED
      BY <3>2, <3>3
  <2> QED
    BY <1>1, <2>1, <2>2
<1>11. /\ EditedTextKept' /\ lost' \subseteq BOOLEAN /\ typed' \in 0..MaxTyped
       /\ notes' \in [Notes -> NoteRows] /\ elsewhere' = elsewhere /\ app' = "open"
  <2>1. typed \in 0..MaxTyped
    BY <1>1 DEF ScreensTypeOK
  <2>2. typed' \in 0..MaxTyped
    BY <1>0, <2>1, ScreensAssumption
  <2> QED
    BY <1>0, <1>1, <2>2 DEF ScreensInv, ScreensTypeOK, EditedTextKept, NoteRows
<1> QED
  BY <1>0, <1>1, <1>2, <1>3, <1>4, <1>5, <1>9, <1>10, <1>11, Arrives

LEMMA PanelKeeps ==
  ASSUME ScreensInv, PassStarts \/ PassEnds \/ PassRaises
  PROVE  ScreensInv'
<1>0. app = "open" /\ ScreensTypeOK
      /\ panel \in Panels
  BY DEF PassStarts, PassEnds, PassRaises, ScreensInv, ScreensTypeOK
<1>1. stack[1].text \in Texts \cup {Blank} /\ stack[1].text # NoText
  <2>1. stack[1] \in Windows /\ stack[1].kind = "capture"
    BY <1>0, FirstIsCapture
  <2> QED
    BY <2>1, ScreensAssumption DEF Windows, EditWindows, Lists, Blank, NoText
<1>2. CASE PassRaises
  BY <1>2, AppCrashKeeps DEF PassRaises
<1>3. CASE PassStarts \/ PassEnds
  <2>1. UNCHANGED <<notes, stack, app, typed, elsewhere, lost>>
    BY <1>3 DEF PassStarts, PassEnds
  <2>2. /\ panel' \in Panels
        /\ PanelKnows'
    <3>1. CASE PassStarts
      <4>1. panel.timer /\ panel' = [panel EXCEPT !.timer = FALSE, !.pass = stack[1].text]
        BY <3>1 DEF PassStarts
      <4>2. stack[1].text \in Texts
        BY <1>0, <1>1, <4>1 DEF ScreensInv, PanelKnows, Quiet
      <4>3. ~panel'.timer /\ panel'.pass = stack[1].text
        BY <1>0, <4>1
      <4> QED
        BY <1>0, <1>1, <2>1, <4>1, <4>2, <4>3, ScreensAssumption
        DEF PanelKnows, PanelFollowsText, Panels
    <3>2. CASE PassEnds
      <4>1. /\ panel.pass # NoText
            /\ panel' = [panel EXCEPT !.pass = NoText, !.shown = panel.pass]
        BY <3>2 DEF PassEnds
      <4>2. /\ panel'.timer = panel.timer /\ panel'.pass = NoText
            /\ panel'.shown = panel.pass
        BY <1>0, <4>1
      <4>3. stack[1].text # Blank
        BY <1>0, <4>1 DEF ScreensInv, PanelKnows, Quiet
      <4> QED
        BY <1>0, <2>1, <4>1, <4>2, <4>3 DEF ScreensInv, PanelKnows, PanelFollowsText, Panels
    <3> QED
      BY <1>3, <3>1, <3>2
  <2> QED
    BY <1>0, <2>1, <2>2 DEF ScreensInv, ScreensTypeOK, Stacked, ReadBy, ListsAreCurrent,
       EditedTextKept, Shows, Top, Row
<1> QED
  BY <1>2, <1>3

LEMMA SaveCaptureKeeps ==
  ASSUME ScreensInv, NEW n \in Notes, SaveCapture(n)
  PROVE  ScreensInv'
<1>0. /\ app = "open" /\ Top.kind = "capture" /\ Captured(n, Top.text, Top.pending)
      /\ stack' = <<Capture>> /\ panel' = Quiet /\ UNCHANGED <<app, typed, elsewhere, lost>>
  BY DEF SaveCapture, Shows
<1>1. ScreensTypeOK /\ Top \in Windows /\ Len(stack) \in Nat
  BY <1>0, TopStands DEF ScreensInv
<1>2. Top.text \in Bodies /\ Top.pending \in BOOLEAN
  BY <1>0, <1>1 DEF Windows, EditWindows, Lists, Bodies
<1>3. notes' \in [Notes -> NoteRows]
  BY <1>0, <1>1, <1>2, CapturedNotes
<1>4. Capture \in Windows /\ Capture.kind = "capture" /\ Capture.text = Blank
  BY DEF Capture, Windows, EditWindows
<1>5. stack' = Append(SubSeq(stack, 1, 0), Reloaded(Capture)) /\ stack'[1] = Capture
  <2>1. SubSeq(stack, 1, 0) = <<>>
    BY <1>1, SubSeqEmpty DEF ScreensTypeOK
  <2>2. Reloaded(Capture) = Capture
    BY <1>4 DEF Reloaded, Lists
  <2>3. Append(<<>>, Capture) = <<Capture>>
    OBVIOUS
  <2>4. <<Capture>>[1] = Capture
    OBVIOUS
  <2> QED
    BY <1>0, <2>1, <2>2, <2>3, <2>4
<1>6. PanelKnows'
  BY <1>0, <1>4, <1>5 DEF PanelKnows, PanelFollowsText, Quiet
<1>7. /\ EditedTextKept' /\ lost' \subseteq BOOLEAN /\ typed' \in 0..MaxTyped /\ app' = "open"
      /\ panel' \in Panels
  BY <1>0, <1>1 DEF ScreensInv, ScreensTypeOK, EditedTextKept, Quiet, Panels
<1>8. 0 \in 0..Len(stack) /\ ~(0 > 0)
  BY <1>1
<1> QED
  BY <1>0, <1>3, <1>4, <1>5, <1>6, <1>7, <1>8, Arrives


\* The top is replaced by one of its kind, with the text it has.
LEMMA ReplaceKeeps ==
  ASSUME ScreensInv, app = "open", NEW s \in Windows, stack' = Append(Below(1), s),
         s.kind = Top.kind, s.kind \notin Lists, s.kind = "capture" => s.text = Top.text,
         s.kind # "capture" => On(s, stack[Len(stack) - 1]),
         notes' \in [Notes -> NoteRows],
         UNCHANGED <<panel, typed, elsewhere, app, lost>>
  PROVE  ScreensInv'
<1> DEFINE m == Len(stack) - 1
<1>0. /\ ScreensTypeOK /\ m \in 0..Len(stack) /\ m \in Nat
      /\ m = 0 => Top = stack[1]
      /\ m = 0 <=> s.kind = "capture"
  BY TopStands DEF ScreensInv
<1>1. stack' = Append(SubSeq(stack, 1, m), Reloaded(s))
  BY DEF Reloaded, Below
<1>2. Reloaded(s) = s
  BY DEF Reloaded
<1>3. stack'[1].text = stack[1].text
  <2>1. stack'[m + 1] = s /\ \A i \in 1..m : stack'[i] = stack[i]
    BY <1>0, <1>1, <1>2, OneOnTop
  <2> HIDE DEF m
  <2>2. CASE m = 0
    <3>1. m + 1 = 1
      BY <2>2
    <3> QED
      BY <1>0, <2>1, <2>2, <3>1
  <2>3. CASE m # 0
    <3>1. 1 \in 1..m
      BY <1>0, <2>3
    <3> QED
      BY <2>1, <3>1
  <2> QED
    BY <2>2, <2>3
<1>4. PanelKnows'
  BY <1>3, PanelStays DEF ScreensInv
<1>5. /\ EditedTextKept' /\ lost' \subseteq BOOLEAN /\ typed' \in 0..MaxTyped /\ app' = "open"
      /\ panel' \in Panels
  BY <1>0 DEF ScreensInv, ScreensTypeOK, EditedTextKept
<1>6. m # 0 => On(s, stack[m])
  BY <1>0, Zenon
<1> HIDE DEF m
<1>7. m > 0 => m # 0
  BY <1>0
<1> QED
  BY <1>0, <1>1, <1>4, <1>5, <1>6, <1>7, Arrives

LEMMA AskingKeeps ==
  ASSUME ScreensInv, app = "open", Top.kind \in Editors, NEW quits \in BOOLEAN,
         quits \/ Top.kind = "edit", Asks(quits),
         UNCHANGED <<notes, panel, typed, elsewhere>>
  PROVE  ScreensInv'
<1> DEFINE s == [kind |-> "discard", quits |-> quits]
<1>1. s \in Windows /\ On(s, Top)
  BY DEF Windows, EditWindows, On, Modal, Dialogs, Editors
<1>2. Pushes(s) /\ UNCHANGED <<app, panel, typed, elsewhere, lost>>
  BY DEF Asks, Stays
<1> HIDE DEF s
<1> QED
  BY <1>1, <1>2, PushKeeps, TopStands

LEMMA EditingKeeps ==
  ASSUME ScreensInv, SaveEdit \/ CancelEdit \/ Quit
  PROVE  ScreensInv'
<1>0. app = "open" /\ UNCHANGED <<panel, typed, elsewhere>>
  BY DEF SaveEdit, CancelEdit, Quit, Shows
<1>1. /\ Len(stack) \in Nat /\ Len(stack) > 0 /\ 1 \in 1..Len(stack)
      /\ Len(stack) - 1 + 1 = Len(stack) /\ Top = stack[Len(stack)]
      /\ notes \in [Notes -> NoteRows]
      /\ Top.kind # "capture" => 1 \in 1..(Len(stack) - 1) /\ 1 < Len(stack)
  BY <1>0, TopStands
<1>2. CASE SaveEdit
  <2>1. Top.kind = "edit" /\ Saves(Top, 1, FALSE)
    BY <1>2 DEF SaveEdit, Shows
  <2> QED
    BY <1>0, <1>1, <2>1, SavesKeep
<1>3. CASE CancelEdit
  <2>1. Top.kind = "edit" /\ UNCHANGED notes
    BY <1>3 DEF CancelEdit, Shows
  <2>2. CASE Dirty(Top)
    BY <1>0, <1>3, <2>1, <2>2, AskingKeeps DEF CancelEdit, Editors
  <2>3. CASE ~Dirty(Top)
    <3>1. ~Unsaved(Top)
      BY <2>1, <2>3 DEF Dirty, Unsaved
    <3>2. Leaves(1, FALSE, {})
      BY <1>3, <2>3 DEF CancelEdit
    <3> QED
      BY <1>0, <1>1, <2>1, <3>1, <3>2, LeavesKeeps
  <2> QED
    BY <2>2, <2>3
<1>4. CASE Quit
  <2>1. UNCHANGED notes
    BY <1>4 DEF Quit
  <2>2. CASE Top.kind \in Editors /\ Dirty(Top)
    BY <1>0, <1>4, <2>1, <2>2, AskingKeeps DEF Quit
  <2>3. CASE ~(Top.kind \in Editors /\ Dirty(Top))
    <3>1. ~Unsaved(Top)
      BY <2>3 DEF Dirty, Unsaved, Editors
    <3>2. Leaves(1, TRUE, {})
      BY <1>4, <2>3 DEF Quit
    <3> QED
      BY <1>0, <1>1, <2>1, <3>1, <3>2, LeavesKeeps
  <2> QED
    BY <2>2, <2>3
<1> QED
  BY <1>2, <1>3, <1>4

LEMMA AnswersKeep ==
  ASSUME ScreensInv, AnswerCancel \/ AnswerDiscard \/ AnswerSave
  PROVE  ScreensInv'
<1> DEFINE n == Len(stack)
           u == stack[n - 1]
<1>0. app = "open" /\ Top.kind = "discard" /\ UNCHANGED <<panel, typed, elsewhere>>
  BY DEF AnswerCancel, AnswerDiscard, AnswerSave, Shows
<1>1. /\ ScreensTypeOK /\ EditedTextKept /\ lost \subseteq BOOLEAN
      /\ n \in Nat /\ n > 1 /\ 1 \in 0..(n - 1) /\ Top \in Windows
      /\ notes \in [Notes -> NoteRows]
      /\ On(Top, u) /\ Last(Below(1)) = u /\ u \in Windows
      /\ u.kind # "capture" => n > 2
  BY <1>0, TopStands DEF ScreensInv, ScreensTypeOK
<1>2. /\ Top.quits \in BOOLEAN /\ u.kind \in Editors /\ (Top.quits \/ u.kind = "edit")
  BY <1>0, <1>1 DEF On, Windows, EditWindows, Lists
<1>3. n - 2 + 1 = n - 1 /\ 2 \in 1..n /\ (n > 2 => 2 \in 1..(n - 1) /\ 2 < n)
  BY <1>1
<1> HIDE DEF u
<1>4. CASE AnswerCancel
  <2>1. Closes(1) /\ UNCHANGED <<notes, app, lost>>
    BY <1>4 DEF AnswerCancel, Stays
  <2> QED
    BY <1>0, <1>1, <2>1, CloseKeeps DEF EditedTextKept
<1>5. CASE AnswerDiscard
  <2>1. Leaves(2, Top.quits, {u.text}) /\ UNCHANGED notes
    BY <1>1, <1>5 DEF AnswerDiscard
  <2>2. Top.quits \/ 2 < n
    BY <1>1, <1>2, <1>3
  <2> QED
    BY <1>0, <1>1, <1>2, <1>3, <2>1, <2>2, LeavesKeeps DEF u
<1>6. CASE AnswerSave
  <2>1. CASE u.kind = "capture"
    <3>1. PICK i \in Notes : Captured(i, u.text, u.pending)
      BY <1>1, <1>6, <2>1 DEF AnswerSave
    <3>2. u.text \in Bodies /\ u.pending \in BOOLEAN
      BY <1>1, <2>1 DEF Windows, EditWindows, Lists, Bodies
    <3>3. notes' \in [Notes -> NoteRows]
      BY <1>1, <3>1, <3>2, CapturedNotes
    <3>4. Leaves(2, TRUE, {u.text})
      BY <1>1, <1>6, <2>1 DEF AnswerSave
    <3> QED
      BY <1>0, <1>1, <1>3, <3>3, <3>4, LeavesKeeps DEF u
  <2>2. CASE u.kind = "edit"
    <3>1. Saves(u, 2, Top.quits)
      BY <1>1, <1>6, <2>2 DEF AnswerSave
    <3>2. 2 \in 1..(n - 1) /\ u = stack[n - 2 + 1]
      BY <1>1, <1>3, <2>2 DEF u
    <3> QED
      BY <1>0, <1>2, <2>2, <3>1, <3>2, SavesKeep
  <2> QED
    BY <1>2, <2>1, <2>2 DEF Editors
<1> QED
  BY <1>4, <1>5, <1>6

LEMMA ConflictsKeep ==
  ASSUME ScreensInv, Reapply \/ DiscardConflict
  PROVE  ScreensInv'
<1> DEFINE n == Len(stack)
           u == stack[n - 1]
<1>0. app = "open" /\ Top.kind = "reconcile" /\ UNCHANGED <<panel, typed, elsewhere>>
  BY DEF Reapply, DiscardConflict, Shows
<1>1. /\ ScreensTypeOK /\ n \in Nat /\ n > 1 /\ Top \in Windows
      /\ notes \in [Notes -> NoteRows]
      /\ On(Top, u) /\ (u.kind # "capture" => n > 2)
  BY <1>0, TopStands DEF ScreensInv
<1>2. u.kind = "edit" /\ u.text = Top.text
  BY <1>0, <1>1 DEF On
<1>3. n - 2 + 1 = n - 1 /\ 2 \in 1..n /\ 2 < n
  BY <1>1, <1>2
<1>4. Top \in [kind : {"reconcile"}, note : Notes, text : Bodies, head : Nat, quits : BOOLEAN]
  BY <1>0, <1>1 DEF Windows, EditWindows, Lists
<1>5. ASSUME Resolves, notes' \in [Notes -> NoteRows] PROVE ScreensInv'
  <2>1. Leaves(2, Top.quits, {Top.text}) /\ Top.quits \in BOOLEAN
    BY <1>4, <1>5 DEF Resolves
  <2> QED
    BY <1>0, <1>2, <1>3, <1>5, <2>1, LeavesKeeps
<1>6. CASE DiscardConflict
  BY <1>1, <1>5, <1>6 DEF DiscardConflict
<1>7. CASE Reapply /\ Lands(Top)
  <2>1. Saved(Top) /\ Resolves
    BY <1>7 DEF Reapply
  <2> QED
    BY <1>0, <1>1, <1>5, <2>1, SavedNotes
<1>8. CASE Reapply /\ ~Lands(Top)
  <2> DEFINE s == [Top EXCEPT !.head = notes[Top.note].head]
  <2>1. stack' = Append(Below(1), s) /\ UNCHANGED <<notes, app, lost>>
    BY <1>8 DEF Reapply, Stays
  <2>2. notes[Top.note].head \in Nat
    BY <1>1, <1>4, NoteOfRow
  <2>3. /\ s \in [kind : {"reconcile"}, note : Notes, text : Bodies, head : Nat,
                  quits : BOOLEAN]
        /\ s.text = Top.text /\ s.kind = "reconcile"
    BY <1>4, <2>2
  <2>4. s \in Windows
    BY <2>3 DEF Windows, EditWindows
  <2>5. On(s, u)
    BY <1>1, <1>2, <2>3 DEF On, Modal, Dialogs
  <2>6. s.kind \notin Lists \cup {"capture"}
    BY <2>3 DEF Lists
  <2> HIDE DEF s
  <2> QED
    BY <1>0, <1>1, <2>1, <2>3, <2>4, <2>5, <2>6, ReplaceKeeps
<1> QED
  BY <1>6, <1>7, <1>8


LEMMA NotesScreensKeep ==
  ASSUME ScreensInv,
         \/ \E yes \in BOOLEAN : AnswerDelete(yes) \/ AnswerClear(yes)
         \/ \E n \in Notes : BrowseToggle(n)
         \/ PendingToggle \/ EditToggle
  PROVE  ScreensInv'
<1> DEFINE k == Len(stack)
           u == stack[k - 1]
<1>0. app = "open" /\ UNCHANGED <<app, panel, typed, elsewhere, lost>>
  BY DEF AnswerDelete, AnswerClear, BrowseToggle, PendingToggle, EditToggle, Shows, Stays
<1>1. /\ ScreensTypeOK /\ EditedTextKept /\ lost \subseteq BOOLEAN
      /\ k \in Nat /\ k > 0 /\ Top = stack[k] /\ Top \in Windows
      /\ notes \in [Notes -> NoteRows]
      /\ Top.kind # "capture" =>
           /\ k > 1 /\ 1 \in 0..(k - 1) /\ On(Top, u) /\ Last(Below(1)) = u /\ u \in Windows
  BY <1>0, TopStands DEF ScreensInv, ScreensTypeOK
<1>2. EditedTextKept' /\ lost' \subseteq BOOLEAN
  BY <1>0, <1>1 DEF EditedTextKept
<1>3. ASSUME NEW n \in Notes PROVE Tombstoned(n) \in [Notes -> NoteRows]
                                   /\ Toggled(n) \in [Notes -> NoteRows]
  BY <1>1, ChangedNotes
<1> HIDE DEF u
<1>4. ASSUME NEW yes \in BOOLEAN, AnswerDelete(yes) PROVE ScreensInv'
  <2>1. /\ Top.kind = "delete" /\ Closes(1)
        /\ notes' = IF yes THEN Tombstoned(Top.note) ELSE notes
    BY <1>4 DEF AnswerDelete, Shows
  <2>2. Top.note \in Notes
    BY <1>1, <2>1 DEF Windows, EditWindows, Lists
  <2>3. notes' \in [Notes -> NoteRows]
    BY <1>1, <1>3, <2>1, <2>2
  <2> QED
    BY <1>0, <1>1, <1>2, <2>1, <2>3, CloseKeeps
<1>5. ASSUME NEW yes \in BOOLEAN, AnswerClear(yes) PROVE ScreensInv'
  <2> DEFINE t == IF yes /\ u.kind = "edit"
                  THEN [u EXCEPT !.withheld = notes'[Top.note].withheld] ELSE u
             m == k - 2
  <2>1. Top.kind = "clear" /\ notes' = IF yes THEN Toggled(Top.note) ELSE notes
    BY <1>5 DEF AnswerClear, Shows
  <2>2. Top.note \in Notes /\ u.kind \in {"browse", "edit"} /\ u \in Windows
    BY <1>1, <2>1 DEF Windows, EditWindows, Lists, On
  <2>3. notes' \in [Notes -> NoteRows] /\ notes'[Top.note].withheld \in BOOLEAN
    <3>1. notes' \in [Notes -> NoteRows]
      BY <1>1, <1>3, <2>1, <2>2
    <3> QED
      BY <2>2, <3>1 DEF NoteRows
  <2>4. /\ t \in Windows /\ t.kind = u.kind
    <3>1. CASE u.kind = "edit"
      <4>1. u \in EditWindows
        BY <2>2, <3>1 DEF Windows, EditWindows, Lists
      <4>2. /\ t \in EditWindows
        BY <2>3, <4>1 DEF EditWindows
      <4> QED
        BY <3>1, <4>2 DEF Windows, EditWindows
    <3>2. CASE u.kind # "edit"
      BY <2>2, <3>2
    <3> QED
      BY <3>1, <3>2
  <2>5. stack' = Resumed(Append(SubSeq(stack, 1, m), t))
    BY <1>1, <1>5, <2>1 DEF AnswerClear, Below
  <2> HIDE DEF t
  <2>6. k > 2 /\ m \in Nat /\ m > 0 /\ m \in 0..k /\ k - 1 \in 2..k
        /\ (k - 1) - 1 = m /\ 1 \in 1..m /\ 1 \in Nat /\ (\A i \in 1..m : i \in 1..k)
    <3>1. k # 2
      <4>1. u.kind # "capture"
        BY <2>2
      <4> QED
        BY <1>0, <4>1, FirstIsCapture DEF u
    <3>2. k > 1 /\ k \in Nat
      BY <1>1, <2>1
    <3> HIDE DEF k
    <3> QED
      BY <3>1, <3>2
  <2>7. SubSeq(stack, 1, m) \in Seq(Windows)
    <3>1. \A i \in 1..m : stack[i] \in Windows
      BY <1>1, <2>6, StackLengths
    <3> QED
      BY <1>1, <2>6, <3>1, SubSeqProperties DEF ScreensTypeOK
  <2>8. stack' = Append(SubSeq(stack, 1, m), Reloaded(t))
    BY <2>4, <2>5, <2>7, ResumedAppend
  <2>9. On(t, stack[m])
    <3>1. On(u, stack[m])
      BY <1>0, <2>6, FirstIsCapture DEF u
    <3> QED
      BY <2>2, <2>4, <3>1 DEF On
  <2>10. PanelKnows'
    <3>1. Reloaded(t) \in Windows
      BY <1>0, <1>1, <2>3, <2>4, ReloadedScreen, ScreensAssumption DEF ScreensTypeOK
    <3>2. stack'[1] = stack[1]
      BY <1>1, <2>6, <2>8, <3>1, OneOnTop
    <3> QED
      BY <1>0, <3>2, PanelStays DEF ScreensInv
  <2>11. /\ typed' \in 0..MaxTyped /\ app' = "open" /\ elsewhere' = elsewhere
         /\ panel' \in Panels
    BY <1>0, <1>1 DEF ScreensTypeOK
  <2> HIDE DEF m
  <2>12. m # 0
    BY <2>6
  <2> QED
    BY <1>0, <1>2, <2>3, <2>4, <2>6, <2>8, <2>9, <2>10, <2>11, <2>12, Arrives
<1>6. ASSUME NEW n \in Notes, BrowseToggle(n) PROVE ScreensInv'
  <2>1. CASE Pushes([kind |-> "clear", note |-> n]) /\ UNCHANGED notes
    <3> DEFINE s == [kind |-> "clear", note |-> n]
    <3>1. s \in Windows /\ On(s, Top)
      BY <1>6 DEF BrowseToggle, Shows, Windows, EditWindows, On, Modal, Dialogs
    <3> HIDE DEF s
    <3> QED
      BY <1>0, <1>1, <2>1, <3>1, PushKeeps DEF s
  <2>2. CASE notes' = Toggled(n) /\ Closes(0)
    <3>1. 0 \in 0..(k - 1)
      BY <1>1
    <3>2. notes' \in [Notes -> NoteRows]
      BY <1>3, <2>2
    <3> QED
      BY <1>0, <1>2, <2>2, <3>1, <3>2, CloseKeeps
  <2> QED
    BY <1>6, <2>1, <2>2 DEF BrowseToggle
<1>7. CASE PendingToggle
  <2> DEFINE s == [Top EXCEPT !.pending = ~@]
  <2>1. Top.kind = "capture" /\ stack' = Append(Below(1), s) /\ UNCHANGED notes
    BY <1>7 DEF PendingToggle, Shows
  <2>2. Top \in [kind : {"capture"}, text : Texts \cup {Blank}, pending : BOOLEAN]
    BY <1>1, <2>1 DEF Windows, EditWindows, Lists
  <2>3. /\ s \in [kind : {"capture"}, text : Texts \cup {Blank}, pending : BOOLEAN]
        /\ s.kind = "capture" /\ s.text = Top.text
    BY <2>2
  <2>4. s \in Windows /\ s.kind \notin Lists
    BY <2>3 DEF Windows, EditWindows, Lists
  <2> HIDE DEF s
  <2> QED
    BY <1>0, <1>1, <2>1, <2>3, <2>4, ReplaceKeeps
<1>8. CASE EditToggle
  <2>1. Top.kind = "edit"
    BY <1>8 DEF EditToggle, Shows
  <2>2. Top \in EditWindows
    BY <1>1, <2>1 DEF Windows, EditWindows, Lists
  <2>3. CASE Pushes([kind |-> "clear", note |-> Top.note]) /\ UNCHANGED notes
    <3> DEFINE s == [kind |-> "clear", note |-> Top.note]
    <3>1. s \in Windows /\ On(s, Top)
      BY <2>1, <2>2 DEF Windows, EditWindows, On, Modal, Dialogs
    <3> HIDE DEF s
    <3> QED
      BY <1>0, <1>1, <2>3, <3>1, PushKeeps DEF s
  <2>4. CASE /\ notes' = Toggled(Top.note)
             /\ stack' = Append(Below(1), [Top EXCEPT !.withheld = notes'[Top.note].withheld])
    <3> DEFINE s == [Top EXCEPT !.withheld = notes'[Top.note].withheld]
    <3>1. notes' \in [Notes -> NoteRows] /\ notes'[Top.note].withheld \in BOOLEAN
      <4>1. notes' \in [Notes -> NoteRows]
        BY <1>3, <2>2, <2>4 DEF EditWindows
      <4> QED
        BY <2>2, <4>1 DEF NoteRows, EditWindows
    <3>2. /\ s \in EditWindows
          /\ s.kind = "edit"
      BY <2>2, <3>1 DEF EditWindows
    <3>3. s \in Windows /\ s.kind \notin Lists \cup {"capture"}
      BY <3>2 DEF Windows, EditWindows, Lists
    <3>4. stack' = Append(Below(1), s)
      BY <2>4
    <3> HIDE DEF s
    <3>5. On(s, u)
      BY <1>1, <2>1, <3>2 DEF On
    <3> QED
      BY <1>0, <2>1, <3>1, <3>2, <3>3, <3>4, <3>5, ReplaceKeeps DEF u
  <2> QED
    BY <1>8, <2>3, <2>4 DEF EditToggle
<1> QED
  BY <1>4, <1>5, <1>6, <1>7, <1>8

LEMMA ElsewhereKeeps ==
  ASSUME ScreensInv, NEW n \in Notes, Elsewhere(n)
  PROVE  ScreensInv'
<1>0. /\ app = "open" /\ elsewhere < MaxElsewhere /\ elsewhere' = elsewhere + 1
      /\ UNCHANGED <<stack, app, panel, typed, lost>>
      /\ \/ notes' = [notes EXCEPT ![n].head = @ + 1, ![n].body = Theirs]
         \/ notes' = Tombstoned(n)
  BY DEF Elsewhere
<1>1. ScreensTypeOK /\ elsewhere \in 0..MaxElsewhere /\ MaxElsewhere \in Nat
  BY ScreensAssumption DEF ScreensInv, ScreensTypeOK
<1>2. notes' \in [Notes -> NoteRows]
  BY <1>0, <1>1, ChangedNotes
<1>3. elsewhere' \in 0..MaxElsewhere /\ elsewhere < elsewhere'
  BY <1>0, <1>1
<1>4. ScreensTypeOK'
  BY <1>0, <1>1, <1>2, <1>3 DEF ScreensTypeOK, NoteRows
<1>5. \A i \in 1..Len(stack) : ReadBy(stack[i])'
  <2> SUFFICES ASSUME NEW i \in 1..Len(stack), stack[i].kind \in Lists
               PROVE  stack[i].at <= elsewhere'
    BY <1>0 DEF ReadBy
  <2>1. stack[i].at <= elsewhere
    BY DEF ScreensInv, Stacked, ReadBy
  <2>2. stack[i].at \in Nat
    BY <1>1, StackLengths DEF Windows, EditWindows, Lists
  <2> QED
    BY <1>1, <1>3, <2>1, <2>2
<1>6. Stacked'
  BY <1>0, <1>5 DEF ScreensInv, Stacked
<1>7. PanelKnows'
  BY <1>0, PanelStays DEF ScreensInv
<1>8. ListsAreCurrent'
  <2>1. Top.kind \in Lists => Top.at <= elsewhere /\ Top.at \in Nat
    <3>1. Len(stack) \in 1..Len(stack) /\ Top = stack[Len(stack)] /\ Top \in Windows
      BY <1>0, TopStands
    <3> QED
      BY <3>1 DEF ScreensInv, Stacked, ReadBy, Windows, EditWindows, Lists
  <2>2. Top.kind \in Lists => Top.at # elsewhere'
    BY <1>1, <1>3, <2>1
  <2> QED
    BY <1>0, <2>2 DEF ListsAreCurrent, Shows, Top
<1> QED
  BY <1>0, <1>4, <1>6, <1>7, <1>8 DEF ScreensInv, EditedTextKept

LEMMA InitScreensInv == ScreensInit => ScreensInv
<1> SUFFICES ASSUME ScreensInit PROVE ScreensInv
  OBVIOUS
<1>1. Capture \in Windows /\ Capture.kind = "capture" /\ Capture.text = Blank
  BY DEF Capture, Windows, EditWindows
<1>2. stack = <<Capture>> /\ app = "open" /\ panel = Quiet /\ typed = 0 /\ elsewhere = 0
      /\ lost = {}
  BY DEF ScreensInit
<1>3. stack \in Seq(Windows) /\ Len(stack) = 1 /\ stack[1] = Capture /\ stack # <<>>
  BY <1>1, <1>2
<1>4. notes \in [Notes -> NoteRows]
  BY DEF ScreensInit, NoteRows, Absent, Bodies
<1>5. ScreensTypeOK
  BY <1>2, <1>3, <1>4, ScreensAssumption DEF ScreensTypeOK, NoteRows, Quiet, Panels
<1>6. Stacked
  <2>1. \A i \in 1..Len(stack) : i = 1
    BY <1>3
  <2> QED
    BY <1>1, <1>3, <2>1 DEF Stacked, ReadBy, Lists
<1>7. PanelKnows
  BY <1>1, <1>2, <1>3 DEF PanelKnows, PanelFollowsText, Quiet
<1>8. ListsAreCurrent
  BY <1>1, <1>3 DEF ListsAreCurrent, Shows, Top, Last, Lists
<1> QED
  BY <1>2, <1>5, <1>6, <1>7, <1>8 DEF ScreensInv, EditedTextKept

LEMMA NextScreensInv == ScreensInv /\ [ScreensNext]_screensVars => ScreensInv'
<1> SUFFICES ASSUME ScreensInv, [ScreensNext]_screensVars PROVE ScreensInv'
  OBVIOUS
<1>1. CASE UNCHANGED screensVars
  BY <1>1 DEF screensVars, ScreensInv, ScreensTypeOK, Stacked, ReadBy, PanelKnows,
     PanelFollowsText, ListsAreCurrent, EditedTextKept, Shows, Top, Row
<1>2. CASE ScreensNext
  BY <1>2, MovesKeep, TypeKeeps, PanelKeeps, EditingKeeps, AnswersKeep, ConflictsKeep,
     NotesScreensKeep, SaveCaptureKeeps, ElsewhereKeeps DEF ScreensNext
<1> QED
  BY <1>1, <1>2

LEMMA ScreensInvariant == ScreensSpec => []ScreensInv
  BY InitScreensInv, NextScreensInv, PTL DEF ScreensSpec

\* Whatever keys are pressed and whatever other processes do, the screens are
\* well formed, for any number of notes and any depth of the stack.
THEOREM ScreensTypeCorrect == ScreensSpec => []ScreensTypeOK
<1>1. ScreensInv => ScreensTypeOK
  BY DEF ScreensInv
<1> QED
  BY <1>1, ScreensInvariant, PTL

\* tui/screens/edit.py and reconcile.py: no way out of the editor, by a save, a
\* refused or rejected one, a dialog over it or a conflict, drops its text
\* unless it is saved, in a draft file or given up by the user's own answer.
THEOREM NoEditIsDropped == ScreensSpec => []EditedTextKept
<1>1. ScreensInv => EditedTextKept
  BY DEF ScreensInv
<1> QED
  BY <1>1, ScreensInvariant, PTL

\* tui/screens/browse.py and tags.py, on_screen_resume: a list that is on top
\* shows the notes as they are unless another process has changed them since.
THEOREM ListsShowTheNotes == ScreensSpec => []ListsAreCurrent
<1>1. ScreensInv => ListsAreCurrent
  BY DEF ScreensInv
<1> QED
  BY <1>1, ScreensInvariant, PTL

\* tui/widgets/related_notes_panel.py: when the debounce and the search are
\* over, the panel is about the text above it, in whatever order text is typed,
\* emptied and saved and searches start and end.
THEOREM PanelIsOfTheText == ScreensSpec => []PanelFollowsText
<1>1. ScreensInv => PanelFollowsText
  BY DEF ScreensInv, PanelKnows, PanelFollowsText, Panels
<1> QED
  BY <1>1, ScreensInvariant, PTL
=============================================================================
