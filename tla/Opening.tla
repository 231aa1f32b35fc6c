------------------------------ MODULE Opening ------------------------------
(***************************************************************************)
(* Opening the database: every command, every screen and the worker calls  *)
(* init_db, which lays the schema and migrates an older file in place, so  *)
(* several processes may be doing it at once, and any of them may die on   *)
(* the way.                                                                *)
(*                                                                         *)
(* SQLite is modelled by its rules: the statements of the schema script    *)
(* and the ALTERs commit one by one; the backfill of the jobs table opens  *)
(* a transaction that holds the write lock until the commit, and what it   *)
(* did is gone with a process that dies before it.                         *)
(***************************************************************************)
EXTENDS Naturals, Sequences, FiniteSets

CONSTANTS
  Processes,
  Tables,       \* the tables of schema.sql, in its order; notes is the first
  Columns,      \* columns an ALTER adds to a table that predates them
  OldJobs,      \* what jobs of one key an old file may hold: statuses by id
  MaxWrites,    \* bound: rows written by processes that have opened the file
  MaxCrashes    \* bound: processes that die while opening

ASSUME OpeningAssumption ==
  /\ "no one" \notin Processes
  /\ Tables \in Seq(STRING) /\ Tables[1] = "notes"
  /\ "egress_log" \in {Tables[i] : i \in DOMAIN Tables}
  /\ OldJobs \subseteq Seq({"pending", "failed"})
  /\ MaxWrites \in Nat /\ MaxCrashes \in Nat

SchemaVersion == 2
Named == {Tables[i] : i \in DOMAIN Tables}
NoOne == "no one"

VARIABLES
  db,       \* the committed database
  work,     \* the database as the writing transaction sees it
  lock,     \* the process whose transaction holds the write lock
  pc,       \* how far each process has come
  fresh,    \* is_fresh, as each process probed it
  todo,     \* the statements left of the script, the columns left to add
  writes,   \* rows written so far
  crashes   \* processes that died so far

vars == <<db, work, lock, pc, fresh, todo, writes, crashes>>

(* A database: user_version; the tables there are; the columns added; the
   shape of egress_log and the width of idx_jobs_live; the jobs of one key
   by id; the egress rows, each with the destination it recorded or none. *)
Empty == [version |-> 0, tables |-> {}, columns |-> {}, egress |-> "target",
          index |-> "wide", jobs |-> <<>>, sent |-> {}]

\* The file of an older release: an older column set and a narrower index. One
\* from before the versions has an older egress_log or none; one stamped 1 has
\* the new one, with a row that says where its call went. Each has notes: a
\* file with other tables alone is no release's, and is taken for a new one.
OldFile(v, ts, js) ==
  [version |-> v, tables |-> ts, columns |-> {}, index |-> "narrow", jobs |-> js,
   egress |-> IF v = 0 THEN "old" ELSE "target",
   sent |-> IF "egress_log" \notin ts THEN {}
            ELSE {[id |-> 1, to |-> IF v = 0 THEN "none" ELSE "host"]}]
OldFiles ==
  {OldFile(0, ts, js) : ts \in {Named, Named \ {"egress_log"}}, js \in OldJobs}
  \cup {OldFile(1, Named, js) : js \in OldJobs}

Init ==
  /\ db \in OldFiles \cup {Empty} /\ work = db
  /\ lock = NoOne /\ pc = [p \in Processes |-> "closed"]
  /\ fresh = [p \in Processes |-> FALSE]
  /\ todo = [p \in Processes |-> [tables |-> <<>>, columns |-> {}]]
  /\ writes = 0 /\ crashes = 0

-----------------------------------------------------------------------------
(* What the statements do *)

Live(js) == {i \in DOMAIN js : js[i] \in {"pending", "running", "failed"}}
Keep(js, S) == [i \in DOMAIN js \cap S |-> js[i]]
MaxId(S) == CHOOSE i \in S : \A j \in S : j <= i

\* CREATE TABLE IF NOT EXISTS, with the table's index.
Created(d, t) ==
  IF t \in d.tables THEN d
  ELSE [d EXCEPT !.tables = @ \cup {t},
                 !.egress = IF t = "egress_log" THEN "target" ELSE @,
                 !.index = IF t = "jobs" THEN "wide" ELSE @]

\* The probe keys on notes, the oldest table.
IsFresh(d) == "notes" \notin d.tables

\* The rebuild of egress_log copies the columns an old row could have.
V1(d) == [d EXCEPT !.egress = "target",
                   !.sent = {[id |-> r.id, to |-> "none"] : r \in @}]

\* Slip: of a group the failed rows are thinned out, its live row or not.
OnlyNewestFailed(js) ==
  LET failed == {i \in DOMAIN js : js[i] = "failed"} IN
  Keep(js, {i \in DOMAIN js : i \in failed => i = MaxId(failed)})

\* The two DELETEs: a failed row with a live sibling, then all but the
\* newest of the failed.
Deduped(js) ==
  LET failed == {i \in DOMAIN js : js[i] = "failed"}
      kept == IF Live(js) \ failed # {} THEN {} ELSE {MaxId(failed)}
  IN IF failed = {} THEN js
     ELSE Keep(js, {i \in DOMAIN js : i \in failed => i \in kept})

V2(d) == [d EXCEPT !.index = "wide", !.jobs = Deduped(d.jobs)]

\* CREATE UNIQUE INDEX fails over two live rows of one key.
Unique(d) == Cardinality(Live(d.jobs)) <= 1

-----------------------------------------------------------------------------
(* init_db *)

At(p, l) == pc[p] = l
Goes(p, l) == pc' = [pc EXCEPT ![p] = l]
Free == lock = NoOne

\* The probe reads, and needs no lock.
Probe(p) ==
  /\ At(p, "closed") /\ Goes(p, "script")
  /\ fresh' = [fresh EXCEPT ![p] = IsFresh(db)]
  /\ todo' = [todo EXCEPT ![p] = [tables |-> Tables, columns |-> Columns]]
  /\ UNCHANGED <<db, work, lock, writes, crashes>>

\* executescript: each statement commits on its own.
Script(p) ==
  /\ At(p, "script")
  /\ Free \/ \A i \in DOMAIN todo[p].tables : todo[p].tables[i] \in db.tables
  /\ IF todo[p].tables = <<>>
       THEN Goes(p, "alter") /\ UNCHANGED <<db, work, todo>>
       ELSE /\ db' = Created(db, Head(todo[p].tables))
            /\ work' = IF Free THEN db' ELSE work
            /\ todo' = [todo EXCEPT ![p].tables = Tail(@)] /\ UNCHANGED pc
  /\ UNCHANGED <<lock, fresh, writes, crashes>>

\* An ALTER adds its column. Any OperationalError is swallowed: the column
\* is there, or somebody held the lock for too long.
Alter(p) ==
  /\ At(p, "alter") /\ todo[p].columns # {}
  /\ \E c \in todo[p].columns :
       /\ todo' = [todo EXCEPT ![p].columns = @ \ {c}]
       /\ IF Free THEN db' = [db EXCEPT !.columns = @ \cup {c}] /\ work' = db'
                  ELSE UNCHANGED <<db, work>>
  /\ UNCHANGED <<lock, pc, fresh, writes, crashes>>

\* The backfill begins the transaction and takes the lock, whether a row
\* matches or not.
Backfill(p) ==
  /\ At(p, "alter") /\ todo[p].columns = {} /\ Free
  /\ lock' = p /\ work' = db /\ Goes(p, "version")
  /\ UNCHANGED <<db, fresh, todo, writes, crashes>>

\* Slip: a file that is not new is taken for one from before the versions.
BeforeTheVersions(p) == IF fresh[p] THEN SchemaVersion ELSE 0

\* user_version, read under the lock; a new file is stamped.
Current(p) == IF fresh[p] THEN SchemaVersion ELSE work.version

Stamp(p) ==
  /\ At(p, "version") /\ Current(p) = SchemaVersion
  /\ work' = [work EXCEPT !.version = SchemaVersion] /\ Goes(p, "commit")
  /\ UNCHANGED <<db, lock, fresh, todo, writes, crashes>>

\* Slip: each migration's savepoint is a transaction of its own, and the
\* version is not part of it.
CommitsEarly(p, d) == db' = [d EXCEPT !.version = SchemaVersion] /\ work' = d

\* The migrations change what the transaction sees.
InTransaction(p, d) == work' = d /\ UNCHANGED db

\* The first migration, unless the file has it.
MigrateEgress(p) ==
  /\ At(p, "version") /\ Current(p) < SchemaVersion
  /\ InTransaction(p, IF Current(p) < 1 THEN V1(work) ELSE work)
  /\ Goes(p, "jobs")
  /\ UNCHANGED <<lock, fresh, todo, writes, crashes>>

MigrateJobs(p) ==
  /\ At(p, "jobs")
  /\ LET d == V2(work) IN
     IF Unique(d)
       THEN /\ work' = [d EXCEPT !.version = SchemaVersion]
            /\ Goes(p, "commit") /\ UNCHANGED lock
       ELSE work' = db /\ lock' = NoOne /\ Goes(p, "closed")
  /\ UNCHANGED <<db, fresh, todo, writes, crashes>>

Commit(p) ==
  /\ At(p, "commit") /\ db' = work /\ lock' = NoOne /\ Goes(p, "open")
  /\ UNCHANGED <<work, fresh, todo, writes, crashes>>

\* A process dies, or gives up on a locked database: it is run again later.
Crash(p) ==
  /\ crashes < MaxCrashes /\ ~At(p, "closed") /\ crashes' = crashes + 1
  /\ Goes(p, "closed")
  /\ IF lock = p THEN lock' = NoOne /\ work' = db ELSE UNCHANGED <<lock, work>>
  /\ UNCHANGED <<db, fresh, todo, writes>>

-----------------------------------------------------------------------------
(* What the processes that have opened the file write to it *)

Writes(p) ==
  /\ At(p, "open") /\ Free /\ writes < MaxWrites /\ writes' = writes + 1
  /\ work' = db' /\ UNCHANGED <<lock, pc, fresh, todo, crashes>>

\* enqueue: a row, unless the index refuses it.
Enqueue(p) ==
  /\ Live(db.jobs) = {}
  /\ db' = [db EXCEPT !.jobs = <<"pending">>]
  /\ Writes(p)

Fails(p) ==
  /\ \E i \in DOMAIN db.jobs : /\ db.jobs[i] = "pending"
                               /\ db' = [db EXCEPT !.jobs[i] = "failed"]
  /\ Writes(p)

\* A tool call's egress row, with where it went.
LogTool(p) ==
  /\ db' = [db EXCEPT !.sent = @ \cup {[id |-> Cardinality(@) + 1,
                                        to |-> "host"]}]
  /\ Writes(p)

-----------------------------------------------------------------------------
Opens(p) == Probe(p) \/ Script(p) \/ Alter(p) \/ Backfill(p) \/ Stamp(p)
            \/ MigrateEgress(p) \/ MigrateJobs(p) \/ Commit(p)

Next == \E p \in Processes :
  Opens(p) \/ Crash(p) \/ Enqueue(p) \/ Fails(p) \/ LogTool(p)

Spec == Init /\ [][Next]_vars

\* Each process runs, and SQLite's busy timeout lets each get the lock.
FairSpec == Spec /\ \A p \in Processes : SF_vars(Opens(p))

-----------------------------------------------------------------------------
(* Properties *)

\* Whoever got a connection from init_db works on the schema it was written
\* for, whoever else opened the file, and whoever died opening it.
OpenMeansCurrent ==
  (\E p \in Processes : At(p, "open")) =>
    /\ db.version = SchemaVersion /\ db.tables = Named
    /\ db.columns = Columns
    /\ db.egress = "target" /\ db.index = "wide"

\* Migrating loses no egress row and not where a row says a call went, nor
\* the last live job of a key; and the narrow index's duplicates do not
\* outlive it.
NothingLost ==
  [][/\ \A r \in db.sent : r \in db'.sent
     /\ Live(db.jobs) # {} => Live(db'.jobs) # {}
     /\ db'.version = SchemaVersion => Cardinality(Live(db'.jobs)) <= 1]_vars

\* Every process opens the file in the end, whatever an older release left
\* in it and however a former attempt ended.
EveryoneOpens == \A p \in Processes : <>At(p, "open")
=============================================================================
