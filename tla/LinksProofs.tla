------------------------------ MODULE LinksProofs ------------------------------
(***************************************************************************)
(* Every link ends at a snapshot, is owed a fetch or is known to be lost,  *)
(* and a link to an issue or page stays one, whatever number of notes is   *)
(* saved, sources fetched and backfills run and killed (Links). And one    *)
(* fetch comes to the verdict its site calls for, and takes an issue's     *)
(* comments whole, for any site, thread, page size and number of redirects *)
(* (Fetching).                                                             *)
(***************************************************************************)
EXTENDS Links, Fetching, SequenceTheorems, WellFoundedInduction, TLAPS

Rows == [Ids -> [base : {"absent", "null", "kept"}, head : {"none", "ok", "gone"}]]

LinkRows == [note : Notes, quoted : Refs, to : Ids]

NoLink == NoFill.link

Runs == [step : {"idle", "fetch", "repoint", "finish", "hook"},
         ext : Ids, to : Ids, beaten : BOOLEAN]

Holding == {"repoint", "enqueue", "insert", "enqueue bare"}
Fillings == [step : {"idle", "links", "bare"} \cup Holding,
             name : Connectors \cup {""}, using : SUBSET Connectors,
             retry : BOOLEAN, todo : SUBSET LinkRows,
             link : LinkRows \cup {NoLink}]

LinksTypeOK ==
  /\ active \subseteq Connectors
  /\ body \in [Notes -> SUBSET Refs]
  /\ edges \subseteq LinkRows
  /\ ext \in Rows
  /\ tries \in [Ids -> 0..MaxAttempts]
  /\ run \in Runs
  /\ fill \in Fillings /\ (fill.step \in Holding => fill.link \in LinkRows)
  /\ events \in 0..MaxEvents
  /\ lost \subseteq Ids

\* What the worker holds in its hands: the job it claimed is live until it is
\* done with it; where a fetch has ended there is a snapshot; and only a web
\* page ends anywhere but at itself.
RunKnows ==
  /\ run.step \in {"fetch", "repoint", "finish"} => tries[run.ext] > 0
  /\ run.step \in {"repoint", "finish"} => ext[run.to].head # "none"
  /\ run.to # run.ext => run.ext \in Pages

\* Once the edges of a page that redirects have been moved, what still links
\* to it came later, and is known to be lost unless the page has a snapshot.
MovedAway ==
  run.step = "finish" /\ run.to # run.ext =>
    \A e \in edges : e.to = run.ext => run.ext \in lost \/ ext[run.ext].head # "none"

\* What the backfill of bare keys inserts leads to the key it will enqueue.
BareLeads ==
  /\ fill.step = "bare" => \A e \in fill.todo : e.to = Key[e.quoted]
  /\ fill.step \in {"insert", "enqueue bare"} =>
       /\ fill.link.to = Key[fill.link.quoted]
       /\ \A e \in fill.todo : e.to = Key[e.quoted]

LinksInv == LinksTypeOK /\ RunKnows /\ MovedAway /\ BareLeads /\ LinksResolve

-----------------------------------------------------------------------------
(* What the operators give                                                 *)

LEMMA KeyIsId == ASSUME NEW r \in Refs PROVE Key[r] \in Keys /\ Key[r] \in Ids
  BY DEF Ids, Keys

LEMMA LandingIsId == Landing \in Pages /\ Landing \in Ids
  BY DEF Ids, Pages

\* A reference that is found leads to its key or, as a URL, to its page.
LEMMA DetectedLeads ==
  ASSUME NEW S \in SUBSET Refs, NEW using, NEW r \in Detected(S, using)
  PROVE  r \in Refs /\ Leads(r, using) \in Ids
<1>0. PICK q \in Found(S, using) : r = Quoting(Leads(q, using), S, using)
  BY DEF Detected
<1> DEFINE there == {p \in Found(S, using) : Leads(p, using) = Leads(q, using)}
<1>2. \E p \in there : Kind[p] = "bare" => \A o \in there : Kind[o] = "bare"
  OBVIOUS
<1>3. r \in there
  BY <1>0, <1>2 DEF Quoting
<1>1. r \in Refs /\ (Kind[r] = "bare" => Classified(r, using))
  BY <1>3 DEF Found
<1> QED
  BY <1>1, KeyIsId DEF Leads, Ids, Pages

LEMMA MintedKeepsHeads ==
  ASSUME ext \in Rows, NEW S
  PROVE  Minted(S) \in Rows /\ \A i \in Ids : Minted(S)[i].head = ext[i].head
<1>1. ASSUME NEW i \in Ids
      PROVE  [ext[i] EXCEPT !.base = "kept"] \in
               [base : {"absent", "null", "kept"}, head : {"none", "ok", "gone"}]
             /\ [ext[i] EXCEPT !.base = "kept"].head = ext[i].head
  BY DEF Rows
<1> QED
  BY <1>1 DEF Rows, Minted

LEMMA IngestedHasHead ==
  ASSUME ext \in Rows, NEW i \in Ids, NEW h \in {"ok", "gone"}
  PROVE  /\ Ingested(i, h) \in Rows /\ Ingested(i, h)[i].head = h
         /\ \A j \in Ids : ext[j].head # "none" => Ingested(i, h)[j].head # "none"
  BY DEF Rows, Ingested

LEMMA EnqueuedIsLive ==
  ASSUME tries \in [Ids -> 0..MaxAttempts], NEW S
  PROVE  /\ Enqueued(S) \in [Ids -> 0..MaxAttempts]
         /\ \A i \in Ids : tries[i] > 0 \/ i \in S => Enqueued(S)[i] > 0
  BY LinksAssumption DEF Enqueued

LEMMA RepointedRows ==
  ASSUME edges \subseteq LinkRows, NEW old, NEW new \in Ids
  PROVE  /\ Repointed(old, new) \subseteq LinkRows
         /\ \A e \in Repointed(old, new) : e.to = new \/ (e \in edges /\ e.to # old)
         /\ \A e \in edges : \E f \in Repointed(old, new) :
              f.note = e.note /\ f.quoted = e.quoted
                /\ f.to = IF e.to = old THEN new ELSE e.to
<1>1. ASSUME NEW e \in edges
      PROVE  /\ [e EXCEPT !.to = new] \in LinkRows /\ [e EXCEPT !.to = new].to = new
             /\ [e EXCEPT !.to = new].note = e.note
             /\ [e EXCEPT !.to = new].quoted = e.quoted
  BY DEF LinkRows
<1> QED
  BY <1>1 DEF Repointed

-----------------------------------------------------------------------------
(* Types                                                                   *)

LEMMA LinksInitTypeOK == Init => LinksTypeOK
<1> SUFFICES ASSUME Init PROVE LinksTypeOK
  OBVIOUS
<1>1. run \in Runs /\ fill \in Fillings /\ fill.step \notin Holding
  BY LandingIsId DEF Init, NoRun, NoFill, NoLink, Runs, Fillings, Holding
<1> QED
  BY <1>1, LinksAssumption DEF Init, LinksTypeOK, Rows, Connectors

LEMMA UsersKeepTypes ==
  ASSUME LinksTypeOK,
         \/ \E using \in SUBSET Connectors : Configure(using)
         \/ \E n \in Notes, S \in SUBSET Refs : Save(n, S)
         \/ \E r \in Refs : AskFetch(r)
         \/ \E i \in Ids : Sweep(i)
  PROVE  LinksTypeOK'
<1>0. events' \in 0..MaxEvents
  <2>1. Happens
    BY Zenon DEF Configure, Save, AskFetch, Sweep
  <2> QED
    BY <2>1, LinksAssumption DEF LinksTypeOK, Happens
<1>1. ASSUME NEW using \in SUBSET Connectors, Configure(using)
      PROVE  LinksTypeOK'
  BY <1>0, <1>1 DEF LinksTypeOK, Configure
<1>2. ASSUME NEW n \in Notes, NEW S \in SUBSET Refs, Save(n, S)
      PROVE  LinksTypeOK'
  <2> DEFINE fresh == {r \in Detected(S, active) : ~Linked(n, Leads(r, active))}
             to == {Leads(r, active) : r \in fresh}
  <2>1. \A r \in fresh : r \in Refs /\ Leads(r, active) \in Ids
    BY DetectedLeads
  <2>2. /\ body' = [body EXCEPT ![n] = S]
        /\ edges' = edges \cup {Link(n, r, Leads(r, active)) : r \in fresh}
        /\ ext' = Minted(to \cap Keys) /\ tries' = Enqueued(to)
        /\ lost' = (lost \ to) \cup {i \in to : run.step = "finish" /\ run.ext = i
                                                 /\ run.to # i}
        /\ UNCHANGED <<active, run, fill>>
    BY <1>2 DEF Save
  <2>3. to \subseteq Ids
    BY <2>1
  <2> HIDE DEF to
  <2>4. edges' \subseteq LinkRows
    BY <2>1, <2>2 DEF LinksTypeOK, LinkRows, Link
  <2>5. ext' \in Rows /\ tries' \in [Ids -> 0..MaxAttempts]
    BY <2>2, MintedKeepsHeads, EnqueuedIsLive DEF LinksTypeOK
  <2>6. body' \in [Notes -> SUBSET Refs] /\ lost' \subseteq Ids
    BY <2>2, <2>3 DEF LinksTypeOK
  <2> QED
    BY <1>0, <2>2, <2>4, <2>5, <2>6 DEF LinksTypeOK
<1>3. ASSUME NEW r \in Refs, AskFetch(r)
      PROVE  LinksTypeOK'
  <2>1. ext' \in Rows
    BY <1>3, KeyIsId, IngestedHasHead DEF AskFetch, LinksTypeOK
  <2>2. run' \in Runs
    BY <1>3 DEF AskFetch, LinksTypeOK, Runs
  <2> QED
    BY <1>0, <1>3, <2>1, <2>2 DEF LinksTypeOK, AskFetch
<1>4. ASSUME NEW i \in Ids, Sweep(i)
      PROVE  LinksTypeOK'
  <2>1. tries' \in [Ids -> 0..MaxAttempts]
    BY <1>4, EnqueuedIsLive DEF LinksTypeOK, Sweep
  <2> QED
    BY <1>0, <1>4, <2>1 DEF LinksTypeOK, Sweep
<1> QED
  BY <1>1, <1>2, <1>3, <1>4

LEMMA WorkerKeepsTypes ==
  ASSUME LinksTypeOK, RunKnows,
         \/ \E i \in Ids : Claim(i)
         \/ \E h \in {"ok", "gone"}, i \in Ids : Fetch(h, i)
         \/ Repoint \/ Finish \/ Fails \/ Hook \/ HookKilled
  PROVE  LinksTypeOK'
<1>0. run \in Runs /\ NoRun \in Runs
  BY LandingIsId DEF LinksTypeOK, Runs, NoRun
<1>1. ASSUME NEW i \in Ids, Claim(i)
      PROVE  LinksTypeOK'
  <2>1. run' \in Runs
    BY <1>1 DEF Claim, Runs
  <2> QED
    BY <1>1, <2>1 DEF LinksTypeOK, Claim
<1>2. ASSUME NEW h \in {"ok", "gone"}, NEW i \in Ids, Fetch(h, i)
      PROVE  LinksTypeOK'
  <2>1. ext' \in Rows
    BY <1>2, IngestedHasHead DEF Fetch, LinksTypeOK
  <2>2. run' \in Runs
    BY <1>0, <1>2 DEF Fetch, Runs
  <2> QED
    BY <1>2, <2>1, <2>2 DEF LinksTypeOK, Fetch
<1>3. CASE Repoint
  <2>1. edges' \subseteq LinkRows
    BY <1>0, <1>3, RepointedRows DEF Repoint, LinksTypeOK, Runs
  <2>2. run' \in Runs
    BY <1>0, <1>3 DEF Repoint, Runs
  <2> QED
    BY <1>3, <2>1, <2>2 DEF LinksTypeOK, Repoint
<1>4. CASE Finish
  <2>0. 0 \in 0..MaxAttempts
    BY LinksAssumption
  <2>1. tries' \in [Ids -> 0..MaxAttempts]
    BY <1>4, <2>0 DEF LinksTypeOK, Finish
  <2> QED
    BY <1>0, <1>4, <2>1 DEF LinksTypeOK, Finish
<1>5. CASE Fails
  <2>1. run.ext \in Ids /\ tries[run.ext] \in 1..MaxAttempts
    BY <1>0, <1>5 DEF Fails, RunKnows, LinksTypeOK, Runs
  <2>2. tries' \in [Ids -> 0..MaxAttempts]
    BY <1>5, <2>1, LinksAssumption DEF Fails, Charged, LinksTypeOK
  <2>3. run' \in Runs
    BY <1>0, <1>5 DEF Fails, Runs
  <2> QED
    BY <1>5, <2>2, <2>3 DEF LinksTypeOK, Fails
<1>6. CASE Hook
  <2>1. ext' \in Rows
    BY <1>0, <1>6, IngestedHasHead DEF Hook, LinksTypeOK, Runs
  <2> QED
    BY <1>0, <1>6, <2>1 DEF LinksTypeOK, Hook
<1>7. CASE HookKilled
  BY <1>0, <1>7 DEF LinksTypeOK, HookKilled, Runs
<1> QED
  BY <1>1, <1>2, <1>3, <1>4, <1>5, <1>6, <1>7

Filling ==
  \/ \E name \in Connectors, retry \in BOOLEAN : FillStarts(name, retry)
  \/ \E e \in fill.todo : FillMints(e) \/ FillMintsBare(e)
  \/ FillRepoints \/ FillReads \/ FillInserts \/ FillEnqueues \/ FillEnds
  \/ FillKilled

\* What the backfill reads for the bare keys of all notes is links.
LEMMA BareKeysAreLinks ==
  ASSUME body \in [Notes -> SUBSET Refs], FillReads
  PROVE  /\ fill' = [fill EXCEPT !.step = "bare", !.todo = fill'.todo]
         /\ \A e \in fill'.todo : e \in LinkRows /\ e.to = Key[e.quoted]
<1> DEFINE T(n) == {Link(n, r, Key[r]) : r \in {q \in body[n] :
                      Kind[q] = "bare" /\ Classified(q, fill.using)}}
           U == UNION {T(n) : n \in Notes}
<1>1. fill' = [fill EXCEPT !.step = "bare", !.todo = U]
  BY DEF FillReads
<1>2. \A n \in Notes : \A e \in T(n) : e \in LinkRows /\ e.to = Key[e.quoted]
  BY KeyIsId DEF Link, LinkRows
<1>3. \A e \in U : e \in LinkRows /\ e.to = Key[e.quoted]
  BY <1>2
<1> HIDE DEF U
<1>4. fill'.todo = U
  BY <1>1
<1> QED
  BY <1>1, <1>3, <1>4

LEMMA FillingKeepsTypes ==
  ASSUME LinksTypeOK, Filling
  PROVE  LinksTypeOK'
<1> USE DEF Holding
<1>0. fill \in Fillings /\ NoFill \in Fillings /\ NoFill.step = "idle"
  BY DEF LinksTypeOK, Fillings, NoFill, NoLink
<1>1. ASSUME NEW name \in Connectors, NEW retry \in BOOLEAN,
             FillStarts(name, retry)
      PROVE  LinksTypeOK'
  <2> DEFINE T == {e \in edges : Reclassifies(name, e, active)}
  <2>1. fill' = [NoFill EXCEPT !.step = "links", !.name = name, !.using = active,
                               !.retry = retry, !.todo = T]
        /\ T \subseteq edges
    BY <1>1 DEF FillStarts
  <2> HIDE DEF T
  <2>2. T \subseteq LinkRows /\ active \subseteq Connectors
    BY <2>1 DEF LinksTypeOK
  <2>3. fill' \in Fillings /\ fill'.step = "links"
    BY <1>0, <2>1, <2>2 DEF Fillings
  <2>4. events' \in 0..MaxEvents
    BY <1>1, LinksAssumption DEF FillStarts, Happens, LinksTypeOK
  <2> QED
    BY <1>1, <2>3, <2>4 DEF LinksTypeOK, FillStarts
<1>2. ASSUME NEW e \in fill.todo, FillMints(e)
      PROVE  LinksTypeOK'
  <2>1. e \in LinkRows
    BY <1>0 DEF Fillings
  <2>2. fill' \in Fillings /\ fill'.link \in LinkRows
    BY <1>0, <1>2, <2>1 DEF FillMints, Fillings
  <2>3. ext' \in Rows
    BY <1>2, MintedKeepsHeads DEF LinksTypeOK, FillMints
  <2> QED
    BY <1>2, <2>2, <2>3 DEF LinksTypeOK, FillMints
<1>3. ASSUME NEW e \in fill.todo, FillMintsBare(e)
      PROVE  LinksTypeOK'
  <2>1. e \in LinkRows
    BY <1>0 DEF Fillings
  <2>2. fill' \in Fillings /\ (fill'.step \in Holding => fill'.link \in LinkRows)
    <3>1. /\ fill.step = "bare"
          /\ \/ fill' = [fill EXCEPT !.todo = @ \ {e}]
             \/ fill' = [fill EXCEPT !.todo = @ \ {e}, !.link = e, !.step = "insert"]
      BY <1>3, Zenon DEF FillMintsBare
    <3>2. fill.todo \ {e} \subseteq LinkRows
      BY <1>0 DEF Fillings
    <3> QED
      BY <1>0, <2>1, <3>1, <3>2 DEF Fillings
  <2>3. ext' \in Rows
    BY <1>3, MintedKeepsHeads DEF LinksTypeOK, FillMintsBare
  <2> QED
    BY <1>3, <2>2, <2>3 DEF LinksTypeOK, FillMintsBare
<1>4. CASE FillRepoints
  <2>1. fill.link \in LinkRows
    BY <1>4 DEF LinksTypeOK, FillRepoints
  <2>2. Key[fill.link.quoted] \in Ids
    BY <2>1, KeyIsId DEF LinkRows
  <2>3. edges' \subseteq LinkRows
    BY <1>4, <2>2, RepointedRows DEF LinksTypeOK, FillRepoints
  <2>4. fill' \in Fillings /\ fill'.link = fill.link
    BY <1>0, <1>4 DEF FillRepoints, Fillings
  <2> QED
    BY <1>4, <2>1, <2>3, <2>4 DEF LinksTypeOK, FillRepoints
<1>5. CASE FillReads
  <2>1. fill' \in Fillings /\ fill'.step = "bare"
    BY <1>0, <1>5, BareKeysAreLinks DEF LinksTypeOK, Fillings
  <2> QED
    BY <1>5, <2>1 DEF LinksTypeOK, FillReads
<1>6. CASE FillInserts
  <2>1. fill' \in Fillings /\ fill'.link = fill.link /\ fill.link \in LinkRows
    BY <1>0, <1>6 DEF FillInserts, Fillings, LinksTypeOK
  <2> QED
    BY <1>6, <2>1 DEF LinksTypeOK, FillInserts
<1>7. CASE FillEnqueues
  <2>1. fill' \in Fillings /\ fill'.step \in {"links", "bare"}
    BY <1>0, <1>7 DEF FillEnqueues, Fillings
  <2>2. tries' \in [Ids -> 0..MaxAttempts] /\ lost' \subseteq Ids
    BY <1>7, EnqueuedIsLive DEF FillEnqueues, LinksTypeOK
  <2> QED
    BY <1>7, <2>1, <2>2 DEF LinksTypeOK, FillEnqueues
<1>8. CASE FillEnds
  BY <1>0, <1>8 DEF LinksTypeOK, FillEnds
<1>9. CASE FillKilled
  <2>1. lost' \subseteq Ids
    BY <1>9, KeyIsId DEF LinksTypeOK, FillKilled, LinkRows
  <2> QED
    BY <1>0, <1>9, <2>1 DEF LinksTypeOK, FillKilled
<1> QED
  BY <1>1, <1>2, <1>3, <1>4, <1>5, <1>6, <1>7, <1>8, <1>9 DEF Filling

-----------------------------------------------------------------------------
(* The invariant                                                           *)

LEMMA LinksInitInv == Init => LinksInv
<1> SUFFICES ASSUME Init PROVE LinksInv
  OBVIOUS
<1>1. /\ run.step = "idle" /\ run.to = run.ext /\ fill.step = "idle"
      /\ edges = {}
  BY DEF Init, NoRun, NoFill
<1> QED
  BY <1>1, LinksInitTypeOK DEF LinksInv, RunKnows, MovedAway, BareLeads,
     LinksResolve

\* A save owes each of its new links a fetch, or knows it for lost when the
\* refresh that is live has already moved the page's links.
LEMMA SaveKeepsInv ==
  ASSUME LinksInv, LinksTypeOK', NEW n \in Notes, NEW S \in SUBSET Refs, Save(n, S)
  PROVE  LinksInv'
<1> DEFINE fresh == {r \in Detected(S, active) : ~Linked(n, Leads(r, active))}
           to == {Leads(r, active) : r \in fresh}
<1>1. /\ edges' = edges \cup {Link(n, r, Leads(r, active)) : r \in fresh}
      /\ ext' = Minted(to \cap Keys) /\ tries' = Enqueued(to)
      /\ lost' = (lost \ to) \cup {i \in to : run.step = "finish" /\ run.ext = i
                                               /\ run.to # i}
      /\ run' = run /\ fill' = fill
  BY DEF Save
<1>2. \A r \in fresh : r \in Refs /\ Leads(r, active) \in Ids
  BY DetectedLeads
<1>3. to \subseteq Ids
  BY <1>2
<1>4. \A e \in edges' : e \in edges \/ e.to \in to
  BY <1>1 DEF Link
<1> HIDE DEF to
<1>5. \A i \in Ids : ext'[i].head = ext[i].head
  BY <1>1, MintedKeepsHeads DEF LinksInv, LinksTypeOK
<1>6. \A i \in Ids : tries[i] > 0 \/ i \in to => tries'[i] > 0
  BY <1>1, EnqueuedIsLive DEF LinksInv, LinksTypeOK
<1>7. run.ext \in Ids /\ run.to \in Ids
  BY DEF LinksInv, LinksTypeOK, Runs
<1>8. RunKnows' /\ BareLeads'
  BY <1>1, <1>5, <1>6, <1>7 DEF LinksInv, RunKnows, BareLeads
<1>9. MovedAway'
  BY <1>1, <1>4, <1>5, <1>7 DEF LinksInv, MovedAway
<1>10. \A e \in edges : e.to \in Ids
  BY DEF LinksInv, LinksTypeOK, LinkRows
<1>11. LinksResolve'
  <2> SUFFICES ASSUME NEW e \in edges'
               PROVE  (ext[e.to].head # "none" \/ Owed(e.to) \/ e.to \in lost)'
    BY DEF LinksResolve
  <2>1. CASE e.to \in to
    BY <1>3, <1>6, <2>1 DEF Owed
  <2>2. CASE e.to \notin to
    BY <1>1, <1>4, <1>5, <1>6, <1>10, <2>2 DEF LinksInv, LinksResolve, Owed
  <2> QED
    BY <2>1, <2>2
<1> QED
  BY <1>8, <1>9, <1>11 DEF LinksInv

LEMMA UsersKeepInv ==
  ASSUME LinksInv, LinksTypeOK',
         \/ \E using \in SUBSET Connectors : Configure(using)
         \/ \E r \in Refs : AskFetch(r)
         \/ \E i \in Ids : Sweep(i)
  PROVE  LinksInv'
<1>0. /\ \A e \in edges : e.to \in Ids
      /\ run.ext \in Ids /\ run.to \in Ids
  BY DEF LinksInv, LinksTypeOK, LinkRows, Runs
<1>1. ASSUME NEW using \in SUBSET Connectors, Configure(using)
      PROVE  LinksInv'
  BY <1>1 DEF Configure, LinksInv, RunKnows, MovedAway, BareLeads, LinksResolve, Owed
<1>2. ASSUME NEW r \in Refs, AskFetch(r)
      PROVE  LinksInv'
  <2>1. \A i \in Ids : ext[i].head # "none" => ext'[i].head # "none"
    BY <1>2, KeyIsId, IngestedHasHead DEF AskFetch, LinksInv, LinksTypeOK
  <2>2. /\ run'.step = run.step /\ run'.ext = run.ext /\ run'.to = run.to
        /\ UNCHANGED <<edges, tries, fill, lost>>
    BY <1>2 DEF AskFetch, LinksInv, LinksTypeOK, Runs
  <2>3. RunKnows' /\ MovedAway' /\ BareLeads'
    BY <1>0, <2>1, <2>2 DEF LinksInv, RunKnows, MovedAway, BareLeads
  <2>4. LinksResolve'
    BY <1>0, <2>1, <2>2 DEF LinksInv, LinksResolve, Owed
  <2> QED
    BY <2>3, <2>4 DEF LinksInv
<1>3. ASSUME NEW i \in Ids, Sweep(i)
      PROVE  LinksInv'
  <2>1. \A j \in Ids : tries[j] > 0 => tries'[j] > 0
    BY <1>3, EnqueuedIsLive DEF Sweep, LinksInv, LinksTypeOK
  <2>2. UNCHANGED <<edges, ext, run, fill, lost>>
    BY <1>3 DEF Sweep
  <2>3. RunKnows' /\ MovedAway' /\ BareLeads'
    BY <1>0, <2>1, <2>2 DEF LinksInv, RunKnows, MovedAway, BareLeads
  <2>4. LinksResolve'
    BY <1>0, <2>1, <2>2 DEF LinksInv, LinksResolve, Owed
  <2> QED
    BY <2>3, <2>4 DEF LinksInv
<1> QED
  BY <1>1, <1>2, <1>3

LEMMA WorkerKeepsInv ==
  ASSUME LinksInv, LinksTypeOK',
         \/ \E i \in Ids : Claim(i)
         \/ \E h \in {"ok", "gone"}, i \in Ids : Fetch(h, i)
         \/ Repoint \/ Finish \/ Fails \/ Hook \/ HookKilled
  PROVE  LinksInv'
<1>0. /\ \A e \in edges : e.to \in Ids
      /\ run \in Runs /\ run.ext \in Ids /\ run.to \in Ids
      /\ tries \in [Ids -> 0..MaxAttempts] /\ ext \in Rows
  BY DEF LinksInv, LinksTypeOK, LinkRows, Runs
<1>1. ASSUME NEW i \in Ids, Claim(i)
      PROVE  LinksInv'
  <2>1. /\ run'.step = "fetch" /\ run'.ext = i /\ run'.to = i
        /\ run.step = "idle" /\ tries[i] > 0
        /\ UNCHANGED <<edges, ext, tries, fill, lost>>
    BY <1>1 DEF Claim
  <2> QED
    BY <2>1 DEF LinksInv, RunKnows, MovedAway, BareLeads, LinksResolve, Owed
<1>2. ASSUME NEW h \in {"ok", "gone"}, NEW i \in Ids, Fetch(h, i)
      PROVE  LinksInv'
  <2>1. /\ ext'[i].head # "none"
        /\ \A j \in Ids : ext[j].head # "none" => ext'[j].head # "none"
    BY <1>0, <1>2, IngestedHasHead DEF Fetch
  <2>2. /\ run.step = "fetch" /\ run'.ext = run.ext /\ run'.to = i
        /\ run'.step = IF i = run.ext THEN "finish" ELSE "repoint"
        /\ i \in EndsAt(run.ext)
        /\ UNCHANGED <<edges, tries, fill, lost>>
    BY <1>0, <1>2 DEF Fetch, Runs
  <2>3. RunKnows' /\ MovedAway' /\ BareLeads'
    BY <2>1, <2>2 DEF LinksInv, RunKnows, MovedAway, BareLeads, EndsAt
  <2>4. LinksResolve'
    BY <1>0, <2>1, <2>2 DEF LinksInv, LinksResolve, Owed
  <2> QED
    BY <2>3, <2>4 DEF LinksInv
<1>3. CASE Repoint
  <2>1. /\ run.step = "repoint" /\ run'.step = "finish"
        /\ run'.ext = run.ext /\ run'.to = run.to
        /\ UNCHANGED <<ext, tries, fill, lost>>
    BY <1>0, <1>3 DEF Repoint, Runs
  <2>2. \A e \in edges' : e.to = run.to \/ (e \in edges /\ e.to # run.ext)
    BY <1>0, <1>3, RepointedRows DEF Repoint, LinksInv, LinksTypeOK
  <2>3. ext[run.to].head # "none"
    BY <2>1 DEF LinksInv, RunKnows
  <2>4. RunKnows' /\ MovedAway' /\ BareLeads'
    BY <2>1, <2>2, <2>3 DEF LinksInv, RunKnows, MovedAway, BareLeads
  <2>5. LinksResolve'
    BY <2>1, <2>2, <2>3 DEF LinksInv, LinksResolve, Owed
  <2> QED
    BY <2>4, <2>5 DEF LinksInv
<1>4. CASE Finish
  <2>1. /\ run.step = "finish" /\ run' = NoRun
        /\ \A i \in Ids : i # run.ext => tries'[i] = tries[i]
        /\ UNCHANGED <<edges, ext, fill, lost>>
    BY <1>0, <1>4 DEF Finish
  <2>2. ASSUME NEW e \in edges, e.to = run.ext
        PROVE  ext[e.to].head # "none" \/ e.to \in lost
    BY <2>1, <2>2 DEF LinksInv, RunKnows, MovedAway
  <2>3. RunKnows' /\ MovedAway' /\ BareLeads'
    BY <2>1 DEF LinksInv, RunKnows, MovedAway, BareLeads, NoRun
  <2>4. LinksResolve'
    BY <1>0, <2>1, <2>2 DEF LinksInv, LinksResolve, Owed
  <2> QED
    BY <2>3, <2>4 DEF LinksInv
<1>5. CASE Fails
  <2>1. /\ run.step \in {"fetch", "repoint", "finish"}
        /\ \A i \in Ids : i # run.ext => tries'[i] = tries[i]
        /\ tries'[run.ext] = tries[run.ext] - 1
        /\ UNCHANGED <<edges, ext, fill, lost>>
    BY <1>0, <1>5 DEF Fails, Charged
  <2>2. \/ run'.step = "idle" /\ run'.to = run'.ext /\ tries[run.ext] # 1
        \/ run'.step = "hook" /\ run'.ext = run.ext /\ run'.to = run.to
    BY <1>0, <1>5 DEF Fails, Runs, NoRun
  <2>3. tries[run.ext] > 0 /\ tries[run.ext] \in Nat
    BY <1>0, <2>1, LinksAssumption DEF LinksInv, RunKnows
  <2>4. RunKnows' /\ MovedAway' /\ BareLeads'
    BY <2>1, <2>2 DEF LinksInv, RunKnows, MovedAway, BareLeads
  <2>5. LinksResolve'
    <3>1. \A i \in Ids : Owed(i) => Owed(i)'
      <4> SUFFICES ASSUME NEW i \in Ids, Owed(i) PROVE Owed(i)'
        OBVIOUS
      <4>1. CASE i # run.ext \/ tries[run.ext] = 1
        BY <2>1, <2>2, <4>1 DEF Owed
      <4>2. CASE i = run.ext /\ tries[run.ext] # 1
        <5>1. tries[run.ext] - 1 > 0
          BY <2>3, <4>2
        <5> QED
          BY <2>1, <4>2, <5>1 DEF Owed
      <4> QED
        BY <4>1, <4>2
    <3> QED
      BY <1>0, <2>1, <3>1 DEF LinksInv, LinksResolve
  <2> QED
    BY <2>4, <2>5 DEF LinksInv
<1>6. CASE Hook
  <2>1. /\ run.step = "hook" /\ run' = NoRun
        /\ UNCHANGED <<edges, tries, fill, lost>>
    BY <1>6 DEF Hook
  <2>2. /\ ext'[run.ext].head # "none"
        /\ \A j \in Ids : ext[j].head # "none" => ext'[j].head # "none"
    BY <1>0, <1>6, IngestedHasHead DEF Hook
  <2>3. RunKnows' /\ MovedAway' /\ BareLeads'
    BY <2>1 DEF LinksInv, RunKnows, MovedAway, BareLeads, NoRun
  <2>4. LinksResolve'
    BY <1>0, <2>1, <2>2 DEF LinksInv, LinksResolve, Owed
  <2> QED
    BY <2>3, <2>4 DEF LinksInv
<1>7. CASE HookKilled
  <2>1. /\ run.step = "hook" /\ run' = NoRun /\ lost' = lost \cup {run.ext}
        /\ UNCHANGED <<edges, ext, tries, fill>>
    BY <1>7 DEF HookKilled
  <2>2. RunKnows' /\ MovedAway' /\ BareLeads'
    BY <2>1 DEF LinksInv, RunKnows, MovedAway, BareLeads, NoRun
  <2>3. LinksResolve'
    BY <2>1 DEF LinksInv, LinksResolve, Owed
  <2> QED
    BY <2>2, <2>3 DEF LinksInv
<1> QED
  BY <1>1, <1>2, <1>3, <1>4, <1>5, <1>6, <1>7

LEMMA FillingKeepsInv ==
  ASSUME LinksInv, LinksTypeOK', Filling
  PROVE  LinksInv'
<1>0. /\ \A e \in edges : e.to \in Ids
      /\ run.ext \in Ids /\ run.to \in Ids
      /\ fill \in Fillings /\ fill.todo \subseteq LinkRows
      /\ (fill.step \in Holding => fill.link \in LinkRows)
      /\ edges \subseteq LinkRows /\ ext \in Rows
      /\ tries \in [Ids -> 0..MaxAttempts]
  BY DEF LinksInv, LinksTypeOK, LinkRows, Runs, Fillings
<1>1. ASSUME NEW name \in Connectors, NEW retry \in BOOLEAN,
             FillStarts(name, retry)
      PROVE  LinksInv'
  <2>1. /\ fill'.step = "links" /\ fill.step = "idle"
        /\ UNCHANGED <<edges, ext, tries, run, lost>>
    BY <1>1 DEF FillStarts, NoFill
  <2> QED
    BY <2>1 DEF LinksInv, RunKnows, MovedAway, BareLeads, LinksResolve, Owed
<1>2. ASSUME NEW e \in fill.todo, FillMints(e)
      PROVE  LinksInv'
  <2>1. /\ fill'.step \in {"enqueue", "repoint"} /\ fill.step = "links"
        /\ UNCHANGED <<edges, tries, run, lost>>
    BY <1>0, <1>2 DEF FillMints, Fillings
  <2>2. \A i \in Ids : ext'[i].head = ext[i].head
    BY <1>0, <1>2, MintedKeepsHeads DEF FillMints
  <2> QED
    BY <1>0, <2>1, <2>2
    DEF LinksInv, RunKnows, MovedAway, BareLeads, LinksResolve, Owed
<1>3. ASSUME NEW e \in fill.todo, FillMintsBare(e)
      PROVE  LinksInv'
  <2>1. /\ fill.step = "bare"
        /\ \/ fill' = [fill EXCEPT !.todo = @ \ {e}]
           \/ fill' = [fill EXCEPT !.todo = @ \ {e}, !.link = e, !.step = "insert"]
        /\ UNCHANGED <<edges, tries, run, lost>>
    BY <1>3, Zenon DEF FillMintsBare
  <2>2. /\ fill'.step = "bare" \/ (fill'.step = "insert" /\ fill'.link = e)
        /\ fill'.todo = fill.todo \ {e}
    BY <1>0, <2>1 DEF Fillings
  <2>3. \A i \in Ids : ext'[i].head = ext[i].head
    BY <1>0, <1>3, MintedKeepsHeads DEF FillMintsBare
  <2>4. BareLeads'
    BY <2>1, <2>2 DEF LinksInv, BareLeads
  <2>5. RunKnows' /\ MovedAway'
    BY <1>0, <2>1, <2>3 DEF LinksInv, RunKnows, MovedAway
  <2>6. LinksResolve'
    BY <1>0, <2>1, <2>2, <2>3 DEF LinksInv, LinksResolve, Owed
  <2> QED
    BY <2>4, <2>5, <2>6 DEF LinksInv
<1>4. CASE FillRepoints
  <2>1. /\ fill'.step = "enqueue" /\ fill'.link = fill.link
        /\ fill.step = "repoint" /\ fill.link \in LinkRows
        /\ UNCHANGED <<ext, tries, run, lost>>
    BY <1>0, <1>4 DEF FillRepoints, Fillings, Holding
  <2> DEFINE key == Key[fill.link.quoted]
  <2>2. key \in Keys /\ key \in Ids
    BY <2>1, KeyIsId DEF LinkRows
  <2>3. \A e \in edges' : e.to = key \/ e \in edges
    BY <1>0, <1>4, <2>2, RepointedRows DEF FillRepoints
  <2>4. key \notin Pages
    BY <2>2, LinksAssumption
  <2> HIDE DEF key
  <2>5. RunKnows' /\ MovedAway' /\ BareLeads'
    BY <2>1, <2>3, <2>4 DEF LinksInv, RunKnows, MovedAway, BareLeads
  <2>6. LinksResolve'
    BY <2>1, <2>3 DEF LinksInv, LinksResolve, Owed, key
  <2> QED
    BY <2>5, <2>6 DEF LinksInv
<1>5. CASE FillReads
  <2>1. fill'.step = "bare" /\ \A e \in fill'.todo : e.to = Key[e.quoted]
    BY <1>0, <1>5, BareKeysAreLinks DEF LinksInv, LinksTypeOK, Fillings
  <2>2. fill.step = "links" /\ UNCHANGED <<edges, ext, tries, run, lost>>
    BY <1>5 DEF FillReads
  <2> QED
    BY <2>1, <2>2
    DEF LinksInv, RunKnows, MovedAway, BareLeads, LinksResolve, Owed
<1>6. CASE FillInserts
  <2>1. /\ fill.step = "insert" /\ fill'.step = "enqueue bare"
        /\ fill'.link = fill.link /\ fill'.todo = fill.todo
        /\ edges' = edges \cup {fill.link}
        /\ UNCHANGED <<ext, tries, run, lost>>
    BY <1>0, <1>6 DEF FillInserts, Fillings
  <2>2. /\ fill.link.to = Key[fill.link.quoted]
        /\ fill.link.to \in Keys /\ fill.link.to \notin Pages
    BY <1>0, <2>1, KeyIsId, LinksAssumption DEF LinksInv, BareLeads, LinkRows, Holding
  <2>3. RunKnows' /\ MovedAway' /\ BareLeads'
    BY <2>1, <2>2 DEF LinksInv, RunKnows, MovedAway, BareLeads
  <2>4. LinksResolve'
    BY <2>1, <2>2 DEF LinksInv, LinksResolve, Owed
  <2> QED
    BY <2>3, <2>4 DEF LinksInv
<1>7. CASE FillEnqueues
  <2> DEFINE key == Key[fill.link.quoted]
  <2>0. key \in Keys /\ key \in Ids
    BY <1>0, <1>7, KeyIsId DEF FillEnqueues, LinkRows, Holding
  <2>1. /\ fill.step \in {"enqueue", "enqueue bare"}
        /\ fill'.step = IF fill.step = "enqueue" THEN "links" ELSE "bare"
        /\ fill'.todo = fill.todo
        /\ UNCHANGED <<edges, ext, run>>
    BY <1>0, <1>7 DEF FillEnqueues, Fillings
  <2>2. \/ tries' = Enqueued({key}) /\ lost' = lost \ {key}
        \/ ext[key].head = "gone" /\ UNCHANGED <<tries, lost>>
    BY <1>7 DEF FillEnqueues, NeedsRefresh
  <2> HIDE DEF key
  <2>3. \A i \in Ids : tries[i] > 0 => tries'[i] > 0
    BY <1>0, <2>2, EnqueuedIsLive
  <2>4. /\ ext[key].head # "none" \/ tries'[key] > 0
        /\ \A i \in lost : i # key => i \in lost'
    BY <1>0, <2>0, <2>2, EnqueuedIsLive
  <2>5. key \notin Pages
    BY <2>0, LinksAssumption
  <2>6. RunKnows' /\ MovedAway' /\ BareLeads'
    BY <1>0, <2>1, <2>3, <2>4, <2>5 DEF LinksInv, RunKnows, MovedAway, BareLeads
  <2>7. LinksResolve'
    BY <1>0, <2>1, <2>3, <2>4 DEF LinksInv, LinksResolve, Owed, key
  <2> QED
    BY <2>6, <2>7 DEF LinksInv
<1>8. CASE FillEnds
  <2>1. /\ fill.step \in {"bare", "links"} /\ fill'.step = "idle"
        /\ UNCHANGED <<edges, ext, tries, run, lost>>
    BY <1>8 DEF FillEnds, NoFill
  <2> QED
    BY <2>1 DEF LinksInv, RunKnows, MovedAway, BareLeads, LinksResolve, Owed
<1>9. CASE FillKilled
  <2>1. /\ fill'.step = "idle"
        /\ lost' = IF fill.step \in {"enqueue", "enqueue bare"}
                   THEN lost \cup {Key[fill.link.quoted]} ELSE lost
        /\ UNCHANGED <<edges, ext, tries, run>>
    BY <1>9 DEF FillKilled, NoFill
  <2>2. RunKnows' /\ MovedAway' /\ BareLeads'
    BY <2>1 DEF LinksInv, RunKnows, MovedAway, BareLeads
  <2>3. LinksResolve'
    BY <2>1 DEF LinksInv, LinksResolve, Owed
  <2> QED
    BY <2>2, <2>3 DEF LinksInv
<1> QED
  BY <1>1, <1>2, <1>3, <1>4, <1>5, <1>6, <1>7, <1>8, <1>9 DEF Filling

LEMMA LinksNextInv == LinksInv /\ [Next]_vars => LinksInv'
<1> SUFFICES ASSUME LinksInv, [Next]_vars PROVE LinksInv'
  OBVIOUS
<1>0. LinksTypeOK /\ RunKnows
  BY DEF LinksInv
<1>1. CASE UNCHANGED vars
  BY <1>1 DEF vars, LinksInv, LinksTypeOK, RunKnows, MovedAway, BareLeads,
     LinksResolve, Owed
<1>2. ASSUME NEW n \in Notes, NEW S \in SUBSET Refs, Save(n, S)
      PROVE  LinksInv'
  BY <1>0, <1>2, UsersKeepTypes, SaveKeepsInv
<1>3. CASE \/ \E using \in SUBSET Connectors : Configure(using)
           \/ \E r \in Refs : AskFetch(r)
           \/ \E i \in Ids : Sweep(i)
  BY <1>0, <1>3, UsersKeepTypes, UsersKeepInv
<1>4. CASE \/ \E i \in Ids : Claim(i)
           \/ \E h \in {"ok", "gone"}, i \in Ids : Fetch(h, i)
           \/ Repoint \/ Finish \/ Fails \/ Hook \/ HookKilled
  BY <1>0, <1>4, WorkerKeepsTypes, WorkerKeepsInv
<1>5. CASE Filling
  BY <1>0, <1>5, FillingKeepsTypes, FillingKeepsInv
<1> QED
  BY <1>1, <1>2, <1>3, <1>4, <1>5 DEF Next, Filling

LEMMA LinksInvariant == Spec => []LinksInv
<1> QED
  BY LinksInitInv, LinksNextInv, PTL DEF Spec

\* The rows of the links and of the externals, the refresh jobs and what the
\* worker and the backfill remember are always well formed; no job is charged
\* below none.
THEOREM LinksTypeCorrect == Spec => []LinksTypeOK
<1>1. LinksInv => LinksTypeOK
  BY DEF LinksInv
<1> QED
  BY <1>1, LinksInvariant, PTL

\* docs/externals.md: in any number of notes, references and externals, every
\* link leads to a snapshot, to a fetch a step still to come owes, or to an
\* external that a kill between two transactions, or a save beside a redirect,
\* is known to have lost.
THEOREM EveryLinkResolves == Spec => []LinksResolve
<1>1. LinksInv => LinksResolve
  BY DEF LinksInv
<1> QED
  BY <1>1, LinksInvariant, PTL

LEMMA KeyStaysKey ==
  ASSUME LinksInv, [Next]_vars, NEW e \in edges, e.to \in Keys
  PROVE  \E f \in edges' : f.note = e.note /\ f.quoted = e.quoted /\ f.to \in Keys
<1>0. edges \subseteq LinkRows
  BY DEF LinksInv, LinksTypeOK
<1>1. CASE edges \subseteq edges'
  BY <1>1
<1>2. CASE Repoint
  <2>1. run.to \in Ids /\ (run.to # run.ext => run.ext \in Pages)
    BY DEF LinksInv, LinksTypeOK, Runs, RunKnows
  <2>2. PICK f \in edges' : /\ f.note = e.note /\ f.quoted = e.quoted
                            /\ f.to = IF e.to = run.ext THEN run.to ELSE e.to
    BY <1>0, <1>2, <2>1, RepointedRows DEF Repoint
  <2> QED
    BY <2>1, <2>2, LinksAssumption
<1>3. CASE FillRepoints
  <2>1. fill.link \in LinkRows
    BY <1>3 DEF FillRepoints, LinksInv, LinksTypeOK, Holding
  <2>2. Key[fill.link.quoted] \in Keys /\ Key[fill.link.quoted] \in Ids
    BY <2>1, KeyIsId DEF LinkRows
  <2>3. PICK f \in edges' : /\ f.note = e.note /\ f.quoted = e.quoted
                            /\ f.to = IF e.to = fill.link.to
                                      THEN Key[fill.link.quoted] ELSE e.to
    BY <1>0, <1>3, <2>2, RepointedRows DEF FillRepoints
  <2> QED
    BY <2>2, <2>3
<1>4. edges \subseteq edges' \/ Repoint \/ FillRepoints
  <2>1. ASSUME NEW n \in Notes, NEW S \in SUBSET Refs, Save(n, S)
        PROVE  edges \subseteq edges'
    BY <2>1 DEF Save
  <2>2. ASSUME FillInserts PROVE edges \subseteq edges'
    BY <2>2 DEF FillInserts
  <2> QED
    BY <2>1, <2>2 DEF Next, vars, Configure, AskFetch, Sweep, Claim, Fetch,
       Finish, Fails, Hook, HookKilled, FillStarts, FillMints, FillMintsBare,
       FillReads, FillEnqueues, FillEnds, FillKilled
<1> QED
  BY <1>1, <1>2, <1>3, <1>4

\* drawdown.py:826-832: no step sends a link to an issue or page back to the
\* web, whatever settings change, wherever fetches end, however many backfills
\* run beside them.
THEOREM KeysAreForGood == Spec => KeysStayKeys
<1>1. LinksInv /\ [Next]_vars =>
        [\A e \in edges : e.to \in Keys =>
           \E f \in edges' : f.note = e.note /\ f.quoted = e.quoted
                               /\ f.to \in Keys]_vars
  BY KeyStaysKey
<1> QED
  BY <1>1, LinksInvariant, PTL DEF Spec, KeysStayKeys

-----------------------------------------------------------------------------
(* One fetch: its types                                                    *)

FetchTypeOK ==
  /\ site \in [Urls -> Answers] /\ public \in [Urls -> BOOLEAN]
  /\ posted \in 0..MaxComments /\ thread \in Seq(Nat)
  /\ unlisted \in 0..1 /\ pages \in PageReplies
  /\ changes \in 0..MaxChanges
  /\ connector \in Fetchers
  /\ step \in {"idle", "check", "send", "comments", "done"}
  /\ url \in Urls /\ start \in Urls /\ hops \in 0..MaxRedirects
  /\ issue \in {"page", "thin"} /\ collected \in Seq(Nat)
  /\ verdict \in {"none", "ok", "raised", "tombstone", "failed", "unsafe"}
  /\ quiet \in BOOLEAN /\ began \subseteq Nat
  /\ shifted \in BOOLEAN /\ cut \in BOOLEAN

\* A comment taken out of the thread: those after it move up by one.
LEMMA RemovedFrom ==
  ASSUME NEW s \in Seq(Nat), NEW i \in 1..Len(s)
  PROVE  /\ RemoveAt(s, i) \in Seq(Nat)
         /\ Len(RemoveAt(s, i)) = Len(s) - 1
         /\ \A j \in 1..(Len(s) - 1) :
              RemoveAt(s, i)[j] = IF j < i THEN s[j] ELSE s[j + 1]
<1> DEFINE a == SubSeq(s, 1, i - 1)
           b == SubSeq(s, i + 1, Len(s))
<1>0. Len(s) \in Nat /\ \A j \in 1..Len(s) : s[j] \in Nat
  BY LenProperties, ElementOfSeq
<1>1. /\ a \in Seq(Nat) /\ Len(a) = i - 1
      /\ \A j \in 1..(i - 1) : a[j] = s[j]
  BY <1>0, SubSeqProperties
<1>2. /\ b \in Seq(Nat) /\ Len(b) = Len(s) - i
      /\ \A j \in 1..(Len(s) - i) : b[j] = s[i + j]
  <2>1. \A j \in (i + 1)..Len(s) : s[j] \in Nat
    BY <1>0
  <2>2. /\ b \in Seq(Nat) /\ Len(b) = IF i + 1 <= Len(s) THEN Len(s) - (i + 1) + 1 ELSE 0
        /\ \A j \in 1..(Len(s) - (i + 1) + 1) : b[j] = s[i + 1 + j - 1]
    <3>1. i + 1 \in Int /\ Len(s) \in Int
      BY <1>0
    <3> QED
      BY <2>1, <3>1, SubSeqProperties
  <2> QED
    BY <1>0, <2>2
<1> HIDE DEF a, b
<1>3. RemoveAt(s, i) = a \o b
  BY DEF RemoveAt, a, b
<1>4. /\ a \o b \in Seq(Nat) /\ Len(a \o b) = Len(a) + Len(b)
      /\ \A j \in 1..(Len(a) + Len(b)) :
           (a \o b)[j] = IF j <= Len(a) THEN a[j] ELSE b[j - Len(a)]
  BY <1>1, <1>2, ConcatProperties
<1>5. ASSUME NEW j \in 1..(Len(s) - 1)
      PROVE  (a \o b)[j] = IF j < i THEN s[j] ELSE s[j + 1]
  <2>1. CASE j < i
    BY <1>0, <1>1, <1>2, <1>4, <2>1
  <2>2. CASE ~(j < i)
    <3>0. /\ j \in 1..(Len(a) + Len(b)) /\ ~(j <= Len(a)) /\ Len(a) = i - 1
          /\ j - (i - 1) \in 1..(Len(s) - i)
      BY <1>0, <1>1, <1>2, <2>2
    <3>1. (a \o b)[j] = b[j - (i - 1)]
      BY <1>4, <3>0
    <3>2. i + (j - (i - 1)) = j + 1
      OBVIOUS
    <3> QED
      BY <1>2, <2>2, <3>0, <3>1, <3>2
  <2> QED
    BY <2>1, <2>2
<1>6. Len(a) + Len(b) = Len(s) - 1
  BY <1>0, <1>1, <1>2
<1> QED
  BY <1>3, <1>4, <1>5, <1>6

Least(a, b) == IF a < b THEN a ELSE b

\* A page starts behind the comments read so far.
LEMMA PageOfThread ==
  ASSUME thread \in Seq(Nat), collected \in Seq(Nat)
  PROVE  LET L == Len(collected)
             m == Least(L + PageSize, Len(thread)) IN
         /\ CommentsPage \in Seq(Nat)
         /\ Len(CommentsPage) = IF L < m THEN m - L ELSE 0
         /\ \A j \in 1..Len(CommentsPage) :
              L + j \in 1..Len(thread) /\ CommentsPage[j] = thread[L + j]
<1> DEFINE L == Len(collected)
           m == Least(L + PageSize, Len(thread))
<1>1. /\ L \in Nat /\ Len(thread) \in Nat
      /\ \A j \in 1..Len(thread) : thread[j] \in Nat
  BY LenProperties, ElementOfSeq
<1>2. m \in Nat /\ m <= Len(thread)
  BY <1>1, FetchingAssumption DEF Least
<1>3. CommentsPage = SubSeq(thread, L + 1, m)
  BY DEF CommentsPage, Least
<1> HIDE DEF L, m
<1>4. \A j \in (L + 1)..m : thread[j] \in Nat
  BY <1>1, <1>2
<1>5. /\ CommentsPage \in Seq(Nat)
      /\ Len(CommentsPage) = IF L + 1 <= m THEN m - (L + 1) + 1 ELSE 0
      /\ \A j \in 1..(m - (L + 1) + 1) : CommentsPage[j] = thread[L + 1 + j - 1]
  BY <1>1, <1>2, <1>3, <1>4, SubSeqProperties
<1>6. Len(CommentsPage) = IF L < m THEN m - L ELSE 0
  BY <1>1, <1>2, <1>5
<1>7. ASSUME NEW j \in 1..Len(CommentsPage)
      PROVE  L + j \in 1..Len(thread) /\ CommentsPage[j] = thread[L + j]
  <2>1. j \in 1..(m - (L + 1) + 1) /\ L + 1 + j - 1 = L + j
    BY <1>1, <1>2, <1>6
  <2>2. L + j \in 1..Len(thread)
    BY <1>1, <1>2, <1>6
  <2> QED
    BY <1>5, <2>1, <2>2
<1> QED
  BY <1>5, <1>6, <1>7 DEF L, m

LEMMA FetchInitTypeOK == FetchInit => FetchTypeOK
<1> SUFFICES ASSUME FetchInit PROVE FetchTypeOK
  OBVIOUS
<1>1. thread \in [1..posted -> Nat] /\ posted \in Nat
  BY FetchingAssumption DEF FetchInit
<1>2. thread \in Seq(Nat)
  BY <1>1
<1>3. /\ changes \in 0..MaxChanges /\ hops \in 0..MaxRedirects
      /\ collected \in Seq(Nat) /\ began \subseteq Nat
  BY EmptySeq, FetchingAssumption DEF FetchInit
<1> QED
  BY <1>2, <1>3 DEF FetchInit, FetchTypeOK, Fetchers

\* What the server does leaves the fetch alone, but for its histories.
LEMMA ServerKeepsTypes ==
  ASSUME FetchTypeOK,
         \/ \E u \in Urls : Rebind(u) \/ \E a \in Answers : Answer(u, a)
         \/ \E a \in PageReplies : AnswerPages(a)
         \/ Comment
         \/ \E i \in 1..Len(thread) : Uncomment(i)
  PROVE  FetchTypeOK'
<1>0. changes' \in 0..MaxChanges /\ quiet' = FALSE /\ UNCHANGED <<client, unlisted>>
  <2>1. Change
    BY Zenon DEF Rebind, Answer, AnswerPages, Comment, Uncomment
  <2> QED
    BY <2>1, FetchingAssumption DEF Change, FetchTypeOK
<1> USE <1>0 DEF client
<1>1. ASSUME NEW u \in Urls, Rebind(u) PROVE FetchTypeOK'
  BY <1>1 DEF Rebind, FetchTypeOK
<1>2. ASSUME NEW u \in Urls, NEW a \in Answers, Answer(u, a) PROVE FetchTypeOK'
  BY <1>2 DEF Answer, FetchTypeOK
<1>3. ASSUME NEW a \in PageReplies, AnswerPages(a) PROVE FetchTypeOK'
  BY <1>3 DEF AnswerPages, FetchTypeOK
<1>4. CASE Comment
  <2>1. posted' \in 0..MaxComments /\ thread' = Append(thread, posted')
        /\ UNCHANGED <<site, public, pages, began, shifted>>
    BY <1>4, FetchingAssumption DEF Comment, FetchTypeOK
  <2>2. posted' \in Nat
    BY <2>1, FetchingAssumption
  <2>3. thread' \in Seq(Nat)
    BY <2>1, <2>2, AppendProperties DEF FetchTypeOK
  <2> QED
    BY <2>1, <2>3 DEF FetchTypeOK
<1>5. ASSUME NEW i \in 1..Len(thread), Uncomment(i) PROVE FetchTypeOK'
  <2>1. thread' \in Seq(Nat)
    BY <1>5, RemovedFrom DEF Uncomment, FetchTypeOK
  <2> QED
    BY <1>5, <2>1 DEF Uncomment, FetchTypeOK
<1> QED
  BY <1>1, <1>2, <1>3, <1>4, <1>5

\* What a Send does, in terms of where it leaves the fetch.
LEMMA SendSteps ==
  ASSUME Send
  PROVE  /\ step = "send"
         /\ UNCHANGED <<server, connector, collected, start, cut, quiet, shifted>>
         /\ \/ PeerRefused /\ End("unsafe") /\ UNCHANGED <<url, hops, issue, began>>
            \/ /\ ~PeerRefused /\ site[url] \in Urls /\ Follows /\ TooMany
               /\ End(IF connector \in Searches THEN "raised" ELSE "tombstone")
               /\ UNCHANGED <<url, hops, issue, began>>
            \/ /\ ~PeerRefused /\ site[url] \in Urls /\ Follows /\ ~TooMany
               /\ url' = site[url] /\ hops' = hops + 1
               /\ step' = FirstStep(connector)
               /\ UNCHANGED <<verdict, issue, began>>
            \/ /\ ~PeerRefused /\ (site[url] \notin Urls \/ ~Follows) /\ HasComments
               /\ step' = "comments" /\ issue' = site[url]
               /\ began' = Range(thread) /\ UNCHANGED <<verdict, url, hops>>
            \/ /\ ~PeerRefused /\ (site[url] \notin Urls \/ ~Follows) /\ ~HasComments
               /\ End(Judged) /\ UNCHANGED <<url, hops, issue, began>>
  BY DEF Send, Redirect, Land

LEMMA FetchesKeepTypes ==
  ASSUME FetchTypeOK, Fetches
  PROVE  FetchTypeOK'
<1> USE DEF server
<1>1. CASE CheckHost
  BY <1>1 DEF CheckHost, End, FetchTypeOK
<1>2. CASE Send
  <2>1. /\ UNCHANGED <<server, connector, collected, start, cut, quiet, shifted>>
        /\ url' \in Urls /\ hops' \in 0..MaxRedirects /\ issue' \in {"page", "thin"}
        /\ began' \subseteq Nat
    <3>1. hops < MaxRedirects => hops + 1 \in 0..MaxRedirects
      BY FetchingAssumption DEF FetchTypeOK
    <3>2. hops \in Nat /\ MaxRedirects \in Nat
      BY FetchingAssumption DEF FetchTypeOK
    <3>3. ~TooMany => hops + 1 \in 0..MaxRedirects
      BY <3>1, <3>2 DEF TooMany
    <3>4. Range(thread) \subseteq Nat
      BY RangeOfSeq DEF FetchTypeOK
    <3> QED
      BY <1>2, <3>3, <3>4, SendSteps DEF FetchTypeOK, HasComments
  <2>2. /\ step' \in {"check", "send", "comments", "done"}
        /\ verdict' \in {"none", "ok", "raised", "tombstone", "failed", "unsafe"}
    BY <1>2, SendSteps DEF FetchTypeOK, End, FirstStep, Judged, SearchVerdict
  <2> QED
    BY <2>1, <2>2 DEF FetchTypeOK
<1>3. CASE NextPage
  <2>1. collected \o CommentsPage \in Seq(Nat)
    BY PageOfThread, ConcatProperties DEF FetchTypeOK
  <2>2. collected' \in Seq(Nat) /\ cut' \in BOOLEAN
    BY <1>3, <2>1 DEF NextPage, FetchTypeOK
  <2>3. /\ step' \in {"comments", "done"}
        /\ verdict' \in {"none", "ok", "raised", "tombstone", "failed", "unsafe"}
    BY <1>3 DEF NextPage, End, Rendered, FetchTypeOK
  <2> QED
    BY <1>3, <2>2, <2>3 DEF NextPage, FetchTypeOK
<1> QED
  BY <1>1, <1>2, <1>3 DEF Fetches

LEMMA FetchNextTypeOK == FetchTypeOK /\ [FetchNext]_fetchVars => FetchTypeOK'
<1> SUFFICES ASSUME FetchTypeOK, [FetchNext]_fetchVars PROVE FetchTypeOK'
  OBVIOUS
<1>1. CASE UNCHANGED fetchVars
  BY <1>1 DEF FetchTypeOK, fetchVars, server, client
<1>2. ASSUME NEW c \in Fetchers, Begin(c) PROVE FetchTypeOK'
  <2>1. step' \in {"check", "send"} /\ hops' \in 0..MaxRedirects
        /\ collected' \in Seq(Nat) /\ began' \subseteq Nat
    BY <1>2, EmptySeq, FetchingAssumption DEF Begin, FirstStep
  <2> QED
    BY <1>2, <2>1 DEF Begin, FetchTypeOK, server
<1> QED
  BY <1>1, <1>2, ServerKeepsTypes, FetchesKeepTypes DEF FetchNext

\* The server's side and the fetch's are well formed: no more redirects are
\* followed than are allowed.
THEOREM FetchTypeCorrect == FetchSpec => []FetchTypeOK
<1> QED
  BY FetchInitTypeOK, FetchNextTypeOK, PTL DEF FetchSpec

-----------------------------------------------------------------------------
(* One fetch: the comments                                                 *)

\* The comments of the thread not read yet.
Rest == {thread[j] : j \in (Len(collected) + 1)..Len(thread)}

\* Comments are numbered as they are posted and stay in their order.
ThreadRises ==
  /\ \A i \in 1..Len(thread) : thread[i] \in 1..posted
  /\ \A i, j \in 1..Len(thread) : i < j => thread[i] < thread[j]

\* What is read is in that order too, whatever was deleted under the paging,
\* and comes before whatever is left to read.
ReadRises ==
  /\ \A i \in 1..Len(collected) : collected[i] \in 1..posted
  /\ \A i, j \in 1..Len(collected) : i < j => collected[i] < collected[j]
  /\ \A i \in 1..Len(collected), j \in (Len(collected) + 1)..Len(thread) :
       collected[i] < thread[j]

\* While no comment already read was deleted, what was there at the start is
\* read or still ahead.
BeganAhead ==
  /\ step \in {"check", "send"} => collected = <<>>
  /\ step = "comments" /\ ~shifted => began \subseteq Range(collected) \cup Rest

ThreadRead ==
  step = "done" /\ connector = "jira" /\ verdict = "ok" /\ ~cut /\ ~shifted
    => began \subseteq Range(collected)

CommentsInv == FetchTypeOK /\ ThreadRises /\ ReadRises /\ BeganAhead /\ ThreadRead

LEMMA Lengths ==
  ASSUME FetchTypeOK
  PROVE  /\ Len(thread) \in Nat /\ Len(collected) \in Nat
         /\ DOMAIN thread = 1..Len(thread) /\ DOMAIN collected = 1..Len(collected)
         /\ \A i \in 1..Len(thread) : thread[i] \in Nat
         /\ \A i \in 1..Len(collected) : collected[i] \in Nat
         /\ thread \in Seq(Nat) /\ collected \in Seq(Nat) /\ posted \in Nat
<1>1. thread \in Seq(Nat) /\ collected \in Seq(Nat) /\ posted \in Nat
  BY FetchingAssumption DEF FetchTypeOK
<1> QED
  BY <1>1, LenProperties, ElementOfSeq

LEMMA InitCommentsInv == FetchInit => CommentsInv
<1> SUFFICES ASSUME FetchInit PROVE CommentsInv
  OBVIOUS
<1>1. FetchTypeOK
  BY FetchInitTypeOK
<1>2. Len(thread) = posted /\ \A i \in 1..posted : thread[i] = i
  BY FetchingAssumption DEF FetchInit
<1>3. Len(collected) = 0 /\ step = "idle"
  BY DEF FetchInit
<1>4. posted \in Nat
  BY <1>1, Lengths
<1>5. ThreadRises
  BY <1>2, <1>4 DEF ThreadRises
<1> QED
  BY <1>1, <1>3, <1>5 DEF CommentsInv, ReadRises, BeganAhead, ThreadRead

\* A new comment is behind all the others.
LEMMA CommentKeeps ==
  ASSUME CommentsInv, FetchTypeOK', Comment
  PROVE  CommentsInv'
<1>0. /\ posted' = posted + 1 /\ thread' = Append(thread, posted + 1)
      /\ step \notin {"idle", "done"} /\ step' = step
      /\ UNCHANGED <<collected, began, shifted>>
  BY DEF Comment, Change, client
<1> DEFINE n == Len(thread)
<1>1. FetchTypeOK
  BY DEF CommentsInv
<1>2. /\ n \in Nat /\ Len(collected) \in Nat /\ posted \in Nat
      /\ \A i \in 1..n : thread[i] \in Nat
      /\ \A i \in 1..Len(collected) : collected[i] \in Nat
  BY <1>1, Lengths
<1>3. /\ Len(thread') = n + 1
      /\ \A i \in 1..n : thread'[i] = thread[i]
      /\ thread'[n + 1] = posted + 1
  BY <1>0, <1>1, <1>2, AppendProperties DEF FetchTypeOK
<1> HIDE DEF n
<1>4. ThreadRises'
  <2>1. /\ \A i \in 1..n : thread[i] \in 1..posted
        /\ \A i, j \in 1..n : i < j => thread[i] < thread[j]
    BY DEF CommentsInv, ThreadRises, n
  <2>2. ASSUME NEW i \in 1..(n + 1)
        PROVE  thread'[i] \in 1..(posted + 1)
    <3>1. CASE i = n + 1
      BY <1>2, <1>3, <3>1
    <3>2. CASE i # n + 1
      <4>1. i \in 1..n
        BY <1>2, <3>2
      <4>2. thread'[i] = thread[i] /\ thread[i] \in 1..posted
        BY <1>3, <2>1, <4>1
      <4> QED
        BY <1>2, <4>2
    <3> QED
      BY <3>1, <3>2
  <2>3. ASSUME NEW i \in 1..(n + 1), NEW j \in 1..(n + 1), i < j
        PROVE  thread'[i] < thread'[j]
    <3>1. i \in 1..n /\ thread'[i] = thread[i] /\ thread[i] \in 1..posted
      BY <1>2, <1>3, <2>1, <2>3
    <3>2. CASE j \in 1..n
      BY <1>3, <2>1, <2>3, <3>1, <3>2
    <3>3. CASE j = n + 1
      BY <1>2, <1>3, <3>1, <3>3
    <3> QED
      BY <1>2, <3>2, <3>3
  <2> QED
    BY <1>0, <1>3, <2>2, <2>3 DEF ThreadRises
<1>5. ReadRises'
  <2>1. /\ \A i \in 1..Len(collected) : collected[i] \in 1..posted
        /\ \A i, j \in 1..Len(collected) : i < j => collected[i] < collected[j]
        /\ \A i \in 1..Len(collected), j \in (Len(collected) + 1)..n :
             collected[i] < thread[j]
    BY DEF CommentsInv, ReadRises, n
  <2>2. \A i \in 1..Len(collected) : collected[i] \in 1..(posted + 1)
    BY <1>2, <2>1
  <2>3. ASSUME NEW i \in 1..Len(collected), NEW j \in (Len(collected) + 1)..(n + 1)
        PROVE  collected[i] < thread'[j]
    <3>1. CASE j = n + 1
      BY <1>2, <1>3, <2>1, <3>1
    <3>2. CASE j # n + 1
      <4>1. j \in 1..n /\ j \in (Len(collected) + 1)..n
        BY <1>2, <3>2
      <4> QED
        BY <1>3, <2>1, <4>1
    <3> QED
      BY <3>1, <3>2
  <2> QED
    BY <1>0, <1>3, <2>1, <2>2, <2>3 DEF ReadRises
<1>6. Rest \subseteq Rest'
  <2> SUFFICES ASSUME NEW j \in (Len(collected) + 1)..n
               PROVE  thread[j] \in Rest'
    BY DEF Rest, n
  <2>1. j \in 1..n /\ j \in (Len(collected') + 1)..Len(thread')
    BY <1>0, <1>2, <1>3
  <2>2. thread[j] = thread'[j]
    BY <1>3, <2>1
  <2> QED
    BY <2>1, <2>2 DEF Rest
<1>7. BeganAhead' /\ ThreadRead'
  BY <1>0, <1>6 DEF CommentsInv, BeganAhead, ThreadRead
<1> QED
  BY <1>4, <1>5, <1>7 DEF CommentsInv

\* What is deleted from the rest is not missed; what is deleted from what was
\* read makes the paging slip, and is on record.
LEMMA UncommentKeeps ==
  ASSUME CommentsInv, FetchTypeOK', NEW d \in 1..Len(thread), Uncomment(d)
  PROVE  CommentsInv'
<1>0. /\ thread' = RemoveAt(thread, d)
      /\ began' = began \ {thread[d]}
      /\ shifted' = (shifted \/ d <= Len(collected))
      /\ step \notin {"idle", "done"} /\ step' = step
      /\ UNCHANGED <<collected, posted>>
  BY DEF Uncomment, Change, client
<1> DEFINE n == Len(thread)
           c == Len(collected)
<1>1. FetchTypeOK
  BY DEF CommentsInv
<1>2. /\ n \in Nat /\ c \in Nat /\ posted \in Nat /\ d \in 1..n
      /\ \A i \in 1..n : thread[i] \in Nat
      /\ \A i \in 1..c : collected[i] \in Nat
  BY <1>1, Lengths
<1>3. /\ Len(thread') = n - 1
      /\ \A i \in 1..(n - 1) : thread'[i] = IF i < d THEN thread[i] ELSE thread[i + 1]
  <2>1. thread \in Seq(Nat) /\ d \in 1..Len(thread)
    BY <1>1, <1>2, Lengths
  <2>2. /\ Len(RemoveAt(thread, d)) = Len(thread) - 1
        /\ \A i \in 1..(Len(thread) - 1) :
             RemoveAt(thread, d)[i] = IF i < d THEN thread[i] ELSE thread[i + 1]
    BY <2>1, RemovedFrom
  <2> QED
    BY <1>0, <2>2
<1>c. Len(collected') = c
  BY <1>0
<1> HIDE DEF n, c
<1>4. \A i \in 1..(n - 1) : i \in 1..n /\ i + 1 \in 1..n
  BY <1>2
<1>5. ThreadRises'
  <2>1. /\ \A i \in 1..n : thread[i] \in 1..posted
        /\ \A i, j \in 1..n : i < j => thread[i] < thread[j]
    BY DEF CommentsInv, ThreadRises, n
  <2>2. \A i \in 1..(n - 1) : thread'[i] \in 1..posted
    BY <1>3, <1>4, <2>1
  <2>3. ASSUME NEW i \in 1..(n - 1), NEW j \in 1..(n - 1), i < j
        PROVE  thread'[i] < thread'[j]
    <3>1. CASE j < d
      BY <1>2, <1>3, <1>4, <2>1, <2>3, <3>1
    <3>2. CASE i < d /\ ~(j < d)
      <4>1. i < j + 1 /\ thread'[i] = thread[i] /\ thread'[j] = thread[j + 1]
        BY <1>3, <2>3, <3>2
      <4> QED
        BY <1>4, <2>1, <4>1
    <3>3. CASE ~(i < d)
      <4>1. i + 1 < j + 1 /\ ~(j < d)
        BY <1>2, <2>3, <3>3
      <4>2. thread'[i] = thread[i + 1] /\ thread'[j] = thread[j + 1]
        BY <1>3, <3>3, <4>1
      <4> QED
        BY <1>4, <2>1, <4>1, <4>2
    <3> QED
      BY <3>1, <3>2, <3>3
  <2> QED
    BY <1>0, <1>3, <2>2, <2>3 DEF ThreadRises
<1>6. ReadRises'
  <2>1. /\ \A i \in 1..c : collected[i] \in 1..posted
        /\ \A i, j \in 1..c : i < j => collected[i] < collected[j]
        /\ \A i \in 1..c, j \in (c + 1)..n : collected[i] < thread[j]
    BY DEF CommentsInv, ReadRises, n, c
  <2>2. ASSUME NEW i \in 1..c, NEW j \in (c + 1)..(n - 1)
        PROVE  collected[i] < thread'[j]
    <3>1. j \in 1..(n - 1) /\ j \in (c + 1)..n /\ j + 1 \in (c + 1)..n
      BY <1>2
    <3> QED
      BY <1>3, <2>1, <3>1
  <2> QED
    BY <1>0, <1>3, <1>c, <2>1, <2>2 DEF ReadRises
<1>7. ASSUME d > c PROVE Rest \ {thread[d]} \subseteq Rest'
  <2> SUFFICES ASSUME NEW j \in (c + 1)..n, j # d
               PROVE  thread[j] \in Rest'
    BY DEF Rest, n, c
  <2>1. CASE j < d
    <3>1. j \in 1..(n - 1) /\ j \in (Len(collected') + 1)..Len(thread')
      BY <1>2, <1>3, <1>c, <2>1
    <3>2. thread[j] = thread'[j]
      BY <1>3, <2>1, <3>1
    <3> QED
      BY <3>1, <3>2 DEF Rest
  <2>2. CASE j > d
    <3>1. /\ j - 1 \in 1..(n - 1) /\ ~(j - 1 < d) /\ (j - 1) + 1 = j
          /\ j - 1 \in (Len(collected') + 1)..Len(thread')
      BY <1>2, <1>3, <1>7, <1>c, <2>2
    <3>2. thread[j] = thread'[j - 1]
      BY <1>3, <3>1
    <3> QED
      BY <3>1, <3>2 DEF Rest
  <2> QED
    BY <1>2, <2>1, <2>2
<1>8. BeganAhead' /\ ThreadRead'
  <2>0. shifted' = (shifted \/ d <= c)
    BY <1>0 DEF c
  <2>1. ~shifted' => ~shifted /\ d > c
    <3>1. ~shifted' => ~shifted /\ ~(d <= c)
      BY <2>0, Zenon
    <3> QED
      BY <1>2, <3>1
  <2>2. step = "comments" /\ ~shifted' => began' \subseteq Range(collected') \cup Rest'
    BY <1>0, <1>7, <2>1 DEF CommentsInv, BeganAhead
  <2> QED
    BY <1>0, <2>2 DEF CommentsInv, BeganAhead, ThreadRead
<1> QED
  BY <1>5, <1>6, <1>8 DEF CommentsInv

\* A page takes the reading on in the thread's order.
LEMMA PageKeeps ==
  ASSUME CommentsInv, FetchTypeOK', step = "comments",
         collected' = collected \o CommentsPage,
         UNCHANGED <<thread, posted, unlisted, began, shifted, connector>>,
         \/ step' = "comments" /\ ~LastPage(collected')
         \/ step' = "done" /\ LastPage(collected')
  PROVE  CommentsInv'
<1> DEFINE n == Len(thread)
           c == Len(collected)
           p == Len(CommentsPage)
           m == Least(c + PageSize, n)
<1>1. FetchTypeOK
  BY DEF CommentsInv
<1>2. /\ n \in Nat /\ c \in Nat /\ posted \in Nat
      /\ \A i \in 1..n : thread[i] \in Nat
      /\ \A i \in 1..c : collected[i] \in Nat
  BY <1>1, Lengths
<1>3. /\ CommentsPage \in Seq(Nat)
      /\ p = IF c < m THEN m - c ELSE 0
      /\ \A j \in 1..p : c + j \in 1..n /\ CommentsPage[j] = thread[c + j]
  BY <1>1, PageOfThread DEF FetchTypeOK
<1>4. p \in Nat /\ (p > 0 => c + p <= n)
  BY <1>2, <1>3, LenProperties, FetchingAssumption DEF Least
<1>5. /\ Len(collected') = c + p
      /\ \A i \in 1..(c + p) : collected'[i] = IF i <= c THEN collected[i]
                                               ELSE CommentsPage[i - c]
  <2>1. collected \in Seq(Nat) /\ CommentsPage \in Seq(Nat)
    BY <1>1, <1>3, Lengths
  <2> QED
    BY <2>1, ConcatProperties
<1>6. DOMAIN collected' = 1..(c + p)
  BY <1>5, LenProperties DEF FetchTypeOK
<1> HIDE DEF n, c, p
<1>7. \A i \in (c + 1)..(c + p) : i \in 1..n /\ collected'[i] = thread[i]
  <2> SUFFICES ASSUME NEW i \in (c + 1)..(c + p)
               PROVE  i \in 1..n /\ collected'[i] = thread[i]
    OBVIOUS
  <2>1. i - c \in 1..p /\ i \in 1..(c + p) /\ ~(i <= c) /\ c + (i - c) = i
    BY <1>2, <1>4
  <2> QED
    BY <1>3, <1>5, <2>1
<1>8. \A i \in 1..c : i \in 1..(c + p) /\ collected'[i] = collected[i]
  BY <1>2, <1>4, <1>5
<1>t. /\ \A i \in 1..n : thread[i] \in 1..posted
      /\ \A i, j \in 1..n : i < j => thread[i] < thread[j]
  BY DEF CommentsInv, ThreadRises, n
<1>r. /\ \A i \in 1..c : collected[i] \in 1..posted
      /\ \A i, j \in 1..c : i < j => collected[i] < collected[j]
      /\ \A i \in 1..c, j \in (c + 1)..n : collected[i] < thread[j]
  BY DEF CommentsInv, ReadRises, n, c
<1>s. \A i \in 1..(c + p) : i \in 1..c \/ i \in (c + 1)..(c + p)
  BY <1>2, <1>4
<1>9. ReadRises'
  <2>1. \A i \in 1..(c + p) : collected'[i] \in 1..posted
    BY <1>7, <1>8, <1>s, <1>t, <1>r
  <2>2. ASSUME NEW i \in 1..(c + p), NEW j \in 1..(c + p), i < j
        PROVE  collected'[i] < collected'[j]
    <3>1. CASE j \in 1..c
      <4>1. i \in 1..c
        BY <1>2, <2>2, <3>1
      <4> QED
        BY <1>8, <1>r, <2>2, <3>1, <4>1
    <3>2. CASE i \in 1..c /\ j \in (c + 1)..(c + p)
      <4>1. j \in (c + 1)..n
        BY <1>2, <1>7, <3>2
      <4> QED
        BY <1>7, <1>8, <1>r, <3>2, <4>1
    <3>3. CASE i \in (c + 1)..(c + p) /\ j \in (c + 1)..(c + p)
      BY <1>7, <1>t, <2>2, <3>3
    <3> QED
      BY <1>s, <3>1, <3>2, <3>3
  <2>3. ASSUME NEW i \in 1..(c + p), NEW j \in (c + p + 1)..n
        PROVE  collected'[i] < thread[j]
    <3>1. j \in (c + 1)..n /\ j \in 1..n /\ i < j
      BY <1>2, <1>4
    <3>2. CASE i \in 1..c
      BY <1>8, <1>r, <3>1, <3>2
    <3>3. CASE i \in (c + 1)..(c + p)
      BY <1>7, <1>t, <3>1, <3>3
    <3> QED
      BY <1>s, <3>2, <3>3
  <2> QED
    BY <1>5, <2>1, <2>2, <2>3 DEF ReadRises, n
<1>10. Range(collected) \subseteq Range(collected')
  <2>1. DOMAIN collected = 1..c
    BY <1>1, Lengths DEF c
  <2> QED
    BY <1>6, <1>8, <2>1 DEF Range
<1>11. Rest \subseteq Range(collected') \cup Rest'
  <2> SUFFICES ASSUME NEW j \in (c + 1)..n
               PROVE  thread[j] \in Range(collected') \cup Rest'
    BY DEF Rest, c, n
  <2>1. CASE j <= c + p
    <3>1. j \in (c + 1)..(c + p) /\ j \in 1..(c + p)
      BY <1>2, <1>4, <2>1
    <3>2. collected'[j] = thread[j] /\ j \in DOMAIN collected'
      BY <1>6, <1>7, <3>1
    <3> QED
      BY <3>2 DEF Range
  <2>2. CASE ~(j <= c + p)
    <3>1. j \in (c + p + 1)..n
      BY <1>2, <1>4, <2>2
    <3> QED
      BY <1>5, <3>1 DEF Rest, n
  <2> QED
    BY <2>1, <2>2
<1>12. began \subseteq Range(collected) \cup Rest \/ shifted
  BY DEF CommentsInv, BeganAhead
<1>13. ASSUME LastPage(collected') PROVE Rest' = {}
  <2>1. c + p >= n
    <3>1. CASE CommentsPage = <<>>
      <4>1. p = 0
        BY <3>1, EmptySeq DEF p
      <4>2. ~(c < m)
        BY <1>2, <1>3, <4>1, FetchingAssumption DEF Least
      <4> QED
        BY <1>2, <4>1, <4>2, FetchingAssumption DEF Least
    <3>2. CASE CommentsPage # <<>>
      <4>1. c + p >= n + unlisted
        BY <1>5, <1>13, <3>2 DEF LastPage, n
      <4>2. unlisted \in 0..1
        BY <1>1 DEF FetchTypeOK
      <4> QED
        BY <1>2, <1>4, <4>1, <4>2
    <3> QED
      BY <3>1, <3>2
  <2>2. (c + p + 1)..n = {}
    BY <1>2, <1>4, <2>1
  <2> QED
    BY <1>5, <2>2 DEF Rest, n
<1>14. BeganAhead' /\ ThreadRead'
  BY <1>10, <1>11, <1>12, <1>13 DEF BeganAhead, ThreadRead
<1>15. ThreadRises'
  BY DEF CommentsInv, ThreadRises
<1> QED
  BY <1>9, <1>14, <1>15 DEF CommentsInv

LEMMA FetchesKeepComments ==
  ASSUME CommentsInv, FetchTypeOK', Fetches
  PROVE  CommentsInv'
<1>1. CASE CheckHost
  <2>1. /\ step = "check" /\ step' \in {"send", "done"}
        /\ step' = "done" => verdict' = "unsafe"
        /\ UNCHANGED <<thread, posted, collected>>
    BY <1>1 DEF CheckHost, End, server
  <2> QED
    BY <2>1 DEF CommentsInv, ThreadRises, ReadRises, BeganAhead, ThreadRead
<1>2. CASE Send
  <2>1. /\ step = "send" /\ collected = <<>>
        /\ UNCHANGED <<thread, posted, collected, connector>>
    BY <1>2, SendSteps DEF server, CommentsInv, BeganAhead
  <2>2. /\ step' \in {"check", "send", "comments", "done"}
        /\ step' = "comments" => began' = Range(thread)
        /\ step' = "done" /\ connector = "jira" => verdict' # "ok"
    BY <1>2, SendSteps DEF End, FirstStep, Judged, HasComments, Searches
  <2>3. Range(thread) = Rest
    <3>1. Len(collected) = 0
      BY <2>1, EmptySeq
    <3>2. DOMAIN thread = 1..Len(thread)
      BY Lengths DEF CommentsInv
    <3> QED
      BY <3>1, <3>2 DEF Range, Rest
  <2>4. Rest' = Rest
    BY <2>1 DEF Rest
  <2> QED
    BY <2>1, <2>2, <2>3, <2>4
    DEF CommentsInv, ThreadRises, ReadRises, BeganAhead, ThreadRead
<1>3. CASE NextPage
  <2>0. /\ step = "comments"
        /\ UNCHANGED <<thread, posted, unlisted, began, shifted, connector>>
    BY <1>3 DEF NextPage, server
  <2>1. CASE pages \in {"garbled", "busy", "looped"}
    <3>1. step' = "done" /\ verdict' = "raised" /\ UNCHANGED collected
      BY <1>3, <2>1 DEF NextPage, End
    <3> QED
      BY <2>0, <3>1 DEF CommentsInv, ThreadRises, ReadRises, BeganAhead, ThreadRead
  <2>2. CASE pages = "refused"
    <3>1. step' = "done" /\ cut' = TRUE /\ UNCHANGED collected
      BY <1>3, <2>2 DEF NextPage, End
    <3> QED
      BY <2>0, <3>1 DEF CommentsInv, ThreadRises, ReadRises, BeganAhead, ThreadRead
  <2>3. CASE pages \notin {"garbled", "busy", "looped", "refused"}
    <3>1. /\ collected' = collected \o CommentsPage
          /\ \/ step' = "comments" /\ ~LastPage(collected')
             \/ step' = "done" /\ LastPage(collected')
      BY <1>3, <2>0, <2>3 DEF NextPage, End
    <3> QED
      BY <2>0, <3>1, PageKeeps
  <2> QED
    BY <2>1, <2>2, <2>3
<1> QED
  BY <1>1, <1>2, <1>3 DEF Fetches

LEMMA NextCommentsInv == CommentsInv /\ [FetchNext]_fetchVars => CommentsInv'
<1> SUFFICES ASSUME CommentsInv, [FetchNext]_fetchVars PROVE CommentsInv'
  OBVIOUS
<1>0. FetchTypeOK'
  BY FetchNextTypeOK DEF CommentsInv
<1>1. CASE UNCHANGED fetchVars
  BY <1>0, <1>1 DEF fetchVars, server, client, CommentsInv, ThreadRises, ReadRises,
     BeganAhead, ThreadRead, Rest
<1>2. CASE \/ \E u \in Urls : Rebind(u) \/ \E a \in Answers : Answer(u, a)
           \/ \E a \in PageReplies : AnswerPages(a)
  <2>1. UNCHANGED <<thread, posted, collected, step, connector, verdict, began,
                    shifted, cut>>
    BY <1>2 DEF Rebind, Answer, AnswerPages, Change, client
  <2> QED
    BY <1>0, <2>1 DEF CommentsInv, ThreadRises, ReadRises, BeganAhead, ThreadRead, Rest
<1>3. CASE Comment
  BY <1>0, <1>3, CommentKeeps
<1>4. ASSUME NEW i \in 1..Len(thread), Uncomment(i) PROVE CommentsInv'
  BY <1>0, <1>4, UncommentKeeps
<1>5. ASSUME NEW c \in Fetchers, Begin(c) PROVE CommentsInv'
  <2>1. /\ collected' = <<>> /\ Len(collected') = 0 /\ step' \in {"check", "send"}
        /\ UNCHANGED <<thread, posted>>
    BY <1>5, EmptySeq DEF Begin, FirstStep, server
  <2> QED
    BY <1>0, <2>1 DEF CommentsInv, ThreadRises, ReadRises, BeganAhead, ThreadRead
<1>6. CASE Fetches
  BY <1>0, <1>6, FetchesKeepComments
<1> QED
  BY <1>1, <1>2, <1>3, <1>4, <1>5, <1>6 DEF FetchNext

\* However comments are added and deleted between the requests, and whatever
\* the pages and the total say, an issue that is taken for whole holds no
\* comment twice, and every comment there was, unless a page was refused or a
\* comment already read was deleted.
THEOREM IssuesAreWhole == FetchSpec => []CommentsWhole
<1>1. CommentsInv => CommentsWhole
  <2> SUFFICES ASSUME CommentsInv PROVE IsInjective(collected)
    BY DEF CommentsInv, ThreadRead, CommentsWhole
  <2>1. /\ DOMAIN collected = 1..Len(collected) /\ Len(collected) \in Nat
        /\ \A i \in 1..Len(collected) : collected[i] \in Nat
    BY Lengths DEF CommentsInv
  <2>2. ASSUME NEW i \in 1..Len(collected), NEW j \in 1..Len(collected), i # j
        PROVE  collected[i] # collected[j]
    <3>1. i < j \/ j < i
      BY <2>1, <2>2
    <3>2. collected[i] < collected[j] \/ collected[j] < collected[i]
      BY <3>1 DEF CommentsInv, ReadRises
    <3> QED
      BY <2>1, <3>2
  <2> QED
    BY <2>1, <2>2 DEF IsInjective
<1> QED
  BY <1>1, InitCommentsInv, NextCommentsInv, PTL DEF FetchSpec

-----------------------------------------------------------------------------
(* The verdict *)

\* Where a chain of redirects ends, and what it passes, for a site that need
\* not be the present one.
EndingOf(s) ==
  CHOOSE f : f = [n \in 0..MaxRedirects |->
    [u \in Urls |-> IF s[u] \notin Urls THEN s[u]
                    ELSE IF n = 0 THEN "looped" ELSE f[n - 1][s[u]]]]

PathOf(s) ==
  CHOOSE f : f = [n \in 0..MaxRedirects |->
    [u \in Urls |-> {u} \cup IF s[u] \notin Urls \/ n = 0 THEN {}
                             ELSE f[n - 1][s[u]]]]

\* Induction, in the form the provers take: a set of numbers that has 0 and the
\* next of each has them all.
LEMMA NumbersBySteps ==
  ASSUME NEW S \in SUBSET Nat, 0 \in S, \A m \in S : m + 1 \in S
  PROVE  S = Nat
<1> DEFINE Missing == Nat \ S
<1> SUFFICES ASSUME Missing # {} PROVE FALSE
  OBVIOUS
<1>1. PICK m \in Missing : \A k \in Missing : ~(<<k, m>> \in OpToRel(<, Nat))
  BY NatLessThanWellFounded, WFMin
<1>2. m \in Nat /\ m # 0
  OBVIOUS
<1>3. m - 1 \in Nat /\ (m - 1) + 1 = m /\ m - 1 < m
  BY <1>2
<1>4. m - 1 \in S
  BY <1>1, <1>3 DEF OpToRel
<1> QED
  BY <1>3, <1>4

\* A recursion one redirect longer extends the one that is there: there is
\* one of any length.
LEMMA EndingExists ==
  ASSUME NEW s
  PROVE  \E f : f = [n \in 0..MaxRedirects |->
           [u \in Urls |-> IF s[u] \notin Urls THEN s[u]
                           ELSE IF n = 0 THEN "looped" ELSE f[n - 1][s[u]]]]
<1> DEFINE After(h, n) ==
             [u \in Urls |-> IF s[u] \notin Urls THEN s[u]
                             ELSE IF n = 0 THEN "looped" ELSE h[n - 1][s[u]]]
           Is(m, f) == f = [n \in 0..m |-> After(f, n)]
           Some == {m \in Nat : \E f : Is(m, f)}
<1>1. 0 \in Some
  <2> DEFINE f == [n \in 0..0 |-> 
                    [u \in Urls |-> IF s[u] \notin Urls THEN s[u] ELSE "looped"]]
  <2>1. \A n \in 0..0 : n = 0
    OBVIOUS
  <2>2. Is(0, f)
    BY <2>1
  <2> QED
    BY <2>2
<1>2. ASSUME NEW m \in Some
      PROVE  m + 1 \in Some
  <2>1. PICK f : f = [n \in 0..m |-> After(f, n)]
    OBVIOUS
  <2> DEFINE g == [n \in 0..(m + 1) |-> IF n = m + 1 THEN After(f, n) ELSE f[n]]
  <2>2. m \in Nat /\ m + 1 \in Nat
    OBVIOUS
  <2>3. \A n \in 0..(m + 1) : n = 0 \/ (n - 1 \in 0..(m + 1) /\ n - 1 # m + 1)
    BY <2>2
  <2>4. \A n \in 0..(m + 1) : n = m + 1 \/ n \in 0..m
    BY <2>2
  <2>5. \A n \in 0..(m + 1) : n = 0 \/ g[n - 1] = f[n - 1]
    BY <2>3
  <2> HIDE DEF g
  <2>6. \A n \in 0..(m + 1) : After(g, n) = After(f, n)
    BY <2>5
  <2> HIDE DEF After
  <2>7. g = [n \in 0..(m + 1) |-> After(f, n)]
    BY <2>1, <2>4 DEF g
  <2>8. g = [n \in 0..(m + 1) |-> After(g, n)]
    BY <2>6, <2>7
  <2> QED
    BY <2>2, <2>8
<1> HIDE DEF Is
<1>3. Some = Nat
  BY <1>1, <1>2, NumbersBySteps
<1>4. \E f : Is(MaxRedirects, f)
  BY <1>3, FetchingAssumption
<1> QED
  BY <1>4 DEF Is

LEMMA PathExists ==
  ASSUME NEW s
  PROVE  \E f : f = [n \in 0..MaxRedirects |->
           [u \in Urls |-> {u} \cup IF s[u] \notin Urls \/ n = 0 THEN {}
                                    ELSE f[n - 1][s[u]]]]
<1> DEFINE After(h, n) ==
             [u \in Urls |-> {u} \cup IF s[u] \notin Urls \/ n = 0 THEN {}
                                      ELSE h[n - 1][s[u]]]
           Is(m, f) == f = [n \in 0..m |-> After(f, n)]
           Some == {m \in Nat : \E f : Is(m, f)}
<1>1. 0 \in Some
  <2> DEFINE f == [n \in 0..0 |-> [u \in Urls |-> {u}]]
  <2>1. \A n \in 0..0 : n = 0
    OBVIOUS
  <2>2. Is(0, f)
    BY <2>1
  <2> QED
    BY <2>2
<1>2. ASSUME NEW m \in Some
      PROVE  m + 1 \in Some
  <2>1. PICK f : f = [n \in 0..m |-> After(f, n)]
    OBVIOUS
  <2> DEFINE g == [n \in 0..(m + 1) |-> IF n = m + 1 THEN After(f, n) ELSE f[n]]
  <2>2. m \in Nat /\ m + 1 \in Nat
    OBVIOUS
  <2>3. \A n \in 0..(m + 1) : n = 0 \/ (n - 1 \in 0..(m + 1) /\ n - 1 # m + 1)
    BY <2>2
  <2>4. \A n \in 0..(m + 1) : n = m + 1 \/ n \in 0..m
    BY <2>2
  <2>5. \A n \in 0..(m + 1) : n = 0 \/ g[n - 1] = f[n - 1]
    BY <2>3
  <2> HIDE DEF g
  <2>6. \A n \in 0..(m + 1) : After(g, n) = After(f, n)
    BY <2>5
  <2> HIDE DEF After
  <2>7. g = [n \in 0..(m + 1) |-> After(f, n)]
    BY <2>1, <2>4 DEF g
  <2>8. g = [n \in 0..(m + 1) |-> After(g, n)]
    BY <2>6, <2>7
  <2> QED
    BY <2>2, <2>8
<1> HIDE DEF Is
<1>3. Some = Nat
  BY <1>1, <1>2, NumbersBySteps
<1>4. \E f : Is(MaxRedirects, f)
  BY <1>3, FetchingAssumption
<1> QED
  BY <1>4 DEF Is

\* One redirect of each.
LEMMA EndingStep ==
  ASSUME NEW n \in 0..MaxRedirects, NEW u \in Urls
  PROVE  Ending[n][u] = IF site[u] \notin Urls THEN site[u]
                        ELSE IF n = 0 THEN "looped" ELSE Ending[n - 1][site[u]]
<1>1. Ending = EndingOf(site)
  BY DEF Ending, EndingOf
<1>2. EndingOf(site) = [k \in 0..MaxRedirects |->
        [v \in Urls |-> IF site[v] \notin Urls THEN site[v]
                        ELSE IF k = 0 THEN "looped" ELSE EndingOf(site)[k - 1][site[v]]]]
  BY EndingExists DEF EndingOf
<1> DEFINE e == EndingOf(site)
<1> HIDE DEF e
<1>3. e[n] = [v \in Urls |-> IF site[v] \notin Urls THEN site[v]
                            ELSE IF n = 0 THEN "looped" ELSE e[n - 1][site[v]]]
  BY <1>2 DEF e
<1> QED
  BY <1>1, <1>3 DEF e

LEMMA PathStep ==
  ASSUME NEW n \in 0..MaxRedirects, NEW u \in Urls
  PROVE  Path[n][u] = {u} \cup IF site[u] \notin Urls \/ n = 0 THEN {}
                               ELSE Path[n - 1][site[u]]
<1>1. Path = PathOf(site)
  BY DEF Path, PathOf
<1>2. PathOf(site) = [k \in 0..MaxRedirects |->
        [v \in Urls |-> {v} \cup IF site[v] \notin Urls \/ k = 0 THEN {}
                                 ELSE PathOf(site)[k - 1][site[v]]]]
  BY PathExists DEF PathOf
<1> DEFINE e == PathOf(site)
<1> HIDE DEF e
<1>3. e[n] = [v \in Urls |-> {v} \cup IF site[v] \notin Urls \/ n = 0 THEN {}
                                      ELSE e[n - 1][site[v]]]
  BY <1>2 DEF e
<1> QED
  BY <1>1, <1>3 DEF e

\* While the site stays, so does where its chains lead.
LEMMA ChainsStay ==
  ASSUME UNCHANGED site
  PROVE  UNCHANGED <<Ending, Path>>
<1>1. Ending = EndingOf(site) /\ Ending' = EndingOf(site')
  BY DEF Ending, EndingOf
<1>2. Path = PathOf(site) /\ Path' = PathOf(site')
  BY DEF Path, PathOf
<1> QED
  BY <1>1, <1>2

\* From where a fetch that follows redirects stands, with the redirects it has
\* left, it comes to where its start leads, and meets a host that is not
\* public exactly if its start does.
AheadAsFromStart ==
  (quiet /\ connector \in {"web", "ask"} /\ step \in {"check", "send"}) =>
    /\ Ending[MaxRedirects - hops][url] = Ending[MaxRedirects][start]
    /\ connector = "ask" =>
         ((\E u \in Path[MaxRedirects - hops][url] : ~public[u])
            <=> \E u \in Path[MaxRedirects][start] : ~public[u])

\* The ask path asks nobody it has not checked.
CheckedFirst == (quiet /\ connector = "ask" /\ step = "send") => public[url]

OnlyAskChecks == step = "check" => connector = "ask"
OnlyIssuesPage == step = "comments" => connector = "jira"

VerdictInv ==
  /\ FetchTypeOK
  /\ AheadAsFromStart
  /\ CheckedFirst
  /\ OnlyAskChecks /\ OnlyIssuesPage
  /\ VerdictFitsTheSite

\* The redirects left.
LEMMA HopsLeft ==
  ASSUME FetchTypeOK
  PROVE  /\ MaxRedirects - hops \in 0..MaxRedirects
         /\ hops \in Nat /\ MaxRedirects \in 0..MaxRedirects
         /\ MaxRedirects - 0 = MaxRedirects
         /\ TooMany => MaxRedirects - hops = 0
         /\ ~TooMany => /\ MaxRedirects - hops # 0
                        /\ MaxRedirects - (hops + 1) = (MaxRedirects - hops) - 1
<1>1. MaxRedirects \in Nat /\ hops \in 0..MaxRedirects
  BY FetchingAssumption DEF FetchTypeOK
<1> QED
  BY <1>1 DEF TooMany

\* What the path from here meets, if it goes no further or one hop further.
LEMMA MeetsHere ==
  ASSUME NEW n \in 0..MaxRedirects, NEW u \in Urls
  PROVE  /\ ~public[u] => \E v \in Path[n][u] : ~public[v]
         /\ (site[u] \notin Urls \/ n = 0) =>
              ((\E v \in Path[n][u] : ~public[v]) => ~public[u])
         /\ (site[u] \in Urls /\ n # 0) =>
              ((\E v \in Path[n][u] : ~public[v])
                 <=> (~public[u] \/ \E v \in Path[n - 1][site[u]] : ~public[v]))
<1>1. CASE site[u] \notin Urls \/ n = 0
  <2>1. Path[n][u] = {u}
    BY <1>1, PathStep
  <2> QED
    BY <1>1, <2>1
<1>2. CASE site[u] \in Urls /\ n # 0
  <2>1. Path[n][u] = {u} \cup Path[n - 1][site[u]]
    BY <1>2, PathStep
  <2> QED
    BY <1>2, <2>1
<1> QED
  BY <1>1, <1>2

LEMMA InitVerdictInv == FetchInit => VerdictInv
  BY FetchInitTypeOK DEF FetchInit, VerdictInv, AheadAsFromStart, CheckedFirst,
     OnlyAskChecks, OnlyIssuesPage, VerdictFitsTheSite

\* Once something has changed, nothing is said of the verdict.
LEMMA ChangeKeepsVerdict ==
  ASSUME VerdictInv, FetchTypeOK', Change
  PROVE  VerdictInv'
<1>1. ~quiet' /\ step' = step /\ connector' = connector
  BY Zenon DEF Change, client
<1> QED
  BY <1>1 DEF VerdictInv, AheadAsFromStart, CheckedFirst, OnlyAskChecks,
     OnlyIssuesPage,
     VerdictFitsTheSite

LEMMA BeginKeepsVerdict ==
  ASSUME VerdictInv, FetchTypeOK', NEW c \in Fetchers, Begin(c)
  PROVE  VerdictInv'
<1>1. /\ step' = FirstStep(c) /\ connector' = c /\ url' = start /\ hops' = 0
      /\ UNCHANGED <<site, public, start>>
  BY DEF Begin, server
<1>2. UNCHANGED <<Ending, Path>>
  BY <1>1, ChainsStay
<1>3. MaxRedirects - hops' = MaxRedirects
  BY <1>1, HopsLeft DEF VerdictInv
<1>4. AheadAsFromStart'
  BY <1>1, <1>2, <1>3 DEF AheadAsFromStart
<1> QED
  BY <1>1, <1>4 DEF VerdictInv, CheckedFirst, OnlyAskChecks,
     OnlyIssuesPage, VerdictFitsTheSite, FirstStep

\* A fetch is over at this step: its verdict fits.
LEMMA EndFits ==
  ASSUME VerdictInv, FetchTypeOK', step' = "done",
         UNCHANGED <<site, public, start, connector, quiet>>,
         (quiet /\ connector \in {"web", "ask"}) =>
           verdict' = IF /\ connector = "ask"
                         /\ \E u \in Path[MaxRedirects][start] : ~public[u]
                      THEN "unsafe"
                      ELSE IF Ending[MaxRedirects][start] = "page" THEN "ok"
                      ELSE IF Ending[MaxRedirects][start] \in {"busy", "dead"}
                           THEN "raised" ELSE "tombstone"
  PROVE  VerdictInv'
<1>1. UNCHANGED <<Ending, Path>>
  BY ChainsStay
<1>2. VerdictFitsTheSite'
  BY <1>1 DEF VerdictFitsTheSite
<1> QED
  BY <1>2 DEF VerdictInv, AheadAsFromStart, CheckedFirst, OnlyAskChecks,
     OnlyIssuesPage

LEMMA CheckKeepsVerdict ==
  ASSUME VerdictInv, FetchTypeOK', CheckHost
  PROVE  VerdictInv'
<1>1. /\ step = "check"
      /\ UNCHANGED <<site, public, start, connector, url, hops, quiet>>
  BY DEF CheckHost, server
<1>2. CASE public[url]
  <2>1. step' = "send"
    BY <1>2 DEF CheckHost
  <2>2. UNCHANGED <<Ending, Path>>
    BY <1>1, ChainsStay
  <2>3. MaxRedirects - hops' = MaxRedirects - hops /\ public'[url'] = public[url]
    BY <1>1
  <2>4. AheadAsFromStart'
    BY <1>1, <2>1, <2>2, <2>3 DEF VerdictInv, AheadAsFromStart
  <2> QED
    BY <1>2, <2>1, <2>3, <2>4 DEF VerdictInv, CheckedFirst, OnlyAskChecks,
       OnlyIssuesPage, VerdictFitsTheSite
<1>3. CASE ~public[url]
  <2>1. step' = "done" /\ verdict' = "unsafe"
    BY <1>3 DEF CheckHost, End
  <2>2. (quiet /\ connector = "ask") => \E u \in Path[MaxRedirects][start] : ~public[u]
    <3>1. \E u \in Path[MaxRedirects - hops][url] : ~public[u]
      BY <1>3, HopsLeft, MeetsHere DEF VerdictInv, FetchTypeOK
    <3> QED
      BY <1>1, <3>1 DEF VerdictInv, AheadAsFromStart
  <2>3. connector # "web"
    BY <1>1 DEF VerdictInv, OnlyAskChecks
  <2> QED
    BY <1>1, <2>1, <2>2, <2>3, EndFits
<1> QED
  BY <1>2, <1>3

LEMMA SendKeepsVerdict ==
  ASSUME VerdictInv, FetchTypeOK', Send
  PROVE  VerdictInv'
<1> DEFINE n == MaxRedirects - hops
           a == Ending[MaxRedirects][start]
           Unsafe == \E u \in Path[MaxRedirects][start] : ~public[u]
<1>1. /\ step = "send"
      /\ UNCHANGED <<site, public, start, connector, quiet>>
  BY DEF Send, server
<1>2. FetchTypeOK /\ url \in Urls /\ n \in 0..MaxRedirects
  BY HopsLeft DEF VerdictInv, FetchTypeOK
<1>3. (quiet /\ connector \in {"web", "ask"}) =>
        /\ Ending[n][url] = a
        /\ connector = "ask" =>
             /\ public[url]
             /\ (\E u \in Path[n][url] : ~public[u]) <=> Unsafe
  BY <1>1 DEF VerdictInv, AheadAsFromStart, CheckedFirst
<1> HIDE DEF n, a, Unsafe
<1>4. CASE PeerRefused /\ End("unsafe")
  <2>1. connector = "ask" /\ ~public[url]
    BY <1>4 DEF PeerRefused
  <2> QED
    BY <1>1, <1>3, <1>4, <2>1, EndFits DEF End
<1>5. CASE /\ site[url] \in Urls /\ TooMany
           /\ End(IF connector \in Searches THEN "raised" ELSE "tombstone")
  <2>1. n = 0
    BY <1>2, <1>5, HopsLeft DEF n
  <2>2. Ending[n][url] = "looped"
    BY <1>2, <1>5, <2>1, EndingStep
  <2>3. (quiet /\ connector = "ask") => ~Unsafe
    BY <1>2, <1>3, <2>1, MeetsHere
  <2>4. connector \in {"web", "ask"} => verdict' = "tombstone"
    BY <1>5 DEF End, Searches
  <2>5. step' = "done"
    BY <1>5 DEF End
  <2> QED
    BY <1>1, <1>3, <2>2, <2>3, <2>4, <2>5, EndFits DEF a, Unsafe
<1>6. CASE /\ site[url] \in Urls /\ ~TooMany
           /\ url' = site[url] /\ hops' = hops + 1 /\ step' = FirstStep(connector)
  <2>1. n # 0 /\ MaxRedirects - hops' = n - 1
    BY <1>2, <1>6, HopsLeft DEF n
  <2>2. Ending[n][url] = Ending[n - 1][url']
    BY <1>2, <1>6, <2>1, EndingStep
  <2>3. (quiet /\ connector = "ask") =>
          ((\E u \in Path[n - 1][url'] : ~public[u]) <=> Unsafe)
    BY <1>2, <1>3, <1>6, <2>1, MeetsHere
  <2>4. UNCHANGED <<Ending, Path>>
    BY <1>1, ChainsStay
  <2>5. AheadAsFromStart'
    BY <1>1, <1>3, <2>1, <2>2, <2>3, <2>4 DEF AheadAsFromStart, a, Unsafe
  <2>6. step' = IF connector = "ask" THEN "check" ELSE "send"
    BY <1>6 DEF FirstStep
  <2> QED
    BY <1>1, <2>5, <2>6 DEF VerdictInv, CheckedFirst, OnlyAskChecks, OnlyIssuesPage,
       VerdictFitsTheSite
<1>7. CASE HasComments /\ step' = "comments"
  BY <1>1, <1>7 DEF HasComments, VerdictInv, AheadAsFromStart, CheckedFirst,
     OnlyAskChecks, OnlyIssuesPage, VerdictFitsTheSite
<1>8. CASE (site[url] \notin Urls \/ ~Follows) /\ ~HasComments /\ End(Judged)
  <2> SUFFICES ASSUME quiet, connector \in {"web", "ask"}
               PROVE  /\ step' = "done"
                      /\ verdict' = IF connector = "ask" /\ Unsafe THEN "unsafe"
                                    ELSE IF a = "page" THEN "ok"
                                    ELSE IF a \in {"busy", "dead"} THEN "raised"
                                    ELSE "tombstone"
    <3>1. step' = "done"
      BY <1>8 DEF End
    <3> QED
      BY <1>1, <3>1, EndFits DEF a, Unsafe
  <2>1. site[url] \notin Urls
    BY <1>8 DEF Follows
  <2>2. a = site[url]
    BY <1>2, <1>3, <2>1, EndingStep
  <2>3. connector = "ask" => ~Unsafe
    BY <1>2, <1>3, <2>1, MeetsHere
  <2>4. Judged = IF site[url] \in {"busy", "dead"} THEN "raised"
                 ELSE IF site[url] = "page" THEN "ok" ELSE "tombstone"
    BY DEF Judged, Transient, Searches
  <2> QED
    BY <1>8, <2>2, <2>3, <2>4 DEF End
<1> QED
  BY <1>4, <1>5, <1>6, <1>7, <1>8, SendSteps

LEMMA NextPageKeepsVerdict ==
  ASSUME VerdictInv, FetchTypeOK', NextPage
  PROVE  VerdictInv'
<1>1. /\ connector' = "jira" /\ step' \in {"comments", "done"}
  BY DEF NextPage, End, VerdictInv, OnlyIssuesPage
<1> QED
  BY <1>1 DEF VerdictInv, AheadAsFromStart, CheckedFirst, OnlyAskChecks,
     OnlyIssuesPage, VerdictFitsTheSite

LEMMA NextVerdictInv == VerdictInv /\ [FetchNext]_fetchVars => VerdictInv'
<1> SUFFICES ASSUME VerdictInv, [FetchNext]_fetchVars PROVE VerdictInv'
  OBVIOUS
<1>0. FetchTypeOK'
  BY FetchNextTypeOK DEF VerdictInv
<1>1. CASE UNCHANGED fetchVars
  <2>1. UNCHANGED <<Ending, Path>>
    BY <1>1, ChainsStay DEF fetchVars, server
  <2> QED
    BY <1>0, <1>1, <2>1 DEF fetchVars, server, client, VerdictInv, AheadAsFromStart,
       CheckedFirst, OnlyAskChecks, OnlyIssuesPage, VerdictFitsTheSite
<1>2. CASE \/ \E u \in Urls : Rebind(u) \/ \E a \in Answers : Answer(u, a)
           \/ \E a \in PageReplies : AnswerPages(a)
           \/ Comment
           \/ \E i \in 1..Len(thread) : Uncomment(i)
  <2>1. Change
    BY <1>2 DEF Rebind, Answer, AnswerPages, Comment, Uncomment
  <2> QED
    BY <1>0, <2>1, ChangeKeepsVerdict
<1>3. ASSUME NEW c \in Fetchers, Begin(c) PROVE VerdictInv'
  BY <1>0, <1>3, BeginKeepsVerdict
<1>4. CASE Fetches
  BY <1>0, <1>4, CheckKeepsVerdict, SendKeepsVerdict, NextPageKeepsVerdict DEF Fetches
<1> QED
  BY <1>1, <1>2, <1>3, <1>4 DEF FetchNext

\* While the other end stays as it is, the fetch that checks every host and
\* follows redirects by hand and the one that leaves them to the client come
\* to the verdict that is due, for any site, any chain or loop of redirects
\* and any number of them allowed.
THEOREM VerdictsFit == FetchSpec => []VerdictFitsTheSite
<1>1. VerdictInv => VerdictFitsTheSite
  BY DEF VerdictInv
<1> QED
  BY <1>1, InitVerdictInv, NextVerdictInv, PTL DEF FetchSpec
=============================================================================
