-------------------------------- MODULE Links --------------------------------
(***************************************************************************)
(* Which external a note's link leads to. A save classifies each URL and   *)
(* bare issue key of the body: with its connector configured it becomes an *)
(* issue or page key, otherwise the URL itself, fetched as a web page and  *)
(* re-pointed to wherever its redirects end. `lode backfill` later moves   *)
(* the links drawn down before their connector was there.                  *)
(*                                                                         *)
(* Each transaction is a step. The text of a snapshot, its index and the   *)
(* clock are Snapshots'; a kill is charged to the claim here at once,      *)
(* where the program waits for the reclaim.                                *)
(***************************************************************************)
EXTENDS Integers, FiniteSets

CONSTANTS
  Notes,
  Refs,         \* what a body can hold: URLs and bare keys
  Kind,         \* of a reference: "jira" and "confluence" URLs, "bare" keys
  Key,          \* the key that its connector gives a reference
  Page,         \* the URL as canonicalize_url gives it
  Landing,      \* where a site may redirect every URL to
  MaxAttempts,  \* settings.retry_max_attempts
  MaxEvents     \* bound: what users do, and scans

Keys == {Key[r] : r \in Refs}
Pages == {Page[r] : r \in {q \in Refs : Kind[q] # "bare"}} \cup {Landing}
Ids == Keys \cup Pages

ASSUME LinksAssumption ==
  /\ Kind \in [Refs -> {"jira", "confluence", "bare"}]
  /\ Keys \cap Pages = {}
  /\ MaxAttempts \in Nat \ {0} /\ MaxEvents \in Nat

VARIABLES
  active, \* the connectors that are enabled and have their credentials
  body,   \* the references of each note's head
  edges,  \* the links: note, quoted_text and to_id
  ext,    \* per external: its api_base ("absent" without a row) and its head
  tries,  \* the attempts left to the live refresh of each external, 0: none
  run,    \* the worker's claim
  fill,   \* the backfill command
  events, \* what has happened so far of what MaxEvents bounds
  lost    \* history: externals whose fetch a step owed that was killed, until
          \* something asks for it again

vars == <<active, body, edges, ext, tries, run, fill, events, lost>>

Connectors == {"jira", "confluence"}
NoFill == [step |-> "idle", name |-> "", using |-> {}, retry |-> FALSE,
           todo |-> {}, link |-> [note |-> "", quoted |-> "", to |-> ""]]
NoRun == [step |-> "idle", ext |-> Landing, to |-> Landing, beaten |-> FALSE]

Init ==
  /\ active \in {{}, Connectors}
  /\ body = [n \in Notes |-> {}]
  /\ edges = {}
  /\ ext = [i \in Ids |-> [base |-> "absent", head |-> "none"]]
  /\ tries = [i \in Ids |-> 0]
  /\ run = NoRun /\ fill = NoFill
  /\ events = 0 /\ lost = {}

Happens == events < MaxEvents /\ events' = events + 1

-----------------------------------------------------------------------------
(* Classification. `using` is the connectors a process's settings name.    *)

Connector(r) == IF Kind[r] = "bare" THEN "jira" ELSE Kind[r]

\* _classify_atlassian and _classify_bare_jira_key, then canonicalize_url.
Classified(r, using) == Connector(r) \in using
Leads(r, using) == IF Classified(r, using) THEN Key[r] ELSE Page[r]
Found(S, using) == {r \in S : Kind[r] = "bare" => Classified(r, using)}

\* _link_and_enqueue makes one link per external, quoting a URL if one leads
\* there; which of several is left open.
Quoting(i, S, using) ==
  LET there == {r \in Found(S, using) : Leads(r, using) = i}
  IN  CHOOSE r \in there : Kind[r] = "bare" => \A q \in there : Kind[q] = "bare"
Detected(S, using) ==
  {Quoting(Leads(r, using), S, using) : r \in Found(S, using)}

Linked(n, i) == \E e \in edges : e.note = n /\ e.to = i
Link(n, r, i) == [note |-> n, quoted |-> r, to |-> i]

\* _insert_external with an api_base, where there is no row yet.
Minted(S) == [i \in Ids |-> IF i \in S /\ ext[i].base = "absent"
                            THEN [ext[i] EXCEPT !.base = "kept"] ELSE ext[i]]
\* The row an ingest makes where there is none has no api_base.
Ingested(i, h) ==
  [ext EXCEPT ![i] = [base |-> IF @.base = "absent" THEN "null" ELSE @.base,
                      head |-> h]]
\* enqueue_derive_jobs: one live refresh of an external at a time.
Enqueued(S) == [i \in Ids |-> IF i \in S /\ tries[i] = 0 THEN MaxAttempts
                              ELSE tries[i]]
\* _repoint_edges, for all notes.
Repointed(old, new) ==
  {IF e.to = old THEN [e EXCEPT !.to = new] ELSE e : e \in edges}

-----------------------------------------------------------------------------
(* Users: they save notes, ask, and configure connectors.                  *)

Configure(using) ==
  /\ using # active
  /\ Happens
  /\ active' = using
  /\ UNCHANGED <<body, edges, ext, tries, run, fill, lost>>

\* detect_and_enqueue_drawdown, in the save's transaction. A link to an
\* external whose refresh is live but has already re-pointed its edges
\* elsewhere is left behind.
Save(n, S) ==
  LET fresh == {r \in Detected(S, active) : ~Linked(n, Leads(r, active))}
      to == {Leads(r, active) : r \in fresh}
  IN  /\ S # body[n]
      /\ Happens
      /\ body' = [body EXCEPT ![n] = S]
      /\ edges' = edges \cup {Link(n, r, Leads(r, active)) : r \in fresh}
      /\ ext' = Minted(to \cap Keys)
      /\ tries' = Enqueued(to)
      /\ lost' = (lost \ to) \cup {i \in to : run.step = "finish" /\ run.ext = i
                                              /\ run.to # i}
      /\ UNCHANGED <<active, run, fill>>

\* fetch_for_ask, of an issue or page the model asks for: ingested without a
\* link, a job or an api_base. What is not a text is not ingested.
AskFetch(r) ==
  /\ Classified(r, active)
  /\ Happens
  /\ ext' = Ingested(Key[r], "ok")
  /\ run' = IF run.ext = Key[r] THEN [run EXCEPT !.beaten = TRUE] ELSE run
  /\ UNCHANGED <<active, body, edges, tries, fill, lost>>

-----------------------------------------------------------------------------
(* The worker, and the reconcile scan that feeds it.                       *)

\* _refresh_stale_step: of what has a text; how old it is is left open.
Sweep(i) ==
  /\ ext[i].head = "ok" /\ tries[i] = 0
  /\ Happens
  /\ tries' = Enqueued({i})
  /\ UNCHANGED <<active, body, edges, ext, run, fill, lost>>

Claim(i) ==
  /\ run.step = "idle" /\ tries[i] > 0
  /\ run' = [step |-> "fetch", ext |-> i, to |-> i, beaten |-> FALSE]
  /\ UNCHANGED <<active, body, edges, ext, tries, fill, events, lost>>

\* final_url: a web page's external is the URL the fetch ended at; of an issue
\* or page key it is not looked at.
EndsAt(i) == IF i \in Pages THEN {i, Landing} ELSE {i}

\* refresh_external. An issue or page is fetched from its row's api_base, with
\* its connector's credentials.
CanFetch(i) ==
  i \in Keys => /\ ext[i].base = "kept"
                /\ \E r \in Refs : Key[r] = i /\ Classified(r, active)

Fetch(h, i) ==
  /\ run.step = "fetch" /\ CanFetch(run.ext) /\ i \in EndsAt(run.ext)
  /\ ext' = Ingested(i, h)
  /\ run' = [run EXCEPT !.step = IF i = run.ext THEN "finish" ELSE "repoint",
                        !.to = i, !.beaten = @ \/ (h = "ok" /\ i = run.ext)]
  /\ UNCHANGED <<active, body, edges, tries, fill, events, lost>>

Repoint ==
  /\ run.step = "repoint"
  /\ edges' = Repointed(run.ext, run.to)
  /\ run' = [run EXCEPT !.step = "finish"]
  /\ UNCHANGED <<active, body, ext, tries, fill, events, lost>>

Finish ==
  /\ run.step = "finish"
  /\ tries' = [tries EXCEPT ![run.ext] = 0]
  /\ run' = NoRun
  /\ UNCHANGED <<active, body, edges, ext, fill, events, lost>>

\* Slip: a failure is retried for ever.
NotCharged(i) == tries
Charged(i) == [tries EXCEPT ![i] = @ - 1]

\* The handler raises, or the worker is killed in it: an attempt is gone, and
\* with the last one the tombstone is owed.
Fails ==
  /\ run.step \in {"fetch", "repoint", "finish"}
  /\ tries' = Charged(run.ext)
  /\ run' = IF tries[run.ext] = 1 THEN [run EXCEPT !.step = "hook"] ELSE NoRun
  /\ UNCHANGED <<active, body, edges, ext, fill, events, lost>>

\* _refresh_dead_letter_hook: nothing where a text came in since the claim, the
\* claim's own included.
Hook ==
  /\ run.step = "hook"
  /\ ext' = IF run.beaten /\ ext[run.ext].head = "ok" THEN ext
            ELSE Ingested(run.ext, "gone")
  /\ run' = NoRun
  /\ UNCHANGED <<active, body, edges, tries, fill, events, lost>>

HookKilled ==
  /\ run.step = "hook"
  /\ lost' = lost \cup {run.ext}
  /\ run' = NoRun
  /\ UNCHANGED <<active, body, edges, ext, tries, fill, events>>

-----------------------------------------------------------------------------
(* lode backfill: a transaction per step, over what it read at its start.  *)

Typed(i) == ext[i].base # "absent"

\* iter_user_linked_externals, and what each connector's loop skips. A link
\* whose page was never fetched has no externals row and is not looked at.
Reclassifies(name, e, using) ==
  /\ Typed(e.to) /\ Connector(e.quoted) = name /\ Classified(e.quoted, using)
  /\ name = "confluence" => e.to \in Pages

FillStarts(name, retry) ==
  /\ fill.step = "idle"
  /\ Happens
  /\ fill' = [NoFill EXCEPT
       !.step = "links", !.name = name, !.using = active, !.retry = retry,
       !.todo = {e \in edges : Reclassifies(name, e, active)}]
  /\ UNCHANGED <<active, body, edges, ext, tries, run, lost>>

\* mint_external, unless a link has its key already.
FillMints(e) ==
  /\ fill.step = "links" /\ e \in fill.todo
  /\ fill' = [fill EXCEPT !.todo = @ \ {e}, !.link = e,
                !.step = IF e.to = Key[e.quoted] THEN "enqueue" ELSE "repoint"]
  /\ ext' = IF e.to = Key[e.quoted] THEN ext ELSE Minted({Key[e.quoted]})
  /\ UNCHANGED <<active, body, edges, tries, run, events, lost>>

FillRepoints ==
  /\ fill.step = "repoint"
  /\ edges' = Repointed(fill.link.to, Key[fill.link.quoted])
  /\ fill' = [fill EXCEPT !.step = "enqueue"]
  /\ UNCHANGED <<active, body, ext, tries, run, events, lost>>

\* _bare_jira_key_backfill's read, once the links are done.
FillReads ==
  /\ fill.step = "links" /\ fill.todo = {} /\ fill.name = "jira"
  /\ fill' = [fill EXCEPT !.step = "bare",
       !.todo = UNION {{Link(n, r, Key[r]) : r \in {q \in body[n] :
                   Kind[q] = "bare" /\ Classified(q, fill.using)}} : n \in Notes}]
  /\ UNCHANGED <<active, body, edges, ext, tries, run, events, lost>>

\* A key the note already has a link to is skipped.
FillMintsBare(e) ==
  /\ fill.step = "bare" /\ e \in fill.todo
  /\ IF Linked(e.note, e.to)
     THEN fill' = [fill EXCEPT !.todo = @ \ {e}] /\ UNCHANGED ext
     ELSE /\ fill' = [fill EXCEPT !.todo = @ \ {e}, !.link = e,
                                  !.step = "insert"]
          /\ ext' = Minted({e.to})
  /\ UNCHANGED <<active, body, edges, tries, run, events, lost>>

FillInserts ==
  /\ fill.step = "insert"
  /\ edges' = edges \cup {fill.link}
  /\ fill' = [fill EXCEPT !.step = "enqueue bare"]
  /\ UNCHANGED <<active, body, ext, tries, run, events, lost>>

\* Slip: what has a head needs no refresh.
NeedsFirstFetch(i, retry) == ext[i].head = "none" /\ retry
\* needs_refresh, then enqueue_fresh_refresh: two statements in one step, for a
\* head that is there is never taken away.
NeedsRefresh(i, retry) == ext[i].head # "gone" \/ retry

FillEnqueues ==
  LET i == Key[fill.link.quoted]
  IN  /\ fill.step \in {"enqueue", "enqueue bare"}
      /\ tries' = IF NeedsRefresh(i, fill.retry) THEN Enqueued({i}) ELSE tries
      /\ fill' = [fill EXCEPT
           !.step = IF @ = "enqueue" THEN "links" ELSE "bare"]
      /\ lost' = IF NeedsRefresh(i, fill.retry) THEN lost \ {i} ELSE lost
      /\ UNCHANGED <<active, body, edges, ext, run, events>>

FillEnds ==
  /\ fill.todo = {}
  /\ fill.step = IF fill.name = "jira" THEN "bare" ELSE "links"
  /\ fill' = NoFill
  /\ UNCHANGED <<active, body, edges, ext, tries, run, events, lost>>

\* The command is interrupted: what its last link owed is not made up for.
FillKilled ==
  /\ fill.step # "idle"
  /\ lost' = IF fill.step \in {"enqueue", "enqueue bare"}
             THEN lost \cup {Key[fill.link.quoted]} ELSE lost
  /\ fill' = NoFill
  /\ UNCHANGED <<active, body, edges, ext, tries, run, events>>

-----------------------------------------------------------------------------
Works == (\E h \in {"ok", "gone"}, i \in Ids : Fetch(h, i)) \/ Repoint \/ Finish
         \/ Fails \/ Hook
         \/ \E i \in Ids : Claim(i)
Fills == (\E e \in fill.todo : FillMints(e) \/ FillMintsBare(e)) \/ FillRepoints
         \/ FillReads \/ FillInserts \/ FillEnqueues \/ FillEnds

Next ==
  \/ \E using \in SUBSET Connectors : Configure(using)
  \/ \E n \in Notes, S \in SUBSET Refs : Save(n, S)
  \/ \E r \in Refs : AskFetch(r)
  \/ \E i \in Ids : Sweep(i) \/ Claim(i)
  \/ \E h \in {"ok", "gone"}, i \in Ids : Fetch(h, i)
  \/ Repoint \/ Finish \/ Fails \/ Hook \/ HookKilled
  \/ \E name \in Connectors, retry \in BOOLEAN : FillStarts(name, retry)
  \/ \E e \in fill.todo : FillMints(e) \/ FillMintsBare(e)
  \/ FillRepoints \/ FillReads \/ FillInserts \/ FillEnqueues \/ FillEnds
  \/ FillKilled

Spec == Init /\ [][Next]_vars

\* The worker drains the queue, and a command runs to its end unless killed.
FairSpec == Spec /\ WF_vars(Works) /\ WF_vars(Fills)

-----------------------------------------------------------------------------
(* Properties.                                                             *)

Owed(i) ==
  \/ tries[i] > 0
  \/ run.step = "hook" /\ run.ext = i
  \/ fill.step \in {"enqueue", "enqueue bare"} /\ Key[fill.link.quoted] = i

\* docs/externals.md, fetch outcomes and backfill: a link leads to something
\* with a snapshot, if only a tombstone, or to something a step still to come
\* will fetch. A kill between two transactions of a backfill or in the
\* dead-letter hook loses it, and a save that finds the refresh live although
\* its edges have just been re-pointed.
LinksResolve ==
  \A e \in edges : ext[e.to].head # "none" \/ Owed(e.to) \/ e.to \in lost

\* drawdown.py:826-832: a link to an issue or page is never sent back to the
\* web, whatever settings change and wherever its fetch ends.
KeysStayKeys ==
  [][\A e \in edges : e.to \in Keys =>
       \E f \in edges' : f.note = e.note /\ f.quoted = e.quoted /\ f.to \in Keys]_vars

\* Whatever was saved, asked, configured, backfilled or killed: once users
\* leave it alone every link ends at a snapshot, or is known to be lost.
LinksGetFetched ==
  []<>(\A e \in edges : ext[e.to].head # "none" \/ e.to \in lost)

-----------------------------------------------------------------------------
(* What the documentation says: TLC refutes it, and no run checks it        *)

\* docs/externals.md:117-123,768-775: a row that `lode ask` made is refreshed
\* like any other, so only what its source answers, or does not answer, buries
\* the text it has.
OnlyTheSourceBuries ==
  [][\A i \in Keys : ext[i].head = "ok" /\ ext'[i].head = "gone"
       => ext[i].base = "kept"]_vars
=============================================================================
