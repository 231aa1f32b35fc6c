--------------------------- MODULE SnapshotsProofs ---------------------------
(***************************************************************************)
(* The mirror never loses track: the safety properties of Snapshots for    *)
(* any externals, processes, pages, limits and number of failures.         *)
(***************************************************************************)
EXTENDS Snapshots, TLAPS

Row == [id : 0..MaxJobs, claimedAt : 0..MaxTime, attempts : 0..MaxAttempts,
        status : {"none", "pending", "running", "failed", "done", "dead"}]
Work == [ext : Externals, id : 0..MaxJobs, claimedAt : 0..MaxTime,
         attempts : 0..(MaxAttempts - 1), at : Externals, content : Contents]

ScanRead == [found : SUBSET Externals, at : 0..MaxTime]

\* The types, and the attempts a live row, or a claim of one, has left.
Shape ==
  /\ TypeOK
  /\ work \in [Procs -> Work] /\ okAt \in [Externals -> 0..MaxTime]
  /\ \A e \in Externals : IsLive(e) => refresh[e].attempts < MaxAttempts

\* fetched_at of the head is when a fetch last succeeded, but for a page that
\* came back.
FetchedAtIsHonest ==
  \A e \in Externals :
    head[e] \in Pages /\ e \notin returned => snaps[e][head[e]] = okAt[e]

\* What a process is about to do has its ground: there is a head where it will
\* re-point edges; and the row it will call done is not what keeps an edge in
\* place that has no head yet.
Grounded(p) ==
  LET e == work[p].ext IN
  /\ pc[p] = "index" => work[p].content \in Pages
  /\ pc[p] \in {"index", "repoint", "finish"} => head[work[p].at] # NoHead
  /\ pc[p] = "repoint" => work[p].at # e
  /\ work[p].id <= refresh[e].id
  /\ pc[p] = "finish" /\ work[p].id # 0 =>
       \/ head[e] # NoHead \/ edges[e] = 0
       \/ <<e, NoHead>> \in lost \/ work[p].id < refresh[e].id

SnapshotsInv ==
  /\ Shape /\ FetchedAtIsHonest /\ \A p \in Procs : Grounded(p)
  /\ TombstonesStayOut /\ CitedResolves /\ OkHeadIndexed

-----------------------------------------------------------------------------
(* Rows and heads *)

LEMMA Nats ==
  /\ MaxTime \in Nat \ {0} /\ MaxJobs \in Nat \ {0} /\ MaxAttempts \in Nat \ {0}
  /\ Ttl \in Nat \ {0} /\ StaleTimeout \in Nat \ {0} /\ MaxEvents \in Nat
  /\ Gone \notin Pages /\ Dead \notin Pages /\ NoHead \notin Contents
  /\ Target \in Externals /\ NoWork \in Work
<1>1. /\ MaxTime \in Nat \ {0} /\ MaxJobs \in Nat \ {0} /\ MaxAttempts \in Nat \ {0}
      /\ Ttl \in Nat \ {0} /\ StaleTimeout \in Nat \ {0} /\ MaxEvents \in Nat
      /\ Target \in Externals
  BY SnapshotsAssumption
<1>2. Gone \notin Pages /\ Dead \notin Pages /\ NoHead \notin Pages
  BY SnapshotsAssumption DEF Gone, Dead, NoHead
<1>3. NoHead \notin Contents
  BY <1>2 DEF Contents, Gone, Dead, NoHead
<1>4. 0 \in 0..MaxJobs /\ 0 \in 0..MaxTime /\ 0 \in 0..(MaxAttempts - 1)
  BY <1>1
<1>5. NoWork \in Work
  BY <1>1, <1>4 DEF NoWork, Work, Never, Contents
<1> QED
  BY <1>1, <1>2, <1>3, <1>5

\* Enqueueing takes nothing from any row that is live.
LEMMA Enqueued ==
  ASSUME SnapshotsInv, NEW S \in SUBSET Externals, Enqueue(S), Room(S)
  PROVE  /\ refresh' \in [Externals -> Row]
         /\ \A e \in Externals :
              /\ refresh'[e] = refresh[e]
                 \/ /\ e \in S /\ ~IsLive(e) /\ refresh'[e].id = refresh[e].id + 1
                    /\ refresh'[e].status = "pending" /\ refresh'[e].attempts = 0
              /\ IsLive(e) => IsLive(e)'
              /\ e \in S => IsLive(e)'
              /\ refresh[e].id <= refresh'[e].id
<1> DEFINE fresh(e) == [id |-> refresh[e].id + 1, status |-> "pending",
                        claimedAt |-> Never, attempts |-> 0]
<1>1. \A e \in Externals : refresh[e] \in Row
  BY DEF SnapshotsInv, Shape, TypeOK, Row
<1>2. \A e \in S : ~IsLive(e) => fresh(e) \in Row
  BY <1>1, Nats DEF Room, Row, Never
<1>3. \A e \in Externals :
        refresh'[e] = IF e \in S /\ ~IsLive(e) THEN fresh(e) ELSE refresh[e]
  BY DEF Enqueue
<1>4. refresh' \in [Externals -> Row]
  BY <1>1, <1>2, <1>3 DEF Enqueue
<1>5. \A e \in Externals : refresh[e].id \in Nat
  BY <1>1 DEF Row
<1> QED
  BY <1>3, <1>4, <1>5 DEF IsLive

\* A row that fails stays live or becomes dead.
LEMMA Failed ==
  ASSUME SnapshotsInv, NEW e \in Externals, NEW w \in Work, FailClaim(e, w)
  PROVE  /\ refresh' \in [Externals -> Row]
         /\ refresh'[e].status \in {"failed", "dead"}
         /\ refresh'[e].status = "failed" => refresh'[e].attempts < MaxAttempts
         /\ \A f \in Externals : refresh'[f].id = refresh[f].id
         /\ \A f \in Externals \ {e} : refresh'[f] = refresh[f]
<1> DEFINE n == w.attempts + 1
           status == IF n >= MaxAttempts THEN "dead" ELSE "failed"
           row == [refresh[e] EXCEPT !.attempts = n, !.status = status]
<1>1. refresh \in [Externals -> Row]
  BY DEF SnapshotsInv, Shape, TypeOK, Row
<1>2. n \in 0..MaxAttempts /\ (n < MaxAttempts \/ status = "dead")
  BY Nats DEF Work
<1>3. refresh' = [refresh EXCEPT ![e] = row]
  BY <1>1 DEF FailClaim
<1>4. status \in {"failed", "dead"}
  OBVIOUS
<1> HIDE DEF n, status
<1>5. /\ row \in Row /\ row.status = status /\ row.attempts = n
      /\ row.id = refresh[e].id
  BY <1>1, <1>2, <1>4 DEF Row
<1> HIDE DEF row
<1> QED
  BY <1>1, <1>2, <1>3, <1>4, <1>5

\* A snapshot that is stored is the head, and is as new as the last success
\* unless its page came back.
LEMMA Stored ==
  ASSUME SnapshotsInv, NEW e \in Externals, NEW c \in Contents, Store(e, c)
  PROVE  /\ snaps' \in [Externals -> [Pages -> 0..MaxTime]]
         /\ head' \in [Externals -> Contents \cup {NoHead}]
         /\ okAt' \in [Externals -> 0..MaxTime]
         /\ embedded' \subseteq Externals \X Pages
         /\ \A f \in Externals : head'[f] \in Pages => snaps'[f][head'[f]] # Never
         /\ \A f \in Externals : head'[f] = IF f = e THEN c ELSE head[f]
         /\ FetchedAtIsHonest'
<1>1. /\ snaps \in [Externals -> [Pages -> 0..MaxTime]] /\ now \in 1..MaxTime
      /\ head \in [Externals -> Contents \cup {NoHead}]
      /\ okAt \in [Externals -> 0..MaxTime] /\ embedded \subseteq Externals \X Pages
      /\ \A f \in Externals : head[f] \in Pages => snaps[f][head[f]] # Never
  BY DEF SnapshotsInv, Shape, TypeOK, TombstonesStayOut
<1>2. now \in 0..MaxTime /\ now # Never
  BY <1>1, Nats DEF Never
<1>3. \A f \in Externals : \A d \in Pages :
        snaps'[f][d] = IF f = e /\ d = c /\ (snaps[e][c] = Never \/ head[e] = c)
                       THEN now ELSE snaps[f][d]
  BY <1>1 DEF Store, IsOk
<1>4. \A f \in Externals : head'[f] = IF f = e THEN c ELSE head[f]
  BY <1>1 DEF Store
<1>5. \A f \in Externals : okAt'[f] = IF f = e /\ c \in Pages THEN now ELSE okAt[f]
  BY <1>1 DEF Store, IsOk
<1>6. /\ snaps' \in [Externals -> [Pages -> 0..MaxTime]]
      /\ head' \in [Externals -> Contents \cup {NoHead}]
      /\ okAt' \in [Externals -> 0..MaxTime]
      /\ embedded' \subseteq Externals \X Pages
  BY <1>1, <1>2 DEF Store, IsOk
<1>7. \A f \in Externals : head'[f] \in Pages => snaps'[f][head'[f]] # Never
  BY <1>1, <1>2, <1>3, <1>4
<1>8. ASSUME NEW f \in Externals, head'[f] \in Pages, f \notin returned'
      PROVE  snaps'[f][head'[f]] = okAt'[f]
  <2>1. CASE f = e
    <3>1. c \in Pages
      BY <1>4, <1>8, <2>1
    <3>2. snaps[e][c] = Never \/ head[e] = c
      BY <3>1, <1>8, <2>1 DEF Store, IsOk
    <3> QED
      BY <3>1, <3>2, <1>3, <1>4, <1>5, <2>1
  <2>2. CASE f # e
    <3>1. f \notin returned
      BY <1>8, <2>2 DEF Store
    <3> QED
      BY <3>1, <1>3, <1>4, <1>5, <1>8, <2>2 DEF SnapshotsInv, FetchedAtIsHonest
  <2> QED
    BY <2>1, <2>2
<1> QED
  BY <1>4, <1>6, <1>7, <1>8 DEF FetchedAtIsHonest

-----------------------------------------------------------------------------

LEMMA InitSnapshotsInv == Init => SnapshotsInv
<1> SUFFICES ASSUME Init PROVE SnapshotsInv
  OBVIOUS
<1>1. /\ 0 \in 0..MaxTime /\ 1 \in 1..MaxTime /\ 0 \in 0..MaxJobs
      /\ 0 \in 0..MaxAttempts /\ 0 \in 0..MaxEvents /\ 0 \in Nat
  BY Nats
<1>2. TypeOK
  <2>1. /\ snaps \in [Externals -> [Pages -> 0..MaxTime]]
        /\ head \in [Externals -> Contents \cup {NoHead}]
        /\ \A e \in Externals : head[e] \notin Pages
    BY <1>1, Nats DEF Init, Never, Contents
  <2>2. refresh \in [Externals -> Row] /\ edges \in [Externals -> Nat]
    BY <1>1 DEF Init, Row, Never
  <2>3. \A p \in Procs : {work[p].ext, work[p].at} \subseteq Externals
    BY Nats DEF Init, Work
  <2> QED
    BY <1>1, <2>1, <2>2, <2>3 DEF Init, TypeOK, Row, NoScan, Never
<1>3. \A e \in Externals : ~IsLive(e) /\ head[e] = NoHead /\ edges[e] = 0
  BY DEF Init, IsLive
<1>4. work \in [Procs -> Work] /\ okAt \in [Externals -> 0..MaxTime]
  BY <1>1, Nats DEF Init, Never
<1>5. NoHead \notin Pages
  BY Nats DEF Contents
<1>6. FetchedAtIsHonest /\ CitedResolves /\ OkHeadIndexed
  BY <1>3, <1>5 DEF FetchedAtIsHonest, CitedResolves, OkHeadIndexed, OkHeads, Heads
<1>7. ASSUME NEW p \in Procs PROVE Grounded(p)
  <2>1. pc[p] = "idle" /\ work[p].id = 0 /\ work[p].ext \in Externals
    BY Nats DEF Init, NoWork
  <2> QED
    BY <2>1 DEF Init, Grounded
<1> QED
  BY <1>2, <1>3, <1>4, <1>6, <1>7 DEF Init, SnapshotsInv, Shape, TombstonesStayOut

-----------------------------------------------------------------------------
(* What every step keeps. *)

\* A step that touches neither heads nor index keeps what is said of them.
LEMMA MirrorKept ==
  ASSUME SnapshotsInv, UNCHANGED <<snaps, head, okAt, returned>>,
         embedded' \subseteq Externals \X Pages, UNCHANGED indexed,
         lost \subseteq lost',
         \A p \in Procs : pc[p] = "index" =>
           \/ pc'[p] = "index" /\ work'[p] = work[p]
           \/ <<work[p].at, work[p].content>> \in lost'
  PROVE  FetchedAtIsHonest' /\ TombstonesStayOut' /\ OkHeadIndexed'
<1>1. FetchedAtIsHonest'
  BY DEF SnapshotsInv, FetchedAtIsHonest
<1>2. TombstonesStayOut'
  BY DEF SnapshotsInv, TombstonesStayOut
<1>3. OkHeads' = OkHeads
  BY DEF OkHeads, Heads, IsOk
<1>4. OkHeadIndexed'
  <2> SUFFICES ASSUME NEW s \in OkHeads
               PROVE  \/ s \in indexed' \cup lost'
                      \/ \E p \in Procs : /\ pc'[p] = "index"
                                          /\ <<work'[p].at, work'[p].content>> = s
    BY <1>3 DEF OkHeadIndexed
  <2>1. CASE s \in indexed \cup lost
    BY <2>1
  <2>2. CASE \E p \in Procs : pc[p] = "index" /\ <<work[p].at, work[p].content>> = s
    BY <2>2
  <2> QED
    BY <2>1, <2>2 DEF SnapshotsInv, OkHeadIndexed
<1> QED
  BY <1>1, <1>2, <1>4

\* A process that stays where it was, with what it remembered, keeps its
\* ground if heads are not taken away and no edge comes to its URL unseen.
LEMMA GroundKept ==
  ASSUME SnapshotsInv, NEW p \in Procs, pc'[p] = pc[p], work'[p] = work[p],
         \A e \in Externals : head[e] # NoHead => head'[e] # NoHead,
         \A e \in Externals : refresh[e].id <= refresh'[e].id,
         refresh' \in [Externals -> Row],
         \A e \in Externals : <<e, NoHead>> \in lost => <<e, NoHead>> \in lost',
         edges'[work[p].ext] = 0 \/ edges'[work[p].ext] = edges[work[p].ext]
           \/ head'[work[p].ext] # NoHead
  PROVE  Grounded(p)'
<1>1. work[p] \in Work /\ work[p].ext \in Externals /\ work[p].at \in Externals
  BY DEF SnapshotsInv, Shape, Work
<1>2. work[p].id \in Nat /\ refresh[work[p].ext].id \in Nat
      /\ refresh'[work[p].ext].id \in Nat
  BY <1>1 DEF Work, Row, SnapshotsInv, Shape, TypeOK
<1>3. Grounded(p)
  BY DEF SnapshotsInv
<1> QED
  BY <1>1, <1>2, <1>3 DEF Grounded

\* An edge stays resolved as long as heads are kept and live rows stay live,
\* or what the row promised has come.
LEMMA CitedKept ==
  ASSUME SnapshotsInv,
         \A e \in Externals : edges'[e] > 0 =>
           \/ edges[e] > 0 \/ head'[e] # NoHead \/ IsLive(e)',
         \A e \in Externals : head[e] # NoHead => head'[e] # NoHead,
         \A e \in Externals : edges[e] > 0 /\ IsLive(e) =>
           \/ IsLive(e)' \/ head'[e] # NoHead \/ edges'[e] = 0
           \/ {<<e, Dead>>, <<e, NoHead>>} \cap lost' # {}
           \/ \E p \in Procs : pc'[p] = "hook" /\ work'[p].ext = e,
         \A e \in Externals : {<<e, Dead>>, <<e, NoHead>>} \cap lost \subseteq lost',
         \A p \in Procs : pc[p] = "hook" =>
           \/ pc'[p] = "hook" /\ work'[p].ext = work[p].ext
           \/ head'[work[p].ext] # NoHead \/ <<work[p].ext, Dead>> \in lost'
  PROVE  CitedResolves'
<1> SUFFICES ASSUME NEW e \in Externals, edges'[e] > 0
             PROVE  \/ head'[e] # NoHead \/ IsLive(e)'
                    \/ \E p \in Procs : pc'[p] = "hook" /\ work'[p].ext = e
                    \/ {<<e, Dead>>, <<e, NoHead>>} \cap lost' # {}
  BY DEF CitedResolves
<1>1. CASE ~(edges[e] > 0)
  BY <1>1
<1>2. CASE edges[e] > 0 /\ head[e] # NoHead
  BY <1>2
<1>3. CASE edges[e] > 0 /\ IsLive(e)
  <2>1. edges'[e] # 0
    OBVIOUS
  <2> QED
    BY <1>3, <2>1
<1>4. CASE \E p \in Procs : pc[p] = "hook" /\ work[p].ext = e
  BY <1>4
<1>5. CASE {<<e, Dead>>, <<e, NoHead>>} \cap lost # {}
  BY <1>5
<1> QED
  BY <1>1, <1>2, <1>3, <1>4, <1>5 DEF SnapshotsInv, CitedResolves

-----------------------------------------------------------------------------
(* The save path, the scan, and the world *)

LEMMA SaveKeeps ==
  ASSUME SnapshotsInv, NEW e \in Externals, Room({e}), Save(e)
  PROVE  SnapshotsInv'
<1>1. /\ refresh' \in [Externals -> Row]
      /\ \A f \in Externals :
           /\ refresh'[f] = refresh[f]
              \/ /\ f \in {e} /\ ~IsLive(f) /\ refresh'[f].id = refresh[f].id + 1
                 /\ refresh'[f].status = "pending" /\ refresh'[f].attempts = 0
           /\ IsLive(f) => IsLive(f)'
           /\ f \in {e} => IsLive(f)'
           /\ refresh[f].id <= refresh'[f].id
  BY Enqueued DEF Save
<1>2. /\ UNCHANGED <<mirror, site, scan, now, pc, work, events>>
      /\ edges[e] = 0 /\ edges' = [edges EXCEPT ![e] = 1]
      /\ lost \subseteq lost'
      /\ IsLive(e) /\ HasRepointed(e) => <<e, NoHead>> \in lost'
  BY DEF Save
<1>3. edges' \in [Externals -> Nat]
  BY <1>2 DEF SnapshotsInv, Shape, TypeOK
<1>4. \A f \in Externals : IsLive(f)' => refresh'[f].attempts < MaxAttempts
  BY <1>1, Nats DEF SnapshotsInv, Shape, IsLive
<1>5. Shape'
  BY <1>1, <1>2, <1>3, <1>4 DEF SnapshotsInv, Shape, TypeOK, Row, mirror, site
<1>6. FetchedAtIsHonest' /\ TombstonesStayOut' /\ OkHeadIndexed'
  BY <1>2, MirrorKept DEF mirror, SnapshotsInv, TombstonesStayOut
<1>7. \A f \in Externals : edges'[f] = IF f = e THEN 1 ELSE edges[f]
  BY <1>2 DEF SnapshotsInv, Shape, TypeOK
<1>8. CitedResolves'
  BY <1>1, <1>2, <1>7, CitedKept DEF mirror
<1>9. ASSUME NEW p \in Procs PROVE Grounded(p)'
  <2>1. work[p] \in Work /\ Grounded(p)
    BY DEF SnapshotsInv, Shape
  <2>2. CASE work[p].ext = e
    <3>1. IsLive(e) \/ work[p].id < refresh'[e].id
      <4>1. ~IsLive(e) => refresh'[e].id = refresh[e].id + 1
        BY <1>1 DEF IsLive
      <4>2. refresh[e].id \in Nat /\ work[p].id \in Nat /\ work[p].id <= refresh[e].id
        BY <2>1, <2>2 DEF SnapshotsInv, Shape, TypeOK, Work, Grounded
      <4> QED
        BY <4>1, <4>2
    <3>2. pc[p] = "finish" /\ work[p].at # e => HasRepointed(e)
      BY <2>2 DEF HasRepointed
    <3>3. refresh[e].id \in Nat /\ work[p].id \in Nat /\ refresh'[e].id \in Nat
      BY <1>1, <2>1 DEF SnapshotsInv, Shape, TypeOK, Work, Row
    <3> QED
      BY <1>1, <1>2, <2>1, <2>2, <3>1, <3>2, <3>3 DEF Grounded, mirror
  <2>3. CASE work[p].ext # e
    BY <1>1, <1>2, <1>7, <2>1, <2>3, GroundKept DEF mirror, Work
  <2> QED
    BY <2>2, <2>3
<1> QED
  BY <1>5, <1>6, <1>8, <1>9 DEF SnapshotsInv

LEMMA SweepKeeps ==
  ASSUME SnapshotsInv, Room(scan.found), Sweep PROVE SnapshotsInv'
<1>1. /\ refresh' \in [Externals -> Row]
      /\ \A f \in Externals :
           /\ refresh'[f] = refresh[f]
              \/ /\ f \in scan.found /\ ~IsLive(f) /\ refresh'[f].id = refresh[f].id + 1
                 /\ refresh'[f].status = "pending" /\ refresh'[f].attempts = 0
           /\ IsLive(f) => IsLive(f)'
           /\ refresh[f].id <= refresh'[f].id
  <2>1. scan.found \in SUBSET Externals
    BY DEF SnapshotsInv, Shape, TypeOK
  <2> QED
    BY <2>1, Enqueued DEF Sweep
<1>2. UNCHANGED <<mirror, edges, site, now, pc, work, events, lost>>
  BY DEF Sweep
<1>3. \A f \in Externals : IsLive(f)' => refresh'[f].attempts < MaxAttempts
  BY <1>1, Nats DEF SnapshotsInv, Shape, IsLive
<1>4. Shape'
  <2>1. scan' \in ScanRead
    BY Nats DEF Sweep, NoScan, Never, ScanRead
  <2> QED
    BY <1>1, <1>2, <1>3, <2>1
    DEF SnapshotsInv, Shape, TypeOK, Row, mirror, site, ScanRead
<1>5. FetchedAtIsHonest' /\ TombstonesStayOut' /\ OkHeadIndexed'
  BY <1>2, MirrorKept DEF mirror, SnapshotsInv, TombstonesStayOut
<1>6. CitedResolves'
  BY <1>1, <1>2, CitedKept DEF mirror
<1>7. ASSUME NEW p \in Procs PROVE Grounded(p)'
  BY <1>1, <1>2, GroundKept DEF mirror
<1> QED
  BY <1>4, <1>5, <1>6, <1>7 DEF SnapshotsInv

\* Steps that change neither heads, edges, rows nor processes.
LEMMA WorldKeeps ==
  ASSUME SnapshotsInv,
         UNCHANGED <<snaps, head, indexed, okAt, returned, edges, refresh, pc,
                     work, lost>>,
         embedded' \subseteq Externals \X Pages,
         page' \in Pages \cup {Gone}, moved' \in BOOLEAN,
         now' \in 1..MaxTime, events' \in 0..MaxEvents,
         scan' \in ScanRead
  PROVE  SnapshotsInv'
<1>1. Shape'
  BY DEF SnapshotsInv, Shape, TypeOK, IsLive, TombstonesStayOut, Contents, ScanRead
<1>2. FetchedAtIsHonest' /\ TombstonesStayOut' /\ OkHeadIndexed'
  BY MirrorKept
<1>3. CitedResolves'
  BY CitedKept DEF IsLive
<1>4. \A p \in Procs : Grounded(p)'
  BY DEF SnapshotsInv, Grounded
<1> QED
  BY <1>1, <1>2, <1>3, <1>4 DEF SnapshotsInv

LEMMA Eventful ==
  ASSUME SnapshotsInv, Happens PROVE events' \in 0..MaxEvents
  BY Nats DEF SnapshotsInv, Shape, TypeOK, Happens

LEMMA QuietStepsKeep ==
  ASSUME SnapshotsInv,
         \/ EmbedGap \/ Move \/ Tick \/ Scan
         \/ \E s \in embedded : EmbedDies(s)
         \/ \E c \in Pages \cup {Gone} : Publish(c)
  PROVE  SnapshotsInv'
<1>1. OkHeads \subseteq Externals \X Pages
  BY DEF OkHeads, Heads, IsOk
<1>2. /\ embedded \subseteq Externals \X Pages
      /\ page \in Pages \cup {Gone} /\ moved \in BOOLEAN
      /\ now \in 1..MaxTime /\ events \in 0..MaxEvents /\ scan \in ScanRead
  BY DEF SnapshotsInv, Shape, TypeOK, TombstonesStayOut, ScanRead
<1>3. CASE EmbedGap
  BY <1>1, <1>2, <1>3, WorldKeeps DEF EmbedGap, site
<1>4. CASE Move
  BY <1>2, <1>4, Eventful, WorldKeeps DEF Move, mirror
<1>5. CASE Tick
  <2>1. now' \in 1..MaxTime
    BY <1>2, <1>5, Nats DEF Tick
  <2> QED
    BY <1>2, <1>5, <2>1, WorldKeeps DEF Tick, mirror, site
<1>6. CASE \E s \in embedded : EmbedDies(s)
  BY <1>2, <1>6, Eventful, WorldKeeps DEF EmbedDies, site
<1>7. CASE \E c \in Pages \cup {Gone} : Publish(c)
  BY <1>2, <1>7, Eventful, WorldKeeps DEF Publish, mirror
<1>8. CASE Scan
  <2>1. scan' \in ScanRead
    BY <1>2, <1>8, Nats DEF Scan, ScanRead, Stale
  <2> QED
    BY <1>2, <1>8, <2>1, WorldKeeps DEF Scan, mirror, site
<1> QED
  BY <1>3, <1>4, <1>5, <1>6, <1>7, <1>8

-----------------------------------------------------------------------------
(* The refresh handler *)

PcNames == {"idle", "fetch", "ingest", "index", "repoint", "finish", "hook"}

\* A process that does nothing has nothing to account for.
LEMMA IdleGrounded ==
  ASSUME NEW p, pc'[p] \in {"idle", "fetch", "hook"},
         work'[p] = NoWork \/ work'[p].id <= refresh'[work'[p].ext].id,
         refresh' \in [Externals -> Row]
  PROVE  Grounded(p)'
<1>1. NoWork.id = 0 /\ NoWork.ext \in Externals
  BY Nats DEF NoWork
<1>2. refresh'[NoWork.ext].id \in Nat
  BY <1>1 DEF Row
<1> QED
  BY <1>1, <1>2 DEF Grounded

\* The types, for a step of one process.
LEMMA ProcShape ==
  ASSUME SnapshotsInv, NEW p \in Procs, NEW l \in PcNames, NEW w \in Work,
         pc' = [pc EXCEPT ![p] = l], work' = [work EXCEPT ![p] = w],
         UNCHANGED <<snaps, head, okAt, embedded, indexed, page, moved, now, scan>>,
         edges' \in [Externals -> Nat], refresh' \in [Externals -> Row],
         \A e \in Externals : IsLive(e)' => refresh'[e].attempts < MaxAttempts,
         events' \in 0..MaxEvents
  PROVE  Shape'
<1>1. pc' \in [Procs -> PcNames] /\ work' \in [Procs -> Work]
  BY DEF SnapshotsInv, Shape, TypeOK, PcNames
<1>2. \A q \in Procs : {work'[q].ext, work'[q].at} \subseteq Externals
  BY <1>1 DEF Work
<1> QED
  BY <1>1, <1>2 DEF SnapshotsInv, Shape, TypeOK, Row, PcNames

\* A claim makes a row running that may still fail once.
LEMMA ClaimKeeps ==
  ASSUME SnapshotsInv, NEW p \in Procs, NEW e \in Externals, Claim(p, e)
  PROVE  SnapshotsInv'
<1> DEFINE w == [NoWork EXCEPT !.ext = e, !.id = refresh[e].id, !.claimedAt = now,
                               !.attempts = refresh[e].attempts]
           row == [refresh[e] EXCEPT !.status = "running", !.claimedAt = now]
<1>1. /\ pc[p] = "idle" /\ IsLive(e)
      /\ refresh' = [refresh EXCEPT ![e] = row]
      /\ work' = [work EXCEPT ![p] = w] /\ pc' = [pc EXCEPT ![p] = "fetch"]
      /\ UNCHANGED <<mirror, edges, site, scan, now, events, lost>>
  BY DEF Claim, Go, IsLive
<1>2. /\ refresh[e] \in Row /\ refresh[e].attempts \in 0..(MaxAttempts - 1)
      /\ now \in 0..MaxTime /\ refresh \in [Externals -> Row]
  <2>1. refresh[e] \in Row /\ refresh[e].attempts < MaxAttempts /\ now \in 1..MaxTime
    BY <1>1 DEF SnapshotsInv, Shape, TypeOK, Row
  <2> QED
    BY <2>1, Nats DEF SnapshotsInv, Shape, TypeOK, Row
<1>3. /\ row \in Row /\ row.id = refresh[e].id /\ row.status = "running"
      /\ row.attempts = refresh[e].attempts
  BY <1>2 DEF Row
<1>4. w \in Work /\ w.id = refresh[e].id /\ w.ext = e
  BY <1>2, Nats DEF Work, Row
<1> HIDE DEF w, row
<1>5. \A f \in Externals : refresh'[f] = IF f = e THEN row ELSE refresh[f]
  BY <1>1, <1>2
<1>6. refresh' \in [Externals -> Row]
  BY <1>1, <1>2, <1>3
<1>7. /\ \A f \in Externals : refresh'[f].id = refresh[f].id
      /\ \A f \in Externals : IsLive(f)' <=> IsLive(f)
      /\ \A f \in Externals : IsLive(f)' => refresh'[f].attempts < MaxAttempts
  BY <1>1, <1>3, <1>5 DEF IsLive, SnapshotsInv, Shape
<1>8. \A q \in Procs : q # p => pc'[q] = pc[q] /\ work'[q] = work[q]
  BY <1>1 DEF SnapshotsInv, Shape, TypeOK
<1>9. pc'[p] = "fetch" /\ work'[p] = w
  BY <1>1 DEF SnapshotsInv, Shape, TypeOK
<1>10. Shape'
  BY <1>1, <1>4, <1>6, <1>7, ProcShape DEF PcNames, mirror, site, SnapshotsInv, Shape, TypeOK
<1>11. FetchedAtIsHonest' /\ TombstonesStayOut' /\ OkHeadIndexed'
  BY <1>1, <1>8, MirrorKept DEF mirror, SnapshotsInv, TombstonesStayOut
<1>12. CitedResolves'
  BY <1>1, <1>7, <1>8, CitedKept DEF mirror
<1>13. ASSUME NEW q \in Procs PROVE Grounded(q)'
  <2>1. \A f \in Externals : refresh[f].id <= refresh'[f].id
    BY <1>7, <1>2 DEF Row
  <2>2. CASE q = p
    <3>1. work'[p].id <= refresh'[work'[p].ext].id
      BY <1>4, <1>7, <1>9, <2>1
    <3> QED
      BY <1>6, <1>9, <2>2, <3>1, IdleGrounded
  <2>3. CASE q # p
    BY <1>1, <1>6, <1>8, <2>1, <2>3, GroundKept DEF mirror
  <2> QED
    BY <2>2, <2>3
<1> QED
  BY <1>10, <1>11, <1>12, <1>13 DEF SnapshotsInv

\* A step of one process that leaves rows, heads and edges as they are.
LEMMA MoveKeeps ==
  ASSUME SnapshotsInv, NEW p \in Procs, NEW l \in PcNames, NEW w \in Work,
         pc' = [pc EXCEPT ![p] = l], work' = [work EXCEPT ![p] = w],
         UNCHANGED <<mirror, edges, refresh, site, scan, now>>,
         events' \in 0..MaxEvents,
         lost \subseteq lost',
         pc[p] = "index" => <<work[p].at, work[p].content>> \in lost',
         pc[p] = "hook" => <<work[p].ext, Dead>> \in lost',
         l \in {"idle", "fetch", "ingest"},
         w = NoWork \/ w.id <= refresh[w.ext].id
  PROVE  SnapshotsInv'
<1>1. \A q \in Procs : q # p => pc'[q] = pc[q] /\ work'[q] = work[q]
  BY DEF SnapshotsInv, Shape, TypeOK
<1>2. pc'[p] = l /\ work'[p] = w
  BY DEF SnapshotsInv, Shape, TypeOK
<1>3. refresh \in [Externals -> Row]
  BY DEF SnapshotsInv, Shape, TypeOK, Row
<1>4. Shape'
  BY <1>3, ProcShape DEF mirror, site, SnapshotsInv, Shape, TypeOK, IsLive
<1>5. FetchedAtIsHonest' /\ TombstonesStayOut' /\ OkHeadIndexed'
  BY <1>1, MirrorKept DEF mirror, SnapshotsInv, TombstonesStayOut
<1>6. CitedResolves'
  BY <1>1, CitedKept DEF mirror, IsLive
<1>7. ASSUME NEW q \in Procs PROVE Grounded(q)'
  <2>1. \A f \in Externals : refresh[f].id <= refresh'[f].id
    BY <1>3 DEF Row
  <2>2. CASE q = p
    <3>1. NoWork.id = 0 /\ NoWork.ext \in Externals
      BY Nats DEF NoWork
    <3>2. refresh[NoWork.ext].id \in Nat
      BY <1>3, <3>1 DEF Row
    <3> QED
      BY <1>2, <2>2, <3>1, <3>2 DEF Grounded
  <2>3. CASE q # p
    BY <1>1, <1>3, <2>1, <2>3, GroundKept DEF mirror
  <2> QED
    BY <2>2, <2>3
<1> QED
  BY <1>4, <1>5, <1>6, <1>7 DEF SnapshotsInv

LEMMA AskKeeps ==
  ASSUME SnapshotsInv, NEW p \in Procs, NEW e \in Externals, Ask(p, e)
  PROVE  SnapshotsInv'
<1> DEFINE w == [NoWork EXCEPT !.ext = e]
<1>1. w \in Work /\ w.id = 0 /\ w.ext = e
  BY Nats DEF Work, NoWork
<1>2. refresh[e].id \in Nat
  BY DEF SnapshotsInv, Shape, TypeOK
<1>3. /\ pc[p] = "idle" /\ work' = [work EXCEPT ![p] = w]
      /\ pc' = [pc EXCEPT ![p] = "fetch"]
      /\ UNCHANGED <<mirror, edges, refresh, site, scan, now, lost>>
  BY DEF Ask, Go
<1>4. events' \in 0..MaxEvents
  BY Eventful DEF Ask
<1> HIDE DEF w
<1>5. w.id <= refresh[w.ext].id
  BY <1>1, <1>2
<1> QED
  BY <1>1, <1>3, <1>4, <1>5, MoveKeeps DEF PcNames

LEMMA FetchKeeps ==
  ASSUME SnapshotsInv, NEW p \in Procs, Fetch(p) PROVE SnapshotsInv'
<1>1. /\ pc[p] = "fetch" /\ events' \in 0..MaxEvents
      /\ UNCHANGED <<mirror, edges, refresh, site, scan, now, lost>>
  BY DEF Fetch, SnapshotsInv, Shape, TypeOK
<1>2. work[p] \in Work /\ Grounded(p) /\ work \in [Procs -> Work]
  BY DEF SnapshotsInv, Shape
<1>3. CASE page = Gone /\ work[p].id = 0
  BY <1>1, <1>3, Nats, MoveKeeps DEF Fetch, Leave, Go, PcNames
<1>4. CASE ~(page = Gone /\ work[p].id = 0)
  <2> DEFINE at == IF moved THEN Target ELSE work[p].ext
             w == [work[p] EXCEPT !.content = page, !.at = at]
  <2>1. page \in Contents /\ at \in Externals
    BY <1>2, Nats DEF SnapshotsInv, Shape, TypeOK, Contents, Work
  <2>2. work' = [work EXCEPT ![p] = w] /\ pc' = [pc EXCEPT ![p] = "ingest"]
    BY <1>2, <1>4 DEF Fetch, Go
  <2>3. w \in Work /\ w.id = work[p].id /\ w.ext = work[p].ext
    <3> HIDE DEF at
    <3> QED
      BY <1>2, <2>1 DEF Work
  <2> HIDE DEF w
  <2>4. w.id <= refresh[w.ext].id
    BY <1>2, <2>3 DEF Grounded
  <2> QED
    BY <1>1, <2>2, <2>3, <2>4, MoveKeeps DEF PcNames
<1> QED
  BY <1>3, <1>4

LEMMA DiesKeeps ==
  ASSUME SnapshotsInv, NEW p \in Procs, Dies(p) PROVE SnapshotsInv'
<1>1. /\ UNCHANGED <<mirror, edges, refresh, site, scan, now>>
      /\ pc' = [pc EXCEPT ![p] = "idle"] /\ work' = [work EXCEPT ![p] = NoWork]
      /\ lost \subseteq lost'
      /\ pc[p] = "index" => <<work[p].at, work[p].content>> \in lost'
      /\ pc[p] = "hook" => <<work[p].ext, Dead>> \in lost'
  BY DEF Dies, Leave, Go
<1>2. events' \in 0..MaxEvents
  BY Eventful DEF Dies
<1> QED
  BY <1>1, <1>2, Nats, MoveKeeps DEF PcNames

\* A row that fails: the step of HandlerRaises and of Reclaim that makes it so.
LEMMA FailStepKeeps ==
  ASSUME SnapshotsInv, NEW p \in Procs, NEW e \in Externals, NEW v \in Work,
         FailClaim(e, v), NEW l \in {"idle", "hook"}, NEW w \in Work,
         pc' = [pc EXCEPT ![p] = l], work' = [work EXCEPT ![p] = w],
         UNCHANGED <<mirror, edges, site, scan, now>>, events' \in 0..MaxEvents,
         lost \subseteq lost',
         pc[p] # "hook",
         pc[p] = "index" => <<work[p].at, work[p].content>> \in lost',
         refresh'[e].status = "dead" => l = "hook" /\ w.ext = e,
         w = NoWork \/ w.id <= refresh[w.ext].id
  PROVE  SnapshotsInv'
<1>1. /\ refresh' \in [Externals -> Row]
      /\ refresh'[e].status \in {"failed", "dead"}
      /\ refresh'[e].status = "failed" => refresh'[e].attempts < MaxAttempts
      /\ \A f \in Externals : refresh'[f].id = refresh[f].id
      /\ \A f \in Externals \ {e} : refresh'[f] = refresh[f]
  BY Failed
<1>2. \A q \in Procs : q # p => pc'[q] = pc[q] /\ work'[q] = work[q]
  BY DEF SnapshotsInv, Shape, TypeOK
<1>3. pc'[p] = l /\ work'[p] = w
  BY DEF SnapshotsInv, Shape, TypeOK
<1>4. \A f \in Externals : IsLive(f)' => refresh'[f].attempts < MaxAttempts
  BY <1>1 DEF SnapshotsInv, Shape, IsLive
<1>5. Shape'
  BY <1>1, <1>4, ProcShape DEF PcNames, mirror, site, SnapshotsInv, Shape, TypeOK
<1>6. FetchedAtIsHonest' /\ TombstonesStayOut' /\ OkHeadIndexed'
  BY <1>2, MirrorKept DEF mirror, SnapshotsInv, TombstonesStayOut
<1>7. \A f \in Externals : IsLive(f) =>
        IsLive(f)' \/ \E q \in Procs : pc'[q] = "hook" /\ work'[q].ext = f
  BY <1>1, <1>3 DEF IsLive
<1>8. CitedResolves'
  BY <1>2, <1>7, CitedKept DEF mirror
<1>9. ASSUME NEW q \in Procs PROVE Grounded(q)'
  <2>1. \A f \in Externals : refresh[f].id <= refresh'[f].id
    BY <1>1 DEF Row
  <2>2. CASE q = p
    <3>1. w \in Work /\ w.ext \in Externals
      BY DEF Work
    <3> QED
      BY <1>1, <1>3, <2>2, <3>1, IdleGrounded
  <2>3. CASE q # p
    BY <1>1, <1>2, <2>1, <2>3, GroundKept DEF mirror
  <2> QED
    BY <2>2, <2>3
<1> QED
  BY <1>5, <1>6, <1>8, <1>9 DEF SnapshotsInv

LEMMA HandlerRaisesKeeps ==
  ASSUME SnapshotsInv, NEW p \in Procs, HandlerRaises(p) PROVE SnapshotsInv'
<1> DEFINE w == work[p]
           e == w.ext
<1>1. /\ pc[p] \in {"fetch", "index"}
      /\ UNCHANGED <<mirror, edges, site, scan, now>> /\ lost \subseteq lost'
      /\ pc[p] = "index" => <<w.at, w.content>> \in lost'
  BY DEF HandlerRaises
<1>2. /\ w \in Work /\ e \in Externals /\ work \in [Procs -> Work]
      /\ w.id <= refresh[e].id
  BY DEF SnapshotsInv, Shape, Work, Grounded
<1>3. events' \in 0..MaxEvents
  BY Eventful DEF HandlerRaises, SnapshotsInv, Shape, TypeOK
<1>4. CASE w.id # 0 /\ HoldsClaim(e, w)
  <2>1. /\ FailClaim(e, w)
        /\ IF refresh'[e].status = "dead"
           THEN Go(p, "hook") /\ UNCHANGED work ELSE Leave(p)
    BY <1>4 DEF HandlerRaises
  <2>2. CASE refresh'[e].status = "dead"
    <3>1. pc' = [pc EXCEPT ![p] = "hook"] /\ work' = [work EXCEPT ![p] = w]
      BY <1>2, <2>1, <2>2 DEF Go
    <3> QED
      BY <1>1, <1>2, <1>3, <2>1, <3>1, FailStepKeeps
  <2>3. CASE refresh'[e].status # "dead"
    BY <1>1, <1>2, <1>3, <2>1, <2>3, Nats, FailStepKeeps DEF Leave, Go
  <2> QED
    BY <2>2, <2>3
<1>5. CASE ~(w.id # 0 /\ HoldsClaim(e, w))
  BY <1>1, <1>3, <1>5, Nats, MoveKeeps DEF HandlerRaises, Leave, Go, PcNames
<1> QED
  BY <1>4, <1>5

\* The row is left running by a worker that died, or is slow: the claim that
\* is failed is the row's own.
LEMMA ReclaimKeeps ==
  ASSUME SnapshotsInv, NEW p \in Procs, NEW e \in Externals, Reclaim(p, e)
  PROVE  SnapshotsInv'
<1> DEFINE row == refresh[e]
           w == [NoWork EXCEPT !.ext = e, !.id = row.id,
                               !.claimedAt = row.claimedAt, !.attempts = row.attempts]
<1>1. /\ pc[p] = "idle" /\ row.status = "running" /\ FailClaim(e, w)
      /\ IF refresh'[e].status = "dead"
         THEN Go(p, "hook") /\ work' = [work EXCEPT ![p] = w]
         ELSE UNCHANGED <<pc, work>>
      /\ UNCHANGED <<mirror, edges, site, scan, now, events, lost>>
  BY DEF Reclaim
<1>2. row \in Row /\ row.attempts \in 0..(MaxAttempts - 1)
  <2>1. row \in Row /\ row.attempts < MaxAttempts
    BY <1>1 DEF SnapshotsInv, Shape, TypeOK, Row, IsLive
  <2> QED
    BY <2>1, Nats DEF Row
<1>3. w \in Work /\ w.ext = e /\ w.id = row.id
  BY <1>2, Nats DEF Work, Row
<1> HIDE DEF w
<1>4. w.id <= refresh[w.ext].id
  BY <1>2, <1>3 DEF Row
<1>5. events' \in 0..MaxEvents
  BY <1>1 DEF SnapshotsInv, Shape, TypeOK
<1>6. CASE refresh'[e].status = "dead"
  BY <1>1, <1>3, <1>4, <1>5, <1>6, FailStepKeeps DEF Go
<1>7. CASE refresh'[e].status # "dead"
  <2> DEFINE v == work[p]
  <2>1. /\ v \in Work /\ v.id <= refresh[v.ext].id
        /\ pc \in [Procs -> PcNames] /\ work \in [Procs -> Work]
    BY DEF SnapshotsInv, Shape, TypeOK, PcNames, Grounded
  <2>2. pc' = [pc EXCEPT ![p] = "idle"] /\ work' = [work EXCEPT ![p] = v]
    BY <1>1, <1>7, <2>1
  <2> HIDE DEF v
  <2> QED
    BY <1>1, <1>3, <1>5, <1>7, <2>1, <2>2, FailStepKeeps
<1> QED
  BY <1>6, <1>7

-----------------------------------------------------------------------------
(* Storing a snapshot *)

\* The head changes: by an ingest, which goes on to the index when it must, or
\* by the tombstone of the dead-letter hook.
LEMMA StoreKeeps ==
  ASSUME SnapshotsInv, NEW p \in Procs, NEW e \in Externals, NEW c \in Contents,
         Store(e, c),
         UNCHANGED <<indexed, edges, refresh, site, scan, now, events, lost>>,
         NEW l \in PcNames, NEW w \in Work,
         pc' = [pc EXCEPT ![p] = l], work' = [work EXCEPT ![p] = w],
         pc[p] # "index", pc[p] = "hook" => work[p].ext = e,
         NeedsIndex(e, c) => l = "index" /\ w.at = e /\ w.content = c,
         Grounded(p)'
  PROVE  SnapshotsInv'
<1>1. /\ snaps' \in [Externals -> [Pages -> 0..MaxTime]]
      /\ head' \in [Externals -> Contents \cup {NoHead}]
      /\ okAt' \in [Externals -> 0..MaxTime]
      /\ embedded' \subseteq Externals \X Pages
      /\ \A f \in Externals : head'[f] \in Pages => snaps'[f][head'[f]] # Never
      /\ \A f \in Externals : head'[f] = IF f = e THEN c ELSE head[f]
      /\ FetchedAtIsHonest'
  BY Stored
<1>2. \A q \in Procs : q # p => pc'[q] = pc[q] /\ work'[q] = work[q]
  BY DEF SnapshotsInv, Shape, TypeOK
<1>3. pc'[p] = l /\ work'[p] = w
  BY DEF SnapshotsInv, Shape, TypeOK
<1>4. \A f \in Externals : head[f] # NoHead => head'[f] # NoHead
  BY <1>1, Nats
<1>5. Shape'
  <2>1. pc' \in [Procs -> PcNames] /\ work' \in [Procs -> Work]
    BY DEF SnapshotsInv, Shape, TypeOK, PcNames
  <2>2. \A q \in Procs : {work'[q].ext, work'[q].at} \subseteq Externals
    BY <2>1 DEF Work
  <2>3. embedded' \cup indexed' \subseteq Externals \X Contents
    BY <1>1 DEF SnapshotsInv, TombstonesStayOut, Contents
  <2> QED
    BY <1>1, <2>1, <2>2, <2>3
    DEF SnapshotsInv, Shape, TypeOK, IsLive, PcNames, site
<1>6. TombstonesStayOut'
  BY <1>1 DEF SnapshotsInv, TombstonesStayOut
<1>7. OkHeadIndexed'
  <2> SUFFICES ASSUME NEW f \in Externals, head'[f] \in Pages, head'[f] # NoHead
               PROVE  \/ <<f, head'[f]>> \in indexed' \cup lost'
                      \/ \E q \in Procs : /\ pc'[q] = "index"
                                          /\ <<work'[q].at, work'[q].content>>
                                               = <<f, head'[f]>>
    BY DEF OkHeadIndexed, OkHeads, Heads, IsOk
  <2>1. CASE f = e /\ NeedsIndex(e, c)
    BY <1>1, <1>3, <2>1
  <2>2. CASE ~(f = e /\ NeedsIndex(e, c))
    <3>1. head'[f] = head[f]
      BY <1>1, <2>2 DEF NeedsIndex, IsOk
    <3>2. \/ <<f, head[f]>> \in indexed \cup lost
          \/ \E q \in Procs : /\ pc[q] = "index"
                              /\ <<work[q].at, work[q].content>> = <<f, head[f]>>
      BY <3>1 DEF SnapshotsInv, OkHeadIndexed, OkHeads, Heads, IsOk
    <3> QED
      BY <1>2, <3>1, <3>2
  <2> QED
    BY <2>1, <2>2
<1>8. CitedResolves'
  <2>1. head'[e] # NoHead
    BY <1>1, Nats
  <2> QED
    BY <1>2, <1>4, <2>1, CitedKept DEF IsLive
<1>9. ASSUME NEW q \in Procs PROVE Grounded(q)'
  <2>1. refresh \in [Externals -> Row]
    BY DEF SnapshotsInv, Shape, TypeOK, Row
  <2>2. \A f \in Externals : refresh[f].id <= refresh'[f].id
    BY <2>1 DEF Row
  <2> QED
    BY <1>2, <1>4, <2>1, <2>2, GroundKept
<1> QED
  BY <1>1, <1>5, <1>6, <1>7, <1>8, <1>9 DEF SnapshotsInv

LEMMA IngestKeeps ==
  ASSUME SnapshotsInv, NEW p \in Procs, Ingest(p) PROVE SnapshotsInv'
<1> DEFINE e == work[p].at
           c == work[p].content
           w == work[p]
           l == IF NeedsIndex(e, c) THEN "index" ELSE AfterIngest(p)
<1>1. /\ w \in Work /\ e \in Externals /\ c \in Contents /\ Grounded(p)
      /\ work \in [Procs -> Work] /\ pc \in [Procs -> PcNames]
  BY DEF SnapshotsInv, Shape, TypeOK, Work, PcNames
<1>2. /\ pc[p] = "ingest" /\ Store(e, c) /\ pc' = [pc EXCEPT ![p] = l]
      /\ work' = [work EXCEPT ![p] = w]
      /\ UNCHANGED <<indexed, edges, refresh, site, scan, now, events, work, lost>>
  BY <1>1 DEF Ingest, Go
<1>3. l \in {"index", "repoint", "finish"}
  BY DEF AfterIngest
<1>4. head'[e] = c /\ c # NoHead
  BY <1>1, <1>2, Stored, Nats
<1>5. Grounded(p)'
  <2>1. pc'[p] = l /\ work'[p] = w
    BY <1>1, <1>2
  <2>2. l = "repoint" => w.at # w.ext
    BY DEF AfterIngest
  <2>3. l = "index" => c \in Pages
    BY DEF AfterIngest, NeedsIndex, IsOk
  <2>4. l = "finish" /\ w.id # 0 => w.at = w.ext
    BY DEF AfterIngest
  <2> HIDE DEF l
  <2> QED
    BY <1>1, <1>2, <1>4, <2>1, <2>2, <2>3, <2>4 DEF Grounded
<1>6. l \in PcNames
  BY <1>3 DEF PcNames
<1>7. NeedsIndex(e, c) => l = "index"
  OBVIOUS
<1> HIDE DEF l
<1> QED
  BY <1>1, <1>2, <1>5, <1>6, <1>7, StoreKeeps, ZenonT(30)

LEMMA HookKeeps ==
  ASSUME SnapshotsInv, NEW p \in Procs, Hook(p) PROVE SnapshotsInv'
<1> DEFINE e == work[p].ext
<1>1. /\ pc[p] = "hook" /\ e \in Externals
      /\ pc' = [pc EXCEPT ![p] = "idle"] /\ work' = [work EXCEPT ![p] = NoWork]
      /\ UNCHANGED <<edges, refresh, site, scan, now, events, lost>>
  BY DEF Hook, Leave, Go, SnapshotsInv, Shape, TypeOK
<1>2. /\ pc'[p] = "idle" /\ work'[p] = NoWork
      /\ \A q \in Procs : q # p => pc'[q] = pc[q] /\ work'[q] = work[q]
      /\ refresh \in [Externals -> Row]
  BY <1>1 DEF SnapshotsInv, Shape, TypeOK, Row
<1>3. Grounded(p)'
  BY <1>1, <1>2, IdleGrounded
<1>4. CASE Beaten(e, work[p].claimedAt)
  <2>1. UNCHANGED mirror /\ head[e] # NoHead
    BY <1>4, Nats DEF Hook, Beaten, Contents
  <2>2. Shape'
    BY <1>1, <1>2, <2>1, ProcShape, Nats
    DEF PcNames, mirror, site, SnapshotsInv, Shape, TypeOK, IsLive
  <2>3. FetchedAtIsHonest' /\ TombstonesStayOut' /\ OkHeadIndexed'
    BY <1>1, <1>2, <2>1, MirrorKept DEF mirror, SnapshotsInv, TombstonesStayOut
  <2>4. CitedResolves'
    BY <1>1, <1>2, <2>1, CitedKept DEF mirror, IsLive
  <2>5. ASSUME NEW q \in Procs PROVE Grounded(q)'
    <3>1. \A f \in Externals : refresh[f].id <= refresh'[f].id
      BY <1>1, <1>2 DEF Row
    <3> QED
      BY <1>1, <1>2, <1>3, <2>1, <3>1, GroundKept DEF mirror
  <2> QED
    BY <2>2, <2>3, <2>4, <2>5 DEF SnapshotsInv
<1>5. CASE ~Beaten(e, work[p].claimedAt)
  <2>1. Store(e, Dead) /\ UNCHANGED indexed
    BY <1>5 DEF Hook
  <2>2. ~NeedsIndex(e, Dead) /\ Dead \in Contents
    BY Nats DEF NeedsIndex, IsOk, Contents
  <2> QED
    BY <1>1, <1>3, <2>1, <2>2, Nats, StoreKeeps DEF PcNames
<1> QED
  BY <1>4, <1>5

-----------------------------------------------------------------------------
(* The index, the edges, and the end of a refresh *)

LEMMA IndexKeeps ==
  ASSUME SnapshotsInv, NEW p \in Procs, Index(p) PROVE SnapshotsInv'
<1> DEFINE w == work[p]
           s == <<w.at, w.content>>
           l == AfterIngest(p)
<1>1. /\ pc[p] = "index" /\ indexed' = indexed \cup {s} /\ lost' = lost \ {s}
      /\ UNCHANGED <<snaps, head, embedded, okAt, returned, edges, refresh,
                     site, scan, now, work, events>>
  BY DEF Index
<1>2. /\ w \in Work /\ Grounded(p) /\ w.content \in Pages /\ w.at \in Externals
      /\ s \in Externals \X Pages
  BY <1>1 DEF SnapshotsInv, Shape, Grounded, Work
<1>3. pc' = [pc EXCEPT ![p] = l] /\ l \in {"repoint", "finish"}
  BY DEF Index, Go, AfterIngest
<1>4. l = "repoint" => w.at # w.ext
  BY DEF AfterIngest
<1>5. l = "finish" /\ w.id # 0 => w.at = w.ext
  BY DEF AfterIngest
<1> HIDE DEF l
<1>6. /\ pc'[p] = l /\ \A q \in Procs : q # p => pc'[q] = pc[q]
      /\ pc' \in [Procs -> PcNames] /\ refresh \in [Externals -> Row]
  BY <1>3 DEF SnapshotsInv, Shape, TypeOK, PcNames, Row
<1>7. Shape'
  BY <1>1, <1>2, <1>6
  DEF SnapshotsInv, Shape, TypeOK, IsLive, PcNames, site, Contents
<1>8. FetchedAtIsHonest' /\ TombstonesStayOut'
  BY <1>1, <1>2 DEF SnapshotsInv, FetchedAtIsHonest, TombstonesStayOut
<1>9. OkHeadIndexed'
  <2>1. OkHeads' = OkHeads
    BY <1>1 DEF OkHeads, Heads, IsOk
  <2> SUFFICES ASSUME NEW h \in OkHeads
               PROVE  \/ h \in indexed' \cup lost'
                      \/ \E q \in Procs : /\ pc'[q] = "index"
                                          /\ <<work'[q].at, work'[q].content>> = h
    BY <2>1 DEF OkHeadIndexed
  <2>2. CASE h = s
    BY <1>1, <2>2
  <2>3. CASE h # s
    BY <1>1, <1>6, <2>3 DEF SnapshotsInv, OkHeadIndexed
  <2> QED
    BY <2>2, <2>3
<1>10. \A e \in Externals : /\ <<e, NoHead>> # s /\ <<e, Dead>> # s
  BY <1>2, Nats DEF Contents
<1>11. CitedResolves'
  BY <1>1, <1>6, <1>10, CitedKept DEF IsLive
<1>12. ASSUME NEW q \in Procs PROVE Grounded(q)'
  <2>1. \A f \in Externals : refresh[f].id <= refresh'[f].id
    BY <1>1, <1>6 DEF Row
  <2>2. CASE q = p
    BY <1>1, <1>2, <1>3, <1>4, <1>5, <1>6, <2>2 DEF Grounded
  <2>3. CASE q # p
    BY <1>1, <1>6, <1>10, <2>1, <2>3, GroundKept
  <2> QED
    BY <2>2, <2>3
<1> QED
  BY <1>7, <1>8, <1>9, <1>11, <1>12 DEF SnapshotsInv

\* Edges go only to a URL that has a head, and leave the old one bare.
LEMMA RepointKeeps ==
  ASSUME SnapshotsInv, NEW p \in Procs, Repoint(p) PROVE SnapshotsInv'
<1> DEFINE old == work[p].ext
           new == work[p].at
           w == work[p]
<1>1. /\ pc[p] = "repoint" /\ pc' = [pc EXCEPT ![p] = "finish"]
      /\ edges' = [edges EXCEPT ![old] = 0, ![new] = @ + edges[old]]
      /\ UNCHANGED <<mirror, refresh, site, scan, now, work, events, lost>>
  BY DEF Repoint, Go
<1>2. /\ w \in Work /\ old \in Externals /\ new \in Externals /\ old # new
      /\ head[new] # NoHead /\ work \in [Procs -> Work] /\ Grounded(p)
      /\ edges \in [Externals -> Nat] /\ refresh \in [Externals -> Row]
  BY <1>1 DEF SnapshotsInv, Shape, TypeOK, Work, Grounded, Row
<1>3. /\ edges' \in [Externals -> Nat] /\ edges'[old] = 0
      /\ \A f \in Externals : f \notin {old, new} => edges'[f] = edges[f]
  BY <1>1, <1>2
<1>4. /\ \A q \in Procs : q # p => pc'[q] = pc[q]
      /\ pc'[p] = "finish" /\ work' = [work EXCEPT ![p] = w]
  BY <1>1, <1>2 DEF SnapshotsInv, Shape, TypeOK
<1>5. Shape'
  BY <1>1, <1>2, <1>3, <1>4, ProcShape
  DEF mirror, site, PcNames, SnapshotsInv, Shape, TypeOK, IsLive
<1>6. FetchedAtIsHonest' /\ TombstonesStayOut' /\ OkHeadIndexed'
  BY <1>1, <1>4, MirrorKept DEF mirror, SnapshotsInv, TombstonesStayOut
<1>7. CitedResolves'
  <2>1. \A f \in Externals : edges'[f] > 0 => edges[f] > 0 \/ head'[f] # NoHead
    BY <1>1, <1>2, <1>3 DEF mirror
  <2> QED
    BY <1>1, <1>4, <2>1, CitedKept DEF mirror, IsLive
<1>8. ASSUME NEW q \in Procs PROVE Grounded(q)'
  <2>1. \A f \in Externals : refresh[f].id <= refresh'[f].id
    BY <1>1, <1>2 DEF Row
  <2>2. CASE q = p
    BY <1>1, <1>2, <1>3, <1>4, <2>2 DEF Grounded, mirror
  <2>3. CASE q # p
    <3>1. work[q].ext \in Externals
      BY DEF SnapshotsInv, Shape, Work
    <3>2. \/ edges'[work[q].ext] = 0 \/ edges'[work[q].ext] = edges[work[q].ext]
          \/ head'[work[q].ext] # NoHead
      BY <1>1, <1>2, <1>3, <3>1 DEF mirror
    <3> QED
      BY <1>1, <1>2, <1>4, <2>1, <2>3, <3>2, GroundKept DEF mirror
  <2> QED
    BY <2>2, <2>3
<1> QED
  BY <1>5, <1>6, <1>7, <1>8 DEF SnapshotsInv

\* A row that is done was not all that an edge had to hope for.
LEMMA FinishKeeps ==
  ASSUME SnapshotsInv, NEW p \in Procs, Finish(p) PROVE SnapshotsInv'
<1> DEFINE w == work[p]
           e == w.ext
<1>1. /\ pc[p] = "finish" /\ pc' = [pc EXCEPT ![p] = "idle"]
      /\ work' = [work EXCEPT ![p] = NoWork]
      /\ IF w.id # 0 /\ refresh[e].id = w.id
         THEN refresh' = [refresh EXCEPT ![e].status = "done"]
         ELSE UNCHANGED refresh
      /\ UNCHANGED <<mirror, edges, site, scan, now, events, lost>>
  BY DEF Finish, Leave, Go
<1>2. /\ w \in Work /\ e \in Externals /\ refresh \in [Externals -> Row] /\ Grounded(p)
      /\ \A q \in Procs : q # p => pc'[q] = pc[q] /\ work'[q] = work[q]
      /\ pc'[p] = "idle" /\ work'[p] = NoWork
  BY <1>1 DEF SnapshotsInv, Shape, TypeOK, Row, Work
<1>3. /\ refresh' \in [Externals -> Row]
      /\ \A f \in Externals : refresh'[f].id = refresh[f].id
      /\ \A f \in Externals : IsLive(f)' => IsLive(f) /\ refresh'[f] = refresh[f]
      /\ \A f \in Externals : IsLive(f) /\ ~IsLive(f)' =>
           f = e /\ w.id # 0 /\ refresh[e].id = w.id
  <2>1. CASE w.id # 0 /\ refresh[e].id = w.id
    <3> DEFINE row == [refresh[e] EXCEPT !.status = "done"]
    <3>1. row \in Row /\ row.id = refresh[e].id /\ row.status = "done"
      BY <1>2 DEF Row
    <3>2. refresh' = [refresh EXCEPT ![e] = row]
      BY <1>1, <2>1
    <3> HIDE DEF row
    <3> QED
      BY <1>2, <2>1, <3>1, <3>2 DEF IsLive
  <2>2. CASE ~(w.id # 0 /\ refresh[e].id = w.id)
    BY <1>1, <1>2, <2>2 DEF IsLive
  <2> QED
    BY <2>1, <2>2
<1>4. Shape'
  BY <1>1, <1>2, <1>3, Nats, ProcShape
  DEF PcNames, mirror, site, SnapshotsInv, Shape, TypeOK
<1>5. FetchedAtIsHonest' /\ TombstonesStayOut' /\ OkHeadIndexed'
  BY <1>1, <1>2, MirrorKept DEF mirror, SnapshotsInv, TombstonesStayOut
<1>6. CitedResolves'
  <2>1. w.id # 0 /\ refresh[e].id = w.id =>
          head[e] # NoHead \/ edges[e] = 0 \/ <<e, NoHead>> \in lost
    BY <1>1, <1>2 DEF Grounded, Row
  <2> QED
    BY <1>1, <1>2, <1>3, <2>1, CitedKept DEF mirror
<1>7. ASSUME NEW q \in Procs PROVE Grounded(q)'
  <2>1. \A f \in Externals : refresh[f].id <= refresh'[f].id
    BY <1>2, <1>3 DEF Row
  <2>2. CASE q = p
    BY <1>2, <1>3, <2>2, IdleGrounded
  <2>3. CASE q # p
    BY <1>1, <1>2, <1>3, <2>1, <2>3, GroundKept DEF mirror
  <2> QED
    BY <2>2, <2>3
<1> QED
  BY <1>4, <1>5, <1>6, <1>7 DEF SnapshotsInv

-----------------------------------------------------------------------------

LEMMA NextSnapshotsInv == SnapshotsInv /\ [Next]_vars => SnapshotsInv'
<1> SUFFICES ASSUME SnapshotsInv, [Next]_vars PROVE SnapshotsInv'
  OBVIOUS
<1>1. CASE \E e \in Pasted : Room({e}) /\ EdgeRoom /\ Save(e)
  BY <1>1, SaveKeeps, SnapshotsAssumption
<1>2. CASE Room(scan.found) /\ Sweep
  BY <1>2, SweepKeeps
<1>3. CASE \/ EmbedGap \/ Move \/ Tick \/ Scan
           \/ \E s \in embedded : EmbedDies(s)
           \/ \E c \in Pages \cup {Gone} : Publish(c)
  BY <1>3, QuietStepsKeep
<1>4. CASE \E p \in Procs, e \in Externals : Claim(p, e) \/ Ask(p, e) \/ Reclaim(p, e)
  BY <1>4, ClaimKeeps, AskKeeps, ReclaimKeeps
<1>5. CASE \E p \in Procs :
             \/ Fetch(p) \/ HandlerRaises(p) \/ Ingest(p) \/ Index(p) \/ Repoint(p)
             \/ Finish(p) \/ Hook(p) \/ Dies(p)
  BY <1>5, FetchKeeps, HandlerRaisesKeeps, IngestKeeps, IndexKeeps, RepointKeeps,
     FinishKeeps, HookKeeps, DiesKeeps
<1>6. CASE UNCHANGED vars
  <2>1. events' \in 0..MaxEvents /\ now' \in 1..MaxTime /\ scan' \in ScanRead
    BY <1>6 DEF vars, SnapshotsInv, Shape, TypeOK, ScanRead
  <2> QED
    BY <1>6, <2>1, WorldKeeps
    DEF vars, SnapshotsInv, Shape, TypeOK, TombstonesStayOut
<1> QED
  BY <1>1, <1>2, <1>3, <1>4, <1>5, <1>6 DEF Next

\* Every reachable state satisfies the inductive invariant.
THEOREM SnapshotsInvariant == Spec => []SnapshotsInv
  BY InitSnapshotsInv, NextSnapshotsInv, PTL DEF Spec

\* The mirror and the workers' memory keep their types; in particular no
\* refresh is tried more often than settings.retry_max_attempts.
THEOREM SnapshotsTypeCorrect == Spec => []TypeOK
<1>1. SnapshotsInv => TypeOK
  BY DEF SnapshotsInv, Shape
<1> QED
  BY <1>1, SnapshotsInvariant, PTL

\* A note's edge always leads to something: a snapshot, a refresh that is live,
\* a tombstone about to be written, or one of the two losses named.
THEOREM EdgesResolve == Spec => []CitedResolves
<1>1. SnapshotsInv => CitedResolves
  BY DEF SnapshotsInv
<1> QED
  BY <1>1, SnapshotsInvariant, PTL

\* The page at the head is in the index, or on its way, or its indexing died.
THEOREM HeadsAreIndexed == Spec => []OkHeadIndexed
<1>1. SnapshotsInv => OkHeadIndexed
  BY DEF SnapshotsInv
<1> QED
  BY <1>1, SnapshotsInvariant, PTL

\* No tombstone is ever embedded or indexed.
THEOREM TombstonesOut == Spec => []TombstonesStayOut
<1>1. SnapshotsInv => TombstonesStayOut
  BY DEF SnapshotsInv
<1> QED
  BY <1>1, SnapshotsInvariant, PTL

\* Only the hook writes a tombstone of a dead refresh, and only where no
\* success is known since the claim.
LEMMA BurialIsTimely ==
  ASSUME SnapshotsInv, [Next]_vars, NEW p \in Procs, Buries(p), IsLate(p)
  PROVE  work[p].ext \in returned
<1> DEFINE e == work[p].ext
<1>1. /\ work[p] \in Work /\ e \in Externals /\ pc \in [Procs -> PcNames]
      /\ work[p].claimedAt \in 0..MaxTime
      /\ head[e] \in Pages /\ snaps[e][head[e]] \in 0..MaxTime
      /\ head'[e] # head[e]
  BY Nats DEF Buries, IsOk, SnapshotsInv, Shape, TypeOK, Work, PcNames
<1>2. PICK q \in Procs : Ingest(q) \/ Hook(q)
  <2>1. ~UNCHANGED head
    BY <1>1
  <2>2. ASSUME NEW q \in Procs,
               \/ Fetch(q) \/ HandlerRaises(q) \/ Index(q) \/ Repoint(q)
               \/ Finish(q) \/ Dies(q)
        PROVE  UNCHANGED head
    BY <2>2 DEF Fetch, HandlerRaises, Index, Repoint, Finish, Dies, mirror
  <2>3. ASSUME NEW q \in Procs, NEW f \in Externals,
               Claim(q, f) \/ Ask(q, f) \/ Reclaim(q, f)
        PROVE  UNCHANGED head
    BY <2>3 DEF Claim, Ask, Reclaim, mirror
  <2>4. ASSUME \/ \E f \in Pasted : Room({f}) /\ EdgeRoom /\ Save(f)
               \/ Scan \/ Sweep \/ EmbedGap
               \/ \E s \in embedded : EmbedDies(s)
               \/ \E c \in Pages \cup {Gone} : Publish(c)
               \/ Move \/ Tick \/ UNCHANGED vars
        PROVE  UNCHANGED head
    BY <2>4
    DEF Save, Scan, Sweep, EmbedGap, EmbedDies, Publish, Move, Tick, mirror, vars
  <2> QED
    BY <2>1, <2>2, <2>3, <2>4 DEF Next
<1>3. pc[p] = "hook" /\ pc'[p] = "idle"
  BY DEF Buries
<1>4. q = p
  BY <1>1, <1>2, <1>3 DEF Ingest, Hook, Leave, Go
<1>5. Hook(p)
  BY <1>2, <1>3, <1>4 DEF Ingest
<1>6. ~Beaten(e, work[p].claimedAt)
  BY <1>1, <1>5 DEF Hook, mirror
<1>7. snaps[e][head[e]] < work[p].claimedAt
  BY <1>1, <1>6 DEF Beaten
<1>8. okAt[e] # snaps[e][head[e]]
  <2>1. okAt[e] >= work[p].claimedAt
    BY DEF IsLate
  <2> QED
    BY <1>1, <1>7, <2>1
<1> QED
  BY <1>1, <1>8 DEF SnapshotsInv, FetchedAtIsHonest

\* A refresh that was fetched after all is not buried, but for a page that came
\* back as it was before another head.
THEOREM LateSuccessIsKept == Spec => LateSuccessKeptUnlessReturned
<1>1. SnapshotsInv /\ [Next]_vars =>
        [\A p \in Procs : Buries(p) /\ IsLate(p) => work[p].ext \in returned]_vars
  BY BurialIsTimely
<1> QED
  BY <1>1, SnapshotsInvariant, PTL DEF Spec, LateSuccessKeptUnlessReturned

\* What a scan has found stale was so when it read it, and is so still unless
\* something was ingested since.
ScanIsHonest ==
  /\ scan.at \in 0..now
  /\ \A e \in scan.found :
       \/ okAt[e] + Ttl <= now \/ scan.at <= okAt[e]
       \/ ~IsOk(head[e]) \/ e \in returned

\* Nothing but an ingest touches the heads, and the clock does not go back.
LEMMA HeadsMove ==
  ASSUME SnapshotsInv, [Next]_vars
  PROVE  \/ Scan \/ Sweep
         \/ UNCHANGED <<head, okAt, returned, scan>> /\ now' \in Nat /\ now <= now'
         \/ /\ UNCHANGED <<now, scan>>
            /\ \E e \in Externals, c \in Contents : Store(e, c)
<1> DEFINE Still == UNCHANGED <<head, okAt, returned, scan>> /\ now' \in Nat /\ now <= now'
<1>1. now \in Nat
  BY DEF SnapshotsInv, Shape, TypeOK
<1>2. ASSUME NEW q \in Procs,
             \/ Fetch(q) \/ HandlerRaises(q) \/ Index(q) \/ Repoint(q)
             \/ Finish(q) \/ Dies(q)
      PROVE  Still
  BY <1>1, <1>2 DEF Fetch, HandlerRaises, Index, Repoint, Finish, Dies, mirror
<1>3. ASSUME NEW q \in Procs, NEW f \in Externals,
             Claim(q, f) \/ Ask(q, f) \/ Reclaim(q, f)
      PROVE  Still
  BY <1>1, <1>3 DEF Claim, Ask, Reclaim, mirror
<1>4. ASSUME \/ \E f \in Pasted : Save(f)
             \/ EmbedGap
             \/ \E s \in embedded : EmbedDies(s)
             \/ \E c \in Pages \cup {Gone} : Publish(c)
             \/ Move \/ Tick \/ UNCHANGED vars
      PROVE  Still
  <2>1. UNCHANGED <<head, okAt, returned, scan>>
    BY <1>4 DEF Save, EmbedGap, EmbedDies, Publish, Move, Tick, mirror, vars
  <2>2. now' = now \/ now' = now + 1
    BY <1>4 DEF Save, EmbedGap, EmbedDies, Publish, Move, Tick, vars
  <2> QED
    BY <1>1, <2>1, <2>2
<1>5. ASSUME NEW q \in Procs, Ingest(q)
      PROVE  UNCHANGED <<now, scan>> /\ \E e \in Externals, c \in Contents : Store(e, c)
  <2>1. work[q].at \in Externals /\ work[q].content \in Contents
    BY DEF SnapshotsInv, Shape, Work
  <2> QED
    BY <1>5, <2>1 DEF Ingest
<1>6. ASSUME NEW q \in Procs, Hook(q)
      PROVE  \/ Still
             \/ /\ UNCHANGED <<now, scan>>
                /\ \E e \in Externals, c \in Contents : Store(e, c)
  <2>1. work[q].ext \in Externals /\ Dead \in Contents
    BY DEF SnapshotsInv, Shape, Work, Contents
  <2> QED
    BY <1>1, <1>6, <2>1 DEF Hook, mirror
<1> QED
  BY <1>2, <1>3, <1>4, <1>5, <1>6 DEF Next

LEMMA ScanStaysHonest ==
  ASSUME SnapshotsInv, ScanIsHonest, [Next]_vars PROVE ScanIsHonest'
<1>1. /\ now \in 1..MaxTime /\ scan \in ScanRead /\ Ttl \in Nat
      /\ okAt \in [Externals -> 0..MaxTime]
  BY Nats DEF SnapshotsInv, Shape, TypeOK, ScanRead
<1>2. CASE Scan
  <2>1. scan' = [found |-> Stale, at |-> now] /\ UNCHANGED <<head, okAt, returned, now>>
    BY <1>2 DEF Scan, mirror
  <2>2. \A e \in Stale : okAt[e] + Ttl <= now \/ e \in returned
    BY DEF Stale, SnapshotsInv, FetchedAtIsHonest
  <2> QED
    BY <1>1, <2>1, <2>2 DEF ScanIsHonest
<1>3. CASE Sweep
  BY <1>1, <1>3 DEF Sweep, NoScan, Never, ScanIsHonest
<1>4. CASE UNCHANGED <<head, okAt, returned, scan>> /\ now' \in Nat /\ now <= now'
  <2> SUFFICES ASSUME NEW e \in scan.found
               PROVE  \/ okAt[e] + Ttl <= now' \/ scan.at <= okAt[e]
                      \/ ~IsOk(head[e]) \/ e \in returned
    BY <1>1, <1>4 DEF ScanIsHonest, ScanRead, IsOk
  <2>1. okAt[e] \in Nat
    BY <1>1 DEF ScanRead
  <2> QED
    BY <1>1, <1>4, <2>1 DEF ScanIsHonest
<1>5. ASSUME UNCHANGED <<now, scan>>, NEW e \in Externals, NEW c \in Contents, Store(e, c)
      PROVE  ScanIsHonest'
  <2>1. \A f \in Externals : f # e =>
          head'[f] = head[f] /\ okAt'[f] = okAt[f] /\ (f \in returned <=> f \in returned')
    BY <1>5 DEF Store
  <2>2. IsOk(c) => okAt'[e] = now
    BY <1>1, <1>5 DEF Store
  <2>3. head'[e] = c
    BY <1>5 DEF Store, SnapshotsInv, Shape, TypeOK
  <2> QED
    BY <1>1, <1>5, <2>1, <2>2, <2>3 DEF ScanIsHonest, ScanRead, IsOk
<1> QED
  BY <1>2, <1>3, <1>4, <1>5, HeadsMove

\* The scan refreshes an external only when its last successful fetch is a TTL
\* old, unless something was ingested between its reading of the store and its
\* writing of the jobs; and but for a page that came back.
THEOREM SweepKeepsCadence == Spec => SweepCadence
<1>1. Init => ScanIsHonest
  BY DEF Init, ScanIsHonest, NoScan, Never
<1>2. SnapshotsInv /\ ScanIsHonest /\ [Next]_vars => ScanIsHonest'
  BY ScanStaysHonest
<1>3. SnapshotsInv /\ ScanIsHonest /\ [Next]_vars =>
        [\A e \in Externals :
           refresh'[e].id # refresh[e].id /\ edges' = edges
             => \/ okAt[e] + Ttl <= now
                \/ scan.at <= okAt[e] \/ ~IsOk(head[e])
                \/ e \in returned]_vars
  <2> SUFFICES ASSUME SnapshotsInv, ScanIsHonest, [Next]_vars, NEW e \in Externals,
                      refresh'[e].id # refresh[e].id, edges' = edges
               PROVE  \/ okAt[e] + Ttl <= now
                      \/ scan.at <= okAt[e] \/ ~IsOk(head[e])
                      \/ e \in returned
    OBVIOUS
  <2>1. refresh \in [Externals -> Row] /\ work \in [Procs -> Work]
    BY DEF SnapshotsInv, Shape, TypeOK, Row
  <2>2. CASE Sweep
    <3>1. e \in scan.found
      BY <2>2 DEF Sweep, Enqueue
    <3> QED
      BY <3>1 DEF ScanIsHonest
  <2>3. ASSUME NEW f \in Pasted, Save(f) PROVE FALSE
    <3>1. f \in Externals /\ edges \in [Externals -> Nat]
      BY SnapshotsAssumption DEF SnapshotsInv, Shape, TypeOK
    <3>2. edges[f] = 0 /\ edges' = [edges EXCEPT ![f] = 1]
      BY <2>3 DEF Save
    <3> QED
      BY <3>1, <3>2
  <2>4. ASSUME NEW f \in Externals, NEW w \in Work, FailClaim(f, w) PROVE FALSE
    BY <2>4, Failed
  <2>5. ASSUME NEW q \in Procs, NEW f \in Externals, Claim(q, f) PROVE FALSE
    BY <2>1, <2>5 DEF Claim, Row
  <2>6. ASSUME NEW q \in Procs, NEW f \in Externals, Reclaim(q, f) PROVE FALSE
    <3> DEFINE row == refresh[f]
               w == [NoWork EXCEPT !.ext = f, !.id = row.id,
                                   !.claimedAt = row.claimedAt, !.attempts = row.attempts]
    <3>1. row.status = "running" /\ FailClaim(f, w)
      BY <2>6 DEF Reclaim
    <3>2. row \in Row /\ row.attempts \in 0..(MaxAttempts - 1)
      <4>1. row \in Row /\ row.attempts < MaxAttempts
        BY <2>1, <3>1 DEF SnapshotsInv, Shape, IsLive
      <4> QED
        BY <4>1, Nats DEF Row
    <3>3. w \in Work
      BY <3>2, Nats DEF Work, Row
    <3> HIDE DEF w
    <3> QED
      BY <2>4, <3>1, <3>3
  <2>7. ASSUME NEW q \in Procs, HandlerRaises(q) PROVE FALSE
    BY <2>1, <2>4, <2>7 DEF HandlerRaises, Work
  <2>8. ASSUME NEW q \in Procs, Finish(q) PROVE FALSE
    BY <2>1, <2>8 DEF Finish, Row
  <2>9. UNCHANGED refresh => FALSE
    OBVIOUS
  <2>10. ASSUME NEW q \in Procs,
                \/ Fetch(q) \/ Ingest(q) \/ Index(q) \/ Repoint(q) \/ Hook(q)
                \/ Dies(q) \/ \E f \in Externals : Ask(q, f)
         PROVE  FALSE
    BY <2>9, <2>10 DEF Fetch, Ingest, Index, Repoint, Hook, Dies, Ask
  <2>11. ASSUME \/ EmbedGap
                \/ \E s \in embedded : EmbedDies(s)
                \/ \E c \in Pages \cup {Gone} : Publish(c)
                \/ Move \/ Tick \/ Scan \/ UNCHANGED vars
         PROVE  FALSE
    BY <2>9, <2>11 DEF EmbedGap, EmbedDies, Publish, Move, Tick, Scan, vars
  <2> QED
    BY <2>2, <2>3, <2>5, <2>6, <2>7, <2>8, <2>10, <2>11 DEF Next
<1> QED
  BY <1>1, <1>2, <1>3, SnapshotsInvariant, PTL DEF Spec, SweepCadence
=============================================================================
