----------------------------- MODULE Retrieval -----------------------------
(***************************************************************************)
(* One question on its way through the read pipeline, while the notes and  *)
(* the mirror it reads keep changing: heads, the two legs, rank fusion,    *)
(* the cross-encoder, parent blocks, the graph hop, the trust gradient and *)
(* the pinned note.                                                        *)
(*                                                                         *)
(* Every stage reads the database in a statement of its own, so each is a  *)
(* step. A content is <<node, version>>, a node being a note or an         *)
(* external; a passage is <<node, version, place>>. What the user's words  *)
(* match, how near a vector is and what the cross-encoder thinks are not   *)
(* known: each leg and each rerank is any order it may come in.            *)
(***************************************************************************)
EXTENDS Naturals, Sequences, FiniteSets, SequencesExt

CONSTANTS
  Notes,       \* note ids
  Externals,   \* external ids
  Places,      \* Places[n]: how many passages a content of n has
  Edges,       \* the rows the edges table may hold: [from, to, source]
  TopK,        \* retrieval_top_k
  KeepN,       \* rerank_keep_n
  RrfK,        \* rrf_k
  Hops,        \* drawdown_hop_limit
  Limit,       \* related_notes_limit
  MaxVersions, \* bound: contents of a node
  MaxChanges   \* bound: writes to the store before and during a question

Nodes == Notes \cup Externals

ASSUME RetrievalAssumption ==
  /\ Notes \cap Externals = {} /\ Places \in [Nodes -> Nat \ {0}]
  /\ Edges \subseteq [from : Notes, to : Nodes, source : {"user", "ai"}]
  /\ {TopK, KeepN, RrfK, Limit, MaxVersions} \subseteq Nat \ {0}
  /\ {Hops, MaxChanges} \subseteq Nat /\ IsFiniteSet(Nodes)

Contents == Nodes \X (1..MaxVersions)
PassagesOf(c) == {<<c[1], c[2], i>> : i \in 1..Places[c[1]]}
ContentOf(p) == <<p[1], p[2]>>

VARIABLES
  head,      \* the number of each node's head
  alive,     \* the head is no tombstone
  indexed,   \* contents with rows in passages and in passages_fts
  embedded,  \* contents with vectors
  edges,     \* the fresh rows of the edges table
  changes,   \* writes so far
  step,      \* the stage the question has come to
  mode,      \* which caller it is: ask, or the related notes
  scope,     \* the live heads the next search is limited to
  lexical,   \* the hits of the lexical leg, best first
  dense,     \* the hits of the dense leg, best first
  hits,      \* the passages kept, best first
  graph,     \* the edges read
  reached,   \* the live heads the graph leads to
  context,   \* the result
  seen       \* history: contents that were a live head since the question

retrievalVars == <<head, alive, indexed, embedded, edges, changes, step, mode,
                   scope, lexical, dense, hits, graph, reached, context, seen>>
store == <<head, alive, indexed, embedded, edges, changes, seen>>
legs == <<scope, lexical, dense>>
tail == <<hits, graph, reached, context>>

-----------------------------------------------------------------------------
(* Lists: what is found has an order, and what is left of it keeps it *)

Lesser(a, b) == IF a < b THEN a ELSE b
Orders(S, n) == {s \in [1..n -> S] : \A i, j \in 1..n : i # j => s[i] # s[j]}
Lists(S) == Orders(S, Cardinality(S))
Rank(s, x) == CHOOSE i \in DOMAIN s : s[i] = x

\* The members of S as a list: the k-th has k - 1 before it.
InOrder(S, before) ==
  [k \in 1..Cardinality(S) |->
     CHOOSE x \in S : Cardinality({y \in S : <<y, x>> \in before}) = k - 1]

\* What is left of the list s when only the members of S are kept.
Kept(s, S) == InOrder(S, {pair \in S \X S : Rank(s, pair[1]) < Rank(s, pair[2])})

Cut(s, n) == [i \in 1..Lesser(n, Len(s)) |-> s[i]]

-----------------------------------------------------------------------------
LiveHeads == {<<n, head[n]>> : n \in {m \in Nodes : alive[m]}}

RetrievalInit ==
  /\ head = [n \in Nodes |-> 1] /\ alive = [n \in Nodes |-> TRUE]
  /\ indexed = LiveHeads /\ embedded = LiveHeads
  /\ edges = Edges /\ changes = 0
  /\ step = "idle" /\ mode = "ask"
  /\ scope = {} /\ lexical = <<>> /\ dense = <<>> /\ hits = <<>>
  /\ graph = {} /\ reached = {} /\ context = <<>> /\ seen = {}

-----------------------------------------------------------------------------
(* The store changes under the question *)

Writes ==
  /\ changes < MaxChanges /\ changes' = changes + 1
  /\ UNCHANGED <<step, mode>> /\ UNCHANGED legs /\ UNCHANGED tail

Sees == seen' = IF step = "idle" THEN {}
                ELSE seen \cup {<<n, head'[n]>> : n \in {m \in Nodes : alive'[m]}}

\* A save commits a head; its rows come later.
Save(n) ==
  /\ Writes /\ alive[n] /\ head[n] < MaxVersions
  /\ head' = [head EXCEPT ![n] = @ + 1]
  /\ UNCHANGED <<alive, indexed, embedded, edges>> /\ Sees

\* An ingest commits a head, over a tombstone too; its rows come later.
Ingest(e) ==
  /\ Writes /\ head[e] < MaxVersions
  /\ head' = [head EXCEPT ![e] = @ + 1] /\ alive' = [alive EXCEPT ![e] = TRUE]
  /\ Sees /\ UNCHANGED <<indexed, embedded, edges>>

\* The rows of what was the head stay: a delete evicts only the tombstone's.
Bury(n) ==
  /\ Writes /\ alive[n] /\ head[n] < MaxVersions
  /\ head' = [head EXCEPT ![n] = @ + 1] /\ alive' = [alive EXCEPT ![n] = FALSE]
  /\ Sees /\ UNCHANGED <<indexed, embedded, edges>>

Index(c) ==
  /\ Writes /\ c \in LiveHeads \ indexed /\ indexed' = indexed \cup {c}
  /\ UNCHANGED <<head, alive, embedded, edges, seen>>

Embed(c) ==
  /\ Writes /\ c \in indexed \ embedded /\ embedded' = embedded \cup {c}
  /\ UNCHANGED <<head, alive, indexed, edges, seen>>

\* An edge goes stale, or is inferred or drawn.
Relink(e) ==
  /\ Writes
  /\ edges' = IF e \in edges THEN edges \ {e} ELSE edges \cup {e}
  /\ UNCHANGED <<head, alive, indexed, embedded, seen>>

-----------------------------------------------------------------------------
(* The two legs *)

PassagesIn(cs) == UNION {PassagesOf(c) : c \in cs}

\* Who asks, and about which note, is left open until it makes a difference.
Asks ==
  /\ step = "idle" /\ step' = "lexical"
  /\ scope' = LiveHeads /\ seen' = LiveHeads
  /\ UNCHANGED <<head, alive, indexed, embedded, edges, changes, mode,
                 lexical, dense>>
  /\ UNCHANGED tail

\* Any of the passages in scope match, or none: no word, or no match.
Lexical ==
  /\ step = "lexical" /\ step' = "rescope"
  /\ LET matching == PassagesIn(scope \cap indexed) IN
     \E n \in 0..Lesser(TopK, Cardinality(matching)) :
       lexical' \in Orders(matching, n)
  /\ UNCHANGED <<mode, scope, dense>> /\ UNCHANGED store
  /\ UNCHANGED tail

Rescope ==
  /\ step = "rescope" /\ step' = "dense" /\ scope' = LiveHeads
  /\ UNCHANGED <<mode, lexical, dense>> /\ UNCHANGED store
  /\ UNCHANGED tail

\* Slip: the where clause is left out of the vector query.
Unscoped(cs) == embedded

\* The contents the dense leg may answer from.
Scoped(cs) == cs \cap embedded

\* Always the TopK nearest, however far.
Dense ==
  /\ step = "dense" /\ step' = "fuse"
  /\ LET near == PassagesIn(Scoped(scope)) IN
     dense' \in Orders(near, Lesser(TopK, Cardinality(near)))
  /\ UNCHANGED <<mode, scope, lexical>> /\ UNCHANGED store
  /\ UNCHANGED tail

-----------------------------------------------------------------------------
(* Fusion and rerank *)

\* 1 / (RrfK + rank), in units that keep every such fraction whole.
Unit == LET upTo[i \in 0..TopK] ==
              IF i = 0 THEN 1 ELSE upTo[i - 1] * (RrfK + i) IN upTo[TopK]
Weight(leg, p) ==
  IF p \in ToSet(leg) THEN Unit \div (RrfK + Rank(leg, p)) ELSE 0
Score(p) == Weight(lexical, p) + Weight(dense, p)

\* First seen first, the lexical leg before the dense one.
Arrival(p, q) ==
  IF p \in ToSet(lexical)
    THEN q \in ToSet(lexical) => Rank(lexical, p) < Rank(lexical, q)
    ELSE q \notin ToSet(lexical) /\ Rank(dense, p) < Rank(dense, q)

Better(p, q) ==
  \/ Score(p) > Score(q)
  \/ Score(p) = Score(q) /\ Arrival(p, q)

Hits == ToSet(lexical) \cup ToSet(dense)
Fused == InOrder(Hits, {pair \in Hits \X Hits : Better(pair[1], pair[2])})
TopFused == Cut(Fused, TopK)
WithRows(s) == Kept(s, {p \in ToSet(s) : ContentOf(p) \in indexed})

\* The cross-encoder puts what it can read in any order and keeps KeepN. An
\* ask may have it turned off, the related notes never use it.
Rerank ==
  /\ step = "fuse" /\ step' = "expand"
  /\ \/ /\ mode' = "ask"
        /\ LET S == ToSet(WithRows(TopFused)) IN
           hits' \in Orders(S, Lesser(KeepN, Cardinality(S)))
     \/ mode' \in {"ask", "related"} /\ hits' = TopFused
  /\ scope' = {} /\ lexical' = <<>> /\ dense' = <<>>
  /\ UNCHANGED <<graph, reached, context>> /\ UNCHANGED store

\* expand_parents drops a hit with no row.
Expand ==
  /\ step = "expand" /\ step' = "traverse"
  /\ hits' = WithRows(hits)
  /\ UNCHANGED <<mode, graph, reached, context>> /\ UNCHANGED store
  /\ UNCHANGED legs

-----------------------------------------------------------------------------
(* The graph hop *)

Seeds == {p[1] : p \in ToSet(hits)} \cap Notes
Step(E, ns) == {e.to : e \in {f \in E : f.from \in ns}}

\* The nodes within n hops of the seeds.
Within(E, n) ==
  LET ball[i \in 0..n] ==
        IF i = 0 THEN Seeds ELSE ball[i - 1] \cup Step(E, ball[i - 1])
  IN ball[n]

\* Reached nodes: every end of an edge that starts less than Hops away.
Found(E) == IF Hops = 0 THEN {} ELSE Step(E, Within(E, Hops - 1)) \ Seeds

\* Slip: the edge of an AI hides the user's between the same two nodes.
AiEdgeHides(E, n) == IF \E e \in E : e.to = n /\ e.source = "ai" THEN "ai" ELSE "user"

\* The most trusted edge that led to n.
BestEdge(E, n) ==
  IF \E e \in E : /\ e.to = n /\ e.source = "user"
                  /\ e.from \in Within(E, Hops - 1)
    THEN "user" ELSE "ai"

ReadEdges ==
  /\ step = "traverse" /\ step' = "resolve"
  /\ graph' = IF hits = <<>> THEN {} ELSE edges
  /\ UNCHANGED <<mode, hits, reached, context>> /\ UNCHANGED store
  /\ UNCHANGED legs

\* The heads of what was reached, a node with a tombstone for a head left out:
\* of the notes, then of the externals.
ResolveNotes ==
  /\ step = "resolve" /\ step' = "resolve externals"
  /\ reached' = {c \in LiveHeads : c[1] \in Found(graph) \cap Notes}
  /\ UNCHANGED <<mode, hits, graph, context>> /\ UNCHANGED store
  /\ UNCHANGED legs

ResolveExternals ==
  /\ step = "resolve externals" /\ step' = "fetch"
  /\ reached' = reached \cup {c \in LiveHeads : c[1] \in Found(graph) \cap Externals}
  /\ UNCHANGED <<mode, hits, graph, context>> /\ UNCHANGED store
  /\ UNCHANGED legs

Direct(p) == [passage |-> p, via |-> "hit"]
Via(p) == [passage |-> p, via |-> BestEdge(graph, p[1])]

\* A passage already among the hits is not added again.
NewRows(ps) == ps \ ToSet(hits)

\* The passages of the reached heads, in no order: the query has none.
Fetch ==
  /\ step = "fetch" /\ step' = "rank"
  /\ \E more \in Lists(NewRows(PassagesIn(reached \cap indexed))) :
       context' = [i \in 1..Len(hits) |-> Direct(hits[i])]
                  \o [i \in 1..Len(more) |-> Via(more[i])]
  /\ reached' = {} /\ UNCHANGED <<mode, hits, graph>> /\ UNCHANGED store
  /\ UNCHANGED legs

-----------------------------------------------------------------------------
(* The trust gradient, the pin, and the related notes *)

\* _classify and the rule for what the graph reached.
Tier(i) ==
  LET n == i.passage[1] IN
  CASE n \in Notes /\ i.via = "hit" -> 1
    [] n \in Notes /\ i.via = "user" -> 2
    [] n \in Externals /\ (i.via # "hit" \/ head[n] = i.passage[2]) -> 3
    [] n \in Externals /\ i.via = "hit" /\ head[n] # i.passage[2] -> 4
    [] n \in Notes /\ i.via = "ai" -> 5

\* A stable sort by tier.
ByTier(s) ==
  LET before(x, y) == \/ Tier(x) < Tier(y)
                      \/ Tier(x) = Tier(y) /\ Rank(s, x) < Rank(s, y)
  IN InOrder(ToSet(s), {pair \in ToSet(s) \X ToSet(s) : before(pair[1], pair[2])})

\* Which contents are a note's never changes: only the statement that reads the
\* externals' heads is a step.
TrustRank ==
  /\ step = "rank"
  /\ context' = [i \in DOMAIN context |->
                   LET x == ByTier(context)[i] IN
                   [passage |-> x.passage, tier |-> Tier(x)]]
  /\ step' \in IF mode = "related" THEN {"collapse"} ELSE {"pin", "done"}
  /\ UNCHANGED <<mode, hits, graph, reached>> /\ UNCHANGED store
  /\ UNCHANGED legs

\* The note asked about, if it has a live head, ...
PinNote(pinned) ==
  /\ step = "pin" /\ step' = "pinned"
  /\ reached' = {c \in LiveHeads : c[1] = pinned}
  /\ UNCHANGED <<mode, hits, graph, context>> /\ UNCHANGED store
  /\ UNCHANGED legs

\* ... comes first, whatever the rank of its passages.
PinPassages ==
  /\ step = "pinned" /\ step' = "done"
  /\ \/ reached \cap indexed = {} /\ context' = context
     \/ \E c \in reached \cap indexed :
          LET own == [i \in 1..Places[c[1]] |->
                        [passage |-> <<c[1], c[2], i>>, tier |-> 1]]
          IN context' = own \o Kept(context, {x \in ToSet(context) :
                                 \A j \in DOMAIN own : own[j].passage # x.passage})
  /\ reached' = {} /\ UNCHANGED <<mode, hits, graph>> /\ UNCHANGED store
  /\ UNCHANGED legs

\* Slip: the same version is listed once, not the same note.
FirstOfVersion(s, x) ==
  \A y \in ToSet(s) : ContentOf(y.passage) = ContentOf(x.passage) =>
    Rank(s, x) <= Rank(s, y)

FirstOfNote(s, x) ==
  \A y \in ToSet(s) : y.passage[1] = x.passage[1] => Rank(s, x) <= Rank(s, y)

\* _to_related_notes: the best passage of each note but the edited one.
Collapse(edited) ==
  /\ step = "collapse" /\ step' = "done"
  /\ context' = Cut(Kept(context, {x \in ToSet(context) :
                    /\ x.passage[1] \in Notes \ edited
                    /\ FirstOfNote(context, x)}), Limit)
  /\ UNCHANGED <<mode, hits, graph, reached>> /\ UNCHANGED store
  /\ UNCHANGED legs

-----------------------------------------------------------------------------
Change ==
  \/ \E n \in Notes : Save(n)
  \/ \E e \in Externals : Ingest(e)
  \/ \E n \in Nodes : Bury(n)
  \/ \E c \in Contents : Index(c) \/ Embed(c)
  \/ \E e \in Edges : Relink(e)

Question ==
  \/ Asks \/ Lexical \/ Rescope \/ Dense \/ Rerank \/ Expand
  \/ ReadEdges \/ ResolveNotes \/ ResolveExternals \/ Fetch
  \/ TrustRank \/ PinPassages
  \/ \E n \in Notes : PinNote(n)
  \/ \E ns \in {{}} \cup {{n} : n \in Notes} : Collapse(ns)

RetrievalNext == Change \/ Question
RetrievalSpec == RetrievalInit /\ [][RetrievalNext]_retrievalVars

-----------------------------------------------------------------------------
(* Properties *)

\* Whatever is saved, deleted or fetched meanwhile, all that a question is
\* answered from was a live head at some moment since it was asked: never a
\* superseded or deleted text from before, though its rows and vectors stay.
OnlyLiveSinceAsked ==
  step = "done" => \A i \in DOMAIN context : ContentOf(context[i].passage) \in seen

\* Of two passages the one that stands higher in every leg the other is in
\* stands higher in the fused list.
FusionRespectsTheLegs ==
  step = "fuse" =>
    \A p, q \in Hits :
      (\A leg \in {lexical, dense} :
         q \in ToSet(leg) => p \in ToSet(leg) /\ Rank(leg, p) < Rank(leg, q))
      => Rank(Fused, p) < Rank(Fused, q)

\* Every passage that was kept reaches the answer's context, once, even as
\* the pinned note and the graph lead to it too; and the related notes list
\* no note twice.
KeptOnce ==
  step = "done" =>
    LET listed == [i \in DOMAIN context |-> context[i].passage]
        notes == [i \in DOMAIN context |-> context[i].passage[1]] IN
    IF mode = "related" THEN IsInjective(notes)
    ELSE IsInjective(listed) /\ ToSet(hits) \subseteq ToSet(listed)

\* The gradient holds where the pipeline's sources meet: a note is ranked as
\* an AI's guess only if no path of the user's own last link leads to it,
\* and an external as stale only if a newer snapshot landed since.
TierIsEarned ==
  step = "done" =>
    \A i \in DOMAIN context :
      LET n == context[i].passage[1] IN
      /\ context[i].tier = 5 =>
           ~\E e \in graph : e.to = n /\ e.source = "user" /\ e.from \in Seeds
      /\ context[i].tier = 4 => \E v \in (context[i].passage[2] + 1)..MaxVersions :
                                  v <= head[n] /\ <<n, context[i].passage[2]>> \in seen
      /\ \A j \in DOMAIN context : i < j => context[i].tier <= context[j].tier
=============================================================================
