------------------------------ MODULE Fetching ------------------------------
(***************************************************************************)
(* One fetch of a mirrored source, or one search of Atlassian, and the     *)
(* server it talks to: the redirects that are followed, the destinations   *)
(* the ask path checks before and after it connects, what each answer is   *)
(* taken for, and the pages of a JIRA issue's comments, read one by one    *)
(* while the server, its names and the thread change between requests.     *)
(*                                                                         *)
(* An answer is what the status and the body amount to for the connector   *)
(* that reads them; a redirect is the URL it leads to. A network error or  *)
(* a timeout is "dead": there is no peer to look at.                       *)
(***************************************************************************)
EXTENDS Naturals, Sequences, FiniteSets, SequencesExt

CONSTANTS
  Urls,         \* URLs, model values
  MaxComments,  \* bound: comments ever posted
  MaxRedirects, \* fetch_max_redirects
  PageSize,     \* comments JIRA puts on a page
  MaxChanges    \* bound: changes on the server's side

ASSUME FetchingAssumption ==
  /\ {MaxRedirects, MaxComments, MaxChanges} \subseteq Nat
  /\ PageSize \in Nat \ {0}

Fetchers == {"web", "ask", "jira", "confluence", "jira search",
             "confluence search"}
Searches == {"jira search", "confluence search"}

\* 2xx with text, 2xx with too little of it, 2xx that is not what was asked
\* for, 4xx for good, 408, 429 or 5xx, and no response at all.
Bodies == {"page", "thin", "garbled"}
Statuses == Bodies \cup {"refused", "busy"}
Answers == Statuses \cup {"dead"} \cup Urls

\* The same of a page of comments: a redirect there is followed to its end.
PageReplies == {"page", "garbled", "refused", "busy", "looped"}

VARIABLES
  site,      \* what each URL answers
  public,    \* whether each URL's host resolves to a public address
  thread,    \* the issue's comments on the server, oldest first
  posted,    \* comments posted so far: they are numbered
  unlisted,  \* comments its total counts and its pages leave out
  pages,     \* what a request for a page of comments meets
  changes,   \* changes so far
  connector, \* who fetches
  step,      \* what it does next
  url,       \* the URL of the next request
  hops,      \* redirects followed
  issue,     \* the answer to the issue's own request
  collected, \* the comments read
  verdict,   \* how it ended
  start,     \* history: the URL asked for
  quiet,     \* history: nothing changed since
  began,     \* history: comments there since the first page was asked for
  shifted,   \* history: a comment already read was deleted under the paging
  cut        \* history: a page of comments was refused

server == <<site, public, thread, posted, unlisted, pages, changes>>
client == <<connector, step, url, hops, issue, collected, verdict, start,
            cut>>
fetchVars == <<server, client, quiet, began, shifted>>

FetchInit ==
  /\ site \in [Urls -> Answers] /\ public \in [Urls -> BOOLEAN]
  /\ posted \in 0..MaxComments /\ thread = [i \in 1..posted |-> i]
  /\ unlisted \in 0..1 /\ pages \in PageReplies
  /\ changes = 0 /\ connector = "web" /\ step = "idle"
  /\ url \in Urls /\ start = url /\ hops = 0 /\ issue = "page"
  /\ collected = <<>> /\ verdict = "none" /\ quiet = TRUE /\ began = {}
  /\ shifted = FALSE /\ cut = FALSE

-----------------------------------------------------------------------------
(* The server's side, while a fetch is under way: external *)

Change ==
  /\ step \notin {"idle", "done"}
  /\ changes < MaxChanges /\ changes' = changes + 1 /\ quiet' = FALSE
  /\ UNCHANGED <<client, unlisted>>

Answer(u, a) ==
  /\ Change /\ a # site[u] /\ site' = [site EXCEPT ![u] = a]
  /\ UNCHANGED <<public, thread, posted, pages, began, shifted>>

\* A name is resolved again, to something else.
Rebind(u) ==
  /\ Change /\ public' = [public EXCEPT ![u] = ~@]
  /\ UNCHANGED <<site, thread, posted, pages, began, shifted>>

AnswerPages(a) ==
  /\ Change /\ a # pages /\ pages' = a
  /\ UNCHANGED <<site, public, thread, posted, began, shifted>>

Comment ==
  /\ Change /\ posted < MaxComments /\ posted' = posted + 1
  /\ thread' = Append(thread, posted')
  /\ UNCHANGED <<site, public, pages, began, shifted>>

Uncomment(i) ==
  /\ Change /\ i \in 1..Len(thread) /\ thread' = RemoveAt(thread, i)
  /\ began' = began \ {thread[i]}
  /\ shifted' = (shifted \/ i <= Len(collected))
  /\ UNCHANGED <<site, public, posted, pages>>

-----------------------------------------------------------------------------
(* The fetch *)

FirstStep(c) == IF c = "ask" THEN "check" ELSE "send"

Begin(c) ==
  /\ step \in {"idle", "done"}
  /\ connector' = c /\ step' = FirstStep(c)
  /\ url' = start /\ hops' = 0 /\ issue' = "page" /\ collected' = <<>>
  /\ verdict' = "none" /\ quiet' = TRUE /\ began' = {}
  /\ shifted' = FALSE /\ cut' = FALSE
  /\ UNCHANGED <<server, start>>

End(v) == step' = "done" /\ verdict' = v

\* Every hop of the ask path is resolved before it is asked.
CheckHost ==
  /\ step = "check"
  /\ IF public[url] THEN step' = "send" /\ UNCHANGED verdict
     ELSE End("unsafe")
  /\ UNCHANGED <<server, connector, url, hops, issue, collected, start, began,
                 cut, quiet, shifted>>

\* The peer that answered is looked at before its body is read.
PeerRefused == connector = "ask" /\ ~public[url] /\ site[url] # "dead"
Follows == connector \notin {"confluence", "confluence search"}
\* Slip: the first request is counted as a redirect.
OneTooFew == hops + 1 >= MaxRedirects
TooMany == hops >= MaxRedirects

Redirect ==
  /\ site[url] \in Urls /\ Follows
  /\ IF TooMany
     THEN /\ End(IF connector \in Searches THEN "raised" ELSE "tombstone")
          /\ UNCHANGED <<url, hops>>
     ELSE /\ url' = site[url] /\ hops' = hops + 1
          /\ step' = FirstStep(connector) /\ UNCHANGED verdict
  /\ UNCHANGED <<issue, began>>

Transient == site[url] \in {"busy", "dead"}

\* A search of nothing has its JSON all the same.
SearchVerdict == IF site[url] \in {"page", "thin"} THEN "ok" ELSE "failed"

\* A connector that does not follow a redirect takes it for a 2xx without the
\* JSON it asked for. Only the issue's JSON is read with nothing to catch it.
Judged ==
  IF Transient THEN "raised"
  ELSE IF connector \in Searches THEN SearchVerdict
  ELSE IF connector = "jira" /\ site[url] = "garbled" THEN "raised"
  ELSE IF site[url] = "page" THEN "ok" ELSE "tombstone"

HasComments == connector = "jira" /\ site[url] \in {"page", "thin"}

Land ==
  /\ site[url] \notin Urls \/ ~Follows
  /\ IF HasComments
     THEN /\ step' = "comments" /\ issue' = site[url]
          /\ began' = Range(thread) /\ UNCHANGED verdict
     ELSE End(Judged) /\ UNCHANGED <<issue, began>>
  /\ UNCHANGED <<url, hops>>

Send ==
  /\ step = "send"
  /\ IF PeerRefused
     THEN End("unsafe") /\ UNCHANGED <<url, hops, issue, began>>
     ELSE Redirect \/ Land
  /\ UNCHANGED <<server, connector, collected, start, cut, quiet, shifted>>

\* Slip: the offset is taken for the place of the next comment, less one.
PagePastOne == SubSeq(thread, Len(collected) + 2,
               IF Len(collected) + PageSize < Len(thread)
               THEN Len(collected) + PageSize ELSE Len(thread))
\* startAt is the number of comments read so far; the total is the server's.
CommentsPage == SubSeq(thread, Len(collected) + 1,
                       IF Len(collected) + PageSize < Len(thread)
                       THEN Len(collected) + PageSize ELSE Len(thread))
\* Slip: the total alone tells when to stop.
ByTotal(read) == Len(read) >= Len(thread) + unlisted
LastPage(read) == CommentsPage = <<>> \/ Len(read) >= Len(thread) + unlisted

\* A thin issue with comments has enough to extract.
Rendered(read) == IF issue = "page" \/ read # <<>> THEN "ok" ELSE "tombstone"

\* A refused page ends the thread where it is. Any other that is not a page
\* of comments fails the fetch: nothing catches what it raises.
NextPage ==
  /\ step = "comments"
  /\ IF pages \in {"garbled", "busy", "looped"}
     THEN End("raised") /\ UNCHANGED <<collected, cut>>
     ELSE IF pages = "refused"
     THEN End(Rendered(collected)) /\ cut' = TRUE /\ UNCHANGED collected
     ELSE /\ collected' = collected \o CommentsPage /\ UNCHANGED cut
          /\ IF LastPage(collected') THEN End(Rendered(collected'))
             ELSE UNCHANGED <<step, verdict>>
  /\ UNCHANGED <<server, connector, url, hops, issue, start, began, quiet,
                 shifted>>

Fetches == CheckHost \/ Send \/ NextPage

FetchNext ==
  \/ \E u \in Urls : Rebind(u) \/ \E a \in Answers : Answer(u, a)
  \/ \E a \in PageReplies : AnswerPages(a)
  \/ Comment
  \/ \E i \in 1..Len(thread) : Uncomment(i)
  \/ \E c \in Fetchers : Begin(c)
  \/ Fetches

FetchSpec == FetchInit /\ [][FetchNext]_fetchVars
FairFetchSpec == FetchSpec /\ WF_fetchVars(Fetches)

-----------------------------------------------------------------------------
(* Properties *)

\* Where a chain of redirects ends for one who follows MaxRedirects of them.
Ending[n \in 0..MaxRedirects] ==
  [u \in Urls |-> IF site[u] \notin Urls THEN site[u]
                  ELSE IF n = 0 THEN "looped" ELSE Ending[n - 1][site[u]]]

Path[n \in 0..MaxRedirects] ==
  [u \in Urls |-> {u} \cup IF site[u] \notin Urls \/ n = 0 THEN {}
                           ELSE Path[n - 1][site[u]]]

\* While nothing changes at the other end, the ask path that follows redirects
\* by hand and the draw-down path that leaves them to the client come to the
\* same verdict: a tombstone exactly when asking again would be answered the
\* same way, an exception when it might not, and for the ask path a refusal
\* when some hop is not public.
VerdictFitsTheSite ==
  (step = "done" /\ quiet /\ connector \in {"web", "ask"}) =>
    LET a == Ending[MaxRedirects][start] IN
    verdict = IF /\ connector = "ask"
                 /\ \E u \in Path[MaxRedirects][start] : ~public[u]
              THEN "unsafe"
              ELSE IF a = "page" THEN "ok"
              ELSE IF a \in {"busy", "dead"} THEN "raised" ELSE "tombstone"

\* An issue taken for whole holds no comment twice, and every comment that was
\* there when the paging began, whatever was added or deleted meanwhile,
\* unless a page was refused or a comment already read was deleted.
CommentsWhole ==
  (step = "done" /\ connector = "jira" /\ verdict = "ok") =>
    /\ IsInjective(collected)
    /\ (~cut /\ ~shifted) => began \subseteq Range(collected)

\* A fetch ends: no loop of redirects and no total that counts more comments
\* than the pages hold keeps it going.
FetchesEnd == (step \in {"check", "send", "comments"}) ~> (step = "done")
=============================================================================
