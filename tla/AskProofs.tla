------------------------------ MODULE AskProofs ------------------------------
(***************************************************************************)
(* What a question keeps at home, what it shows, what it logs and what it  *)
(* saves: the safety properties of Ask for any targets, budgets and number *)
(* of questions and of changes meanwhile. The thread of a question changes *)
(* nothing but its own record, so most of the invariant is about one       *)
(* record r, the targets w that are flagged ever since it was begun and    *)
(* the targets p that were purged before it had read the bodies.           *)
(***************************************************************************)
EXTENDS Ask, TLAPS

Flagged == {t \in Targets : noEgress[t]}
Purged == {t \in Targets : text[t] = "marker"}

\* A request is logged before it is made: the passages by the gate, a tool
\* call before the request it leads to.
Logged(r) ==
  /\ r.outgoing \subseteq r.egressLog
  /\ r.pc \in Thinking => "passages" \in r.egressLog
  /\ r.pc = "requesting" => r.fetching \in r.egressLog

\* Nothing the thread holds comes from a target in w but passages, which are
\* withheld once the flags were read.
Withholds(r, w) ==
  /\ r.pc \in Thinking => r.passages \cap w \subseteq r.withheld
  /\ r.pc \notin {"resolving"} \cup Thinking => r.passages = {}
  /\ r.bodies \cap w = {} /\ r.fetched \cap w = {} /\ r.seen \cap w = {}
  /\ r.fetching # Search => r.fetching \notin w

\* The claims that are kept, at the end, quote what their targets say.
Supported(r) ==
  /\ r.pc \notin {"finishing", "done"} => r.claims = {}
  /\ \A c \in r.claims : \A s \in c : s.quote = "text" /\ s.target \in r.bodies

\* A question not yet asked holds nothing.
Blank(r) == r.pc = "none" => r = Unasked

\* Nothing in p, the targets purged before the bodies were read, is among them.
Vouches(r, p) ==
  /\ r.pc \in Unread => r.bodies = {}
  /\ r.bodies \cap p = {}

Fine(r, w, p) ==
  Logged(r) /\ Withholds(r, w) /\ Supported(r) /\ Blank(r) /\ Vouches(r, p)

\* The answer on the screen is that of the newest question, which has come to
\* its end, and the one to be confirmed is the one on the screen.
ScreenIsSettled ==
  /\ result # NoAsk =>
       result = generation /\ ask[result].pc = "done" /\ rendered = result
  /\ confirming # NoAsk => confirming = rendered /\ result # NoAsk

AskInv ==
  /\ TypeOK
  /\ \A a \in Asks : /\ Fine(ask[a], withheldAll[a], purgedFirst[a])
                     /\ withheldAll[a] \subseteq Flagged
                     /\ purgedFirst[a] \subseteq Purged
  /\ ScreenIsSettled /\ SavedAsConfirmed

-----------------------------------------------------------------------------
(* Records: what each update of a thread's record leaves as it was. *)

Pcs == {"none", "retrieving", "resolving", "finishing", "done"} \cup Thinking

LEMMA PcUpdate ==
  ASSUME NEW r \in Record, NEW pc \in Pcs, NEW q, q = [r EXCEPT !.pc = pc]
  PROVE  /\ q \in Record /\ q.pc = pc
         /\ q.passages = r.passages /\ q.withheld = r.withheld
         /\ q.bodies = r.bodies /\ q.fetching = r.fetching
         /\ q.fetched = r.fetched /\ q.seen = r.seen /\ q.claims = r.claims
         /\ q.egressLog = r.egressLog /\ q.outgoing = r.outgoing
  BY Zenon DEF Record, Pcs

LEMMA LogUpdate ==
  ASSUME NEW r \in Record, NEW what \in Sendable, NEW q, q = Logs(r, what)
  PROVE  /\ q \in Record /\ q.pc = r.pc
         /\ q.passages = r.passages /\ q.withheld = r.withheld
         /\ q.bodies = r.bodies /\ q.fetching = r.fetching
         /\ q.fetched = r.fetched /\ q.seen = r.seen /\ q.claims = r.claims
         /\ q.egressLog = r.egressLog \cup {what} /\ q.outgoing = r.outgoing
  BY Zenon DEF Record, Logs

LEMMA SendUpdate ==
  ASSUME NEW r \in Record, NEW what \in Sendable, NEW q, q = Sends(r, what)
  PROVE  /\ q \in Record /\ q.pc = r.pc
         /\ q.passages = r.passages /\ q.withheld = r.withheld
         /\ q.bodies = r.bodies /\ q.fetching = r.fetching
         /\ q.fetched = r.fetched /\ q.seen = r.seen /\ q.claims = r.claims
         /\ q.egressLog = r.egressLog /\ q.outgoing = r.outgoing \cup {what}
  BY Zenon DEF Record, Sends

\* A call that is answered leaves no call under way.
LEMMA AnswerUpdate ==
  ASSUME NEW a \in Asks, ask[a] \in Record, NEW r \in Record,
         NEW call, NEW q, q = Answered(a, call, r)
  PROVE  /\ q \in Record /\ q.pc \in {"turn", "tools"}
         /\ q.passages = r.passages /\ q.withheld = r.withheld
         /\ q.bodies = r.bodies /\ q.fetching = Search
         /\ q.fetched = r.fetched /\ q.seen = r.seen /\ q.claims = r.claims
         /\ q.egressLog = r.egressLog /\ q.outgoing = r.outgoing
<1> DEFINE rest == ask[a].calls \ {call}
           pc == IF rest = {} THEN "turn" ELSE "tools"
<1>1. rest \in SUBSET (Externals \cup {Search})
  BY DEF Record
<1>2. pc \in {"turn", "tools"}
  OBVIOUS
<1>3. q = [r EXCEPT !.calls = rest, !.fetching = Search, !.pc = pc]
  BY DEF Answered
<1>4. pc \in {"none", "retrieving", "resolving", "finishing", "done"} \cup Thinking
  BY <1>2 DEF Thinking
<1> HIDE DEF rest, pc
<1>5. /\ q.pc = pc /\ q.passages = r.passages /\ q.withheld = r.withheld
      /\ q.bodies = r.bodies /\ q.fetching = Search
      /\ q.fetched = r.fetched /\ q.seen = r.seen /\ q.claims = r.claims
      /\ q.egressLog = r.egressLog /\ q.outgoing = r.outgoing
  BY <1>3, ZenonT(30) DEF Record
<1>6. q \in Record
  BY <1>1, <1>3, <1>4, ZenonT(30) DEF Record
<1> QED
  BY <1>2, <1>5, <1>6

LEMMA ConsumeUpdate ==
  ASSUME NEW a \in Asks, ask[a] \in Record, HasBudget(a),
         NEW q, q = Consumed(a)
  PROVE  /\ q \in Record /\ q.pc = ask[a].pc
         /\ q.passages = ask[a].passages /\ q.withheld = ask[a].withheld
         /\ q.bodies = ask[a].bodies /\ q.fetching = ask[a].fetching
         /\ q.fetched = ask[a].fetched /\ q.seen = ask[a].seen
         /\ q.claims = ask[a].claims
         /\ q.egressLog = ask[a].egressLog /\ q.outgoing = ask[a].outgoing
<1> DEFINE used == ask[a].used + 1
<1>1. ask[a].used \in 0..ToolBudget
  BY DEF Record
<1>2. used \in 0..ToolBudget
  BY <1>1, AskAssumption DEF HasBudget
<1>3. q = [ask[a] EXCEPT !.used = used]
  BY DEF Consumed
<1> HIDE DEF used
<1> QED
  BY <1>2, <1>3, Zenon DEF Record

LEMMA NothingAsked ==
  /\ Unasked \in Record /\ Ended \in Record
  /\ Unasked.pc = "none" /\ Ended.pc = "done"
  /\ \A w \in SUBSET Targets, p \in SUBSET Targets : Fine(Unasked, w, p) /\ Fine(Ended, w, p)
<1>1. Unasked \in Record /\ Ended \in Record
  BY AskAssumption DEF Record, Unasked, Ended, Thinking
<1> QED
  BY <1>1
  DEF Unasked, Ended, Fine, Logged, Withholds, Supported, Blank, Vouches, Unread, Thinking

-----------------------------------------------------------------------------
(* The steps of a thread *)

LEMMA InitAskInv == Init => AskInv
<1> SUFFICES ASSUME Init PROVE AskInv
  OBVIOUS
<1>1. ask \in [Asks -> Record] /\ \A a \in Asks : ask[a] = Unasked
  BY NothingAsked DEF Init
<1>2. TypeOK
  BY <1>1, NothingAsked, AskAssumption DEF Init, TypeOK, NoAsk, Asks
<1>3. \A a \in Asks : /\ Fine(ask[a], withheldAll[a], purgedFirst[a])
                     /\ withheldAll[a] \subseteq Flagged
                     /\ purgedFirst[a] \subseteq Purged
  BY <1>1, NothingAsked DEF Init
<1> QED
  BY <1>2, <1>3 DEF Init, AskInv, ScreenIsSettled, SavedAsConfirmed

\* A step of the thread of a alters nothing but the record of a.
LEMMA ThreadKeeps ==
  ASSUME AskInv, NEW a \in Asks, NEW r \in Record, Becomes(a, r),
         ask[a].pc # "none", r.pc # "none", Fine(r, withheldAll[a], purgedFirst[a]),
         UNCHANGED <<noEgress, events, history, generation>>,
         Purged \subseteq Purged',
         text' \in [Targets -> {"none", "text", "marker"}],
         app' \in {"open", "exited"}
  PROVE  /\ ask' \in [Asks -> Record]
         /\ \A b \in Asks : b > generation' <=> ask'[b].pc = "none"
         /\ \A b \in Asks : /\ Fine(ask'[b], withheldAll'[b], purgedFirst'[b])
                           /\ withheldAll'[b] \subseteq Flagged'
                           /\ purgedFirst'[b] \subseteq Purged'
<1>1. ask \in [Asks -> Record] /\ ask' = [ask EXCEPT ![a] = r]
  BY DEF AskInv, TypeOK, Becomes
<1>2. \A b \in Asks : ask'[b] = IF b = a THEN r ELSE ask[b]
  BY <1>1
<1>3. \A b \in Asks : b > generation' <=> ask'[b].pc = "none"
  BY <1>2 DEF AskInv, TypeOK
<1>4. \A b \in Asks : Fine(ask'[b], withheldAll'[b], purgedFirst'[b])
  BY <1>2 DEF AskInv, history
<1> QED
  BY <1>1, <1>3, <1>4 DEF AskInv, Flagged, history

\* While a thread works, its answer is not the one on the screen.
LEMMA ThreadStep ==
  ASSUME AskInv, NEW a \in Asks, NEW r \in Record, Becomes(a, r),
         ask[a].pc \notin {"none", "done"}, r.pc # "none",
         Fine(r, withheldAll[a], purgedFirst[a]),
         UNCHANGED <<noEgress, events, history>>, UNCHANGED screen,
         Purged \subseteq Purged',
         text' \in [Targets -> {"none", "text", "marker"}],
         app' \in {"open", "exited"}
  PROVE  AskInv'
<1>1. /\ ask' \in [Asks -> Record]
      /\ \A b \in Asks : b > generation' <=> ask'[b].pc = "none"
      /\ \A b \in Asks : /\ Fine(ask'[b], withheldAll'[b], purgedFirst'[b])
                        /\ withheldAll'[b] \subseteq Flagged'
                        /\ purgedFirst'[b] \subseteq Purged'
  BY ThreadKeeps DEF screen
<1>2. TypeOK'
  BY <1>1 DEF AskInv, TypeOK, screen, history
<1>3. result # NoAsk => ask'[result].pc = ask[result].pc
  BY DEF AskInv, TypeOK, ScreenIsSettled, Becomes
<1>4. ScreenIsSettled' /\ SavedAsConfirmed'
  BY <1>3 DEF AskInv, ScreenIsSettled, SavedAsConfirmed, screen
<1> QED
  BY <1>1, <1>2, <1>4 DEF AskInv

LEMMA RetrieveKeeps ==
  ASSUME AskInv, NEW a \in Asks, Retrieve(a) PROVE AskInv'
<1> DEFINE w == withheldAll[a]
           p == purgedFirst[a]
<1>1. ask[a] \in Record /\ ask[a].pc = "retrieving" /\ Fine(ask[a], w, p)
  BY DEF AskInv, TypeOK, Retrieve, At
<1>2. PICK found \in SUBSET Targets :
        Becomes(a, [ask[a] EXCEPT !.pc = "resolving", !.passages = found])
  BY DEF Retrieve
<1> DEFINE r == [ask[a] EXCEPT !.pc = "resolving", !.passages = found]
<1>3. /\ r \in Record /\ r.pc = "resolving"
      /\ r.bodies = ask[a].bodies /\ r.fetching = ask[a].fetching
      /\ r.fetched = ask[a].fetched /\ r.seen = ask[a].seen
      /\ r.claims = ask[a].claims
      /\ r.egressLog = ask[a].egressLog /\ r.outgoing = ask[a].outgoing
  BY <1>1, Zenon DEF Record
<1> HIDE DEF r
<1>4. Fine(r, w, p)
  BY <1>1, <1>3
  DEF Fine, Logged, Withholds, Supported, Blank, Vouches, Unread, Thinking
<1> QED
  BY <1>1, <1>2, <1>3, <1>4, ThreadStep
  DEF Retrieve, store, history, Purged, AskInv, TypeOK, r

LEMMA ResolveKeeps ==
  ASSUME AskInv, NEW a \in Asks, Resolve(a) PROVE AskInv'
<1> DEFINE w == withheldAll[a]
           p == purgedFirst[a]
           withheld == {t \in ask[a].passages : noEgress[t]}
           q == [ask[a] EXCEPT !.pc = "sending", !.withheld = withheld,
                               !.bodies = Bodies(a)]
           r == Logs(q, "passages")
<1>1. /\ ask[a] \in Record /\ ask[a].pc = "resolving" /\ Fine(ask[a], w, p)
      /\ w \subseteq Flagged /\ p \subseteq Purged
  BY DEF AskInv, TypeOK, Resolve, At
<1>2. withheld \in SUBSET Targets /\ Bodies(a) \in SUBSET Targets
  BY <1>1 DEF Record, Bodies
<1>3. /\ withheld = ask[a].passages \cap Flagged /\ Bodies(a) \cap Flagged = {}
      /\ Bodies(a) \cap p = {}
  BY <1>1 DEF Record, Bodies, Flagged, Purged
<1> HIDE DEF withheld
<1>4. /\ q \in Record /\ q.pc = "sending" /\ q.passages = ask[a].passages
      /\ q.withheld = withheld
      /\ q.bodies = Bodies(a) /\ q.fetching = ask[a].fetching
      /\ q.fetched = ask[a].fetched /\ q.seen = ask[a].seen
      /\ q.claims = ask[a].claims
      /\ q.egressLog = ask[a].egressLog /\ q.outgoing = ask[a].outgoing
  BY <1>1, <1>2, Zenon DEF Record, Thinking
<1>5. Becomes(a, r)
  BY DEF Resolve, withheld
<1> HIDE DEF q
<1>6. /\ r \in Record /\ r.pc = q.pc /\ r.passages = q.passages
      /\ r.withheld = q.withheld /\ r.bodies = q.bodies
      /\ r.fetching = q.fetching /\ r.fetched = q.fetched
      /\ r.seen = q.seen /\ r.claims = q.claims
      /\ r.egressLog = q.egressLog \cup {"passages"} /\ r.outgoing = q.outgoing
  BY <1>4, LogUpdate DEF Sendable
<1> HIDE DEF r
<1>7. Fine(r, w, p)
  BY <1>1, <1>3, <1>4, <1>6
  DEF Fine, Logged, Withholds, Supported, Blank, Vouches, Unread, Thinking
<1> QED
  BY <1>1, <1>4, <1>5, <1>6, <1>7, ThreadStep
  DEF Resolve, store, history, Purged, AskInv, TypeOK

LEMMA SendPassagesKeeps ==
  ASSUME AskInv, NEW a \in Asks, SendPassages(a) PROVE AskInv'
<1> DEFINE w == withheldAll[a]
           p == purgedFirst[a]
           q == [ask[a] EXCEPT !.pc = "turn"]
           r == Sends(q, "passages")
<1>1. ask[a] \in Record /\ ask[a].pc = "sending" /\ Fine(ask[a], w, p)
  BY DEF AskInv, TypeOK, SendPassages, At
<1>2. /\ q \in Record /\ q.pc = "turn"
      /\ q.passages = ask[a].passages /\ q.withheld = ask[a].withheld
      /\ q.bodies = ask[a].bodies /\ q.fetching = ask[a].fetching
      /\ q.fetched = ask[a].fetched /\ q.seen = ask[a].seen
      /\ q.claims = ask[a].claims
      /\ q.egressLog = ask[a].egressLog /\ q.outgoing = ask[a].outgoing
  BY <1>1, PcUpdate DEF Pcs, Thinking
<1>3. Becomes(a, r)
  BY DEF SendPassages
<1> HIDE DEF q
<1>4. /\ r \in Record /\ r.pc = q.pc
      /\ r.passages = q.passages /\ r.withheld = q.withheld
      /\ r.bodies = q.bodies /\ r.fetching = q.fetching
      /\ r.fetched = q.fetched /\ r.seen = q.seen /\ r.claims = q.claims
      /\ r.egressLog = q.egressLog /\ r.outgoing = q.outgoing \cup {"passages"}
  BY <1>2, SendUpdate DEF Sendable
<1> HIDE DEF r
<1>5. Fine(r, w, p)
  BY <1>1, <1>2, <1>4
  DEF Fine, Logged, Withholds, Supported, Blank, Vouches, Unread, Thinking
<1> QED
  BY <1>1, <1>2, <1>3, <1>4, <1>5, ThreadStep
  DEF SendPassages, store, history, Purged, AskInv, TypeOK

LEMMA FreeTurnKeeps ==
  ASSUME AskInv, NEW a \in Asks, NEW calls \in SUBSET (Externals \cup {Search}),
         FreeTurn(a, calls)
  PROVE  AskInv'
<1> DEFINE w == withheldAll[a]
           p == purgedFirst[a]
           turns == CountTurn(a)
           r == [ask[a] EXCEPT !.pc = "tools", !.calls = calls, !.turns = turns]
<1>1. ask[a] \in Record /\ ask[a].pc = "turn" /\ Fine(ask[a], w, p)
  BY DEF AskInv, TypeOK, FreeTurn, At
<1>2. turns \in 0..MaxTurns
  <2>1. ask[a].turns \in 0..MaxTurns
    BY <1>1 DEF Record
  <2> QED
    BY <2>1, AskAssumption DEF FreeTurn, CountTurn
<1>3. Becomes(a, r)
  BY DEF FreeTurn
<1> HIDE DEF turns
<1>4. /\ r \in Record /\ r.pc = "tools"
      /\ r.passages = ask[a].passages /\ r.withheld = ask[a].withheld
      /\ r.bodies = ask[a].bodies /\ r.fetching = ask[a].fetching
      /\ r.fetched = ask[a].fetched /\ r.seen = ask[a].seen
      /\ r.claims = ask[a].claims
      /\ r.egressLog = ask[a].egressLog /\ r.outgoing = ask[a].outgoing
  BY <1>1, <1>2, Zenon DEF Record, Thinking
<1> HIDE DEF r
<1>5. Fine(r, w, p)
  BY <1>1, <1>4
  DEF Fine, Logged, Withholds, Supported, Blank, Vouches, Unread, Thinking
<1> QED
  BY <1>1, <1>3, <1>4, <1>5, ThreadStep
  DEF FreeTurn, store, history, Purged, AskInv, TypeOK

-----------------------------------------------------------------------------
(* Tool calls *)

LEMMA ToolRefusedKeeps ==
  ASSUME AskInv, NEW a \in Asks, NEW call, ToolRefused(a, call) PROVE AskInv'
<1> DEFINE w == withheldAll[a]
           p == purgedFirst[a]
           r == Answered(a, call, ask[a])
<1>1. ask[a] \in Record /\ ask[a].pc = "tools" /\ Fine(ask[a], w, p)
  BY DEF AskInv, TypeOK, ToolRefused, At
<1>2. Becomes(a, r)
  BY DEF ToolRefused
<1>3. /\ r \in Record /\ r.pc \in {"turn", "tools"}
      /\ r.passages = ask[a].passages /\ r.withheld = ask[a].withheld
      /\ r.bodies = ask[a].bodies /\ r.fetching = Search
      /\ r.fetched = ask[a].fetched /\ r.seen = ask[a].seen
      /\ r.claims = ask[a].claims
      /\ r.egressLog = ask[a].egressLog /\ r.outgoing = ask[a].outgoing
  BY <1>1, AnswerUpdate
<1> HIDE DEF r
<1>4. Fine(r, w, p)
  BY <1>1, <1>3
  DEF Fine, Logged, Withholds, Supported, Blank, Vouches, Unread, Thinking
<1> QED
  BY <1>1, <1>2, <1>3, <1>4, ThreadStep
  DEF ToolRefused, store, history, Purged, AskInv, TypeOK

LEMMA ToolDeniedKeeps ==
  ASSUME AskInv, NEW a \in Asks, NEW call, ToolDenied(a, call) PROVE AskInv'
<1> DEFINE w == withheldAll[a]
           p == purgedFirst[a]
           q == Consumed(a)
           r == Answered(a, call, q)
<1>1. ask[a] \in Record /\ ask[a].pc = "tools" /\ Fine(ask[a], w, p)
  BY DEF AskInv, TypeOK, ToolDenied, At
<1>2. Becomes(a, r)
  BY DEF ToolDenied
<1>3. /\ q \in Record
      /\ q.passages = ask[a].passages /\ q.withheld = ask[a].withheld
      /\ q.bodies = ask[a].bodies
      /\ q.fetched = ask[a].fetched /\ q.seen = ask[a].seen
      /\ q.claims = ask[a].claims
      /\ q.egressLog = ask[a].egressLog /\ q.outgoing = ask[a].outgoing
  BY <1>1, ConsumeUpdate DEF ToolDenied
<1> HIDE DEF q
<1>4. /\ r \in Record /\ r.pc \in {"turn", "tools"}
      /\ r.passages = q.passages /\ r.withheld = q.withheld
      /\ r.bodies = q.bodies /\ r.fetching = Search
      /\ r.fetched = q.fetched /\ r.seen = q.seen /\ r.claims = q.claims
      /\ r.egressLog = q.egressLog /\ r.outgoing = q.outgoing
  BY <1>1, <1>3, AnswerUpdate
<1> HIDE DEF r
<1>5. Fine(r, w, p)
  BY <1>1, <1>3, <1>4
  DEF Fine, Logged, Withholds, Supported, Blank, Vouches, Unread, Thinking
<1> QED
  BY <1>1, <1>2, <1>4, <1>5, ThreadStep
  DEF ToolDenied, store, history, Purged, AskInv, TypeOK

LEMMA ToolLoggedKeeps ==
  ASSUME AskInv, NEW a \in Asks, NEW call \in Externals \cup {Search},
         ToolLogged(a, call)
  PROVE  AskInv'
<1> DEFINE w == withheldAll[a]
           p == purgedFirst[a]
           q == Consumed(a)
           s == [q EXCEPT !.pc = "requesting", !.fetching = call]
           r == Logs(s, call)
<1>1. /\ ask[a] \in Record /\ ask[a].pc = "tools" /\ Fine(ask[a], w, p)
      /\ w \subseteq Flagged
  BY DEF AskInv, TypeOK, ToolLogged, At
<1>2. Becomes(a, r)
  BY DEF ToolLogged, LogsFirst
<1>3. /\ q \in Record
      /\ q.passages = ask[a].passages /\ q.withheld = ask[a].withheld
      /\ q.bodies = ask[a].bodies
      /\ q.fetched = ask[a].fetched /\ q.seen = ask[a].seen
      /\ q.claims = ask[a].claims
      /\ q.egressLog = ask[a].egressLog /\ q.outgoing = ask[a].outgoing
  BY <1>1, ConsumeUpdate DEF ToolLogged
<1> HIDE DEF q
<1>4. /\ s \in Record /\ s.pc = "requesting"
      /\ s.passages = q.passages /\ s.withheld = q.withheld
      /\ s.bodies = q.bodies /\ s.fetching = call
      /\ s.fetched = q.fetched /\ s.seen = q.seen /\ s.claims = q.claims
      /\ s.egressLog = q.egressLog /\ s.outgoing = q.outgoing
  BY <1>3, Zenon DEF Record, Thinking
<1> HIDE DEF s
<1>5. /\ r \in Record /\ r.pc = s.pc
      /\ r.passages = s.passages /\ r.withheld = s.withheld
      /\ r.bodies = s.bodies /\ r.fetching = s.fetching
      /\ r.fetched = s.fetched /\ r.seen = s.seen /\ r.claims = s.claims
      /\ r.egressLog = s.egressLog \cup {call} /\ r.outgoing = s.outgoing
  BY <1>4, LogUpdate DEF Sendable
<1> HIDE DEF r
<1>6. call # Search => call \notin w
  BY <1>1 DEF ToolLogged, Flagged
<1>7. Fine(r, w, p)
  BY <1>1, <1>3, <1>4, <1>5, <1>6
  DEF Fine, Logged, Withholds, Supported, Blank, Vouches, Unread, Thinking
<1> QED
  BY <1>1, <1>2, <1>4, <1>5, <1>7, ThreadStep
  DEF ToolLogged, store, history, Purged, AskInv, TypeOK

LEMMA SearchAnswersKeeps ==
  ASSUME AskInv, NEW a \in Asks, SearchAnswers(a) PROVE AskInv'
<1> DEFINE w == withheldAll[a]
           p == purgedFirst[a]
           q == [ask[a] EXCEPT !.seen = @ \cup Hits]
           s == Sends(q, Search)
           r == Answered(a, Search, s)
<1>1. /\ ask[a] \in Record /\ ask[a].pc = "requesting" /\ Fine(ask[a], w, p)
      /\ w \subseteq Flagged /\ ask[a].fetching = Search
  BY DEF AskInv, TypeOK, SearchAnswers, At
<1>2. Becomes(a, r)
  BY DEF SearchAnswers
<1>3. Hits \in SUBSET Externals /\ Hits \cap w = {}
  BY <1>1 DEF Hits, Flagged
<1> DEFINE seen == ask[a].seen \cup Hits
<1>4. seen \in SUBSET Externals
  BY <1>1, <1>3 DEF Record
<1>5. q = [ask[a] EXCEPT !.seen = seen]
  OBVIOUS
<1> HIDE DEF seen, q
<1>6. /\ q \in Record
      /\ q.passages = ask[a].passages /\ q.withheld = ask[a].withheld
      /\ q.bodies = ask[a].bodies
      /\ q.fetched = ask[a].fetched /\ q.seen = seen
      /\ q.claims = ask[a].claims
      /\ q.egressLog = ask[a].egressLog /\ q.outgoing = ask[a].outgoing
  BY <1>1, <1>4, <1>5, Zenon DEF Record
<1>7. /\ s \in Record
      /\ s.passages = q.passages /\ s.withheld = q.withheld
      /\ s.bodies = q.bodies
      /\ s.fetched = q.fetched /\ s.seen = q.seen /\ s.claims = q.claims
      /\ s.egressLog = q.egressLog /\ s.outgoing = q.outgoing \cup {Search}
  BY <1>6, SendUpdate DEF Sendable
<1> HIDE DEF s
<1>8. /\ r \in Record /\ r.pc \in {"turn", "tools"}
      /\ r.passages = s.passages /\ r.withheld = s.withheld
      /\ r.bodies = s.bodies /\ r.fetching = Search
      /\ r.fetched = s.fetched /\ r.seen = s.seen /\ r.claims = s.claims
      /\ r.egressLog = s.egressLog /\ r.outgoing = s.outgoing
  BY <1>1, <1>7, AnswerUpdate
<1> HIDE DEF r
<1>9. Fine(r, w, p)
  BY <1>1, <1>3, <1>6, <1>7, <1>8
  DEF Fine, Logged, Withholds, Supported, Blank, Vouches, Unread, Thinking, seen
<1> QED
  BY <1>1, <1>2, <1>8, <1>9, ThreadStep
  DEF SearchAnswers, store, history, Purged, AskInv, TypeOK

\* The request under way goes out, whatever comes of it.
LEMMA RequestAnswered ==
  ASSUME NEW a \in Asks, ask[a] \in Record, NEW w, NEW p, Fine(ask[a], w, p),
         ask[a].pc = "requesting",
         NEW q, q = Sends(ask[a], ask[a].fetching),
         NEW fetched \in SUBSET Externals, fetched \cap w = {},
         NEW r, r = Answered(a, ask[a].fetching, [q EXCEPT !.fetched = fetched])
  PROVE  r \in Record /\ r.pc # "none" /\ Fine(r, w, p)
<1>1. ask[a].fetching \in Sendable
  BY DEF Record, Sendable
<1>2. /\ q \in Record
      /\ q.passages = ask[a].passages /\ q.withheld = ask[a].withheld
      /\ q.bodies = ask[a].bodies /\ q.seen = ask[a].seen
      /\ q.claims = ask[a].claims
      /\ q.egressLog = ask[a].egressLog
      /\ q.outgoing = ask[a].outgoing \cup {ask[a].fetching}
  BY <1>1, SendUpdate
<1> DEFINE s == [q EXCEPT !.fetched = fetched]
<1>3. /\ s \in Record
      /\ s.passages = q.passages /\ s.withheld = q.withheld
      /\ s.bodies = q.bodies
      /\ s.fetched = fetched /\ s.seen = q.seen /\ s.claims = q.claims
      /\ s.egressLog = q.egressLog /\ s.outgoing = q.outgoing
  BY <1>2, Zenon DEF Record
<1>4. r = Answered(a, ask[a].fetching, s)
  OBVIOUS
<1> HIDE DEF s
<1>5. /\ r \in Record /\ r.pc \in {"turn", "tools"}
      /\ r.passages = s.passages /\ r.withheld = s.withheld
      /\ r.bodies = s.bodies /\ r.fetching = Search
      /\ r.fetched = s.fetched /\ r.seen = s.seen /\ r.claims = s.claims
      /\ r.egressLog = s.egressLog /\ r.outgoing = s.outgoing
  BY <1>3, <1>4, AnswerUpdate
<1>6. /\ Logged(ask[a]) /\ Withholds(ask[a], w) /\ Supported(ask[a])
      /\ Vouches(ask[a], p)
      /\ ask[a].fetching \in ask[a].egressLog
  BY DEF Fine, Logged
<1>7. Logged(r)
  BY <1>2, <1>3, <1>5, <1>6 DEF Logged, Thinking
<1>8. Withholds(r, w)
  <2>1. /\ r.passages = ask[a].passages /\ r.withheld = ask[a].withheld
        /\ r.bodies = ask[a].bodies /\ r.seen = ask[a].seen
        /\ r.fetched = fetched /\ r.fetching = Search
    BY <1>2, <1>3, <1>5
  <2>2. r.pc \in Thinking /\ ask[a].pc \in Thinking
    BY <1>5 DEF Thinking
  <2> QED
    BY <1>6, <2>1, <2>2 DEF Withholds
<1>9. Supported(r)
  BY <1>2, <1>3, <1>5, <1>6 DEF Supported
<1>10. Vouches(r, p)
  BY <1>2, <1>3, <1>5, <1>6 DEF Vouches, Unread
<1> QED
  BY <1>5, <1>7, <1>8, <1>9, <1>10 DEF Fine, Blank

LEMMA FetchAnswersKeeps ==
  ASSUME AskInv, NEW a \in Asks, NEW page \in Externals, FetchAnswers(a, page)
  PROVE  AskInv'
<1> DEFINE w == withheldAll[a]
           p == purgedFirst[a]
           q == Sends(ask[a], ask[a].fetching)
           fetched == ask[a].fetched \cup {page}
           r == Answered(a, ask[a].fetching, [q EXCEPT !.fetched = fetched])
<1>1. /\ ask[a] \in Record /\ ask[a].pc = "requesting" /\ Fine(ask[a], w, p)
      /\ w \subseteq Flagged /\ ask[a].fetching # Search
  BY DEF AskInv, TypeOK, FetchAnswers, At
<1>2. page \notin w
  BY <1>1 DEF FetchAnswers, Flagged, Fine, Withholds
<1>3. fetched \in SUBSET Externals /\ fetched \cap w = {}
  BY <1>1, <1>2 DEF Record, Fine, Withholds
<1>4. q.fetched = ask[a].fetched
  BY <1>1, SendUpdate DEF Record, Sendable
<1>5. Becomes(a, r)
  <2>1. Becomes(a, Answered(a, ask[a].fetching, [q EXCEPT !.fetched = @ \cup {page}]))
    BY DEF FetchAnswers
  <2> QED
    BY <2>1, <1>4, Zenon
<1>6. r \in Record /\ r.pc # "none" /\ Fine(r, w, p)
  <2> HIDE DEF q, fetched
  <2>1. q = Sends(ask[a], ask[a].fetching)
    BY DEF q
  <2> QED
    BY <1>1, <1>3, <2>1, RequestAnswered
<1>7. text' \in [Targets -> {"none", "text", "marker"}]
  BY DEF FetchAnswers, AskInv, TypeOK
<1> HIDE DEF r
<1> QED
  BY <1>1, <1>5, <1>6, <1>7, ThreadStep
  DEF FetchAnswers, store, history, Purged, AskInv, TypeOK

LEMMA FetchFailsKeeps ==
  ASSUME AskInv, NEW a \in Asks, FetchFails(a) PROVE AskInv'
<1> DEFINE w == withheldAll[a]
           p == purgedFirst[a]
           q == Sends(ask[a], ask[a].fetching)
           fetched == ask[a].fetched
           r == Answered(a, ask[a].fetching, [q EXCEPT !.fetched = fetched])
<1>1. /\ ask[a] \in Record /\ ask[a].pc = "requesting" /\ Fine(ask[a], w, p)
  BY DEF AskInv, TypeOK, FetchFails, At
<1>2. fetched \in SUBSET Externals /\ fetched \cap w = {}
  BY <1>1 DEF Record, Fine, Withholds
<1>3. q \in Record /\ q.fetched = ask[a].fetched
  BY <1>1, SendUpdate DEF Record, Sendable
<1>4. [q EXCEPT !.fetched = fetched] = q
  <2> HIDE DEF q
  <2> QED
    BY <1>3, Zenon DEF Record
<1>5. Becomes(a, r)
  BY <1>4, Zenon DEF FetchFails
<1>6. r \in Record /\ r.pc # "none" /\ Fine(r, w, p)
  <2> HIDE DEF q, fetched
  <2>1. q = Sends(ask[a], ask[a].fetching)
    BY DEF q
  <2> QED
    BY <1>1, <1>2, <2>1, RequestAnswered
<1> HIDE DEF r
<1> QED
  BY <1>1, <1>5, <1>6, ThreadStep
  DEF FetchFails, store, history, Purged, AskInv, TypeOK

-----------------------------------------------------------------------------
(* The end of a question *)

LEMMA FinalTurnKeeps ==
  ASSUME AskInv, NEW a \in Asks, NEW claims \in SUBSET Claims,
         FinalTurn(a, claims)
  PROVE  AskInv'
<1> DEFINE w == withheldAll[a]
           p == purgedFirst[a]
           bodies == ask[a].bodies \cup FetchedBodies(a)
<1>1. /\ ask[a] \in Record /\ ask[a].pc = "turn" /\ Fine(ask[a], w, p)
      /\ p \subseteq Purged
  BY DEF AskInv, TypeOK, FinalTurn, At
<1>2. bodies \in SUBSET Targets /\ bodies \cap w = {} /\ bodies \cap p = {}
  BY <1>1 DEF Record, Fine, Withholds, Vouches, FetchedBodies, Purged, Targets
<1>3. PICK kept \in Survivors(claims, bodies) :
        Becomes(a, [Unasked EXCEPT !.pc = "finishing", !.claims = kept,
                                   !.bodies = IF kept = {} THEN {} ELSE bodies])
  BY DEF FinalTurn
<1> DEFINE read == IF kept = {} THEN {} ELSE bodies
           r == [Unasked EXCEPT !.pc = "finishing", !.claims = kept,
                                !.bodies = read]
<1>4. Becomes(a, r)
  BY <1>3
<1>5. /\ kept \in SUBSET Claims /\ read \in SUBSET Targets
      /\ read \cap w = {} /\ read \cap p = {}
      /\ \A c \in kept : \A s \in c : s.quote = "text" /\ s.target \in read
  BY <1>2 DEF Survivors, Verified
<1> HIDE DEF read
<1>6. r \in Record
  BY <1>5, NothingAsked, Zenon DEF Record
<1>7. Fine(r, w, p)
  BY <1>5
  DEF Unasked, Fine, Logged, Withholds, Supported, Blank, Vouches, Unread, Thinking
<1>8. r.pc = "finishing"
  BY DEF Unasked
<1> HIDE DEF r
<1> QED
  BY <1>1, <1>4, <1>6, <1>7, <1>8, ThreadStep
  DEF FinalTurn, store, history, Purged, AskInv, TypeOK

\* The answer of the newest question is shown; any other thread ends unseen.
LEMMA FinishKeeps ==
  ASSUME AskInv, NEW a \in Asks, Finish(a) PROVE AskInv'
<1> DEFINE w == withheldAll[a]
           p == purgedFirst[a]
           q == [ask[a] EXCEPT !.pc = "done"]
           r == IF IsNewest(a) THEN q ELSE Ended
<1>1. /\ ask[a] \in Record /\ ask[a].pc = "finishing" /\ Fine(ask[a], w, p)
      /\ w \subseteq Targets /\ p \subseteq Targets
  BY DEF AskInv, TypeOK, Finish, At
<1>2. /\ q \in Record /\ q.pc = "done"
      /\ q.passages = ask[a].passages /\ q.withheld = ask[a].withheld
      /\ q.bodies = ask[a].bodies /\ q.fetching = ask[a].fetching
      /\ q.fetched = ask[a].fetched /\ q.seen = ask[a].seen
      /\ q.claims = ask[a].claims
      /\ q.egressLog = ask[a].egressLog /\ q.outgoing = ask[a].outgoing
  BY <1>1, PcUpdate DEF Pcs
<1>3. Becomes(a, r)
  BY DEF Finish, Goes
<1> HIDE DEF q
<1>4. Fine(q, w, p)
  BY <1>1, <1>2
  DEF Fine, Logged, Withholds, Supported, Blank, Vouches, Unread, Thinking
<1>5. r \in Record /\ r.pc = "done" /\ Fine(r, w, p)
  BY <1>1, <1>2, <1>4, NothingAsked
<1> HIDE DEF r
<1>6. /\ ask' \in [Asks -> Record]
      /\ \A b \in Asks : b > generation' <=> ask'[b].pc = "none"
      /\ \A b \in Asks : /\ Fine(ask'[b], withheldAll'[b], purgedFirst'[b])
                        /\ withheldAll'[b] \subseteq Flagged'
                        /\ purgedFirst'[b] \subseteq Purged'
  BY <1>1, <1>3, <1>5, ThreadKeeps
  DEF Finish, store, history, Purged, AskInv, TypeOK
<1>7. a \in 0..generation /\ a # NoAsk
  BY <1>1 DEF AskInv, TypeOK, Asks, NoAsk
<1>8. TypeOK'
  BY <1>6, <1>7 DEF Finish, store, history, AskInv, TypeOK
<1>9. \A b \in Asks : ask'[b].pc = IF b = a THEN "done" ELSE ask[b].pc
  BY <1>3, <1>5 DEF Becomes, AskInv, TypeOK
<1>10. ScreenIsSettled'
  <2>1. CASE IsNewest(a)
    <3>1. result' = a /\ rendered' = a /\ generation' = a
      BY <2>1 DEF Finish, IsNewest
    <3>2. confirming = NoAsk
      BY <1>1, <1>7, <2>1 DEF AskInv, TypeOK, ScreenIsSettled, IsNewest
    <3> QED
      BY <3>1, <3>2, <1>7, <1>9 DEF Finish, ScreenIsSettled
  <2>2. CASE ~IsNewest(a)
    BY <2>2, <1>9 DEF Finish, AskInv, TypeOK, ScreenIsSettled, Asks, NoAsk
  <2> QED
    BY <2>1, <2>2
<1> QED
  BY <1>6, <1>8, <1>10 DEF Finish, AskInv, SavedAsConfirmed

LEMMA AskRaisesKeeps ==
  ASSUME AskInv, NEW a \in Asks, AskRaises(a) PROVE AskInv'
<1>1. ask[a].pc \in {"retrieving", "resolving"} \cup Thinking /\ Becomes(a, Ended)
  BY DEF AskRaises
<1>2. /\ Ended \in Record /\ Ended.pc = "done"
      /\ Fine(Ended, withheldAll[a], purgedFirst[a])
  BY NothingAsked DEF AskInv, TypeOK
<1> QED
  BY <1>1, <1>2, ThreadStep
  DEF AskRaises, store, history, Purged, AskInv, TypeOK, Thinking

\* The screen loses an answer only to the question in its place, which has
\* not come to its end.
LEMMA NoCredentialsKeeps ==
  ASSUME AskInv, NEW a \in Asks, NoCredentials(a) PROVE AskInv'
<1>1. ask[a].pc = "sending" /\ Becomes(a, Ended)
  BY DEF NoCredentials, At
<1>2. /\ Ended \in Record /\ Ended.pc = "done"
      /\ Fine(Ended, withheldAll[a], purgedFirst[a])
  BY NothingAsked DEF AskInv, TypeOK
<1>3. /\ ask' \in [Asks -> Record]
      /\ \A b \in Asks : b > generation' <=> ask'[b].pc = "none"
      /\ \A b \in Asks : /\ Fine(ask'[b], withheldAll'[b], purgedFirst'[b])
                        /\ withheldAll'[b] \subseteq Flagged'
                        /\ purgedFirst'[b] \subseteq Purged'
  BY <1>1, <1>2, ThreadKeeps
  DEF NoCredentials, store, history, Purged, AskInv, TypeOK
<1>4. TypeOK'
  BY <1>3 DEF NoCredentials, store, history, AskInv, TypeOK, NoAsk
<1>5. \A b \in Asks : ask'[b].pc = IF b = a THEN "done" ELSE ask[b].pc
  BY <1>1, <1>2 DEF Becomes, AskInv, TypeOK
<1>6. ScreenIsSettled'
  BY <1>1, <1>5
  DEF NoCredentials, IsNewest, AskInv, TypeOK, ScreenIsSettled, Asks, NoAsk
<1> QED
  BY <1>3, <1>4, <1>6 DEF NoCredentials, AskInv, SavedAsConfirmed

-----------------------------------------------------------------------------
(* The user, and the rest of the program *)

\* A new question starts with an empty record, and what is flagged now is what
\* may stay flagged.
LEMMA SubmitKeeps ==
  ASSUME AskInv, Submit PROVE AskInv'
<1> DEFINE new == generation + 1
           blank == [Unasked EXCEPT !.pc = "retrieving"]
<1>1. new \in Asks /\ new # NoAsk /\ generation' = new /\ generation \in Nat
  BY AskAssumption DEF Submit, AskInv, TypeOK, Asks, NoAsk
<1>2. ask[new] = Unasked
  BY <1>1 DEF AskInv, TypeOK, Fine, Blank
<1>3. blank \in Record /\ blank.pc = "retrieving" /\ \A w, p : Fine(blank, w, p)
  <2>1. blank \in Record /\ blank.pc = "retrieving"
    BY NothingAsked, PcUpdate DEF Pcs
  <2>2. \A w, p : Fine(blank, w, p)
    BY
    DEF Unasked, Fine, Logged, Withholds, Supported, Blank, Vouches, Unread, Thinking
  <2> QED
    BY <2>1, <2>2
<1> HIDE DEF blank
<1>4. \A a \in Asks : ask'[a] = IF a = new THEN blank
                                ELSE IF ask[a].pc = "done" THEN Ended ELSE ask[a]
  BY <1>1, <1>2 DEF Submit, blank
<1>5. \A a \in Asks : withheldAll'[a] = IF a = new THEN Flagged ELSE withheldAll[a]
  BY <1>1 DEF Submit, Flagged, AskInv, TypeOK
<1>6. ask' \in [Asks -> Record] /\ withheldAll' \in [Asks -> SUBSET Targets]
  <2>1. \A a \in Asks : ask'[a] \in Record /\ withheldAll'[a] \in SUBSET Targets
    <3>1. Flagged \in SUBSET Targets
      BY DEF Flagged
    <3>2. \A a \in Asks : ask[a] \in Record /\ withheldAll[a] \in SUBSET Targets
      BY DEF AskInv, TypeOK
    <3> HIDE DEF new
    <3> QED
      BY <1>3, <1>4, <1>5, <3>1, <3>2, NothingAsked
  <2> QED
    BY <2>1 DEF Submit, AskInv, TypeOK
<1>7. \A a \in Asks : a > generation' <=> ask'[a].pc = "none"
  <2> SUFFICES ASSUME NEW a \in Asks
               PROVE  a > generation' <=> ask'[a].pc = "none"
    OBVIOUS
  <2>1. a > generation <=> ask[a].pc = "none"
    BY DEF AskInv, TypeOK
  <2> QED
    BY <2>1, <1>1, <1>3, <1>4, NothingAsked DEF Asks
<1>8. TypeOK'
  BY <1>1, <1>6, <1>7 DEF Submit, store, history, AskInv, TypeOK, NoAsk, Asks
<1>9. \A a \in Asks : /\ Fine(ask'[a], withheldAll'[a], purgedFirst'[a])
                     /\ withheldAll'[a] \subseteq Flagged'
                     /\ purgedFirst'[a] \subseteq Purged'
  BY <1>3, <1>4, <1>5, NothingAsked
  DEF Submit, store, Flagged, Purged, AskInv, TypeOK
<1> QED
  BY <1>8, <1>9
  DEF Submit, AskInv, TypeOK, ScreenIsSettled, SavedAsConfirmed, NoAsk

LEMMA SaveAsNoteKeeps ==
  ASSUME AskInv, SaveAsNote PROVE AskInv'
<1>1. TypeOK'
  BY DEF SaveAsNote, store, history, AskInv, TypeOK
<1> QED
  BY <1>1
  DEF SaveAsNote, store, history, AskInv, ScreenIsSettled, SavedAsConfirmed, Flagged, Purged

LEMMA ConfirmKeeps ==
  ASSUME AskInv, NEW yes \in BOOLEAN, Confirm(yes) PROVE AskInv'
<1>1. confirming \in Asks /\ rendered = confirming /\ confirming' = NoAsk
  BY AskAssumption DEF Confirm, AskInv, TypeOK, ScreenIsSettled, Asks, NoAsk
<1>2. saved' \subseteq [confirmed : Asks, body : 0..MaxAsks] /\ SavedAsConfirmed'
  BY <1>1, AskAssumption DEF Confirm, AskInv, TypeOK, SavedAsConfirmed, Asks
<1>3. TypeOK'
  BY <1>1, <1>2 DEF Confirm, store, history, AskInv, TypeOK, NoAsk
<1> QED
  BY <1>1, <1>2, <1>3
  DEF Confirm, store, history, AskInv, ScreenIsSettled, Flagged, Purged

\* What held of more targets holds of fewer.
LEMMA FewerFlagged ==
  ASSUME NEW r, NEW w, NEW p, NEW v \in SUBSET w, Fine(r, w, p)
  PROVE  Fine(r, v, p)
  BY DEF Fine, Withholds

LEMMA SetNoEgressKeeps ==
  ASSUME AskInv, NEW t \in Targets, SetNoEgress(t) PROVE AskInv'
<1>1. \A a \in Asks : withheldAll'[a] = withheldAll[a] \ {t}
  BY DEF SetNoEgress
<1>2. \A a \in Asks : Fine(ask[a], withheldAll'[a], purgedFirst[a])
  BY <1>1, FewerFlagged DEF AskInv
<1>3. \A a \in Asks : withheldAll'[a] \subseteq Flagged'
  BY <1>1 DEF SetNoEgress, AskInv, TypeOK, Flagged
<1>4. TypeOK'
  BY <1>1, AskAssumption DEF SetNoEgress, screen, AskInv, TypeOK
<1>5. UNCHANGED purgedFirst /\ Purged' = Purged
  BY DEF SetNoEgress, Purged
<1> QED
  BY <1>2, <1>3, <1>4, <1>5
  DEF SetNoEgress, screen, AskInv, ScreenIsSettled, SavedAsConfirmed

LEMMA PurgeKeeps ==
  ASSUME AskInv, NEW t \in Targets, Purge(t) PROVE AskInv'
<1>1. TypeOK'
  BY AskAssumption DEF Purge, screen, AskInv, TypeOK
<1>2. \A u \in Targets : text'[u] = IF u = t THEN "marker" ELSE text[u]
  BY DEF Purge, AskInv, TypeOK
<1>3. t \in Purged' /\ Purged \subseteq Purged'
  BY <1>2 DEF Purged
<1>4. ASSUME NEW a \in Asks
      PROVE  Fine(ask[a], withheldAll[a], purgedFirst'[a]) /\ purgedFirst'[a] \subseteq Purged'
  <2>1. Fine(ask[a], withheldAll[a], purgedFirst[a])
        /\ purgedFirst[a] \subseteq Purged
    BY DEF AskInv
  <2>2. purgedFirst'[a] = IF ask[a].pc \in Unread THEN purgedFirst[a] \cup {t}
                          ELSE purgedFirst[a]
    BY DEF Purge
  <2> QED
    BY <1>3, <2>1, <2>2 DEF Fine, Vouches
<1> QED
  BY <1>1, <1>4
  DEF Purge, screen, AskInv, ScreenIsSettled, SavedAsConfirmed, Flagged

-----------------------------------------------------------------------------

LEMMA ThreadKeepsInv ==
  ASSUME AskInv, NEW a \in Asks, Thread(a) PROVE AskInv'
<1>1. CASE Retrieve(a) \/ Resolve(a) \/ SendPassages(a)
  BY <1>1, RetrieveKeeps, ResolveKeeps, SendPassagesKeeps
<1>2. CASE \E calls \in SUBSET (Externals \cup {Search}) \ {{}} : FreeTurn(a, calls)
  BY <1>2, FreeTurnKeeps
<1>3. CASE \E call \in Externals \cup {Search} :
             ToolRefused(a, call) \/ ToolDenied(a, call) \/ ToolLogged(a, call)
  BY <1>3, ToolRefusedKeeps, ToolDeniedKeeps, ToolLoggedKeeps
<1>4. CASE \/ SearchAnswers(a) \/ FetchFails(a)
           \/ \E page \in Externals : FetchAnswers(a, page)
  BY <1>4, SearchAnswersKeeps, FetchFailsKeeps, FetchAnswersKeeps
<1>5. CASE FinalTurn(a, {}) \/ \E claim \in Claims : FinalTurn(a, {claim})
  BY <1>5, FinalTurnKeeps
<1>6. CASE Finish(a)
  BY <1>6, FinishKeeps
<1> QED
  BY <1>1, <1>2, <1>3, <1>4, <1>5, <1>6 DEF Thread, ToolTurns

LEMMA NextAskInv == AskInv /\ [Next]_vars => AskInv'
<1> SUFFICES ASSUME AskInv, [Next]_vars PROVE AskInv'
  OBVIOUS
<1>1. CASE \E a \in Asks : Thread(a) \/ AskRaises(a) \/ NoCredentials(a)
  BY <1>1, ThreadKeepsInv, AskRaisesKeeps, NoCredentialsKeeps
<1>2. CASE User
  BY <1>2, SubmitKeeps, SaveAsNoteKeeps, ConfirmKeeps DEF User
<1>3. CASE \E t \in Targets : SetNoEgress(t) \/ Purge(t)
  BY <1>3, SetNoEgressKeeps, PurgeKeeps
<1>4. CASE UNCHANGED vars
  BY <1>4
  DEF vars, AskInv, TypeOK, Flagged, Purged, ScreenIsSettled, SavedAsConfirmed
<1> QED
  BY <1>1, <1>2, <1>3, <1>4 DEF Next

\* Every reachable state satisfies the inductive invariant.
THEOREM AskInvariant == Spec => []AskInv
  BY InitAskInv, NextAskInv, PTL DEF Spec

\* The state keeps its types; in particular, the call budget and the free
\* turns of a question are never exceeded.
THEOREM AskTypeCorrect == Spec => []TypeOK
<1>1. AskInv => TypeOK
  BY DEF AskInv
<1> QED
  BY <1>1, AskInvariant, PTL

\* What is flagged from before a question until now has not been sent for it,
\* returned by its search, nor quoted by its answer.
THEOREM FlaggedStaysHome == Spec => []WithheldStaysHome
<1>1. AskInv => WithheldStaysHome
  <2> SUFFICES ASSUME AskInv, NEW a \in Asks
               PROVE  /\ ask[a].pc \notin Unread =>
                           Sent(a) \cap withheldAll[a] = {}
                      /\ ask[a].seen \cap withheldAll[a] = {}
                      /\ ask[a].pc \in {"finishing", "done"} =>
                           \A c \in ask[a].claims : \A s \in c :
                             s.target \notin withheldAll[a]
    BY DEF WithheldStaysHome
  <2>1. Fine(ask[a], withheldAll[a], purgedFirst[a]) /\ ask[a].pc \in Pcs
    BY DEF AskInv, TypeOK, Record, Pcs
  <2> QED
    BY <2>1 DEF Sent, Fine, Withholds, Supported, Unread, Pcs
<1> QED
  BY <1>1, AskInvariant, PTL

\* What was purged before a question read its bodies is not quoted to the
\* user, though the model may have been sent it.
THEOREM PurgedStaysUnquoted == Spec => []PurgedIsNotShown
<1>1. AskInv => PurgedIsNotShown
  <2> SUFFICES ASSUME AskInv, NEW a \in Asks, NEW c \in ask[a].claims, NEW s \in c
               PROVE  s.target \notin purgedFirst[a]
    BY DEF PurgedIsNotShown
  <2>1. Supported(ask[a]) /\ Vouches(ask[a], purgedFirst[a])
    BY DEF AskInv, Fine
  <2> QED
    BY <2>1 DEF Supported, Vouches
<1> QED
  BY <1>1, AskInvariant, PTL

\* No request of any question is without its row in the egress log.
THEOREM SendsAreLogged == Spec => []EverySendIsLogged
<1>1. AskInv => EverySendIsLogged
  BY DEF AskInv, EverySendIsLogged, Fine, Logged
<1> QED
  BY <1>1, AskInvariant, PTL

\* A note made of an answer holds the answer the user confirmed.
THEOREM ConfirmedIsSaved == Spec => []SavedAsConfirmed
<1>1. AskInv => SavedAsConfirmed
  BY DEF AskInv
<1> QED
  BY <1>1, AskInvariant, PTL
=============================================================================
