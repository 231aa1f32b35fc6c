-------------------------------- MODULE Ask --------------------------------
(***************************************************************************)
(* A question asked on the Ask screen: a background thread retrieves,       *)
(* gates and logs what it sends, lets the model search and fetch within a   *)
(* budget, drops the claims it cannot verify and hands the answer to the    *)
(* screen, while the user asks again, saves an answer as a note, marks      *)
(* targets no_egress, and purges. A superseded thread cannot be stopped.    *)
(*                                                                         *)
(* A target is a version or a snapshot, so its text never changes except by *)
(* a purge. The model is a box that may claim anything: a claim is a set of *)
(* supports, each quoting what its target says ("text") or not ("other").   *)
(***************************************************************************)
EXTENDS Naturals, FiniteSets

CONSTANTS
  Notes,      \* note versions
  Mirrored,   \* snapshots of externals mirrored before the question
  Pages,      \* pages only a fetch of this question brings in
  Search,     \* the other tool call
  ToolBudget, \* settings.ask_tool_budget
  MaxTurns,   \* max_tool_turns
  MaxAsks,    \* bound: questions
  MaxEvents   \* bound: no_egress flips and purges

ASSUME AskAssumption ==
  /\ Search \notin Mirrored \cup Pages
  /\ ToolBudget \in Nat /\ MaxTurns \in Nat /\ MaxAsks \in Nat /\ MaxEvents \in Nat

Externals == Mirrored \cup Pages
Targets == Notes \cup Externals
Asks == 1..MaxAsks
NoAsk == 0
Supports == [target : Targets, quote : {"text", "other"}]
Claims == {c \in SUBSET Supports : Cardinality(c) \in 1..2}

VARIABLES
  text,        \* what each target's row says: "none", "text" or "marker"
  noEgress,    \* the no_egress flags
  ask,         \* what the thread of each question holds
  generation,  \* the screen: the newest question,
  result,      \* the answer it holds for citations and saving,
  rendered,    \* the text of the last answer it showed,
  confirming,  \* and the answer whose save it is asking the user to confirm
  app,         \* "open", or "exited" by an exception
  saved,       \* notes made of answers: what was confirmed, what was saved
  withheldAll, \* history: targets flagged ever since the ask began,
  purgedFirst, \* and those purged before its thread read the bodies
  events       \* flips and purges so far

vars == <<text, noEgress, ask, generation, result, rendered, confirming, app,
          saved, withheldAll, purgedFirst, events>>
store == <<text, noEgress, events>>
screen == <<generation, result, rendered, confirming, saved>>
history == <<withheldAll, purgedFirst>>

\* egressLog: the rows of egress_log written for the question, which nothing
\* reads; outgoing is history, the requests made for it.
Unasked ==
  [pc |-> "none", passages |-> {}, withheld |-> {}, bodies |-> {}, turns |-> 0,
   used |-> 0, calls |-> {}, fetching |-> Search, fetched |-> {}, seen |-> {},
   claims |-> {}, egressLog |-> {}, outgoing |-> {}]

Ended == [Unasked EXCEPT !.pc = "done"]

Init ==
  /\ text = [t \in Targets |-> IF t \in Pages THEN "none" ELSE "text"]
  /\ noEgress \in [Targets -> BOOLEAN]
  /\ ask = [a \in Asks |-> Unasked]
  /\ generation = NoAsk /\ result = NoAsk /\ rendered = NoAsk
  /\ confirming = NoAsk /\ app = "open" /\ saved = {}
  /\ withheldAll = [a \in Asks |-> {}] /\ purgedFirst = [a \in Asks |-> {}]
  /\ events = 0

-----------------------------------------------------------------------------
(* The thread of a question *)

At(a, pc) == app = "open" /\ ask[a].pc = pc
Unread == {"none", "retrieving", "resolving"}
Thinking == {"sending", "turn", "tools", "requesting"}
Becomes(a, r) == ask' = [ask EXCEPT ![a] = r]
Goes(a, pc) == Becomes(a, [ask[a] EXCEPT !.pc = pc])
Sends(r, what) == [r EXCEPT !.outgoing = @ \cup {what}]
Logs(r, what) == [r EXCEPT !.egressLog = @ \cup {what}]

\* _retrieve: the passages of what the legs find, whatever its flag, and
\* with the text it had when it was indexed, though it was purged since.
Retrieve(a) ==
  /\ At(a, "retrieving")
  /\ \E found \in SUBSET {t \in Targets : text[t] # "none"} :
       Becomes(a, [ask[a] EXCEPT !.pc = "resolving", !.passages = found])
  /\ UNCHANGED <<app, history>>
  /\ UNCHANGED store /\ UNCHANGED screen

\* Slip: the bodies of withheld targets are kept for verification too.
AllBodies(a) == {t \in ask[a].passages : text[t] = "text"}

\* Slip: quotes are verified against the passages that were sent.
PassageTexts(a) == {t \in ask[a].passages : ~noEgress[t]}

\* The bodies cited_answer.ask verifies against, as the store has them now: of
\* a purged target, the marker, which no quote of its text is in.
Bodies(a) == {t \in ask[a].passages : text[t] = "text" /\ ~noEgress[t]}

\* _resolve_targets, partition_egress and the audit row of gate_qa_egress:
\* flags and bodies are read once, and the passages of flagged targets
\* become withheld citations.
Resolve(a) ==
  LET withheld == {t \in ask[a].passages : noEgress[t]} IN
  /\ At(a, "resolving")
  /\ Becomes(a, Logs([ask[a] EXCEPT !.pc = "sending", !.withheld = withheld,
                                     !.bodies = Bodies(a)], "passages"))
  /\ UNCHANGED <<app, history>>
  /\ UNCHANGED store /\ UNCHANGED screen

\* The call of the model: the first request, and every further turn.
Sent(a) == ask[a].passages \ ask[a].withheld

SendPassages(a) ==
  /\ At(a, "sending")
  /\ Becomes(a, Sends([ask[a] EXCEPT !.pc = "turn"], "passages"))
  /\ UNCHANGED <<app, history>>
  /\ UNCHANGED store /\ UNCHANGED screen

-----------------------------------------------------------------------------
(* Free tool turns *)

\* Slip: the free turns are not counted.
CountNoTurn(a) == ask[a].turns

CountTurn(a) == ask[a].turns + 1

\* A turn asks for tools, in blocks dispatched one after another ...
FreeTurn(a, calls) ==
  /\ At(a, "turn") /\ ask[a].turns < MaxTurns
  /\ Becomes(a, [ask[a] EXCEPT !.pc = "tools", !.calls = calls,
                                !.turns = CountTurn(a)])
  /\ UNCHANGED <<app, history>>
  /\ UNCHANGED store /\ UNCHANGED screen

\* The call is answered; after the last of a turn the model has its next.
Answered(a, call, r) ==
  LET rest == ask[a].calls \ {call}
  IN [r EXCEPT !.calls = rest, !.fetching = Search,
               !.pc = IF rest = {} THEN "turn" ELSE "tools"]

HasBudget(a) == ask[a].used < ToolBudget
Consumed(a) == [ask[a] EXCEPT !.used = @ + 1]

\* ToolBudget.consume is FALSE: the model is told so and nothing goes out.
ToolRefused(a, call) ==
  /\ At(a, "tools") /\ call \in ask[a].calls /\ ~HasBudget(a)
  /\ Becomes(a, Answered(a, call, ask[a]))
  /\ UNCHANGED <<app, history>>
  /\ UNCHANGED store /\ UNCHANGED screen

\* fetch_for_ask of a no_egress target: an error, after the call was charged.
ToolDenied(a, call) ==
  /\ At(a, "tools") /\ call \in ask[a].calls /\ HasBudget(a)
  /\ call # Search /\ noEgress[call]
  /\ Becomes(a, Answered(a, call, Consumed(a)))
  /\ UNCHANGED <<app, history>>
  /\ UNCHANGED store /\ UNCHANGED screen

\* Slip: the request goes out before its audit row.
LogsLate(r, call) == Sends(r, call)

\* log_tool_egress comes before the request.
LogsFirst(r, call) == Logs(r, call)

ToolLogged(a, call) ==
  /\ At(a, "tools") /\ call \in ask[a].calls /\ HasBudget(a)
  /\ call # Search => ~noEgress[call]
  /\ Becomes(a, LogsFirst([Consumed(a) EXCEPT !.pc = "requesting", !.fetching = call],
                          call))
  /\ UNCHANGED <<app, history>>
  /\ UNCHANGED store /\ UNCHANGED screen

\* Hits that are not denied; ids and titles reach the model.
Hits == {t \in Externals : ~noEgress[t]}

SearchAnswers(a) ==
  /\ At(a, "requesting") /\ ask[a].fetching = Search
  /\ Becomes(a, Answered(a, Search, Sends([ask[a] EXCEPT !.seen = @ \cup Hits], Search)))
  /\ UNCHANGED <<app, history>>
  /\ UNCHANGED store /\ UNCHANGED screen

\* The page answers, where a web page may have moved to another one, which is
\* checked again; the snapshot is ingested and becomes citable. An
\* identical text dedups into the snapshot there was.
FetchAnswers(a, page) ==
  /\ At(a, "requesting") /\ ask[a].fetching # Search
  /\ \/ page = ask[a].fetching
     \/ page \in Pages /\ ~noEgress[page]
  /\ text[page] # "marker"
  /\ text' = [text EXCEPT ![page] = "text"]
  /\ LET r == Sends(ask[a], ask[a].fetching)
     IN Becomes(a, Answered(a, ask[a].fetching, [r EXCEPT !.fetched = @ \cup {page}]))
  /\ UNCHANGED <<noEgress, events, app, history>> /\ UNCHANGED screen

\* The request fails, or the page it moved to is denied.
FetchFails(a) ==
  /\ At(a, "requesting") /\ ask[a].fetching # Search
  /\ Becomes(a, Answered(a, ask[a].fetching, Sends(ask[a], ask[a].fetching)))
  /\ UNCHANGED <<app, history>>
  /\ UNCHANGED store /\ UNCHANGED screen

-----------------------------------------------------------------------------
(* The gate and the screen *)

\* Slip: one quote that occurs verifies the claim.
VerifiedSomewhere(claim, bodies) ==
  \E s \in claim : s.target \in bodies /\ s.quote = "text"

\* claim_spans_verified: every quote occurs in the body of its target.
Verified(claim, bodies) ==
  \A s \in claim : s.target \in bodies /\ s.quote = "text"

\* _claim_survives: coupling and entailment may reject any verified claim.
Survivors(claims, bodies) == SUBSET {c \in claims : Verified(c, bodies)}

\* _resolve_tool_snapshots: what was fetched since is read after the last turn.
FetchedBodies(a) == {t \in ask[a].fetched : text[t] = "text"}

\* The model asks for no tools, or its turns are spent: one forced turn gives
\* the claims, whatever it makes up, and apply_gate drops those that do not
\* survive. What the thread keeps is the answer.
FinalTurn(a, claims) ==
  LET bodies == ask[a].bodies \cup FetchedBodies(a) IN
  /\ At(a, "turn")
  /\ \E kept \in Survivors(claims, bodies) :
       Becomes(a, [Unasked EXCEPT !.pc = "finishing", !.claims = kept,
                                  !.bodies = IF kept = {} THEN {} ELSE bodies])
  /\ UNCHANGED <<app, history>>
  /\ UNCHANGED store /\ UNCHANGED screen

\* Slip: an answer is shown whichever question it is for.
IsAnyAsk(a) == TRUE

\* The check of _finish.
IsNewest(a) == a = generation

\* _finish on the app's thread; a superseded answer is dropped.
Finish(a) ==
  /\ At(a, "finishing")
  /\ IF IsNewest(a) THEN Goes(a, "done") ELSE Becomes(a, Ended)
  /\ result' = IF IsNewest(a) THEN a ELSE result
  /\ rendered' = IF IsNewest(a) THEN a ELSE rendered
  /\ UNCHANGED <<app, history, generation, confirming, saved>>
  /\ UNCHANGED store

\* Anything raised but AuthError ends the app: a locked store, a provider
\* error, the run's deadline, an unknown tool. AuthError brings the placeholder back.
AskRaises(a) ==
  /\ app = "open" /\ ask[a].pc \in {"retrieving", "resolving"} \cup Thinking
  /\ app' = "exited" /\ Becomes(a, Ended)
  /\ UNCHANGED history
  /\ UNCHANGED store /\ UNCHANGED screen

NoCredentials(a) ==
  /\ At(a, "sending") /\ Becomes(a, Ended)
  /\ rendered' = IF IsNewest(a) THEN NoAsk ELSE rendered
  /\ UNCHANGED <<app, history, generation, result, confirming, saved>>
  /\ UNCHANGED store

Submit ==
  /\ app = "open" /\ confirming = NoAsk /\ generation < MaxAsks
  /\ generation' = generation + 1 /\ result' = NoAsk
  /\ ask' = [a \in Asks |->
              IF a = generation' THEN [ask[a] EXCEPT !.pc = "retrieving"]
              ELSE IF ask[a].pc = "done" THEN Ended ELSE ask[a]]
  /\ withheldAll' = [withheldAll EXCEPT ![generation'] = {t \in Targets : noEgress[t]}]
  /\ UNCHANGED <<app, purgedFirst, rendered, confirming, saved>>
  /\ UNCHANGED store

\* action_save_as_note: the modal shows the rendered text.
SaveAsNote ==
  /\ app = "open" /\ confirming = NoAsk
  /\ result # NoAsk /\ ask[result].claims # {}
  /\ confirming' = rendered
  /\ UNCHANGED <<app, ask, history, generation, result, rendered, saved>>
  /\ UNCHANGED store

\* The note is made of the text rendered when the user confirms.
Confirm(yes) ==
  /\ app = "open" /\ confirming # NoAsk
  /\ saved' = IF yes THEN saved \cup {[confirmed |-> confirming, body |-> rendered]}
              ELSE saved
  /\ confirming' = NoAsk
  /\ UNCHANGED <<app, ask, history, generation, result, rendered>>
  /\ UNCHANGED store

-----------------------------------------------------------------------------
(* The rest of the program *)

SetNoEgress(t) ==
  /\ events < MaxEvents /\ events' = events + 1
  /\ noEgress' = [noEgress EXCEPT ![t] = ~@]
  /\ withheldAll' = [a \in Asks |-> withheldAll[a] \ {t}]
  /\ UNCHANGED <<text, app, ask, purgedFirst>> /\ UNCHANGED screen

\* The marker takes the place of the text; the passages and the legs keep
\* what they were made of.
Purge(t) ==
  /\ events < MaxEvents /\ events' = events + 1
  /\ t \in Notes /\ text[t] = "text"
  /\ text' = [text EXCEPT ![t] = "marker"]
  /\ purgedFirst' = [a \in Asks |-> IF ask[a].pc \in Unread THEN purgedFirst[a] \cup {t}
                                   ELSE purgedFirst[a]]
  /\ UNCHANGED <<noEgress, app, ask, withheldAll>> /\ UNCHANGED screen

-----------------------------------------------------------------------------

\* run_tool_turns: free turns until the model asks for no tool, then the
\* forced one.
ToolTurns(a) ==
  \/ \E calls \in SUBSET (Externals \cup {Search}) \ {{}} : FreeTurn(a, calls)
  \/ \E call \in Externals \cup {Search} :
       ToolRefused(a, call) \/ ToolDenied(a, call) \/ ToolLogged(a, call)
  \/ SearchAnswers(a) \/ FetchFails(a) \/ \E page \in Externals : FetchAnswers(a, page)
  \/ FinalTurn(a, {}) \/ \E claim \in Claims : FinalTurn(a, {claim})

Thread(a) ==
  Retrieve(a) \/ Resolve(a) \/ SendPassages(a) \/ ToolTurns(a) \/ Finish(a)

User == Submit \/ SaveAsNote \/ \E yes \in BOOLEAN : Confirm(yes)

Next ==
  \/ \E a \in Asks : Thread(a) \/ AskRaises(a) \/ NoCredentials(a)
  \/ User
  \/ \E t \in Targets : SetNoEgress(t) \/ Purge(t)

Spec == Init /\ [][Next]_vars

\* A thread of an open app keeps running; every request returns or raises
\* within its timeout.
FairSpec == Spec /\ \A a \in Asks : WF_vars(Thread(a))

-----------------------------------------------------------------------------
(* Properties *)

Sendable == Externals \cup {Search, "passages"}
Record ==
  [pc : {"none", "retrieving", "resolving", "finishing", "done"} \cup Thinking,
   passages : SUBSET Targets, withheld : SUBSET Targets, bodies : SUBSET Targets,
   turns : 0..MaxTurns, used : 0..ToolBudget,
   calls : SUBSET (Externals \cup {Search}), fetching : Externals \cup {Search},
   fetched : SUBSET Externals, seen : SUBSET Externals, claims : SUBSET Claims,
   egressLog : SUBSET Sendable, outgoing : SUBSET Sendable]

TypeOK ==
  /\ text \in [Targets -> {"none", "text", "marker"}]
  /\ noEgress \in [Targets -> BOOLEAN]
  /\ ask \in [Asks -> Record]
  /\ withheldAll \in [Asks -> SUBSET Targets]
  /\ purgedFirst \in [Asks -> SUBSET Targets]
  /\ generation \in 0..MaxAsks
  /\ \A a \in Asks : a > generation <=> ask[a].pc = "none"
  /\ \A x \in {result, rendered, confirming} : x \in 0..generation
  /\ saved \subseteq [confirmed : Asks, body : 0..MaxAsks]
  /\ app \in {"open", "exited"}
  /\ events \in 0..MaxEvents

\* A target that carried no_egress from before the question on neither
\* reaches the model (as a passage or as a search hit) nor backs a claim the
\* user is shown, though it was retrieved, and even when the model quotes it.
WithheldStaysHome ==
  \A a \in Asks :
    /\ ask[a].pc \notin Unread =>
         Sent(a) \cap withheldAll[a] = {}
    /\ ask[a].seen \cap withheldAll[a] = {}
    /\ ask[a].pc \in {"finishing", "done"} =>
         \A c \in ask[a].claims : \A s \in c : s.target \notin withheldAll[a]

\* No claim the user is shown quotes what was purged before the bodies were
\* read, though the legs found the old text, the model was sent it and may
\* quote it word for word: neither when the purge came before the question,
\* nor when it came between its search and its reading of the bodies.
PurgedIsNotShown ==
  \A a \in Asks :
    \A c \in ask[a].claims : \A s \in c : s.target \notin purgedFirst[a]

\* Nothing leaves the box without an audit row already written, tool calls
\* included, also when the request fails or the app ends on it.
EverySendIsLogged == \A a \in Asks : ask[a].outgoing \subseteq ask[a].egressLog

\* The note the user confirmed is the note that is saved, however many
\* answers arrive late.
SavedAsConfirmed == \A n \in saved : n.body = n.confirmed

\* Every question comes to an end: its answer is on the screen, or a newer
\* question took its place, or the app has said why not.
QuestionsEnd ==
  \A a \in Asks : ask[a].pc = "retrieving" ~> ask[a].pc = "done" \/ app = "exited"
=============================================================================
