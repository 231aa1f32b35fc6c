------------------------------ MODULE Screens ------------------------------
(***************************************************************************)
(* The terminal UI: a stack of screens over the notes, where capture is the *)
(* root, lists open editors, a dialog or a rejected save stands between a   *)
(* key and what it does, and a screen below keeps what it read when it was  *)
(* opened. Another process may change the notes at any time. The related    *)
(* notes panel searches in the background while the user types.             *)
(*                                                                         *)
(* Lists are the browse and the tags screen; a view is a screen that only   *)
(* shows something (ask, config, history), and a peek one that is modal, so *)
(* that only its own keys and ctrl+q work (help, the enrichment inspector). *)
(***************************************************************************)
EXTENDS Naturals, Sequences, SequencesExt

CONSTANTS
  Notes,        \* note ids; one exists when the app starts
  Texts,        \* what a user may type
  MaxDepth,     \* bound: screens on the stack
  MaxTyped,     \* bound: edits of a text area
  MaxElsewhere  \* bound: changes by other processes

Blank == ""
Loaded == "old"
Theirs == "theirs"
NoText == "none"  \* what the panel searches or shows when it does neither

ASSUME ScreensAssumption ==
  /\ Texts \cap {Blank, Loaded, Theirs, NoText} = {}
  /\ MaxDepth \in Nat /\ MaxTyped \in Nat /\ MaxElsewhere \in Nat

Bodies == Texts \cup {Blank, Loaded, Theirs}

VARIABLES
  notes,      \* the head of each note, what it says, and the no_egress flag
  stack,      \* the screens, capture first
  app,        \* "open", "exited", or "crashed" by an exception
  panel,      \* capture's related notes: the debounce, the search, the list
  typed,      \* edits so far
  elsewhere,  \* changes by other processes so far
  lost        \* history: unsaved text closed without a word, TRUE when it was
              \* the text the user was working on, FALSE when it was below

screensVars == <<notes, stack, app, panel, typed, elsewhere, lost>>

Quiet == [timer |-> FALSE, pass |-> NoText, shown |-> NoText]

\* A note that was not captured yet has no head.
Absent == [head |-> 0, body |-> Blank, live |-> FALSE, withheld |-> FALSE]

Capture == [kind |-> "capture", text |-> Blank, pending |-> FALSE]

ScreensInit ==
  /\ \E n \in Notes :
       notes = [m \in Notes |->
                 IF m = n THEN [head |-> 1, body |-> Loaded, live |-> TRUE,
                                withheld |-> FALSE]
                 ELSE Absent]
  /\ stack = <<Capture>> /\ app = "open" /\ panel = Quiet
  /\ typed = 0 /\ elsewhere = 0
  /\ lost = {}

-----------------------------------------------------------------------------
(* The stack *)

Top == Last(stack)
Shows(kinds) == app = "open" /\ Top.kind \in kinds

Lists == {"browse", "tags"}
Editors == {"capture", "edit"}
Dialogs == {"discard", "clear", "delete"}

Modal == Dialogs \cup {"peek"}

\* list_notes and list_notes_with_all_tags: what a row says, of live notes.
Row(n) == [head |-> notes[n].head, withheld |-> notes[n].withheld]

\* A list reads the notes as they are after the step. A search or the
\* selected tags may leave some out.
Read(s) ==
  [s EXCEPT !.at = elsewhere',
     !.rows = [n \in {m \in Notes : notes'[m].live} |->
                 [head |-> notes'[n].head, withheld |-> notes'[n].withheld]]]

\* Slip: a list that has its rows keeps them.
ReadOnce(s) == IF s.kind \in Lists /\ s.rows = <<>> THEN Read(s) ELSE s

\* on_screen_resume of the lists.
Reloaded(s) == IF s.kind \in Lists THEN Read(s) ELSE s

\* Every way back to a screen, dialogs and popups included, resumes it.
Resumed(screens) ==
  Append(Front(screens), Reloaded(Last(screens)))

Below(k) == SubSeq(stack, 1, Len(stack) - k)
Pushes(s) == Len(stack) < MaxDepth /\ stack' = Resumed(Append(stack, s))
Closes(k) == stack' = Resumed(Below(k))

\* A screen holds text that is nowhere else; a rejected save is in a draft
\* file as long as its screen is open.
Unsaved(s) ==
  (s.kind = "capture" /\ s.text # Blank) \/ (s.kind = "edit" /\ s.text # s.body)
Drafted == {stack[i].text : i \in {j \in 1..Len(stack) : stack[j].kind = "reconcile"}}

\* The screens from position k on close. The user works on the one at "own",
\* and its text is settled: saved, or discarded by the user's answer.
Drops(k, own, settled) ==
  lost' = lost \cup
    {i = own : i \in {j \in k..Len(stack) :
                        Unsaved(stack[j]) /\ stack[j].text \notin settled \cup Drafted}}

Pops(k, settled) == Closes(k) /\ Drops(Len(stack) - k + 1, Len(stack) - k + 1, settled)
Exits(own, settled) == app' = "exited" /\ stack' = <<>> /\ Drops(1, own, settled)
Crashes == app' = "crashed" /\ stack' = <<>> /\ UNCHANGED lost

Stays == UNCHANGED <<app, lost>>

-----------------------------------------------------------------------------
(* Moving around *)

List(kind) == [kind |-> kind, rows |-> <<>>, at |-> 0]

\* ctrl+b, ctrl+t, and the keys of the views, from any screen not modal.
OpenList(kind) ==
  /\ app = "open" /\ Top.kind \notin Modal
  /\ UNCHANGED <<notes, panel, typed, elsewhere>>
  /\ Pushes(List(kind)) /\ Stays

OpenView(kind) ==
  /\ app = "open" /\ Top.kind \notin Modal
  /\ UNCHANGED <<notes, panel, typed, elsewhere>>
  /\ Pushes([kind |-> kind]) /\ Stays

\* Escape on a screen with nothing to ask about.
Back ==
  /\ Shows(Lists \cup {"view", "peek"})
  /\ UNCHANGED <<notes, app, panel, typed, elsewhere>>
  /\ Pops(1, {})

\* on_data_table_row_selected, and EditScreen.on_mount, which raises for a
\* note that is gone.
OpenEditor(n) ==
  /\ Shows(Lists) /\ n \in DOMAIN Top.rows
  /\ UNCHANGED <<notes, panel, typed, elsewhere>>
  /\ \/ /\ notes[n].live
        /\ Pushes([kind |-> "edit", note |-> n, head |-> notes[n].head,
                   body |-> notes[n].body, text |-> notes[n].body,
                   withheld |-> notes[n].withheld])
        /\ Stays
     \/ ~notes[n].live /\ Crashes

\* The enrichment inspector, of a row or of the note being edited.
Inspect(n) ==
  /\ \/ Shows({"browse"}) /\ n \in DOMAIN Top.rows
     \/ Shows({"edit"}) /\ n = Top.note
  /\ UNCHANGED <<notes, panel, typed, elsewhere>>
  /\ \/ notes[n].live /\ Pushes([kind |-> "peek"]) /\ Stays
     \/ ~notes[n].live /\ Crashes

-----------------------------------------------------------------------------
(* Typing, and the panel of related notes *)

\* Slip: emptying the text leaves the search that is running.
EmptiedOnly(p, text) ==
  IF text = Blank THEN [Quiet EXCEPT !.pass = p.pass] ELSE [p EXCEPT !.timer = TRUE]

\* update_draft: a blank text cancels the debounce and the search and empties
\* the list; any other restarts the debounce.
Updated(p, text) ==
  IF text = Blank THEN Quiet ELSE [p EXCEPT !.timer = TRUE]

Type(t) ==
  /\ Shows(Editors) /\ t # Top.text
  /\ typed < MaxTyped /\ typed' = typed + 1
  /\ stack' = Append(Below(1), [Top EXCEPT !.text = t])
  /\ panel' = IF Top.kind = "capture" THEN Updated(panel, t) ELSE panel
  /\ UNCHANGED <<notes, app, elsewhere, lost>>

\* The debounce fires: an exclusive search replaces the one that runs.
PassStarts ==
  /\ app = "open" /\ panel.timer
  /\ panel' = [panel EXCEPT !.timer = FALSE, !.pass = stack[1].text]
  /\ UNCHANGED <<notes, stack, app, typed, elsewhere, lost>>

PassEnds ==
  /\ app = "open" /\ panel.pass # NoText
  /\ panel' = [panel EXCEPT !.pass = NoText, !.shown = panel.pass]
  /\ UNCHANGED <<notes, stack, app, typed, elsewhere, lost>>

\* Anything find_related_notes raises ends the app.
PassRaises ==
  /\ app = "open" /\ panel.pass # NoText /\ Crashes
  /\ UNCHANGED <<notes, panel, typed, elsewhere>>

-----------------------------------------------------------------------------
(* Saving *)

\* save_capture of a text that is not blank, under a new id.
Captured(n, text, pending) ==
  notes' = [notes EXCEPT ![n] = [head |-> 1, body |-> text, live |-> TRUE,
                                 withheld |-> pending]]

\* ctrl+s: save, and a fresh buffer.
SaveCapture(n) ==
  /\ Shows({"capture"}) /\ Top.text # Blank /\ notes[n] = Absent
  /\ Captured(n, Top.text, Top.pending)
  /\ stack' = <<Capture>> /\ panel' = Quiet
  /\ UNCHANGED <<app, typed, elsewhere, lost>>

\* Repository.save over the head a screen holds: nothing when the text is
\* the head's already.
Lands(s) == s.text # Blank /\ notes[s.note].head = s.head
Rewritten(note, text) ==
  IF note.body = text THEN note ELSE [note EXCEPT !.head = @ + 1, !.body = text]
Saved(s) == notes' = [notes EXCEPT ![s.note] = Rewritten(@, s.text)]

\* The k topmost screens close with the editor that is the lowest of them,
\* or, when quitting, all of them do.
Leaves(k, quits, settled) ==
  IF quits THEN Exits(Len(stack) - k + 1, settled)
           ELSE Pops(k, settled) /\ UNCHANGED app

Conflict(s, quits) ==
  [kind |-> "reconcile", note |-> s.note, text |-> s.text,
   head |-> notes[s.note].head, quits |-> quits]

\* ctrl+s in the editor, and Save in its dialogs, over the k screens that
\* close with it: save and go back, or reconcile. A blank text is refused.
Saves(s, k, quits) ==
  \/ /\ s.text = Blank
     /\ stack' = Below(k - 1) /\ Stays /\ UNCHANGED notes
  \/ Lands(s) /\ Saved(s) /\ Leaves(k, quits, {s.text})
  \/ /\ s.text # Blank /\ ~Lands(s)
     /\ stack' = Append(Below(k - 1), Conflict(s, quits)) /\ Len(stack') <= MaxDepth
     /\ Stays /\ UNCHANGED notes

SaveEdit ==
  /\ Shows({"edit"})
  /\ UNCHANGED <<panel, typed, elsewhere>>
  /\ Saves(Top, 1, FALSE)

-----------------------------------------------------------------------------
(* Leaving *)

\* Slip: only an emptied editor counts as changed.
DirtyIfAny(s) == s.text = Blank

\* The dirty check of the capture screen, and the editor's.
Dirty(s) == IF s.kind = "capture" THEN s.text # Blank ELSE s.text # s.body

Asks(quits) == Pushes([kind |-> "discard", quits |-> quits]) /\ Stays

\* Escape in the editor.
CancelEdit ==
  /\ Shows({"edit"})
  /\ UNCHANGED <<notes, panel, typed, elsewhere>>
  /\ IF Dirty(Top) THEN Asks(FALSE) ELSE Leaves(1, FALSE, {})

\* ctrl+q, and Escape on the capture screen: an editor on top is asked, and
\* any other screen quits at once.
Quit ==
  /\ app = "open"
  /\ UNCHANGED <<notes, panel, typed, elsewhere>>
  /\ IF Top.kind \in Editors /\ Dirty(Top) THEN Asks(TRUE) ELSE Leaves(1, TRUE, {})

\* The dialog over an editor is answered.
AnswerCancel ==
  /\ Shows({"discard"})
  /\ UNCHANGED <<notes, panel, typed, elsewhere>>
  /\ Closes(1) /\ Stays

AnswerDiscard ==
  /\ Shows({"discard"})
  /\ UNCHANGED <<notes, panel, typed, elsewhere>>
  /\ Leaves(2, Top.quits, {Last(Below(1)).text})

AnswerSave ==
  LET editor == Last(Below(1)) IN
  /\ Shows({"discard"})
  /\ UNCHANGED <<panel, typed, elsewhere>>
  /\ \/ /\ editor.kind = "capture"
        /\ \E n \in Notes : /\ notes[n] = Absent
                            /\ Captured(n, editor.text, editor.pending)
        /\ Leaves(2, TRUE, {editor.text})
     \/ editor.kind = "edit" /\ Saves(editor, 2, Top.quits)

\* The conflict is settled: the screen it came from closes too, or the app.
Resolves == Leaves(2, Top.quits, {Top.text})

\* Re-apply, over the head the diff shows or, if that moved too, a new diff.
\* The draft on disk lives as long as the conflict.
Reapply ==
  /\ Shows({"reconcile"})
  /\ UNCHANGED <<panel, typed, elsewhere>>
  /\ \/ Lands(Top) /\ Saved(Top) /\ Resolves
     \/ /\ ~Lands(Top)
        /\ stack' = Append(Below(1), [Top EXCEPT !.head = notes[Top.note].head])
        /\ Stays /\ UNCHANGED notes

DiscardConflict ==
  /\ Shows({"reconcile"})
  /\ UNCHANGED <<notes, panel, typed, elsewhere>>
  /\ Resolves

-----------------------------------------------------------------------------
(* Deleting, and withholding from the cloud *)

AskDelete(n) ==
  /\ Shows({"browse"}) /\ n \in DOMAIN Top.rows
  /\ UNCHANGED <<notes, panel, typed, elsewhere>>
  /\ Pushes([kind |-> "delete", note |-> n]) /\ Stays

\* The head of the moment is deleted, whatever the row says.
Buried(note) ==
  IF note.live THEN [note EXCEPT !.head = @ + 1, !.live = FALSE] ELSE note
Tombstoned(n) == [notes EXCEPT ![n] = Buried(@)]

AnswerDelete(yes) ==
  /\ Shows({"delete"})
  /\ UNCHANGED <<panel, typed, elsewhere>>
  /\ notes' = IF yes THEN Tombstoned(Top.note) ELSE notes
  /\ Closes(1) /\ Stays

\* toggle_note_no_egress: the other of what the row says now.
Toggled(n) == [notes EXCEPT ![n].withheld = ~@]

\* The palette's command on the capture screen: the flag of the note to be.
PendingToggle ==
  /\ Shows({"capture"})
  /\ stack' = Append(Below(1), [Top EXCEPT !.pending = ~@])
  /\ UNCHANGED <<notes, app, panel, typed, elsewhere, lost>>

\* n in the browse list: the flag is read now, and clearing it is asked.
BrowseToggle(n) ==
  /\ Shows({"browse"}) /\ n \in DOMAIN Top.rows
  /\ UNCHANGED <<panel, typed, elsewhere>>
  /\ \/ /\ notes[n].withheld
        /\ Pushes([kind |-> "clear", note |-> n]) /\ UNCHANGED notes
     \/ ~notes[n].withheld /\ notes' = Toggled(n) /\ Closes(0)
  /\ Stays

\* The editor goes by the flag it read when it was opened.
EditToggle ==
  /\ Shows({"edit"})
  /\ UNCHANGED <<panel, typed, elsewhere>>
  /\ \/ /\ Top.withheld
        /\ Pushes([kind |-> "clear", note |-> Top.note]) /\ UNCHANGED notes
     \/ /\ ~Top.withheld /\ notes' = Toggled(Top.note)
        /\ stack' = Append(Below(1), [Top EXCEPT !.withheld = notes'[Top.note].withheld])
  /\ Stays

AnswerClear(yes) ==
  LET under == Last(Below(1)) IN
  /\ Shows({"clear"})
  /\ UNCHANGED <<panel, typed, elsewhere>>
  /\ notes' = IF yes THEN Toggled(Top.note) ELSE notes
  /\ stack' = Resumed(Append(Below(2),
       IF yes /\ under.kind = "edit"
       THEN [under EXCEPT !.withheld = notes'[Top.note].withheld] ELSE under))
  /\ Stays

\* Another lode process edits or deletes a note.
Elsewhere(n) ==
  /\ app = "open" /\ elsewhere < MaxElsewhere /\ elsewhere' = elsewhere + 1
  /\ notes[n].live
  /\ \/ notes' = [notes EXCEPT ![n].head = @ + 1, ![n].body = Theirs]
     \/ notes' = Tombstoned(n)
  /\ UNCHANGED <<stack, app, panel, typed, lost>>

-----------------------------------------------------------------------------

ScreensNext ==
  \/ \E kind \in Lists : OpenList(kind)
  \/ OpenView("view") \/ OpenView("peek")
  \/ Back
  \/ \E t \in Texts \cup {Blank} : Type(t)
  \/ PassStarts \/ PassEnds \/ PassRaises
  \/ SaveEdit \/ CancelEdit \/ Quit
  \/ AnswerCancel \/ AnswerDiscard \/ AnswerSave
  \/ Reapply \/ DiscardConflict
  \/ \E yes \in BOOLEAN : AnswerDelete(yes) \/ AnswerClear(yes)
  \/ PendingToggle \/ EditToggle
  \/ \E n \in Notes :
       OpenEditor(n) \/ Inspect(n) \/ SaveCapture(n) \/ AskDelete(n)
         \/ BrowseToggle(n) \/ Elsewhere(n)

ScreensSpec == ScreensInit /\ [][ScreensNext]_screensVars

\* The note ids are interchangeable.
Symmetry == Permutations(Notes)

-----------------------------------------------------------------------------
(* Properties *)

\* Whatever dialogs, refused or rejected saves come between, the text of the
\* editor that closes is saved, in a draft file, or given up by the user's
\* own answer.
EditedTextKept == TRUE \notin lost

\* A list the user comes back to shows the notes as they are, after anything
\* done on the screens above it, unless another process has changed them
\* since: no row of it opens a note that is gone.
ListsAreCurrent ==
  Shows(Lists) /\ Top.at = elsewhere =>
    \A n \in DOMAIN Top.rows : notes[n].live /\ Top.rows[n] = Row(n)

\* When the panel is at rest it shows the related notes of the text above it:
\* no search for an older text, or for a note already saved, has the last word.
PanelFollowsText ==
  app = "open" /\ ~panel.timer /\ panel.pass = NoText =>
    panel.shown = IF stack[1].text = Blank THEN NoText ELSE stack[1].text

-----------------------------------------------------------------------------
(* What the documentation says: TLC refutes it, and no run checks it *)

\* What the app's module says of ctrl+q: nothing typed is lost unasked.
NothingTypedIsLost == lost = {}

\* What the editor says of the no_egress command: clearing it is asked first.
ClearAsksFirst ==
  [][\A n \in Notes :
       notes[n].withheld /\ ~notes'[n].withheld /\ elsewhere' = elsewhere =>
         Top.kind = "clear" /\ Top.note = n]_screensVars
=============================================================================
