----------------------------- MODULE NoteEditor -----------------------------
(***************************************************************************)
(* The web note editor: a draft, the note as it was last loaded, and        *)
(* writes to the note, its own and those of the inspector beside it, while  *)
(* others write the same note. The note is loaded again every few seconds,  *)
(* after every write and on focus; of these loads only the last one asked   *)
(* for counts. The server does what WriteOnce promises.                     *)
(*                                                                         *)
(* Abstracted: a draft is a text, title and body in one; a list's items are *)
(* the part of its text a toggle changes; the toggle's optimistic picture   *)
(* of them changes no draft, so it only calls the loads off; log fields     *)
(* (a note whose text is not edited) are left out; what reached the server  *)
(* is what "sent" holds, in any order.                                      *)
(***************************************************************************)
EXTENDS Naturals, Sequences

CONSTANTS
  Words,        \* a text is words and whether its item is ticked
  None,
  MaxEdits,     \* bound: changes of the draft by typing
  MaxClicks,    \* bound: toggles, clicks in the inspector, undos
  MaxElsewhere, \* bound: writes by others
  MaxFaults     \* bound: answers and loads that fail

Texts == [words : Words, ticked : BOOLEAN]
Panes == {"editor", "inspector"}  \* each waits for one answer at a time

\* What is asked of the server, and what a pane keeps of it until it is answered.
Requests ==
  [kind : {"save"}, key : Nat, over : Nat, to : Texts]
    \cup [kind : {"toggle"}, key : Nat, over : Nat, to : BOOLEAN]
    \cup [kind : {"file", "undo"}, key : Nat, over : Nat, to : Nat]
Calls == [q : Requests, word : {None, "done", "stale", "lost"}, rev : Nat,
          then : {"hear", "tell"}, before : Nat]

NoteEditorAssumption ==
  /\ None \notin Texts /\ None \notin Nat /\ None \notin Requests /\ None \notin Calls
  /\ None \notin {"done", "stale", "lost"}
  /\ {MaxEdits, MaxClicks, MaxElsewhere, MaxFaults} \subseteq Nat

VARIABLES
  log,     \* the note's revisions: their text, and the request that made them
  editor,  \* the state of NoteEditor
  load,    \* the last load asked for, until it is answered or called off: the
           \* revision the server read, 0 before that, and who asked
  polling, \* whether a scheduled load is unanswered
  call,    \* what each pane waits for
  sent,    \* requests that have not reached the server
  shown,   \* history: revisions whose text the draft has been
  spent    \* of the bounds, and of keys

vars == <<log, editor, load, polling, call, sent, shown, spent>>

Rev == Len(log)
TextOf(n) == log[n].text

Init ==
  /\ \E t \in Texts : log = <<[text |-> t, by |-> None]>>
  /\ editor = [note |-> 0, draft |-> None, base |-> 0, dirty |-> FALSE, conflict |-> FALSE,
               attempt |-> None, undo |-> None, pending |-> FALSE]
  /\ load = [read |-> 0, by |-> "window"] /\ polling = FALSE
  /\ call = [p \in Panes |-> None] /\ sent = {} /\ shown = {}
  /\ spent = [edits |-> 0, clicks |-> 0, elsewhere |-> 0, faults |-> 0, keys |-> 0]

Spend(what) == spent' = [spent EXCEPT ![what] = @ + 1]

(***************************************************************************)
(* What every change of the editor is followed by (its effect).            *)
(***************************************************************************)
Reset(e) ==
  [e EXCEPT !.draft = TextOf(e.note), !.base = e.note, !.dirty = FALSE,
            !.conflict = FALSE, !.attempt = None]

\* (mutant) a dirty draft moves to the new revision whatever that says
RebasedUnread(e) ==
  IF e.note = 0 \/ e.base = e.note THEN e
  ELSE IF e.base = 0 \/ ~e.dirty THEN Reset(e)
  ELSE [e EXCEPT !.base = e.note, !.attempt = None]

Rebased(e) ==
  IF e.note = 0 \/ e.base = e.note THEN e
  ELSE IF e.base = 0 \/ ~e.dirty \/ e.draft = TextOf(e.note) THEN Reset(e)
  ELSE [e EXCEPT !.conflict = TRUE]

\* The editor becomes e.
Becomes(e) ==
  LET n == Rebased(e)
  IN  /\ editor' = n
      /\ shown' = IF n.base > 0 /\ n.draft = TextOf(n.base) THEN shown \cup {n.base} ELSE shown

(***************************************************************************)
(* Loads.                                                                  *)
(***************************************************************************)
Nothing == [read |-> 0, by |-> "none"]
CallOff == load' = Nothing /\ UNCHANGED polling
AskAgain(by) == load' = [read |-> 0, by |-> by] /\ UNCHANGED polling

\* (mutant) a scheduled load does not wait for the one before it
PollAnyway ==
  /\ load' = [read |-> 0, by |-> "timer"] /\ polling' = TRUE
  /\ UNCHANGED <<log, editor, call, sent, shown, spent>>

\* The timer of four seconds.
Poll ==
  /\ ~polling
  /\ load' = [read |-> 0, by |-> "timer"] /\ polling' = TRUE
  /\ UNCHANGED <<log, editor, call, sent, shown, spent>>

\* A scheduled load that no longer counts is answered.
PollEnds ==
  /\ polling /\ load.by # "timer"
  /\ polling' = FALSE
  /\ UNCHANGED <<log, editor, load, call, sent, shown, spent>>

\* The server answers the last load.
Read ==
  /\ load # Nothing /\ load.read = 0
  /\ load' = [load EXCEPT !.read = Rev]
  /\ UNCHANGED <<log, editor, polling, call, sent, shown, spent>>

\* A failed toggle waits for the load it asked for, and tells then.
Waits == call["editor"] # None /\ call["editor"].then = "tell"
Told(e) == [e EXCEPT !.pending = FALSE, !.conflict = @ \/ call["editor"].word = "stale"]

\* The last load ends, and the note is now n.
Ends(n) ==
  LET e == [editor EXCEPT !.note = n]
      tells == Waits /\ load.by = "toggle"
  IN  /\ Becomes(IF tells THEN Told(e) ELSE e)
      /\ call' = IF tells THEN [call EXCEPT !["editor"] = None] ELSE call
      /\ load' = Nothing /\ polling' = (polling /\ load.by # "timer")
      /\ UNCHANGED <<log, sent>>

Arrive ==
  /\ load.read > 0
  /\ Ends(load.read)
  /\ UNCHANGED spent

LoadFails ==
  /\ load # Nothing /\ spent.faults < MaxFaults
  /\ Ends(editor.note)
  /\ Spend("faults")

\* That load was superseded, and ends by itself.
TellLate ==
  /\ Waits /\ load.by # "toggle"
  /\ Becomes(Told(editor)) /\ call' = [call EXCEPT !["editor"] = None]
  /\ UNCHANGED <<log, load, polling, sent, spent>>

(***************************************************************************)
(* What the user does.                                                     *)
(***************************************************************************)
\* updateDraft, undoDraft, redoDraft
Type(t) ==
  /\ editor.note > 0 /\ t # editor.draft /\ spent.edits < MaxEdits
  /\ Becomes([editor EXCEPT !.draft = t, !.dirty = (t # TextOf(editor.note)), !.attempt = None])
  /\ Spend("edits")
  /\ UNCHANGED <<log, load, polling, call, sent>>

\* Request q of a pane, which waits for its answer.
Ask(pane, q) ==
  /\ call' = [call EXCEPT ![pane] = [q |-> q, word |-> None, rev |-> 0, then |-> "hear",
                                     before |-> editor.note]]
  /\ sent' = sent \cup {q}

Save ==
  LET again == editor.attempt # None
      key == IF again THEN editor.attempt ELSE spent.keys + 1
  IN  /\ editor.note > 0 /\ editor.draft # TextOf(editor.note)
      /\ ~editor.pending /\ ~editor.conflict
      /\ Becomes([editor EXCEPT !.pending = TRUE, !.attempt = key])
      /\ Ask("editor", [kind |-> "save", key |-> key, over |-> editor.base, to |-> editor.draft])
      /\ spent' = IF again THEN spent ELSE [spent EXCEPT !.keys = @ + 1]
      /\ UNCHANGED <<log, load, polling>>

Clicked == spent' = [spent EXCEPT !.clicks = @ + 1, !.keys = @ + 1]

Toggle ==
  /\ editor.note > 0 /\ ~editor.pending /\ ~editor.conflict /\ spent.clicks < MaxClicks
  /\ Becomes([editor EXCEPT !.pending = TRUE])
  /\ Ask("editor", [kind |-> "toggle", key |-> spent.keys + 1, over |-> editor.note,
                    to |-> ~TextOf(editor.note).ticked])
  /\ CallOff /\ Clicked
  /\ UNCHANGED log

UndoLast ==
  /\ editor.undo # None /\ ~editor.pending /\ spent.clicks < MaxClicks
  /\ Becomes([editor EXCEPT !.pending = TRUE])
  /\ Ask("editor", [kind |-> "undo", key |-> spent.keys + 1, over |-> editor.undo,
                    to |-> editor.undo - 1])
  /\ Clicked
  /\ UNCHANGED <<log, load, polling>>

\* Move, archive, delete ("file"), or restore an earlier revision.
Inspect ==
  /\ editor.note > 0 /\ call["inspector"] = None /\ spent.clicks < MaxClicks
  /\ \E kind \in {"file", "undo"}, n \in 1 .. editor.note :
       /\ kind = "undo" => n < editor.note
       /\ Ask("inspector", [kind |-> kind, key |-> spent.keys + 1, over |-> editor.note, to |-> n])
  /\ Clicked
  /\ UNCHANGED <<log, editor, load, polling, shown>>

LoadLatest ==
  /\ editor.conflict
  /\ Becomes([editor EXCEPT !.dirty = FALSE, !.base = 0, !.conflict = FALSE])
  /\ AskAgain("window")
  /\ UNCHANGED <<log, call, sent, spent>>

\* The window comes to the front, or another tab announces a change.
Refresh ==
  /\ spent.clicks < MaxClicks
  /\ AskAgain("window")
  /\ Spend("clicks")
  /\ UNCHANGED <<log, editor, call, sent, shown>>

(***************************************************************************)
(* The server.                                                             *)
(***************************************************************************)
\* The text request q leaves.
Result(q) ==
  CASE q.kind = "save" -> q.to
    [] q.kind = "toggle" -> [TextOf(Rev) EXCEPT !.ticked = q.to]
    [] q.kind = "file" -> TextOf(Rev)
    [] q.kind = "undo" -> TextOf(q.to)

Done(q) == {n \in 1 .. Rev : log[n].by # None /\ log[n].by.key = q.key}

\* Answers nobody waits for are dropped.
Answer(q, word, rev) ==
  call' = [p \in Panes |->
             IF call[p] # None /\ call[p].q = q /\ call[p].then = "hear" /\ call[p].word = None
             THEN [call[p] EXCEPT !.word = word, !.rev = rev] ELSE call[p]]

Serve(q) ==
  /\ q \in sent
  /\ sent' = sent \ {q}
  /\ \/ /\ Done(q) # {}
        /\ \E n \in Done(q) : Answer(q, "done", n)
        /\ UNCHANGED log
     \/ /\ Done(q) = {} /\ q.over # Rev
        /\ Answer(q, "stale", 0)
        /\ UNCHANGED log
     \/ /\ Done(q) = {} /\ q.over = Rev
        /\ log' = Append(log, [text |-> Result(q), by |-> q])
        /\ Answer(q, "done", Rev + 1)
  /\ UNCHANGED <<editor, load, polling, shown, spent>>

Elsewhere ==
  /\ spent.elsewhere < MaxElsewhere
  /\ \E t \in Texts : log' = Append(log, [text |-> t, by |-> None])
  /\ Spend("elsewhere")
  /\ UNCHANGED <<editor, load, polling, call, sent, shown>>

(***************************************************************************)
(* Answers.                                                                *)
(***************************************************************************)
Free(pane, e) == IF pane = "editor" THEN [e EXCEPT !.pending = FALSE] ELSE e

\* acceptMutation, and announceProductChange
Accept(pane) ==
  LET c == call[pane]
      undo == IF pane = "editor" /\ c.q.kind = "undo" THEN None ELSE c.rev
  IN  /\ c # None /\ c.then = "hear" /\ c.word = "done"
      /\ Becomes(Free(pane, [Reset([editor EXCEPT !.note = c.rev]) EXCEPT !.undo = undo]))
      /\ call' = [call EXCEPT ![pane] = None]
      /\ AskAgain("window")
      /\ UNCHANGED <<log, sent, spent>>

\* The toggle's row falls back to what it was, and the note is loaded.
FallBack(word) ==
  /\ Becomes([editor EXCEPT !.note = call["editor"].before])
  /\ call' = [call EXCEPT !["editor"].then = "tell", !["editor"].word = word]
  /\ AskAgain("toggle")
  /\ UNCHANGED <<log, sent>>

Refused(pane) ==
  LET c == call[pane]
  IN  /\ c # None /\ c.then = "hear" /\ c.word = "stale"
      /\ IF c.q.kind = "toggle" THEN FallBack("stale")
         ELSE /\ Becomes(Free(pane, [editor EXCEPT !.conflict = TRUE]))
              /\ call' = [call EXCEPT ![pane] = None]
              /\ UNCHANGED <<log, load, polling, sent>>
      /\ UNCHANGED spent

\* No answer, or an error; the request may be on its way.
Fails(pane) ==
  LET c == call[pane]
  IN  /\ c # None /\ c.then = "hear" /\ spent.faults < MaxFaults
      /\ IF c.q.kind = "toggle" THEN FallBack("lost")
         ELSE /\ Becomes(Free(pane, editor))
              /\ call' = [call EXCEPT ![pane] = None]
              /\ UNCHANGED <<log, load, polling, sent>>
      /\ Spend("faults")

Next ==
  \/ Poll \/ PollEnds \/ Read \/ Arrive \/ LoadFails \/ TellLate
  \/ (\E t \in Texts : Type(t)) \/ Save \/ Toggle \/ UndoLast \/ Inspect
  \/ LoadLatest \/ Refresh \/ Elsewhere
  \/ (\E q \in sent : Serve(q))
  \/ \E p \in Panes : Accept(p) \/ Refused(p) \/ Fails(p)

Spec == Init /\ [][Next]_vars

(***************************************************************************)
(* Properties.                                                             *)
(***************************************************************************)
TypeOK ==
  /\ \A n \in 1 .. Rev : log[n].text \in Texts
  /\ {editor.note, editor.base} \subseteq 0 .. Rev /\ editor.draft \in Texts \cup {None}
  /\ editor.undo = None \/ editor.undo \in 2 .. Rev
  /\ editor.pending = (call["editor"] # None)
  /\ (editor.note = 0) = (editor.draft = None)
  /\ load.by = "timer" => polling

\* A save goes over a revision only if the editor had shown its text: what
\* others wrote meanwhile is never overwritten unseen.
OverwritesOnlyWhatWasShown ==
  \A n \in 1 .. Rev : log[n].by # None /\ log[n].by.kind = "save" => n - 1 \in shown

\* A user who keeps pressing Save is done, or is shown a conflict.
Settles == editor.dirty ~> ~editor.dirty \/ editor.conflict

\* However slow its loads are, the editor comes to know of the last revision.
CatchesUp == <>[](editor.note = Rev)
=============================================================================
