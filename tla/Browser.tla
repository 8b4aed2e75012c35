------------------------------- MODULE Browser -------------------------------
(***************************************************************************)
(* The browser: its capture outbox, the key its records are sealed under,  *)
(* its intents to undo, retry and delete, its search and its note editor.  *)
(* They share no state here, so one behaviour runs one of them, with the   *)
(* variables of the others off: what holds of each of these behaviours     *)
(* holds of the five side by side.                                         *)
(***************************************************************************)
EXTENDS Integers

CONSTANTS
  Tabs, Captures, MaxAttempts, MaxBatch,               \* BrowserOutbox
  Sealers, Writes, MaxGenerated,                       \* BrowserKey: its tabs and keys
  Runs, Mortal, Receipts, Removals, Wanted, MaxKey,    \* BrowserActions
  Notes, MaxScore, Limit, MaxEdits, MaxToggles,        \* WebSearch
  Words, None, MaxTyped, MaxClicks, MaxElsewhere, MaxFaults,   \* NoteEditor
  Off                                                  \* of a variable whose part does not run

VARIABLES
  part,  \* which of them runs
  outbox, tombstone, saved, tab, flush, retry, net, server,
  stored, sealed, pending, write, generated,
  local, hidden, run, keys, asked, done, stale,
  note, hook, sent, answered,
  log, editor, load, polling, call, posted, shown, spent

outboxVars == <<outbox, tombstone, saved, tab, flush, retry, net, server>>
keyVars == <<stored, sealed, pending, write, generated>>
actionVars == <<local, hidden, run, keys, asked, done, stale>>
searchVars == <<note, hook, sent, answered>>
editorVars == <<log, editor, load, polling, call, posted, shown, spent>>
vars == <<part, outboxVars, keyVars, actionVars, searchVars, editorVars>>

Outbox == INSTANCE BrowserOutbox

Key == INSTANCE BrowserKey WITH Tabs <- Sealers, MaxKey <- MaxGenerated

Actions == INSTANCE BrowserActions WITH tombstone <- hidden, net <- asked

Search == INSTANCE WebSearch

Editor == INSTANCE NoteEditor WITH sent <- posted, MaxEdits <- MaxTyped

ASSUME BrowserAssumption ==
  /\ Outbox!BrowserOutboxAssumption /\ Key!BrowserKeyAssumption
  /\ Actions!BrowserActionsAssumption
  /\ Search!SearchAssumption /\ Search!TogglesAssumption
  /\ Editor!NoteEditorAssumption

OutboxOff ==
  /\ outbox = Off /\ tombstone = Off /\ saved = Off /\ tab = Off
  /\ flush = Off /\ retry = Off /\ net = Off /\ server = Off
KeyOff == stored = Off /\ sealed = Off /\ pending = Off /\ write = Off /\ generated = Off
ActionsOff ==
  /\ local = Off /\ hidden = Off /\ run = Off /\ keys = Off
  /\ asked = Off /\ done = Off /\ stale = Off
SearchOff == note = Off /\ hook = Off /\ sent = Off /\ answered = Off
EditorOff ==
  /\ log = Off /\ editor = Off /\ load = Off /\ polling = Off
  /\ call = Off /\ posted = Off /\ shown = Off /\ spent = Off

Init ==
  \/ part = "outbox" /\ Outbox!Init /\ KeyOff /\ ActionsOff /\ SearchOff /\ EditorOff
  \/ part = "key" /\ OutboxOff /\ Key!Init /\ ActionsOff /\ SearchOff /\ EditorOff
  \/ part = "actions" /\ OutboxOff /\ KeyOff /\ Actions!Init /\ SearchOff /\ EditorOff
  \/ part = "search" /\ OutboxOff /\ KeyOff /\ ActionsOff /\ Search!Init /\ EditorOff
  \/ part = "editor" /\ OutboxOff /\ KeyOff /\ ActionsOff /\ SearchOff /\ Editor!Init

Next ==
  \/ /\ part = "outbox" /\ Outbox!Next
     /\ UNCHANGED <<part, keyVars, actionVars, searchVars, editorVars>>
  \/ /\ part = "key" /\ Key!Next
     /\ UNCHANGED <<part, outboxVars, actionVars, searchVars, editorVars>>
  \/ /\ part = "actions" /\ Actions!Next
     /\ UNCHANGED <<part, outboxVars, keyVars, searchVars, editorVars>>
  \/ /\ part = "search" /\ Search!Next
     /\ UNCHANGED <<part, outboxVars, keyVars, actionVars, editorVars>>
  \/ /\ part = "editor" /\ Editor!Next
     /\ UNCHANGED <<part, outboxVars, keyVars, actionVars, searchVars>>

Spec == Init /\ [][Next]_vars

-----------------------------------------------------------------------------

\* Every variable has the values its component gives it.
TypeOK ==
  /\ part = "outbox" => Outbox!TypeOK
  /\ part = "key" => Key!TypeOK
  /\ part = "actions" => Actions!TypeOK
  /\ part = "search" => Search!TypeOK
  /\ part = "editor" => Editor!TypeOK

\* What the owner was told is saved is in this browser until the server has it,
\* whatever two tabs overwrite, recover or clear under each other; and no tab's
\* answer marks a record synced that the server never took, for the clean-up
\* trusts that mark.
NothingLost == part = "outbox" => Outbox!NothingLost /\ Outbox!SyncedIsOnServer

\* Whatever tabs come first, every record can be opened with the key that is
\* kept: two tabs never seal under two keys, and no key is generated over content.
Openable == part = "key" => Key!Openable

\* What the server has made of an intent is not asked for a second time nor
\* forgotten: a change is asked for again only under the key it was made under,
\* so the answer is the one it gave, and of a deletion the intent is still
\* there to be replayed or the tombstone hides the capture.
IntentsKept == part = "actions" => Actions!ReaskedUnderItsKey /\ Actions!DeletionRemembered

\* A list that says there are no more results has all of them: no note that
\* matched when the first page was cut and has not changed since is missing.
EndedIsComplete == part = "search" => Search!EndedIsComplete

\* A save goes over a revision only if the editor had shown its text: what
\* others wrote meanwhile is never overwritten unseen.
OverwritesOnlyWhatWasShown == part = "editor" => Editor!OverwritesOnlyWhatWasShown
=============================================================================
