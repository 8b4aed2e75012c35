---------------------------- MODULE MCClientsLive ----------------------------
(***************************************************************************)
(* What the two clients bring about in the end, for TLC: the outboxes, the *)
(* browser's intents, its search and its editor, each under the fairness   *)
(* its surroundings give.  They share no state here, so one behaviour      *)
(* runs one of them and the others rest as they began.                     *)
(***************************************************************************)
EXTENDS Integers, TLC

CONSTANTS pA, NoOne, c1, a1, t1, t2, seen, w1, None

VARIABLES
  part,  \* which of them runs
  session, active, composer, row, uploaded, drain, carried, sealing, accepted, upload,
  outbox, tombstone, saved, tab, flush, retry, net, server,
  local, hidden, run, keys, asked, done, stale,
  note, hook, sent, answered,
  log, editor, load, polling, call, posted, shown, spent

phoneVars ==
  <<session, active, composer, row, uploaded, drain, carried, sealing, accepted, upload>>
outboxVars == <<outbox, tombstone, saved, tab, flush, retry, net, server>>
actionVars == <<local, hidden, run, keys, asked, done, stale>>
searchVars == <<note, hook, sent, answered>>
editorVars == <<log, editor, load, polling, call, posted, shown, spent>>
vars == <<part, phoneVars, outboxVars, actionVars, searchVars, editorVars>>

\* One capture with a photo, one account.
Phone == INSTANCE CaptureOutbox WITH
  net <- carried, server <- accepted,
  Profiles <- {pA}, Captures <- {c1}, Attachments <- {a1},
  Owner <- [c \in {c1} |-> pA], CaptureOf <- [a \in {a1} |-> c1],
  MaxAttempts <- 2, MaxGeneration <- 0

\* One capture in two tabs; bound: only in the first does the owner see that it
\* failed, and retry it by hand.
Outbox == INSTANCE BrowserOutbox WITH
  Tabs <- {t1, t2}, Captures <- {c1}, MaxAttempts <- 2, MaxBatch <- 1

\* A view that stays open and one that may close.
Actions == INSTANCE BrowserActions WITH
  tombstone <- hidden, net <- asked, Runs <- {t1, t2}, Mortal <- {t2},
  Receipts <- {seen}, Removals <- {}, Wanted <- {seen}, MaxAttempts <- 2, MaxKey <- 1

\* Two notes, one result per page, two edits.
Search == INSTANCE WebSearch WITH
  Notes <- 1 .. 2, MaxScore <- 2, Limit <- 1, MaxEdits <- 2, MaxToggles <- 0

\* An edit, a writer elsewhere, and an answer or a load that is lost.
Editor == INSTANCE NoteEditor WITH
  sent <- posted, Words <- {w1}, MaxEdits <- 1, MaxClicks <- 0, MaxElsewhere <- 1, MaxFaults <- 1

ASSUME ClientsAssumption ==
  /\ Phone!OutboxAssumption /\ Outbox!BrowserOutboxAssumption
  /\ Actions!BrowserActionsAssumption /\ Search!SearchAssumption /\ Search!TogglesAssumption
  /\ Editor!NoteEditorAssumption

Init ==
  /\ part \in {"phone", "outbox", "actions", "search", "editor"}
  /\ Phone!Init /\ Outbox!Init /\ Actions!Init /\ Search!Init /\ Editor!Init
  /\ part # "search" => \A n \in 1 .. 2 : note[n].score = 0 /\ ~note[n].archived
  /\ part # "editor" => log[1].text = CHOOSE t \in Editor!Texts : TRUE

\* A capture the server has is settled for good: what follows is left out.
Unserved == server[c1] = "none"

OthersRest ==
  /\ part' = part
  /\ part # "phone" => UNCHANGED phoneVars
  /\ part # "outbox" => UNCHANGED outboxVars
  /\ part # "actions" => UNCHANGED actionVars
  /\ part # "search" => UNCHANGED searchVars
  /\ part # "editor" => UNCHANGED editorVars

Next ==
  /\ \/ part = "phone" /\ Phone!Next
     \/ part = "outbox" /\ Outbox!Next /\ tab'[t2].local[c1] = "other"
     \/ part = "actions" /\ Actions!Next
     \/ part = "search" /\ Search!Next
     \/ part = "editor" /\ Editor!Next
  /\ OthersRest

\* The phone's engine polls every few seconds and its steps are scheduled, a
\* lease's time passes, a request that is carried is served, and the local
\* store is not refused for ever.
PhoneFairness ==
  /\ WF_phoneVars(part = "phone" /\ Phone!Submit(pA))
  /\ WF_phoneVars(part = "phone" /\ Phone!Lapse(c1))
  /\ WF_phoneVars(/\ part = "phone"
                  /\ \E m \in carried : Phone!Waits(m) /\ Phone!Served(m) = pA /\ Phone!Serve(m))

\* A mounted tab polls every four seconds and its flush runs on; an answer
\* comes or its loss is noticed.
OutboxFairness ==
  \A t \in {t1, t2} :
    /\ WF_outboxVars(part = "outbox" /\ Outbox!Flush(t))
    /\ WF_outboxVars(part = "outbox" /\ Outbox!Recover(t))
    /\ WF_outboxVars(part = "outbox" /\ Outbox!Opened(t))

\* An open view replays every four seconds and its runs go on.
ActionFairness ==
  /\ \A r \in {t1, t2} : WF_actionVars(part = "actions" /\ Actions!Step(r))
  /\ SF_actionVars(part = "actions" /\ Actions!Replay(t1, seen))

\* The user asks for the rest of the list; an answer comes.
SearchFairness ==
  /\ WF_searchVars(part = "search" /\ Search!LoadMore)
  /\ WF_searchVars(part = "search" /\ Search!Retry)
  /\ WF_searchVars(part = "search" /\ Search!Deliver)

\* Timers fire, requests and loads are answered, and a user with an unsaved
\* draft presses Save.
EditorFairness ==
  /\ WF_editorVars(part = "editor" /\ Editor!Poll)
  /\ WF_editorVars(part = "editor" /\ Editor!PollEnds)
  /\ WF_editorVars(part = "editor" /\ Editor!Read)
  /\ WF_editorVars(part = "editor" /\ Editor!Arrive)
  /\ WF_editorVars(part = "editor" /\ Editor!TellLate)
  /\ WF_editorVars(part = "editor" /\ \E q \in posted : Editor!Serve(q))
  /\ \A p \in Editor!Panes :
       WF_editorVars(part = "editor" /\ (Editor!Accept(p) \/ Editor!Refused(p)))
  /\ WF_editorVars(part = "editor" /\ Editor!Save)

\* What may be refused or lost now and then is not refused for ever: the
\* phone's local store recovers, a server that is asked again and again is
\* reached and answers once, and the run that asks hears it.  Only one part
\* runs, so one strong fairness stands for one of each.
AnsweredInTheEnd ==
  /\ SF_vars(/\ \/ part = "phone" /\ Phone!StartRecovering(pA)
                \/ part = "outbox" /\ Outbox!Serve(c1)
                \/ part = "actions" /\ Actions!Serve(seen, 1)
                \/ part = "search" /\ Search!Answer
             /\ OthersRest)
  /\ SF_actionVars(part = "actions" /\ Actions!HearAnswer(t1))

Fairness ==
  /\ PhoneFairness /\ OutboxFairness /\ ActionFairness /\ SearchFairness /\ EditorFairness
  /\ AnsweredInTheEnd

LiveSpec == Init /\ [][Next]_vars /\ Fairness

-----------------------------------------------------------------------------

\* What a client has to send is settled in the end.  While its owner stays
\* signed in with the app in front and the network holds, every entry of the
\* phone is accepted or shown as failed; once every tab of the profile has
\* mounted for good, each capture saved in the browser reaches the server or
\* needs the owner, also one whose send a closed tab left unfinished; and an
\* intent that can be replayed is answered for good or waits for the owner.
OutboxesSettle ==
  Phone!EveryEntrySettles /\ Outbox!SavedSettles /\ Actions!IntentSettles

\* What a client shows catches up.  The user who keeps asking for more comes to
\* the end of the list, also when notes change and the server starts over; a
\* user who keeps pressing Save is done or is shown a conflict; and however slow
\* its loads are, the editor comes to know of the last revision.
ViewsCatchUp ==
  /\ part = "search" => Search!ReachesTheEnd
  /\ Editor!Settles
  /\ part = "editor" => Editor!CatchesUp
=============================================================================
