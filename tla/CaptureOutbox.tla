---------------------------- MODULE CaptureOutbox ----------------------------
(***************************************************************************)
(* The phone's capture outbox and the server that accepts its captures.    *)
(* The composer enqueues a capture in one local transaction; a drain per   *)
(* signed-in profile leases the entries, uploads their attachments and     *)
(* creates them; the server finds or creates each capture by its id.       *)
(*                                                                         *)
(* A request once sent may arrive late, more than once or never, and its   *)
(* reply may be lost; the owner may sign out or change account between any *)
(* two awaits; the app may be killed; a local write after an error is      *)
(* best effort.  Abstracted: contents, the clock (a lease lapses, a retry  *)
(* falls due at any time) and the order in which due entries are claimed.  *)
(***************************************************************************)
EXTENDS Integers, FiniteSets

CONSTANTS
  Profiles, Captures, Attachments,
  Owner,          \* [Captures -> Profiles]: whose outbox an entry is in
  CaptureOf,      \* [Attachments -> Captures]
  NoOne,
  MaxAttempts,    \* maximumAutomaticCaptureAttempts
  MaxGeneration   \* bound: composer generations of a profile

OutboxAssumption ==
  /\ Owner \in [Captures -> Profiles] /\ CaptureOf \in [Attachments -> Captures]
  /\ NoOne \notin Profiles
  /\ MaxAttempts \in Nat \ {0} /\ MaxGeneration \in Nat

VARIABLES
  session,   \* the profile whose session is in the vault, or NoOne
  active,    \* activeProfiles of the engine
  composer,  \* per profile: draft generation, saved draft, open sheet, calls in flight
  row,       \* capture_outbox
  uploaded,  \* attachments with uploaded_at set
  drain,     \* per profile: the one drain in flight
  net,       \* requests sent: each may be served any number of times
  sealing,   \* create requests whose handler found no capture and is sealing one
  server,    \* captures of the server
  upload     \* attachments of the server

local == <<session, active, composer, row, uploaded, drain>>
remote == <<sealing, server, upload>>
vars == <<session, active, composer, row, uploaded, drain, net, sealing, server, upload>>

\* (mutant) the drain takes failed entries too
DueOrFailed == {"pending", "retry", "waiting_for_sign_in", "failed"}

Due == {"pending", "retry", "waiting_for_sign_in"}
RowStates == Due \cup {"none", "leased", "failed", "synced"}
NoRow == [state |-> "none", attempt |-> 0, lapsed |-> FALSE, gen |-> 0]
NoDraft == [gen |-> 0, draft |-> 0, sheet |-> 0, saves |-> {}, sends |-> {}]
Idle == [pc |-> "idle"]
Absent == [is |-> "none", by |-> NoOne]

Init ==
  /\ session = NoOne /\ active = {}
  /\ composer = [p \in Profiles |-> NoDraft]
  /\ row = [c \in Captures |-> NoRow]
  /\ uploaded = {}
  /\ drain = [p \in Profiles |-> Idle]
  /\ net = {} /\ sealing = {}
  /\ server = [c \in Captures |-> Absent]
  /\ upload = [a \in Attachments |-> "none"]

AttachmentsOf(c) == {a \in Attachments : CaptureOf[a] = c}
Missing(c) == AttachmentsOf(c) \ uploaded

\* authorizesCaptureProfile, with the engine's own list of active profiles
Authorized(p) == p \in active /\ session = p

-----------------------------------------------------------------------------
(* The session, seen from the outbox.                                      *)

\* acceptVerifiedSession: the previous owner's engine stops first.
SignIn(p) ==
  /\ session' = p /\ session # p
  /\ active' = active \ {session}
  /\ UNCHANGED <<composer, row, uploaded, drain, net, remote>>

SignOut ==
  /\ session # NoOne /\ session' = NoOne
  /\ active' = active \ {session}
  /\ UNCHANGED <<composer, row, uploaded, drain, net, remote>>

\* A refresh the server refuses clears the session under a running engine.
SessionLost ==
  /\ session # NoOne /\ session' = NoOne
  /\ UNCHANGED <<active, composer, row, uploaded, drain, net, remote>>

\* activate: a profile that is no longer signed in is deactivated instead.
Activate(p) ==
  /\ active' = IF session = p THEN active \cup {p} ELSE active \ {p}
  /\ UNCHANGED <<session, composer, row, uploaded, drain, net, remote>>

Deactivate(p) ==
  /\ active' = active \ {p}
  /\ UNCHANGED <<session, composer, row, uploaded, drain, net, remote>>

\* The app is killed: what was in memory is gone, what was sent is not.
Crash ==
  /\ active' = {} /\ drain' = [p \in Profiles |-> Idle]
  /\ composer' = [p \in Profiles |-> [composer[p] EXCEPT !.sheet = 0, !.saves = {}, !.sends = {}]]
  /\ UNCHANGED <<session, row, uploaded, net, remote>>

-----------------------------------------------------------------------------
(* The composer.  A session of a sheet owns one draft generation; calls it *)
(* makes are served in any order, also after the sheet is gone.            *)

Composer(p, next) ==
  /\ composer' = [composer EXCEPT ![p] = next]
  /\ UNCHANGED <<session, active, uploaded, drain, net, remote>>

\* prepareCapture, editCapture
OpenSheet(p) ==
  LET k == composer[p] IN
  /\ session = p /\ k.gen < MaxGeneration
  /\ Composer(p, [k EXCEPT !.gen = @ + 1, !.sheet = k.gen + 1])
  /\ UNCHANGED row

\* The debounced autosave of the sheet's text.
Autosave(p) ==
  LET k == composer[p] IN
  /\ session = p /\ k.sheet # 0
  /\ Composer(p, [k EXCEPT !.saves = @ \cup {k.sheet}])
  /\ UNCHANGED row

\* (mutant) an autosave is stored whatever generation it was made for
SaveDraftUnguarded(p, g) ==
  LET k == composer[p] IN
  /\ g \in k.saves
  /\ Composer(p, [k EXCEPT !.saves = @ \ {g}, !.draft = g])
  /\ UNCHANGED row

\* saveComposerDraft; an emptied text deletes the draft.
SaveDraft(p, g) ==
  LET k == composer[p] IN
  /\ g \in k.saves
  /\ \E text \in {0, g} :
       Composer(p, [k EXCEPT !.saves = @ \ {g}, !.draft = IF k.gen = g THEN text ELSE @])
  /\ UNCHANGED row

\* removeComposerDraft
Discard(p) ==
  LET k == composer[p] IN
  /\ session = p /\ k.sheet # 0
  /\ Composer(p, IF k.gen = k.sheet THEN [k EXCEPT !.sheet = 0, !.gen = @ + 1, !.draft = 0]
                 ELSE [k EXCEPT !.sheet = 0])
  /\ UNCHANGED row

\* saveCapture, up to the guard of enqueue; the sheet may send again.
Send(p, c) ==
  LET k == composer[p] IN
  /\ session = p /\ Owner[c] = p /\ row[c].state = "none" /\ k.sheet # 0
  /\ Composer(p, [k EXCEPT !.sends = @ \cup {<<c, k.sheet>>}])
  /\ UNCHANGED row

\* enqueue(removingComposerDraftFor:): one transaction for entry and draft.
Enqueue(p, c, g) ==
  LET k == composer[p] IN
  /\ <<c, g>> \in k.sends
  /\ IF k.gen = g /\ row[c].state = "none"
     THEN /\ row' = [row EXCEPT ![c] = [NoRow EXCEPT !.state = "pending", !.gen = g]]
          /\ Composer(p, [k EXCEPT !.sends = @ \ {<<c, g>>}, !.draft = 0, !.gen = g + 1])
     ELSE UNCHANGED row /\ Composer(p, [k EXCEPT !.sends = @ \ {<<c, g>>}])

\* enqueueAgain: an entry that did not come from the composer.
EnqueueAgain(c) ==
  /\ session = Owner[c] /\ row[c].state = "none"
  /\ \A p \in Profiles, g \in 1..MaxGeneration : <<c, g>> \notin composer[p].sends
  /\ row' = [row EXCEPT ![c] = [NoRow EXCEPT !.state = "pending"]]
  /\ UNCHANGED <<session, active, composer, uploaded, drain, net, remote>>

-----------------------------------------------------------------------------
(* Transitions of one outbox row.                                          *)

\* (mutant) the limit is the last attempt still allowed
AtLimitExceeded(r) == r.attempt > MaxAttempts

AtLimit(r) == r.attempt >= MaxAttempts

\* The lease ends; at the limit for good.
Retires(r, otherwise) ==
  [r EXCEPT !.lapsed = FALSE, !.state = IF AtLimit(r) THEN "failed" ELSE otherwise]

RecoverExpiredLease(r) == Retires(r, "retry")
MarkWaitingForSignIn(r) == Retires(r, "waiting_for_sign_in")

MarkRetry(r, counts) ==
  IF counts THEN Retires(r, "retry")
  ELSE [r EXCEPT !.lapsed = FALSE, !.state = "retry", !.attempt = @ - 1]

\* markFailed, markSynced
TransitionLease(r, state) == [r EXCEPT !.lapsed = FALSE, !.state = state]

\* retryFailedCapture
RetryFailed(c) ==
  /\ session = Owner[c] /\ row[c].state = "failed"
  /\ row' = [row EXCEPT ![c] = [@ EXCEPT !.state = "retry", !.attempt = 0]]
  /\ UNCHANGED <<session, active, composer, uploaded, drain, net, remote>>

\* The 120 seconds of a lease pass.
Lapse(c) ==
  /\ row[c].state = "leased" /\ ~row[c].lapsed
  /\ row' = [row EXCEPT ![c].lapsed = TRUE]
  /\ UNCHANGED <<session, active, composer, uploaded, drain, net, remote>>

-----------------------------------------------------------------------------
(* drain and submit: one action between two awaits.                        *)

D(p) == drain[p]
Goes(p, next) == drain' = [drain EXCEPT ![p] = next]
At(p, pc) == [D(p) EXCEPT !.pc = pc]
Fails(p, why) == [D(p) EXCEPT !.pc = "failing", !.why = why]

\* An awaiting step of the phone that touches neither rows nor the server.
Hop == UNCHANGED <<session, active, composer, row, uploaded, remote>>

\* The step that ends an entry's turn; a write made with try? may be lost.
Writes(c, r) ==
  /\ row' \in {row, [row EXCEPT ![c] = IF row[c].state = "leased" THEN r ELSE @]}
  /\ UNCHANGED <<session, active, composer, uploaded, net, remote>>

Start(p) ==
  /\ D(p).pc = "idle" /\ Authorized(p)
  /\ Goes(p, [pc |-> "next"])
  /\ UNCHANGED <<session, active, composer, uploaded, net, remote>>

\* (mutant) a drain does not look for expired leases
RecoveredNever(p) == IF p \in Profiles THEN row ELSE row

Recovered(p) ==
  [c \in Captures |-> IF Owner[c] = p /\ row[c].lapsed THEN RecoverExpiredLease(row[c])
                      ELSE row[c]]

\* The drain begins by recovering expired leases, unless that write fails.
StartRecovering(p) == Start(p) /\ row' = Recovered(p)
StartOnly(p) == Start(p) /\ UNCHANGED row

Claimable(p) == {c \in Captures : /\ Owner[c] = p /\ row[c].state \in Due
                                  /\ ~AtLimit(row[c])}

\* claimNext
Claim(p, c) ==
  /\ D(p).pc = "next" /\ Authorized(p) /\ c \in Claimable(p)
  /\ row' = [row EXCEPT ![c] = [row[c] EXCEPT !.state = "leased", !.attempt = @ + 1]]
  /\ Goes(p, [pc |-> "claimed", c |-> c, by |-> NoOne, att |-> {}, fresh |-> FALSE, why |-> "none"])
  /\ UNCHANGED <<session, active, composer, uploaded, net, remote>>

\* Nothing left to claim, or the guard of the loop.
Stop(p) ==
  /\ D(p).pc = "next" /\ (~Authorized(p) \/ Claimable(p) = {})
  /\ Goes(p, Idle) /\ Hop /\ UNCHANGED net

\* The guards between the claim and the submission.
Recheck(p) ==
  /\ D(p).pc = "claimed"
  /\ IF Authorized(p) THEN Goes(p, At(p, "token")) /\ Hop /\ UNCHANGED net
     ELSE Goes(p, Idle) /\ Writes(D(p).c, MarkWaitingForSignIn(row[D(p).c]))

\* (mutant) the token of whoever is signed in now
TakeAnyToken(p) ==
  /\ D(p).pc = "token"
  /\ \/ session # NoOne /\ Goes(p, [At(p, "upload") EXCEPT !.by = session])
     \/ Goes(p, Fails(p, "auth"))
  /\ Hop /\ UNCHANGED net

\* captureAccessToken: of this profile or none; its refresh may fail, and so
\* may the read of the attachments after it.
TakeToken(p) ==
  /\ D(p).pc = "token"
  /\ \/ session = p /\ Goes(p, [At(p, "upload") EXCEPT !.by = p])
     \/ Goes(p, Fails(p, "auth"))
     \/ session = p /\ \E why \in {"silent", "verdict", "local"} : Goes(p, Fails(p, why))
  /\ Hop /\ UNCHANGED net

Creating(p) == [is |-> "create", c |-> D(p).c, by |-> D(p).by]

SendUpload(p, a) ==
  /\ D(p).pc = "upload" /\ a \in Missing(D(p).c)
  /\ Goes(p, [At(p, "uploading") EXCEPT !.att = {a}])
  /\ net' = net \cup {[is |-> "upload", a |-> a, by |-> D(p).by]}
  /\ Hop

\* markAttachmentUploaded; a local failure is an error of its own.
MarkUploaded(p) ==
  /\ D(p).pc = "uploaded"
  /\ \/ uploaded' = uploaded \cup D(p).att /\ Goes(p, At(p, "upload"))
     \/ UNCHANGED uploaded /\ Goes(p, Fails(p, "local"))
  /\ UNCHANGED <<session, active, composer, row, net, remote>>

SendCreate(p) ==
  /\ D(p).pc = "upload" /\ Missing(D(p).c) = {}
  /\ Goes(p, At(p, "creating"))
  /\ net' = net \cup {Creating(p)}
  /\ Hop

\* refreshCaptureAccessToken after a 401 of the create, once; a reply that it
\* failed counts as an attempt, no reply does not.
Refresh(p) ==
  /\ D(p).pc = "refresh"
  /\ \/ /\ session = p
        /\ Goes(p, [At(p, "creating") EXCEPT !.by = p, !.fresh = TRUE])
        /\ net' = net \cup {[Creating(p) EXCEPT !.by = p]}
     \/ Goes(p, Fails(p, "auth")) /\ UNCHANGED net
     \/ session = p /\ (\E why \in {"silent", "verdict"} : Goes(p, Fails(p, why))) /\ UNCHANGED net
  /\ Hop

\* markSynced, after the acknowledgement was checked.
MarkSynced(p) ==
  /\ D(p).pc = "acked"
  /\ \/ /\ row[D(p).c].state = "leased"
        /\ row' = [row EXCEPT ![D(p).c] = TransitionLease(@, "synced")]
        /\ Goes(p, [pc |-> "next"])
     \/ UNCHANGED row /\ Goes(p, Fails(p, "local"))
  /\ UNCHANGED <<session, active, composer, uploaded, net, remote>>

\* The catch of submit.
HandleError(p) ==
  /\ D(p).pc = "failing"
  /\ Goes(p, IF D(p).why = "auth" THEN Idle ELSE [pc |-> "next"])
  /\ LET r == row[D(p).c] IN
     Writes(D(p).c, CASE D(p).why = "auth" -> MarkWaitingForSignIn(r)
                      [] D(p).why = "permanent" -> TransitionLease(r, "failed")
                      [] D(p).why = "silent" -> MarkRetry(r, FALSE)
                      [] OTHER -> MarkRetry(r, TRUE))

\* The request times out, or the network or the server's gateway drops it.
GiveUp(p) ==
  /\ D(p).pc \in {"uploading", "creating"}
  /\ Goes(p, Fails(p, "silent")) /\ Hop /\ UNCHANGED net

-----------------------------------------------------------------------------
(* The server.  A handler's answer reaches the drain if it still waits for *)
(* one of this request.                                                    *)

Served(m) == Owner[IF m.is = "create" THEN m.c ELSE CaptureOf[m.a]]
Waits(m) ==
  LET d == D(Served(m)) IN
  \/ m.is = "create" /\ d.pc = "creating" /\ d.c = m.c /\ d.by = m.by
  \/ m.is = "upload" /\ d.pc = "uploading" /\ d.att = {m.a} /\ d.by = m.by

Answered(m, answer) ==
  LET p == Served(m) IN
  CASE answer = "ok" -> At(p, IF m.is = "create" THEN "acked" ELSE "uploaded")
    [] answer = "unauthorized" ->
         IF m.is = "create" /\ ~D(p).fresh THEN At(p, "refresh") ELSE Fails(p, "auth")
    [] OTHER -> Fails(p, answer)

Answer(m, answer) ==
  IF Waits(m) THEN drain' = [drain EXCEPT ![Served(m)] = Answered(m, answer)]
  ELSE UNCHANGED drain

ServerOnly == UNCHANGED <<session, active, composer, row, uploaded, net>>

\* Refused before anything is read: token, quota, validation, maintenance.
Refuse(m, answer) ==
  /\ m \in net /\ Waits(m)
  /\ Answer(m, answer)
  /\ ServerOnly /\ UNCHANGED remote

\* createAttachment: inserted once by its id, refused when it was deleted.
CreateAttachment(m) ==
  /\ m \in net /\ m.is = "upload"
  /\ IF upload[m.a] = "gone" THEN Answer(m, "verdict") /\ UNCHANGED upload
     ELSE /\ Answer(m, "ok")
          /\ upload' = [upload EXCEPT ![m.a] = IF @ = "none" THEN "unbound" ELSE @]
  /\ ServerOnly /\ UNCHANGED <<sealing, server>>

Replayable(m) == server[m.c] = [is |-> "stored", by |-> m.by]

\* createCapture: findExisting answers a capture this owner already has.
FindExisting(m) ==
  /\ m \in net /\ m.is = "create"
  /\ IF Replayable(m) THEN Answer(m, "ok") /\ UNCHANGED sealing
     ELSE sealing' = sealing \cup {m} /\ UNCHANGED drain
  /\ ServerOnly /\ UNCHANGED <<server, upload>>

Unbound(c) == \A a \in AttachmentsOf(c) : upload[a] = "unbound"
Accept(m) ==
  /\ server' = [server EXCEPT ![m.c] = [is |-> "stored", by |-> m.by]]
  /\ upload' = [a \in Attachments |-> IF CaptureOf[a] = m.c THEN "bound" ELSE upload[a]]

\* create_encrypted_capture_with_job: accepts the capture, its job and its
\* attachments at once; a loser of the race re-reads and replays.
CreateCapture(m) ==
  /\ m \in sealing /\ sealing' = sealing \ {m}
  /\ \/ server[m.c].is = "none" /\ Unbound(m.c) /\ Accept(m) /\ Answer(m, "ok")
     \/ /\ server[m.c].is = "none" /\ ~Unbound(m.c)
        /\ UNCHANGED <<server, upload>> /\ Answer(m, "permanent")
     \/ /\ server[m.c].is # "none"
        /\ UNCHANGED <<server, upload>>
        /\ Answer(m, IF Replayable(m) THEN "ok" ELSE "verdict")
  /\ ServerOnly

\* The owner deletes the capture, on the phone or elsewhere.
DeleteCapture(c) ==
  /\ server[c].is = "stored"
  /\ server' = [server EXCEPT ![c].is = "deleted"]
  /\ upload' = [a \in Attachments |-> IF CaptureOf[a] = c THEN "gone" ELSE upload[a]]
  /\ UNCHANGED <<session, active, composer, row, uploaded, drain, net, sealing>>

-----------------------------------------------------------------------------
Compose(p) ==
  \/ OpenSheet(p) \/ Autosave(p) \/ Discard(p)
  \/ \E g \in 1..MaxGeneration : SaveDraft(p, g)
  \/ \E c \in Captures : Send(p, c) \/ \E g \in 1..MaxGeneration : Enqueue(p, c, g)

Submit(p) ==
  \/ Stop(p) \/ Recheck(p) \/ TakeToken(p) \/ MarkUploaded(p) \/ SendCreate(p)
  \/ Refresh(p) \/ MarkSynced(p) \/ HandleError(p)
  \/ \E c \in Captures : Claim(p, c)
  \/ \E a \in Attachments : SendUpload(p, a)

Serve(m) == CreateAttachment(m) \/ FindExisting(m) \/ CreateCapture(m)

Next ==
  \/ SignOut \/ SessionLost \/ Crash
  \/ \E p \in Profiles :
       \/ SignIn(p) \/ Activate(p) \/ Deactivate(p)
       \/ Compose(p) \/ StartOnly(p) \/ StartRecovering(p) \/ Submit(p) \/ GiveUp(p)
  \/ \E c \in Captures : EnqueueAgain(c) \/ RetryFailed(c) \/ Lapse(c) \/ DeleteCapture(c)
  \/ \E m \in net : \/ Serve(m)
                    \/ \E answer \in {"unauthorized", "verdict", "permanent"} : Refuse(m, answer)

Spec == Init /\ [][Next]_vars

\* The phone with nothing submitted: the composer's own behaviours.
ComposeNext ==
  \/ SignOut \/ Crash
  \/ \E p \in Profiles : SignIn(p) \/ Compose(p)
  \/ \E c \in Captures : EnqueueAgain(c)

ComposeSpec == Init /\ [][ComposeNext]_vars

-----------------------------------------------------------------------------
(* Properties.                                                             *)

TypeOK ==
  /\ session \in Profiles \cup {NoOne} /\ active \subseteq Profiles
  /\ \A p \in Profiles : composer[p].gen \in 0..(MaxGeneration + 1)
  /\ \A c \in Captures : row[c].state \in RowStates /\ row[c].attempt \in 0..MaxAttempts
  /\ uploaded \subseteq Attachments
  /\ sealing \subseteq net
  /\ \A c \in Captures : server[c].is \in {"none", "stored", "deleted"}
  /\ \A a \in Attachments : upload[a] \in {"none", "unbound", "bound", "gone"}

\* A capture leaves the phone only under the account it was written in,
\* whatever sign-outs, switches and refreshes fall between claim and send.
OnlyUnderItsProfile == \A m \in net : m.by = Served(m)

\* An entry shown as synced, and an attachment not to be sent again, are with
\* the server: the capture was accepted under its owner with every attachment.
SyncedMeansAccepted ==
  /\ \A c \in Captures : row[c].state = "synced" =>
       /\ server[c].is # "none" /\ server[c].by = Owner[c]
       /\ \A a \in AttachmentsOf(c) : upload[a] \in {"bound", "gone"}
  /\ \A a \in uploaded : upload[a] # "none"

\* Retries after lost replies, handlers that race and requests that come late
\* create a capture at most once, and never bring a deleted one back.
AcceptedStep ==
  \A c \in Captures : server'[c] # server[c] =>
    \/ server[c].is = "none" /\ server'[c].is = "stored"
    \/ server[c].is = "stored" /\ server'[c] = [server[c] EXCEPT !.is = "deleted"]

\* An autosave that lands after its sheet's text was sent does not bring the
\* draft back.
DraftNeverReturns ==
  \A c \in Captures : row[c].gen # 0 => composer[Owner[c]].draft # row[c].gen

\* One sheet sends one capture, however often its button was pressed.
SentOnce ==
  \A c, d \in Captures :
    row[c].gen # 0 /\ Owner[c] = Owner[d] /\ row[c].gen = row[d].gen => c = d

\* An entry the server holds is never offered again to a drain once synced,
\* and only the owner's Retry takes an entry out of failed.
SettledStep ==
  \A c \in Captures :
    /\ row[c].state = "synced" => row'[c] = row[c]
    /\ row[c].state = "failed" /\ row'[c].state # "failed" =>
         row'[c].state = "retry" /\ row'[c].attempt = 0 /\ session = Owner[c]

\* While its owner stays signed in with the app in front and the network
\* holds, every entry is accepted or shown as failed.
Offline(p) ==
  D(p).pc # "failing" /\ D(p)'.pc = "failing" /\ D(p)'.why = "silent"
EveryEntrySettles ==
  \A c \in Captures :
    (<>[]Authorized(Owner[c]) /\ <>[][~Offline(Owner[c])]_vars) =>
      (row[c].state \in Due \cup {"leased"} ~> row[c].state \in {"synced", "failed"})
=============================================================================
