-------------------------------- MODULE Phone --------------------------------
(***************************************************************************)
(* The phone: its capture outbox, its composer, its session and its        *)
(* search.  They share no state here, so one behaviour runs one of them,   *)
(* with the variables of the others off: what holds of each of these       *)
(* behaviours holds of the four side by side.                              *)
(***************************************************************************)
EXTENDS Integers

CONSTANTS
  Profiles, Captures, Attachments, Owner, CaptureOf, MaxAttempts,  \* CaptureOutbox
  Writers, Drafts, Writer, MaxGeneration,     \* its composer, by itself
  Users, Requests, MaxVersion, MaxFlights,    \* AuthSession
  Notes, MaxScore, Limit, MaxEdits, MaxPages, MaxSearches,         \* PhoneSearch
  NoOne, NoUser,
  Off                                         \* of a variable whose part does not run

VARIABLES
  part,  \* which of them runs
  session, active, composer, row, uploaded, drain, net, sealing, server, upload,
  held, vault, generation, flight, current, barrier, app, request, issued, live, signedOut,
  note, model, sent, answered

outboxVars == <<session, active, composer, row, uploaded, drain, net, sealing, server, upload>>
authVars == <<held, vault, generation, flight, current, barrier, app, request, issued, live,
              signedOut>>
searchVars == <<note, model, sent, answered>>
vars == <<part, outboxVars, authVars, searchVars>>

\* The outbox, without the composer's sheets.
Outbox == INSTANCE CaptureOutbox WITH MaxGeneration <- 0

\* Captures written in sheets that autosave; nothing is sent.
Composer == INSTANCE CaptureOutbox WITH
  Profiles <- Writers, Captures <- Drafts, Owner <- Writer,
  Attachments <- {}, CaptureOf <- << >>, MaxAttempts <- 1

Auth == INSTANCE AuthSession WITH session <- held

Search == INSTANCE PhoneSearch

ASSUME PhoneAssumption ==
  /\ Outbox!OutboxAssumption /\ Composer!OutboxAssumption /\ Auth!AuthAssumption
  /\ Search!SearchAssumption /\ Search!PagesAssumption

OutboxOff ==
  /\ session = Off /\ active = Off /\ composer = Off /\ row = Off /\ uploaded = Off
  /\ drain = Off /\ net = Off /\ sealing = Off /\ server = Off /\ upload = Off
AuthOff ==
  /\ held = Off /\ vault = Off /\ generation = Off /\ flight = Off /\ current = Off
  /\ barrier = Off /\ app = Off /\ request = Off /\ issued = Off /\ live = Off /\ signedOut = Off
SearchOff == note = Off /\ model = Off /\ sent = Off /\ answered = Off

Init ==
  \/ part = "outbox" /\ Outbox!Init /\ AuthOff /\ SearchOff
  \/ part = "composer" /\ Composer!Init /\ AuthOff /\ SearchOff
  \/ part = "auth" /\ OutboxOff /\ Auth!Init /\ SearchOff
  \/ part = "search" /\ OutboxOff /\ AuthOff /\ Search!Init

Next ==
  \/ part = "outbox" /\ Outbox!Next /\ UNCHANGED <<part, authVars, searchVars>>
  \/ part = "composer" /\ Composer!ComposeNext /\ UNCHANGED <<part, authVars, searchVars>>
  \/ part = "auth" /\ Auth!Next /\ UNCHANGED <<part, outboxVars, searchVars>>
  \/ part = "search" /\ Search!Next /\ UNCHANGED <<part, outboxVars, authVars>>

Spec == Init /\ [][Next]_vars

-----------------------------------------------------------------------------

\* Every variable has the values its component gives it.
TypeOK ==
  /\ part = "outbox" => Outbox!TypeOK
  /\ part = "composer" => Composer!TypeOK
  /\ part = "auth" => Auth!TypeOK
  /\ part = "search" => Search!TypeOK

\* A capture leaves the phone only under the account it was written in,
\* whatever sign-outs, switches and refreshes fall between claim and send; and
\* an entry shown as synced, or an attachment not to be sent again, is with the
\* server: the capture was accepted under its owner with every attachment.
DeliveredUnderItsProfile ==
  part = "outbox" => Outbox!OnlyUnderItsProfile /\ Outbox!SyncedMeansAccepted

\* Retries after lost replies, handlers that race and requests that come late
\* create a capture at most once and never bring a deleted one back; a synced
\* entry is never offered again to a drain, and only the owner's Retry takes
\* an entry out of failed.
AcceptedOnce == [][part = "outbox" => Outbox!AcceptedStep /\ Outbox!SettledStep]_vars

\* One sheet sends one capture, however often its button was pressed, and an
\* autosave that lands after its text was sent does not bring the draft back.
OneSheetOneCapture == part = "composer" => Composer!SentOnce /\ Composer!DraftNeverReturns

\* The session is the owner's throughout.  Once the owner signed out, no late
\* refresh, restart or Keychain failure brings it back before somebody signs
\* in; a request retried after a 401 carries a token of the account and the
\* session generation it was made under; the requests of one session share one
\* refresh, whose token rotates; and the session in use is the one a restart
\* would find.
SessionIsTheOwners ==
  part = "auth" => /\ Auth!SignedOutStays /\ Auth!OneAccountPerRequest
                   /\ Auth!RefreshShared /\ Auth!SessionSurvivesRestart

\* The list is always that of the search asked for last, however late the
\* answers of earlier searches come, and a list without more results has every
\* note that matched when its first page was cut and has not changed since.
ListIsWhole == part = "search" => Search!ListIsOfThisSearch /\ Search!EndedIsComplete
=============================================================================
